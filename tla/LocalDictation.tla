--------------------------- MODULE LocalDictation ---------------------------
(***************************************************************************)
(* One LocalDictationController: microphone, segmenter, the serial queue   *)
(* of recognition, and the calls of its owner (the phone's panel or the    *)
(* Desktop's service), which may overlap in every way.                     *)
(*                                                                         *)
(* op[c] is a call under way, "at" what it waits for.  Starting waits in   *)
(* turn for the "permission" and the model "files", the "worker" and the   *)
(* "capture", or for the microphone to be closed again ("undo"); the other *)
(* calls wait for the "start" under way, the "mic" and the "tail" of the   *)
(* queue.  The code compares generations by equality only, so here each    *)
(* start and each queued phrase has a flag, "current", that an increment   *)
(* of the generation clears.                                               *)
(*                                                                         *)
(* Microphone, recogniser and text output are external: what is awaited    *)
(* ends at any time, well or not.  A continuation whose future is done     *)
(* runs before the owner's next call and the next sound (Idle).            *)
(***************************************************************************)
EXTENDS Sequences, Naturals

CONSTANTS
    Calls,          \* identities of calls: how many may overlap
    Models,
    None,
    MaxQueued       \* maxQueuedSegments

ASSUME NoneAssumption == None \notin Calls \cup Models
ASSUME QueueAssumption == MaxQueued \in Nat \ {0}

VARIABLES
    mic,            \* the microphone is open
    audioSub,       \* _audioSub receives its sound
    listening, busy, closing,
    model,          \* the configured model
    recognizer,     \* None or the model of _recognizer
    segment,        \* the phrase in the segmenter: none, open, or dropped
    tail,           \* the phrases queued for _decode, the first one under way
    op,             \* the calls under way
    startFuture, stopFuture,
    ended,          \* history: the last call that ended a session, once done
    mishaps         \* history: what the properties except

session == <<mic, audioSub, listening>>
futures == <<startFuture, stopFuture>>
models == <<model, recognizer>>
dictationVars == <<session, busy, closing, models, segment, tail, op, futures, ended,
          mishaps>>

\* Null: no call.  "at" is what a call waits for: "permission", "files",
\* "worker", "capture" or "undo" in a start, "start", "mic" or "tail" in the
\* others.  "on" is the start waited for, "ahead" how many phrases.
NoCall == [kind |-> "none", at |-> "none", current |-> FALSE, model |-> None,
           on |-> None, ahead |-> 0, failed |-> FALSE]

Active == {c \in Calls : op[c] # NoCall}

DictationInit ==
    /\ mic = FALSE /\ audioSub = FALSE /\ listening = FALSE
    /\ busy = FALSE /\ closing = FALSE
    /\ model \in Models /\ recognizer = None
    /\ segment = "none" /\ tail = <<>>
    /\ op = [c \in Calls |-> NoCall]
    /\ startFuture = None /\ stopFuture = None
    /\ ended = "none" /\ mishaps = {}

-----------------------------------------------------------------------------
(* ++_generation, for the calls and the phrases that carry the old one.    *)
Stale(ops) == [c \in Calls |-> [ops[c] EXCEPT !.current = FALSE]]
Outdated(queue) == [i \in DOMAIN queue |-> [queue[i] EXCEPT !.current = FALSE]]

(* BOUND: a start overlaps, or a microphone is stuck, not both.            *)
Mishap(what) == mishaps \subseteq {what} /\ mishaps' = mishaps \cup {what}

(* What a call that ends the session has to drop: every phrase that is not *)
(* yet being delivered.  This is history, kept with the phrase.            *)
Drop(queue) ==
    [i \in DOMAIN queue |->
        IF queue[i].at = "delivering" \/ queue[i].fate # "live" THEN queue[i]
        ELSE [queue[i] EXCEPT !.fate = "dropped"]]
Dropped == IF segment = "open" THEN "dropped" ELSE segment

At(kind, step) == [NoCall EXCEPT !.kind = kind, !.at = step]

AwaitedDone(c) == \/ op[c].at = "start" /\ op[op[c].on] = NoCall
                  \/ op[c].at = "tail" /\ op[c].ahead = 0

Idle ==
    /\ \A c \in Calls : ~AwaitedDone(c)
    /\ tail # <<>> => tail[1].at # "queued"

New(c) == Idle /\ op[c] = NoCall

(* _enqueue of the phrase in the segmenter.                                *)
Full == Len(tail) >= MaxQueued

Enqueued ==
    IF Full THEN tail
    ELSE Append(tail, [current |-> TRUE, at |-> "queued",
                       fate |-> IF segment = "dropped" THEN "unfinished"
                                ELSE "live"])

-----------------------------------------------------------------------------
(* Starting.                                                               *)

Start(c) ==
    /\ New(c) /\ ~closing /\ ~listening /\ ~busy
    /\ busy' = TRUE
    /\ op' = [Stale(op) EXCEPT ![c] = [At("start", "permission")
                                          EXCEPT !.current = TRUE]]
    /\ tail' = Drop(Outdated(tail)) /\ segment' = Dropped
    /\ startFuture' = c
    /\ ended' = "none"
    /\ IF \E x \in Active : op[x].kind # "configure" \/ op[x].at # "tail"
       THEN Mishap("overlap") ELSE UNCHANGED mishaps
    /\ UNCHANGED <<session, closing, models, stopFuture>>

\* The check after every await of a start or a decoding.
Current(item) == item.current /\ ~closing

(* The end of _start and, behind it, of the future of start().             *)
StartEnds(c) ==
    /\ busy' = FALSE
    /\ op' = [op EXCEPT ![c] = NoCall]
    /\ startFuture' = IF startFuture = c THEN None ELSE startFuture

Permitted(c) ==
    /\ op[c].at = "permission"
    /\ op' = [op EXCEPT ![c].at = "files", ![c].model = model]
    /\ UNCHANGED <<session, busy, closing, models, segment, tail, futures,
                   ended, mishaps>>

OpenCapture(c) ==
    /\ op' = [op EXCEPT ![c].at = "capture", ![c].model = None]
    /\ segment' = "none"

FilesFound(c) ==
    /\ op[c].at = "files"
    /\ \/ ~Current(op[c]) /\ StartEnds(c) /\ UNCHANGED segment
       \/ /\ Current(op[c])
          /\ \/ /\ recognizer = None
                /\ op' = [op EXCEPT ![c].at = "worker"] /\ UNCHANGED segment
             \/ recognizer # None /\ OpenCapture(c)
          /\ UNCHANGED <<busy, startFuture>>
    /\ UNCHANGED <<session, closing, models, tail, stopFuture, ended, mishaps>>

(* A worker that is no longer wanted is disposed of.                       *)
WorkerReady(c) ==
    /\ op[c].at = "worker"
    /\ \/ ~Current(op[c]) /\ StartEnds(c) /\ UNCHANGED <<recognizer, segment>>
       \/ /\ Current(op[c])
          /\ recognizer' = op[c].model
          /\ OpenCapture(c)
          /\ UNCHANGED <<busy, startFuture>>
    /\ UNCHANGED <<session, closing, model, tail, stopFuture, ended, mishaps>>

\* Mutant of CaptureStarted: a start that was overtaken leaves the microphone on.
CaptureStartedLeaks(c) ==
    /\ op[c].at = "capture"
    /\ mic' = TRUE
    /\ audioSub' = Current(op[c]) /\ listening' = Current(op[c])
    /\ StartEnds(c)
    /\ UNCHANGED <<closing, models, segment, tail, stopFuture, ended, mishaps>>

CaptureStarted(c) ==
    /\ op[c].at = "capture"
    /\ mic' = TRUE
    /\ \/ /\ ~Current(op[c])
          /\ op' = [op EXCEPT ![c].at = "undo"]
          /\ UNCHANGED <<audioSub, listening, busy, startFuture>>
       \/ /\ Current(op[c])
          /\ audioSub' = TRUE /\ listening' = TRUE
          /\ StartEnds(c)
    /\ UNCHANGED <<closing, models, segment, tail, stopFuture, ended, mishaps>>

CaptureUndone(c) ==
    /\ op[c].at = "undo"
    /\ mic' = FALSE
    /\ StartEnds(c)
    /\ UNCHANGED <<audioSub, listening, closing, models, segment, tail,
                   stopFuture, ended, mishaps>>

(* No permission, no model, no worker, no microphone, or one that does     *)
(* not close.                                                              *)
StartFails(c) ==
    /\ op[c].kind = "start"
    /\ IF op[c].at = "undo" /\ mic THEN Mishap("stuck") ELSE UNCHANGED mishaps
    /\ StartEnds(c)
    /\ UNCHANGED <<session, closing, models, segment, tail, stopFuture, ended>>

-----------------------------------------------------------------------------
(* The owner's other calls.  Each first waits for a start under way, which *)
(* the new generation turns back, and goes on as "...Proceeds" says.       *)

AtTail(kind) == [At(kind, "tail") EXCEPT !.ahead = Len(tail)]

AwaitStart(c, kind, target) ==
    /\ startFuture # None
    /\ op' = [Stale(op) EXCEPT ![c] = [At(kind, "start") EXCEPT
                                          !.on = startFuture, !.model = target]]
    /\ UNCHANGED busy

StopProceeds(c) ==
    /\ listening
    /\ busy' = TRUE
    /\ op' = [op EXCEPT ![c] = At("stop", "mic")]
    /\ UNCHANGED tail

(* A second stop joins the first one.                                      *)
Stop(c) ==
    /\ New(c) /\ stopFuture = None
    /\ stopFuture' = c
    /\ \/ AwaitStart(c, "stop", None) /\ tail' = Outdated(tail)
       \/ startFuture = None /\ StopProceeds(c)
    /\ UNCHANGED <<session, closing, models, segment, startFuture, ended, mishaps>>

CancelProceeds(c, ops, phrase) ==
    \/ /\ listening
       /\ op' = [ops EXCEPT ![c] = At("cancel", "mic")]
       /\ segment' = phrase
       /\ UNCHANGED busy
    \/ /\ ~listening
       /\ op' = [ops EXCEPT ![c] = NoCall]
       /\ segment' = "none"
       /\ busy' = FALSE

\* Mutant of CancelWith: the generation stays the same.
CancelWithOldGeneration(c, phrase) ==
    /\ New(c)
    /\ tail' = Drop(tail)
    /\ \/ AwaitStart(c, "cancel", None) /\ segment' = phrase
       \/ startFuture = None /\ CancelProceeds(c, op, phrase)
    /\ UNCHANGED <<session, closing, models, futures, ended, mishaps>>

CancelWith(c, phrase) ==
    /\ New(c)
    /\ tail' = Drop(Outdated(tail))
    /\ \/ AwaitStart(c, "cancel", None) /\ segment' = phrase
       \/ startFuture = None /\ CancelProceeds(c, Stale(op), phrase)
    /\ UNCHANGED <<session, closing, models, futures, ended, mishaps>>

Cancel(c) == CancelWith(c, Dropped)

(* A session under way is cancelled.                                       *)
ConfigureProceeds(c, m) ==
    /\ \/ /\ listening
          /\ op' = [Stale(op) EXCEPT ![c] = [At("configure", "mic") EXCEPT
                                                !.model = m]]
          /\ tail' = Drop(Outdated(tail)) /\ segment' = Dropped
       \/ /\ ~listening
          /\ op' = [op EXCEPT ![c] = [AtTail("configure") EXCEPT !.model = m]]
          /\ UNCHANGED <<tail, segment>>
    /\ UNCHANGED busy

Configure(c, m) ==
    /\ New(c) /\ ~closing
    /\ \/ AwaitStart(c, "configure", m) /\ tail' = Outdated(tail)
                                        /\ UNCHANGED segment
       \/ startFuture = None /\ ConfigureProceeds(c, m)
    /\ UNCHANGED <<session, closing, models, futures, ended, mishaps>>

CloseProceeds(c, ops) ==
    \/ /\ listening
       /\ busy' = TRUE
       /\ op' = [ops EXCEPT ![c] = At("close", "mic")]
       /\ UNCHANGED audioSub
    \/ /\ ~listening
       /\ op' = [ops EXCEPT ![c] = AtTail("close")]
       /\ audioSub' = FALSE
       /\ UNCHANGED busy

Close(c) ==
    /\ New(c) /\ ~closing
    /\ closing' = TRUE
    /\ tail' = Drop(Outdated(tail)) /\ segment' = Dropped
    /\ \/ AwaitStart(c, "close", None) /\ UNCHANGED audioSub
       \/ startFuture = None /\ CloseProceeds(c, Stale(op))
    /\ UNCHANGED <<mic, listening, models, futures, ended, mishaps>>

(* releaseRecognizer, before the files of the model are replaced.          *)
ReleaseRecognizer ==
    /\ Idle /\ ~listening /\ ~busy /\ tail = <<>>
    /\ recognizer' = None
    /\ UNCHANGED <<session, busy, closing, model, segment, tail, op, futures,
                   ended, mishaps>>

(* The start waited for is over.                                           *)
StartAwaited(c) ==
    /\ op[c].at = "start" /\ AwaitedDone(c)
    /\ \/ /\ op[c].kind = "stop"
          /\ \/ StopProceeds(c) /\ UNCHANGED stopFuture
             \/ /\ ~listening
                /\ op' = [op EXCEPT ![c] = NoCall] /\ stopFuture' = None
                /\ UNCHANGED <<busy, tail>>
          /\ UNCHANGED <<audioSub, segment>>
       \/ /\ op[c].kind = "cancel" /\ CancelProceeds(c, op, segment)
          /\ UNCHANGED <<audioSub, tail, stopFuture>>
       \/ /\ op[c].kind = "configure" /\ ConfigureProceeds(c, op[c].model)
          /\ UNCHANGED <<audioSub, stopFuture>>
       \/ /\ op[c].kind = "close" /\ CloseProceeds(c, op)
          /\ UNCHANGED <<segment, tail, stopFuture>>
    /\ UNCHANGED <<mic, listening, closing, models, startFuture, ended, mishaps>>

-----------------------------------------------------------------------------
(* The microphone is closed, or fails to: the session is over either way.  *)

MicCloses(fails) ==
    /\ mic' \in IF fails THEN {FALSE, mic} ELSE {FALSE}
    /\ audioSub' = FALSE /\ listening' = FALSE
    /\ IF mic' THEN Mishap("stuck") ELSE UNCHANGED mishaps

\* Mutant of StopMicClosed: what was said last is not waited for.
StopMicClosedHasty(c, fails) ==
    /\ op[c].at = "mic" /\ op[c].kind \in {"stop", "close"}
    /\ MicCloses(fails)
    /\ tail' = IF op[c].kind = "stop" /\ segment # "none" THEN Enqueued ELSE tail
    /\ segment' = "none"
    /\ op' = [op EXCEPT ![c].at = "tail", ![c].ahead = Len(tail),
                        ![c].failed = (fails /\ op[c].kind = "stop")]
    /\ UNCHANGED <<busy, closing, models, futures, ended>>

(* stop gives the phrase under way to the queue, close does not.           *)
StopMicClosed(c, fails) ==
    /\ op[c].at = "mic" /\ op[c].kind \in {"stop", "close"}
    /\ MicCloses(fails)
    /\ tail' = IF op[c].kind = "stop" /\ segment # "none" THEN Enqueued ELSE tail
    /\ segment' = "none"
    /\ op' = [op EXCEPT ![c].at = "tail", ![c].ahead = Len(tail'),
                        ![c].failed = (fails /\ op[c].kind = "stop")]
    /\ UNCHANGED <<busy, closing, models, futures, ended>>

(* A cancel that fails leaves "busy" as it is.                             *)
CancelMicClosed(c, fails) ==
    /\ op[c].at = "mic" /\ op[c].kind \in {"cancel", "configure"}
    /\ MicCloses(fails)
    /\ segment' = IF fails THEN segment ELSE "none"
    /\ busy' = (fails /\ busy)
    /\ op' = [op EXCEPT ![c] = IF op[c].kind = "configure" /\ ~fails
                               THEN [AtTail("configure") EXCEPT !.model = op[c].model]
                               ELSE NoCall]
    /\ UNCHANGED <<closing, models, tail, futures, ended>>

(* The phrases waited for are done, or decodeTimeout is over.              *)
StopEnds(c, late) ==
    /\ op[c].at = "tail" /\ op[c].kind = "stop"
    /\ late = (op[c].ahead > 0)
    /\ listening' = FALSE /\ busy' = FALSE
    /\ op' = [op EXCEPT ![c] = NoCall]
    /\ stopFuture' = None
    /\ ended' = IF late \/ op[c].failed THEN ended ELSE "stop"
    /\ UNCHANGED <<mic, audioSub, closing, models, segment, tail, startFuture,
                   mishaps>>

CloseEnds(c, late) ==
    /\ op[c].at = "tail" /\ op[c].kind = "close"
    /\ late = (op[c].ahead > 0)
    /\ mic' = FALSE /\ audioSub' = FALSE /\ listening' = FALSE /\ busy' = FALSE
    /\ recognizer' = None
    /\ op' = [op EXCEPT ![c] = NoCall]
    /\ ended' = "close"
    /\ UNCHANGED <<closing, model, segment, tail, futures, mishaps>>

\* Mutant of ConfigureEnds: the old model's worker is kept.
ConfigureEndsKeeps(c) ==
    /\ op[c].at = "tail" /\ op[c].kind = "configure" /\ op[c].ahead = 0
    /\ op' = [op EXCEPT ![c] = NoCall]
    /\ model' = op[c].model
    /\ mishaps' = mishaps \cup
         IF op[c].model # model /\ (listening \/ startFuture # None)
         THEN {"configure"} ELSE {}
    /\ UNCHANGED <<session, recognizer, busy, closing, segment, tail, futures,
                   ended>>

ConfigureEnds(c) ==
    /\ op[c].at = "tail" /\ op[c].kind = "configure" /\ op[c].ahead = 0
    /\ op' = [op EXCEPT ![c] = NoCall]
    /\ model' = op[c].model
    /\ recognizer' = IF op[c].model = model THEN recognizer ELSE None
    /\ mishaps' = mishaps \cup
         IF op[c].model # model /\ (listening \/ startFuture # None)
         THEN {"configure"} ELSE {}
    /\ UNCHANGED <<session, busy, closing, segment, tail, futures, ended>>

-----------------------------------------------------------------------------
(* Sound.                                                                  *)

Hears == Idle /\ mic /\ audioSub /\ listening /\ ~closing

Speak ==
    /\ Hears /\ segment = "none"
    /\ segment' = "open"
    /\ UNCHANGED <<session, busy, closing, models, tail, op, futures, ended,
                   mishaps>>

(* A phrase that finds the queue full is lost and the session cancelled.   *)
Pause ==
    /\ Hears /\ segment # "none" /\ ~Full
    /\ tail' = Enqueued
    /\ segment' = "none"
    /\ UNCHANGED <<session, busy, closing, models, op, futures, ended, mishaps>>

PauseFull(c) == Hears /\ segment # "none" /\ Full /\ CancelWith(c, "none")

(* The stream fails, or ends because the microphone was closed or is gone. *)
StreamFails(c) == Idle /\ mic /\ audioSub /\ Cancel(c)

StreamEnds(c) ==
    /\ Idle /\ audioSub
    /\ audioSub' = FALSE /\ mic' = FALSE
    /\ \/ /\ listening /\ ~closing /\ stopFuture = None
          /\ op[c] = NoCall
          /\ stopFuture' = c
          /\ \/ AwaitStart(c, "stop", None) /\ tail' = Outdated(tail)
             \/ startFuture = None /\ StopProceeds(c)
       \/ /\ ~listening \/ closing \/ stopFuture # None
          /\ UNCHANGED <<busy, tail, op, stopFuture>>
    /\ UNCHANGED <<listening, closing, models, segment, startFuture, ended,
                   mishaps>>

-----------------------------------------------------------------------------
(* The queue: _decode of one phrase after the other.                       *)

\* Mutant of Removed: who waits for the phrase is not told of its end.
RemovedUntold == tail' = Tail(tail) /\ UNCHANGED op

Removed ==
    /\ tail' = Tail(tail)
    /\ op' = [c \in Calls |->
                IF op[c].ahead > 0 THEN [op[c] EXCEPT !.ahead = @ - 1] ELSE op[c]]

Advance(step) == tail' = [tail EXCEPT ![1].at = step] /\ UNCHANGED op

BeginDecode ==
    /\ tail # <<>> /\ tail[1].at = "queued"
    /\ \/ ~Current(tail[1]) /\ Removed
       \/ Current(tail[1]) /\ recognizer = None /\ Removed
       \/ Current(tail[1]) /\ recognizer # None /\ Advance("decoding")
    /\ UNCHANGED <<session, busy, closing, models, segment, futures, ended, mishaps>>

(* Recognition ends with a text, with none, with an error or by timeout.   *)
Decoded ==
    /\ tail # <<>> /\ tail[1].at = "decoding"
    /\ \/ Current(tail[1]) /\ Advance("delivering")
       \/ Removed
    /\ UNCHANGED <<session, busy, closing, models, segment, futures, ended, mishaps>>

(* onText has returned or thrown.                                          *)
Delivered ==
    /\ tail # <<>> /\ tail[1].at = "delivering"
    /\ Removed
    /\ UNCHANGED <<session, busy, closing, models, segment, futures, ended, mishaps>>

-----------------------------------------------------------------------------
(* What is awaited ends in the end; nobody has to call, speak or fail.     *)
Answered(c) ==
    \/ Permitted(c) \/ FilesFound(c) \/ WorkerReady(c) \/ CaptureStarted(c)
    \/ CaptureUndone(c) \/ StartFails(c)
    \/ \E fails \in BOOLEAN : StopMicClosed(c, fails) \/ CancelMicClosed(c, fails)

Resumed(c) ==
    \/ StartAwaited(c) \/ ConfigureEnds(c)
    \/ \E late \in BOOLEAN : StopEnds(c, late) \/ CloseEnds(c, late)

Recognition == BeginDecode \/ Decoded \/ Delivered

DictationNext ==
    \/ \E c \in Calls :
          \/ Start(c) \/ Stop(c) \/ Cancel(c) \/ Close(c)
          \/ \E m \in Models : Configure(c, m)
          \/ Answered(c) \/ Resumed(c)
          \/ PauseFull(c) \/ StreamFails(c) \/ StreamEnds(c)
    \/ ReleaseRecognizer \/ Speak \/ Pause
    \/ Recognition

DictationSpec == DictationInit /\ [][DictationNext]_dictationVars

DictationFairness ==
    /\ \A c \in Calls : WF_dictationVars(Answered(c)) /\ WF_dictationVars(Resumed(c))
    /\ WF_dictationVars(Recognition)

FairDictation == DictationSpec /\ DictationFairness

-----------------------------------------------------------------------------
(* A phrase that was waiting or being recognised when its session was      *)
(* cancelled, closed or succeeded by another is never delivered, whatever  *)
(* was under way at that moment.  One that was still being spoken may be:  *)
(* until the microphone is closed, sound is taken for the generation that  *)
(* cancel has just begun.                                                  *)
DroppedStaysDropped ==
    \A i \in DOMAIN tail : tail[i].at = "delivering" => tail[i].fate # "dropped"

(* The microphone is open only while "listening" says so, or until a start *)
(* that was overtaken has closed it again: unless it failed to close or a  *)
(* start was admitted while an earlier stop or cancel was not over.        *)
MicIsShown ==
    mic => \/ listening \/ \E c \in Calls : op[c].at = "undo"
           \/ {"overlap", "stuck"} \cap mishaps # {}

(* A session records for the configured model, unless that was changed     *)
(* while it ran, by a configure that was still waiting for old phrases.    *)
SessionHasModel ==
    listening => recognizer = model \/ {"overlap", "configure"} \cap mishaps # {}

(* After a stop that succeeded, or a close, until the next start: nothing  *)
(* is recorded; nothing is left to deliver after the stop, and no          *)
(* recogniser after the close.                                             *)
EndIsFinal ==
    mishaps = {} /\ ended # "none" =>
        /\ ~mic /\ ~listening
        /\ ended = "stop" => tail = <<>>
        /\ ended = "close" => recognizer = None

(* Calls wait for starts, for the microphone and for the queue, but never  *)
(* for each other for ever.                                                *)
CallsEnd == \A c \in Calls : op[c].at # "none" ~> op[c].at = "none"
=============================================================================
