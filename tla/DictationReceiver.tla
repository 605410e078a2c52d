-------------------------- MODULE DictationReceiver --------------------------
(***************************************************************************)
(* DictationReceiver of LumiaKey Desktop: requests of phones to insert a   *)
(* phrase, identified by session and sequence number.  Requests are        *)
(* admitted while fewer than MaxPending are pending, handled one after the *)
(* other, and remembered, the MaxRemembered least recently used ones       *)
(* excepted, so that a repeated request does not insert its text again.    *)
(***************************************************************************)
EXTENDS Naturals, Sequences, SequencesExt

CONSTANTS
    Requests,       \* HTTP requests that may arrive
    KeyOf,          \* request -> session:sequence
    TextOf,         \* request -> text
    Malformed,      \* requests that fail authentication or validation
    MaxPending,     \* 32
    MaxRemembered   \* maxRememberedRequests, 1024

ASSUME MaxAssumption == MaxPending \in Nat \ {0} /\ MaxRemembered \in Nat \ {0}
ASSUME MalformedAssumption == Malformed \subseteq Requests

VARIABLES
    phase,      \* request -> "new", "queued", "inserting" or "answered"
    reply,      \* request -> "none" or its answer
    queue,      \* _tail: pending requests in the order they wait
    seen,       \* _seen: remembered outcomes, least recently used first
    calls,      \* history: calls of the text sink, with their outcomes
    uses        \* history: keys remembered or looked up, in order

vars == <<phase, reply, queue, seen, calls, uses>>

Keys == {KeyOf[r] : r \in Requests}
Texts == {TextOf[r] : r \in Requests}
Replies == {"ok", "refused", "delivery_queue_full", "sequence_payload_conflict",
            "previous_insertion_failed", "input_busy", "insertion_failed"}
Outcomes == [key : Keys, text : Texts, succeeded : BOOLEAN]

SinkCalls == [request : Requests, status : {"ok", "input_busy", "insertion_failed"}, use : Nat]

TypeOK ==
    /\ phase \in [Requests -> {"new", "queued", "inserting", "answered"}]
    /\ reply \in [Requests -> Replies \cup {"none"}]
    /\ queue \in Seq(Requests) /\ Len(queue) <= MaxPending
    /\ seen \in Seq(Outcomes) /\ Len(seen) <= MaxRemembered
    /\ \A i, j \in DOMAIN seen : seen[i].key = seen[j].key => i = j
    /\ calls \in Seq(SinkCalls) /\ uses \in Seq(Keys)

Init ==
    /\ phase = [r \in Requests |-> "new"]
    /\ reply = [r \in Requests |-> "none"]
    /\ queue = <<>> /\ seen = <<>>
    /\ calls = <<>> /\ uses = <<>>

-----------------------------------------------------------------------------
Answer(r, status) ==
    /\ phase' = [phase EXCEPT ![r] = "answered"]
    /\ reply' = [reply EXCEPT ![r] = status]

Refuse(r) ==
    /\ phase[r] = "new" /\ r \in Malformed
    /\ Answer(r, "refused")
    /\ UNCHANGED <<queue, seen, calls, uses>>

Admit(r) ==
    /\ phase[r] = "new" /\ r \notin Malformed
    /\ Len(queue) < MaxPending
    /\ phase' = [phase EXCEPT ![r] = "queued"]
    /\ queue' = Append(queue, r)
    /\ UNCHANGED <<reply, seen, calls, uses>>

TurnAway(r) ==
    /\ phase[r] = "new" /\ r \notin Malformed
    /\ Len(queue) >= MaxPending
    /\ Answer(r, "delivery_queue_full")
    /\ UNCHANGED <<queue, seen, calls, uses>>

(* The turn of r has come: every earlier request has ended.                *)
Turn(r) == phase[r] = "queued" /\ r = Head(queue)

\* Where the outcome of the key of r is remembered, if it is: at most one place.
Places(r) == {i \in DOMAIN seen : seen[i].key = KeyOf[r]}

(* Mutant of Touch: a repeated request does not renew its key.             *)
TouchNothing(i) == UNCHANGED seen

(* _touch: a remembered key becomes the most recently used.                *)
Touch(i) == seen' = Append(RemoveAt(seen, i), seen[i])

(* Mutant of Known: the remembered text is not compared.                   *)
KnownAnyText(r, outcome) ==
    IF outcome.succeeded THEN "ok" ELSE "previous_insertion_failed"

Known(r, outcome) ==
    IF outcome.text # TextOf[r] THEN "sequence_payload_conflict"
    ELSE IF outcome.succeeded THEN "ok"
    ELSE "previous_insertion_failed"

Repeat(r) ==
    /\ Turn(r)
    /\ \E i \in Places(r) : Answer(r, Known(r, seen[i])) /\ Touch(i)
    /\ queue' = Tail(queue)
    /\ uses' = Append(uses, KeyOf[r])
    /\ UNCHANGED calls

BeginInsert(r) ==
    /\ Turn(r) /\ Places(r) = {}
    /\ phase' = [phase EXCEPT ![r] = "inserting"]
    /\ UNCHANGED <<reply, queue, seen, calls, uses>>

(* _remember drops the least recently used keys beyond the bound.          *)
Remember(r, succeeded) ==
    LET all == Append(seen, [key |-> KeyOf[r], text |-> TextOf[r], succeeded |-> succeeded])
    IN  seen' = IF Len(all) > MaxRemembered THEN Tail(all) ELSE all

(* Mutant of EndInsert: after a failure nothing wakes the next request.   *)
EndInsertKeepsTurn(r, status) ==
    /\ phase[r] = "inserting"
    /\ status \in {"ok", "input_busy", "insertion_failed"}
    /\ Remember(r, status = "ok")
    /\ Answer(r, status)
    /\ queue' = IF status = "ok" THEN Tail(queue) ELSE queue
    /\ UNCHANGED <<calls, uses>>

(* The sink ends: all of the text was inserted, the user holds a modifier  *)
(* key and nothing was, or any part of it was.  Only the first is          *)
(* remembered as a success.                                                *)
EndInsert(r, status) ==
    /\ phase[r] = "inserting"
    /\ status \in {"ok", "input_busy", "insertion_failed"}
    /\ Remember(r, status = "ok")
    /\ Answer(r, status)
    /\ queue' = Tail(queue)
    /\ calls' = Append(calls, [request |-> r, status |-> status, use |-> Len(uses) + 1])
    /\ uses' = Append(uses, KeyOf[r])

Next ==
    \E r \in Requests :
        \/ Refuse(r) \/ Admit(r) \/ TurnAway(r)
        \/ Repeat(r) \/ BeginInsert(r)
        \/ \E status \in {"ok", "input_busy", "insertion_failed"} : EndInsert(r, status)

Spec == Init /\ [][Next]_vars

(* The chain of futures wakes the next request when one ends; the native   *)
(* injector returns.                                                       *)
Fairness ==
    \A r \in Requests :
        /\ WF_vars(Repeat(r)) /\ WF_vars(BeginInsert(r))
        /\ WF_vars(\E status \in {"ok", "input_busy", "insertion_failed"} :
                      EndInsert(r, status))

FairSpec == Spec /\ Fairness

-----------------------------------------------------------------------------
(***************************************************************************)
(* A phone is told "ok" only when exactly this text has been inserted      *)
(* completely for exactly this session and sequence number.                *)
(***************************************************************************)
AcknowledgedWasInserted ==
    \A r \in Requests : reply[r] = "ok" =>
        \E i \in DOMAIN calls :
            /\ calls[i].status = "ok"
            /\ KeyOf[calls[i].request] = KeyOf[r]
            /\ TextOf[calls[i].request] = TextOf[r]

(***************************************************************************)
(* "Duplicates ... never re-inject text": the text of a key reaches the    *)
(* sink a second time only after MaxRemembered other keys were used since  *)
(* the key was last used, even if the first attempt failed part way.       *)
(***************************************************************************)
ReplayNeedsFullWindow ==
    \A i \in DOMAIN calls :
        LET now == calls[i].use
        IN  \A e \in 1..(now - 1) :
                uses[e] = uses[now] =>
                    Cardinality({uses[j] : j \in (e + 1)..(now - 1)} \ {uses[now]})
                        >= MaxRemembered

(***************************************************************************)
(* Every admitted request is answered, whatever happens to the others.     *)
(***************************************************************************)
AdmittedIsAnswered ==
    \A r \in Requests : phase[r] = "queued" ~> phase[r] = "answered"
=============================================================================
