---------------------------- MODULE CompanionLink ----------------------------
(***************************************************************************)
(* The phone's link to a LumiaKey Desktop (LanCompanionService).           *)
(*                                                                         *)
(* Desktops broadcast the revision of their layout, the manifest.  The     *)
(* phone follows the first Desktop it hears until that one falls silent,   *)
(* or the one whose code the user entered, and fetches its manifest over   *)
(* HTTP when the advertised revision changes.  Every call yields while it  *)
(* waits, so broadcasts, the expiry timer, the user's choices and the      *)
(* answers of earlier requests interleave.                                 *)
(*                                                                         *)
(* A request answers with a revision the Desktop had at some time between  *)
(* its start ("from") and its end.  The selection epoch is modelled by a   *)
(* flag of the request, "current", that an increment of the epoch clears.  *)
(* Every increment also clears the noted refresh, whose epoch is therefore *)
(* always the present one and is left out.                                 *)
(***************************************************************************)
EXTENDS Naturals

CONSTANTS
    Desktops,       \* Desktops on the network, each address, port and token
    Plain,          \* those of them that serve no manifest (version 1)
    None,
    MaxRev,         \* bound on the changes of layouts, all Desktops together
    MaxFailures,    \* bound on requests that fail
    MaxExpiries,    \* bound on silences longer than hostExpiry
    MaxChoices,     \* bound on the user's choices of a connection
    MaxDelays       \* bound on broadcasts that arrive after a later revision

ASSUME PlainAssumption == Plain \subseteq Desktops
ASSUME BoundAssumption ==
    /\ MaxRev \in Nat /\ MaxFailures \in Nat /\ MaxExpiries \in Nat
    /\ MaxChoices \in Nat /\ MaxDelays \in Nat

VARIABLES
    rev,            \* Desktop -> revision of its manifest
    host,           \* _host: None or the selected Desktop as last advertised
    shown,          \* _manifest: None or the Desktop and revision displayed
    status,         \* _status
    heard,          \* _lastSeen is not null
    manual,         \* _manualConnectionSelected
    ticking,        \* _manualHeartbeat runs
    refresh,        \* None or the fetch of refreshManifest under way
    pendingRev,     \* _pendingRevision
    pendingHost,    \* _pendingManifestHost
    pairing,        \* None or the connectManually under way
    beat,           \* None or the _checkManualHost under way
    post,           \* None or the _post under way
    chosen,         \* history: the Desktop of the last connectManually
    spent           \* how much of the bounds is used

selection == <<host, shown, status, heard>>
refreshing == <<refresh, pendingRev, pendingHost>>
pairings == <<manual, ticking, pairing, beat, chosen>>
vars == <<rev, selection, refreshing, pairings, post, spent>>

Revisions == 0..MaxRev
Host == [d : Desktops, rev : Revisions]
Call == [host : Host, current : BOOLEAN, from : Revisions]
Steps == {"info", "manifest"}
Spent == [failures : 0..MaxFailures, expiries : 0..MaxExpiries,
          choices : 0..MaxChoices, delays : 0..MaxDelays, changes : 0..MaxRev]

ASSUME NoneAssumption == None \notin Desktops \cup Nat \cup Host \cup Call

TypeOK ==
    /\ rev \in [Desktops -> Revisions]
    /\ host \in Host \cup {None} /\ shown \in Host \cup {None}
    /\ status \in {"disconnected", "discovering", "syncing", "ready", "error"}
    /\ heard \in BOOLEAN /\ manual \in BOOLEAN /\ ticking \in BOOLEAN
    /\ refresh \in Call \cup {None} /\ post \in Call \cup {None}
    /\ pendingRev \in Revisions \cup {None} /\ pendingHost \in Host \cup {None}
    /\ pairing \in [d : Desktops, step : Steps, rev : Revisions, from : Revisions]
                     \cup {None}
    /\ beat \in [host : Host, current : BOOLEAN, step : Steps, from : Revisions]
                  \cup {None}
    /\ chosen \in Desktops \cup {None}
    /\ spent \in Spent

Init ==
    /\ rev = [d \in Desktops |-> 0]
    /\ host = None /\ shown = None /\ status = "discovering" /\ heard = FALSE
    /\ manual = FALSE /\ ticking = FALSE /\ pairing = None /\ beat = None
    /\ chosen = None /\ post = None
    /\ refresh = None /\ pendingRev = None /\ pendingHost = None
    /\ spent = [failures |-> 0, expiries |-> 0, choices |-> 0, delays |-> 0,
                changes |-> 0]

(* A Desktop of version 1 advertises no revision.                          *)
Change(d) ==
    /\ d \notin Plain /\ spent.changes < MaxRev
    /\ spent' = [spent EXCEPT !.changes = @ + 1]
    /\ rev' = [rev EXCEPT ![d] = @ + 1]
    /\ UNCHANGED <<selection, refreshing, pairings, post>>

Answers(call, d) == call.from..rev[d]

Fail ==
    /\ spent.failures < MaxFailures
    /\ spent' = [spent EXCEPT !.failures = @ + 1]

\* A call made before an increment of the selection epoch.
Outdated(call) == IF call = None THEN None ELSE [call EXCEPT !.current = FALSE]

\* Mutant of Current: only the epoch is compared.
CurrentEpoch(call) == call.current

\* What an answer is compared with before it may change the selection.
Current(call) == call.current /\ host = call.host

-----------------------------------------------------------------------------
(* refreshManifest *)

\* Mutant of Fetch: a call during a fetch is forgotten.
FetchForget(h, r) ==
    IF r # None
    THEN refresh' = r /\ pendingHost' = None /\ status' = status
    ELSE /\ refresh' = [host |-> h, current |-> TRUE, from |-> rev[h.d]]
         /\ pendingHost' = None /\ status' = "syncing"

\* The fetch a call starts, unless one (r) is under way: it is noted then.
Fetch(h, r) ==
    IF r # None
    THEN refresh' = r /\ pendingHost' = h /\ status' = status
    ELSE /\ refresh' = [host |-> h, current |-> TRUE, from |-> rev[h.d]]
         /\ pendingHost' = None /\ status' = "syncing"

\* Mutant of EndFetch: a noted refresh is not started.
EndFetchOnce(awaited, manifest, result) ==
    /\ pendingRev' = awaited /\ shown' = manifest
    /\ refresh' = None /\ pendingHost' = pendingHost /\ status' = result
    /\ UNCHANGED <<rev, host, heard, pairings, post>>

\* The end of a fetch that leaves the given revision awaited, manifest on
\* display and status: the noted refresh starts, or none is under way.
EndFetch(awaited, manifest, result) ==
    /\ pendingRev' = awaited /\ shown' = manifest
    /\ IF /\ awaited # None
          /\ manifest = None \/ awaited # manifest.rev
          /\ pendingHost # None /\ pendingHost = host
       THEN /\ refresh' = [host |-> host, current |-> TRUE, from |-> rev[host.d]]
            /\ pendingHost' = None /\ status' = "syncing"
       ELSE refresh' = None /\ pendingHost' = pendingHost /\ status' = result
    /\ UNCHANGED <<rev, host, heard, pairings, post>>

Fetched ==
    /\ refresh # None /\ Current(refresh)
    /\ \E a \in Answers(refresh, refresh.host.d) :
           EndFetch(None, [d |-> refresh.host.d, rev |-> a], "ready")
    /\ UNCHANGED spent

FetchFailed ==
    /\ refresh # None /\ Current(refresh)
    /\ Fail
    /\ EndFetch(pendingRev, shown, "error")

FetchDropped ==
    /\ refresh # None /\ ~Current(refresh)
    /\ EndFetch(pendingRev, shown, status)
    /\ UNCHANGED spent

-----------------------------------------------------------------------------
(* _receive and the expiry timer *)

Listens(d) == ~manual /\ host \in {None} \cup [d : {d}, rev : Revisions]

Receive(d, r) ==
    LET hostChanged == host = None
        news == hostChanged \/ host.rev # r \/ shown = None
        inFlight == IF hostChanged THEN Outdated(refresh) ELSE refresh
    IN
    /\ Listens(d)
    /\ host' = [d |-> d, rev |-> r] /\ heard' = TRUE
    /\ post' = IF hostChanged THEN Outdated(post) ELSE post
    /\ beat' = IF hostChanged THEN Outdated(beat) ELSE beat
    /\ IF d \notin Plain /\ news
       THEN pendingRev' = r /\ shown' = shown
            /\ Fetch([d |-> d, rev |-> r], inFlight)
       ELSE /\ refresh' = inFlight
            /\ pendingRev' = IF hostChanged THEN None ELSE pendingRev
            /\ pendingHost' = IF hostChanged THEN None ELSE pendingHost
            /\ shown' = IF d \in Plain THEN None ELSE shown
            /\ status' = IF d \in Plain THEN "ready" ELSE status
    /\ UNCHANGED <<rev, manual, ticking, pairing, chosen>>

Hear(d) == Receive(d, rev[d]) /\ UNCHANGED spent

HearDelayed(d) ==
    /\ spent.delays < MaxDelays
    /\ spent' = [spent EXCEPT !.delays = @ + 1]
    /\ \E r \in 0..rev[d] : r < rev[d] /\ Receive(d, r)

Expire ==
    /\ heard /\ spent.expiries < MaxExpiries
    /\ spent' = [spent EXCEPT !.expiries = @ + 1]
    /\ host' = None /\ heard' = FALSE /\ status' = "discovering"
    /\ UNCHANGED <<rev, shown, refreshing, pairings, post>>

-----------------------------------------------------------------------------
(* _post *)

Post ==
    /\ post = None /\ host # None
    /\ post' = [host |-> host, current |-> TRUE, from |-> rev[host.d]]
    /\ UNCHANGED <<rev, selection, refreshing, pairings, spent>>

\* The refresh runs up to its first wait, and then the status is ready.
PostAnswered ==
    /\ post # None /\ Current(post)
    /\ \E a \in Answers(post, host.d) :
           IF host.d \notin Plain /\ (shown = None \/ a # shown.rev)
           THEN /\ pendingRev' = a
                /\ \/ refresh # None /\ pendingHost' = host /\ UNCHANGED refresh
                   \/ /\ refresh = None /\ pendingHost' = None
                      /\ refresh' = [host |-> host, current |-> TRUE,
                                     from |-> rev[host.d]]
           ELSE UNCHANGED refreshing
    /\ status' = "ready" /\ post' = None
    /\ UNCHANGED <<rev, host, shown, heard, pairings, spent>>

PostFailed ==
    /\ post # None /\ Current(post)
    /\ Fail
    /\ status' = "error" /\ post' = None
    /\ UNCHANGED <<rev, host, shown, heard, refreshing, pairings>>

PostDropped ==
    /\ post # None /\ ~Current(post)
    /\ post' = None
    /\ UNCHANGED <<rev, selection, refreshing, pairings, spent>>

-----------------------------------------------------------------------------
(* connectManually and disconnect *)

\* What both do first: another epoch, nothing noted, nothing selected.
Reselect ==
    /\ spent.choices < MaxChoices
    /\ spent' = [spent EXCEPT !.choices = @ + 1]
    /\ refresh' = Outdated(refresh) /\ post' = Outdated(post)
    /\ beat' = Outdated(beat)
    /\ pendingRev' = None /\ pendingHost' = None
    /\ host' = None /\ shown' = None /\ heard' = FALSE /\ ticking' = FALSE
    /\ UNCHANGED rev

Connect(d) ==
    /\ Reselect
    /\ manual' = TRUE /\ chosen' = d /\ status' = "syncing"
    /\ pairing' = [d |-> d, step |-> "info", rev |-> 0, from |-> rev[d]]

Disconnect ==
    /\ Reselect
    /\ manual' = FALSE /\ pairing' = None /\ status' = "discovering"
    /\ UNCHANGED chosen

PairInfo ==
    /\ pairing # None /\ pairing.step = "info" /\ pairing.d \notin Plain
    /\ \E r \in Answers(pairing, pairing.d) :
           /\ host' = [d |-> pairing.d, rev |-> r]
           /\ pairing' = [pairing EXCEPT !.step = "manifest", !.rev = r,
                                         !.from = rev[pairing.d]]
    /\ UNCHANGED <<rev, shown, status, heard, refreshing, manual, ticking, beat,
                   chosen, post, spent>>

PairManifest ==
    /\ pairing # None /\ pairing.step = "manifest"
    /\ pairing.rev \in Answers(pairing, pairing.d)
    /\ shown' = [d |-> pairing.d, rev |-> pairing.rev]
    /\ heard' = TRUE /\ status' = "ready" /\ ticking' = TRUE /\ pairing' = None
    /\ UNCHANGED <<rev, host, refreshing, manual, beat, chosen, post, spent>>

\* A manifest of another revision than the information fails the pairing too.
PairFailed ==
    /\ pairing # None
    /\ \/ Fail
       \/ pairing.step = "info" /\ pairing.d \in Plain /\ UNCHANGED spent
       \/ /\ pairing.step = "manifest" /\ UNCHANGED spent
          /\ \E a \in Answers(pairing, pairing.d) : a # pairing.rev
    /\ host' = None /\ shown' = None /\ status' = "error" /\ pairing' = None
    /\ UNCHANGED <<rev, heard, refreshing, manual, ticking, beat, chosen, post>>

-----------------------------------------------------------------------------
(* _checkManualHost, the heartbeat of a manual connection *)

Tick ==
    /\ ticking /\ beat = None /\ host # None
    /\ beat' = [host |-> host, current |-> TRUE, step |-> "info",
                from |-> rev[host.d]]
    /\ UNCHANGED <<rev, selection, refreshing, manual, ticking, pairing, chosen,
                   post, spent>>

Alive == heard' = TRUE /\ status' = "ready" /\ beat' = None

BeatInfo ==
    /\ beat # None /\ beat.step = "info" /\ Current(beat)
    /\ \E r \in Answers(beat, host.d) :
           IF r = host.rev
           THEN Alive /\ UNCHANGED <<host, shown>>
           ELSE /\ host' = [host EXCEPT !.rev = r]
                /\ beat' = [beat EXCEPT !.host = [host EXCEPT !.rev = r],
                                        !.step = "manifest", !.from = rev[host.d]]
                /\ UNCHANGED <<shown, status, heard>>
    /\ UNCHANGED <<rev, refreshing, manual, ticking, pairing, chosen, post, spent>>

BeatManifest ==
    /\ beat # None /\ beat.step = "manifest" /\ Current(beat)
    /\ host.rev \in Answers(beat, host.d)
    /\ shown' = host /\ Alive
    /\ UNCHANGED <<rev, host, refreshing, manual, ticking, pairing, chosen, post,
                   spent>>

\* A failure only compares the epoch, not the host.
BeatFailed ==
    /\ beat # None /\ beat.current
    /\ \/ Fail
       \/ /\ beat.step = "manifest" /\ Current(beat) /\ UNCHANGED spent
          /\ \E a \in Answers(beat, beat.host.d) : a # beat.host.rev
    /\ host' = None /\ shown' = None /\ heard' = FALSE
    /\ status' = "disconnected" /\ beat' = None
    /\ UNCHANGED <<rev, refreshing, manual, ticking, pairing, chosen, post>>

BeatDropped ==
    /\ beat # None /\ ~Current(beat)
    /\ beat' = None
    /\ UNCHANGED <<rev, selection, refreshing, manual, ticking, pairing, chosen,
                   post, spent>>

-----------------------------------------------------------------------------
FetchEnds == Fetched \/ FetchFailed \/ FetchDropped
PostEnds == PostAnswered \/ PostFailed \/ PostDropped
PairStep == PairInfo \/ PairManifest \/ PairFailed
BeatStep == BeatInfo \/ BeatManifest \/ BeatFailed \/ BeatDropped

Next ==
    \/ \E d \in Desktops : Change(d) \/ Hear(d) \/ HearDelayed(d) \/ Connect(d)
    \/ FetchEnds \/ PostEnds \/ PairStep \/ BeatStep
    \/ Expire \/ Post \/ Disconnect \/ Tick

Spec == Init /\ [][Next]_vars

\* Every request ends by its timeouts of a few seconds, a Desktop broadcasts
\* every two seconds, and the heartbeat ticks every expiryPollInterval.
Fairness ==
    /\ \A d \in Desktops : WF_vars(Hear(d))
    /\ WF_vars(FetchEnds) /\ WF_vars(PostEnds)
    /\ WF_vars(PairStep) /\ WF_vars(BeatStep) /\ WF_vars(Tick)

FairSpec == Spec /\ Fairness

-----------------------------------------------------------------------------
(* Properties *)

\* A manifest that arrives is one of the Desktop selected at that moment: an
\* answer that outlived its selection changes nothing (the comparisons after
\* every await).
ManifestOfSelected ==
    [][shown' \notin {shown, None} => host' # None /\ shown'.d = host'.d]_vars

(* Neither has a request failed nor a Desktop fallen silent.               *)
Undisturbed == spent.failures = 0 /\ spent.expiries = 0

(***************************************************************************)
(* When no fetch is under way, the displayed manifest is the selected      *)
(* Desktop's and not older than the revision it last advertised: a         *)
(* revision heard during a fetch is fetched after it (_pendingRevision).   *)
(***************************************************************************)
AtRestIsFresh ==
    Undisturbed /\ refresh = None /\ host # None /\ ~manual =>
        \/ host.d \in Plain /\ shown = None
        \/ shown # None /\ shown.d = host.d /\ shown.rev >= host.rev

Synced ==
    /\ host # None /\ status = "ready"
    /\ IF host.d \in Plain THEN shown = None
       ELSE shown = [d |-> host.d, rev |-> rev[host.d]]

(***************************************************************************)
(* Undisturbed discovery ends with the present manifest of the selected    *)
(* Desktop on display, ready for use, if broadcasts also keep their order: *)
(* a late one can leave the status "syncing" for good, its fetch being     *)
(* dropped when the next broadcast repeats the displayed revision.         *)
(***************************************************************************)
EventuallySynced ==
    <>[](manual \/ Synced \/ ~Undisturbed \/ spent.delays > 0)
=============================================================================
