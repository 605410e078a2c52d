--------------------------- MODULE AccountAccess ---------------------------
(***************************************************************************)
(* The way of a request to /v1/account/backup through the community server  *)
(* up to the point where its sender is known: the limiter, which is the     *)
(* outermost layer (main.rs, app), then the guard of the account routes and *)
(* the verification of its token (account_backup.rs, guard; auth.rs).  What *)
(* follows an accepted token is in AccountBackups.                          *)
(***************************************************************************)
EXTENDS RateLimiter, KeyCache

vars == <<buckets, tally, keyVars>>

Init == LimiterInit /\ KeyCacheInit

\* A request without a usable bearer token is one whose token is not
\* well formed.
Arrive(r, c, t) == Admit(c, now) /\ Present(r, t)

\* The limiter answers 429 before anything else looks at the request.
TurnAway(r, c) ==
    /\ pc[r] = "idle"
    /\ Refuse(c, now)
    /\ answer' = "rate_limited"
    /\ UNCHANGED <<now, published, withdrawn, cache, refresh, fetched, lastFetch,
                   pc, token>>

Serve(r) == Process(r) /\ UNCHANGED <<buckets, tally>>

Leave(r) == Disconnect(r) /\ UNCHANGED <<buckets, tally>>

KeysRotate == Rotate /\ UNCHANGED <<buckets, tally>>

Tick == TimePasses /\ Forget(now + 1) /\ UNCHANGED buckets

Next ==
    \/ \E r \in Requests, c \in Clients : TurnAway(r, c)
    \/ \E r \in Requests, c \in Clients, t \in Tokens : Arrive(r, c, t)
    \/ \E r \in Requests : Serve(r) \/ Leave(r)
    \/ KeysRotate
    \/ Tick

\* The server runs the requests it has; Google answers, or the client gives up
\* waiting for it after 4 s.
Spec == Init /\ [][Next]_vars /\ \A r \in Requests : WF_vars(Serve(r))
-----------------------------------------------------------------------------
TypeOK ==
    /\ LimiterTypeOK /\ KeyCacheTypeOK
    /\ answer \in {None, "accepted", "unauthorized", "unavailable",
                   "rate_limited", "dropped"}

\* Every request that is let in comes to an end, also when the one that holds
\* the refresh lock is dropped while it waits for Google.
RequestsEnd == \A r \in Requests : pc[r] # "idle" ~> pc[r] = "idle"
=============================================================================
