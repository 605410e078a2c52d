---------------------------- MODULE RateLimiter ----------------------------
(***************************************************************************)
(* The request limiter in front of every route of the community server     *)
(* (community_server/src/main.rs): a bounded table of fixed windows, one    *)
(* per client.  A client stands for its key: the code stores a hash of the  *)
(* address, and a collision only makes two addresses one client.            *)
(***************************************************************************)
EXTENDS Naturals, FiniteSets

CONSTANTS Clients,     \* the hashed addresses
          MaxClients,  \* rows of the table (RATE_LIMIT_MAX_CLIENTS)
          Window,      \* length of a window (60 s)
          Limit        \* requests in a window (RATE_LIMIT_PER_MINUTE)

ASSUME LimiterAssumption ==
    /\ IsFiniteSet(Clients)
    /\ MaxClients \in Nat \ {0} /\ Window \in Nat \ {0} /\ Limit \in Nat \ {0}

VARIABLES buckets,  \* the table: client -> requests of its window, its start
          tally     \* history: the admissions of a client since the first of
                    \* them, forgotten when they are a Window old

Windows == [count : Nat, start : Nat]
NoWindow == [count |-> 0, start |-> 0]

LimiterInit == buckets = << >> /\ tally = [c \in Clients |-> NoWindow]

\* now.saturating_sub(start) >= window
Over(w, t) == t >= w.start + Window

Full(b) == Cardinality(DOMAIN b) >= MaxClients

\* What `retain` leaves: the windows that still run.
Running(b, t) ==
    [c \in {d \in DOMAIN b : ~Over(b[d], t)} |-> b[c]]

\* Mutant: the sweep also removes the windows that still run.
SweptAll(c, t) ==
    IF Full(buckets) /\ c \notin DOMAIN buckets THEN << >> ELSE buckets

\* The table after the first `if`: a new client of a full table sweeps it.
Swept(c, t) ==
    IF Full(buckets) /\ c \notin DOMAIN buckets THEN Running(buckets, t) ELSE buckets

\* The client's window at t: the one in the table, or one that starts now.
WindowOf(b, c, t) ==
    IF c \in DOMAIN b /\ ~Over(b[c], t) THEN b[c] ELSE [count |-> 0, start |-> t]

Put(b, c, w) == [d \in DOMAIN b \cup {c} |-> IF d = c THEN w ELSE b[d]]

\* There is no row left for a new client.
RefuseNew(c, t) ==
    /\ c \notin DOMAIN Swept(c, t) /\ Full(Swept(c, t))
    /\ buckets' = Swept(c, t)
    /\ UNCHANGED tally

HasRow(c, t) == c \in DOMAIN Swept(c, t) \/ ~Full(Swept(c, t))

\* The window of the client is used up.
RefuseSpent(c, t) ==
    LET b == Swept(c, t)
        w == WindowOf(b, c, t)
    IN  /\ HasRow(c, t) /\ w.count >= Limit
        /\ buckets' = Put(b, c, w)
        /\ UNCHANGED tally

Refuse(c, t) == RefuseNew(c, t) \/ RefuseSpent(c, t)

\* The history counts from the first admission, whatever the table says.
Count(c, t) ==
    LET w == IF tally[c].count = 0 THEN [count |-> 0, start |-> t] ELSE tally[c]
    IN  tally' = [tally EXCEPT ![c] = [w EXCEPT !.count = @ + 1]]

Admit(c, t) ==
    LET b == Swept(c, t)
        w == WindowOf(b, c, t)
    IN  /\ HasRow(c, t) /\ w.count < Limit
        /\ buckets' = Put(b, c, [w EXCEPT !.count = @ + 1])
        /\ Count(c, t)

\* Time reaches t: the history forgets the windows that are over.
Forget(t) ==
    tally' = [c \in Clients |-> IF Over(tally[c], t) THEN NoWindow ELSE tally[c]]

-----------------------------------------------------------------------------
LimiterTypeOK ==
    /\ DOMAIN buckets \subseteq Clients
    /\ buckets \in [DOMAIN buckets -> Windows]
    /\ Cardinality(DOMAIN buckets) <= MaxClients
    /\ tally \in [Clients -> Windows]

\* A client is admitted at most Limit times in the Window that its first
\* admission opens, whatever happens to its row: others fill the table, sweep
\* it, and the row is made anew (RateLimiter::allow).
AdmissionsBounded == \A c \in Clients : tally[c].count <= Limit
=============================================================================
