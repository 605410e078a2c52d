------------------------------ MODULE KeyCache ------------------------------
(***************************************************************************)
(* The verification of Google ID tokens by the community server            *)
(* (community_server/src/auth.rs): the cache of Google's keys that all the  *)
(* requests share, its refresh under a lock with a back-off, and the checks *)
(* of a token.  Signatures are outside: a well-formed token is an RS256     *)
(* token that the key it names verifies, with Google's issuer and a subject.*)
(*                                                                         *)
(* The unit of time is the back-off, 30 s.  A fetch is cut off after 4 s,   *)
(* so it sees at most one step of the clock.                                *)
(***************************************************************************)
EXTENDS Naturals, SequencesExt

CONSTANTS Requests,        \* requests that may be in progress together
          Tokens,          \* [kid, exp, aud, wellFormed] records
          ClientIds,       \* GOOGLE_CLIENT_IDS, empty when not configured
          Published,       \* the sets of keys that Google publishes, in order
          Backoff,         \* 30 s
          MinTTL, MaxTTL,  \* the clamp of max-age: 60 s, 21600 s
          MaxTime,         \* bound: the last instant
          None

Kids == {t.kid : t \in Tokens}

ASSUME KeyCacheAssumption ==
    /\ Backoff \in Nat \ {0} /\ MinTTL \in Nat \ {0} /\ MaxTTL \in Nat
    /\ MinTTL <= MaxTTL /\ MaxTime \in Nat
    /\ Published \in Seq(SUBSET Kids) /\ Len(Published) > 0
    /\ None \notin Tokens
    /\ \A t \in Tokens : t.exp \in Nat /\ t.wellFormed \in BOOLEAN

VARIABLES now,       \* the clock
          published, \* Google: the index in Published of what it serves
          withdrawn, \* history: when a key was last withdrawn
          cache,     \* keys, expiresAt, refreshAfter; fetchedAs: history, the
                     \* index in Published of the keys
          refresh,   \* refresh_lock: the holder, then the others in order
          fetched,   \* request -> the answer of Google that it reads, or None
          lastFetch, \* history: when the last fetch began, whether it has
                     \* found the key it was made for
          pc,        \* request -> "idle", "check", "lock", "fetch" or "store"
          token,     \* request -> its token
          answer     \* how a request ended in the last step, or None

keyVars == <<now, published, withdrawn, cache, refresh, fetched, lastFetch,
             pc, token, answer>>

KeyCacheInit ==
    /\ now = 0 /\ published = 1
    /\ withdrawn = [k \in Kids |-> 0]
    /\ cache = [keys |-> {}, expiresAt |-> 0, refreshAfter |-> 0, fetchedAs |-> 0]
    /\ refresh = << >> /\ fetched = [r \in Requests |-> None]
    /\ lastFetch = [at |-> 0, found |-> TRUE]
    /\ pc = [r \in Requests |-> "idle"]
    /\ token = [r \in Requests |-> None]
    /\ answer = None

Fresh == now < cache.expiresAt
BackedOff == now < cache.refreshAfter

\* Mutant: no request waits for the lock.
HoldsNothing(r) == TRUE

\* The lock is held by the request at the front of its queue.
Holds(r) == Head(refresh) = r

AudienceAllowed(t) == t.aud \cap ClientIds # {}

\* The checks of verified_subject once the key is known.
Verdict(t) ==
    IF t.exp > now /\ AudienceAllowed(t) THEN "accepted" ELSE "unauthorized"

\* The answer of the guard before it waits for anything, or None.
EarlyAnswer(t) ==
    CASE ClientIds = {}  -> "unavailable"
      [] ClientIds # {} /\ ~t.wellFormed -> "unauthorized"
      [] OTHER -> None

\* The answer to a request whose key is not there and may not be fetched.
Refusal == IF Fresh THEN "unauthorized" ELSE "unavailable"

\* Mutant: the dropped request leaves its place in the lock's queue behind.
EndKeepsLock(r) ==
    /\ pc' = [pc EXCEPT ![r] = "idle"]
    /\ token' = [token EXCEPT ![r] = None]
    /\ UNCHANGED <<refresh, fetched>>

\* Request r is over: its future is dropped, and with it the lock's guard or
\* the place in the queue.
End(r) ==
    /\ pc' = [pc EXCEPT ![r] = "idle"]
    /\ token' = [token EXCEPT ![r] = None]
    /\ refresh' = RemoveFirst(refresh, r)
    /\ fetched' = [fetched EXCEPT ![r] = None]

Finish(r, status) == End(r) /\ answer' = status

\* The guard and verified_subject up to their first wait.
Present(r, t) ==
    /\ pc[r] = "idle"
    /\ answer' = EarlyAnswer(t)
    /\ IF EarlyAnswer(t) = None
       THEN /\ pc' = [pc EXCEPT ![r] = "check"]
            /\ token' = [token EXCEPT ![r] = t]
       ELSE UNCHANGED <<pc, token>>
    /\ UNCHANGED <<now, published, withdrawn, cache, refresh, fetched, lastFetch>>

\* Mutant: the keys are used after they expire.
KeyAtHandForever(r) == token[r].kid \in cache.keys

KeyAtHand(r) == Fresh /\ token[r].kid \in cache.keys

\* get_key: the first look, without the lock.
Check(r) ==
    /\ pc[r] = "check"
    /\ \/ KeyAtHand(r) /\ Finish(r, Verdict(token[r]))
       \/ ~KeyAtHand(r) /\ BackedOff /\ Finish(r, Refusal)
       \/ /\ ~KeyAtHand(r) /\ ~BackedOff
          /\ refresh' = Append(refresh, r)
          /\ pc' = [pc EXCEPT ![r] = "lock"]
          /\ answer' = None
          /\ UNCHANGED <<token, fetched>>
    /\ UNCHANGED <<now, published, withdrawn, cache, lastFetch>>

\* get_key: the second look, by the holder of the lock.
RecheckEnds(r) ==
    /\ pc[r] = "lock" /\ Holds(r)
    /\ \/ KeyAtHand(r) /\ Finish(r, Verdict(token[r]))
       \/ ~KeyAtHand(r) /\ BackedOff /\ Finish(r, Refusal)
    /\ UNCHANGED <<now, published, withdrawn, cache, lastFetch>>

\* Mutant: the fetch begins without reserving the back-off.
BeginFetchEager(r) ==
    /\ pc[r] = "lock" /\ Holds(r) /\ ~KeyAtHand(r) /\ ~BackedOff
    /\ pc' = [pc EXCEPT ![r] = "fetch"]
    /\ lastFetch' = [at |-> now, found |-> FALSE]
    /\ answer' = None
    /\ UNCHANGED <<now, published, withdrawn, cache, refresh, fetched, token>>

\* The holder reserves the next Backoff for itself and asks Google.
BeginFetch(r) ==
    /\ pc[r] = "lock" /\ Holds(r) /\ ~KeyAtHand(r) /\ ~BackedOff
    /\ cache' = [cache EXCEPT !.refreshAfter = now + Backoff]
    /\ pc' = [pc EXCEPT ![r] = "fetch"]
    /\ lastFetch' = [at |-> now, found |-> FALSE]
    /\ answer' = None
    /\ UNCHANGED <<now, published, withdrawn, refresh, fetched, token>>

\* Google answers with what it publishes at this moment.
GoogleAnswers(r) ==
    /\ pc[r] = "fetch"
    /\ fetched' = [fetched EXCEPT ![r] = published]
    /\ pc' = [pc EXCEPT ![r] = "store"]
    /\ answer' = None
    /\ UNCHANGED <<now, published, withdrawn, cache, refresh, lastFetch, token>>

\* No answer within 4 s, an error status, too many bytes, no JSON.
FetchFails(r) ==
    /\ pc[r] \in {"fetch", "store"}
    /\ Finish(r, "unavailable")
    /\ UNCHANGED <<now, published, withdrawn, cache, lastFetch>>

\* The answer is complete: the cache takes it.
Store(r) ==
    /\ pc[r] = "store"
    /\ LET keys == Published[fetched[r]]
           found == token[r].kid \in keys
       IN  /\ \E ttl \in MinTTL..MaxTTL :
                cache' = [keys |-> keys, expiresAt |-> now + ttl,
                          refreshAfter |-> IF found THEN now ELSE now + Backoff,
                          fetchedAs |-> fetched[r]]
           /\ lastFetch' = [lastFetch EXCEPT !.found = found]
           /\ Finish(r, IF found THEN Verdict(token[r]) ELSE "unauthorized")
    /\ UNCHANGED <<now, published, withdrawn>>

\* The client's connection closes and the server drops the request.
Disconnect(r) ==
    /\ pc[r] # "idle"
    /\ Finish(r, "dropped")
    /\ UNCHANGED <<now, published, withdrawn, cache, lastFetch>>

\* Google moves on to its next set of keys.
Rotate ==
    /\ published < Len(Published)
    /\ published' = published + 1
    /\ withdrawn' = [k \in DOMAIN withdrawn |->
           IF k \in Published[published] \ Published[published + 1]
           THEN now ELSE withdrawn[k]]
    /\ answer' = None
    /\ UNCHANGED <<now, cache, refresh, fetched, lastFetch, pc, token>>

Fetching == \E r \in Requests : pc[r] \in {"fetch", "store"}

\* A fetch does not outlast the unit after the one it began in.
TimePasses ==
    /\ now < MaxTime
    /\ Fetching => lastFetch.at = now
    /\ now' = now + 1
    /\ answer' = None
    /\ UNCHANGED <<published, withdrawn, cache, refresh, fetched, lastFetch,
                   pc, token>>

Process(r) ==
    \/ Check(r) \/ RecheckEnds(r) \/ BeginFetch(r)
    \/ GoogleAnswers(r) \/ FetchFails(r) \/ Store(r)

-----------------------------------------------------------------------------
KeyCacheTypeOK ==
    /\ now \in Nat /\ published \in 1..Len(Published)
    /\ withdrawn \in [Kids -> Nat]
    /\ cache \in [keys : SUBSET Kids, expiresAt : Nat, refreshAfter : Nat,
                  fetchedAs : 0..Len(Published)]
    /\ refresh \in Seq(Requests)
    /\ fetched \in [Requests -> 1..Len(Published) \cup {None}]
    /\ lastFetch \in [at : Nat, found : BOOLEAN]
    /\ pc \in [Requests -> {"idle", "check", "lock", "fetch", "store"}]
    /\ token \in [Requests -> Tokens \cup {None}]

Asks(r) == pc[r] # "fetch" /\ pc'[r] = "fetch"

\* Google is asked at most once per Backoff, by however many requests and
\* whether they fail, find no key or are dropped; only a fetch that found its
\* key lets the next one begin earlier (get_key).
FetchesAreSpaced ==
    [][\A r \in Requests : Asks(r) =>
          lastFetch.found \/ now >= lastFetch.at + Backoff]_keyVars

\* The cache never goes back to keys older than those it has: an answer that
\* was slow does not replace a newer one (get_key).
KeysOnlyAdvance == [][cache'.fetchedAs >= cache.fetchedAs]_keyVars

Accepts(r) == pc[r] # "idle" /\ pc'[r] = "idle" /\ answer' = "accepted"

\* A token is accepted only before it expires, and the key that signed it is
\* one that Google still publishes or withdrew no more than the longest
\* max-age ago, with every wait for the lock and for Google in between
\* (verified_subject).
AcceptedIsCurrent ==
    [][\A r \in Requests : Accepts(r) =>
          LET k == token[r].kid
          IN  /\ now < token[r].exp
              /\ \/ k \in Published[published]
                 \/ k \in UNION {Published[i] : i \in 1..published}
                    /\ now <= withdrawn[k] + MaxTTL]_keyVars
=============================================================================
