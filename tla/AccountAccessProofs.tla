------------------------ MODULE AccountAccessProofs ------------------------
(***************************************************************************)
(* Proofs about AccountAccess, for any clients, requests, tokens, sequence  *)
(* of published keys, limits and durations: the limiter's bound, the        *)
(* spacing of the fetches, the advance of the keys and what an accepted     *)
(* token stands for.                                                        *)
(***************************************************************************)
EXTENDS AccountAccess, SequenceTheorems, FiniteSetTheorems, TLAPS

-----------------------------------------------------------------------------
(* The queue of the lock.                                                   *)

NoRepeat(s) == \A i, j \in DOMAIN s : s[i] = s[j] => i = j

(* What is left of a sequence without its i-th element.                     *)
LEMMA Removal ==
    ASSUME NEW S, NEW s \in Seq(S), NEW i \in 1..Len(s)
    PROVE  /\ RemoveAt(s, i) \in Seq(S)
           /\ Len(RemoveAt(s, i)) = Len(s) - 1
           /\ DOMAIN RemoveAt(s, i) = 1..(Len(s) - 1)
           /\ \A j \in 1..(Len(s) - 1) :
                 RemoveAt(s, i)[j] = IF j < i THEN s[j] ELSE s[j + 1]
<1> DEFINE front == SubSeq(s, 1, i - 1)
           back == SubSeq(s, i + 1, Len(s))
<1>1. /\ front \in Seq(S) /\ Len(front) = i - 1
      /\ \A j \in 1..(i - 1) : front[j] = s[j]
  BY SubSeqProperties
<1>2. /\ back \in Seq(S) /\ Len(back) = Len(s) - i
      /\ \A j \in 1..(Len(s) - i) : back[j] = s[i + j]
  BY SubSeqProperties
<1> HIDE DEF front, back
<1>a. Len(s) \in Nat /\ i \in Nat /\ Len(front) + Len(back) = Len(s) - 1
  BY <1>1, <1>2
<1>b. /\ front \o back \in Seq(S)
      /\ Len(front \o back) = Len(front) + Len(back)
      /\ \A j \in 1..(Len(front) + Len(back)) :
            (front \o back)[j] = IF j <= Len(front) THEN front[j] ELSE back[j - Len(front)]
  BY <1>1, <1>2, ConcatProperties
<1>3. /\ front \o back \in Seq(S)
      /\ Len(front \o back) = Len(s) - 1
      /\ \A j \in 1..(Len(s) - 1) :
            (front \o back)[j] = IF j <= i - 1 THEN front[j] ELSE back[j - (i - 1)]
  BY <1>a, <1>b, <1>1
<1>4. RemoveAt(s, i) = front \o back
  BY DEF RemoveAt, front, back
<1>5. ASSUME NEW j \in 1..(Len(s) - 1)
      PROVE  (front \o back)[j] = IF j < i THEN s[j] ELSE s[j + 1]
  <2>1. Len(s) \in Nat /\ i \in Nat /\ j \in Nat
    OBVIOUS
  <2>2. CASE j < i
    BY <2>1, <2>2, <1>1, <1>3
  <2>3. CASE ~(j < i)
    <3>1. PICK k \in 1..(Len(s) - i) : k = j - (i - 1) /\ i + k = j + 1
      BY <2>1, <2>3
    <3>2. (front \o back)[j] = IF j <= i - 1 THEN front[j] ELSE back[j - (i - 1)]
      BY <1>3
    <3>3. (front \o back)[j] = back[k]
      BY <2>1, <2>3, <3>1, <3>2
    <3>4. back[k] = s[i + k]
      BY <1>2
    <3> QED BY <2>3, <3>1, <3>3, <3>4
  <2> QED BY <2>2, <2>3
<1>6. DOMAIN (front \o back) = 1..(Len(s) - 1)
  BY <1>3, LenProperties
<1> QED BY <1>3, <1>4, <1>5, <1>6

(* Leaving a queue without repetitions: exactly the one who leaves is gone, *)
(* and the front changes only if it was at the front.                       *)
LEMMA Leaving ==
    ASSUME NEW S, NEW s \in Seq(S), NoRepeat(s), NEW e
    PROVE  /\ RemoveFirst(s, e) \in Seq(S)
           /\ NoRepeat(RemoveFirst(s, e))
           /\ ToSet(RemoveFirst(s, e)) = ToSet(s) \ {e}
           /\ s # << >> /\ Head(s) # e =>
                 RemoveFirst(s, e) # << >> /\ Head(RemoveFirst(s, e)) = Head(s)
<1>1. CASE e \notin ToSet(s)
  <2>1. RemoveFirst(s, e) = s
    BY <1>1 DEF RemoveFirst, ToSet
  <2> QED BY <2>1, <1>1
<1>2. CASE e \in ToSet(s)
  <2>1. PICK i \in 1..Len(s) : s[i] = e
    BY <1>2 DEF ToSet
  <2>2. {j \in 1..Len(s) : s[j] = e} = {i}
    BY <2>1 DEF NoRepeat
  <2>3. SelectInSeq(s, LAMBDA v : v = e) = i
    BY <2>2 DEF SelectInSeq, Min
  <2>4. RemoveFirst(s, e) = RemoveAt(s, i)
    BY <2>1, <2>3 DEF RemoveFirst
  <2> DEFINE t == RemoveAt(s, i)
  <2>5. /\ t \in Seq(S) /\ Len(t) = Len(s) - 1
        /\ DOMAIN t = 1..(Len(s) - 1) /\ DOMAIN s = 1..Len(s)
        /\ \A j \in 1..(Len(s) - 1) : t[j] = IF j < i THEN s[j] ELSE s[j + 1]
    BY Removal
  <2> HIDE DEF t
  <2>6. NoRepeat(t)
    <3> SUFFICES ASSUME NEW j \in 1..(Len(s) - 1), NEW k \in 1..(Len(s) - 1), t[j] = t[k]
                 PROVE  j = k
      BY <2>5 DEF NoRepeat
    <3> DEFINE at(x) == IF x < i THEN x ELSE x + 1
    <3>1. at(j) \in 1..Len(s) /\ at(k) \in 1..Len(s)
      OBVIOUS
    <3>2. s[at(j)] = s[at(k)]
      BY <2>5
    <3>3. at(j) = at(k)
      BY <3>1, <3>2, <2>5 DEF NoRepeat
    <3> QED BY <3>3
  <2>7. ToSet(t) = ToSet(s) \ {e}
    <3>1. ASSUME NEW x \in ToSet(t) PROVE x \in ToSet(s) \ {e}
      <4>1. PICK j \in 1..(Len(s) - 1) : x = t[j]
        BY <2>5 DEF ToSet
      <4>2. PICK k \in 1..Len(s) : x = s[k] /\ k # i
        BY <4>1, <2>5
      <4> QED BY <4>2, <2>1, <2>5 DEF ToSet, NoRepeat
    <3>2. ASSUME NEW x \in ToSet(s) \ {e} PROVE x \in ToSet(t)
      <4>1. PICK k \in 1..Len(s) : x = s[k] /\ k # i
        BY <2>1, <2>5 DEF ToSet
      <4>2. \E j \in 1..(Len(s) - 1) : t[j] = x
        <5>1. CASE k < i
          BY <4>1, <5>1, <2>5
        <5>2. CASE k > i
          <6>1. k - 1 \in 1..(Len(s) - 1) /\ t[k - 1] = s[k]
            BY <5>2, <2>5
          <6> QED BY <4>1, <6>1
        <5> QED BY <4>1, <5>1, <5>2
      <4> QED BY <4>2, <2>5 DEF ToSet
    <3> QED BY <3>1, <3>2
  <2>8. ASSUME s # << >>, Head(s) # e
        PROVE  t # << >> /\ Head(t) = Head(s)
    <3>1. i > 1
      BY <2>1, <2>8
    <3>2. Len(t) >= 1 /\ t[1] = s[1]
      BY <3>1, <2>5
    <3> QED BY <3>2, <2>5, <2>8
  <2> QED BY <2>4, <2>5, <2>6, <2>7, <2>8 DEF t
<1> QED BY <1>1, <1>2

(* Joining it at the end.                                                   *)
LEMMA Joining ==
    ASSUME NEW S, NEW s \in Seq(S), NoRepeat(s), NEW e \in S, e \notin ToSet(s)
    PROVE  /\ Append(s, e) \in Seq(S)
           /\ NoRepeat(Append(s, e))
           /\ ToSet(Append(s, e)) = ToSet(s) \cup {e}
           /\ s # << >> => Append(s, e) # << >> /\ Head(Append(s, e)) = Head(s)
<1> DEFINE t == Append(s, e)
<1>1. /\ t \in Seq(S) /\ t # << >> /\ Len(t) = Len(s) + 1
      /\ DOMAIN t = 1..(Len(s) + 1) /\ DOMAIN s = 1..Len(s)
      /\ \A i \in 1..Len(s) : t[i] = s[i]
      /\ t[Len(s) + 1] = e
  BY AppendProperties
<1>2. s # << >> => Head(t) = Head(s)
  BY HeadTailAppend
<1> HIDE DEF t
<1>3. ToSet(t) = ToSet(s) \cup {e}
  <2>1. ASSUME NEW x \in ToSet(t) PROVE x \in ToSet(s) \cup {e}
    <3>1. PICK i \in 1..(Len(s) + 1) : x = t[i]
      BY <1>1 DEF ToSet
    <3>2. CASE i = Len(s) + 1
      BY <3>1, <3>2, <1>1
    <3>3. CASE i # Len(s) + 1
      <4>1. i \in 1..Len(s) /\ x = s[i]
        BY <3>1, <3>3, <1>1
      <4> QED BY <4>1, <1>1 DEF ToSet
    <3> QED BY <3>2, <3>3
  <2>2. ToSet(s) \cup {e} \subseteq ToSet(t)
    BY <1>1 DEF ToSet
  <2> QED BY <2>1, <2>2
<1>4. NoRepeat(t)
  <2>1. \A i \in 1..Len(s) : s[i] # e
    BY <1>1 DEF ToSet
  <2> QED BY <1>1, <2>1 DEF NoRepeat
<1> QED BY <1>1, <1>2, <1>3, <1>4 DEF t

-----------------------------------------------------------------------------
(* The limiter.                                                             *)

(* The history of a client is what its row says while its window runs, and  *)
(* a row that has not been swept has between one and Limit requests.        *)
LimiterInv ==
    /\ LimiterTypeOK
    /\ \A c \in DOMAIN buckets : buckets[c].count \in 1..Limit
    /\ \A c \in Clients :
          tally[c] = IF c \in DOMAIN buckets /\ ~Over(buckets[c], now)
                     THEN buckets[c] ELSE NoWindow

(* A sweep takes only rows whose window is over.                            *)
LEMMA Sweeping ==
    ASSUME LimiterInv, NEW c \in Clients, NEW b, b = Swept(c, now)
    PROVE  /\ DOMAIN b \subseteq DOMAIN buckets
           /\ b = [d \in DOMAIN b |-> buckets[d]]
           /\ \A d \in DOMAIN b : b[d] = buckets[d] /\ b[d] \in Windows
           /\ \A d \in (DOMAIN buckets) \ DOMAIN b : Over(buckets[d], now)
           /\ IsFiniteSet(DOMAIN b) /\ Cardinality(DOMAIN b) \in 0..MaxClients
<1>1. CASE b = buckets
  <2>1. IsFiniteSet(DOMAIN b) /\ Cardinality(DOMAIN b) \in Nat
    BY <1>1, FS_Subset, FS_CardinalityType, LimiterAssumption DEF LimiterInv, LimiterTypeOK
  <2> QED BY <1>1, <2>1, LimiterAssumption DEF LimiterInv, LimiterTypeOK
<1>2. CASE b = Running(buckets, now)
  <2>1. /\ DOMAIN b \subseteq DOMAIN buckets
        /\ b = [d \in DOMAIN b |-> buckets[d]]
        /\ \A d \in DOMAIN b : b[d] = buckets[d]
        /\ \A d \in (DOMAIN buckets) \ DOMAIN b : Over(buckets[d], now)
    BY <1>2 DEF Running
  <2>2. IsFiniteSet(DOMAIN buckets)
    BY FS_Subset, LimiterAssumption DEF LimiterInv, LimiterTypeOK
  <2>3. /\ IsFiniteSet(DOMAIN b) /\ Cardinality(DOMAIN b) <= Cardinality(DOMAIN buckets)
    BY <2>1, <2>2, FS_Subset
  <2>4. Cardinality(DOMAIN b) \in Nat /\ Cardinality(DOMAIN buckets) \in Nat
    BY <2>2, <2>3, FS_CardinalityType
  <2> QED BY <2>1, <2>3, <2>4, LimiterAssumption DEF LimiterInv, LimiterTypeOK
<1> QED BY <1>1, <1>2 DEF Swept

(* A row goes into the table only where there is place for it.              *)
LEMMA Placing ==
    ASSUME LimiterInv, NEW c \in Clients, NEW w \in Windows, w.count \in 1..Limit,
           HasRow(c, now), buckets' = Put(Swept(c, now), c, w)
    PROVE  /\ DOMAIN buckets' \subseteq Clients
           /\ buckets' \in [DOMAIN buckets' -> Windows]
           /\ Cardinality(DOMAIN buckets') <= MaxClients
           /\ \A d \in DOMAIN buckets' : buckets'[d].count \in 1..Limit
           /\ c \in DOMAIN buckets' /\ buckets'[c] = w
           /\ \A d \in Clients \ {c} :
                 IF d \in DOMAIN buckets' THEN d \in DOMAIN buckets /\ buckets'[d] = buckets[d]
                 ELSE d \in DOMAIN buckets => Over(buckets[d], now)
<1> DEFINE b == Swept(c, now)
<1>1. /\ DOMAIN b \subseteq DOMAIN buckets
      /\ \A d \in DOMAIN b : b[d] = buckets[d] /\ b[d] \in Windows
      /\ \A d \in (DOMAIN buckets) \ DOMAIN b : Over(buckets[d], now)
      /\ IsFiniteSet(DOMAIN b) /\ Cardinality(DOMAIN b) \in 0..MaxClients
  BY Sweeping
<1>2. c \in DOMAIN b \/ Cardinality(DOMAIN b) < MaxClients
  BY <1>1, LimiterAssumption DEF HasRow, Full
<1> HIDE DEF b
<1>3. buckets' = [d \in DOMAIN b \cup {c} |-> IF d = c THEN w ELSE b[d]]
  BY DEF Put, b
<1>4. DOMAIN buckets' = DOMAIN b \cup {c}
  BY <1>3
<1>5. Cardinality(DOMAIN b \cup {c}) <= MaxClients
  <2>1. Cardinality(DOMAIN b \cup {c}) =
           IF c \in DOMAIN b THEN Cardinality(DOMAIN b) ELSE Cardinality(DOMAIN b) + 1
    BY <1>1, FS_AddElement
  <2> QED BY <1>1, <1>2, <2>1, LimiterAssumption
<1>6. DOMAIN buckets \subseteq Clients /\ \A d \in DOMAIN buckets : buckets[d].count \in 1..Limit
  BY DEF LimiterInv, LimiterTypeOK
<1>7. \A d \in DOMAIN b : buckets'[d] = IF d = c THEN w ELSE b[d]
  BY <1>3
<1>8. buckets'[c] = w
  BY <1>3
<1>9. buckets' \in [DOMAIN buckets' -> Windows]
  BY <1>1, <1>3
<1> QED BY <1>1, <1>4, <1>5, <1>6, <1>7, <1>8, <1>9

(* A refused request leaves the tally alone, but for a sweep of the table.   *)
LEMMA LimiterRefuses ==
    ASSUME LimiterInv, now \in Nat, NEW c \in Clients, Refuse(c, now), now' = now
    PROVE  LimiterInv'
<1>1. CASE RefuseNew(c, now)
  <2> DEFINE b == Swept(c, now)
  <2>1. /\ DOMAIN b \subseteq DOMAIN buckets
        /\ b = [d \in DOMAIN b |-> buckets[d]]
        /\ \A d \in DOMAIN b : b[d] = buckets[d] /\ b[d] \in Windows
        /\ \A d \in (DOMAIN buckets) \ DOMAIN b : Over(buckets[d], now)
        /\ Cardinality(DOMAIN b) \in 0..MaxClients
    BY Sweeping
  <2>2. buckets' = b /\ tally' = tally
    BY <1>1 DEF RefuseNew
  <2> HIDE DEF b
  <2>3. b \in [DOMAIN b -> Windows]
    BY <2>1
  <2> QED BY <2>1, <2>2, <2>3, LimiterAssumption DEF LimiterInv, LimiterTypeOK, Over
<1>2. CASE RefuseSpent(c, now)
  <2>1. HasRow(c, now) /\ tally' = tally
    BY <1>2 DEF RefuseSpent
  <2>2. /\ c \in DOMAIN Swept(c, now) /\ ~Over(Swept(c, now)[c], now)
        /\ buckets' = Put(Swept(c, now), c, Swept(c, now)[c])
    BY <1>2, LimiterAssumption DEF RefuseSpent, WindowOf
  <2>3. /\ c \in DOMAIN buckets /\ Swept(c, now)[c] = buckets[c]
        /\ buckets[c] \in Windows /\ buckets[c].count \in 1..Limit
    BY <2>2, Sweeping DEF LimiterInv
  <2>4. /\ DOMAIN buckets' \subseteq Clients
        /\ buckets' \in [DOMAIN buckets' -> Windows]
        /\ Cardinality(DOMAIN buckets') <= MaxClients
        /\ \A d \in DOMAIN buckets' : buckets'[d].count \in 1..Limit
        /\ c \in DOMAIN buckets' /\ buckets'[c] = buckets[c]
        /\ \A d \in Clients \ {c} :
              IF d \in DOMAIN buckets' THEN d \in DOMAIN buckets /\ buckets'[d] = buckets[d]
              ELSE d \in DOMAIN buckets => Over(buckets[d], now)
    BY <2>1, <2>2, <2>3, Placing
  <2> QED BY <2>1, <2>3, <2>4 DEF LimiterInv, LimiterTypeOK, Over
<1> QED BY <1>1, <1>2 DEF Refuse

(* An admitted request is counted in its row and in the tally.              *)
LEMMA LimiterAdmits ==
    ASSUME LimiterInv, now \in Nat, NEW c \in Clients, Admit(c, now), now' = now
    PROVE  LimiterInv'
<1> DEFINE old == WindowOf(Swept(c, now), c, now)
           new == [old EXCEPT !.count = @ + 1]
<1>1. /\ HasRow(c, now) /\ old.count < Limit
      /\ buckets' = Put(Swept(c, now), c, new) /\ Count(c, now)
  BY DEF Admit
<1>2. old = IF c \in DOMAIN buckets /\ ~Over(buckets[c], now) THEN buckets[c]
            ELSE [count |-> 0, start |-> now]
  BY Sweeping DEF WindowOf
<1>3. old \in Windows
  BY <1>2 DEF LimiterInv, LimiterTypeOK, Windows
<1> HIDE DEF old
<1>4. /\ new \in Windows /\ new.count \in 1..Limit
      /\ new.count = old.count + 1 /\ new.start = old.start
  BY <1>1, <1>3, LimiterAssumption DEF Windows
<1>5. ~Over(new, now)
  BY <1>2, <1>3, <1>4, LimiterAssumption DEF Over, Windows
<1>6. tally' = [tally EXCEPT ![c] = new]
  <2>1. CASE c \in DOMAIN buckets /\ ~Over(buckets[c], now)
    <3>1. tally[c] = buckets[c] /\ old = buckets[c]
      BY <2>1, <1>2 DEF LimiterInv
    <3>2. buckets[c].count # 0
      BY <2>1, LimiterAssumption DEF LimiterInv
    <3> QED BY <1>1, <3>1, <3>2 DEF Count
  <2>2. CASE ~(c \in DOMAIN buckets /\ ~Over(buckets[c], now))
    <3>1. tally[c].count = 0 /\ old = [count |-> 0, start |-> now]
      BY <2>2, <1>2 DEF LimiterInv, NoWindow
    <3>2. new = [count |-> 1, start |-> now]
      BY <3>1
    <3> QED BY <1>1, <3>1, <3>2 DEF Count
  <2> QED BY <2>1, <2>2
<1> HIDE DEF new
<1>7. /\ DOMAIN buckets' \subseteq Clients
      /\ buckets' \in [DOMAIN buckets' -> Windows]
      /\ Cardinality(DOMAIN buckets') <= MaxClients
      /\ \A d \in DOMAIN buckets' : buckets'[d].count \in 1..Limit
      /\ c \in DOMAIN buckets' /\ buckets'[c] = new
      /\ \A d \in Clients \ {c} :
            IF d \in DOMAIN buckets' THEN d \in DOMAIN buckets /\ buckets'[d] = buckets[d]
            ELSE d \in DOMAIN buckets => Over(buckets[d], now)
  BY <1>1, <1>4, Placing
<1>8. tally' \in [Clients -> Windows]
  BY <1>4, <1>6 DEF LimiterInv, LimiterTypeOK
<1>9. \A d \in Clients : tally'[d] = IF d = c THEN new ELSE tally[d]
  BY <1>6 DEF LimiterInv, LimiterTypeOK
<1>10. ASSUME NEW d \in Clients
       PROVE  tally'[d] = IF d \in DOMAIN buckets' /\ ~Over(buckets'[d], now)
                          THEN buckets'[d] ELSE NoWindow
  BY <1>5, <1>7, <1>9 DEF LimiterInv
<1> QED BY <1>7, <1>8, <1>10 DEF LimiterInv, LimiterTypeOK, Over

(* As time passes windows end, and with them what was counted in them.      *)
LEMMA LimiterTicks ==
    ASSUME LimiterInv, now \in Nat, Forget(now + 1), now' = now + 1, buckets' = buckets
    PROVE  LimiterInv'
<1>1. tally' = [c \in Clients |-> IF Over(tally[c], now + 1) THEN NoWindow ELSE tally[c]]
  BY DEF Forget
<1>2. NoWindow \in Windows
  BY DEF NoWindow, Windows
<1>3. tally' \in [Clients -> Windows]
  BY <1>1, <1>2 DEF LimiterInv, LimiterTypeOK
<1>4. ASSUME NEW c \in Clients
      PROVE  tally'[c] = IF c \in DOMAIN buckets /\ ~Over(buckets[c], now + 1)
                         THEN buckets[c] ELSE NoWindow
  <2>1. CASE c \in DOMAIN buckets
    <3>1. buckets[c].start \in Nat
      BY <2>1 DEF LimiterInv, LimiterTypeOK, Windows
    <3>2. ~Over(buckets[c], now + 1) => ~Over(buckets[c], now)
      BY <3>1, LimiterAssumption DEF Over
    <3> QED BY <1>1, <2>1, <3>2 DEF LimiterInv
  <2>2. CASE c \notin DOMAIN buckets
    BY <1>1, <2>2 DEF LimiterInv
  <2> QED BY <2>1, <2>2
<1> QED BY <1>3, <1>4 DEF LimiterInv, LimiterTypeOK, Over

-----------------------------------------------------------------------------
(* The lock and the cache.                                                  *)

Waiting == {"lock", "fetch", "store"}
Asking == {"fetch", "store"}

(* The queue holds each request that waits for the lock or has it, once;    *)
(* only the first talks to Google.                                          *)
QueueInv ==
    /\ NoRepeat(refresh)
    /\ \A q \in Requests : q \in ToSet(refresh) <=> pc[q] \in Waiting
    /\ \A q \in Requests : pc[q] \in Asking => refresh # << >> /\ Head(refresh) = q
    /\ \A q \in Requests : pc[q] # "idle" => token[q] \in Tokens

(* The back-off of the last fetch is in force unless it found its key.      *)
BackoffInv ==
    /\ lastFetch.at <= now
    /\ ~lastFetch.found => cache.refreshAfter >= lastFetch.at + Backoff

(* The keys are those of one answer of Google, the latest that was stored,  *)
(* and a key that Google has withdrawn since is gone from the cache within  *)
(* the longest max-age and the duration of a fetch.                         *)
CachedInv ==
    /\ cache.fetchedAs <= published
    /\ cache.keys = IF cache.fetchedAs = 0 THEN {} ELSE Published[cache.fetchedAs]
    /\ cache.expiresAt <= now + MaxTTL
    /\ \A k \in cache.keys :
          k \in Published[published] \/ cache.expiresAt <= withdrawn[k] + MaxTTL + 1

(* An answer under way is not older than the cache, and its keys were       *)
(* published after the fetch began, no more than a unit ago.                *)
AnswerInv ==
    \A q \in Requests :
       /\ pc[q] \in Asking => now <= lastFetch.at + 1
       /\ pc[q] = "store" =>
             /\ fetched[q] \in 1..published /\ cache.fetchedAs <= fetched[q]
             /\ \A k \in Published[fetched[q]] :
                   k \in Published[published] \/ lastFetch.at <= withdrawn[k]

KeyInv == KeyCacheTypeOK /\ QueueInv /\ BackoffInv /\ CachedInv /\ AnswerInv

(* Every set of keys that Google publishes is one of known keys.            *)
LEMMA PublishedKeys == \A i \in 1..Len(Published) : Published[i] \in SUBSET Kids
  BY KeyCacheAssumption

(* The end of a request, however it comes.                                  *)
LEMMA Ending ==
    ASSUME KeyCacheTypeOK, QueueInv, NEW r \in Requests, End(r)
    PROVE  /\ refresh' \in Seq(Requests)
           /\ fetched' \in [Requests -> 1..Len(Published) \cup {None}]
           /\ pc' \in [Requests -> {"idle", "check", "lock", "fetch", "store"}]
           /\ token' \in [Requests -> Tokens \cup {None}]
           /\ QueueInv'
           /\ pc'[r] = "idle"
           /\ \A q \in Requests \ {r} : pc'[q] = pc[q] /\ fetched'[q] = fetched[q]
<1>1. /\ pc' = [pc EXCEPT ![r] = "idle"] /\ token' = [token EXCEPT ![r] = None]
      /\ refresh' = RemoveFirst(refresh, r) /\ fetched' = [fetched EXCEPT ![r] = None]
  BY DEF End
<1>2. refresh \in Seq(Requests) /\ NoRepeat(refresh)
  BY DEF KeyCacheTypeOK, QueueInv
<1>3. /\ refresh' \in Seq(Requests) /\ NoRepeat(refresh')
      /\ ToSet(refresh') = ToSet(refresh) \ {r}
      /\ refresh # << >> /\ Head(refresh) # r =>
            refresh' # << >> /\ Head(refresh') = Head(refresh)
  BY <1>1, <1>2, Leaving
<1>4. /\ fetched' \in [Requests -> 1..Len(Published) \cup {None}]
      /\ pc' \in [Requests -> {"idle", "check", "lock", "fetch", "store"}]
      /\ token' \in [Requests -> Tokens \cup {None}]
      /\ pc'[r] = "idle"
      /\ \A q \in Requests \ {r} :
            pc'[q] = pc[q] /\ fetched'[q] = fetched[q] /\ token'[q] = token[q]
  BY <1>1 DEF KeyCacheTypeOK
<1>5. QueueInv'
  BY <1>3, <1>4 DEF QueueInv, Waiting, Asking
<1> QED BY <1>3, <1>4, <1>5

(* A request that ends without touching the cache.                          *)
LEMMA Finishing ==
    ASSUME KeyInv, NEW r \in Requests, End(r),
           UNCHANGED <<now, published, withdrawn, cache, lastFetch>>
    PROVE  KeyInv'
<1>1. /\ refresh' \in Seq(Requests)
      /\ fetched' \in [Requests -> 1..Len(Published) \cup {None}]
      /\ pc' \in [Requests -> {"idle", "check", "lock", "fetch", "store"}]
      /\ token' \in [Requests -> Tokens \cup {None}]
      /\ QueueInv'
      /\ pc'[r] = "idle"
      /\ \A q \in Requests \ {r} : pc'[q] = pc[q] /\ fetched'[q] = fetched[q]
  BY Ending DEF KeyInv
<1>2. KeyCacheTypeOK' /\ BackoffInv' /\ CachedInv'
  BY <1>1 DEF KeyInv, KeyCacheTypeOK, BackoffInv, CachedInv
<1>3. AnswerInv'
  BY <1>1 DEF KeyInv, AnswerInv, Asking
<1> QED BY <1>1, <1>2, <1>3 DEF KeyInv

(* A request that goes on without touching the cache or the queue.          *)
LEMMA KeyPresents ==
    ASSUME KeyInv, NEW r \in Requests, NEW t \in Tokens, Present(r, t)
    PROVE  KeyInv'
<1>1. UNCHANGED <<now, published, withdrawn, cache, refresh, fetched, lastFetch>>
  BY DEF Present
<1>2. pc[r] = "idle"
  BY DEF Present
<1>3. CASE pc' = pc /\ token' = token
  BY <1>1, <1>3 DEF KeyInv, KeyCacheTypeOK, QueueInv, BackoffInv, CachedInv, AnswerInv
<1>4. CASE pc' = [pc EXCEPT ![r] = "check"] /\ token' = [token EXCEPT ![r] = t]
  <2>1. KeyCacheTypeOK'
    <3>1. /\ pc' \in [Requests -> {"idle", "check", "lock", "fetch", "store"}]
          /\ token' \in [Requests -> Tokens \cup {None}]
      BY <1>4 DEF KeyInv, KeyCacheTypeOK
    <3> QED BY <1>1, <3>1 DEF KeyInv, KeyCacheTypeOK
  <2>2. \A q \in Requests : /\ pc'[q] = IF q = r THEN "check" ELSE pc[q]
                            /\ token'[q] = IF q = r THEN t ELSE token[q]
    BY <1>4 DEF KeyInv, KeyCacheTypeOK
  <2>3. QueueInv'
    BY <1>1, <1>2, <2>2 DEF KeyInv, QueueInv, Waiting, Asking
  <2>4. BackoffInv' /\ CachedInv'
    BY <1>1 DEF KeyInv, BackoffInv, CachedInv
  <2>5. AnswerInv'
    BY <1>1, <2>2 DEF KeyInv, AnswerInv, Asking
  <2> QED BY <2>1, <2>3, <2>4, <2>5 DEF KeyInv
<1> QED BY <1>3, <1>4 DEF Present

(* A request that finds no key at hand joins the queue for the lock.        *)
LEMMA KeyJoins ==
    ASSUME KeyInv, NEW r \in Requests, pc[r] = "check",
           refresh' = Append(refresh, r), pc' = [pc EXCEPT ![r] = "lock"],
           UNCHANGED <<now, published, withdrawn, cache, lastFetch, token, fetched>>
    PROVE  KeyInv'
<1>1. r \notin ToSet(refresh) /\ refresh \in Seq(Requests) /\ NoRepeat(refresh)
  BY DEF KeyInv, KeyCacheTypeOK, QueueInv, Waiting
<1>2. /\ refresh' \in Seq(Requests) /\ NoRepeat(refresh')
      /\ ToSet(refresh') = ToSet(refresh) \cup {r}
      /\ refresh # << >> => refresh' # << >> /\ Head(refresh') = Head(refresh)
  BY <1>1, Joining
<1>3. KeyCacheTypeOK'
  BY <1>2 DEF KeyInv, KeyCacheTypeOK
<1>4. \A q \in Requests : pc'[q] = IF q = r THEN "lock" ELSE pc[q]
  BY DEF KeyInv, KeyCacheTypeOK
<1>5. QueueInv'
  BY <1>2, <1>4 DEF KeyInv, QueueInv, Waiting, Asking
<1>6. BackoffInv' /\ CachedInv'
  BY DEF KeyInv, BackoffInv, CachedInv
<1>7. AnswerInv'
  BY <1>4 DEF KeyInv, AnswerInv, Asking
<1> QED BY <1>3, <1>5, <1>6, <1>7 DEF KeyInv

(* Nobody but the holder is between asking Google and storing its answer.   *)
LEMMA OneAsks ==
    ASSUME KeyInv, NEW r \in Requests, pc[r] \in Waiting, Holds(r),
           NEW q \in Requests \ {r}
    PROVE  pc[q] \notin Asking
  BY DEF KeyInv, QueueInv, Holds

(* The holder of the lock asks Google, for the first time or after the      *)
(* back-off.                                                                *)
LEMMA KeyBegins ==
    ASSUME KeyInv, NEW r \in Requests, BeginFetch(r)
    PROVE  KeyInv'
<1>1. /\ pc[r] = "lock" /\ Holds(r)
      /\ cache' = [cache EXCEPT !.refreshAfter = now + Backoff]
      /\ pc' = [pc EXCEPT ![r] = "fetch"]
      /\ lastFetch' = [at |-> now, found |-> FALSE]
      /\ UNCHANGED <<now, published, withdrawn, refresh, fetched, token>>
  BY DEF BeginFetch
<1>2. \A q \in Requests : pc'[q] = IF q = r THEN "fetch" ELSE pc[q]
  BY <1>1 DEF KeyInv, KeyCacheTypeOK
<1>3. KeyCacheTypeOK'
  <2>1. now + Backoff \in Nat
    BY KeyCacheAssumption DEF KeyInv, KeyCacheTypeOK
  <2>2. cache' \in [keys : SUBSET Kids, expiresAt : Nat, refreshAfter : Nat,
                    fetchedAs : 0..Len(Published)]
    BY <1>1, <2>1 DEF KeyInv, KeyCacheTypeOK
  <2>3. /\ pc' \in [Requests -> {"idle", "check", "lock", "fetch", "store"}]
        /\ lastFetch' \in [at : Nat, found : BOOLEAN]
    BY <1>1 DEF KeyInv, KeyCacheTypeOK
  <2> QED BY <1>1, <2>2, <2>3 DEF KeyInv, KeyCacheTypeOK
<1>4. \A q \in Requests \ {r} : pc[q] \notin Asking
  BY <1>1, OneAsks DEF Waiting
<1>5. r \in ToSet(refresh)
  BY <1>1 DEF KeyInv, QueueInv, Waiting
<1>6. refresh # << >>
  BY <1>5 DEF ToSet
<1>7. QueueInv'
  BY <1>1, <1>2, <1>4, <1>6 DEF KeyInv, QueueInv, Waiting, Asking, Holds
<1>8. /\ cache'.refreshAfter = now + Backoff /\ cache'.keys = cache.keys
      /\ cache'.expiresAt = cache.expiresAt /\ cache'.fetchedAs = cache.fetchedAs
  BY <1>1 DEF KeyInv, KeyCacheTypeOK
<1>9. BackoffInv'
  BY <1>1, <1>8, KeyCacheAssumption DEF KeyInv, KeyCacheTypeOK, BackoffInv
<1>10. CachedInv'
  BY <1>1, <1>8 DEF KeyInv, CachedInv
<1>11. AnswerInv'
  BY <1>1, <1>2, <1>4 DEF KeyInv, KeyCacheTypeOK, AnswerInv, Asking
<1> QED BY <1>3, <1>7, <1>9, <1>10, <1>11 DEF KeyInv

(* Google answers the holder with the keys of that moment.                  *)
LEMMA KeyAnswers ==
    ASSUME KeyInv, NEW r \in Requests, GoogleAnswers(r)
    PROVE  KeyInv'
<1>1. /\ pc[r] = "fetch"
      /\ fetched' = [fetched EXCEPT ![r] = published]
      /\ pc' = [pc EXCEPT ![r] = "store"]
      /\ UNCHANGED <<now, published, withdrawn, cache, refresh, lastFetch, token>>
  BY DEF GoogleAnswers
<1>2. \A q \in Requests : /\ pc'[q] = IF q = r THEN "store" ELSE pc[q]
                          /\ fetched'[q] = IF q = r THEN published ELSE fetched[q]
  BY <1>1 DEF KeyInv, KeyCacheTypeOK
<1>3. KeyCacheTypeOK'
  BY <1>1 DEF KeyInv, KeyCacheTypeOK
<1>4. QueueInv'
  BY <1>1, <1>2 DEF KeyInv, QueueInv, Waiting, Asking
<1>5. BackoffInv' /\ CachedInv'
  BY <1>1 DEF KeyInv, BackoffInv, CachedInv
<1>6. AnswerInv'
  BY <1>1, <1>2 DEF KeyInv, KeyCacheTypeOK, CachedInv, AnswerInv, Asking
<1> QED BY <1>3, <1>4, <1>5, <1>6 DEF KeyInv

(* The holder stores the answer, and the lock passes on.                    *)
LEMMA KeyStores ==
    ASSUME KeyInv, NEW r \in Requests, Store(r)
    PROVE  KeyInv'
<1> DEFINE keys == Published[fetched[r]]
           found == token[r].kid \in keys
<1>1. /\ pc[r] = "store" /\ End(r)
      /\ lastFetch' = [lastFetch EXCEPT !.found = found]
      /\ UNCHANGED <<now, published, withdrawn>>
  BY DEF Store, Finish
<1>2. PICK ttl \in MinTTL..MaxTTL :
         cache' = [keys |-> keys, expiresAt |-> now + ttl,
                   refreshAfter |-> IF found THEN now ELSE now + Backoff,
                   fetchedAs |-> fetched[r]]
  BY DEF Store
<1>3. /\ fetched[r] \in 1..published /\ now <= lastFetch.at + 1
      /\ \A k \in keys : k \in Published[published] \/ lastFetch.at <= withdrawn[k]
  BY <1>1 DEF KeyInv, AnswerInv, Asking
<1>4. now \in Nat /\ published \in 1..Len(Published) /\ withdrawn \in [Kids -> Nat]
      /\ lastFetch \in [at : Nat, found : BOOLEAN]
  BY DEF KeyInv, KeyCacheTypeOK
<1>5. fetched[r] \in 1..Len(Published) /\ keys \in SUBSET Kids
  BY <1>3, <1>4, PublishedKeys
<1>6. /\ refresh' \in Seq(Requests)
      /\ fetched' \in [Requests -> 1..Len(Published) \cup {None}]
      /\ pc' \in [Requests -> {"idle", "check", "lock", "fetch", "store"}]
      /\ token' \in [Requests -> Tokens \cup {None}]
      /\ QueueInv'
      /\ pc'[r] = "idle"
      /\ \A q \in Requests \ {r} : pc'[q] = pc[q] /\ fetched'[q] = fetched[q]
  BY <1>1, Ending DEF KeyInv
<1>7. \A q \in Requests : pc'[q] \notin Asking
  <2>1. Head(refresh) = r /\ pc[r] \in Waiting
    BY <1>1 DEF KeyInv, QueueInv, Asking, Waiting
  <2>2. \A q \in Requests \ {r} : pc[q] \notin Asking
    BY <2>1, OneAsks DEF Holds
  <2> QED BY <1>6, <2>2 DEF Asking
<1>b. found \in BOOLEAN
  OBVIOUS
<1> HIDE DEF keys, found
<1>8. /\ cache'.keys = keys /\ cache'.fetchedAs = fetched[r]
      /\ cache'.expiresAt = now + ttl
      /\ cache'.refreshAfter = IF found THEN now ELSE now + Backoff
      /\ ttl \in Nat /\ ttl <= MaxTTL
  BY <1>2, KeyCacheAssumption
<1>9. lastFetch'.at = lastFetch.at /\ (lastFetch'.found <=> found)
  BY <1>1, <1>4
<1>10. KeyCacheTypeOK'
  <2>1. cache' \in [keys : SUBSET Kids, expiresAt : Nat, refreshAfter : Nat,
                    fetchedAs : 0..Len(Published)]
    BY <1>2, <1>4, <1>5, <1>8, KeyCacheAssumption
  <2>2. lastFetch' \in [at : Nat, found : BOOLEAN]
    BY <1>1, <1>4, <1>b
  <2> QED BY <1>1, <1>4, <1>6, <2>1, <2>2 DEF KeyCacheTypeOK
<1>11. BackoffInv'
  BY <1>1, <1>4, <1>8, <1>9, KeyCacheAssumption DEF KeyInv, BackoffInv
<1>12. CachedInv'
  <2>1. ASSUME NEW k \in keys
        PROVE  k \in Published[published] \/ now + ttl <= withdrawn[k] + MaxTTL + 1
    <3>1. withdrawn[k] \in Nat
      BY <1>4, <1>5
    <3> QED BY <1>3, <1>4, <1>8, <3>1, KeyCacheAssumption
  <2>2. fetched[r] # 0 /\ fetched[r] <= published
    BY <1>3, <1>4
  <2>3. keys = Published[fetched[r]]
    BY DEF keys
  <2>4. now + ttl <= now + MaxTTL
    BY <1>4, <1>8, KeyCacheAssumption
  <2> QED BY <1>1, <1>8, <2>1, <2>2, <2>3, <2>4 DEF CachedInv
<1>13. AnswerInv'
  BY <1>7 DEF AnswerInv, Asking
<1> QED BY <1>6, <1>10, <1>11, <1>12, <1>13 DEF KeyInv

(* Google replaces its keys.                                                *)
LEMMA KeyRotates ==
    ASSUME KeyInv, Rotate
    PROVE  KeyInv'
<1>1. /\ published < Len(Published) /\ published' = published + 1
      /\ withdrawn' = [k \in DOMAIN withdrawn |->
             IF k \in Published[published] \ Published[published + 1]
             THEN now ELSE withdrawn[k]]
      /\ UNCHANGED <<now, cache, refresh, fetched, lastFetch, pc, token>>
  BY DEF Rotate
<1>2. now \in Nat /\ published \in 1..Len(Published) /\ withdrawn \in [Kids -> Nat]
      /\ cache \in [keys : SUBSET Kids, expiresAt : Nat, refreshAfter : Nat,
                    fetchedAs : 0..Len(Published)]
      /\ lastFetch \in [at : Nat, found : BOOLEAN] /\ Len(Published) \in Nat
  BY KeyCacheAssumption DEF KeyInv, KeyCacheTypeOK
<1>3. \A k \in Kids : withdrawn'[k] = IF k \in Published[published] \ Published[published + 1]
                                      THEN now ELSE withdrawn[k]
  BY <1>1, <1>2
<1>4. KeyCacheTypeOK'
  <2>1. published' \in 1..Len(Published)
    BY <1>1, <1>2
  <2>2. withdrawn' \in [Kids -> Nat]
    BY <1>1, <1>2
  <2> QED BY <1>1, <2>1, <2>2 DEF KeyInv, KeyCacheTypeOK
<1>5. QueueInv' /\ BackoffInv'
  BY <1>1 DEF KeyInv, QueueInv, BackoffInv
<1>6. CachedInv'
  <2>1. \A k \in cache.keys :
           k \in Published[published'] \/ cache.expiresAt <= withdrawn'[k] + MaxTTL + 1
    <3> SUFFICES ASSUME NEW k \in cache.keys, k \notin Published[published']
                 PROVE  cache.expiresAt <= withdrawn'[k] + MaxTTL + 1
      OBVIOUS
    <3>1. k \in Kids /\ cache.expiresAt \in Nat
      BY <1>2
    <3>2. cache.expiresAt <= now + MaxTTL
      BY DEF KeyInv, CachedInv
    <3>3. CASE k \in Published[published]
      BY <1>1, <1>2, <1>3, <3>1, <3>2, <3>3, KeyCacheAssumption
    <3>4. CASE k \notin Published[published]
      <4>1. cache.expiresAt <= withdrawn[k] + MaxTTL + 1
        BY <3>4 DEF KeyInv, CachedInv
      <4> QED BY <1>1, <1>3, <3>1, <3>4, <4>1
    <3> QED BY <3>3, <3>4
  <2>2. cache.fetchedAs <= published'
    BY <1>1, <1>2 DEF KeyInv, CachedInv
  <2> QED BY <1>1, <2>1, <2>2 DEF KeyInv, CachedInv
<1>7. AnswerInv'
  <2> SUFFICES ASSUME NEW q \in Requests, pc[q] = "store"
               PROVE  /\ fetched[q] \in 1..published'
                      /\ \A k \in Published[fetched[q]] :
                            k \in Published[published'] \/ lastFetch.at <= withdrawn'[k]
    BY <1>1 DEF KeyInv, AnswerInv
  <2>1. fetched[q] \in 1..published
    BY DEF KeyInv, AnswerInv
  <2>2. fetched[q] \in 1..published' /\ Published[fetched[q]] \in SUBSET Kids
    BY <1>1, <1>2, <2>1, PublishedKeys
  <2>3. ASSUME NEW k \in Published[fetched[q]], k \notin Published[published']
        PROVE  lastFetch.at <= withdrawn'[k]
    <3>1. CASE k \in Published[published]
      BY <1>1, <1>2, <1>3, <2>2, <2>3, <3>1 DEF KeyInv, BackoffInv
    <3>2. CASE k \notin Published[published]
      <4>1. lastFetch.at <= withdrawn[k]
        BY <2>3, <3>2 DEF KeyInv, AnswerInv
      <4> QED BY <1>3, <2>2, <2>3, <3>2, <4>1
    <3> QED BY <3>1, <3>2
  <2> QED BY <2>2, <2>3
<1> QED BY <1>4, <1>5, <1>6, <1>7 DEF KeyInv

(* Time passes.                                                             *)
LEMMA KeyTicks ==
    ASSUME KeyInv, TimePasses
    PROVE  KeyInv'
<1>1. /\ Fetching => lastFetch.at = now
      /\ now' = now + 1
      /\ UNCHANGED <<published, withdrawn, cache, refresh, fetched, lastFetch, pc, token>>
  BY DEF TimePasses
<1>2. /\ now \in Nat /\ lastFetch.at \in Nat /\ cache.expiresAt \in Nat
  BY DEF KeyInv, KeyCacheTypeOK
<1>3. KeyCacheTypeOK' /\ QueueInv'
  BY <1>1, <1>2 DEF KeyInv, KeyCacheTypeOK, QueueInv
<1>4. BackoffInv'
  BY <1>1, <1>2 DEF KeyInv, BackoffInv
<1>5. CachedInv'
  <2>1. cache.expiresAt <= now + 1 + MaxTTL
    BY <1>2, KeyCacheAssumption DEF KeyInv, CachedInv
  <2> QED BY <1>1, <2>1 DEF KeyInv, CachedInv
<1>6. AnswerInv'
  <2>1. \A q \in Requests : pc[q] \in Asking => now + 1 <= lastFetch.at + 1
    BY <1>1, <1>2 DEF Fetching, Asking
  <2> QED BY <1>1, <2>1 DEF KeyInv, AnswerInv
<1> QED BY <1>3, <1>4, <1>5, <1>6 DEF KeyInv

-----------------------------------------------------------------------------
(* Both together.                                                           *)

IInv == LimiterInv /\ KeyInv

(* A server that has just started has an empty table and no keys.           *)
LEMMA Initially == Init => IInv
<1> SUFFICES ASSUME Init PROVE IInv
  OBVIOUS
<1>1. LimiterInv
  <2>1. buckets = << >> /\ tally = [c \in Clients |-> NoWindow]
    BY DEF Init, LimiterInit
  <2>2. DOMAIN buckets = {}
    BY <2>1
  <2>3. Cardinality(DOMAIN buckets) = 0
    BY <2>2, FS_EmptySet
  <2>4. NoWindow \in Windows
    BY DEF NoWindow, Windows
  <2> QED BY <2>1, <2>2, <2>3, <2>4, LimiterAssumption DEF LimiterInv, LimiterTypeOK
<1>2. KeyCacheTypeOK
  BY KeyCacheAssumption DEF Init, KeyCacheInit, KeyCacheTypeOK
<1>3. QueueInv
  BY DEF Init, KeyCacheInit, QueueInv, NoRepeat, ToSet, Waiting, Asking
<1>4. BackoffInv /\ CachedInv /\ AnswerInv
  BY KeyCacheAssumption
  DEF Init, KeyCacheInit, BackoffInv, CachedInv, AnswerInv, Asking
<1> QED BY <1>1, <1>2, <1>3, <1>4 DEF IInv, KeyInv

(* A step of a request that is in progress.                                 *)
LEMMA Processing ==
    ASSUME KeyInv, NEW r \in Requests, Process(r) \/ Disconnect(r)
    PROVE  KeyInv'
<1>1. CASE Check(r)
  <2>1. CASE End(r)
    BY <1>1, <2>1, Finishing DEF Check
  <2>2. CASE refresh' = Append(refresh, r) /\ pc' = [pc EXCEPT ![r] = "lock"]
             /\ UNCHANGED <<token, fetched>>
    BY <1>1, <2>2, KeyJoins DEF Check
  <2> QED BY <1>1, <2>1, <2>2 DEF Check, Finish
<1>2. CASE RecheckEnds(r)
  BY <1>2, Finishing DEF RecheckEnds, Finish
<1>3. CASE BeginFetch(r)
  BY <1>3, KeyBegins
<1>4. CASE GoogleAnswers(r)
  BY <1>4, KeyAnswers
<1>5. CASE FetchFails(r)
  BY <1>5, Finishing DEF FetchFails, Finish
<1>6. CASE Store(r)
  BY <1>6, KeyStores
<1>7. CASE Disconnect(r)
  BY <1>7, Finishing DEF Disconnect, Finish
<1> QED BY <1>1, <1>2, <1>3, <1>4, <1>5, <1>6, <1>7 DEF Process

(* Nothing that the key cache does takes time by itself.                    *)
LEMMA ProcessingKeepsTime ==
    ASSUME NEW r \in Requests, Process(r) \/ Disconnect(r)
    PROVE  now' = now
  BY DEF Process, Check, RecheckEnds, BeginFetch, GoogleAnswers, FetchFails, Store, Disconnect

(* Each action of the composition keeps both parts of the invariant.        *)
LEMMA Inductive == IInv /\ [Next]_vars => IInv'
<1> SUFFICES ASSUME IInv, [Next]_vars PROVE IInv'
  OBVIOUS
<1> USE DEF IInv
<1>0. now \in Nat
  BY DEF KeyInv, KeyCacheTypeOK
<1>1. ASSUME NEW r \in Requests, NEW c \in Clients, TurnAway(r, c)
      PROVE  IInv'
  <2>1. LimiterInv'
    BY <1>0, <1>1, LimiterRefuses DEF TurnAway
  <2>2. KeyInv'
    BY <1>1
    DEF TurnAway, KeyInv, KeyCacheTypeOK, QueueInv, BackoffInv, CachedInv, AnswerInv
  <2> QED BY <2>1, <2>2
<1>2. ASSUME NEW r \in Requests, NEW c \in Clients, NEW t \in Tokens, Arrive(r, c, t)
      PROVE  IInv'
  <2>1. Admit(c, now) /\ Present(r, t) /\ now' = now
    BY <1>2 DEF Arrive, Present
  <2> QED BY <1>0, <2>1, LimiterAdmits, KeyPresents
<1>3. ASSUME NEW r \in Requests, Serve(r) \/ Leave(r)
      PROVE  IInv'
  <2>1. /\ Process(r) \/ Disconnect(r)
        /\ UNCHANGED <<buckets, tally>>
    BY <1>3 DEF Serve, Leave
  <2>2. LimiterInv'
    BY <2>1, ProcessingKeepsTime DEF LimiterInv, LimiterTypeOK, Over
  <2> QED BY <2>1, <2>2, Processing
<1>4. CASE KeysRotate
  <2>1. Rotate /\ UNCHANGED <<buckets, tally>> /\ now' = now
    BY <1>4 DEF KeysRotate, Rotate
  <2>2. LimiterInv'
    BY <2>1 DEF LimiterInv, LimiterTypeOK, Over
  <2> QED BY <2>1, <2>2, KeyRotates
<1>5. CASE Tick
  <2>1. TimePasses /\ Forget(now + 1) /\ buckets' = buckets /\ now' = now + 1
    BY <1>5 DEF Tick, TimePasses
  <2> QED BY <1>0, <2>1, LimiterTicks, KeyTicks
<1>6. CASE UNCHANGED vars
  BY <1>6 DEF vars, keyVars, LimiterInv, LimiterTypeOK, Over,
      KeyInv, KeyCacheTypeOK, QueueInv, BackoffInv, CachedInv, AnswerInv
<1> QED BY <1>1, <1>2, <1>3, <1>4, <1>5, <1>6 DEF Next

(* The invariant that the theorems rest on, for any number of clients,      *)
(* requests and tokens (RateLimiter::allow, get_key).                       *)
THEOREM Invariance == Spec => []IInv
  BY Initially, Inductive, PTL DEF Spec

-----------------------------------------------------------------------------
(* What follows.                                                            *)

Answers == {None, "accepted", "unauthorized", "unavailable", "rate_limited", "dropped"}

AnswerTypeOK == answer \in Answers

(* Only answers of the server are given.                                    *)
LEMMA AnswerStep == AnswerTypeOK /\ [Next]_vars => AnswerTypeOK'
<1> SUFFICES ASSUME answer \in Answers, [Next]_vars PROVE answer' \in Answers
  BY DEF AnswerTypeOK
<1> USE DEF Answers
<1>1. ASSUME NEW r \in Requests, NEW c \in Clients, TurnAway(r, c)
      PROVE  answer' \in Answers
  BY <1>1 DEF TurnAway
<1>2. ASSUME NEW r \in Requests, NEW c \in Clients, NEW t \in Tokens, Arrive(r, c, t)
      PROVE  answer' \in Answers
  <2>1. answer' = EarlyAnswer(t)
    BY <1>2 DEF Arrive, Present
  <2>2. EarlyAnswer(t) \in {None, "unauthorized", "unavailable"}
    BY DEF EarlyAnswer
  <2> QED BY <2>1, <2>2
<1>3. ASSUME NEW r \in Requests, Serve(r) \/ Leave(r)
      PROVE  answer' \in Answers
  <2>1. Refusal \in Answers /\ Verdict(token[r]) \in Answers
    BY DEF Refusal, Verdict
  <2> QED BY <1>3, <2>1 DEF Serve, Leave, Process, Check, RecheckEnds, BeginFetch,
      GoogleAnswers, FetchFails, Store, Disconnect, Finish
<1>4. CASE KeysRotate \/ Tick
  BY <1>4 DEF KeysRotate, Rotate, Tick, TimePasses
<1>5. CASE UNCHANGED vars
  BY <1>5 DEF vars, keyVars
<1> QED BY <1>1, <1>2, <1>3, <1>4, <1>5 DEF Next

(* The limiter's table has at most MaxClients rows, each a client's; and    *)
(* the cache, the lock's queue and the requests keep their types.           *)
THEOREM TypeCorrect == Spec => []TypeOK
<1>1. Init => AnswerTypeOK
  BY DEF Init, KeyCacheInit, AnswerTypeOK, Answers
<1>2. Spec => []AnswerTypeOK
  BY <1>1, AnswerStep, PTL DEF Spec
<1>3. IInv /\ AnswerTypeOK => TypeOK
  BY DEF AnswerTypeOK, IInv, LimiterInv, KeyInv, TypeOK, Answers
<1> QED BY <1>2, <1>3, Invariance, PTL

(* A client never has more than Limit admissions in the window that its     *)
(* first one opened, however often the full table is swept                  *)
(* (RateLimiter::allow).                                                    *)
THEOREM LimitKept == Spec => []AdmissionsBounded
<1>1. IInv => AdmissionsBounded
  <2> SUFFICES ASSUME IInv, NEW c \in Clients PROVE tally[c].count <= Limit
    BY DEF AdmissionsBounded
  <2>1. tally[c] = IF c \in DOMAIN buckets /\ ~Over(buckets[c], now)
                   THEN buckets[c] ELSE NoWindow
    BY DEF IInv, LimiterInv
  <2>2. CASE c \in DOMAIN buckets /\ ~Over(buckets[c], now)
    <3>1. buckets[c].count \in 1..Limit
      BY <2>2 DEF IInv, LimiterInv
    <3> QED BY <2>1, <2>2, <3>1, LimiterAssumption
  <2>3. CASE ~(c \in DOMAIN buckets /\ ~Over(buckets[c], now))
    BY <2>1, <2>3, LimiterAssumption DEF NoWindow
  <2> QED BY <2>2, <2>3
<1> QED BY <1>1, Invariance, PTL

(* Google is asked at most once per Backoff, unless the last fetch found    *)
(* the key it was made for (get_key).                                       *)
THEOREM FetchesSpaced == Spec => FetchesAreSpaced
<1> DEFINE Spaced == \A r \in Requests : Asks(r) =>
                        lastFetch.found \/ now >= lastFetch.at + Backoff
<1>1. IInv /\ [Next]_vars => [Spaced]_keyVars
  <2> SUFFICES ASSUME IInv, [Next]_vars, NEW r \in Requests, Asks(r)
               PROVE  lastFetch.found \/ now >= lastFetch.at + Backoff
    OBVIOUS
  <2>0. pc \in [Requests -> {"idle", "check", "lock", "fetch", "store"}]
    BY DEF IInv, KeyInv, KeyCacheTypeOK
  <2>1. BeginFetch(r)
    <3>1. ASSUME NEW q \in Requests, Process(q) \/ Disconnect(q)
          PROVE  BeginFetch(r)
      <4>1. CASE BeginFetch(q)
        BY <2>0, <4>1 DEF BeginFetch, Asks
      <4>2. CASE ~BeginFetch(q)
        BY <2>0, <3>1, <4>2 DEF Process, Check, RecheckEnds, GoogleAnswers, FetchFails,
           Store, Disconnect, Finish, End, Asks
      <4> QED BY <4>1, <4>2
    <3>2. ASSUME NEW q \in Requests, NEW t \in Tokens, Present(q, t)
          PROVE  FALSE
      BY <2>0, <3>2 DEF Present, Asks
    <3> QED BY <3>1, <3>2, <2>0 DEF Next, TurnAway, Arrive, Serve, Leave, KeysRotate, Rotate,
        Tick, TimePasses, vars, keyVars, Asks
  <2>2. now >= cache.refreshAfter
    BY <2>1 DEF BeginFetch, BackedOff, IInv, KeyInv, KeyCacheTypeOK
  <2> QED BY <2>2, KeyCacheAssumption DEF IInv, KeyInv, KeyCacheTypeOK, BackoffInv
<1> QED BY <1>1, Invariance, PTL DEF Spec, FetchesAreSpaced

(* A slow answer of Google never replaces newer keys (get_key).             *)
THEOREM KeysAdvance == Spec => KeysOnlyAdvance
<1>1. IInv /\ [Next]_vars => [cache'.fetchedAs >= cache.fetchedAs]_keyVars
  <2> SUFFICES ASSUME IInv, [Next]_vars PROVE cache'.fetchedAs >= cache.fetchedAs
    OBVIOUS
  <2>1. CASE cache' = cache
    BY <2>1 DEF IInv, KeyInv, KeyCacheTypeOK
  <2>2. ASSUME NEW r \in Requests, BeginFetch(r)
        PROVE  cache'.fetchedAs >= cache.fetchedAs
    BY <2>2 DEF BeginFetch, IInv, KeyInv, KeyCacheTypeOK
  <2>3. ASSUME NEW r \in Requests, Store(r)
        PROVE  cache'.fetchedAs >= cache.fetchedAs
    <3>1. cache'.fetchedAs = fetched[r] /\ pc[r] = "store"
      BY <2>3 DEF Store
    <3>2. fetched[r] \in 1..published /\ cache.fetchedAs <= fetched[r]
      BY <3>1 DEF IInv, KeyInv, AnswerInv
    <3> QED BY <3>1, <3>2 DEF IInv, KeyInv, KeyCacheTypeOK
  <2> QED BY <2>1, <2>2, <2>3 DEF Next, TurnAway, Arrive, Present, Serve, Process, Check,
      RecheckEnds, GoogleAnswers, FetchFails, Leave, Disconnect, KeysRotate, Rotate, Tick,
      TimePasses, vars, keyVars
<1> QED BY <1>1, Invariance, PTL DEF Spec, KeysOnlyAdvance

(* A key that may be used now is one that Google publishes or withdrew no   *)
(* more than MaxTTL ago.                                                    *)
Current(k) ==
    \/ k \in Published[published]
    \/ k \in UNION {Published[i] : i \in 1..published} /\ now <= withdrawn[k] + MaxTTL

(* A token that is accepted with a cached key is current.                   *)
LEMMA CachedKeyIsCurrent ==
    ASSUME KeyInv, Fresh, NEW k \in cache.keys
    PROVE  Current(k)
<1>1. /\ now \in Nat /\ published \in 1..Len(Published) /\ withdrawn \in [Kids -> Nat]
      /\ cache.expiresAt \in Nat /\ cache.fetchedAs \in Nat /\ cache.keys \in SUBSET Kids
  BY DEF KeyInv, KeyCacheTypeOK
<1>2. cache.fetchedAs \in 1..published /\ k \in Published[cache.fetchedAs]
  BY <1>1 DEF KeyInv, CachedInv
<1>3. k \in UNION {Published[i] : i \in 1..published}
  BY <1>2
<1>4. CASE k \in Published[published]
  BY <1>4 DEF Current
<1>5. CASE k \notin Published[published]
  <2>1. cache.expiresAt <= withdrawn[k] + MaxTTL + 1
    BY <1>5 DEF KeyInv, CachedInv
  <2>2. now <= withdrawn[k] + MaxTTL
    BY <1>1, <2>1, KeyCacheAssumption DEF Fresh
  <2> QED BY <1>3, <2>2 DEF Current
<1> QED BY <1>4, <1>5

(* A token that is accepted with a key just fetched is current.             *)
LEMMA FetchedKeyIsCurrent ==
    ASSUME KeyInv, NEW r \in Requests, pc[r] = "store", NEW k \in Published[fetched[r]]
    PROVE  Current(k)
<1>1. /\ now \in Nat /\ published \in 1..Len(Published) /\ withdrawn \in [Kids -> Nat]
      /\ lastFetch.at \in Nat
  BY DEF KeyInv, KeyCacheTypeOK
<1>2. /\ fetched[r] \in 1..published /\ now <= lastFetch.at + 1
      /\ k \in Published[published] \/ lastFetch.at <= withdrawn[k]
  BY DEF KeyInv, AnswerInv, Asking
<1>3. k \in Kids
  BY <1>1, <1>2, PublishedKeys
<1>4. k \in UNION {Published[i] : i \in 1..published}
  BY <1>2
<1>5. CASE k \in Published[published]
  BY <1>5 DEF Current
<1>6. CASE k \notin Published[published]
  <2>1. now <= withdrawn[k] + MaxTTL
    BY <1>1, <1>2, <1>3, <1>6, KeyCacheAssumption
  <2> QED BY <1>4, <2>1 DEF Current
<1> QED BY <1>5, <1>6

(* A token is accepted only before it expires and for a key that is         *)
(* current, whatever the request waited for (verified_subject).             *)
THEOREM AcceptanceIsCurrent == Spec => AcceptedIsCurrent
<1> DEFINE Good == \A r \in Requests : Accepts(r) =>
                      LET k == token[r].kid
                      IN  /\ now < token[r].exp
                          /\ \/ k \in Published[published]
                             \/ k \in UNION {Published[i] : i \in 1..published}
                                /\ now <= withdrawn[k] + MaxTTL
<1>1. IInv /\ [Next]_vars => [Good]_keyVars
  <2> SUFFICES ASSUME IInv, [Next]_vars, NEW r \in Requests, Accepts(r)
               PROVE  now < token[r].exp /\ Current(token[r].kid)
    BY DEF Current
  <2>0. /\ pc \in [Requests -> {"idle", "check", "lock", "fetch", "store"}]
        /\ pc[r] # "idle" /\ token[r] \in Tokens /\ now \in Nat
    BY DEF IInv, KeyInv, KeyCacheTypeOK, QueueInv, Accepts
  <2>1. Verdict(token[r]) = "accepted" => now < token[r].exp
    BY <2>0, KeyCacheAssumption DEF Verdict
  <2>2. CASE Check(r) \/ RecheckEnds(r)
    <3>1. KeyAtHand(r) /\ Verdict(token[r]) = "accepted"
      BY <2>0, <2>2 DEF Check, RecheckEnds, Finish, Refusal, Accepts
    <3> QED BY <2>1, <3>1, CachedKeyIsCurrent DEF KeyAtHand, IInv
  <2>3. CASE Store(r)
    <3>1. /\ pc[r] = "store" /\ token[r].kid \in Published[fetched[r]]
          /\ Verdict(token[r]) = "accepted"
      BY <2>3 DEF Store, Finish, Accepts
    <3> QED BY <2>1, <3>1, FetchedKeyIsCurrent DEF IInv
  <2>4. Check(r) \/ RecheckEnds(r) \/ Store(r)
    <3>1. ASSUME NEW q \in Requests, Process(q) \/ Disconnect(q)
          PROVE  Check(r) \/ RecheckEnds(r) \/ Store(r)
      <4>1. q = r
        BY <2>0, <3>1 DEF Process, Check, RecheckEnds, BeginFetch, GoogleAnswers, FetchFails,
           Store, Disconnect, Finish, End, Accepts
      <4> QED BY <2>0, <3>1, <4>1 DEF Process, BeginFetch, GoogleAnswers, FetchFails,
          Disconnect, Finish, Accepts
    <3>2. ASSUME NEW q \in Requests, NEW t \in Tokens, Present(q, t)
          PROVE  FALSE
      BY <2>0, <3>2 DEF Present, Accepts
    <3> QED BY <3>1, <3>2, <2>0 DEF Next, TurnAway, Arrive, Serve, Leave, KeysRotate, Rotate,
        Tick, TimePasses, vars, keyVars, Accepts
  <2> QED BY <2>2, <2>3, <2>4
<1> QED BY <1>1, Invariance, PTL DEF Spec, AcceptedIsCurrent
=============================================================================
