-------------------------- MODULE DictationProofs --------------------------
(***************************************************************************)
(* Proofs about the two ends of dictation.                                 *)
(*                                                                         *)
(* DictationReceiver, for any number of requests, keys and texts, any      *)
(* bound of the queue and any size of the memory: "ok" means inserted, and *)
(* a text is inserted again only after as many other keys as the memory    *)
(* holds.                                                                  *)
(*                                                                         *)
(* LocalDictation, for any number of overlapping calls, any models and any *)
(* bound of the queue: dropped phrases are never delivered, the microphone *)
(* is shown, a session records for its model, and an end is final.         *)
(***************************************************************************)
EXTENDS LocalDictation, DictationReceiver, FiniteSetTheorems, FunctionTheorems,
        SequenceTheorems, TLAPS

-----------------------------------------------------------------------------
(* Facts about sequences and finite sets.                                  *)

(* What a function has over an interval is a finite set.                   *)
LEMMA FiniteImage ==
    ASSUME NEW f, NEW a \in Int, NEW b \in Int
    PROVE  IsFiniteSet({f[j] : j \in a..b})
<1> DEFINE S == {f[j] : j \in a..b}
           g == [j \in a..b |-> f[j]]
<1>1. g \in Surjection(a..b, S)
  BY DEF Surjection
<1>2. IsFiniteSet(a..b)
  BY FS_Interval
<1> HIDE DEF S, g
<1>3. IsFiniteSet(S)
  BY <1>1, <1>2, FS_Surjection
<1> QED BY <1>3 DEF S

(* Of two finite sets the larger has no fewer elements.                    *)
LEMMA Larger ==
    ASSUME NEW S, NEW T, IsFiniteSet(T), S \subseteq T, NEW n \in Nat, Cardinality(S) >= n
    PROVE  Cardinality(T) >= n
<1>1. IsFiniteSet(S) /\ Cardinality(S) <= Cardinality(T)
  BY FS_Subset
<1>2. Cardinality(S) \in Nat /\ Cardinality(T) \in Nat
  BY <1>1, FS_CardinalityType
<1> QED BY <1>1, <1>2

(* Distinct values at n places are n values.                               *)
LEMMA DistinctValues ==
    ASSUME NEW n \in Nat, NEW f, NEW S, IsFiniteSet(S), \A j \in 1..n : f[j] \in S,
           \A i, j \in 1..n : f[i] = f[j] => i = j
    PROVE  Cardinality(S) >= n
<1> DEFINE g == [j \in 1..n |-> f[j]]
<1>1. g \in Injection(1..n, S)
  BY DEF Injection, IsInjective
<1>2. Cardinality(1..n) = n
  <2>1. Cardinality(1..n) = IF 1 > n THEN 0 ELSE n - 1 + 1
    BY FS_Interval
  <2> QED BY <2>1
<1>3. Cardinality(S) \in Nat
  BY FS_CardinalityType
<1> HIDE DEF g
<1>4. Cardinality(1..n) <= Cardinality(S)
  BY <1>1, FS_Injection
<1> QED BY <1>2, <1>3, <1>4

(* The element at place i becomes the last.                                *)
LEMMA Moved ==
    ASSUME NEW S, NEW s \in Seq(S), NEW i \in DOMAIN s
    PROVE  LET t == Append(RemoveAt(s, i), s[i])
           IN  /\ t \in Seq(S) /\ Len(t) = Len(s)
               /\ \A j \in 1..Len(s) :
                     t[j] = IF j < i THEN s[j] ELSE IF j < Len(s) THEN s[j + 1] ELSE s[i]
<1> DEFINE front == SubSeq(s, 1, i - 1)
           back == SubSeq(s, i + 1, Len(s))
<1>1. i \in 1..Len(s) /\ s[i] \in S
  OBVIOUS
<1>2. /\ front \in Seq(S) /\ Len(front) = i - 1
      /\ \A j \in 1..(i - 1) : front[j] = s[j]
  BY <1>1
<1>3. /\ back \in Seq(S) /\ Len(back) = Len(s) - i
      /\ \A j \in 1..(Len(s) - i) : back[j] = s[i + j]
  BY <1>1
<1> HIDE DEF front, back
<1> DEFINE rest == front \o back
<1>4. /\ rest \in Seq(S) /\ Len(rest) = Len(s) - 1
      /\ \A j \in 1..(Len(s) - 1) : rest[j] = IF j < i THEN s[j] ELSE s[j + 1]
  <2>1. rest \in Seq(S) /\ Len(rest) = Len(s) - 1
    BY <1>1, <1>2, <1>3
  <2>2. ASSUME NEW j \in 1..(Len(s) - 1)
        PROVE  rest[j] = IF j < i THEN s[j] ELSE s[j + 1]
    <3>1. CASE j < i
      BY <1>1, <1>2, <1>3, <3>1
    <3>2. CASE ~(j < i)
      <4>1. /\ j - (i - 1) \in 1..(Len(s) - i) /\ i + (j - (i - 1)) = j + 1
            /\ j \in Int
        BY <1>1, <3>2
      <4>2. j \in 1..(Len(front) + Len(back)) /\ ~(j <= Len(front))
        BY <1>1, <1>2, <1>3, <3>2
      <4>3. rest[j] = back[j - Len(front)]
        BY <1>2, <1>3, <4>2, ConcatProperties
      <4>4. back[j - (i - 1)] = s[j + 1]
        BY <1>3, <4>1
      <4> QED BY <1>2, <3>2, <4>3, <4>4
    <3> QED BY <3>1, <3>2
  <2> QED BY <2>1, <2>2
<1>5. RemoveAt(s, i) = rest
  BY DEF RemoveAt, front, back
<1> HIDE DEF rest
<1> QED BY <1>1, <1>4, <1>5

-----------------------------------------------------------------------------
(* The memory.                                                             *)

\* Keys that are more recent in the memory than place i, and keys that were
\* used after use n.
Later(i) == {seen[m].key : m \in (i + 1)..Len(seen)}
After(n) == {uses[j] : j \in (n + 1)..Len(uses)}

(* A key that was used is remembered, and every key that the memory puts     *)
(* after it was used after it; or as many others as the memory holds were.   *)
RememberedOrOld(n) ==
    \/ \E i \in DOMAIN seen : seen[i].key = uses[n] /\ Later(i) \subseteq After(n)
    \/ Cardinality(After(n) \ {uses[n]}) >= MaxRemembered

MemoryInv == \A n \in DOMAIN uses : RememberedOrOld(n)

(* A use adds its key to the keys used since an earlier one, and what was    *)
(* old stays old.                                                          *)
LEMMA Using ==
    ASSUME TypeOK, NEW k \in Keys, uses' = Append(uses, k)
    PROVE  /\ uses' \in Seq(Keys) /\ Len(uses') = Len(uses) + 1
           /\ uses'[Len(uses) + 1] = k
           /\ \A n \in DOMAIN uses :
                 /\ uses'[n] = uses[n] /\ After(n)' = After(n) \cup {k}
                 /\ IsFiniteSet(After(n)')
           /\ \A n \in DOMAIN uses :
                 Cardinality(After(n) \ {uses[n]}) >= MaxRemembered
                    => Cardinality(After(n)' \ {uses'[n]}) >= MaxRemembered
<1>1. /\ uses' \in Seq(Keys) /\ Len(uses') = Len(uses) + 1 /\ Len(uses) \in Nat
      /\ uses'[Len(uses) + 1] = k
      /\ DOMAIN uses = 1..Len(uses)
      /\ \A n \in DOMAIN uses : uses'[n] = uses[n]
  BY DEF TypeOK
<1>2. ASSUME NEW n \in DOMAIN uses
      PROVE  After(n)' = After(n) \cup {k}
  <2>1. n \in Nat /\ n <= Len(uses) /\ DOMAIN uses = 1..Len(uses)
    BY DEF TypeOK
  <2>2. \A j \in (n + 1)..(Len(uses) + 1) :
            j \in (n + 1)..Len(uses) \/ j = Len(uses) + 1
    BY <1>1, <2>1
  <2>3. \A j \in (n + 1)..Len(uses) : j \in 1..Len(uses) /\ j \in (n + 1)..(Len(uses) + 1)
    BY <1>1, <2>1
  <2>4. Len(uses) + 1 \in (n + 1)..(Len(uses) + 1)
    BY <1>1, <2>1
  <2>5. ASSUME NEW x \in After(n)'
        PROVE  x \in After(n) \cup {k}
    <3>1. PICK j \in (n + 1)..(Len(uses) + 1) : x = uses'[j]
      BY <1>1, <2>5 DEF After
    <3> QED BY <1>1, <2>2, <2>3, <3>1 DEF After
  <2>6. ASSUME NEW x \in After(n) \cup {k}
        PROVE  x \in After(n)'
    <3>1. CASE x \in After(n)
      <4>1. PICK j \in (n + 1)..Len(uses) : x = uses[j]
        BY <3>1 DEF After
      <4>2. j \in (n + 1)..Len(uses') /\ x = uses'[j]
        BY <1>1, <2>3, <4>1
      <4> QED BY <4>2 DEF After
    <3>2. CASE x = k
      BY <1>1, <2>4, <3>2 DEF After
    <3> QED BY <2>6, <3>1, <3>2
  <2> QED BY <2>5, <2>6
<1>3. ASSUME NEW n \in DOMAIN uses
      PROVE  IsFiniteSet(After(n)) /\ IsFiniteSet(After(n)')
  <2>1. n + 1 \in Int /\ Len(uses) \in Int
    BY <1>1 DEF TypeOK
  <2>2. IsFiniteSet(After(n))
    BY <2>1, FiniteImage DEF After
  <2> QED BY <1>2, <2>2, FS_AddElement
<1>4. ASSUME NEW n \in DOMAIN uses, Cardinality(After(n) \ {uses[n]}) >= MaxRemembered
      PROVE  Cardinality(After(n)' \ {uses'[n]}) >= MaxRemembered
  <2>1. MaxRemembered \in Nat /\ uses'[n] = uses[n]
    BY <1>1, MaxAssumption
  <2>2. IsFiniteSet((After(n) \cup {k}) \ {uses[n]})
    BY <1>2, <1>3, FS_RemoveElement
  <2>3. Cardinality((After(n) \cup {k}) \ {uses[n]}) >= MaxRemembered
    BY <1>4, <2>1, <2>2, Larger
  <2> QED BY <1>2, <2>1, <2>3
<1> QED BY <1>1, <1>2, <1>3, <1>4

(* A key that is used again becomes the most recent one.                   *)
LEMMA Touching ==
    ASSUME TypeOK, MemoryInv, NEW r \in Requests, NEW p \in Places(r), Touch(p),
           uses' = Append(uses, KeyOf[r])
    PROVE  /\ seen' \in Seq(Outcomes) /\ Len(seen') = Len(seen)
           /\ \A i, j \in DOMAIN seen' : seen'[i].key = seen'[j].key => i = j
           /\ \A i \in DOMAIN seen' : \E j \in DOMAIN seen : seen'[i] = seen[j]
           /\ MemoryInv'
<1>0. PICK L \in Nat : L = Len(seen)
  BY DEF TypeOK
<1>1. /\ seen' \in Seq(Outcomes) /\ Len(seen') = L
      /\ \A j \in 1..L :
            seen'[j] = IF j < p THEN seen[j] ELSE IF j < L THEN seen[j + 1] ELSE seen[p]
  BY <1>0, Moved DEF TypeOK, Places, Touch
<1>2. L \in Nat /\ DOMAIN seen = 1..L /\ DOMAIN seen' = 1..L
  <2>1. seen \in Seq(Outcomes)
    BY DEF TypeOK
  <2> QED BY <1>0, <1>1, <2>1
<1>3. p \in 1..L /\ seen[p].key = KeyOf[r] /\ KeyOf[r] \in Keys
  BY <1>2 DEF Places, Keys
<1>4. \A i, j \in 1..L : seen[i].key = seen[j].key => i = j
  BY <1>2 DEF TypeOK
<1>5. ASSUME NEW i \in 1..L, NEW j \in 1..L, seen'[i].key = seen'[j].key
      PROVE  i = j
  BY <1>1, <1>2, <1>3, <1>4, <1>5
<1>6. ASSUME NEW i \in 1..L
      PROVE  \E j \in 1..L : seen'[i] = seen[j]
  <2>1. CASE i < p
    BY <1>1, <2>1
  <2>2. CASE ~(i < p) /\ i < L
    <3>1. i + 1 \in 1..L
      BY <1>2, <2>2
    <3> QED BY <1>1, <2>2, <3>1
  <2>3. CASE ~(i < p) /\ ~(i < L)
    BY <1>1, <1>3, <2>3
  <2> QED BY <2>1, <2>2, <2>3
<1>7. /\ Len(uses') = Len(uses) + 1 /\ uses'[Len(uses) + 1] = KeyOf[r]
      /\ uses' \in Seq(Keys)
      /\ \A n \in DOMAIN uses :
            /\ uses'[n] = uses[n] /\ After(n)' = After(n) \cup {KeyOf[r]}
            /\ IsFiniteSet(After(n)')
      /\ \A n \in DOMAIN uses :
            Cardinality(After(n) \ {uses[n]}) >= MaxRemembered
               => Cardinality(After(n)' \ {uses'[n]}) >= MaxRemembered
  BY <1>3, Using
<1>8. L \in 1..L /\ seen'[L].key = KeyOf[r] /\ Later(L)' = {}
  BY <1>1, <1>2, <1>3 DEF Later
<1>9. ASSUME NEW n \in DOMAIN uses'
      PROVE  RememberedOrOld(n)'
  <2>1. CASE uses'[n] = KeyOf[r]
    BY <1>2, <1>8, <2>1 DEF RememberedOrOld
  <2>2. CASE uses'[n] # KeyOf[r]
    <3>1. n \in DOMAIN uses
      BY <1>7, <2>2 DEF TypeOK
    <3>2. CASE Cardinality(After(n) \ {uses[n]}) >= MaxRemembered
      BY <1>7, <3>1, <3>2 DEF RememberedOrOld
    <3>3. ASSUME NEW i \in 1..L, seen[i].key = uses[n], Later(i) \subseteq After(n)
          PROVE  RememberedOrOld(n)'
      <4>1. i # p
        BY <1>3, <1>7, <2>2, <3>1, <3>3
      <4> DEFINE place == IF i < p THEN i ELSE i - 1
      <4>2. place \in 1..L /\ seen'[place] = seen[i]
        <5>1. CASE i < p
          <6>1. place = i /\ i < p
            BY <5>1
          <6> QED BY <1>1, <6>1
        <5>2. CASE ~(i < p)
          <6>1. i \in 2..L /\ i - 1 \in 1..L /\ ~(i - 1 < p) /\ i - 1 < L
            BY <1>2, <1>3, <4>1, <5>2
          <6>2. seen'[i - 1] = seen[(i - 1) + 1]
            BY <1>1, <6>1
          <6>3. (i - 1) + 1 = i
            BY <6>1
          <6> QED BY <5>2, <6>1, <6>2, <6>3
        <5> QED BY <5>1, <5>2
      <4>3. ASSUME NEW m \in (place + 1)..L
            PROVE  seen'[m].key \in Later(i) \cup {KeyOf[r]}
        <5>1. /\ m \in 1..L
              /\ m < p => m \in (i + 1)..L
              /\ ~(m < p) /\ m < L => m + 1 \in (i + 1)..L
          BY <1>2, <1>3, <4>1, <4>2
        <5>2. CASE m < p
          BY <1>0, <1>1, <5>1, <5>2 DEF Later
        <5>3. CASE ~(m < p) /\ m < L
          BY <1>0, <1>1, <5>1, <5>3 DEF Later
        <5>4. CASE ~(m < p) /\ ~(m < L)
          BY <1>1, <1>3, <5>1, <5>4
        <5> QED BY <5>2, <5>3, <5>4
      <4>4. Later(place)' \subseteq Later(i) \cup {KeyOf[r]}
        BY <1>1, <4>3 DEF Later
      <4>5. seen'[place].key = uses'[n] /\ Later(place)' \subseteq After(n)'
        BY <1>7, <3>1, <3>3, <4>2, <4>4
      <4> HIDE DEF place
      <4> QED BY <1>2, <4>2, <4>5 DEF RememberedOrOld
    <3> QED BY <1>2, <3>1, <3>2, <3>3 DEF MemoryInv, RememberedOrOld
  <2> QED BY <2>1, <2>2
<1> QED BY <1>0, <1>1, <1>2, <1>5, <1>6, <1>9 DEF MemoryInv

(* A key that is new to the memory takes the place of the one that was used  *)
(* least recently, after which as many others were used as there are places. *)
LEMMA Remembering ==
    ASSUME TypeOK, MemoryInv, NEW r \in Requests, Places(r) = {},
           NEW succeeded \in BOOLEAN, Remember(r, succeeded),
           uses' = Append(uses, KeyOf[r])
    PROVE  /\ seen' \in Seq(Outcomes) /\ Len(seen') <= MaxRemembered
           /\ \A i, j \in DOMAIN seen' : seen'[i].key = seen'[j].key => i = j
           /\ \A i \in DOMAIN seen' :
                 \/ \E j \in DOMAIN seen : seen'[i] = seen[j]
                 \/ seen'[i] = [key |-> KeyOf[r], text |-> TextOf[r], succeeded |-> succeeded]
           /\ MemoryInv'
<1>0. PICK L \in Nat : L = Len(seen)
  BY DEF TypeOK
<1> DEFINE new == [key |-> KeyOf[r], text |-> TextOf[r], succeeded |-> succeeded]
<1>1. new \in Outcomes /\ new.key = KeyOf[r] /\ KeyOf[r] \in Keys
  BY DEF Outcomes, Keys, Texts
<1> HIDE DEF new
<1>2. PICK all \in Seq(Outcomes) :
          /\ Len(all) = L + 1 /\ all[L + 1] = new
          /\ \A i \in 1..L : all[i] = seen[i]
          /\ seen' = IF Len(all) > MaxRemembered THEN Tail(all) ELSE all
  <2>1. seen \in Seq(Outcomes)
    BY DEF TypeOK
  <2>2. /\ Append(seen, new) \in Seq(Outcomes) /\ Len(Append(seen, new)) = L + 1
        /\ Append(seen, new)[L + 1] = new
        /\ \A i \in 1..L : Append(seen, new)[i] = seen[i]
    BY <1>0, <1>1, <2>1
  <2>3. seen' = IF Len(Append(seen, new)) > MaxRemembered
                THEN Tail(Append(seen, new)) ELSE Append(seen, new)
    BY DEF Remember, new
  <2> QED BY <2>2, <2>3
<1>3. PICK d \in {0, 1} :
          /\ d = (IF L + 1 > MaxRemembered THEN 1 ELSE 0)
          /\ seen' \in Seq(Outcomes) /\ Len(seen') = L + 1 - d
          /\ \A i \in 1..(L + 1 - d) : seen'[i] = all[i + d]
  <2>1. CASE L + 1 > MaxRemembered
    <3>1. seen' = Tail(all) /\ all # << >>
      BY <1>2, <2>1
    <3>2. /\ Tail(all) \in Seq(Outcomes) /\ Len(Tail(all)) = L
          /\ \A i \in 1..L : Tail(all)[i] = all[i + 1]
      BY <1>2, <3>1
    <3> QED BY <2>1, <3>1, <3>2
  <2>2. CASE ~(L + 1 > MaxRemembered)
    BY <1>2, <2>2
  <2> QED BY <2>1, <2>2
<1>4. DOMAIN seen = 1..L /\ DOMAIN all = 1..(L + 1) /\ DOMAIN seen' = 1..(L + 1 - d)
  <2>1. seen \in Seq(Outcomes)
    BY DEF TypeOK
  <2> QED BY <1>0, <1>2, <1>3, <2>1
<1>5. /\ MaxRemembered \in Nat \ {0} /\ L <= MaxRemembered
      /\ \A i, j \in 1..L : seen[i].key = seen[j].key => i = j
      /\ \A i \in 1..L : seen[i].key # KeyOf[r]
  BY <1>0, <1>4, MaxAssumption DEF TypeOK, Places
<1>6. \A i, j \in 1..(L + 1) : all[i].key = all[j].key => i = j
  BY <1>1, <1>2, <1>5
<1>7. ASSUME NEW i \in 1..(L + 1 - d), NEW j \in 1..(L + 1 - d), seen'[i].key = seen'[j].key
      PROVE  i = j
  <2>1. i + d \in 1..(L + 1) /\ j + d \in 1..(L + 1)
    BY <1>3
  <2>2. i + d = j + d
    BY <1>3, <1>6, <1>7, <2>1
  <2> QED BY <2>2
<1>8. ASSUME NEW i \in 1..(L + 1 - d)
      PROVE  (\E j \in 1..L : seen'[i] = seen[j]) \/ seen'[i] = new
  <2>1. i + d \in 1..L \/ i + d = L + 1
    BY <1>3
  <2> QED BY <1>2, <1>3, <2>1
<1>9. /\ Len(uses') = Len(uses) + 1 /\ uses'[Len(uses) + 1] = KeyOf[r]
      /\ uses' \in Seq(Keys)
      /\ \A n \in DOMAIN uses :
            /\ uses'[n] = uses[n] /\ After(n)' = After(n) \cup {KeyOf[r]}
            /\ IsFiniteSet(After(n)')
      /\ \A n \in DOMAIN uses :
            Cardinality(After(n) \ {uses[n]}) >= MaxRemembered
               => Cardinality(After(n)' \ {uses'[n]}) >= MaxRemembered
  BY <1>1, Using
<1>10. PICK last \in 1..(L + 1 - d) :
           last = L + 1 - d /\ seen'[last].key = KeyOf[r] /\ Later(last)' = {}
  <2>1. L + 1 - d \in 1..(L + 1 - d) /\ seen'[L + 1 - d] = new
    BY <1>2, <1>3, <1>5
  <2>2. (L + 1 - d + 1)..Len(seen') = {}
    BY <1>3
  <2> QED BY <1>1, <2>1, <2>2 DEF Later
<1>11. ASSUME NEW n \in DOMAIN uses'
       PROVE  RememberedOrOld(n)'
  <2>1. CASE uses'[n] = KeyOf[r]
    BY <1>4, <1>10, <2>1 DEF RememberedOrOld
  <2>2. CASE uses'[n] # KeyOf[r]
    <3>1. n \in DOMAIN uses
      BY <1>9, <2>2 DEF TypeOK
    <3>2. CASE Cardinality(After(n) \ {uses[n]}) >= MaxRemembered
      BY <1>9, <3>1, <3>2 DEF RememberedOrOld
    <3>3. ASSUME NEW i \in 1..L, seen[i].key = uses[n], Later(i) \subseteq After(n)
          PROVE  RememberedOrOld(n)'
      <4>1. \A m \in (i + 1)..(L + 1) : all[m].key \in Later(i) \cup {KeyOf[r]}
        <5> SUFFICES ASSUME NEW m \in (i + 1)..(L + 1)
                     PROVE  all[m].key \in Later(i) \cup {KeyOf[r]}
          OBVIOUS
        <5>1. m \in (i + 1)..L \/ m = L + 1
          OBVIOUS
        <5>2. CASE m \in (i + 1)..L
          <6>1. all[m] = seen[m]
            BY <1>2, <5>2
          <6> QED BY <1>0, <5>2, <6>1 DEF Later
        <5>3. CASE m = L + 1
          BY <1>1, <1>2, <5>3
        <5> QED BY <5>1, <5>2, <5>3
      <4>2. CASE i > d
        <5>1. PICK q \in 1..(L + 1 - d) : q = i - d
          <6>1. i - d \in 1..(L + 1 - d)
            BY <4>2
          <6> QED BY <6>1
        <5>2. seen'[q] = all[i] /\ all[i] = seen[i]
          BY <1>2, <1>3, <5>1
        <5>3. ASSUME NEW m \in (q + 1)..(L + 1 - d)
              PROVE  seen'[m].key \in Later(i) \cup {KeyOf[r]}
          <6>1. m \in 1..(L + 1 - d) /\ m + d \in (i + 1)..(L + 1)
            BY <1>3, <5>1
          <6> QED BY <1>3, <4>1, <6>1
        <5>4. Later(q)' \subseteq Later(i) \cup {KeyOf[r]}
          BY <1>3, <5>3 DEF Later
        <5>5. seen'[q].key = uses'[n] /\ Later(q)' \subseteq After(n)'
          BY <1>9, <3>1, <3>3, <5>2, <5>4
        <5> QED BY <1>4, <5>5 DEF RememberedOrOld
      <4>3. CASE ~(i > d)
        <5>1. i = 1 /\ d = 1 /\ L = MaxRemembered
          BY <1>3, <1>5, <4>3
        <5>2. PICK f : f = [m \in 1..L |-> seen'[m].key]
          OBVIOUS
        <5>3. PICK others : others = After(n)' \ {uses'[n]}
          OBVIOUS
        <5>4. \A j, m \in 1..L : f[j] = f[m] => j = m
          BY <1>7, <5>1, <5>2
        <5>5. \A m \in 1..L : f[m] \in others
          <6> SUFFICES ASSUME NEW m \in 1..L
                       PROVE  seen'[m].key \in After(n)' \ {uses'[n]}
            BY <5>2, <5>3
          <6>1. /\ seen'[m] = all[m + 1] /\ m + 1 \in (i + 1)..(L + 1)
                /\ m + 1 \in 1..(L + 1) /\ i \in 1..(L + 1) /\ m + 1 # i
            BY <1>3, <5>1
          <6>2. seen'[m].key \in After(n)'
            BY <1>9, <3>1, <3>3, <4>1, <6>1
          <6>3. all[i].key = uses'[n]
            BY <1>2, <1>9, <3>1, <3>3
          <6>4. seen'[m].key # uses'[n]
            BY <1>6, <6>1, <6>3
          <6> QED BY <6>2, <6>4
        <5>6. IsFiniteSet(others)
          BY <1>9, <3>1, <5>3, FS_RemoveElement
        <5>7. Cardinality(others) >= L
          BY <1>0, <5>4, <5>5, <5>6, DistinctValues
        <5> QED BY <5>1, <5>3, <5>7 DEF RememberedOrOld
      <4> QED BY <4>2, <4>3
    <3> QED BY <1>4, <3>1, <3>2, <3>3 DEF MemoryInv, RememberedOrOld
  <2> QED BY <2>1, <2>2
<1>12. Len(seen') <= MaxRemembered
  BY <1>3, <1>5
<1>13. MemoryInv'
  BY <1>11 DEF MemoryInv
<1> QED BY <1>3, <1>4, <1>7, <1>8, <1>12, <1>13 DEF new

-----------------------------------------------------------------------------
(* The invariant.                                                          *)

(* Who waits or inserts is in the queue; who inserts is at its head, and its *)
(* key is not remembered until the end of the insertion.                   *)
QueueInv ==
    /\ \A r \in Requests : phase[r] \in {"queued", "inserting"} => r \in ToSet(queue)
    /\ \A r \in Requests :
          phase[r] = "inserting" => queue # << >> /\ r = Head(queue) /\ Places(r) = {}

Inserted(key, text) ==
    \E i \in DOMAIN calls :
        /\ calls[i].status = "ok"
        /\ KeyOf[calls[i].request] = key /\ TextOf[calls[i].request] = text

(* What is remembered as a success was inserted.                           *)
SuccessInv ==
    \A i \in DOMAIN seen : seen[i].succeeded => Inserted(seen[i].key, seen[i].text)

CallsInv == \A i \in DOMAIN calls : calls[i].use \in 1..Len(uses)

IInv ==
    /\ TypeOK /\ QueueInv /\ SuccessInv /\ CallsInv /\ MemoryInv
    /\ AcknowledgedWasInserted /\ ReplayNeedsFullWindow

(* The request whose turn ends leaves the queue to the others.             *)
LEMMA TurnEnds ==
    ASSUME TypeOK, QueueInv, NEW r \in Requests, phase[r] \in {"queued", "inserting"},
           r = Head(queue), NEW status, Answer(r, status), queue' = Tail(queue)
    PROVE  /\ phase' \in [Requests -> {"new", "queued", "inserting", "answered"}]
           /\ queue' \in Seq(Requests) /\ Len(queue') <= MaxPending
           /\ QueueInv'
<1>1. queue \in Seq(Requests) /\ queue # << >> /\ queue[1] = r
  BY DEF TypeOK, QueueInv, ToSet
<1>2. /\ queue' \in Seq(Requests) /\ Len(queue') = Len(queue) - 1
      /\ \A i \in 1..(Len(queue) - 1) : queue'[i] = queue[i + 1]
  BY <1>1
<1>3. /\ phase' \in [Requests -> {"new", "queued", "inserting", "answered"}]
      /\ phase'[r] = "answered" /\ \A q \in Requests \ {r} : phase'[q] = phase[q]
  BY DEF Answer, TypeOK
<1>4. ASSUME NEW q \in Requests, phase'[q] \in {"queued", "inserting"}
      PROVE  q \in ToSet(queue')
  <2>1. q # r /\ q \in ToSet(queue)
    BY <1>3, <1>4 DEF QueueInv
  <2>2. PICK i \in 1..Len(queue) : queue[i] = q
    BY <1>1, <2>1 DEF ToSet
  <2>3. PICK j \in 1..(Len(queue) - 1) : j = i - 1
    <3>1. i - 1 \in 1..(Len(queue) - 1)
      BY <1>1, <2>1, <2>2
    <3> QED BY <3>1
  <2>4. j \in DOMAIN queue' /\ queue'[j] = q
    BY <1>1, <1>2, <2>2, <2>3
  <2> QED BY <2>4 DEF ToSet
<1>5. ASSUME NEW q \in Requests
      PROVE  phase'[q] # "inserting"
  BY <1>3 DEF QueueInv, TypeOK
<1>6. Len(queue') <= MaxPending
  BY <1>1, <1>2, MaxAssumption DEF TypeOK
<1> QED BY <1>2, <1>3, <1>4, <1>5, <1>6 DEF QueueInv

(* Uses are only appended: what holds of the earlier calls goes on holding.*)
LEMMA OldCalls ==
    ASSUME TypeOK, CallsInv, ReplayNeedsFullWindow, NEW k \in Keys,
           uses' = Append(uses, k), NEW i \in DOMAIN calls
    PROVE  /\ calls[i].use \in 1..Len(uses')
           /\ \A e \in 1..(calls[i].use - 1) :
                 uses'[e] = uses'[calls[i].use] =>
                    Cardinality({uses'[j] : j \in (e + 1)..(calls[i].use - 1)}
                                    \ {uses'[calls[i].use]}) >= MaxRemembered
<1>1. PICK now \in 1..Len(uses) : now = calls[i].use
  BY DEF CallsInv
<1>2. /\ Len(uses) \in Nat /\ Len(uses') = Len(uses) + 1
      /\ \A n \in 1..Len(uses) : uses'[n] = uses[n]
  BY DEF TypeOK
<1>3. ASSUME NEW e \in 1..(now - 1)
      PROVE  {uses'[j] : j \in (e + 1)..(now - 1)} = {uses[j] : j \in (e + 1)..(now - 1)}
  BY <1>1, <1>2
<1>4. ASSUME NEW e \in 1..(now - 1), uses'[e] = uses'[now]
      PROVE  Cardinality({uses'[j] : j \in (e + 1)..(now - 1)} \ {uses'[now]})
                >= MaxRemembered
  <2>1. uses'[e] = uses[e] /\ uses'[now] = uses[now]
    BY <1>1, <1>2
  <2>2. Cardinality({uses[j] : j \in (e + 1)..(now - 1)} \ {uses[now]}) >= MaxRemembered
    BY <1>1, <1>4, <2>1 DEF ReplayNeedsFullWindow
  <2> QED BY <1>3, <2>1, <2>2
<1> QED BY <1>1, <1>2, <1>4

(* Requests that are refused, admitted or turned away, or whose insertion    *)
(* begins, leave the memory as it is.                                      *)
LEMMA MemoryIdle ==
    ASSUME IInv, NEW r \in Requests,
           Refuse(r) \/ Admit(r) \/ TurnAway(r) \/ BeginInsert(r)
    PROVE  IInv'
<1>1. UNCHANGED <<seen, calls, uses>>
  BY DEF Refuse, Admit, TurnAway, BeginInsert
<1>2. SuccessInv' /\ CallsInv' /\ MemoryInv' /\ ReplayNeedsFullWindow'
  <2>1. SuccessInv' /\ CallsInv'
    BY <1>1 DEF IInv, SuccessInv, Inserted, CallsInv
  <2>2. \A n : Later(n)' = Later(n) /\ After(n)' = After(n)
    BY <1>1 DEF Later, After
  <2>3. MemoryInv'
    BY <1>1, <2>2 DEF IInv, MemoryInv, RememberedOrOld
  <2>4. ReplayNeedsFullWindow'
    BY <1>1 DEF IInv, ReplayNeedsFullWindow
  <2> QED BY <2>1, <2>3, <2>4
<1>3. \A q \in Requests : Places(q)' = Places(q)
  BY <1>1 DEF Places
<1>4. reply' \in [Requests -> Replies \cup {"none"}]
      /\ \A q \in Requests : reply'[q] = "ok" => reply[q] = "ok"
  BY DEF IInv, TypeOK, Refuse, Admit, TurnAway, BeginInsert, Answer, Replies
<1>5. AcknowledgedWasInserted'
  BY <1>1, <1>4 DEF IInv, AcknowledgedWasInserted
<1>6. /\ phase' \in [Requests -> {"new", "queued", "inserting", "answered"}]
      /\ \A q \in Requests \ {r} : phase'[q] = phase[q]
  BY DEF IInv, TypeOK, Refuse, Admit, TurnAway, BeginInsert, Answer
<1>7. CASE Refuse(r) \/ TurnAway(r)
  <2>1. queue' = queue /\ phase'[r] = "answered"
    BY <1>7 DEF IInv, TypeOK, Refuse, TurnAway, Answer
  <2>2. TypeOK' /\ QueueInv'
    BY <1>1, <1>3, <1>4, <1>6, <2>1 DEF IInv, TypeOK, QueueInv, ToSet
  <2> QED BY <1>2, <1>5, <2>2 DEF IInv
<1>8. CASE Admit(r)
  <2>1. /\ queue' = Append(queue, r) /\ phase'[r] = "queued" /\ Len(queue) < MaxPending
        /\ queue \in Seq(Requests)
    BY <1>8 DEF IInv, TypeOK, Admit
  <2>2. /\ queue' \in Seq(Requests) /\ Len(queue') = Len(queue) + 1
        /\ queue'[Len(queue) + 1] = r /\ \A i \in DOMAIN queue : queue'[i] = queue[i]
        /\ DOMAIN queue \subseteq DOMAIN queue' /\ Len(queue) + 1 \in DOMAIN queue'
        /\ queue # << >> => Head(queue') = Head(queue)
    BY <2>1
  <2>3. Len(queue') <= MaxPending
    BY <2>1, <2>2, MaxAssumption
  <2>4. QueueInv'
    BY <1>3, <1>6, <2>1, <2>2 DEF IInv, QueueInv, ToSet
  <2> QED BY <1>1, <1>2, <1>4, <1>5, <1>6, <2>2, <2>3, <2>4 DEF IInv, TypeOK
<1>9. CASE BeginInsert(r)
  <2>1. /\ queue' = queue /\ phase'[r] = "inserting" /\ phase[r] = "queued"
        /\ r = Head(queue) /\ Places(r) = {}
    BY <1>9 DEF IInv, TypeOK, BeginInsert, Turn
  <2>2. r \in ToSet(queue) /\ queue # << >>
    BY <2>1 DEF IInv, QueueInv, ToSet
  <2>3. TypeOK'
    BY <1>1, <1>4, <1>6, <2>1 DEF IInv, TypeOK
  <2>4. QueueInv'
    BY <1>3, <1>6, <2>1, <2>2 DEF IInv, QueueInv
  <2> QED BY <1>2, <1>5, <2>3, <2>4 DEF IInv
<1> QED BY <1>7, <1>8, <1>9

(* A request whose key is remembered is answered from the memory.          *)
LEMMA RepeatKeeps ==
    ASSUME IInv, NEW r \in Requests, Repeat(r)
    PROVE  IInv'
<1>1. PICK p \in Places(r) : Answer(r, Known(r, seen[p])) /\ Touch(p)
  BY DEF Repeat
<1>2. /\ phase[r] = "queued" /\ r = Head(queue) /\ queue' = Tail(queue)
      /\ uses' = Append(uses, KeyOf[r]) /\ UNCHANGED calls /\ KeyOf[r] \in Keys
  BY DEF Repeat, Turn, Keys
<1>3. /\ phase' \in [Requests -> {"new", "queued", "inserting", "answered"}]
      /\ queue' \in Seq(Requests) /\ Len(queue') <= MaxPending
      /\ QueueInv'
  BY <1>1, <1>2, TurnEnds DEF IInv
<1>4. /\ seen' \in Seq(Outcomes) /\ Len(seen') = Len(seen)
      /\ \A i, j \in DOMAIN seen' : seen'[i].key = seen'[j].key => i = j
      /\ \A i \in DOMAIN seen' : \E j \in DOMAIN seen : seen'[i] = seen[j]
      /\ MemoryInv'
  BY <1>1, <1>2, Touching DEF IInv
<1>5. uses' \in Seq(Keys)
  BY <1>2, Using DEF IInv
<1>6. reply' = [reply EXCEPT ![r] = Known(r, seen[p])] /\ Known(r, seen[p]) \in Replies
  BY <1>1 DEF Answer, Known, Replies
<1>7. TypeOK'
  BY <1>2, <1>3, <1>4, <1>5, <1>6 DEF IInv, TypeOK
<1>8. SuccessInv'
  <2> SUFFICES ASSUME NEW i \in DOMAIN seen', seen'[i].succeeded
               PROVE  Inserted(seen[i].key, seen[i].text)'
    BY DEF SuccessInv
  <2>1. PICK j \in DOMAIN seen : seen'[i] = seen[j]
    BY <1>4
  <2>2. Inserted(seen[j].key, seen[j].text)
    BY <2>1 DEF IInv, SuccessInv
  <2> QED BY <1>2, <2>1, <2>2 DEF Inserted
<1>9. AcknowledgedWasInserted'
  <2> SUFFICES ASSUME NEW q \in Requests, reply'[q] = "ok"
               PROVE  Inserted(KeyOf[q], TextOf[q])
    BY <1>2 DEF AcknowledgedWasInserted, Inserted
  <2>1. CASE q = r
    <3>1. seen[p].text = TextOf[r] /\ seen[p].succeeded
      BY <1>6, <2>1 DEF Known, IInv, TypeOK
    <3>2. p \in DOMAIN seen /\ seen[p].key = KeyOf[r]
      BY DEF Places
    <3> QED BY <2>1, <3>1, <3>2 DEF IInv, SuccessInv
  <2>2. CASE q # r
    BY <1>6, <2>2 DEF IInv, TypeOK, AcknowledgedWasInserted, Inserted
  <2> QED BY <2>1, <2>2
<1>10. CallsInv' /\ ReplayNeedsFullWindow'
  BY <1>2, OldCalls DEF IInv, CallsInv, ReplayNeedsFullWindow
<1> QED BY <1>3, <1>4, <1>7, <1>8, <1>9, <1>10 DEF IInv

(* An insertion ends: a new call, of a key that was not remembered.        *)
LEMMA EndInsertKeeps ==
    ASSUME IInv, NEW r \in Requests, NEW status \in {"ok", "input_busy", "insertion_failed"},
           EndInsert(r, status)
    PROVE  IInv'
<1> DEFINE call == [request |-> r, status |-> status, use |-> Len(uses) + 1]
           new == [key |-> KeyOf[r], text |-> TextOf[r], succeeded |-> (status = "ok")]
<1>1. /\ phase[r] = "inserting" /\ r = Head(queue) /\ Places(r) = {} /\ queue' = Tail(queue)
      /\ uses' = Append(uses, KeyOf[r]) /\ calls' = Append(calls, call) /\ KeyOf[r] \in Keys
      /\ Answer(r, status) /\ Remember(r, status = "ok")
  BY DEF EndInsert, IInv, QueueInv, Keys
<1>2. /\ phase' \in [Requests -> {"new", "queued", "inserting", "answered"}]
      /\ queue' \in Seq(Requests) /\ Len(queue') <= MaxPending
      /\ QueueInv'
  BY <1>1, TurnEnds DEF IInv
<1>3. /\ seen' \in Seq(Outcomes) /\ Len(seen') <= MaxRemembered
      /\ \A i, j \in DOMAIN seen' : seen'[i].key = seen'[j].key => i = j
      /\ \A i \in DOMAIN seen' :
            (\E j \in DOMAIN seen : seen'[i] = seen[j]) \/ seen'[i] = new
      /\ MemoryInv'
  BY <1>1, Remembering DEF IInv
<1>4. uses' \in Seq(Keys) /\ Len(uses') = Len(uses) + 1 /\ Len(uses) \in Nat
  BY <1>1, Using DEF IInv, TypeOK
<1>5. /\ calls \in Seq(SinkCalls) /\ call \in SinkCalls
  BY <1>4 DEF IInv, TypeOK, SinkCalls
<1>6. /\ call.request = r /\ call.status = status /\ call.use = Len(uses) + 1
      /\ new.key = KeyOf[r] /\ new.text = TextOf[r] /\ new.succeeded = (status = "ok")
  OBVIOUS
<1> HIDE DEF call, new
<1>7. /\ calls' \in Seq(SinkCalls) /\ Len(calls') = Len(calls) + 1
      /\ calls'[Len(calls) + 1] = call /\ Len(calls) + 1 \in DOMAIN calls'
      /\ \A i \in DOMAIN calls : i \in DOMAIN calls' /\ calls'[i] = calls[i]
      /\ \A i \in DOMAIN calls' : i \in DOMAIN calls \/ i = Len(calls) + 1
  BY <1>1, <1>5
<1>8. reply' = [reply EXCEPT ![r] = status] /\ status \in Replies
  BY <1>1 DEF Answer, Replies
<1>9. TypeOK'
  BY <1>2, <1>3, <1>4, <1>7, <1>8 DEF IInv, TypeOK
<1>10. \A key, text : Inserted(key, text) => Inserted(key, text)'
  BY <1>7 DEF Inserted
<1>11. status = "ok" => Inserted(KeyOf[r], TextOf[r])'
  BY <1>6, <1>7 DEF Inserted
<1>12. SuccessInv'
  <2> SUFFICES ASSUME NEW i \in DOMAIN seen', seen'[i].succeeded
               PROVE  Inserted(seen[i].key, seen[i].text)'
    BY DEF SuccessInv
  <2>1. CASE seen'[i] = new
    BY <1>6, <1>7, <2>1, <1>11 DEF Inserted
  <2>2. ASSUME NEW j \in DOMAIN seen, seen'[i] = seen[j]
        PROVE  Inserted(seen[i].key, seen[i].text)'
    <3>1. Inserted(seen[j].key, seen[j].text)
      BY <2>2 DEF IInv, SuccessInv
    <3> QED BY <1>7, <2>2, <3>1 DEF Inserted
  <2> QED BY <1>3, <2>1, <2>2
<1>13. AcknowledgedWasInserted'
  <2> SUFFICES ASSUME NEW q \in Requests, reply'[q] = "ok"
               PROVE  Inserted(KeyOf[q], TextOf[q])'
    BY DEF AcknowledgedWasInserted, Inserted
  <2>1. CASE q = r
    BY <1>8, <1>11, <2>1 DEF IInv, TypeOK
  <2>2. CASE q # r
    <3>1. reply[q] = "ok"
      BY <1>8, <2>2 DEF IInv, TypeOK
    <3>2. Inserted(KeyOf[q], TextOf[q])
      BY <3>1 DEF IInv, AcknowledgedWasInserted, Inserted
    <3> QED BY <1>10, <3>2
  <2> QED BY <2>1, <2>2
<1>14. ASSUME NEW i \in DOMAIN calls'
       PROVE  /\ calls'[i].use \in 1..Len(uses')
              /\ \A e \in 1..(calls'[i].use - 1) :
                    uses'[e] = uses'[calls'[i].use] =>
                       Cardinality({uses'[j] : j \in (e + 1)..(calls'[i].use - 1)}
                                       \ {uses'[calls'[i].use]}) >= MaxRemembered
  <2>1. CASE i \in DOMAIN calls
    BY <1>1, <1>7, <2>1, OldCalls DEF IInv
  <2>2. CASE i = Len(calls) + 1
    <3>1. calls'[i].use = Len(uses) + 1 /\ uses'[Len(uses) + 1] = KeyOf[r]
      BY <1>1, <1>6, <1>7, <2>2, Using DEF IInv
    <3>2. ASSUME NEW e \in 1..Len(uses), uses'[e] = KeyOf[r]
          PROVE  Cardinality({uses'[j] : j \in (e + 1)..Len(uses)} \ {KeyOf[r]})
                    >= MaxRemembered
      <4>1. e \in DOMAIN uses /\ \A j \in 1..Len(uses) : uses'[j] = uses[j]
        BY <1>1, <1>4 DEF IInv, TypeOK
      <4>2. uses[e] = KeyOf[r]
        BY <3>2, <4>1
      <4>3. Cardinality(After(e) \ {uses[e]}) >= MaxRemembered
        BY <1>1, <4>1, <4>2 DEF IInv, MemoryInv, RememberedOrOld, Places
      <4>4. {uses'[j] : j \in (e + 1)..Len(uses)} = After(e)
        BY <1>4, <4>1 DEF After
      <4> QED BY <4>2, <4>3, <4>4
    <3>3. Len(uses) + 1 - 1 = Len(uses)
      BY <1>4
    <3> QED BY <1>4, <3>1, <3>2, <3>3
  <2> QED BY <1>7, <2>1, <2>2
<1>15. CallsInv' /\ ReplayNeedsFullWindow'
  BY <1>14 DEF CallsInv, ReplayNeedsFullWindow
<1> QED BY <1>2, <1>3, <1>9, <1>12, <1>13, <1>15 DEF IInv

-----------------------------------------------------------------------------
(* The theorems.                                                           *)

(* A Desktop that has just started remembers nothing.                      *)
LEMMA Initially == Init => IInv
<1> SUFFICES ASSUME Init
             PROVE  IInv
  OBVIOUS
<1>1. TypeOK
  BY MaxAssumption DEF Init, TypeOK
<1>2. QueueInv /\ AcknowledgedWasInserted
  BY DEF Init, QueueInv, AcknowledgedWasInserted
<1>3. SuccessInv /\ CallsInv /\ MemoryInv /\ ReplayNeedsFullWindow
  BY DEF Init, SuccessInv, CallsInv, MemoryInv, ReplayNeedsFullWindow
<1> QED BY <1>1, <1>2, <1>3 DEF IInv

(* The invariant that the theorems rest on, for any number of requests and   *)
(* any size of the memory (DictationReceiver.handle).                      *)
THEOREM Invariance == Spec => []IInv
<1>1. IInv /\ [Next]_vars => IInv'
  <2> SUFFICES ASSUME IInv, [Next]_vars
               PROVE  IInv'
    OBVIOUS
  <2>1. CASE Next
    BY <2>1, MemoryIdle, RepeatKeeps, EndInsertKeeps DEF Next
  <2>2. CASE UNCHANGED vars
    <3>1. \A n : Later(n)' = Later(n) /\ After(n)' = After(n)
      BY <2>2 DEF vars, Later, After
    <3>2. TypeOK' /\ QueueInv' /\ SuccessInv' /\ CallsInv'
      BY <2>2 DEF vars, IInv, TypeOK, QueueInv, Places, SuccessInv, Inserted, CallsInv
    <3>3. MemoryInv'
      BY <2>2, <3>1 DEF vars, IInv, MemoryInv, RememberedOrOld
    <3>4. AcknowledgedWasInserted' /\ ReplayNeedsFullWindow'
      BY <2>2 DEF vars, IInv, AcknowledgedWasInserted, ReplayNeedsFullWindow
    <3> QED BY <3>2, <3>3, <3>4 DEF IInv
  <2> QED BY <2>1, <2>2
<1> QED BY <1>1, Initially, PTL DEF Spec

(* The type invariant of DictationReceiver holds: the queue and the memory   *)
(* keep to their bounds, and no key is remembered twice.                   *)
THEOREM TypeCorrect == Spec => []TypeOK
<1>1. IInv => TypeOK
  BY DEF IInv
<1> QED BY <1>1, Invariance, PTL

(* "ok" is answered only for text that was inserted completely (handle).   *)
THEOREM OkIsInserted == Spec => []AcknowledgedWasInserted
<1>1. IInv => AcknowledgedWasInserted
  BY DEF IInv
<1> QED BY <1>1, Invariance, PTL

(* No text is inserted twice for one key but after MaxRemembered other keys  *)
(* (handle, _touch, _remember).                                            *)
THEOREM NoEarlyReplay == Spec => []ReplayNeedsFullWindow
<1>1. IInv => ReplayNeedsFullWindow
  BY DEF IInv
<1> QED BY <1>1, Invariance, PTL

-----------------------------------------------------------------------------
(* The local controller.                                                   *)

(* The types of the controller's state: a call's kind says what it can     *)
(* wait for.                                                               *)
StartSteps == {"permission", "files", "worker", "capture", "undo"}
OtherSteps == {"start", "mic", "tail"}

CallStates ==
    [kind : {"none", "start", "stop", "cancel", "configure", "close"},
     at : StartSteps \cup OtherSteps \cup {"none"},
     current : BOOLEAN, model : Models \cup {None}, on : Calls \cup {None},
     ahead : Nat, failed : BOOLEAN]

InShape(o) ==
    /\ o.kind = "none" => o = NoCall
    /\ o.at = "none" <=> o.kind = "none"
    /\ o.at \in StartSteps <=> o.kind = "start"
    /\ o.kind = "configure" => o.model \in Models
    /\ o.at \in {"files", "worker"} => o.model \in Models

Phrases == [current : BOOLEAN, at : {"queued", "decoding", "delivering"},
            fate : {"live", "unfinished", "dropped"}]

ControllerType ==
    /\ mic \in BOOLEAN /\ audioSub \in BOOLEAN /\ listening \in BOOLEAN
    /\ busy \in BOOLEAN /\ closing \in BOOLEAN
    /\ model \in Models /\ recognizer \in Models \cup {None}
    /\ segment \in {"none", "open", "dropped"}
    /\ tail \in Seq(Phrases)
    /\ op \in [Calls -> CallStates] /\ \A c \in Calls : InShape(op[c])
    /\ startFuture \in Calls \cup {None} /\ stopFuture \in Calls \cup {None}
    /\ ended \in {"none", "stop", "close"}
    /\ mishaps \subseteq {"overlap", "stuck", "configure"}

(* A phrase that was dropped is of an old generation, and not delivered.   *)
DroppedIsOld ==
    \A i \in DOMAIN tail :
        tail[i].fate = "dropped" => ~tail[i].current /\ tail[i].at # "delivering"

OneStop == \A c \in Calls : op[c].kind = "stop" => stopFuture = c

(***************************************************************************)
(* While no start has overlapped another call: a start under way has the   *)
(* controller to itself, the calls that wait for it and the configures     *)
(* that wait for old phrases excepted; and nothing is recorded or queued   *)
(* behind a stop that waits for the last phrases.                          *)
(***************************************************************************)
StartAlone ==
    /\ \A c \in Calls : op[c].kind = "start" =>
          /\ startFuture = c /\ busy /\ ~listening
          /\ \A d \in Calls \ {c} :
                \/ op[d].at \in {"none", "start"}
                \/ op[d].at = "tail" /\ op[d].kind = "configure"
    /\ startFuture # None => op[startFuture].kind = "start"
    /\ \A c \in Calls : op[c].at = "start" /\ startFuture # None => op[c].on = startFuture

StopWaits ==
    \A c \in Calls : op[c].at = "tail" /\ op[c].kind = "stop" =>
                        ~listening /\ op[c].ahead = Len(tail)

(* The recogniser is the configured model's, while that was not changed    *)
(* under a session.                                                        *)
RecognizerFits ==
    /\ recognizer \in {None, model}
    /\ listening => recognizer # None
    /\ \A c \in Calls : /\ op[c].at \in {"files", "worker"} => op[c].model = model
                        /\ op[c].at = "capture" => recognizer # None

(* Nothing is under way after an end but what it cannot disturb.           *)
NothingLeft ==
    /\ ~mic /\ ~listening /\ startFuture = None
    /\ ended = "stop" => tail = <<>> /\ stopFuture = None
    /\ ended = "close" => recognizer = None

DictationInv ==
    /\ ControllerType
    /\ DroppedIsOld
    /\ OneStop
    /\ MicIsShown
    /\ "overlap" \notin mishaps => StartAlone /\ StopWaits
    /\ {"overlap", "configure"} \cap mishaps = {} => RecognizerFits
    /\ mishaps = {} /\ ended # "none" => NothingLeft
-----------------------------------------------------------------------------
(* Calls and phrases.                                                      *)

(* The same but for the generation.                                        *)
Like(o, q) ==
    /\ q.kind = o.kind /\ q.at = o.at /\ q.model = o.model
    /\ q.on = o.on /\ q.ahead = o.ahead

(* A step of one call, or of none.                                         *)
OthersStay(c) ==
    /\ op' \in [Calls -> CallStates]
    /\ \A d \in Calls : InShape(op'[d])
    /\ \A d \in Calls \ {c} : Like(op[d], op'[d])

(* A call that is not under way has no state.                              *)
LEMMA NoCallFields ==
    /\ NoCall \in CallStates /\ InShape(NoCall)
    /\ NoCall.kind = "none" /\ NoCall.at = "none" /\ NoCall.ahead = 0
  BY DEF NoCall, CallStates, InShape, StartSteps, OtherSteps

(* A new generation changes nothing else of a call.                        *)
LEMMA StaleFields ==
    ASSUME ControllerType
    PROVE  /\ Stale(op) \in [Calls -> CallStates]
           /\ \A d \in Calls : InShape(Stale(op)[d]) /\ Like(op[d], Stale(op)[d])
<1>1. ASSUME NEW d \in Calls
      PROVE  LET o == [op[d] EXCEPT !.current = FALSE]
             IN  o \in CallStates /\ InShape(o) /\ Like(op[d], o)
  <2> DEFINE o == [op[d] EXCEPT !.current = FALSE]
  <2>1. op[d] \in CallStates /\ InShape(op[d])
    BY DEF ControllerType
  <2>2. o \in CallStates /\ Like(op[d], o)
    BY <2>1 DEF CallStates, Like
  <2>3. op[d] = NoCall => o = NoCall
    <3> DEFINE n == NoCall
               m == [n EXCEPT !.current = FALSE]
    <3>1. n.current = FALSE /\ n = [x \in DOMAIN n |-> n[x]]
      BY DEF NoCall
    <3> HIDE DEF n
    <3>2. DOMAIN m = DOMAIN n /\ \A x \in DOMAIN n : m[x] = n[x]
      BY <3>1
    <3>3. m = [x \in DOMAIN m |-> m[x]]
      OBVIOUS
    <3> HIDE DEF m
    <3>4. m = n
      BY <3>1, <3>2, <3>3
    <3> QED
      BY <3>4 DEF n, m
  <2> HIDE DEF o
  <2>4. InShape(o)
    BY <2>1, <2>2, <2>3 DEF InShape, Like
  <2> QED
    BY <2>2, <2>4 DEF o
<1> QED
  BY <1>1 DEF Stale

(* Setting the state of one call, with or without a new generation.        *)
LEMMA OneCall ==
    ASSUME ControllerType, NEW c \in Calls, NEW v \in CallStates, InShape(v),
           NEW ops \in {op, Stale(op)}, op' = [ops EXCEPT ![c] = v]
    PROVE  OthersStay(c) /\ op'[c] = v
<1>1. /\ ops \in [Calls -> CallStates]
      /\ \A d \in Calls : InShape(ops[d]) /\ Like(op[d], ops[d])
  BY StaleFields DEF ControllerType, Like
<1> QED
  BY <1>1 DEF OthersStay

(* A step that leaves the calls alone.                                     *)
LEMMA NoChange ==
    ASSUME ControllerType, NEW c \in Calls, op' \in {op, Stale(op)}
    PROVE  OthersStay(c) /\ Like(op[c], op'[c])
  BY StaleFields DEF ControllerType, Like, OthersStay

Kinds == {"start", "stop", "cancel", "configure", "close"}

(* What a call that goes on starts from.                                   *)
LEMMA AtFields ==
    ASSUME NEW kind \in Kinds, NEW step \in StartSteps \cup OtherSteps
    PROVE  /\ At(kind, step) \in CallStates
           /\ At(kind, step).kind = kind /\ At(kind, step).at = step
           /\ At(kind, step).model = None /\ At(kind, step).on = None
           /\ At(kind, step).ahead = 0
<1> DEFINE n == NoCall
           k == [n EXCEPT !.kind = kind]
           v == [k EXCEPT !.at = step]
<1>1. n \in CallStates /\ n.model = None /\ n.on = None /\ n.ahead = 0
  BY DEF NoCall, CallStates
<1> HIDE DEF n
<1>2. /\ k \in CallStates /\ k.kind = kind
      /\ k.model = None /\ k.on = None /\ k.ahead = 0
  BY <1>1 DEF CallStates, Kinds
<1> HIDE DEF k
<1>3. /\ v \in CallStates /\ v.kind = kind /\ v.at = step
      /\ v.model = None /\ v.on = None /\ v.ahead = 0
  BY <1>2 DEF CallStates
<1> QED
  BY <1>3 DEF At, v, k, n

(* A call that waits for a start, or is configured.                        *)
Awaiting(kind, on, m) == [At(kind, "start") EXCEPT !.on = on, !.model = m]
Configuring(m) == [AtTail("configure") EXCEPT !.model = m]
Cancelling(m) == [At("configure", "mic") EXCEPT !.model = m]

(* A call that waits for a start knows which one.                          *)
LEMMA WaitFields ==
    ASSUME NEW kind \in Kinds \ {"start"}, NEW m \in Models \cup {None},
           NEW on \in Calls \cup {None}, kind = "configure" => m \in Models
    PROVE  /\ Awaiting(kind, on, m) \in CallStates /\ InShape(Awaiting(kind, on, m))
           /\ Awaiting(kind, on, m).kind = kind /\ Awaiting(kind, on, m).at = "start"
           /\ Awaiting(kind, on, m).on = on
<1> DEFINE v1 == At(kind, "start")
           v2 == [v1 EXCEPT !.on = on]
           v == [v2 EXCEPT !.model = m]
<1>1. v1 \in CallStates /\ v1.kind = kind /\ v1.at = "start"
  BY AtFields DEF OtherSteps
<1> HIDE DEF v1
<1>2. v2 \in CallStates /\ v2.kind = kind /\ v2.at = "start" /\ v2.on = on
  BY <1>1 DEF CallStates
<1> HIDE DEF v2
<1>3. v \in CallStates /\ v.kind = kind /\ v.at = "start" /\ v.on = on /\ v.model = m
  BY <1>2 DEF CallStates
<1>4. InShape(v)
  BY <1>3 DEF InShape, StartSteps, OtherSteps, Kinds
<1>5. Awaiting(kind, on, m) = v
  BY DEF Awaiting, v, v2, v1
<1> HIDE DEF v
<1> QED
  BY <1>3, <1>4, <1>5

(* A call that waits for the queue counts its phrases.                     *)
LEMMA TailFields ==
    ASSUME NEW kind \in Kinds \ {"start"}, tail \in Seq(Phrases)
    PROVE  /\ AtTail(kind) \in CallStates
           /\ kind # "configure" => InShape(AtTail(kind))
           /\ AtTail(kind).kind = kind /\ AtTail(kind).at = "tail"
           /\ AtTail(kind).on = None /\ AtTail(kind).ahead = Len(tail)
<1> DEFINE v1 == At(kind, "tail")
           v == [v1 EXCEPT !.ahead = Len(tail)]
<1>1. v1 \in CallStates /\ v1.kind = kind /\ v1.at = "tail" /\ v1.on = None
  BY AtFields DEF OtherSteps
<1>2. Len(tail) \in Nat
  OBVIOUS
<1> HIDE DEF v1
<1>3. /\ v \in CallStates /\ v.kind = kind /\ v.at = "tail" /\ v.on = None
      /\ v.ahead = Len(tail)
  BY <1>1, <1>2 DEF CallStates
<1>4. kind # "configure" => InShape(v)
  BY <1>3 DEF InShape, StartSteps, OtherSteps, Kinds
<1>5. AtTail(kind) = v
  BY DEF AtTail, v, v1
<1> HIDE DEF v
<1> QED
  BY <1>3, <1>4, <1>5

(* A configure keeps the model it was called with.                         *)
LEMMA ConfigureFields ==
    ASSUME NEW m \in Models, tail \in Seq(Phrases)
    PROVE  /\ Configuring(m) \in CallStates /\ InShape(Configuring(m))
           /\ Configuring(m).kind = "configure" /\ Configuring(m).at = "tail"
           /\ Cancelling(m) \in CallStates /\ InShape(Cancelling(m))
           /\ Cancelling(m).kind = "configure" /\ Cancelling(m).at = "mic"
<1> DEFINE v1 == AtTail("configure")
           v == [v1 EXCEPT !.model = m]
           w1 == At("configure", "mic")
           w == [w1 EXCEPT !.model = m]
<1>1. /\ v1 \in CallStates /\ v1.kind = "configure" /\ v1.at = "tail"
      /\ w1 \in CallStates /\ w1.kind = "configure" /\ w1.at = "mic"
  BY AtFields, TailFields DEF OtherSteps, Kinds
<1> HIDE DEF v1, w1
<1>2. v \in CallStates /\ v.kind = "configure" /\ v.at = "tail" /\ v.model = m
  BY <1>1 DEF CallStates
<1>3. w \in CallStates /\ w.kind = "configure" /\ w.at = "mic" /\ w.model = m
  BY <1>1 DEF CallStates
<1>4. InShape(v) /\ InShape(w)
  BY <1>2, <1>3 DEF InShape, StartSteps, OtherSteps
<1>5. Configuring(m) = v /\ Cancelling(m) = w
  BY DEF Configuring, Cancelling, v, v1, w, w1
<1> HIDE DEF v, w
<1> QED
  BY <1>2, <1>3, <1>4, <1>5

(* What happens to the queue other than a phrase's progress.               *)
LEMMA Queue ==
    ASSUME ControllerType, DroppedIsOld
    PROVE  /\ tail' \in {tail, Outdated(tail), Drop(tail), Drop(Outdated(tail))} =>
                 tail' \in Seq(Phrases) /\ Len(tail') = Len(tail)
           /\ tail' \in {tail, Outdated(tail), Drop(Outdated(tail))} => DroppedIsOld'
<1> DEFINE out == Outdated(tail)
           drop == Drop(tail)
           both == Drop(out)
           old == [i \in DOMAIN tail |-> [tail[i] EXCEPT !.current = FALSE]]
<1>1. /\ tail \in Seq(Phrases) /\ Len(tail) \in Nat
      /\ DOMAIN tail = 1..Len(tail) /\ \A i \in DOMAIN tail : tail[i] \in Phrases
  BY DEF ControllerType
<1>2. \A p \in Phrases : /\ [p EXCEPT !.current = FALSE] \in Phrases
                         /\ [p EXCEPT !.fate = "dropped"] \in Phrases
                         /\ [p EXCEPT !.current = FALSE].current = FALSE
                         /\ [p EXCEPT !.current = FALSE].at = p.at
                         /\ [p EXCEPT !.current = FALSE].fate = p.fate
                         /\ [p EXCEPT !.fate = "dropped"].at = p.at
                         /\ [p EXCEPT !.fate = "dropped"].current = p.current
  BY DEF Phrases
<1>3. ASSUME NEW q \in Seq(Phrases), DOMAIN q = DOMAIN tail
      PROVE  Len(q) = Len(tail)
  BY <1>1, <1>3
<1>4. out \in Seq(Phrases) /\ DOMAIN out = DOMAIN tail
  <2>1. DOMAIN out = 1..Len(tail) /\ \A i \in 1..Len(tail) : out[i] \in Phrases
    BY <1>1, <1>2 DEF Outdated
  <2>2. out = [i \in 1..Len(tail) |-> out[i]]
    BY <1>1 DEF Outdated
  <2> HIDE DEF out
  <2> QED
    BY <1>1, <2>1, <2>2
<1>5. ASSUME NEW q \in Seq(Phrases)
      PROVE  Drop(q) \in Seq(Phrases) /\ DOMAIN Drop(q) = DOMAIN q
  <2> DEFINE r == Drop(q)
  <2>1. Len(q) \in Nat /\ DOMAIN q = 1..Len(q) /\ \A i \in DOMAIN q : q[i] \in Phrases
    BY <1>5
  <2>2. DOMAIN r = 1..Len(q) /\ \A i \in 1..Len(q) : r[i] \in Phrases
    BY <1>2, <2>1 DEF Drop
  <2>3. r = [i \in 1..Len(q) |-> r[i]]
    BY <2>1 DEF Drop
  <2> HIDE DEF r
  <2>4. r \in Seq(Phrases)
    BY <2>1, <2>2, <2>3
  <2> QED
    BY <2>1, <2>2, <2>4 DEF r
<1>6. both \in Seq(Phrases) /\ DOMAIN both = DOMAIN tail
  BY <1>4, <1>5
<1>7. drop \in Seq(Phrases) /\ DOMAIN drop = DOMAIN tail
  BY <1>1, <1>5
<1>8. \A i \in DOMAIN tail : out[i].fate = tail[i].fate /\ out[i].at = tail[i].at /\ ~out[i].current
  BY <1>1, <1>2 DEF Outdated
<1>9. \A i \in DOMAIN tail : /\ both[i].at = out[i].at /\ both[i].current = out[i].current
                             /\ both[i].fate = "dropped" =>
                                   out[i].at # "delivering" \/ out[i].fate = "dropped"
  <2>1. \A i \in DOMAIN tail : out[i] \in Phrases
    BY <1>1, <1>2 DEF Outdated
  <2> HIDE DEF out
  <2> QED
    BY <1>2, <1>4, <2>1 DEF Drop
<1> HIDE DEF out, drop, both
<1>10. tail' \in {tail, out, both} => DroppedIsOld'
  BY <1>4, <1>6, <1>8, <1>9 DEF DroppedIsOld
<1> QED
  BY <1>1, <1>3, <1>4, <1>6, <1>7, <1>10 DEF out, drop, both

-----------------------------------------------------------------------------
(* Steps of a start.                                                       *)

(* While no start has overlapped, a start has the controller to itself.    *)
LEMMA TheStart ==
    ASSUME DictationInv, NEW c \in Calls, op[c].kind = "start", "overlap" \notin mishaps
    PROVE  /\ startFuture = c /\ startFuture # None /\ busy /\ ~listening
           /\ \A d \in Calls \ {c} :
                 /\ op[d].kind # "start"
                 /\ \/ op[d].at \in {"none", "start"}
                    \/ op[d].at = "tail" /\ op[d].kind = "configure"
           /\ \A d \in Calls : op[d].at = "start" => op[d].on = c
           /\ mishaps = {} => ended = "none"
<1>1. StartAlone /\ c # None
  BY NoneAssumption DEF DictationInv
<1>2. /\ startFuture = c /\ startFuture # None /\ busy /\ ~listening
      /\ \A d \in Calls \ {c} :
            /\ op[d].kind # "start"
            /\ \/ op[d].at \in {"none", "start"}
               \/ op[d].at = "tail" /\ op[d].kind = "configure"
      /\ \A d \in Calls : op[d].at = "start" => op[d].on = c
  <2>1. startFuture = c /\ busy /\ ~listening
    BY <1>1 DEF StartAlone
  <2>2. ASSUME NEW d \in Calls \ {c}
        PROVE  /\ op[d].kind # "start"
               /\ \/ op[d].at \in {"none", "start"}
                  \/ op[d].at = "tail" /\ op[d].kind = "configure"
    <3>1. op[d].kind = "start" => startFuture = d
      BY <1>1 DEF StartAlone
    <3>2. \/ op[d].at \in {"none", "start"}
          \/ op[d].at = "tail" /\ op[d].kind = "configure"
      BY <1>1 DEF StartAlone
    <3> QED
      BY <2>1, <3>1, <3>2
  <2>3. \A d \in Calls : op[d].at = "start" => op[d].on = c
    BY <1>1, <2>1 DEF StartAlone
  <2> QED
    BY <1>1, <2>1, <2>2, <2>3
<1> QED
  BY <1>2 DEF DictationInv, NothingLeft

(* A start goes on to its next await.                                      *)
LEMMA StartGoesOn ==
    ASSUME DictationInv, NEW c \in Calls, OthersStay(c),
           op[c].kind = "start", op'[c].kind = "start", op[c].at # "undo",
           mic' \in BOOLEAN, mic' => mic \/ op'[c].at = "undo",
           segment' \in {segment, "none"},
           UNCHANGED <<audioSub, listening, busy, closing, model, tail, futures, ended, mishaps>>,
           recognizer' \in {recognizer, op[c].model} /\ recognizer' \in Models \cup {None},
           op[c].at = "worker" \/ recognizer' = recognizer,
           op'[c].at = "worker" => op[c].at = "files" /\ op'[c].model = op[c].model,
           op'[c].at = "files" => op'[c].model = model,
           op'[c].at = "capture" => recognizer' # None
    PROVE  DictationInv'
<1>1. ControllerType'
  BY DEF DictationInv, ControllerType, OthersStay, futures
<1>2. DroppedIsOld' /\ OneStop'
  BY DEF DictationInv, DroppedIsOld, OneStop, OthersStay, Like, futures
<1>3. MicIsShown'
  BY DEF DictationInv, MicIsShown, OthersStay, Like
<1>4. ASSUME "overlap" \notin mishaps'
      PROVE  StartAlone' /\ StopWaits'
  <2>1. StartAlone'
    <3>1. /\ startFuture' = c /\ busy' /\ ~listening' /\ op'[c].kind = "start"
          /\ op'[c].at # "start"
      BY <1>4, TheStart DEF futures, OthersStay, InShape, StartSteps
    <3>2. ASSUME NEW d \in Calls \ {c}
          PROVE  /\ op'[d].kind # "start"
                 /\ \/ op'[d].at \in {"none", "start"}
                    \/ op'[d].at = "tail" /\ op'[d].kind = "configure"
                 /\ op'[d].at = "start" => op'[d].on = c
      BY <1>4, TheStart DEF OthersStay, Like
    <3> QED
      BY <3>1, <3>2 DEF StartAlone
  <2>2. StopWaits'
    BY <1>4, TheStart DEF StopWaits, OthersStay, Like, futures
  <2> QED
    BY <2>1, <2>2
<1>5. ASSUME {"overlap", "configure"} \cap mishaps' = {}
      PROVE  RecognizerFits'
  <2>1. RecognizerFits /\ ~listening
    BY <1>5, TheStart DEF DictationInv
  <2>2. \A d \in Calls \ {c} : op'[d].kind # "start" /\ InShape(op'[d])
    BY <1>5, TheStart DEF OthersStay, Like
  <2>3. \A d \in Calls \ {c} : op'[d].at \notin {"files", "worker", "capture"}
    BY <2>2 DEF InShape, StartSteps
  <2>4. recognizer' \in {None, model}
    BY <2>1 DEF RecognizerFits
  <2> QED
    BY <2>1, <2>3, <2>4 DEF RecognizerFits
<1>6. mishaps' = {} => ended' = "none"
  BY TheStart
<1> QED
  BY <1>1, <1>2, <1>3, <1>4, <1>5, <1>6 DEF DictationInv

(* A start ends, with a session or without one.                            *)
LEMMA StartOver ==
    ASSUME DictationInv, NEW c \in Calls, op[c].kind = "start", StartEnds(c),
           UNCHANGED <<closing, model, tail, stopFuture, ended>>,
           recognizer' = recognizer,
           mic' \in BOOLEAN /\ audioSub' \in BOOLEAN /\ listening' \in BOOLEAN,
           segment' = segment,
           listening' => listening \/ op[c].at = "capture",
           mishaps' = mishaps \/ mishaps' = mishaps \cup {"stuck"},
           mic' => \/ mic /\ op[c].at # "undo" /\ (listening => listening')
                   \/ listening' \/ "stuck" \in mishaps'
    PROVE  DictationInv'
<1>1. OthersStay(c) /\ op'[c] = NoCall /\ op'[c].kind = "none" /\ op'[c].at = "none"
  BY OneCall, NoCallFields DEF StartEnds, DictationInv
<1>2. ControllerType'
  BY <1>1 DEF DictationInv, ControllerType, OthersStay, StartEnds
<1>3. DroppedIsOld' /\ OneStop'
  BY <1>1 DEF DictationInv, DroppedIsOld, OneStop, OthersStay, Like
<1>4. MicIsShown'
  BY <1>1 DEF DictationInv, MicIsShown, OthersStay, Like
<1>5. ASSUME "overlap" \notin mishaps'
      PROVE  StartAlone' /\ StopWaits' /\ startFuture' = None
  <2>1. startFuture' = None
    BY <1>5, TheStart DEF StartEnds
  <2>2. StartAlone'
    BY <1>1, <1>5, <2>1, TheStart DEF StartAlone, OthersStay, Like
  <2>3. StopWaits'
    BY <1>1, <1>5, TheStart DEF StopWaits, OthersStay, Like
  <2> QED
    BY <2>1, <2>2, <2>3
<1>6. ASSUME {"overlap", "configure"} \cap mishaps' = {}
      PROVE  RecognizerFits'
  <2>1. RecognizerFits /\ ~listening
    BY <1>6, TheStart DEF DictationInv
  <2> QED
    BY <1>1, <2>1 DEF RecognizerFits, OthersStay, Like
<1>7. mishaps' = {} => ended' = "none"
  BY TheStart
<1> QED
  BY <1>2, <1>3, <1>4, <1>5, <1>6, <1>7 DEF DictationInv

(* Only a start is at the steps of a start.                                *)
LEMMA StepKinds ==
    ASSUME DictationInv, NEW c \in Calls
    PROVE  /\ op[c] \in CallStates /\ InShape(op[c])
           /\ op[c].at \in StartSteps => op[c].kind = "start"
  BY DEF DictationInv, ControllerType, InShape

(* The start reads the configured model.                                   *)
LEMMA PermittedKeeps == ASSUME DictationInv, NEW c \in Calls, Permitted(c) PROVE DictationInv'
<1> DEFINE o == op[c]
           v1 == [o EXCEPT !.at = "files"]
           v == [v1 EXCEPT !.model = model]
<1>1. /\ o \in CallStates /\ o.kind = "start" /\ o.at = "permission" /\ model \in Models
  BY StepKinds DEF Permitted, StartSteps, DictationInv, ControllerType
<1>2. op' = [op EXCEPT ![c] = v]
  BY DEF Permitted
<1> HIDE DEF o
<1>3. v1 \in CallStates /\ v1.kind = "start" /\ v1.at = "files"
  BY <1>1 DEF CallStates, StartSteps
<1> HIDE DEF v1
<1>4. v \in CallStates /\ v.kind = "start" /\ v.at = "files" /\ v.model = model
  BY <1>1, <1>3 DEF CallStates
<1>5. InShape(v)
  BY <1>1, <1>4 DEF InShape, StartSteps
<1> HIDE DEF v
<1>6. OthersStay(c) /\ op'[c] = v
  BY <1>2, <1>4, <1>5, OneCall DEF DictationInv
<1> QED
  BY <1>1, <1>4, <1>6, StartGoesOn
     DEF Permitted, o, session, models, futures, DictationInv, ControllerType

(* The next await of a start and the model that it works for.              *)
LEMMA StartFields ==
    ASSUME DictationInv, NEW c \in Calls, op[c].kind = "start", NEW step \in StartSteps,
           step # "files", step = "worker" => op[c].model \in Models
    PROVE  /\ op' = [op EXCEPT ![c].at = step] =>
                 /\ OthersStay(c) /\ op'[c].kind = "start" /\ op'[c].at = step
                 /\ op'[c].model = op[c].model
           /\ op' = [op EXCEPT ![c].at = step, ![c].model = None] /\ step # "worker" =>
                 /\ OthersStay(c) /\ op'[c].kind = "start" /\ op'[c].at = step
<1> DEFINE o == op[c]
           v == [o EXCEPT !.at = step]
           w == [v EXCEPT !.model = None]
<1>1. o \in CallStates /\ o.kind = "start"
  BY StepKinds
<1> HIDE DEF o
<1>2. v \in CallStates /\ v.kind = "start" /\ v.at = step /\ v.model = o.model
  BY <1>1 DEF CallStates
<1> HIDE DEF v
<1>3. w \in CallStates /\ w.kind = "start" /\ w.at = step
  BY <1>2 DEF CallStates
<1>4. /\ InShape(v)
      /\ step # "worker" => InShape(w)
  BY <1>2, <1>3 DEF InShape, StartSteps, o
<1>5. ASSUME op' = [op EXCEPT ![c].at = step]
      PROVE  OthersStay(c) /\ op'[c] = v
  <2>1. op' = [op EXCEPT ![c] = v]
    BY <1>5 DEF v, o
  <2> QED
    BY <1>2, <1>4, <2>1, OneCall DEF DictationInv
<1>6. ASSUME op' = [op EXCEPT ![c].at = step, ![c].model = None], step # "worker"
      PROVE  OthersStay(c) /\ op'[c] = w
  <2>1. op' = [op EXCEPT ![c] = w]
    BY <1>6 DEF w, v, o
  <2> HIDE DEF w
  <2> QED
    BY <1>3, <1>4, <1>6, <2>1, OneCall DEF DictationInv
<1> HIDE DEF w
<1> QED
  BY <1>2, <1>3, <1>5, <1>6 DEF o

(* The start needs a worker, has one, or was overtaken.                    *)
LEMMA FilesFoundKeeps == ASSUME DictationInv, NEW c \in Calls, FilesFound(c) PROVE DictationInv'
<1>1. op[c].kind = "start" /\ op[c].at = "files" /\ op[c].model \in Models
  BY StepKinds DEF FilesFound, StartSteps, InShape
<1>2. CASE Current(op[c]) /\ recognizer = None /\ op' = [op EXCEPT ![c].at = "worker"]
  <2>1. /\ OthersStay(c) /\ op'[c].kind = "start" /\ op'[c].at = "worker"
        /\ op'[c].model = op[c].model
    BY <1>1, <1>2, StartFields DEF StartSteps
  <2> QED
    BY <1>1, <1>2, <2>1, StartGoesOn
       DEF FilesFound, session, models, futures, DictationInv, ControllerType,
           OpenCapture, StartEnds
<1>3. CASE Current(op[c]) /\ recognizer # None /\ OpenCapture(c)
  <2>1. OthersStay(c) /\ op'[c].kind = "start" /\ op'[c].at = "capture"
    BY <1>1, <1>3, StartFields DEF StartSteps, OpenCapture
  <2> QED
    BY <1>1, <1>3, <2>1, StartGoesOn
       DEF FilesFound, session, models, futures, DictationInv, ControllerType, OpenCapture
<1>4. CASE ~Current(op[c]) /\ StartEnds(c)
  BY <1>1, <1>4, StartOver DEF FilesFound, session, models, DictationInv, ControllerType
<1> QED
  BY <1>2, <1>3, <1>4 DEF FilesFound

(* The worker is kept, or disposed of when the start was overtaken.        *)
LEMMA WorkerReadyKeeps == ASSUME DictationInv, NEW c \in Calls, WorkerReady(c) PROVE DictationInv'
<1>1. op[c].kind = "start" /\ op[c].at = "worker"
  BY StepKinds DEF WorkerReady, StartSteps
<1>2. CASE Current(op[c]) /\ recognizer' = op[c].model /\ OpenCapture(c)
  <2>1. OthersStay(c) /\ op'[c].kind = "start" /\ op'[c].at = "capture"
    BY <1>1, <1>2, StartFields DEF StartSteps, OpenCapture
  <2>2. op[c].model \in Models /\ op[c].model # None
    BY <1>1, StepKinds, NoneAssumption DEF InShape
  <2> QED
    BY <1>1, <1>2, <2>1, <2>2, StartGoesOn
       DEF WorkerReady, session, futures, DictationInv, ControllerType, OpenCapture
<1>3. CASE ~Current(op[c]) /\ StartEnds(c) /\ UNCHANGED <<recognizer, segment>>
  BY <1>1, <1>3, StartOver DEF WorkerReady, session, DictationInv, ControllerType
<1> QED
  BY <1>2, <1>3 DEF WorkerReady

(* The microphone is open: for the session, or to be closed again.         *)
LEMMA CaptureStartedKeeps ==
    ASSUME DictationInv, NEW c \in Calls, CaptureStarted(c)
    PROVE  DictationInv'
<1>1. op[c].kind = "start" /\ op[c].at = "capture"
  BY StepKinds DEF CaptureStarted, StartSteps
<1>2. CASE /\ op' = [op EXCEPT ![c].at = "undo"]
           /\ UNCHANGED <<audioSub, listening, busy, startFuture>>
  <2>1. OthersStay(c) /\ op'[c].kind = "start" /\ op'[c].at = "undo"
    BY <1>1, <1>2, StartFields DEF StartSteps
  <2> QED
    BY <1>1, <1>2, <2>1, StartGoesOn
       DEF CaptureStarted, models, futures, DictationInv, ControllerType
<1>3. CASE StartEnds(c) /\ audioSub' = TRUE /\ listening' = TRUE
  BY <1>1, <1>3, StartOver DEF CaptureStarted, models, DictationInv, ControllerType
<1> QED
  BY <1>2, <1>3 DEF CaptureStarted

(* It is closed again.                                                     *)
LEMMA CaptureUndoneKeeps ==
    ASSUME DictationInv, NEW c \in Calls, CaptureUndone(c)
    PROVE  DictationInv'
<1>1. op[c].kind = "start"
  BY StepKinds DEF CaptureUndone, StartSteps
<1> QED
  BY <1>1, StartOver DEF CaptureUndone, models, DictationInv, ControllerType

(* A start that fails leaves at most a stuck microphone.                   *)
LEMMA StartFailsKeeps ==
    ASSUME DictationInv, NEW c \in Calls, StartFails(c)
    PROVE  DictationInv'
  BY StartOver DEF StartFails, session, models, Mishap, DictationInv, ControllerType

-----------------------------------------------------------------------------
(* The owner's other calls.                                                *)

(* A call goes on that is not a start; while a start is under way, it only *)
(* waits for that one, or for old phrases before it configures.            *)
LEMMA OwnerStep ==
    ASSUME DictationInv, NEW c \in Calls, OthersStay(c),
           op[c].kind # "start", op'[c].kind # "start",
           ~(op'[c].kind = "stop" /\ op'[c].at = "tail"),
           mic' \in BOOLEAN, mic' => mic,
           audioSub' \in BOOLEAN, busy' \in BOOLEAN, closing' \in BOOLEAN,
           UNCHANGED <<listening, models, startFuture, ended, mishaps>>,
           segment' \in {"none", "open", "dropped"},
           tail' \in {tail, Outdated(tail), Drop(Outdated(tail))},
           op'[c].kind = "stop" => stopFuture' = c,
           \A d \in Calls \ {c} : op[d].kind = "stop" => stopFuture' = stopFuture,
           stopFuture' \in Calls \cup {None},
           stopFuture' # None => stopFuture # None \/ listening \/ startFuture # None,
           "overlap" \notin mishaps /\ startFuture # None =>
              /\ busy' = busy
              /\ \/ op'[c].at = "none"
                 \/ op'[c].at = "start" /\ op'[c].on = startFuture
                 \/ op'[c].at = "tail" /\ op'[c].kind = "configure"
    PROVE  DictationInv'
<1>1. tail' \in Seq(Phrases) /\ Len(tail') = Len(tail) /\ DroppedIsOld'
  BY Queue DEF DictationInv
<1>2. ControllerType'
  BY <1>1 DEF DictationInv, ControllerType, OthersStay, models
<1>3. OneStop'
  BY DEF DictationInv, OneStop, OthersStay, Like
<1>4. op[c].at # "undo"
  BY StepKinds DEF StartSteps
<1>5. MicIsShown'
  BY <1>4 DEF DictationInv, MicIsShown, OthersStay, Like
<1>6. ASSUME "overlap" \notin mishaps'
      PROVE  StartAlone' /\ StopWaits'
  <2>1. StartAlone /\ StopWaits /\ "overlap" \notin mishaps
    BY <1>6 DEF DictationInv
  <2>2. ASSUME NEW d \in Calls, op'[d].kind = "start"
        PROVE  /\ startFuture' = d /\ busy' /\ ~listening'
               /\ \A e \in Calls \ {d} :
                     \/ op'[e].at \in {"none", "start"}
                     \/ op'[e].at = "tail" /\ op'[e].kind = "configure"
    <3>1. d # c /\ op[d].kind = "start"
      BY <2>2 DEF OthersStay, Like
    <3>2. startFuture = d /\ startFuture # None /\ busy /\ ~listening
      BY <2>1, <3>1, TheStart
    <3>3. ASSUME NEW e \in Calls \ {d}
          PROVE  \/ op'[e].at \in {"none", "start"}
                 \/ op'[e].at = "tail" /\ op'[e].kind = "configure"
      <4>1. CASE e = c
        BY <2>1, <3>2, <4>1
      <4>2. CASE e # c
        BY <2>1, <3>1, <4>2, TheStart DEF OthersStay, Like
      <4> QED
        BY <4>1, <4>2
    <3> QED
      BY <2>1, <3>2, <3>3
  <2>3. startFuture' # None => op'[startFuture'].kind = "start"
    <3>1. startFuture # None => op[startFuture].kind = "start" /\ startFuture \in Calls \ {c}
      BY <2>1 DEF StartAlone, DictationInv, ControllerType
    <3> QED
      BY <3>1 DEF OthersStay, Like
  <2>4. ASSUME NEW d \in Calls, op'[d].at = "start", startFuture' # None
        PROVE  op'[d].on = startFuture'
    <3>1. CASE d = c
      BY <2>1, <2>4, <3>1
    <3>2. CASE d # c
      BY <2>1, <2>4, <3>2 DEF StartAlone, OthersStay, Like
    <3> QED
      BY <3>1, <3>2
  <2>5. StartAlone'
    BY <2>2, <2>3, <2>4 DEF StartAlone
  <2>6. StopWaits'
    BY <1>1, <2>1 DEF StopWaits, OthersStay, Like
  <2> QED
    BY <2>5, <2>6
<1>7. ASSUME {"overlap", "configure"} \cap mishaps' = {}
      PROVE  RecognizerFits'
  <2>1. RecognizerFits
    BY <1>7 DEF DictationInv
  <2>2. op'[c].at \notin {"files", "worker", "capture"}
    BY DEF OthersStay, InShape, StartSteps
  <2> QED
    BY <2>1, <2>2 DEF RecognizerFits, OthersStay, Like, models
<1>8. ASSUME mishaps' = {}, ended' # "none"
      PROVE  NothingLeft'
  <2>1. NothingLeft
    BY <1>8 DEF DictationInv
  <2>2. tail = <<>> => tail' = <<>>
    BY <1>1 DEF DictationInv, ControllerType
  <2> QED
    BY <2>1, <2>2 DEF NothingLeft, models
<1> QED
  BY <1>1, <1>2, <1>3, <1>5, <1>6, <1>7, <1>8 DEF DictationInv

(* A call that is not under way, or that waits for a start, is no start.   *)
LEMMA Waiting ==
    ASSUME DictationInv, NEW c \in Calls, op[c] = NoCall \/ op[c].at = "start"
    PROVE  op[c].kind # "start"
  BY StepKinds, NoCallFields DEF InShape, StartSteps

(* A call waits for the start under way.                                   *)
LEMMA AwaitFields ==
    ASSUME DictationInv, NEW c \in Calls, NEW kind \in Kinds \ {"start"},
           NEW m \in Models \cup {None}, kind = "configure" => m \in Models,
           AwaitStart(c, kind, m)
    PROVE  /\ OthersStay(c) /\ op'[c].kind = kind /\ op'[c].at = "start"
           /\ op'[c].on = startFuture /\ busy' = busy /\ startFuture # None
<1> DEFINE v == Awaiting(kind, startFuture, m)
<1>1. startFuture \in Calls \cup {None}
  BY DEF DictationInv, ControllerType
<1>2. v \in CallStates /\ InShape(v) /\ v.kind = kind /\ v.at = "start" /\ v.on = startFuture
  BY <1>1, WaitFields
<1>3. op' = [Stale(op) EXCEPT ![c] = v] /\ busy' = busy /\ startFuture # None
  BY DEF AwaitStart, Awaiting
<1> HIDE DEF v
<1>4. OthersStay(c) /\ op'[c] = v
  BY <1>2, <1>3, OneCall DEF DictationInv
<1> QED
  BY <1>2, <1>3, <1>4

(* A call turns to the microphone.                                         *)
LEMMA MicFields ==
    ASSUME DictationInv, NEW c \in Calls, NEW kind \in Kinds \ {"start", "configure"},
           NEW ops \in {op, Stale(op)}, op' = [ops EXCEPT ![c] = At(kind, "mic")]
    PROVE  OthersStay(c) /\ op'[c].kind = kind /\ op'[c].at = "mic"
<1> DEFINE v == At(kind, "mic")
<1>1. v \in CallStates /\ v.kind = kind /\ v.at = "mic"
  BY AtFields DEF OtherSteps
<1> HIDE DEF v
<1>2. InShape(v)
  BY <1>1 DEF InShape, StartSteps, OtherSteps, Kinds
<1>3. op' = [ops EXCEPT ![c] = v]
  BY DEF v
<1>4. OthersStay(c) /\ op'[c] = v
  BY <1>1, <1>2, <1>3, OneCall DEF DictationInv
<1> QED
  BY <1>1, <1>4

(* A call is over.                                                         *)
LEMMA NoCallSet ==
    ASSUME DictationInv, NEW c \in Calls, NEW ops \in {op, Stale(op)},
           op' = [ops EXCEPT ![c] = NoCall]
    PROVE  OthersStay(c) /\ op'[c].kind = "none" /\ op'[c].at = "none"
  BY OneCall, NoCallFields DEF DictationInv

(* While no start overlapped, a session runs without a start.              *)
LEMMA Session ==
    ASSUME DictationInv, "overlap" \notin mishaps, startFuture # None
    PROVE  ~listening
<1>1. op[startFuture].kind = "start" /\ startFuture \in Calls
  BY DEF DictationInv, ControllerType, StartAlone
<1> QED
  BY <1>1, TheStart

(* The types that every call relies on.                                    *)
LEMMA Segments ==
    ASSUME DictationInv
    PROVE  /\ Dropped \in {"none", "open", "dropped"} /\ segment \in {"none", "open", "dropped"}
           /\ audioSub \in BOOLEAN /\ busy \in BOOLEAN /\ closing \in BOOLEAN /\ mic \in BOOLEAN
           /\ startFuture \in Calls \cup {None} /\ stopFuture \in Calls \cup {None}
           /\ listening \in BOOLEAN /\ model \in Models
  BY DEF DictationInv, ControllerType, Dropped

(* Who calls anew has no call under way.                                   *)
LEMMA NewCall ==
    ASSUME DictationInv, NEW c \in Calls, op[c] = NoCall
    PROVE  op[c].kind = "none" /\ op[c].at = "none"
  BY NoCallFields

(* stop(), called by the owner or at the end of the stream.                *)
LEMMA StopSteps ==
    ASSUME DictationInv, NEW c \in Calls, op[c] = NoCall, stopFuture = None,
           stopFuture' = c,
           \/ AwaitStart(c, "stop", None) /\ tail' = Outdated(tail)
           \/ startFuture = None /\ StopProceeds(c),
           mic' \in BOOLEAN, mic' => mic, audioSub' \in BOOLEAN,
           UNCHANGED <<listening, closing, models, segment, startFuture, ended, mishaps>>
    PROVE  DictationInv'
<1>1. op[c].kind = "none" /\ \A d \in Calls : op[d].kind # "stop"
  <2>1. op[c].kind = "none"
    BY NewCall
  <2>2. ASSUME NEW d \in Calls, op[d].kind = "stop" PROVE FALSE
    BY <2>2, NoneAssumption DEF DictationInv, OneStop
  <2> QED
    BY <2>1, <2>2
<1>2. CASE AwaitStart(c, "stop", None) /\ tail' = Outdated(tail)
  <2>1. /\ OthersStay(c) /\ op'[c].kind = "stop" /\ op'[c].at = "start"
        /\ op'[c].on = startFuture /\ busy' = busy /\ startFuture # None
    BY <1>2, AwaitFields DEF Kinds
  <2> QED
    BY <1>1, <1>2, <2>1, Segments, OwnerStep
<1>3. CASE startFuture = None /\ StopProceeds(c)
  <2>1. OthersStay(c) /\ op'[c].kind = "stop" /\ op'[c].at = "mic"
    BY <1>3, MicFields DEF StopProceeds, Kinds
  <2> QED
    BY <1>1, <1>3, <2>1, Segments, OwnerStep DEF StopProceeds
<1> QED
  BY <1>2, <1>3

(* The owner stops.                                                        *)
LEMMA StopKeeps == ASSUME DictationInv, NEW c \in Calls, Stop(c) PROVE DictationInv'
  BY StopSteps, Segments DEF Stop, New, session

(* cancel(), called by the owner, after a phrase too many, or when the     *)
(* stream fails.                                                           *)
LEMMA CancelKeeps ==
    ASSUME DictationInv, NEW c \in Calls, NEW phrase \in {"none", Dropped}, CancelWith(c, phrase)
    PROVE  DictationInv'
<1>1. op[c].kind = "none" /\ phrase \in {"none", "open", "dropped"}
  BY NewCall, Segments DEF CancelWith, New
<1>2. CASE AwaitStart(c, "cancel", None) /\ segment' = phrase
  <2>1. /\ OthersStay(c) /\ op'[c].kind = "cancel" /\ op'[c].at = "start"
        /\ op'[c].on = startFuture /\ busy' = busy /\ startFuture # None
    BY <1>2, AwaitFields DEF Kinds
  <2> QED
    BY <1>1, <1>2, <2>1, Segments, OwnerStep DEF CancelWith, session, futures
<1>3. CASE /\ startFuture = None /\ busy' = busy /\ segment' = phrase
           /\ op' = [Stale(op) EXCEPT ![c] = At("cancel", "mic")]
  <2>1. OthersStay(c) /\ op'[c].kind = "cancel" /\ op'[c].at = "mic"
    BY <1>3, MicFields DEF Kinds
  <2> QED
    BY <1>1, <1>3, <2>1, Segments, OwnerStep DEF CancelWith, session, futures
<1>4. CASE /\ startFuture = None /\ busy' = FALSE /\ segment' = "none"
           /\ op' = [Stale(op) EXCEPT ![c] = NoCall]
  <2>1. OthersStay(c) /\ op'[c].kind = "none" /\ op'[c].at = "none"
    BY <1>4, NoCallSet
  <2> QED
    BY <1>1, <1>4, <2>1, Segments, OwnerStep DEF CancelWith, session, futures
<1> QED
  BY <1>2, <1>3, <1>4 DEF CancelWith, CancelProceeds

(* What configure() does once no start is under way.                       *)
LEMMA ConfigureSteps ==
    ASSUME DictationInv, NEW c \in Calls, NEW m \in Models, ConfigureProceeds(c, m),
           op[c].kind \in {"none", "configure"}, op[c].at \in {"none", "start"},
           UNCHANGED <<session, closing, models, futures, ended, mishaps>>,
           "overlap" \notin mishaps => startFuture = None
    PROVE  DictationInv'
<1>1. tail \in Seq(Phrases)
  BY DEF DictationInv, ControllerType
<1>2. CASE /\ op' = [Stale(op) EXCEPT ![c] = Cancelling(m)]
           /\ tail' = Drop(Outdated(tail)) /\ segment' = Dropped
  <2>1. OthersStay(c) /\ op'[c].kind = "configure" /\ op'[c].at = "mic"
    BY <1>1, <1>2, ConfigureFields, OneCall DEF DictationInv
  <2> QED
    BY <1>2, <2>1, Segments, OwnerStep DEF ConfigureProceeds, session, futures
<1>3. CASE op' = [op EXCEPT ![c] = Configuring(m)] /\ UNCHANGED <<tail, segment>>
  <2>1. OthersStay(c) /\ op'[c].kind = "configure" /\ op'[c].at = "tail"
    BY <1>1, <1>3, ConfigureFields, OneCall DEF DictationInv
  <2> QED
    BY <1>3, <2>1, Segments, OwnerStep DEF ConfigureProceeds, session, futures
<1> QED
  BY <1>2, <1>3 DEF ConfigureProceeds, Cancelling, Configuring

(* The owner configures.                                                   *)
LEMMA ConfigureKeeps ==
    ASSUME DictationInv, NEW c \in Calls, NEW m \in Models, Configure(c, m)
    PROVE  DictationInv'
<1>1. op[c].kind = "none" /\ op[c].at = "none"
  BY NewCall DEF Configure, New
<1>2. CASE AwaitStart(c, "configure", m) /\ tail' = Outdated(tail) /\ UNCHANGED segment
  <2>1. /\ OthersStay(c) /\ op'[c].kind = "configure" /\ op'[c].at = "start"
        /\ op'[c].on = startFuture /\ busy' = busy /\ startFuture # None
    BY <1>2, AwaitFields DEF Kinds
  <2> QED
    BY <1>1, <1>2, <2>1, Segments, OwnerStep DEF Configure, session, futures
<1>3. CASE startFuture = None /\ ConfigureProceeds(c, m)
  BY <1>1, <1>3, ConfigureSteps DEF Configure
<1> QED
  BY <1>2, <1>3 DEF Configure

(* What close() does once no start is under way.                           *)
LEMMA CloseSteps ==
    ASSUME DictationInv, NEW c \in Calls, NEW ops \in {op, Stale(op)}, CloseProceeds(c, ops),
           op[c].kind \in {"none", "close"}, op[c].at \in {"none", "start"},
           closing' \in BOOLEAN, tail' \in {tail, Drop(Outdated(tail))},
           segment' \in {segment, Dropped},
           UNCHANGED <<mic, listening, models, futures, ended, mishaps>>,
           "overlap" \notin mishaps => startFuture = None
    PROVE  DictationInv'
<1>1. tail \in Seq(Phrases)
  BY DEF DictationInv, ControllerType
<1>2. CASE op' = [ops EXCEPT ![c] = At("close", "mic")] /\ busy' = TRUE /\ UNCHANGED audioSub
  <2>1. OthersStay(c) /\ op'[c].kind = "close" /\ op'[c].at = "mic"
    BY <1>2, MicFields DEF Kinds
  <2> QED
    BY <1>2, <2>1, Segments, OwnerStep DEF futures
<1>3. CASE op' = [ops EXCEPT ![c] = AtTail("close")] /\ audioSub' = FALSE /\ UNCHANGED busy
  <2>1. OthersStay(c) /\ op'[c].kind = "close" /\ op'[c].at = "tail"
    <3> DEFINE v == AtTail("close")
    <3>1. v \in CallStates /\ InShape(v) /\ v.kind = "close" /\ v.at = "tail"
      BY <1>1, TailFields DEF Kinds
    <3> HIDE DEF v
    <3>2. OthersStay(c) /\ op'[c] = v
      BY <1>3, <3>1, OneCall DEF v, DictationInv
    <3> QED
      BY <3>1, <3>2
  <2> QED
    BY <1>3, <2>1, Segments, OwnerStep DEF futures
<1> QED
  BY <1>2, <1>3 DEF CloseProceeds

(* The owner closes.                                                       *)
LEMMA CloseKeeps == ASSUME DictationInv, NEW c \in Calls, Close(c) PROVE DictationInv'
<1>1. op[c].kind = "none" /\ op[c].at = "none"
  BY NewCall DEF Close, New
<1>2. CASE AwaitStart(c, "close", None) /\ UNCHANGED audioSub
  <2>1. /\ OthersStay(c) /\ op'[c].kind = "close" /\ op'[c].at = "start"
        /\ op'[c].on = startFuture /\ busy' = busy /\ startFuture # None
    BY <1>2, AwaitFields DEF Kinds
  <2> QED
    BY <1>1, <1>2, <2>1, Segments, OwnerStep DEF Close, futures
<1>3. CASE startFuture = None /\ CloseProceeds(c, Stale(op))
  BY <1>1, <1>3, CloseSteps DEF Close
<1> QED
  BY <1>2, <1>3 DEF Close

(* While no start has overlapped, one that others wait for is over when    *)
(* they go on, and no other has begun.                                     *)
LEMMA AwaitedStart ==
    ASSUME DictationInv, NEW c \in Calls, op[c].at = "start", AwaitedDone(c),
           "overlap" \notin mishaps
    PROVE  startFuture = None
<1> SUFFICES ASSUME startFuture # None PROVE FALSE
  OBVIOUS
<1>1. op[c].on = startFuture /\ op[startFuture].kind = "start"
  BY DEF DictationInv, StartAlone
<1>2. op[startFuture] = NoCall
  BY <1>1 DEF AwaitedDone
<1> QED
  BY <1>1, <1>2, NoCallFields

(* A call goes on when the start it waited for is over.                    *)
LEMMA StartAwaitedKeeps ==
    ASSUME DictationInv, NEW c \in Calls, StartAwaited(c)
    PROVE  DictationInv'
<1>1. op[c].at = "start" /\ op[c].kind # "start"
  BY Waiting DEF StartAwaited
<1>2. "overlap" \notin mishaps => startFuture = None
  BY AwaitedStart DEF StartAwaited
<1>3. CASE op[c].kind = "stop"
  <2>1. stopFuture = c /\ \A d \in Calls \ {c} : op[d].kind # "stop"
    BY <1>3 DEF DictationInv, OneStop
  <2>2. CASE StopProceeds(c) /\ UNCHANGED stopFuture
    <3>1. OthersStay(c) /\ op'[c].kind = "stop" /\ op'[c].at = "mic"
      BY <2>2, MicFields DEF StopProceeds, Kinds
    <3> QED
      BY <1>1, <1>2, <1>3, <2>1, <2>2, <3>1, Segments, OwnerStep DEF StopProceeds, StartAwaited
  <2>3. CASE op' = [op EXCEPT ![c] = NoCall] /\ stopFuture' = None /\ UNCHANGED <<busy, tail>>
    <3>1. OthersStay(c) /\ op'[c].kind = "none" /\ op'[c].at = "none"
      BY <2>3, NoCallSet
    <3> QED
      BY <1>1, <1>2, <1>3, <2>1, <2>3, <3>1, Segments, OwnerStep DEF StartAwaited
  <2> QED
    BY <1>3, <2>2, <2>3 DEF StartAwaited
<1>4. CASE op[c].kind = "cancel"
  <2>1. CancelProceeds(c, op, segment) /\ UNCHANGED <<audioSub, tail, stopFuture>>
    BY <1>4 DEF StartAwaited
  <2>2. CASE op' = [op EXCEPT ![c] = At("cancel", "mic")] /\ segment' = segment /\ busy' = busy
    <3>1. OthersStay(c) /\ op'[c].kind = "cancel" /\ op'[c].at = "mic"
      BY <2>2, MicFields DEF Kinds
    <3> QED
      BY <1>1, <1>2, <1>4, <2>1, <2>2, <3>1, Segments, OwnerStep DEF StartAwaited
  <2>3. CASE op' = [op EXCEPT ![c] = NoCall] /\ segment' = "none" /\ busy' = FALSE
    <3>1. OthersStay(c) /\ op'[c].kind = "none" /\ op'[c].at = "none"
      BY <2>3, NoCallSet
    <3> QED
      BY <1>1, <1>2, <1>4, <2>1, <2>3, <3>1, Segments, OwnerStep DEF StartAwaited
  <2> QED
    BY <2>1, <2>2, <2>3 DEF CancelProceeds
<1>5. CASE op[c].kind = "configure"
  <2>1. op[c].model \in Models
    BY <1>5, StepKinds DEF InShape
  <2> QED
    BY <1>1, <1>2, <1>5, <2>1, ConfigureSteps DEF StartAwaited, session, futures
<1>6. CASE op[c].kind = "close"
  BY <1>1, <1>2, <1>6, CloseSteps, Segments DEF StartAwaited, futures
<1> QED
  BY <1>3, <1>4, <1>5, <1>6 DEF StartAwaited

(* The end of the stream stops the session.                                *)
LEMMA StreamEndsKeeps == ASSUME DictationInv, NEW c \in Calls, StreamEnds(c) PROVE DictationInv'
<1>1. CASE listening /\ ~closing /\ stopFuture = None /\ op[c] = NoCall /\ stopFuture' = c
  BY <1>1, StopSteps DEF StreamEnds
<1>2. CASE UNCHANGED <<busy, tail, op, stopFuture>>
  <2>1. /\ ControllerType' /\ DroppedIsOld' /\ OneStop' /\ MicIsShown'
    BY <1>2 DEF StreamEnds, DictationInv, ControllerType, DroppedIsOld, OneStop, MicIsShown, models
  <2>2. StartAlone /\ StopWaits => StartAlone' /\ StopWaits'
    BY <1>2 DEF StreamEnds, StartAlone, StopWaits
  <2>3. RecognizerFits => RecognizerFits'
    BY <1>2 DEF StreamEnds, RecognizerFits, models
  <2>4. NothingLeft => (ended = "none" \/ NothingLeft')
    BY <1>2 DEF StreamEnds, NothingLeft, models
  <2> QED
    BY <2>1, <2>2, <2>3, <2>4 DEF StreamEnds, DictationInv
<1> QED
  BY <1>1, <1>2 DEF StreamEnds

-----------------------------------------------------------------------------
(* A start begins.                                                         *)

(* The owner starts.                                                       *)
LEMMA StartKeeps == ASSUME DictationInv, NEW c \in Calls, Start(c) PROVE DictationInv'
<1> DEFINE v1 == At("start", "permission")
           v == [v1 EXCEPT !.current = TRUE]
<1>1. v1 \in CallStates /\ v1.kind = "start" /\ v1.at = "permission"
  BY AtFields DEF Kinds, StartSteps
<1> HIDE DEF v1
<1>2. v \in CallStates /\ v.kind = "start" /\ v.at = "permission"
  BY <1>1 DEF CallStates
<1>3. InShape(v)
  BY <1>2 DEF InShape, StartSteps
<1>4. op' = [Stale(op) EXCEPT ![c] = v]
  BY DEF Start, v, v1
<1> HIDE DEF v
<1>5. OthersStay(c) /\ op'[c].kind = "start" /\ op'[c].at = "permission"
  BY <1>2, <1>3, <1>4, OneCall DEF DictationInv
<1>6. op[c].kind = "none" /\ op[c].at = "none"
  BY NewCall DEF Start, New
<1>7. /\ tail' \in Seq(Phrases) /\ DroppedIsOld'
      /\ mishaps \subseteq mishaps' /\ mishaps' \subseteq mishaps \cup {"overlap"}
  <2>1. tail' = Drop(Outdated(tail))
    BY DEF Start
  <2>2. tail' \in Seq(Phrases) /\ DroppedIsOld'
    BY <2>1, Queue DEF DictationInv
  <2> QED
    BY <2>2 DEF Start, Mishap
<1>8. ControllerType'
  BY <1>5, <1>7, Segments DEF DictationInv, ControllerType, OthersStay, Start, session, models
<1>9. OneStop'
  BY <1>5 DEF DictationInv, OneStop, OthersStay, Like, Start
<1>10. MicIsShown'
  BY <1>5, <1>6, <1>7 DEF DictationInv, MicIsShown, OthersStay, Like, Start, session
<1>11. ASSUME "overlap" \notin mishaps'
       PROVE  StartAlone' /\ StopWaits'
  <2>1. \A x \in Calls : op[x] # NoCall => op[x].kind = "configure" /\ op[x].at = "tail"
    BY <1>11 DEF Start, Mishap, Active
  <2>2. ASSUME NEW d \in Calls \ {c}
        PROVE  /\ op'[d].kind \in {"none", "configure"}
               /\ op'[d].at = "none" \/ (op'[d].at = "tail" /\ op'[d].kind = "configure")
    BY <1>5, <2>1, NoCallFields DEF OthersStay, Like
  <2>3. StartAlone'
    BY <1>5, <2>2 DEF StartAlone, Start, session
  <2>4. StopWaits'
    BY <1>5, <2>2 DEF StopWaits
  <2> QED
    BY <2>3, <2>4
<1>12. ASSUME {"overlap", "configure"} \cap mishaps' = {}
       PROVE  RecognizerFits'
  <2>1. RecognizerFits
    BY <1>7, <1>12 DEF DictationInv
  <2> QED
    BY <1>5, <2>1 DEF RecognizerFits, OthersStay, Like, Start, session, models
<1>13. ended' = "none"
  BY DEF Start
<1> QED
  BY <1>7, <1>8, <1>9, <1>10, <1>11, <1>12, <1>13 DEF DictationInv

-----------------------------------------------------------------------------
(* The microphone closes, and the calls end.                               *)

(* A phrase joins the queue.                                               *)
LEMMA EnqueuedFields ==
    ASSUME DictationInv, tail' \in {tail, Enqueued}
    PROVE  tail' \in Seq(Phrases) /\ Len(tail') \in Nat /\ DroppedIsOld'
<1>1. tail \in Seq(Phrases) /\ Len(tail) \in Nat /\ DroppedIsOld
  BY DEF DictationInv, ControllerType
<1>2. CASE tail' = tail
  BY <1>1, <1>2 DEF DroppedIsOld
<1>3. CASE tail' # tail
  <2> DEFINE p == [current |-> TRUE, at |-> "queued",
                   fate |-> IF segment = "dropped" THEN "unfinished" ELSE "live"]
  <2>1. tail' = Append(tail, p)
    BY <1>3 DEF Enqueued
  <2>2. p \in Phrases /\ p.fate # "dropped"
    BY DEF Phrases
  <2> HIDE DEF p
  <2>3. tail' \in Seq(Phrases)
    BY <1>1, <2>1, <2>2
  <2>4. ASSUME NEW i \in DOMAIN tail', tail'[i].fate = "dropped"
        PROVE  ~tail'[i].current /\ tail'[i].at # "delivering"
    BY <1>1, <2>1, <2>2, <2>4 DEF DroppedIsOld
  <2> QED
    BY <2>3, <2>4 DEF DroppedIsOld
<1> QED
  BY <1>2, <1>3

(* While no start has overlapped, a call at the microphone, or one that    *)
(* waits for old phrases and does not configure, is alone with its kind.   *)
LEMMA NoStart ==
    ASSUME DictationInv, NEW c \in Calls, "overlap" \notin mishaps,
           \/ op[c].at = "mic"
           \/ op[c].at = "tail" /\ op[c].kind # "configure"
    PROVE  startFuture = None /\ \A d \in Calls : op[d].kind # "start"
<1>1. op[c].kind # "start"
  BY StepKinds DEF InShape, StartSteps
<1>2. ASSUME NEW d \in Calls, op[d].kind = "start" PROVE FALSE
  BY <1>1, <1>2, TheStart
<1>3. startFuture # None => op[startFuture].kind = "start" /\ startFuture \in Calls
  BY DEF DictationInv, StartAlone, ControllerType
<1> QED
  BY <1>2, <1>3

(* The session is over: the microphone is closed, unless it is stuck.      *)
LEMMA SessionOver ==
    ASSUME DictationInv, NEW c \in Calls, OthersStay(c),
           \/ op[c].at = "mic"
           \/ op[c].at = "tail" /\ op[c].kind \in {"stop", "close"},
           op'[c].kind # "start",
           op'[c].kind = "stop" => op[c].kind = "stop" /\ stopFuture' = stopFuture,
           mic' \in BOOLEAN, mic' => mic,
           audioSub' \in BOOLEAN, listening' = FALSE, busy' \in BOOLEAN,
           UNCHANGED <<closing, model, startFuture>>,
           recognizer' \in {recognizer, None},
           segment' \in {segment, "none"}, tail' \in {tail, Enqueued},
           tail' = tail \/ op[c].kind = "stop",
           op'[c].kind = "stop" /\ op'[c].at = "tail" => op'[c].ahead = Len(tail'),
           stopFuture' \in {stopFuture, None},
           stopFuture' = stopFuture \/ op[c].kind = "stop",
           mishaps' \in {mishaps, mishaps \cup {"stuck"}},
           mic' => \/ "stuck" \in mishaps'
                   \/ op[c].at = "tail" /\ op[c].kind = "stop",
           ended' \in {"none", "stop", "close"},
           mishaps' = {} /\ ended' = "stop" =>
              \/ ended = "stop" /\ op[c].kind # "stop"
              \/ tail' = <<>> /\ stopFuture' = None,
           mishaps' = {} /\ ended' = "close" => ended = "close" \/ recognizer' = None
    PROVE  DictationInv'
<1>1. tail' \in Seq(Phrases) /\ DroppedIsOld'
  BY EnqueuedFields
<1>2. ControllerType'
  BY <1>1 DEF DictationInv, ControllerType, OthersStay
<1>3. OneStop'
  <2> SUFFICES ASSUME NEW d \in Calls, op'[d].kind = "stop" PROVE stopFuture' = d
    BY DEF OneStop
  <2>1. CASE d = c
    BY <2>1 DEF DictationInv, OneStop
  <2>2. CASE d # c
    <3>1. op[d].kind = "stop" /\ stopFuture = d
      BY <2>2 DEF DictationInv, OneStop, OthersStay, Like
    <3>2. op[c].kind # "stop"
      BY <2>2, <3>1 DEF DictationInv, OneStop
    <3> QED
      BY <3>1, <3>2
  <2> QED
    BY <2>1, <2>2
<1>4. ASSUME "overlap" \notin mishaps'
      PROVE  /\ startFuture' = None /\ StopWaits
             /\ \A d \in Calls : op[d].kind # "start" /\ op'[d].kind # "start"
             /\ \A d \in Calls : op'[d].at \notin StartSteps
  <2>1. startFuture' = None /\ \A d \in Calls : op[d].kind # "start" /\ op'[d].kind # "start"
    BY <1>4, NoStart DEF OthersStay, Like
  <2>2. \A d \in Calls : op'[d].at \notin StartSteps
    BY <2>1 DEF OthersStay, InShape
  <2>3. StopWaits
    BY <1>4 DEF DictationInv
  <2> QED
    BY <2>1, <2>2, <2>3
<1>5. MicIsShown'
  <2> SUFFICES ASSUME mic', {"overlap", "stuck"} \cap mishaps' = {} PROVE FALSE
    BY DEF MicIsShown
  <2>1. op[c].at = "tail" /\ op[c].kind = "stop" /\ ~listening
    BY <1>4 DEF StopWaits
  <2>2. \A d \in Calls : op[d].at # "undo"
    BY <1>4, StepKinds DEF StartSteps
  <2>3. mic /\ {"overlap", "stuck"} \cap mishaps = {}
    OBVIOUS
  <2> QED
    BY <2>1, <2>2, <2>3 DEF DictationInv, MicIsShown
<1>6. ASSUME "overlap" \notin mishaps'
      PROVE  StartAlone' /\ StopWaits'
  <2>1. StartAlone'
    BY <1>4, <1>6 DEF StartAlone
  <2>2. ASSUME NEW d \in Calls, op'[d].at = "tail", op'[d].kind = "stop"
        PROVE  op'[d].ahead = Len(tail')
    <3>1. CASE d = c
      BY <2>2, <3>1
    <3>2. CASE d # c
      <4>1. op[d].kind = "stop" /\ op[d].at = "tail" /\ op'[d].ahead = op[d].ahead
        BY <2>2, <3>2 DEF OthersStay, Like
      <4>2. op[c].kind # "stop"
        BY <3>2, <4>1 DEF DictationInv, OneStop
      <4> QED
        BY <1>4, <1>6, <4>1, <4>2 DEF StopWaits
    <3> QED
      BY <3>1, <3>2
  <2> QED
    BY <2>1, <2>2 DEF StopWaits
<1>7. ASSUME {"overlap", "configure"} \cap mishaps' = {}
      PROVE  RecognizerFits'
  <2>1. RecognizerFits
    BY <1>7 DEF DictationInv
  <2> QED
    BY <1>4, <1>7, <2>1 DEF RecognizerFits, StartSteps
<1>8. ASSUME mishaps' = {}, ended' # "none"
      PROVE  NothingLeft'
  <2>1. ~mic' /\ startFuture' = None /\ mishaps = {}
    <3>1. mishaps = {} /\ "overlap" \notin mishaps'
      BY <1>8
    <3>2. mic' => op'[c].at \in StartSteps \/ \E d \in Calls : op'[d].at = "undo"
      BY <1>5, <1>8 DEF MicIsShown
    <3> QED
      BY <1>4, <3>1, <3>2 DEF StartSteps
  <2>2. CASE ended' = "stop" /\ ended = "stop" /\ op[c].kind # "stop"
    <3>1. NothingLeft
      BY <2>1, <2>2 DEF DictationInv
    <3> QED
      BY <2>1, <2>2, <3>1 DEF NothingLeft
  <2>3. CASE ended' = "stop" /\ tail' = <<>> /\ stopFuture' = None
    BY <2>1, <2>3 DEF NothingLeft
  <2>4. CASE ended' = "close" /\ ended = "close"
    <3>1. NothingLeft
      BY <2>1, <2>4 DEF DictationInv
    <3> QED
      BY <2>1, <2>4, <3>1 DEF NothingLeft
  <2>5. CASE ended' = "close" /\ recognizer' = None
    BY <2>1, <2>5 DEF NothingLeft
  <2> QED
    BY <1>8, <2>2, <2>3, <2>4, <2>5
<1> QED
  BY <1>1, <1>2, <1>3, <1>5, <1>6, <1>7, <1>8 DEF DictationInv

(* After an end nothing stops, and a call at the microphone finds it       *)
(* closed.                                                                 *)
LEMMA AfterStop ==
    ASSUME DictationInv, NEW c \in Calls, op[c].kind = "stop", mishaps = {}
    PROVE  ended # "stop"
<1>1. stopFuture = c /\ c # None
  BY NoneAssumption DEF DictationInv, OneStop
<1> QED
  BY <1>1 DEF DictationInv, NothingLeft

(* The microphone closes or is stuck.                                      *)
LEMMA Closes ==
    ASSUME DictationInv, NEW fails \in BOOLEAN, MicCloses(fails)
    PROVE  /\ mic' \in BOOLEAN /\ (mic' => mic) /\ audioSub' = FALSE /\ listening' = FALSE
           /\ mishaps' \in {mishaps, mishaps \cup {"stuck"}}
           /\ mic' => "stuck" \in mishaps'
  BY Segments DEF MicCloses, Mishap

(* A stop hands over the last phrase, a close drops it.                    *)
LEMMA StopMicClosedKeeps ==
    ASSUME DictationInv, NEW c \in Calls, NEW fails \in BOOLEAN, StopMicClosed(c, fails)
    PROVE  DictationInv'
<1> DEFINE o == op[c]
           v1 == [o EXCEPT !.at = "tail"]
           v2 == [v1 EXCEPT !.ahead = Len(tail')]
           v == [v2 EXCEPT !.failed = (fails /\ op[c].kind = "stop")]
<1>1. o \in CallStates /\ o.kind \in {"stop", "close"} /\ o.at = "mic"
  BY StepKinds DEF StopMicClosed
<1>2. Len(tail') \in Nat
  BY EnqueuedFields DEF StopMicClosed
<1>3. op' = [op EXCEPT ![c] = v]
  BY DEF StopMicClosed
<1>4. (fails /\ op[c].kind = "stop") \in BOOLEAN
  OBVIOUS
<1> HIDE DEF o
<1>5. v1 \in CallStates /\ v1.kind = o.kind /\ v1.at = "tail"
  BY <1>1 DEF CallStates, OtherSteps
<1> HIDE DEF v1
<1>6. v2 \in CallStates /\ v2.kind = o.kind /\ v2.at = "tail" /\ v2.ahead = Len(tail')
  BY <1>2, <1>5 DEF CallStates
<1> HIDE DEF v2
<1>7. v \in CallStates /\ v.kind = o.kind /\ v.at = "tail" /\ v.ahead = Len(tail')
  BY <1>4, <1>6 DEF CallStates
<1> HIDE DEF v
<1>8. InShape(v)
  BY <1>1, <1>7 DEF InShape, StartSteps
<1>9. OthersStay(c) /\ op'[c] = v
  BY <1>3, <1>7, <1>8, OneCall DEF DictationInv
<1>10. /\ op[c].kind \in {"stop", "close"} /\ op[c].at = "mic"
       /\ op'[c].kind = op[c].kind /\ op'[c].ahead = Len(tail')
  BY <1>1, <1>7, <1>9 DEF o
<1>11. MicCloses(fails) /\ UNCHANGED <<busy, closing, models, futures, ended>> /\ segment' = "none"
       /\ tail' \in {tail, Enqueued} /\ (tail' = tail \/ op[c].kind = "stop")
  BY <1>10 DEF StopMicClosed
<1>12. /\ mic' \in BOOLEAN /\ (mic' => mic) /\ audioSub' = FALSE /\ listening' = FALSE
       /\ mishaps' \in {mishaps, mishaps \cup {"stuck"}}
       /\ mic' => "stuck" \in mishaps'
  BY <1>11, Closes
<1>13. ended \in {"none", "stop", "close"}
  BY DEF DictationInv, ControllerType
<1>14. mishaps' = {} /\ ended' = "stop" => ended = "stop" /\ op[c].kind # "stop"
  BY <1>11, <1>12, AfterStop
<1> QED
  BY <1>9, <1>10, <1>11, <1>12, <1>13, <1>14, Segments, SessionOver DEF models, futures

(* A cancelled session is over.                                            *)
LEMMA CancelMicClosedKeeps ==
    ASSUME DictationInv, NEW c \in Calls, NEW fails \in BOOLEAN, CancelMicClosed(c, fails)
    PROVE  DictationInv'
<1>1. op[c].at = "mic" /\ op[c].kind \in {"cancel", "configure"}
  BY DEF CancelMicClosed
<1>2. OthersStay(c) /\ op'[c].kind \in {"none", "configure"}
  <2>1. CASE op' = [op EXCEPT ![c] = NoCall]
    BY <2>1, NoCallSet
  <2>2. CASE op[c].kind = "configure" /\ op' = [op EXCEPT ![c] = Configuring(op[c].model)]
    <3>1. op[c].model \in Models /\ tail \in Seq(Phrases)
      BY <2>2, StepKinds DEF InShape, DictationInv, ControllerType
    <3>2. PICK v \in CallStates : v = Configuring(op[c].model)
      BY <3>1, ConfigureFields
    <3>3. InShape(v) /\ v.kind = "configure"
      BY <3>1, <3>2, ConfigureFields
    <3>4. OthersStay(c) /\ op'[c] = v
      BY <2>2, <3>2, <3>3, OneCall DEF DictationInv
    <3> QED
      BY <3>3, <3>4
  <2> QED
    BY <2>1, <2>2 DEF CancelMicClosed, Configuring
<1>3. /\ mic' \in BOOLEAN /\ (mic' => mic) /\ audioSub' = FALSE /\ listening' = FALSE
      /\ mishaps' \in {mishaps, mishaps \cup {"stuck"}}
      /\ mic' => "stuck" \in mishaps'
  BY Closes DEF CancelMicClosed
<1>4. busy' \in BOOLEAN /\ segment' \in {segment, "none"} /\ ended \in {"none", "stop", "close"}
  BY DEF CancelMicClosed, DictationInv, ControllerType
<1> QED
  BY <1>1, <1>2, <1>3, <1>4, Segments, SessionOver DEF CancelMicClosed, models, futures

(* A stop ends when its phrases are done, or late.                         *)
LEMMA StopEndsKeeps ==
    ASSUME DictationInv, NEW c \in Calls, NEW late \in BOOLEAN, StopEnds(c, late)
    PROVE  DictationInv'
<1>1. op[c].at = "tail" /\ op[c].kind = "stop" /\ op[c].ahead \in Nat
  BY StepKinds DEF StopEnds, CallStates
<1>2. OthersStay(c) /\ op'[c].kind = "none"
  BY NoCallSet DEF StopEnds
<1>3. ASSUME mishaps = {}, ended' = "stop" PROVE tail' = <<>>
  <2>1. ended # "stop"
    BY <1>1, <1>3, AfterStop
  <2>2. op[c].ahead = Len(tail)
    BY <1>1, <1>3 DEF DictationInv, StopWaits
  <2>3. ~(op[c].ahead > 0)
    BY <1>3, <2>1 DEF StopEnds
  <2> QED
    BY <1>1, <2>2, <2>3 DEF StopEnds, DictationInv, ControllerType
<1>4. mishaps' = {} /\ ended' = "close" => ended = "close"
  BY DEF StopEnds
<1>5. ended' \in {"none", "stop", "close"}
  BY DEF StopEnds, DictationInv, ControllerType
<1> QED
  BY <1>1, <1>2, <1>3, <1>4, <1>5, Segments, SessionOver DEF StopEnds, models

(* A close releases what is left.                                          *)
LEMMA CloseEndsKeeps ==
    ASSUME DictationInv, NEW c \in Calls, NEW late \in BOOLEAN, CloseEnds(c, late)
    PROVE  DictationInv'
<1>1. op[c].at = "tail" /\ op[c].kind = "close"
  BY DEF CloseEnds
<1>2. OthersStay(c) /\ op'[c].kind = "none"
  BY NoCallSet DEF CloseEnds
<1> QED
  BY <1>1, <1>2, Segments, SessionOver DEF CloseEnds, futures

(* The model changes, and the recogniser of another one goes.              *)
LEMMA ConfigureEndsKeepsInv ==
    ASSUME DictationInv, NEW c \in Calls, ConfigureEnds(c)
    PROVE  DictationInv'
<1>1. /\ op[c].at = "tail" /\ op[c].kind = "configure" /\ op[c].model \in Models
      /\ op[c].at # "undo"
  BY StepKinds DEF ConfigureEnds, InShape
<1>2. OthersStay(c) /\ op'[c].kind = "none" /\ op'[c].at = "none"
  BY NoCallSet DEF ConfigureEnds
<1>3. mishaps \subseteq mishaps' /\ mishaps' \subseteq mishaps \cup {"configure"}
  BY DEF ConfigureEnds
<1>4. ControllerType'
  BY <1>1, <1>2, <1>3 DEF DictationInv, ControllerType, OthersStay, ConfigureEnds, session, futures
<1>5. DroppedIsOld' /\ OneStop' /\ MicIsShown'
  BY <1>1, <1>2, <1>3
     DEF DictationInv, DroppedIsOld, OneStop, MicIsShown, OthersStay, Like, ConfigureEnds,
         session, futures
<1>6. ASSUME "overlap" \notin mishaps'
      PROVE  StartAlone' /\ StopWaits'
  <2>1. StartAlone /\ StopWaits /\ "overlap" \notin mishaps
    BY <1>3, <1>6 DEF DictationInv
  <2>2. ASSUME NEW d \in Calls, op'[d].kind = "start"
        PROVE  /\ startFuture' = d /\ busy' /\ ~listening'
               /\ \A e \in Calls \ {d} :
                     \/ op'[e].at \in {"none", "start"}
                     \/ op'[e].at = "tail" /\ op'[e].kind = "configure"
    <3>1. d # c /\ op[d].kind = "start"
      BY <1>2, <2>2 DEF OthersStay, Like
    <3>2. startFuture = d /\ busy /\ ~listening
      BY <2>1, <3>1, TheStart
    <3>3. ASSUME NEW e \in Calls \ {d}
          PROVE  \/ op'[e].at \in {"none", "start"}
                 \/ op'[e].at = "tail" /\ op'[e].kind = "configure"
      BY <1>2, <2>1, <3>1, TheStart DEF OthersStay, Like
    <3> QED
      BY <3>2, <3>3 DEF ConfigureEnds, session, futures
  <2>3. startFuture' # None => op'[startFuture'].kind = "start"
    <3>1. startFuture # None => op[startFuture].kind = "start" /\ startFuture \in Calls \ {c}
      BY <1>1, <2>1 DEF StartAlone, DictationInv, ControllerType
    <3> QED
      BY <1>2, <3>1 DEF OthersStay, Like, ConfigureEnds, futures
  <2>4. \A d \in Calls : op'[d].at = "start" /\ startFuture' # None => op'[d].on = startFuture'
    BY <1>2, <2>1 DEF StartAlone, OthersStay, Like, ConfigureEnds, futures
  <2>5. StartAlone'
    BY <2>2, <2>3, <2>4 DEF StartAlone
  <2>6. StopWaits'
    BY <1>2, <2>1 DEF StopWaits, OthersStay, Like, ConfigureEnds, session
  <2> QED
    BY <2>5, <2>6
<1>7. ASSUME {"overlap", "configure"} \cap mishaps' = {}
      PROVE  RecognizerFits'
  <2>1. RecognizerFits /\ "overlap" \notin mishaps
    BY <1>3, <1>7 DEF DictationInv
  <2>2. CASE op[c].model = model
    <3>1. model' = model /\ recognizer' = recognizer /\ listening' = listening
      BY <2>2 DEF ConfigureEnds, session
    <3> QED
      BY <1>2, <2>1, <3>1 DEF RecognizerFits, OthersStay, Like
  <2>3. CASE op[c].model # model
    <3>1. ~listening' /\ startFuture = None /\ recognizer' = None
      BY <1>7, <2>3 DEF ConfigureEnds, session
    <3>2. \A d \in Calls : op[d].kind # "start"
      BY <2>1, <3>1, TheStart
    <3>3. \A d \in Calls : op'[d].at \notin StartSteps
      BY <1>2, <3>2 DEF OthersStay, Like, InShape
    <3> QED
      BY <3>1, <3>3 DEF RecognizerFits, StartSteps
  <2> QED
    BY <2>2, <2>3
<1>8. ASSUME mishaps' = {}, ended' # "none"
      PROVE  NothingLeft'
  <2>1. NothingLeft
    BY <1>3, <1>8 DEF DictationInv, ConfigureEnds
  <2> QED
    BY <2>1 DEF NothingLeft, ConfigureEnds, session, futures
<1> QED
  BY <1>4, <1>5, <1>6, <1>7, <1>8 DEF DictationInv

-----------------------------------------------------------------------------
(* Sound, and the queue.                                                   *)

(* What is heard, and what is released, does not concern the calls.        *)
LEMMA QuietSteps ==
    ASSUME DictationInv,
           UNCHANGED <<session, busy, closing, model, op, futures, ended, mishaps>>,
           segment' \in {segment, "none", "open"},
           tail' \in {tail, Enqueued}, tail' = tail \/ listening,
           recognizer' = recognizer \/ (recognizer' = None /\ ~listening /\ ~busy)
    PROVE  DictationInv'
<1>1. tail' \in Seq(Phrases) /\ DroppedIsOld'
  BY EnqueuedFields
<1>2. ControllerType'
  BY <1>1 DEF DictationInv, ControllerType, session, futures
<1>3. OneStop' /\ MicIsShown'
  BY DEF DictationInv, OneStop, MicIsShown, session, futures
<1>4. ASSUME "overlap" \notin mishaps'
      PROVE  StartAlone' /\ StopWaits'
  BY <1>4 DEF DictationInv, StartAlone, StopWaits, session, futures
<1>5. ASSUME {"overlap", "configure"} \cap mishaps' = {}
      PROVE  RecognizerFits'
  <2>1. RecognizerFits /\ "overlap" \notin mishaps
    BY <1>5 DEF DictationInv
  <2>2. CASE recognizer' = recognizer
    BY <2>1, <2>2 DEF RecognizerFits, session
  <2>3. CASE recognizer' = None /\ ~listening /\ ~busy
    <3>1. \A d \in Calls : op[d].kind # "start"
      BY <2>1, <2>3, TheStart
    <3>2. \A d \in Calls : op[d].at \notin StartSteps
      BY <3>1, StepKinds
    <3> QED
      BY <2>1, <2>3, <3>2 DEF RecognizerFits, StartSteps, session
  <2> QED
    BY <2>2, <2>3
<1>6. ASSUME mishaps' = {}, ended' # "none"
      PROVE  NothingLeft'
  <2>1. NothingLeft
    BY <1>6 DEF DictationInv
  <2> QED
    BY <2>1 DEF NothingLeft, session, futures
<1> QED
  BY <1>1, <1>2, <1>3, <1>4, <1>5, <1>6 DEF DictationInv

(* Sound is heard, a phrase is queued, the recogniser is released.         *)
LEMMA SoundKeeps == ASSUME DictationInv, Speak \/ Pause \/ ReleaseRecognizer PROVE DictationInv'
<1>1. CASE Speak
  BY <1>1, QuietSteps DEF Speak, Hears, models
<1>2. CASE Pause
  BY <1>2, QuietSteps DEF Pause, Hears, models
<1>3. CASE ReleaseRecognizer
  BY <1>3, QuietSteps DEF ReleaseRecognizer, models
<1> QED
  BY <1>1, <1>2, <1>3

(* The first phrase goes on, and is delivered only while it is current.    *)
LEMMA AdvanceKeeps ==
    ASSUME DictationInv, NEW step \in {"decoding", "delivering"}, tail # <<>>,
           Current(tail[1]), Advance(step),
           UNCHANGED <<session, busy, closing, models, segment, futures, ended, mishaps>>
    PROVE  DictationInv'
<1>1. /\ tail \in Seq(Phrases) /\ 1 \in DOMAIN tail /\ tail[1] \in Phrases
      /\ tail' = [tail EXCEPT ![1].at = step] /\ op' = op
  BY DEF DictationInv, ControllerType, Advance
<1> DEFINE p == [tail[1] EXCEPT !.at = step]
<1>2. p \in Phrases /\ p.current = tail[1].current /\ p.fate = tail[1].fate
  BY <1>1 DEF Phrases
<1>3. tail' = [tail EXCEPT ![1] = p]
  BY <1>1
<1> HIDE DEF p
<1>4. tail' \in Seq(Phrases) /\ Len(tail') = Len(tail) /\ DOMAIN tail' = DOMAIN tail
  BY <1>1, <1>2, <1>3
<1>5. DroppedIsOld'
  <2>1. tail[1].fate # "dropped"
    BY <1>1 DEF DictationInv, DroppedIsOld, Current
  <2>2. tail'[1].fate # "dropped" /\ \A i \in DOMAIN tail : i # 1 => tail'[i] = tail[i]
    BY <1>1, <1>2, <1>3, <2>1
  <2> QED
    BY <1>4, <2>2 DEF DictationInv, DroppedIsOld
<1>6. ControllerType'
  BY <1>1, <1>4 DEF DictationInv, ControllerType, session, futures, models
<1>7. tail = <<>> <=> tail' = <<>>
  BY <1>1, <1>4
<1> QED
  BY <1>1, <1>4, <1>5, <1>6, <1>7
     DEF DictationInv, OneStop, MicIsShown, StartAlone, StopWaits, RecognizerFits, NothingLeft,
         session, futures, models

(* The first phrase is done, and who waits for it counts one less.         *)
LEMMA RemovedKeeps ==
    ASSUME DictationInv, tail # <<>>, Removed,
           UNCHANGED <<session, busy, closing, models, segment, futures, ended, mishaps>>
    PROVE  DictationInv'
<1>1. /\ tail \in Seq(Phrases) /\ tail' = Tail(tail)
      /\ Len(tail) \in Nat /\ Len(tail) > 0
  BY DEF DictationInv, ControllerType, Removed
<1>2. /\ tail' \in Seq(Phrases) /\ Len(tail') = Len(tail) - 1
      /\ \A i \in DOMAIN tail' : i + 1 \in DOMAIN tail /\ tail'[i] = tail[i + 1]
  BY <1>1
<1>3. DroppedIsOld'
  BY <1>2 DEF DictationInv, DroppedIsOld
<1>4. ASSUME NEW d \in Calls
      PROVE  /\ op'[d] \in CallStates /\ InShape(op'[d])
             /\ op'[d].kind = op[d].kind /\ op'[d].at = op[d].at /\ op'[d].model = op[d].model
             /\ op'[d].on = op[d].on
             /\ op'[d].ahead = IF op[d].ahead > 0 THEN op[d].ahead - 1 ELSE op[d].ahead
  <2>1. op[d] \in CallStates /\ InShape(op[d]) /\ op[d].ahead \in Nat
    BY StepKinds DEF CallStates
  <2>2. CASE op[d].ahead > 0
    <3> DEFINE o == op[d]
               v == [o EXCEPT !.ahead = o.ahead - 1]
    <3>1. op'[d] = v
      BY <2>2 DEF Removed
    <3>2. o.ahead - 1 \in Nat
      BY <2>1, <2>2
    <3> HIDE DEF o
    <3>3. /\ v \in CallStates /\ v.ahead = o.ahead - 1
          /\ v.kind = o.kind /\ v.at = o.at /\ v.model = o.model /\ v.on = o.on
      BY <2>1, <3>2 DEF CallStates, o
    <3>4. o.kind # "none"
      BY <2>1, <2>2, NoCallFields DEF InShape, o
    <3>5. InShape(v)
      BY <2>1, <3>3, <3>4 DEF InShape, o
    <3> QED
      BY <2>2, <3>1, <3>3, <3>5 DEF o
  <2>3. CASE ~(op[d].ahead > 0)
    <3>1. op'[d] = op[d]
      BY <2>3 DEF Removed
    <3> QED
      BY <2>1, <2>3, <3>1
  <2> QED
    BY <2>2, <2>3
<1>5. op' \in [Calls -> CallStates]
  <2>1. op' = [d \in Calls |-> op'[d]]
    BY DEF Removed
  <2> QED
    BY <1>4, <2>1
<1>6. ControllerType'
  BY <1>2, <1>4, <1>5 DEF DictationInv, ControllerType, session, futures, models
<1>7. OneStop' /\ MicIsShown'
  BY <1>4 DEF DictationInv, OneStop, MicIsShown, session, futures
<1>8. ASSUME "overlap" \notin mishaps'
      PROVE  StartAlone' /\ StopWaits'
  <2>1. StartAlone /\ StopWaits
    BY <1>8 DEF DictationInv
  <2>2. startFuture # None => startFuture \in Calls
    BY DEF DictationInv, ControllerType
  <2>3. StartAlone'
    BY <1>4, <2>1, <2>2 DEF StartAlone, session, futures
  <2>4. StopWaits'
    BY <1>1, <1>2, <1>4, <2>1 DEF StopWaits, session
  <2> QED
    BY <2>3, <2>4
<1>9. ASSUME {"overlap", "configure"} \cap mishaps' = {}
      PROVE  RecognizerFits'
  <2>1. RecognizerFits
    BY <1>9 DEF DictationInv
  <2> QED
    BY <1>4, <2>1 DEF RecognizerFits, session, models
<1>10. ASSUME mishaps' = {}, ended' # "none"
       PROVE  NothingLeft'
  <2>1. NothingLeft
    BY <1>10 DEF DictationInv
  <2> QED
    BY <2>1 DEF NothingLeft, session, futures, models
<1> QED
  BY <1>3, <1>6, <1>7, <1>8, <1>9, <1>10 DEF DictationInv

(* The queue works its phrases off.                                        *)
LEMMA RecognitionKeeps == ASSUME DictationInv, Recognition PROVE DictationInv'
<1>1. CASE BeginDecode
  BY <1>1, RemovedKeeps, AdvanceKeeps DEF BeginDecode
<1>2. CASE Decoded
  BY <1>2, RemovedKeeps, AdvanceKeeps DEF Decoded
<1>3. CASE Delivered
  BY <1>3, RemovedKeeps DEF Delivered
<1> QED
  BY <1>1, <1>2, <1>3 DEF Recognition

-----------------------------------------------------------------------------
(* Nothing runs at first.                                                  *)
LEMMA DictationInitially == DictationInit => DictationInv
<1> SUFFICES ASSUME DictationInit PROVE DictationInv
  OBVIOUS
<1>1. \A c \in Calls : op[c] = NoCall /\ op[c].kind = "none" /\ op[c].at = "none"
  BY NoCallFields DEF DictationInit
<1>2. ControllerType
  <2>1. tail \in Seq(Phrases)
    BY DEF DictationInit
  <2>2. op \in [Calls -> CallStates] /\ \A c \in Calls : InShape(op[c])
    BY NoCallFields DEF DictationInit
  <2> QED
    BY <2>1, <2>2 DEF DictationInit, ControllerType
<1> QED
  BY <1>1, <1>2
     DEF DictationInit, DictationInv, DroppedIsOld, OneStop, MicIsShown, StartAlone, StopWaits,
         RecognizerFits

(* Every step keeps the invariant.                                         *)
LEMMA DictationStep == DictationInv /\ [DictationNext]_dictationVars => DictationInv'
<1> SUFFICES ASSUME DictationInv, [DictationNext]_dictationVars PROVE DictationInv'
  OBVIOUS
<1>1. ASSUME NEW c \in Calls, Start(c) \/ Stop(c) \/ Cancel(c) \/ Close(c)
      PROVE  DictationInv'
  BY <1>1, StartKeeps, StopKeeps, CancelKeeps, CloseKeeps DEF Cancel
<1>2. ASSUME NEW c \in Calls, NEW m \in Models, Configure(c, m)
      PROVE  DictationInv'
  BY <1>2, ConfigureKeeps
<1>3. ASSUME NEW c \in Calls, Answered(c)
      PROVE  DictationInv'
  BY <1>3, PermittedKeeps, FilesFoundKeeps, WorkerReadyKeeps, CaptureStartedKeeps,
     CaptureUndoneKeeps, StartFailsKeeps, StopMicClosedKeeps, CancelMicClosedKeeps DEF Answered
<1>4. ASSUME NEW c \in Calls, Resumed(c)
      PROVE  DictationInv'
  BY <1>4, StartAwaitedKeeps, ConfigureEndsKeepsInv, StopEndsKeeps, CloseEndsKeeps DEF Resumed
<1>5. ASSUME NEW c \in Calls, PauseFull(c) \/ StreamFails(c) \/ StreamEnds(c)
      PROVE  DictationInv'
  BY <1>5, CancelKeeps, StreamEndsKeeps DEF PauseFull, StreamFails, Cancel
<1>6. CASE ReleaseRecognizer \/ Speak \/ Pause
  BY <1>6, SoundKeeps
<1>7. CASE Recognition
  BY <1>7, RecognitionKeeps
<1>8. CASE UNCHANGED dictationVars
  BY <1>8, QuietSteps DEF dictationVars, models
<1> QED
  BY <1>1, <1>2, <1>3, <1>4, <1>5, <1>6, <1>7, <1>8 DEF DictationNext

(***************************************************************************)
(* However many calls overlap: until a start overlaps another call, the    *)
(* start under way has the controller to itself, a stop that waits for the *)
(* last phrases waits for all there are, and the recogniser is the         *)
(* configured model's (LocalDictationController: _startFuture, _busy).     *)
(***************************************************************************)
THEOREM DictationInvariance == DictationSpec => []DictationInv
  BY DictationInitially, DictationStep, PTL DEF DictationSpec

(***************************************************************************)
(* For any number of calls and any bound of the queue, a phrase that was   *)
(* dropped is never delivered (the checks of the generation in _decode).   *)
(***************************************************************************)
THEOREM DroppedNeverDelivered == DictationSpec => []DroppedStaysDropped
<1>1. DictationInv => DroppedStaysDropped
  BY DEF DictationInv, DroppedIsOld, DroppedStaysDropped
<1> QED
  BY <1>1, DictationInvariance, PTL

(***************************************************************************)
(* For any number of calls, the microphone is open only while the          *)
(* controller says so or a start closes it again, the named mishaps        *)
(* excepted (_start undoes a capture that was overtaken).                  *)
(***************************************************************************)
THEOREM MicShown == DictationSpec => []MicIsShown
<1>1. DictationInv => MicIsShown
  BY DEF DictationInv
<1> QED
  BY <1>1, DictationInvariance, PTL

(***************************************************************************)
(* For any number of calls and models, a session records for the           *)
(* configured model, unless that was changed under it (configure).         *)
(***************************************************************************)
THEOREM SessionModel == DictationSpec => []SessionHasModel
<1>1. DictationInv => SessionHasModel
  BY DEF DictationInv, RecognizerFits, SessionHasModel
<1> QED
  BY <1>1, DictationInvariance, PTL

(***************************************************************************)
(* For any number of calls, nothing is recorded and nothing is left to     *)
(* deliver after a stop that succeeded, and nothing is left at all after a *)
(* close, until the next start.                                            *)
(***************************************************************************)
THEOREM EndsForGood == DictationSpec => []EndIsFinal
<1>1. DictationInv => EndIsFinal
  BY DEF DictationInv, NothingLeft, EndIsFinal
<1> QED
  BY <1>1, DictationInvariance, PTL
=============================================================================
