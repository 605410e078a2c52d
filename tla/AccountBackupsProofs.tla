------------------------ MODULE AccountBackupsProofs ------------------------
(***************************************************************************)
(* Proofs about AccountBackups, for any accounts, requests, bodies and      *)
(* numbers of permits and of late statements: the permits match the         *)
(* requests in progress, only valid bodies are stored, what is read back is *)
(* the latest, and the two validators agree but for the listed differences. *)
(***************************************************************************)
EXTENDS AccountBackups, FiniteSetTheorems, NaturalsInduction, WellFoundedInduction, TLAPS

Steps == {"idle", "upload", "decode", "query", "done"}
Methods == {"GET", "PUT", "DELETE"}

-----------------------------------------------------------------------------
(* Types and permits.                                                       *)

(* The type invariant needs the match of the permits to bound them.         *)
TypeInv ==
    /\ situation.clients \subseteq Requests /\ situation.offered \subseteq BodyIds
    /\ rows \in [Accounts -> Values]
    /\ pc \in [Requests -> Steps]
    /\ who \in [Requests -> Accounts \cup {None}]
    /\ \A r \in Requests : pc[r] # "idle" => who[r] \in Accounts
    /\ method \in [Requests -> Methods]
    /\ \A r \in Requests : pc[r] \in {"upload", "decode"} => method[r] = "PUT"
    /\ value \in [Requests -> Values]
    /\ late \subseteq [account : Accounts, value : Values]
    /\ maybe \in [Accounts -> SUBSET Values]
    /\ rivals \in [Requests -> SUBSET Values]

PermitInv ==
    /\ permits \in 0..Slots
    /\ IsFiniteSet(Holders)
    /\ PermitsMatch

(* A request begins, ends, or does neither.                                 *)
LEMMA Taking ==
    ASSUME TypeInv, PermitInv, NEW r \in Requests, pc[r] = "idle", permits > 0,
           permits' = permits - 1, NEW s \in Steps \ {"idle"}, pc' = [pc EXCEPT ![r] = s]
    PROVE  PermitInv'
<1>1. Holders' = Holders \cup {r} /\ r \notin Holders
  BY DEF Holders, TypeInv
<1>2. /\ IsFiniteSet(Holders \cup {r})
      /\ Cardinality(Holders \cup {r}) = Cardinality(Holders) + 1
  BY <1>1, FS_AddElement DEF PermitInv
<1>3. Cardinality(Holders) \in Nat
  BY FS_CardinalityType DEF PermitInv
<1> QED BY <1>1, <1>2, <1>3, BackupsAssumption DEF PermitInv, PermitsMatch

(* A request that ends and gives its permit back keeps the count.          *)
LEMMA Releasing ==
    ASSUME TypeInv, PermitInv, NEW r \in Requests, pc[r] # "idle", Release(r)
    PROVE  PermitInv'
<1>1. Holders' = Holders \ {r} /\ r \in Holders
  BY DEF Holders, TypeInv, Release, Forget
<1>2. /\ IsFiniteSet(Holders \ {r})
      /\ Cardinality(Holders \ {r}) = Cardinality(Holders) - 1
  BY <1>1, FS_RemoveElement DEF PermitInv
<1>3. Cardinality(Holders) \in Nat /\ Cardinality(Holders \ {r}) \in Nat
  BY <1>2, FS_CardinalityType DEF PermitInv
<1> QED BY <1>1, <1>2, <1>3, BackupsAssumption DEF PermitInv, PermitsMatch, Release

(* A request that goes on keeps the count.                                 *)
LEMMA Going ==
    ASSUME TypeInv, PermitInv, NEW r \in Requests, pc[r] # "idle", UNCHANGED permits,
           NEW s \in Steps \ {"idle"}, pc' = [pc EXCEPT ![r] = s]
    PROVE  PermitInv'
<1>1. Holders' = Holders
  BY DEF Holders, TypeInv
<1> QED BY <1>1 DEF PermitInv, PermitsMatch

(* Every step keeps permits and requests in progress in balance.           *)
LEMMA PermitStep ==
    ASSUME TypeInv, PermitInv, [Next]_vars
    PROVE  PermitInv'
<1>1. ASSUME NEW r \in Requests, Busy(r)
      PROVE  PermitInv'
  BY <1>1 DEF Busy, PermitInv, PermitsMatch, Holders
<1>2. ASSUME NEW r \in Requests, NEW a \in Accounts, NEW m \in {"GET", "DELETE"},
             BeginQuery(r, a, m)
      PROVE  PermitInv'
  BY <1>2, Taking DEF BeginQuery, Enter, Steps
<1>3. ASSUME NEW r \in Requests, NEW a \in Accounts, NEW b \in BodyIds, BeginPut(r, a, b)
      PROVE  PermitInv'
  BY <1>3, Taking DEF BeginPut, Enter, Steps
<1>4. ASSUME NEW r \in Requests, Step(r)
      PROVE  PermitInv'
  <2>1. CASE Uploaded(r)
    BY <2>1, Releasing, Going DEF Uploaded, Refuse, Steps
  <2>2. CASE Validated(r)
    BY <2>2, Releasing, Going DEF Validated, Refuse, Steps
  <2>3. CASE Execute(r)
    BY <2>3, Going DEF Execute, Steps
  <2>4. CASE Failed(r) \/ Answer(r) \/ Drop(r)
    BY <2>4, Releasing DEF Failed, Answer, Drop
  <2> QED BY <1>4, <2>1, <2>2, <2>3, <2>4 DEF Step
<1>5. ASSUME NEW s \in late, ExecuteLate(s)
      PROVE  PermitInv'
  BY <1>5 DEF ExecuteLate, PermitInv, PermitsMatch, Holders
<1>6. CASE UNCHANGED vars
  BY <1>6 DEF vars, PermitInv, PermitsMatch, Holders
<1> QED BY <1>1, <1>2, <1>3, <1>4, <1>5, <1>6 DEF Next

(* The values that Send puts into the history are values.                   *)
LEMMA Sending ==
    ASSUME TypeInv, NEW r \in Requests, NEW a \in Accounts, NEW v \in Values,
           NEW write \in BOOLEAN, Send(r, a, v, write)
    PROVE  /\ maybe' \in [Accounts -> SUBSET Values]
           /\ rivals' \in [Requests -> SUBSET Values]
<1>1. Unanswered(a) \subseteq Values
  BY DEF Unanswered, WritersOf, TypeInv
<1>2. maybe' \in [Accounts -> SUBSET Values]
  BY DEF Send, TypeInv
<1>3. rivals' \in [Requests -> SUBSET Values]
  BY <1>1 DEF Send, TypeInv
<1> QED BY <1>2, <1>3

(* A request that ends leaves types as they are, whatever it leaves behind. *)
LEMMA Ending ==
    ASSUME TypeInv, NEW r \in Requests, pc[r] # "idle", Forget(r),
           UNCHANGED <<situation, rows>>, Orphan(r),
           maybe' \in [Accounts -> SUBSET Values]
    PROVE  TypeInv'
<1>1. late' \subseteq [account : Accounts, value : Values]
  BY DEF Orphan, TypeInv
<1> QED BY <1>1, BackupsAssumption DEF Forget, TypeInv, Steps, Methods, Values

(* Each action keeps the types.                                             *)
LEMMA TypeStep ==
    ASSUME TypeInv, [Next]_vars
    PROVE  TypeInv'
<1>1. ASSUME NEW r \in Requests, Busy(r)
      PROVE  TypeInv'
  BY <1>1 DEF Busy, TypeInv, requestVars
<1>2. ASSUME NEW r \in Requests, NEW a \in Accounts, NEW m \in {"GET", "DELETE"},
             BeginQuery(r, a, m)
      PROVE  TypeInv'
  <2>1. /\ maybe' \in [Accounts -> SUBSET Values]
        /\ rivals' \in [Requests -> SUBSET Values]
    BY <1>2, Sending DEF BeginQuery, Values
  <2> QED BY <1>2, <2>1 DEF BeginQuery, Enter, TypeInv, Steps, Methods, Values
<1>3. ASSUME NEW r \in Requests, NEW a \in Accounts, NEW b \in BodyIds, BeginPut(r, a, b)
      PROVE  TypeInv'
  BY <1>3 DEF BeginPut, Enter, TypeInv, Steps, Methods, Values
<1>4. ASSUME NEW r \in Requests, Step(r)
      PROVE  TypeInv'
  <2>1. ASSUME NEW status, pc[r] # "idle", Refuse(r, status)
        PROVE  TypeInv'
    BY <2>1, Ending DEF Refuse, Release, Orphan, TypeInv
  <2>2. CASE Uploaded(r)
    <3>1. CASE Refuse(r, "too_large")
      BY <2>1, <2>2, <3>1 DEF Uploaded
    <3>2. CASE pc' = [pc EXCEPT ![r] = "decode"]
      BY <2>2, <3>2, <2>1 DEF Uploaded, TypeInv, Steps, requestVars
    <3> QED BY <2>2, <3>1, <3>2 DEF Uploaded
  <2>3. CASE Validated(r)
    <3>1. CASE Refuse(r, "invalid")
      BY <2>1, <2>3, <3>1 DEF Validated
    <3>2. CASE pc' = [pc EXCEPT ![r] = "query"] /\ Send(r, who[r], value[r], TRUE)
               /\ UNCHANGED <<situation, permits, rows, requestVars, late>>
      <4>1. who[r] \in Accounts /\ value[r] \in Values
        BY <2>3 DEF Validated, TypeInv
      <4>2. /\ maybe' \in [Accounts -> SUBSET Values]
            /\ rivals' \in [Requests -> SUBSET Values]
        BY <3>2, <4>1, Sending
      <4> QED BY <2>3, <3>2, <4>2 DEF Validated, TypeInv, Steps, requestVars
    <3> QED BY <2>3, <3>1, <3>2 DEF Validated
  <2>4. CASE Execute(r)
    BY <2>4 DEF Execute, Upsert, TypeInv, Steps
  <2>5. CASE Failed(r)
    BY <2>5, Ending DEF Failed, Release, TypeInv
  <2>6. CASE Answer(r)
    <3>1. maybe' \in [Accounts -> SUBSET Values]
      BY <2>6 DEF Answer, Settle, TypeInv
    <3> QED BY <2>6, <3>1, Ending DEF Answer, Release, Orphan, TypeInv
  <2>7. CASE Drop(r)
    BY <2>7, Ending DEF Drop, Release, TypeInv
  <2> QED BY <1>4, <2>2, <2>3, <2>4, <2>5, <2>6, <2>7 DEF Step
<1>5. ASSUME NEW s \in late, ExecuteLate(s)
      PROVE  TypeInv'
  BY <1>5 DEF ExecuteLate, Upsert, TypeInv, requestVars
<1>6. CASE UNCHANGED vars
  BY <1>6 DEF vars, requestVars, TypeInv
<1> QED BY <1>1, <1>2, <1>3, <1>4, <1>5, <1>6 DEF Next

-----------------------------------------------------------------------------
(* The histories.                                                           *)

(* A write whose statement may run, or has run.                             *)
Sent(r) == pc[r] \in {"query", "done"} /\ Writes(r)

(* What may still reach a row, and what is in it, is expected of it.        *)
RowsExpected == \A a \in Accounts : rows[a] \in maybe[a]
SentExpected == \A r \in Requests : Sent(r) => value[r] \in maybe[who[r]]
LateExpected == \A s \in late : s.value \in maybe[s.account]

(* A write knows every other value that may replace its own.                *)
SentRivals ==
    \A r, q \in Requests :
        r # q /\ Sent(r) /\ Sent(q) /\ who[r] = who[q] => value[q] \in rivals[r]
LateRivals ==
    \A r \in Requests, s \in late : Sent(r) /\ who[r] = s.account => s.value \in rivals[r]
Written ==
    \A r \in Requests :
        pc[r] = "done" /\ Writes(r) => rows[who[r]] \in {value[r]} \cup rivals[r]

(* A read knows every value that it may find.                               *)
ReadsKnow ==
    \A r \in Requests : pc[r] = "query" /\ ~Writes(r) => maybe[who[r]] \subseteq rivals[r]

HistoryInv ==
    /\ RowsExpected /\ SentExpected /\ LateExpected
    /\ SentRivals /\ LateRivals /\ Written
    /\ ReadsKnow /\ ReadsLatest

(* No invariant is about a request that is over; what it may leave behind    *)
(* its rivals know already.                                                 *)
LEMMA EndingKeeps ==
    ASSUME TypeInv, HistoryInv, NEW r \in Requests, pc[r] # "idle", Forget(r), Orphan(r),
           UNCHANGED <<rows, maybe>>
    PROVE  HistoryInv'
<1>1. \A q \in Requests :
          /\ q # r => /\ Sent(q)' = Sent(q) /\ Writes(q)' = Writes(q) /\ pc'[q] = pc[q]
                      /\ value'[q] = value[q] /\ who'[q] = who[q] /\ rivals'[q] = rivals[q]
          /\ q = r => pc'[q] = "idle"
  BY DEF Forget, TypeInv, Sent, Writes
<1>2. \A s \in late' :
          s \in late \/ (Sent(r) /\ s.account = who[r] /\ s.value = value[r])
  BY DEF Orphan, Sent
<1>3. \A q \in Requests : Sent(q)' => q # r
  BY <1>1 DEF Sent
<1>4. RowsExpected' /\ Written' /\ ReadsKnow' /\ ReadsLatest'
  BY <1>1 DEF HistoryInv, RowsExpected, Written, ReadsKnow, ReadsLatest
<1>5. SentExpected'
  BY <1>1, <1>3 DEF HistoryInv, SentExpected
<1>6. LateExpected'
  BY <1>2 DEF HistoryInv, SentExpected, LateExpected
<1>7. SentRivals'
  BY <1>1, <1>3 DEF HistoryInv, SentRivals
<1>8. LateRivals'
  <2> SUFFICES ASSUME NEW q \in Requests, NEW s \in late', Sent(q)', who'[q] = s.account
               PROVE  s.value \in rivals'[q]
    BY DEF LateRivals
  <2>1. q # r /\ Sent(q) /\ who[q] = s.account /\ rivals'[q] = rivals[q]
    BY <1>1, <1>3
  <2>2. CASE s \in late
    BY <2>1, <2>2 DEF HistoryInv, LateRivals
  <2>3. CASE Sent(r) /\ s.account = who[r] /\ s.value = value[r]
    BY <2>1, <2>3 DEF HistoryInv, SentRivals
  <2> QED BY <1>2, <2>2, <2>3
<1> QED BY <1>4, <1>5, <1>6, <1>7, <1>8 DEF HistoryInv

(* An answer to a write narrows what is expected of its row to what the row,  *)
(* and every statement that may still run, has.                             *)
LEMMA AnswerKeeps ==
    ASSUME TypeInv, HistoryInv, NEW r \in Requests, Answer(r)
    PROVE  HistoryInv'
<1>1. \A q \in Requests :
          /\ q # r => /\ Sent(q)' = Sent(q) /\ Writes(q)' = Writes(q) /\ pc'[q] = pc[q]
                      /\ value'[q] = value[q] /\ who'[q] = who[q] /\ rivals'[q] = rivals[q]
          /\ q = r => pc'[q] = "idle"
  BY DEF Answer, Release, Forget, TypeInv, Sent, Writes
<1>2. pc[r] = "done" /\ UNCHANGED <<rows, late>>
  BY DEF Answer
<1>3. \A q \in Requests : Sent(q)' => q # r
  BY <1>1 DEF Sent
<1>4. \A a \in Accounts :
          maybe'[a] = IF Writes(r) /\ a = who[r]
                      THEN maybe[a] \cap ({value[r]} \cup rivals[r]) ELSE maybe[a]
  BY DEF Answer, Settle, TypeInv
<1>5. Writes(r) => Sent(r)
  BY <1>2 DEF Sent
<1>6. RowsExpected'
  BY <1>2, <1>4 DEF HistoryInv, RowsExpected, Written
<1>7. SentExpected'
  <2> SUFFICES ASSUME NEW q \in Requests, Sent(q)'
               PROVE  value'[q] \in maybe'[who'[q]]
    BY DEF SentExpected
  <2>1. q # r /\ Sent(q) /\ value'[q] = value[q] /\ who'[q] = who[q]
    BY <1>1, <1>3
  <2>2. who[q] \in Accounts /\ value[q] \in maybe[who[q]]
    BY <2>1 DEF Sent, TypeInv, HistoryInv, SentExpected
  <2>3. Writes(r) /\ who[q] = who[r] => value[q] \in rivals[r]
    BY <1>5, <2>1 DEF HistoryInv, SentRivals
  <2> QED BY <1>4, <2>1, <2>2, <2>3
<1>8. LateExpected'
  <2> SUFFICES ASSUME NEW s \in late
               PROVE  s.value \in maybe'[s.account]
    BY <1>2 DEF LateExpected
  <2>1. s.account \in Accounts /\ s.value \in maybe[s.account]
    BY DEF TypeInv, HistoryInv, LateExpected
  <2>2. Writes(r) /\ s.account = who[r] => s.value \in rivals[r]
    BY <1>5 DEF HistoryInv, LateRivals
  <2> QED BY <1>4, <2>1, <2>2
<1>9. SentRivals' /\ LateRivals'
  BY <1>1, <1>2, <1>3 DEF HistoryInv, SentRivals, LateRivals
<1>10. Written'
  BY <1>1, <1>2 DEF HistoryInv, Written
<1>11. ReadsKnow'
  <2> SUFFICES ASSUME NEW q \in Requests, pc'[q] = "query", ~Writes(q)'
               PROVE  maybe'[who'[q]] \subseteq rivals'[q]
    BY DEF ReadsKnow
  <2>1. q # r /\ pc[q] = "query" /\ ~Writes(q) /\ who'[q] = who[q] /\ rivals'[q] = rivals[q]
    BY <1>1
  <2>2. who[q] \in Accounts /\ maybe[who[q]] \subseteq rivals[q]
    BY <2>1 DEF TypeInv, HistoryInv, ReadsKnow
  <2> QED BY <1>4, <2>1, <2>2
<1>12. ReadsLatest'
  BY <1>1 DEF HistoryInv, ReadsLatest
<1> QED BY <1>6, <1>7, <1>8, <1>9, <1>10, <1>11, <1>12 DEF HistoryInv

(* A statement that goes out is known at once to all whom it concerns.      *)
LEMMA SendingKeeps ==
    ASSUME TypeInv, HistoryInv, NEW r \in Requests, pc[r] \notin {"query", "done"},
           NEW a \in Accounts, NEW v \in Values, NEW m \in Methods,
           Send(r, a, v, m # "GET"),
           pc' = [pc EXCEPT ![r] = "query"], who' = [who EXCEPT ![r] = a],
           method' = [method EXCEPT ![r] = m], value' = [value EXCEPT ![r] = v],
           UNCHANGED <<rows, late>>
    PROVE  HistoryInv'
<1>1. \A q \in Requests \ {r} :
          /\ Sent(q)' = Sent(q) /\ Writes(q)' = Writes(q) /\ pc'[q] = pc[q]
          /\ value'[q] = value[q] /\ who'[q] = who[q]
  BY DEF TypeInv, Sent, Writes
<1>2. /\ pc'[r] = "query" /\ who'[r] = a /\ value'[r] = v
      /\ Writes(r)' = (m # "GET") /\ Sent(r)' = (m # "GET")
  BY DEF TypeInv, Sent, Writes
<1>3. /\ \A b \in Accounts : maybe[b] \subseteq maybe'[b]
      /\ m # "GET" => v \in maybe'[a]
      /\ \A b \in Accounts \ {a} : maybe'[b] = maybe[b]
      /\ maybe'[a] \subseteq maybe[a] \cup {v}
      /\ m = "GET" => maybe' = maybe
  BY DEF Send, TypeInv
<1>4. /\ \A q \in Requests \ {r} : rivals[q] \subseteq rivals'[q]
      /\ \A q \in Requests \ {r} :
            m # "GET" /\ who[q] = a /\ pc[q] \in {"query", "done"} => v \in rivals'[q]
      /\ m # "GET" => rivals'[r] = Unanswered(a)
      /\ m = "GET" => rivals'[r] = maybe[a]
  BY DEF Send, TypeInv
<1>5. RowsExpected'
  BY <1>3 DEF HistoryInv, RowsExpected
<1>6. SentExpected'
  <2> SUFFICES ASSUME NEW q \in Requests, Sent(q)'
               PROVE  value'[q] \in maybe'[who'[q]]
    BY DEF SentExpected
  <2>1. CASE q = r
    BY <1>2, <1>3, <2>1
  <2>2. CASE q # r
    <3>1. Sent(q) /\ value'[q] = value[q] /\ who'[q] = who[q]
      BY <1>1, <2>2
    <3>2. who[q] \in Accounts /\ value[q] \in maybe[who[q]]
      BY <3>1 DEF Sent, TypeInv, HistoryInv, SentExpected
    <3> QED BY <1>3, <3>1, <3>2
  <2> QED BY <2>1, <2>2
<1>7. LateExpected'
  BY <1>3 DEF HistoryInv, LateExpected, TypeInv
<1>8. SentRivals'
  <2> SUFFICES ASSUME NEW p \in Requests, NEW q \in Requests, p # q, Sent(p)', Sent(q)',
                      who'[p] = who'[q]
               PROVE  value'[q] \in rivals'[p]
    BY DEF SentRivals
  <2>1. CASE p = r
    <3>1. Sent(q) /\ who[q] = a /\ value'[q] = value[q] /\ m # "GET"
      BY <1>1, <1>2, <2>1
    <3>2. value[q] \in Unanswered(a)
      BY <3>1 DEF Sent, Unanswered, WritersOf
    <3> QED BY <1>4, <2>1, <3>1, <3>2
  <2>2. CASE q = r
    <3>1. Sent(p) /\ who[p] = a /\ m # "GET"
      BY <1>1, <1>2, <2>2
    <3> QED BY <1>2, <1>4, <2>2, <3>1 DEF Sent
  <2>3. CASE p # r /\ q # r
    <3>1. Sent(p) /\ Sent(q) /\ who[p] = who[q] /\ value'[q] = value[q]
      BY <1>1, <2>3
    <3>2. value[q] \in rivals[p]
      BY <3>1 DEF HistoryInv, SentRivals
    <3> QED BY <1>4, <2>3, <3>1, <3>2
  <2> QED BY <2>1, <2>2, <2>3
<1>9. LateRivals'
  <2> SUFFICES ASSUME NEW q \in Requests, NEW s \in late, Sent(q)', who'[q] = s.account
               PROVE  s.value \in rivals'[q]
    BY DEF LateRivals
  <2>1. CASE q = r
    <3>1. s.account = a /\ m # "GET"
      BY <1>2, <2>1
    <3>2. s.value \in Unanswered(a)
      BY <3>1 DEF Unanswered
    <3> QED BY <1>4, <2>1, <3>1, <3>2
  <2>2. CASE q # r
    <3>1. Sent(q) /\ who[q] = s.account
      BY <1>1, <2>2
    <3>2. s.value \in rivals[q]
      BY <3>1 DEF HistoryInv, LateRivals
    <3> QED BY <1>4, <2>2, <3>2
  <2> QED BY <2>1, <2>2
<1>10. Written'
  <2> SUFFICES ASSUME NEW q \in Requests, pc'[q] = "done", Writes(q)'
               PROVE  rows[who'[q]] \in {value'[q]} \cup rivals'[q]
    BY DEF Written
  <2>1. q # r /\ pc[q] = "done" /\ Writes(q) /\ value'[q] = value[q] /\ who'[q] = who[q]
    BY <1>1, <1>2
  <2>2. rows[who[q]] \in {value[q]} \cup rivals[q]
    BY <2>1 DEF HistoryInv, Written
  <2> QED BY <1>4, <2>1, <2>2
<1>11. ReadsKnow'
  <2> SUFFICES ASSUME NEW q \in Requests, pc'[q] = "query", ~Writes(q)'
               PROVE  maybe'[who'[q]] \subseteq rivals'[q]
    BY DEF ReadsKnow
  <2>1. CASE q = r
    BY <1>2, <1>3, <1>4, <2>1
  <2>2. CASE q # r
    <3>1. pc[q] = "query" /\ ~Writes(q) /\ who'[q] = who[q]
      BY <1>1, <2>2
    <3>2. who[q] \in Accounts /\ maybe[who[q]] \subseteq rivals[q]
      BY <3>1 DEF TypeInv, HistoryInv, ReadsKnow
    <3>3. CASE m = "GET" \/ who[q] # a
      BY <1>3, <1>4, <2>2, <3>1, <3>2, <3>3
    <3>4. CASE m # "GET" /\ who[q] = a
      BY <1>3, <1>4, <2>2, <3>1, <3>2, <3>4
    <3> QED BY <3>3, <3>4
  <2> QED BY <2>1, <2>2
<1>12. ReadsLatest'
  <2> SUFFICES ASSUME NEW q \in Requests, pc'[q] = "done", ~Writes(q)'
               PROVE  value'[q] \in rivals'[q]
    BY DEF ReadsLatest
  <2>1. q # r /\ pc[q] = "done" /\ ~Writes(q) /\ value'[q] = value[q]
    BY <1>1, <1>2
  <2> QED BY <1>4, <2>1 DEF HistoryInv, ReadsLatest
<1> QED BY <1>5, <1>6, <1>7, <1>8, <1>9, <1>10, <1>11, <1>12 DEF HistoryInv

(* A statement that runs leaves a value that its rivals know, and finds one  *)
(* that is expected.                                                        *)
LEMMA ExecutingKeeps ==
    ASSUME TypeInv, HistoryInv, NEW r \in Requests, Execute(r)
    PROVE  HistoryInv'
<1>1. /\ pc[r] = "query" /\ UNCHANGED <<who, method, late, maybe, rivals>>
      /\ \A q \in Requests : pc'[q] = IF q = r THEN "done" ELSE pc[q]
      /\ \A q \in Requests : Sent(q)' = Sent(q) /\ Writes(q)' = Writes(q)
      /\ who[r] \in Accounts
  BY DEF Execute, TypeInv, Sent, Writes
<1>2. \A q \in Requests : Sent(q) \/ q # r => value'[q] = value[q]
  BY DEF Execute, TypeInv, Sent
<1>3. CASE Writes(r)
  <2>1. /\ UNCHANGED value
        /\ \A a \in Accounts : rows'[a] = IF a = who[r] THEN value[r] ELSE rows[a]
    BY <1>3 DEF Execute, Upsert, TypeInv
  <2>2. Sent(r)
    BY <1>1, <1>3 DEF Sent
  <2>3. RowsExpected'
    BY <1>1, <2>1, <2>2 DEF HistoryInv, RowsExpected, SentExpected
  <2>4. Written'
    <3> SUFFICES ASSUME NEW q \in Requests, pc'[q] = "done", Writes(q)
                 PROVE  rows'[who[q]] \in {value[q]} \cup rivals[q]
      BY <1>1, <2>1 DEF Written
    <3>1. who[q] \in Accounts /\ Sent(q)
      BY <1>1 DEF TypeInv, Sent
    <3>2. CASE who[q] # who[r]
      BY <1>1, <2>1, <3>1, <3>2 DEF HistoryInv, Written
    <3>3. CASE who[q] = who[r] /\ q # r
      BY <2>1, <2>2, <3>1, <3>3 DEF HistoryInv, SentRivals
    <3>4. CASE q = r
      BY <2>1, <3>1, <3>4
    <3> QED BY <3>2, <3>3, <3>4
  <2>5. SentExpected' /\ LateExpected' /\ SentRivals' /\ LateRivals'
    BY <1>1, <2>1 DEF HistoryInv, SentExpected, LateExpected, SentRivals, LateRivals
  <2>6. ReadsKnow' /\ ReadsLatest'
    BY <1>1, <1>3, <2>1 DEF HistoryInv, ReadsKnow, ReadsLatest
  <2> QED BY <2>3, <2>4, <2>5, <2>6 DEF HistoryInv
<1>4. CASE ~Writes(r)
  <2>1. UNCHANGED rows /\ value'[r] = rows[who[r]]
    BY <1>4 DEF Execute, TypeInv
  <2>2. RowsExpected' /\ SentExpected' /\ LateExpected' /\ SentRivals' /\ LateRivals'
    BY <1>1, <1>2, <2>1
       DEF HistoryInv, RowsExpected, SentExpected, LateExpected, SentRivals, LateRivals
  <2>3. Written'
    BY <1>1, <1>2, <1>4, <2>1 DEF HistoryInv, Written
  <2>4. ReadsKnow'
    BY <1>1 DEF HistoryInv, ReadsKnow
  <2>5. value'[r] \in rivals[r]
    BY <1>1, <1>4, <2>1 DEF HistoryInv, RowsExpected, ReadsKnow
  <2>6. ReadsLatest'
    BY <1>1, <1>2, <2>5 DEF HistoryInv, ReadsLatest
  <2> QED BY <2>2, <2>3, <2>4, <2>6 DEF HistoryInv
<1> QED BY <1>3, <1>4

(* A late statement is a value that everyone concerned expects.             *)
LEMMA LateKeeps ==
    ASSUME TypeInv, HistoryInv, NEW s \in late, ExecuteLate(s)
    PROVE  HistoryInv'
<1>1. /\ UNCHANGED <<pc, who, method, value, maybe, rivals>> /\ late' \subseteq late
      /\ s.account \in Accounts /\ s.value \in maybe[s.account]
  BY DEF ExecuteLate, requestVars, TypeInv, HistoryInv, LateExpected
<1>2. \A a \in Accounts :
          rows'[a] = rows[a] \/ (a = s.account /\ rows'[a] = s.value)
  BY DEF ExecuteLate, Upsert, TypeInv
<1>3. RowsExpected'
  BY <1>1, <1>2 DEF HistoryInv, RowsExpected
<1>4. Written'
  <2> SUFFICES ASSUME NEW q \in Requests, pc[q] = "done", Writes(q)
               PROVE  rows'[who[q]] \in {value[q]} \cup rivals[q]
    BY <1>1 DEF Written, Writes
  <2>1. who[q] \in Accounts /\ Sent(q)
    BY DEF TypeInv, Sent
  <2>2. rows[who[q]] \in {value[q]} \cup rivals[q]
    BY DEF HistoryInv, Written
  <2>3. who[q] = s.account => s.value \in rivals[q]
    BY <2>1 DEF HistoryInv, LateRivals
  <2> QED BY <1>2, <2>1, <2>2, <2>3
<1>5. /\ SentExpected' /\ LateExpected' /\ SentRivals' /\ LateRivals'
      /\ ReadsKnow' /\ ReadsLatest'
  BY <1>1 DEF HistoryInv, SentExpected, LateExpected, SentRivals, LateRivals, ReadsKnow,
              ReadsLatest, Sent, Writes
<1> QED BY <1>3, <1>4, <1>5 DEF HistoryInv

(* Before its statement goes out, a request is of no concern.               *)
LEMMA QuietKeeps ==
    ASSUME TypeInv, HistoryInv, NEW r \in Requests, pc[r] \notin {"query", "done"},
           NEW step \in {"upload", "decode"}, pc' = [pc EXCEPT ![r] = step],
           \A q \in Requests \ {r} :
               who'[q] = who[q] /\ method'[q] = method[q] /\ value'[q] = value[q],
           UNCHANGED <<rows, late, maybe, rivals>>
    PROVE  HistoryInv'
<1>1. \A q \in Requests :
          /\ q # r => /\ Sent(q)' = Sent(q) /\ Writes(q)' = Writes(q) /\ pc'[q] = pc[q]
                      /\ value'[q] = value[q] /\ who'[q] = who[q]
          /\ q = r => pc'[q] \notin {"query", "done"} /\ ~Sent(q)'
  BY DEF TypeInv, Sent, Writes
<1>2. RowsExpected' /\ SentExpected' /\ LateExpected'
  BY <1>1 DEF HistoryInv, RowsExpected, SentExpected, LateExpected
<1>3. SentRivals' /\ LateRivals'
  BY <1>1 DEF HistoryInv, SentRivals, LateRivals
<1>4. Written' /\ ReadsKnow' /\ ReadsLatest'
  BY <1>1 DEF HistoryInv, Written, ReadsKnow, ReadsLatest
<1> QED BY <1>2, <1>3, <1>4 DEF HistoryInv

(* Each action keeps the histories.                                         *)
LEMMA HistoryStep ==
    ASSUME TypeInv, HistoryInv, [Next]_vars
    PROVE  HistoryInv'
<1> USE DEF HistoryInv, RowsExpected, SentExpected, LateExpected, SentRivals, LateRivals,
            Written, ReadsKnow, ReadsLatest, Sent, Writes
<1>1. ASSUME NEW r \in Requests, Busy(r)
      PROVE  HistoryInv'
  BY <1>1 DEF Busy, requestVars
<1>6. CASE UNCHANGED vars
  BY <1>6 DEF vars, requestVars
<1> HIDE DEF HistoryInv, RowsExpected, SentExpected, LateExpected, SentRivals, LateRivals,
             Written, ReadsKnow, ReadsLatest, Sent, Writes
<1>2. ASSUME NEW r \in Requests, NEW a \in Accounts, NEW m \in {"GET", "DELETE"},
             BeginQuery(r, a, m)
      PROVE  HistoryInv'
  <2>1. pc[r] \notin {"query", "done"} /\ m \in Methods /\ None \in Values
    BY <1>2 DEF BeginQuery, Enter, Methods, Values
  <2>2. (m = "DELETE") = (m # "GET")
    OBVIOUS
  <2>3. Send(r, a, None, m # "GET")
    BY <1>2, <2>2 DEF BeginQuery
  <2> QED BY <1>2, <2>1, <2>3, SendingKeeps DEF BeginQuery, Enter
<1>3. ASSUME NEW r \in Requests, NEW a \in Accounts, NEW b \in BodyIds, BeginPut(r, a, b)
      PROVE  HistoryInv'
  BY <1>3, QuietKeeps DEF BeginPut, Enter, TypeInv
<1>4. ASSUME NEW r \in Requests, Step(r)
      PROVE  HistoryInv'
  <2>1. ASSUME NEW status, pc[r] # "idle", Refuse(r, status)
        PROVE  HistoryInv'
    BY <2>1, EndingKeeps DEF Refuse, Release, Orphan
  <2>2. CASE Uploaded(r)
    <3>1. CASE Refuse(r, "too_large")
      BY <2>1, <2>2, <3>1 DEF Uploaded
    <3>2. CASE /\ pc' = [pc EXCEPT ![r] = "decode"]
               /\ UNCHANGED <<situation, permits, rows, requestVars, late, maybe, rivals>>
      BY <2>2, <3>2, QuietKeeps DEF Uploaded, requestVars
    <3> QED BY <2>2, <3>1, <3>2 DEF Uploaded
  <2>3. CASE Validated(r)
    <3>1. CASE Refuse(r, "invalid")
      BY <2>1, <2>3, <3>1 DEF Validated
    <3>2. CASE pc' = [pc EXCEPT ![r] = "query"] /\ Send(r, who[r], value[r], TRUE)
               /\ UNCHANGED <<situation, permits, rows, requestVars, late>>
      <4>1. /\ pc[r] \notin {"query", "done"} /\ "PUT" \in Methods
            /\ who[r] \in Accounts /\ value[r] \in Values
        BY <2>3 DEF Validated, TypeInv, Methods
      <4>2. /\ who' = [who EXCEPT ![r] = who[r]]
            /\ method' = [method EXCEPT ![r] = "PUT"]
            /\ value' = [value EXCEPT ![r] = value[r]]
        BY <2>3, <3>2 DEF Validated, TypeInv, requestVars
      <4>3. Send(r, who[r], value[r], "PUT" # "GET")
        BY <3>2
      <4> QED BY <3>2, <4>1, <4>2, <4>3, SendingKeeps
    <3> QED BY <2>3, <3>1, <3>2 DEF Validated
  <2>4. CASE Execute(r)
    BY <2>4, ExecutingKeeps
  <2>5. CASE Failed(r) \/ Drop(r)
    BY <2>5, EndingKeeps DEF Failed, Drop, Release
  <2>6. CASE Answer(r)
    BY <2>6, AnswerKeeps
  <2> QED BY <1>4, <2>2, <2>3, <2>4, <2>5, <2>6 DEF Step
<1>5. ASSUME NEW s \in late, ExecuteLate(s)
      PROVE  HistoryInv'
  BY <1>5, LateKeeps
<1> QED BY <1>1, <1>2, <1>3, <1>4, <1>5, <1>6 DEF Next

-----------------------------------------------------------------------------
(* The two validators: what BackupFormat says of every body, whatever is    *)
(* stored when.                                                             *)

(* What the sets of bodies mean for one body.                               *)
LEMMA Lists ==
    \A b \in BodyIds :
        /\ b \in Small <=> BodyBytes(Bodies[b].envelope) <= MaxBackupBody
        /\ b \in Valid <=> ~Bodies[b].malformed /\ ValidateBackup(Bodies[b].envelope)
        /\ b \in FromPhone <=> Bodies[b].draft # None
        /\ b \in Beyond <=> BeyondServer(Bodies[b].envelope)
        /\ b \in Returning <=> Bodies[b].draft # None /\ ComesBack(Bodies[b])
        /\ b \in Restorable <=> (Readable(Bodies[b].envelope) <=> ~Wider(Bodies[b].envelope))
BY DEF BodiesWith, Small, Valid, FromPhone, Beyond, Returning, Restorable, BodyIds

(* Both sides list the same words and the same modifiers.                   *)
LEMMA WordsAgree ==
    /\ DOMAIN ServerWords = DOMAIN PhoneWords
    /\ \A t \in DOMAIN ServerWords : ServerWords[t] = PhoneWords[t]
    /\ ServerModifiers = PhoneModifiers
    /\ "none" \notin DOMAIN ServerWords
    /\ "keyboard" \notin DOMAIN ServerWords
    /\ "companion" \notin DOMAIN ServerWords
BY DEF ServerWords, PhoneWords, ServerModifiers, PhoneModifiers

(* The server takes an action that the phone encodes, if it is strict.      *)
LEMMA ActionTaken ==
    ASSUME NEW a, ActionReadable(a),
           a.value # None /\ a.value.kind = "json" => a.value.strict
    PROVE  ValidateAction(a)
BY WordsAgree DEF ActionReadable, ValidateAction, PayloadReadable, ValidMouseCoordinates, Range

(* The phone reads an action that the server takes, if it is plain.         *)
LEMMA ActionRead ==
    ASSUME NEW a, ValidateAction(a),
           a.value # None /\ a.value.kind = "number" => a.value.plain
    PROVE  ActionReadable(a)
BY WordsAgree DEF ActionReadable, ValidateAction, PayloadReadable, ValidMouseCoordinates, Range

(* The phone reads plain numbers only.                                      *)
LEMMA ActionNumber ==
    ASSUME NEW a, ActionReadable(a), a.value # None, a.value.kind = "number"
    PROVE  a.value.plain
BY WordsAgree DEF ActionReadable, PayloadReadable

(* The server takes an appearance within the ranges of the sliders.         *)
LEMMA LookTaken ==
    ASSUME NEW v, WellFormedVisual(v), VisualReadable(v),
           v.iconSize \in 1800..6400, v.imageScale \in 75..200,
           v.alignmentX \in -100..100, v.alignmentY \in -100..100,
           v.type = "customImage" => v.value # None
    PROVE  ValidateVisual(v)
<1>1. ASSUME NEW c \in PathComponents, ReadableComponent(c)
      PROVE  SafeComponent(c)
  BY <1>1 DEF PathComponents, ReadableComponent, SafeComponent
<1>2. ASSUME NEW p \in ImagePaths, PathReadable(p)
      PROVE  SafeImagePath(p)
  BY <1>1, <1>2 DEF ImagePaths, PathReadable, SafeImagePath
<1> QED BY <1>2 DEF WellFormedVisual, VisualReadable, ValidateVisual

(* What the phone asks of a path that the server has taken.                 *)
Plain(p) ==
    /\ ReadableComponent(p.folder) /\ ReadableComponent(p.file)
    /\ p.file.dots = 1 /\ PathLength(p) <= 200

(* A safe path is readable exactly when it is plain.                        *)
LEMMA PathPlain ==
    ASSUME NEW p, SafeImagePath(p)
    PROVE  PathReadable(p) <=> Plain(p)
BY DEF SafeImagePath, PathReadable, Plain

(* The phone reads an appearance that the server takes on a plain path.     *)
LEMMA LookRead ==
    ASSUME NEW v, ValidateVisual(v), v.type = "customImage" => Plain(v.value)
    PROVE  VisualReadable(v)
BY PathPlain DEF ValidateVisual, VisualReadable

(* What makes a button valid.                                               *)
LEMMA ButtonWhole ==
    ASSUME NEW b, b.position \in 0..59, b.textSize \in 1000..2400,
           b.id <= 128, b.label <= 1024, b.subtitle <= 1024,
           ValidateVisual(b.visual), ValidateAction(b.action)
    PROVE  ValidateButton(b)
BY DEF ValidateButton

(* The server takes a profile that the phone encodes, within the limits.    *)
LEMMA ProfileTaken ==
    ASSUME NEW p, WellFormedProfile(p), ProfileReadable(p), ~TextTooLong(p), ~OutOfRange(p),
           \A a \in AllActions(p) : a.value # None /\ a.value.kind = "json" => a.value.strict
    PROVE  ValidateProfile(p)
<1>1. \A v \in VisualsOf(p) : WellFormedVisual(v)
  BY DEF VisualsOf, WellFormedProfile, WellFormedButton, Range
<1>2. \A v \in VisualsOf(p) : ValidateVisual(v)
  <2> SUFFICES ASSUME NEW v \in VisualsOf(p)
               PROVE  ValidateVisual(v)
    OBVIOUS
  <2>1. /\ v.iconSize \in 1800..6400 /\ v.imageScale \in 75..200
        /\ v.alignmentX \in -100..100 /\ v.alignmentY \in -100..100
        /\ ~(v.type = "customImage" /\ v.value = None)
    <3>1. ~OutOfSliders(v)
      BY DEF OutOfRange
    <3> QED BY <3>1 DEF OutOfSliders
  <2>3. VisualReadable(v)
    BY DEF ProfileReadable
  <2> QED BY <1>1, <2>1, <2>3, LookTaken
<1>3. \A i \in DOMAIN p.buttons : ValidateAction(p.buttons[i].action)
  BY ActionTaken DEF ProfileReadable, AllActions
<1>4. \A i \in DOMAIN p.wheel.actions : ValidateAction(p.wheel.actions[i])
  BY ActionTaken DEF ProfileReadable, AllActions, Range
<1>5. ValidateWheel(p.wheel)
  BY <1>4 DEF ProfileReadable, ValidateWheel, WellFormedProfile, TextTooLong
<1>6. ASSUME NEW b \in Range(p.buttons)
      PROVE  b.id <= 128 /\ b.label <= 1024 /\ b.subtitle <= 1024 /\ b.textSize \in 1000..2400
  <2>1. b.id \in Nat /\ b.label \in Nat /\ b.subtitle \in Nat
    BY DEF WellFormedProfile, WellFormedButton
  <2>2. ~(b.id > 128) /\ ~(b.label > 1024) /\ ~(b.subtitle > 1024)
    BY DEF TextTooLong
  <2>3. b.textSize \in 1000..2400
    BY DEF OutOfRange
  <2> QED BY <2>1, <2>2, <2>3
<1>8. \A i \in DOMAIN p.buttons : p.buttons[i] \in Range(p.buttons)
  BY DEF Range
<1>7. p.name <= 512 /\ p.targetApplication <= 512
  BY DEF WellFormedProfile, TextTooLong
<1>9. /\ ValidateVisual(p.profileIcon)
      /\ \A i \in DOMAIN p.buttons : ValidateVisual(p.buttons[i].visual)
  BY <1>2 DEF VisualsOf
<1>10. ASSUME NEW i \in DOMAIN p.buttons
       PROVE  ValidateButton(p.buttons[i])
  <2>1. p.buttons[i].position \in 0..59
    BY DEF ProfileReadable
  <2>2. ValidateVisual(p.buttons[i].visual) /\ ValidateAction(p.buttons[i].action)
    BY <1>3, <1>9
  <2>3. /\ p.buttons[i].id <= 128 /\ p.buttons[i].label <= 1024
        /\ p.buttons[i].subtitle <= 1024 /\ p.buttons[i].textSize \in 1000..2400
    <3>1. p.buttons[i] \in Range(p.buttons)
      BY <1>8
    <3> QED BY <1>6, <3>1
  <2> QED BY <2>1, <2>2, <2>3, ButtonWhole
<1> QED
  BY <1>5, <1>7, <1>9, <1>10 DEF ValidateProfile, ProfileReadable

(* What a valid profile consists of.                                        *)
LEMMA ProfileParts ==
    ASSUME NEW p, ValidateProfile(p)
    PROVE  /\ p.name <= 512 /\ p.targetApplication <= 512
           /\ ValidateVisual(p.profileIcon)
           /\ Len(p.buttons) <= 60
           /\ \A i \in DOMAIN p.buttons : ValidateButton(p.buttons[i])
           /\ p.wheel.controlType \in WheelTypes /\ p.wheel.modeLabel <= 128
           /\ \A i \in DOMAIN p.wheel.actions : ValidateAction(p.wheel.actions[i])
BY Zenon DEF ValidateProfile, ValidateWheel

(* What a valid button consists of.                                         *)
LEMMA ButtonParts ==
    ASSUME NEW b, ValidateButton(b)
    PROVE  /\ b.position \in 0..59 /\ b.textSize \in 1000..2400
           /\ b.id <= 128 /\ b.label <= 1024 /\ b.subtitle <= 1024
           /\ ValidateVisual(b.visual) /\ ValidateAction(b.action)
BY DEF ValidateButton

(* The appearances of a valid profile are valid.                            *)
LEMMA LooksValid ==
    ASSUME NEW p, ValidateProfile(p)
    PROVE  \A v \in VisualsOf(p) : ValidateVisual(v)
BY ProfileParts, ButtonParts DEF VisualsOf

(* The phone reads a valid profile with plain paths and numbers.            *)
LEMMA ProfileRead ==
    ASSUME NEW p, ValidateProfile(p), p.id.len > 0,
           \A v \in VisualsOf(p) : v.type = "customImage" => Plain(v.value),
           \A a \in AllActions(p) : a.value # None /\ a.value.kind = "number" => a.value.plain
    PROVE  ProfileReadable(p)
<1>2. \A v \in VisualsOf(p) : VisualReadable(v)
  BY LooksValid, LookRead
<1>3. \A i \in DOMAIN p.buttons : ActionReadable(p.buttons[i].action)
  BY ProfileParts, ButtonParts, ActionRead DEF AllActions
<1>4. \A i \in DOMAIN p.wheel.actions : ActionReadable(p.wheel.actions[i])
  BY ProfileParts, ActionRead DEF AllActions, Range
<1>5. /\ Len(p.buttons) <= 60 /\ p.wheel.controlType \in WheelTypes
      /\ \A i \in DOMAIN p.buttons : p.buttons[i].position \in 0..59
  BY ProfileParts, ButtonParts
<1>6. Distinct([i \in DOMAIN p.buttons |-> p.buttons[i].position])
  BY Zenon DEF ValidateProfile
<1> QED BY <1>2, <1>3, <1>4, <1>5, <1>6 DEF ProfileReadable

(* Both sides collect the same image paths.                                 *)
LEMMA SamePaths ==
    ASSUME NEW profiles
    PROVE  CollectImageRefs(profiles) = CollectImagePaths(profiles)
<1>1. ASSUME NEW q, q \in CollectImageRefs(profiles)
      PROVE  q \in CollectImagePaths(profiles)
  BY <1>1 DEF CollectImageRefs, CollectImagePaths
<1>2. ASSUME NEW q, q \in CollectImagePaths(profiles)
      PROVE  q \in CollectImageRefs(profiles)
  BY <1>2 DEF CollectImageRefs, CollectImagePaths
<1> QED BY <1>1, <1>2

(* The phone reads an image that the server takes, if it decodes.           *)
LEMMA ImageRead ==
    ASSUME NEW i, i.file \in ImageFiles, SafeImagePath(i.path), i.file.bytes <= MaxImageBytes,
           ValidImageSignature(i), Plain(i.path), i.file.decodes, i.file.megapixels <= 16
    PROVE  PathReadable(i.path) /\ i.mime = MimeFor(i.path) /\ FileReadable(i.path, i.file)
<1>1. PathReadable(i.path)
  BY PathPlain
<1>2. i.mime = MimeFor(i.path)
  BY DEF ValidImageSignature, MimeFor
<1>3. i.file.bytes > 0
  BY DEF ValidImageSignature, Shortest, ImageFiles
<1>4. FileReadable(i.path, i.file)
  BY <1>3 DEF ValidImageSignature, FileReadable, ImageFiles
<1> QED BY <1>1, <1>2, <1>4

(* A path that is not plain differs in one of the listed ways.              *)
LEMMA PathIsPlain ==
    ASSUME NEW q \in ImagePaths
    PROVE  Plain(q) <=> ~(\/ ~ReadableComponent(q.folder) \/ ~ReadableComponent(q.file)
                          \/ q.file.dots # 1 \/ PathLength(q) > 200)
BY DEF Plain, PathLength, ImagePaths, PathComponents

(* The paths of a well-formed envelope are paths.                           *)
LEMMA PathsWellFormed ==
    ASSUME NEW e, WellFormedEnvelope(e)
    PROVE  PathsOf(e) \subseteq ImagePaths
<1>1. ASSUME NEW p \in Range(e.profiles), NEW v \in VisualsOf(p)
      PROVE  WellFormedVisual(v)
  BY DEF WellFormedEnvelope, VisualsOf, WellFormedProfile, WellFormedButton, Range
<1>2. CollectImagePaths(e.profiles) \subseteq ImagePaths
  BY <1>1 DEF CollectImagePaths, WellFormedVisual
<1> QED BY <1>2 DEF PathsOf, WellFormedEnvelope

(* What the server takes the phone reads, but for the differences.          *)
LEMMA StoredRead ==
    ASSUME NEW e, WellFormedEnvelope(e), ValidateBackup(e), BodyBytes(e) <= MaxBackupBody,
           ~Wider(e)
    PROVE  Readable(e)
<1>1. \A q \in PathsOf(e) : Plain(q)
  BY PathsWellFormed, PathIsPlain DEF Wider
<1>2. ASSUME NEW j \in DOMAIN e.profiles
      PROVE  ProfileReadable(e.profiles[j])
  <2> DEFINE p == e.profiles[j]
  <2>1. p \in Range(e.profiles)
    BY DEF Range
  <2>2. ValidateProfile(p)
    BY <2>1 DEF ValidateBackup
  <2>3. p.id.len > 0
    <3>1. [k \in DOMAIN e.profiles |-> e.profiles[k].id] = e.ids
      BY DEF ValidateBackup
    <3>2. j \in DOMAIN e.ids /\ e.ids[j] = p.id
      BY <3>1
    <3>3. e.ids[j].len \in 1..128
      BY <3>2 DEF ValidateBackup
    <3> QED BY <3>2, <3>3
  <2>4. ASSUME NEW v \in VisualsOf(p), v.type = "customImage"
        PROVE  Plain(v.value)
    <3>1. ValidateVisual(v)
      BY <2>2, LooksValid
    <3>2. v.value \in CollectImagePaths(e.profiles)
      BY <2>1, <2>4, <3>1 DEF ValidateVisual, CollectImagePaths
    <3> QED BY <3>2, <1>1 DEF PathsOf
  <2>5. \A a \in AllActions(p) : a.value # None /\ a.value.kind = "number" => a.value.plain
    BY <2>1 DEF Wider
  <2> QED BY <2>2, <2>3, <2>4, <2>5, ProfileRead
<1>3. ASSUME NEW i \in Range(e.files)
      PROVE  /\ PathReadable(i.path) /\ i.mime = MimeFor(i.path)
             /\ i.base64 /\ FileReadable(i.path, i.file)
             /\ i.path \in CollectImagePaths(e.profiles)
  <2>1. /\ SafeImagePath(i.path) /\ i.path \in CollectImageRefs(e.profiles)
        /\ i.base64 /\ i.file.bytes <= MaxImageBytes /\ ValidImageSignature(i)
    BY DEF ValidateBackup, ValidateImages
  <2>2. i.file \in ImageFiles
    BY DEF WellFormedEnvelope
  <2>3. i.file.decodes /\ i.file.megapixels <= 16
    BY <2>2 DEF Wider, ImageFiles
  <2>4. Plain(i.path)
    BY <1>1 DEF PathsOf
  <2> QED BY <2>1, <2>2, <2>3, <2>4, ImageRead, SamePaths
<1>4. \A p \in Range(e.profiles) : ProfileReadable(p)
  BY <1>2 DEF Range
<1>5. e.preferences # None => PreferencesReadable(e.preferences)
  BY DEF ValidateBackup, ValidatePreferences, PreferencesReadable
<1>6. /\ Len(e.files) <= 244 /\ (~e.images => e.files = << >>)
      /\ Distinct([i \in DOMAIN e.files |-> e.files[i].path])
  BY DEF ValidateBackup, ValidateImages
<1> QED BY <1>3, <1>4, <1>5, <1>6 DEF Readable, ValidateBackup

(* The phone reads nothing that has one of those differences.               *)
LEMMA ReadNotWider ==
    ASSUME NEW e, WellFormedEnvelope(e), Readable(e)
    PROVE  ~Wider(e)
<1>1. ASSUME NEW q \in PathsOf(e)
      PROVE  PathReadable(q)
  <2>1. CASE q \in {i.path : i \in Range(e.files)}
    BY <2>1 DEF Readable
  <2>2. CASE q \in CollectImagePaths(e.profiles)
    <3>1. PICK p \in Range(e.profiles) :
             \E v \in VisualsOf(p) : v.type = "customImage" /\ v.value # None /\ q = v.value
      BY <2>2 DEF CollectImagePaths
    <3>2. \A v \in VisualsOf(p) : VisualReadable(v)
      BY DEF Readable, ProfileReadable
    <3> QED BY <3>1, <3>2 DEF VisualReadable
  <2> QED BY <2>1, <2>2 DEF PathsOf
<1>2. ASSUME NEW q \in PathsOf(e)
      PROVE  Plain(q)
  BY <1>1 DEF PathReadable, Plain
<1>3. ASSUME NEW p \in Range(e.profiles), NEW a \in AllActions(p),
             a.value # None, a.value.kind = "number"
      PROVE  a.value.plain
  <2>1. ActionReadable(a)
    BY DEF Readable, ProfileReadable, AllActions, Range
  <2> QED BY <1>3, <2>1, ActionNumber
<1>4. ASSUME NEW i \in Range(e.files)
      PROVE  i.file.decodes /\ ~(i.file.megapixels > 16)
  BY DEF Readable, FileReadable, WellFormedEnvelope, ImageFiles
<1> QED BY <1>2, <1>3, <1>4, PathsWellFormed, PathIsPlain DEF Wider

(* SetToSeq lists every element of a finite set once.                       *)
LEMMA Enumerated ==
    ASSUME NEW S, IsFiniteSet(S)
    PROVE  /\ SetToSeq(S) \in [1..Cardinality(S) -> S]
           /\ IsInjective(SetToSeq(S)) /\ Range(SetToSeq(S)) = S
<1> DEFINE n == Cardinality(S)
           s == SetToSeq(S)
<1>1. n \in Nat /\ ExistsBijection(1..n, S)
  BY FS_CardinalityType
<1>2. \E f \in [1..n -> S] : IsInjective(f)
  BY <1>1 DEF ExistsBijection, Bijection, Injection
<1>3. s \in [1..n -> S] /\ IsInjective(s)
  BY <1>2 DEF SetToSeq
<1>4. s \in Injection(1..n, S)
  BY <1>3 DEF Injection
<1>5. Cardinality(1..n) = n
  BY <1>1, FS_Interval
<1>6. s \in Surjection(1..n, S)
  BY <1>4, <1>5, FS_Injection
<1>7. Range(s) = S
  BY <1>3, <1>6 DEF Surjection, Range
<1> QED BY <1>3, <1>7

(* Normalising keeps files files and their paths distinct.                  *)
LEMMA NormalFiles ==
    ASSUME NEW d, WellFormedDraft(d)
    PROVE  /\ IsFiniteSet(NormalizedFiles(d))
           /\ NormalizedFiles(d) \subseteq [path : ImagePaths, file : ImageFiles]
           /\ \A f, g \in NormalizedFiles(d) : f.path = g.path => f = g
<1> DEFINE N(f) == [f EXCEPT !.path = Normalized(@)]
           h == [f \in d.files |-> N(f)]
<1>1. h \in Surjection(d.files, NormalizedFiles(d))
  BY DEF Surjection, NormalizedFiles
<1>2. IsFiniteSet(NormalizedFiles(d))
  BY <1>1, FS_Surjection DEF WellFormedDraft
<1>3. ASSUME NEW p \in ImagePaths
      PROVE  Normalized(p) \in ImagePaths
  BY DEF ImagePaths, Normalized
<1>4. ASSUME NEW f \in d.files
      PROVE  N(f) \in [path : ImagePaths, file : ImageFiles] /\ N(f).path = Normalized(f.path)
  <2>1. f \in [path : ImagePaths, file : ImageFiles]
    BY DEF WellFormedDraft
  <2> QED BY <2>1, <1>3
<1>5. NormalizedFiles(d) \subseteq [path : ImagePaths, file : ImageFiles]
  BY <1>4 DEF NormalizedFiles
<1>6. ASSUME NEW f \in d.files, NEW g \in d.files, N(f).path = N(g).path
      PROVE  N(f) = N(g)
  <2>1. f.file = g.file
    BY <1>4, <1>6 DEF WellFormedDraft
  <2>2. /\ f \in [path : ImagePaths, file : ImageFiles]
        /\ g \in [path : ImagePaths, file : ImageFiles]
    BY DEF WellFormedDraft
  <2> QED BY <1>6, <2>1, <2>2
<1> QED BY <1>2, <1>5, <1>6 DEF NormalizedFiles

(* The images of an encoded backup are those referred to, once each.        *)
LEMMA SentFiles ==
    ASSUME NEW d, WellFormedDraft(d), d.images
    PROVE  LET files == SetToSeq(ReferencedFiles(d))
               sent == Encode(d).files
           IN  /\ IsFiniteSet(ReferencedFiles(d))
               /\ files \in [1..Cardinality(ReferencedFiles(d)) -> ReferencedFiles(d)]
               /\ IsInjective(files) /\ Range(files) = ReferencedFiles(d)
               /\ sent = [i \in DOMAIN files |-> EncodedImage(files[i])]
<1>1. IsFiniteSet(ReferencedFiles(d))
  BY NormalFiles, FS_Subset DEF ReferencedFiles
<1> QED BY <1>1, Enumerated DEF Encode

(* The same for the set of these images.                                    *)
LEMMA SentFilesRange ==
    ASSUME NEW d, WellFormedDraft(d)
    PROVE  Range(Encode(d).files) =
               IF d.images THEN {EncodedImage(f) : f \in ReferencedFiles(d)} ELSE {}
<1>1. CASE d.images
  <2> DEFINE files == SetToSeq(ReferencedFiles(d))
  <2>1. Encode(d).files = [i \in DOMAIN files |-> EncodedImage(files[i])]
    BY <1>1 DEF Encode
  <2>2. Range(files) = ReferencedFiles(d)
    BY <1>1, SentFiles
  <2> HIDE DEF files
  <2>3. Range([i \in DOMAIN files |-> EncodedImage(files[i])])
            = {EncodedImage(f) : f \in Range(files)}
    BY DEF Range
  <2> QED BY <1>1, <2>1, <2>2, <2>3
<1>2. CASE ~d.images
  <2>1. Encode(d).files = << >>
    BY <1>2 DEF Encode
  <2> QED BY <1>2, <2>1 DEF Range
<1> QED BY <1>1, <1>2

(* A selected profile has the id that was selected.                         *)
LEMMA Selected ==
    ASSUME NEW d, WellFormedDraft(d), Encodable(d), NEW i \in DOMAIN d.ids
    PROVE  /\ SelectedProfiles(d)[i].id = d.ids[i]
           /\ "buttons" \in DOMAIN SelectedProfiles(d)[i]
<1> DEFINE p == CHOOSE q \in Range(d.profiles) : q.id = d.ids[i]
<1>1. \E q \in Range(d.profiles) : q.id = d.ids[i]
  BY DEF Encodable, Range
<1>2. p \in Range(d.profiles) /\ p.id = d.ids[i]
  BY <1>1
<1>3. SelectedProfiles(d)[i] = NormalizeImagePaths(p)
  BY DEF SelectedProfiles
<1>4. DOMAIN p = {"id", "name", "targetApplication", "profileIcon", "buttons", "wheel"}
  BY <1>2 DEF WellFormedDraft, WellFormedProfile
<1> HIDE DEF p
<1>5. NormalizeImagePaths(p).id = p.id /\ "buttons" \in DOMAIN NormalizeImagePaths(p)
  BY <1>4 DEF NormalizeImagePaths
<1> QED BY <1>2, <1>3, <1>5

(* The profiles of an encoded backup are in the order of the selection.     *)
LEMMA SelectedIds ==
    ASSUME NEW d, WellFormedDraft(d), Encodable(d)
    PROVE  LET profiles == Encode(d).profiles
           IN  [i \in DOMAIN profiles |-> profiles[i].id] = d.ids
<1> DEFINE profiles == SelectedProfiles(d)
<1>1. Encode(d).profiles = profiles
  BY DEF Encode
<1>2. DOMAIN profiles = DOMAIN d.ids
  BY DEF SelectedProfiles
<1>3. d.ids = [i \in DOMAIN d.ids |-> d.ids[i]]
  BY DEF WellFormedDraft
<1>4. \A i \in DOMAIN profiles : profiles[i].id = d.ids[i]
  BY <1>2, Selected
<1> HIDE DEF profiles
<1>5. [i \in DOMAIN profiles |-> profiles[i].id] = [i \in DOMAIN d.ids |-> d.ids[i]]
  BY <1>2, <1>4
<1> QED BY <1>1, <1>3, <1>5

(* The server takes strict JSON only.                                       *)
LEMMA ActionStrict ==
    ASSUME NEW a, ValidateAction(a), a.value # None, a.value.kind = "json"
    PROVE  a.value.strict
BY WordsAgree DEF ValidateAction, ValidMouseCoordinates

(* The server takes nothing that is beyond its limits.                      *)
LEMMA ValidNotBeyond ==
    ASSUME NEW e, WellFormedEnvelope(e), ValidateBackup(e)
    PROVE  ~BeyondServer(e)
<1>1. ASSUME NEW p \in Range(e.profiles)
      PROVE  /\ ~TextTooLong(p) /\ ~OutOfRange(p)
             /\ \A a \in AllActions(p) : a.value # None /\ a.value.kind = "json" => a.value.strict
  <2>1. ValidateProfile(p) /\ WellFormedProfile(p)
    BY DEF ValidateBackup, WellFormedEnvelope
  <2>2. ASSUME NEW b \in Range(p.buttons)
        PROVE  /\ ~(b.id > 128) /\ ~(b.label > 1024) /\ ~(b.subtitle > 1024)
               /\ b.textSize \in 1000..2400
    <3>1. /\ b.id <= 128 /\ b.label <= 1024 /\ b.subtitle <= 1024
          /\ b.textSize \in 1000..2400
      <4>1. \A i \in DOMAIN p.buttons : ValidateButton(p.buttons[i])
        BY <2>1, ProfileParts
      <4>2. ValidateButton(b)
        BY <4>1 DEF Range
      <4> QED BY <4>2, ButtonParts
    <3>2. b.id \in Nat /\ b.label \in Nat /\ b.subtitle \in Nat
      BY <2>1 DEF WellFormedProfile, WellFormedButton
    <3> QED BY <3>1, <3>2
  <2>3. p.id.len <= 128
    <3>1. PICK j \in DOMAIN e.profiles : p = e.profiles[j]
      BY DEF Range
    <3>2. [k \in DOMAIN e.profiles |-> e.profiles[k].id] = e.ids
      BY DEF ValidateBackup
    <3>3. j \in DOMAIN e.ids /\ e.ids[j] = p.id
      BY <3>1, <3>2
    <3>4. e.ids[j].len \in 1..128
      BY <3>3 DEF ValidateBackup
    <3> QED BY <3>3, <3>4
  <2>4. p.name <= 512 /\ p.targetApplication <= 512 /\ p.wheel.modeLabel <= 128
    BY <2>1, ProfileParts
  <2>5. {p.id.len, p.name, p.targetApplication, p.wheel.modeLabel} \subseteq Nat
    BY <2>1 DEF WellFormedProfile
  <2>6. ~TextTooLong(p)
    BY <2>2, <2>3, <2>4, <2>5 DEF TextTooLong
  <2>7. ~OutOfRange(p)
    <3>1. ASSUME NEW v, ValidateVisual(v)
          PROVE  ~OutOfSliders(v)
      BY <3>1 DEF OutOfSliders, ValidateVisual
    <3> QED BY <2>1, <2>2, <3>1, LooksValid DEF OutOfRange
  <2>8. ASSUME NEW a \in AllActions(p)
        PROVE  ValidateAction(a)
    BY <2>1, ProfileParts, ButtonParts DEF AllActions, Range
  <2> QED BY <2>6, <2>7, <2>8, ActionStrict
<1>2. ASSUME NEW i \in Range(e.files)
      PROVE  i.file.whole /\ ~(i.file.bytes < Shortest[i.file.kind])
  <2>1. ValidImageSignature(i)
    BY DEF ValidateBackup, ValidateImages
  <2>2. i.file.bytes \in Nat
    BY DEF WellFormedEnvelope, ImageFiles
  <2> QED BY <2>1, <2>2 DEF ValidImageSignature, Shortest
<1> QED BY <1>1, <1>2 DEF BeyondServer

(* The server takes what the phone encodes, within its limits.              *)
LEMMA EncodedTaken ==
    ASSUME NEW d, WellFormedDraft(d), Encodable(d), WellFormedEnvelope(Encode(d)),
           ~BeyondServer(Encode(d))
    PROVE  ValidateBackup(Encode(d))
<1> DEFINE e == Encode(d)
<1>1. /\ e.version = 1 /\ e.settings = d.settings /\ e.ids = d.ids /\ e.images = d.images
      /\ e.preferences = (IF d.settings THEN d.preferences ELSE None)
      /\ e.profiles = SelectedProfiles(d)
  BY DEF Encode
<1>2. [i \in DOMAIN e.profiles |-> e.profiles[i].id] = d.ids
  BY SelectedIds
<1>a. /\ \A p \in Range(e.profiles) : ProfileReadable(p)
      /\ \A q \in CollectImagePaths(e.profiles) : PathReadable(q)
      /\ d.images =>
            /\ Cardinality(NormalizedFiles(d)) <= 244
            /\ \A f \in Range(e.files) : FileReadable(f.path, f.file)
            /\ CollectImagePaths(e.profiles) = {f.path : f \in Range(e.files)}
  BY DEF Encodable
<1>b. /\ \A p \in Range(e.profiles) : WellFormedProfile(p)
      /\ \A i \in Range(e.files) : i.path \in ImagePaths /\ i.file \in ImageFiles
  BY DEF WellFormedEnvelope
<1>c. /\ \A p \in Range(e.profiles) :
           /\ ~TextTooLong(p) /\ ~OutOfRange(p)
           /\ \A a \in AllActions(p) : a.value # None /\ a.value.kind = "json" => a.value.strict
      /\ \A i \in Range(e.files) : i.file.whole /\ ~(i.file.bytes < Shortest[i.file.kind])
  BY DEF BeyondServer
<1>d. d.images =>
        LET files == SetToSeq(ReferencedFiles(d))
        IN  /\ IsFiniteSet(ReferencedFiles(d))
            /\ files \in [1..Cardinality(ReferencedFiles(d)) -> ReferencedFiles(d)]
            /\ IsInjective(files)
            /\ e.files = [i \in DOMAIN files |-> EncodedImage(files[i])]
  BY SentFiles
<1>e. ~d.images => e.files = << >>
  BY DEF Encode
<1>f. Range(e.files) = IF d.images THEN {EncodedImage(f) : f \in ReferencedFiles(d)} ELSE {}
  BY SentFilesRange
<1> HIDE DEF e
<1>3. \A p \in Range(e.profiles) : ValidateProfile(p)
  BY <1>a, <1>b, <1>c, ProfileTaken
<1>4. \A i \in DOMAIN e.ids : e.ids[i].len \in 1..128
  <2> SUFFICES ASSUME NEW i \in DOMAIN e.ids
               PROVE  e.ids[i].len \in 1..128
    OBVIOUS
  <2>1. i \in DOMAIN e.profiles /\ e.profiles[i].id = e.ids[i]
    BY <1>1, <1>2
  <2>2. e.profiles[i] \in Range(e.profiles)
    BY <2>1 DEF Range
  <2>3. e.profiles[i].id.len > 0
    BY <1>a, <2>2 DEF ProfileReadable
  <2>4. e.profiles[i].id.len \in Nat /\ ~(e.profiles[i].id.len > 128)
    BY <1>b, <1>c, <2>2 DEF WellFormedProfile, TextTooLong
  <2> QED BY <2>1, <2>3, <2>4
<1>5. e.preferences # None => ValidatePreferences(e.preferences)
  BY <1>1 DEF WellFormedDraft, PreferencesReadable, ValidatePreferences
<1>6. ASSUME NEW i \in Range(e.files)
      PROVE  /\ SafeImagePath(i.path) /\ i.path \in CollectImageRefs(e.profiles)
             /\ i.base64 /\ i.file.bytes <= MaxImageBytes /\ ValidImageSignature(i)
  <2>1. d.images
    BY <1>f
  <2>2. PICK f \in ReferencedFiles(d) : i = EncodedImage(f)
    BY <1>f, <2>1
  <2>3. /\ i.path = f.path /\ i.mime = MimeFor(i.path) /\ i.base64 /\ i.file = f.file
    BY <2>2 DEF EncodedImage
  <2>4. i.path \in CollectImagePaths(e.profiles) /\ PathReadable(i.path)
    BY <1>a, <2>1
  <2>5. \A c \in PathComponents : ReadableComponent(c) => SafeComponent(c)
    BY DEF PathComponents, ReadableComponent, SafeComponent
  <2>6. SafeImagePath(i.path)
    BY <1>b, <2>4, <2>5 DEF ImagePaths, PathReadable, SafeImagePath
  <2>7. FileReadable(i.path, i.file)
    BY <1>a, <2>1
  <2>8. i.file.bytes \in Nat /\ i.file.bytes <= MaxImageBytes
    BY <1>b, <2>7 DEF FileReadable, ImageFiles
  <2>9. i.file.whole /\ ~(i.file.bytes < Shortest[i.file.kind])
    BY <1>c
  <2>10. i.path.ext \in Extensions /\ i.path.file.dots = 1
    BY <2>4 DEF PathReadable
  <2>11. i.file.kind = IF i.path.ext = "jpg" THEN "jpeg" ELSE i.path.ext
    BY <2>7 DEF FileReadable
  <2>12. ValidImageSignature(i)
    BY <2>3, <2>8, <2>9, <2>10, <2>11 DEF ValidImageSignature, MimeFor, Extensions, Shortest
  <2> QED BY <2>3, <2>4, <2>6, <2>8, <2>12, SamePaths
<1>7. Len(e.files) <= 244 /\ Distinct([i \in DOMAIN e.files |-> e.files[i].path])
  <2>1. CASE ~d.images
    BY <2>1, <1>e DEF Distinct
  <2>2. CASE d.images
    <3> DEFINE n == Cardinality(ReferencedFiles(d))
               files == SetToSeq(ReferencedFiles(d))
    <3>1. /\ IsFiniteSet(ReferencedFiles(d))
          /\ files \in [1..n -> ReferencedFiles(d)] /\ IsInjective(files)
          /\ e.files = [i \in DOMAIN files |-> EncodedImage(files[i])]
      BY <1>d, <2>2
    <3>2. ReferencedFiles(d) \subseteq NormalizedFiles(d)
      BY DEF ReferencedFiles
    <3>3. /\ n <= Cardinality(NormalizedFiles(d))
          /\ n \in Nat /\ Cardinality(NormalizedFiles(d)) \in Nat
      BY <3>1, <3>2, NormalFiles, FS_Subset, FS_CardinalityType
    <3> HIDE DEF files, n
    <3>4. \A i \in 1..n : e.files[i].path = files[i].path
      BY <3>1 DEF EncodedImage
    <3>5. DOMAIN e.files = 1..n
      BY <3>1
    <3>6. Len(e.files) = n
      BY <3>1, <3>3
    <3>7. \A i, j \in 1..n : e.files[i].path = e.files[j].path => i = j
      BY <3>1, <3>2, <3>4, NormalFiles DEF IsInjective
    <3>8. Distinct([i \in DOMAIN e.files |-> e.files[i].path])
      BY <3>5, <3>7 DEF Distinct
    <3> QED BY <1>a, <2>2, <3>3, <3>6, <3>8
  <2> QED BY <2>1, <2>2
<1>8. ValidateImages(e)
  BY <1>1, <1>e, <1>6, <1>7 DEF ValidateImages
<1>9. e.settings <=> e.preferences # None
  BY <1>1 DEF WellFormedDraft
<1>10. Len(e.ids) <= 4 /\ (e.settings \/ e.ids # << >>) /\ Distinct(e.ids)
  BY <1>1 DEF Encodable
<1>11. [i \in DOMAIN e.profiles |-> e.profiles[i].id] = e.ids
  BY <1>1, <1>2
<1>12. ValidateBackup(e)
  BY <1>1, <1>3, <1>4, <1>5, <1>8, <1>9, <1>10, <1>11 DEF ValidateBackup
<1> QED BY <1>12 DEF e

(* Max of a bounded set of naturals is its largest element.                 *)
LEMMA Largest ==
    ASSUME NEW S, NEW n \in Nat, S \subseteq 0..n, S # {}
    PROVE  Max(S) \in S /\ \A y \in S : Max(S) >= y
<1> DEFINE T == {n - x : x \in S}
<1>1. IsWellFoundedOn(OpToRel(<, Nat), Nat)
  BY NatLessThanWellFounded DEF OpToRel
<1>2. T \subseteq Nat /\ \E x : x \in T
  <2>1. \A x \in S : n - x \in Nat
    OBVIOUS
  <2>2. PICK x \in S : TRUE
    OBVIOUS
  <2> QED BY <2>1, <2>2
<1>3. PICK t \in T : \A y \in T : <<y, t>> \notin OpToRel(<, Nat)
  BY <1>1, <1>2, WFMin, Zenon
<1>4. \A y \in T : ~(y < t)
  BY <1>2, <1>3 DEF OpToRel
<1>5. PICK x \in S : t = n - x
  BY <1>3
<1>6. \A y \in S : x >= y
  BY <1>4, <1>5
<1> QED BY <1>6 DEF Max

(* Decoding puts every button at its position and adds none.                *)
LEMMA ButtonsKept ==
    ASSUME NEW buttons, buttons \in Seq(Range(buttons)), None \notin Range(buttons),
           Distinct([i \in DOMAIN buttons |-> buttons[i].position]),
           \A i \in DOMAIN buttons : buttons[i].position \in 0..59
    PROVE  LET got == ButtonsFromJson(buttons)
           IN  /\ \A b \in Range(buttons) : b.position \in DOMAIN got /\ got[b.position] = b
               /\ Cardinality({q \in DOMAIN got : got[q] # None}) = Len(buttons)
<1> DEFINE positions == {b.position : b \in Range(buttons)}
           last == Max(positions \cup {14})
           got == ButtonsFromJson(buttons)
<1>1. DOMAIN buttons = 1..Len(buttons) /\ Len(buttons) \in Nat
  OBVIOUS
<1>2. \A b \in Range(buttons) : b.position \in 0..59
  BY DEF Range
<1>3. positions \subseteq 0..59
  BY <1>2
<1> HIDE DEF positions
<1>4. last \in 0..59 /\ \A y \in positions : last >= y
  <2>1. positions \cup {14} \subseteq 0..59 /\ positions \cup {14} # {}
    BY <1>3
  <2> QED BY <2>1, Largest, 59 \in Nat
<1>5. got = [q \in 0..last |-> IF q \in positions
                               THEN CHOOSE b \in Range(buttons) : b.position = q ELSE None]
  BY DEF ButtonsFromJson, positions
<1>6. ASSUME NEW b \in Range(buttons), NEW c \in Range(buttons), b.position = c.position
      PROVE  b = c
  <2>1. PICK i \in DOMAIN buttons, j \in DOMAIN buttons : b = buttons[i] /\ c = buttons[j]
    BY DEF Range
  <2> QED BY <1>6, <2>1 DEF Distinct
<1> HIDE DEF last, got
<1>7. positions \subseteq 0..last
  <2> SUFFICES ASSUME NEW y \in positions
               PROVE  y \in 0..last
    OBVIOUS
  <2> QED BY <1>3, <1>4
<1>a. positions = {b.position : b \in Range(buttons)}
  BY DEF positions
<1>8. ASSUME NEW b \in Range(buttons)
      PROVE  b.position \in DOMAIN got /\ got[b.position] = b
  <2>1. b.position \in positions
    BY <1>a
  <2>2. got[b.position] = CHOOSE c \in Range(buttons) : c.position = b.position
    BY <1>5, <1>7, <2>1
  <2>3. (CHOOSE c \in Range(buttons) : c.position = b.position) = b
    BY <1>6
  <2> QED BY <1>5, <1>7, <2>1, <2>2, <2>3
<1>9. {q \in DOMAIN got : got[q] # None} = positions
  <2>1. ASSUME NEW q \in positions
        PROVE  q \in DOMAIN got /\ got[q] # None
    BY <1>8, <1>a
  <2>2. ASSUME NEW q \in DOMAIN got, q \notin positions
        PROVE  got[q] = None
    BY <1>5, <2>2
  <2> QED BY <2>1, <2>2
<1>10. Cardinality(positions) = Len(buttons)
  <2> DEFINE f == [i \in 1..Len(buttons) |-> buttons[i].position]
  <2>1. f \in Bijection(1..Len(buttons), positions)
    <3>1. f \in Injection(1..Len(buttons), positions)
      BY <1>1, <1>a DEF Injection, IsInjective, Distinct, Range
    <3>2. f \in Surjection(1..Len(buttons), positions)
      BY <1>1, <1>a, <3>1 DEF Surjection, Injection, Range
    <3> QED BY <3>1, <3>2 DEF Bijection
  <2>2. ExistsBijection(1..Len(buttons), positions)
    BY <2>1 DEF ExistsBijection
  <2> QED BY <1>1, <2>2, FS_CountingElements
<1> QED BY <1>8, <1>9, <1>10 DEF got

(* The phone reads an encoded backup that the server takes.                 *)
LEMMA EncodedReadable ==
    ASSUME NEW d, WellFormedDraft(d), Encodable(d), WellFormedEnvelope(Encode(d)),
           ValidateBackup(Encode(d))
    PROVE  Readable(Encode(d))
<1> DEFINE e == Encode(d)
<1>1. /\ \A p \in Range(e.profiles) : ProfileReadable(p)
      /\ \A q \in CollectImagePaths(e.profiles) : PathReadable(q)
      /\ d.images => \A f \in Range(e.files) : FileReadable(f.path, f.file)
      /\ BodyBytes(e) <= MaxBackupBody
  BY DEF Encodable
<1>2. Range(e.files) = IF d.images THEN {EncodedImage(f) : f \in ReferencedFiles(d)} ELSE {}
  BY SentFilesRange
<1> HIDE DEF e
<1>3. ASSUME NEW i \in Range(e.files)
      PROVE  /\ PathReadable(i.path) /\ i.mime = MimeFor(i.path)
             /\ i.base64 /\ FileReadable(i.path, i.file)
             /\ i.path \in CollectImagePaths(e.profiles)
  <2>1. d.images /\ \E f : i = EncodedImage(f)
    BY <1>2
  <2>2. i.path \in CollectImagePaths(e.profiles)
    BY SamePaths DEF e, ValidateBackup, ValidateImages
  <2> QED BY <1>1, <2>1, <2>2 DEF EncodedImage
<1>4. e.preferences # None => PreferencesReadable(e.preferences)
  BY DEF e, ValidateBackup, ValidatePreferences, PreferencesReadable
<1>5. /\ Len(e.files) <= 244 /\ (~e.images => e.files = << >>)
      /\ Distinct([i \in DOMAIN e.files |-> e.files[i].path])
  BY DEF e, ValidateBackup, ValidateImages
<1>6. /\ e.version = 1 /\ Len(e.ids) <= 4 /\ Distinct(e.ids) /\ (e.settings \/ e.ids # << >>)
      /\ e.settings <=> e.preferences # None
      /\ [i \in DOMAIN e.profiles |-> e.profiles[i].id] = e.ids
  BY DEF e, ValidateBackup
<1>7. Readable(e)
  BY <1>1, <1>3, <1>4, <1>5, <1>6 DEF Readable
<1> QED BY <1>7 DEF e

(* A profile is decoded as it was selected.                                 *)
LEMMA ProfileComesBack ==
    ASSUME NEW d, WellFormedDraft(d), Encodable(d), WellFormedEnvelope(Encode(d)),
           NEW i \in DOMAIN d.ids
    PROVE  SameProfile(SelectedProfiles(d)[i], Decoded(Encode(d)).profiles[i])
<1> DEFINE p == SelectedProfiles(d)[i]
           q == Decoded(Encode(d)).profiles[i]
<1>1. i \in DOMAIN SelectedProfiles(d) /\ Encode(d).profiles = SelectedProfiles(d)
  BY DEF SelectedProfiles, Encode
<1>2. q = [p EXCEPT !.buttons = ButtonsFromJson(@)]
  BY <1>1 DEF Decoded
<1>3. "buttons" \in DOMAIN p
  BY Selected
<1>4. p \in Range(Encode(d).profiles)
  BY <1>1 DEF Range
<1>5. WellFormedProfile(p) /\ ProfileReadable(p)
  BY <1>4 DEF WellFormedEnvelope, Encodable
<1> HIDE DEF p, q
<1>6. q.buttons = ButtonsFromJson(p.buttons)
  BY <1>2, <1>3
<1>7. [p EXCEPT !.buttons = << >>] = [q EXCEPT !.buttons = << >>]
  BY <1>2
<1>8. None \notin Range(p.buttons)
  BY <1>5 DEF WellFormedProfile, WellFormedButton
<1>a. /\ p.buttons \in Seq(Range(p.buttons))
      /\ Distinct([j \in DOMAIN p.buttons |-> p.buttons[j].position])
      /\ \A j \in DOMAIN p.buttons : p.buttons[j].position \in 0..59
  BY <1>5 DEF WellFormedProfile, ProfileReadable
<1>9. /\ \A b \in Range(p.buttons) : b.position \in DOMAIN q.buttons /\ q.buttons[b.position] = b
      /\ Cardinality({j \in DOMAIN q.buttons : q.buttons[j] # None}) = Len(p.buttons)
  <2> DEFINE s == p.buttons
  <2>1. /\ s \in Seq(Range(s)) /\ None \notin Range(s)
        /\ Distinct([j \in DOMAIN s |-> s[j].position])
        /\ \A j \in DOMAIN s : s[j].position \in 0..59
    BY <1>8, <1>a
  <2> HIDE DEF s
  <2>2. LET kept == ButtonsFromJson(s)
        IN  /\ \A b \in Range(s) : b.position \in DOMAIN kept /\ kept[b.position] = b
            /\ Cardinality({j \in DOMAIN kept : kept[j] # None}) = Len(s)
    BY <2>1, ButtonsKept
  <2> QED BY <1>6, <2>2 DEF s
<1>10. SameProfile(p, q)
  BY <1>7, <1>9 DEF SameProfile
<1> QED BY <1>10 DEF p, q

(* A backup that a phone encoded and the server takes comes back.           *)
LEMMA EncodedComesBack ==
    ASSUME NEW body, NEW d, d = body.draft, WellFormedDraft(d), Encodable(d),
           body.envelope = Encode(d), WellFormedEnvelope(Encode(d)), ValidateBackup(Encode(d))
    PROVE  ComesBack(body)
<1> DEFINE e == Encode(d)
           got == Decoded(e)
<1>1. /\ e.settings = d.settings /\ e.ids = d.ids /\ e.images = d.images
      /\ e.preferences = (IF d.settings THEN d.preferences ELSE None)
  BY DEF Encode
<1>2. /\ got.settings = e.settings /\ got.ids = e.ids /\ got.images = e.images
      /\ got.preferences = e.preferences
      /\ got.files = {[path |-> i.path, file |-> i.file] : i \in Range(e.files)}
  BY DEF Decoded
<1>3. got.files = SharedFiles(d)
  <2>1. Range(e.files) = IF d.images THEN {EncodedImage(f) : f \in ReferencedFiles(d)} ELSE {}
    BY SentFilesRange
  <2>2. CASE d.images
    <3>1. Range(e.files) = {EncodedImage(f) : f \in ReferencedFiles(d)}
      BY <2>1, <2>2
    <3>2. SharedFiles(d) = {[path |-> f.path, file |-> f.file] : f \in ReferencedFiles(d)}
      BY <2>2 DEF SharedFiles, ReferencedFiles
    <3>3. \A f : EncodedImage(f).path = f.path /\ EncodedImage(f).file = f.file
      BY DEF EncodedImage
    <3> HIDE DEF e, got
    <3>4. got.files = {[path |-> EncodedImage(f).path, file |-> EncodedImage(f).file] :
                          f \in ReferencedFiles(d)}
      BY <1>2, <3>1
    <3> QED BY <3>2, <3>3, <3>4
  <2>3. CASE ~d.images
    BY <1>2, <2>1, <2>3 DEF SharedFiles
  <2> QED BY <2>2, <2>3
<1>4. Readable(e)
  BY EncodedReadable
<1>5. \A i \in DOMAIN d.ids : SameProfile(SelectedProfiles(d)[i], got.profiles[i])
  BY ProfileComesBack
<1> HIDE DEF e, got
<1>6. body.envelope = e /\ got = Decoded(e)
  BY DEF e, got
<1> QED BY <1>1, <1>2, <1>3, <1>4, <1>5, <1>6 DEF ComesBack

-----------------------------------------------------------------------------
(* What is stored.                                                          *)

Storable == Valid \cap Small

(* Nothing is stored, sent to the database or read from it that the limit   *)
(* and the validation have not let through, whatever requests and           *)
(* statements cross (put).                                                  *)
OnlyValid ==
    /\ \A a \in Accounts : rows[a] \in Storable \cup {None}
    /\ \A r \in Requests :
          /\ pc[r] = "decode" => value[r] \in Small
          /\ pc[r] \in {"query", "done"} => value[r] \in Storable \cup {None}
    /\ \A s \in late : s.value \in Storable \cup {None}

(* Each action keeps this.                                                  *)
LEMMA ValidStep ==
    ASSUME TypeInv, OnlyValid, [Next]_vars
    PROVE  OnlyValid'
<1>1. ASSUME NEW r \in Requests, Busy(r)
      PROVE  OnlyValid'
  BY <1>1 DEF Busy, requestVars, OnlyValid
<1>2. ASSUME NEW r \in Requests, NEW a \in Accounts, NEW m \in {"GET", "DELETE"},
             BeginQuery(r, a, m)
      PROVE  OnlyValid'
  BY <1>2 DEF BeginQuery, Enter, OnlyValid, TypeInv
<1>3. ASSUME NEW r \in Requests, NEW a \in Accounts, NEW b \in BodyIds, BeginPut(r, a, b)
      PROVE  OnlyValid'
  BY <1>3 DEF BeginPut, Enter, OnlyValid, TypeInv
<1>4. ASSUME NEW r \in Requests, Step(r)
      PROVE  OnlyValid'
  <2>1. ASSUME Forget(r), UNCHANGED rows, Orphan(r)
        PROVE  OnlyValid'
    BY <2>1 DEF Forget, Orphan, OnlyValid, TypeInv
  <2>2. CASE Uploaded(r)
    BY <2>1, <2>2 DEF Uploaded, Refuse, Release, Orphan, OnlyValid, TypeInv, requestVars
  <2>3. CASE Validated(r)
    BY <2>1, <2>3 DEF Validated, Refuse, Release, Orphan, OnlyValid, TypeInv, requestVars,
                      Storable
  <2>4. CASE Execute(r)
    BY <2>4 DEF Execute, Upsert, OnlyValid, TypeInv
  <2>5. CASE Failed(r) \/ Answer(r) \/ Drop(r)
    BY <2>1, <2>5 DEF Failed, Answer, Drop, Release, Orphan
  <2> QED BY <1>4, <2>2, <2>3, <2>4, <2>5 DEF Step
<1>5. ASSUME NEW s \in late, ExecuteLate(s)
      PROVE  OnlyValid'
  BY <1>5 DEF ExecuteLate, Upsert, OnlyValid, TypeInv, requestVars
<1>6. CASE UNCHANGED vars
  BY <1>6 DEF vars, requestVars, OnlyValid
<1> QED BY <1>1, <1>2, <1>3, <1>4, <1>5, <1>6 DEF Next

-----------------------------------------------------------------------------
(* The theorems.                                                            *)

IInv == TypeInv /\ PermitInv /\ HistoryInv /\ OnlyValid

(* A server that has just started, with no backup and every permit.         *)
LEMMA Initially == Init => IInv
<1> SUFFICES ASSUME Init
             PROVE  IInv
  OBVIOUS
<1>1. TypeInv
  BY BackupsAssumption DEF Init, TypeInv, Steps, Methods, Values
<1>2. Holders = {}
  BY DEF Init, Holders
<1>3. PermitInv
  BY <1>2, FS_EmptySet, BackupsAssumption DEF Init, PermitInv, PermitsMatch
<1>4. HistoryInv
  BY DEF Init, HistoryInv, RowsExpected, SentExpected, LateExpected, SentRivals, LateRivals,
         Written, ReadsKnow, ReadsLatest, Sent, Writes
<1>5. OnlyValid
  BY DEF Init, OnlyValid
<1> QED BY <1>1, <1>3, <1>4, <1>5 DEF IInv

(* The invariant that the theorems rest on, for any sets of accounts,       *)
(* requests and bodies (guard, put, get, delete).                           *)
THEOREM Invariance == Spec => []IInv
<1>1. IInv /\ [Next]_vars => IInv'
  BY PermitStep, TypeStep, HistoryStep, ValidStep DEF IInv
<1> QED BY <1>1, Initially, PTL DEF Spec

(* The type invariant of AccountBackups holds.                              *)
THEOREM TypeCorrect == Spec => []TypeOK
<1>1. IInv => TypeOK
  BY DEF IInv, TypeInv, PermitInv, TypeOK, Steps, Methods
<1> QED BY <1>1, Invariance, PTL

(* The permits that are out are those of the requests in progress (guard).  *)
THEOREM PermitsAreHeld == Spec => []PermitsMatch
<1>1. IInv => PermitsMatch
  BY DEF IInv, PermitInv
<1> QED BY <1>1, Invariance, PTL

(* A GET returns the last acknowledged value or one that was in progress    *)
(* beside it (get, put, delete).                                            *)
THEOREM ReadsAreCurrent == Spec => []ReadsLatest
<1>1. IInv => ReadsLatest
  BY DEF IInv, HistoryInv
<1> QED BY <1>1, Invariance, PTL

(* No body is stored, or read back, that validate_backup refuses, whatever   *)
(* requests are dropped and whatever statements are late (put).             *)
THEOREM StoredIsValid == Spec => []OnlyValid
<1>1. IInv => OnlyValid
  BY DEF IInv
<1> QED BY <1>1, Invariance, PTL

(* A backup that a phone made and the server keeps decodes to the settings, *)
(* profiles, buttons at their positions, and images that were selected, for *)
(* any configuration and any image files (AccountBackupCodec.decode).       *)
THEOREM PhoneBackupsReturn == Spec => []PhoneBackupsComeBack
<1>1. ASSUME OnlyValid, NEW a \in Accounts, rows[a] # None, rows[a] \in FromPhone
      PROVE  rows[a] \in Returning
  <2> DEFINE b == rows[a]
  <2>1. b \in BodyIds /\ b \in Valid
    BY <1>1 DEF OnlyValid, Storable, Valid, BodiesWith, BodyIds
  <2> HIDE DEF b
  <2>2. Bodies[b].draft # None /\ ValidateBackup(Bodies[b].envelope)
    BY <1>1, <2>1, Lists DEF b
  <2>3. /\ WellFormedEnvelope(Bodies[b].envelope)
        /\ WellFormedDraft(Bodies[b].draft) /\ Encodable(Bodies[b].draft)
        /\ Bodies[b].envelope = Encode(Bodies[b].draft)
    BY <2>1, <2>2, BodiesAssumption
  <2>4. ComesBack(Bodies[b])
    BY <2>2, <2>3, EncodedComesBack
  <2> QED BY <2>1, <2>2, <2>4, Lists DEF b
<1>2. IInv => PhoneBackupsComeBack
  BY <1>1 DEF IInv, PhoneBackupsComeBack
<1> QED BY <1>2, Invariance, PTL

(* The phone can read what the server keeps, whoever sent it, except for    *)
(* the listed differences, and for those it cannot (validate_backup,        *)
(* AccountBackupCodec.decode).                                              *)
THEOREM StoredReadable == Spec => []StoredIsReadable
<1>1. ASSUME OnlyValid, NEW a \in Accounts, rows[a] # None
      PROVE  rows[a] \in Restorable
  <2> DEFINE b == rows[a]
  <2>1. b \in BodyIds /\ b \in Valid /\ b \in Small
    BY <1>1 DEF OnlyValid, Storable, Valid, BodiesWith, BodyIds
  <2> HIDE DEF b
  <2>2. ValidateBackup(Bodies[b].envelope) /\ BodyBytes(Bodies[b].envelope) <= MaxBackupBody
    BY <2>1, Lists
  <2>3. WellFormedEnvelope(Bodies[b].envelope)
    BY <2>1, BodiesAssumption
  <2>4. Readable(Bodies[b].envelope) <=> ~Wider(Bodies[b].envelope)
    BY <2>2, <2>3, StoredRead, ReadNotWider
  <2> QED BY <2>1, <2>4, Lists DEF b
<1>2. IInv => StoredIsReadable
  BY <1>1 DEF IInv, StoredIsReadable
<1> QED BY <1>2, Invariance, PTL

(* The server refuses nothing that the phone encodes, except for the listed *)
(* differences, and takes nothing that has one of them (put,                *)
(* AccountBackupCodec.encode).                                              *)
THEOREM PhoneBackupsTaken == Spec => PhoneBackupsAreTaken
<1>1. ASSUME NEW b \in FromPhone
      PROVE  /\ b \in BodyIds /\ b \in Small
             /\ b \notin Valid => b \in Beyond
             /\ b \in Valid => b \notin Beyond
  <2>1. b \in BodyIds
    BY DEF FromPhone, BodiesWith, BodyIds
  <2>2. Bodies[b].draft # None
    BY <2>1, Lists
  <2>3. /\ WellFormedEnvelope(Bodies[b].envelope) /\ ~Bodies[b].malformed
        /\ WellFormedDraft(Bodies[b].draft) /\ Encodable(Bodies[b].draft)
        /\ Bodies[b].envelope = Encode(Bodies[b].draft)
    BY <2>1, <2>2, BodiesAssumption
  <2>4. BodyBytes(Bodies[b].envelope) <= MaxBackupBody
    BY <2>3 DEF Encodable
  <2>5. ValidateBackup(Bodies[b].envelope) <=> ~BeyondServer(Bodies[b].envelope)
    BY <2>3, EncodedTaken, ValidNotBeyond
  <2> QED BY <2>1, <2>3, <2>4, <2>5, Lists
<1> DEFINE Own(r) ==
        /\ pc[r] = "upload" /\ pc'[r] # "upload" /\ value[r] \in FromPhone
              => reply' # "too_large"
        /\ pc[r] = "decode" /\ pc'[r] # "decode" /\ reply' # None /\ value[r] \in FromPhone
              => value[r] \in Beyond
        /\ pc[r] = "decode" /\ pc'[r] = "query" /\ value[r] \in FromPhone
              => value[r] \notin Beyond
<1>2. ASSUME TypeInv, [Next]_vars, NEW r \in Requests
      PROVE  Own(r)
  <2>1. ASSUME NEW q \in Requests, Step(q)
        PROVE  Own(r)
    <3>1. CASE q # r
      <4>1. pc'[r] = pc[r]
        BY <1>2, <2>1, <3>1 DEF Step, Uploaded, Validated, Execute, Failed, Answer, Drop,
                                Refuse, Release, Forget, TypeInv
      <4> QED BY <4>1
    <3>2. CASE Uploaded(r)
      <4>1. pc[r] = "upload" /\ (value[r] \in Small => reply' = None)
        BY <3>2 DEF Uploaded, Refuse
      <4> QED BY <4>1, <1>1, BackupsAssumption DEF Replies
    <3>3. CASE Validated(r)
      BY <3>3, <1>1, <1>2 DEF Validated, Refuse, Release, Forget, TypeInv
    <3>4. CASE Execute(r) \/ Failed(r) \/ Answer(r)
      BY <3>4 DEF Execute, Failed, Answer
    <3>5. CASE Drop(r)
      <4>1. reply' = None /\ pc'[r] = "idle"
        BY <1>2, <3>5 DEF Drop, Release, Forget, TypeInv
      <4> QED BY <4>1, BackupsAssumption DEF Replies
    <3> QED BY <2>1, <3>1, <3>2, <3>3, <3>4, <3>5 DEF Step
  <2>2. ASSUME pc'[r] = pc[r] \/ pc[r] = "idle"
        PROVE  Own(r)
    BY <2>2
  <2>3. ASSUME NEW q \in Requests, Busy(q) PROVE Own(r)
    BY <2>3, <2>2 DEF Busy
  <2>4. ASSUME NEW q \in Requests, NEW a \in Accounts, NEW m \in {"GET", "DELETE"},
               BeginQuery(q, a, m)
        PROVE  Own(r)
    BY <1>2, <2>2, <2>4 DEF BeginQuery, Enter, TypeInv
  <2>5. ASSUME NEW q \in Requests, NEW a \in Accounts, NEW b \in BodyIds, BeginPut(q, a, b)
        PROVE  Own(r)
    BY <1>2, <2>2, <2>5 DEF BeginPut, Enter, TypeInv
  <2>6. ASSUME NEW s \in late, ExecuteLate(s)
        PROVE  Own(r)
    BY <2>2, <2>6 DEF ExecuteLate
  <2>7. CASE UNCHANGED vars
    BY <2>2, <2>7 DEF vars
  <2> QED BY <1>2, <2>1, <2>3, <2>4, <2>5, <2>6, <2>7 DEF Next
<1>3. IInv /\ [Next]_vars => [\A r \in Requests : Own(r)]_vars
  BY <1>2 DEF IInv
<1> QED BY <1>3, Invariance, PTL DEF Spec, PhoneBackupsAreTaken
=============================================================================
