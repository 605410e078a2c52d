------------------------- MODULE CommunityProofs -------------------------
(***************************************************************************)
(* Proofs about the two modules that put CommunityServer to use, for any   *)
(* connections, batches, tokens, categories and periods.                   *)
(*                                                                         *)
(* CommunityTx: transactions that lock row by row implement the atomic     *)
(* functions, so what is proved about those holds of the database too, no  *)
(* group of connections deadlocks, and no withdrawal finds a row short.    *)
(*                                                                         *)
(* CommunitySharing, with one dashboard: every click is counted at most    *)
(* once whatever requests and answers are lost, the rows the dashboard     *)
(* shows never exceed the clicks, a batch that was reported as settled is  *)
(* not sent again, and the receipt of a live batch is kept.                *)
(***************************************************************************)
EXTENDS CommunityTx, CommunitySharing, CommunityServerProofs

-----------------------------------------------------------------------------
(* Transactions.                                                           *)

Keys == {BatchKey(b) : b \in Batches} \cup {RowKey(r) : r \in AggRows}

(* What a transaction is while it runs.                                    *)
Busy == [pc      : {"insert", "lookup", "find", "update", "commit"},
         op      : {"submit", "withdraw"},
         batch   : Batches,
         token   : Tokens,
         payload : Payloads \cup {Null},
         day     : Days \cup {Null},
         todo    : SUBSET AggRows,
         held    : SUBSET Keys,
         status  : {"none", "created", "duplicate", "conflict", "withdrawn",
                    "not_found", "forbidden", "already_withdrawn"}]

TxTypeOK == tx \in [Conns -> {Idle} \cup Busy]

LocksExclusive ==
    \A c, d \in Conns : c # d => tx[c].held \cap tx[d].held = {}

-----------------------------------------------------------------------------
(* What a transaction knows of the committed tables, by what it is doing.  *)

(* The body it adds is a valid one, received no later than today.          *)
Submission(t) ==
    /\ t.op = "submit"
    /\ t.payload \in Payloads
    /\ t.day \in Days
    /\ t.day <= today

(* It holds the batch and nobody else has stored it.                       *)
Creating(t) ==
    /\ Submission(t)
    /\ t.status = "created"
    /\ ~Exists(t.batch)
    /\ BatchKey(t.batch) \in t.held

(* It holds the live batch it takes out, and every row it has been through *)
(* is held and still large enough.                                         *)
Withdrawing(t) ==
    /\ t.op = "withdraw"
    /\ t.status = "withdrawn"
    /\ WithdrawApplies(t.batch, t.token)
    /\ t.payload = Taken(t.batch)
    /\ t.day = batches[t.batch].day
    /\ BatchKey(t.batch) \in t.held
    /\ \A r \in RowsOf(t.payload, t.day) \ t.todo :
          /\ RowKey(r) \in t.held
          /\ RowCovers(r.scope, r.shortcut, t.payload.items[r.shortcut])

(* It holds the batch that settled its answer.                             *)
Settled(t) ==
    /\ Exists(t.batch)
    /\ BatchKey(t.batch) \in t.held
    /\ \/ /\ Submission(t)
          /\ t.status = StoredStatus(t.batch, t.token, t.payload)
       \/ /\ t.op = "withdraw"
          /\ ~WithdrawApplies(t.batch, t.token)
          /\ t.status = RefusedStatus(t.batch, t.token)

(* The order in which both loops visit the rows of a batch.                *)
Rank(r) == 8 * r.shortcut + TableIndex(r.scope)

(* What is left to do comes after every row it holds.                      *)
InOrder(t) ==
    /\ t.todo \subseteq RowsOf(t.payload, t.day)
    /\ \A r \in AggRows, q \in t.todo : RowKey(r) \in t.held => Rank(r) < Rank(q)

Local(t) ==
    /\ t.pc \in {"idle", "insert", "lookup", "find"} => t.held = {}
    /\ t.pc \in {"insert", "lookup"} => Submission(t)
    /\ t.pc = "lookup" => Exists(t.batch)
    /\ t.pc = "find" => t.op = "withdraw"
    /\ t.pc = "update" => (Creating(t) \/ Withdrawing(t)) /\ InOrder(t)
    /\ t.pc = "commit" => \/ Creating(t)
                          \/ Withdrawing(t) /\ t.todo = {}
                          \/ Settled(t)

TxInv ==
    /\ TypeOK
    /\ TxTypeOK
    /\ LocksExclusive
    /\ \A c \in Conns : Local(tx[c])

-----------------------------------------------------------------------------
(* A running transaction is a record with these fields.                    *)
LEMMA BusyFields ==
    ASSUME TxTypeOK, NEW c \in Conns, tx[c].pc # "idle"
    PROVE  tx[c] \in Busy
  BY DEF TxTypeOK, Idle

(* A step of one connection that changes nothing committed keeps what the  *)
(* other connections know.                                                 *)
LEMMA SilentStep ==
    ASSUME TxInv, NEW c \in Conns, UNCHANGED <<server, today>>,
           tx' = [tx EXCEPT ![c] = tx'[c]],
           tx'[c] \in {Idle} \cup Busy,
           Local(tx[c])',
           \A d \in Conns \ {c} : tx'[c].held \cap tx[d].held = {}
    PROVE  TxInv'
<1>1. TypeOK'
  BY DEF TxInv, TypeOK, server, Live, Exists
<1>2. \A d \in Conns \ {c} : tx'[d] = tx[d]
  BY DEF TxInv, TxTypeOK
<1>3. TxTypeOK'
  BY DEF TxInv, TxTypeOK
<1>4. LocksExclusive'
  BY <1>2 DEF TxInv, LocksExclusive
<1>5. \A d \in Conns \ {c} : Local(tx[d])'
  <2> TAKE d \in Conns \ {c}
  <2>1. Local(tx[d]) /\ tx'[d] = tx[d]
    BY <1>2 DEF TxInv
  <2>2. batches' = batches /\ batch_items' = batch_items /\ today' = today
        /\ count' = count /\ contributions' = contributions
    BY DEF server
  <2> QED
    BY <2>1, <2>2 DEF Local, Submission, Creating, Withdrawing, Settled, InOrder, Exists,
       WithdrawApplies, Live, Taken, RowCovers, StoredStatus, RefusedStatus
<1> QED
  BY <1>1, <1>3, <1>4, <1>5 DEF TxInv

-----------------------------------------------------------------------------
(* Arithmetic of the order of rows.                                        *)

(* A category and the index of a table make one number.                    *)
LEMMA Digits ==
    ASSUME NEW a \in Nat, NEW b \in Nat, NEW x \in 0..7, NEW y \in 0..7
    PROVE  /\ 8 * a + x \in Nat
           /\ 8 * a + x <= 8 * b + y <=> (a < b \/ (a = b /\ x <= y))
           /\ 8 * a + x = 8 * b + y => a = b /\ x = y
  OBVIOUS

(* The index of a table tells which of three columns it has.               *)
LEMMA Bits ==
    ASSUME NEW d1 \in {0, 1}, NEW g1 \in {0, 2}, NEW e1 \in {0, 4},
           NEW d2 \in {0, 1}, NEW g2 \in {0, 2}, NEW e2 \in {0, 4},
           d1 + g1 + e1 = d2 + g2 + e2
    PROVE  d1 = d2 /\ g1 = g2 /\ e1 = e2
  OBVIOUS

-----------------------------------------------------------------------------
(* Lock keys and the rows of a batch.                                      *)

(* The key of a batch is never the key of an aggregate row.                *)
LEMMA KeysDiffer ==
    ASSUME NEW b, NEW r
    PROVE  BatchKey(b) # RowKey(r)
<1>1. "batch" \in DOMAIN BatchKey(b) /\ "batch" \notin DOMAIN RowKey(r)
  BY DEF BatchKey, RowKey
<1> QED
  BY <1>1

(* Equal keys lock equal rows.                                             *)
LEMMA RowKeysDiffer ==
    ASSUME NEW r, NEW q, RowKey(r) = RowKey(q)
    PROVE  r = q
<1>1. RowKey(r).row = r /\ RowKey(q).row = q
  BY DEF RowKey
<1> QED
  BY <1>1

(* The rows a valid batch adds to are rows of the tables, one for each     *)
(* scope and category it touches.                                          *)
LEMMA RowsOfBatch ==
    ASSUME NEW p \in Payloads, NEW day \in Days
    PROVE  /\ RowsOf(p, day) \subseteq AggRows
           /\ \A sc \in Scopes, s \in Shortcuts :
                 Touched(sc, s, p, day)
                    <=> [scope |-> sc, shortcut |-> s] \in RowsOf(p, day)
<1>1. DOMAIN p.items \subseteq Shortcuts
  BY PayloadItems
<1>2. ScopesOf(p, day) \subseteq Scopes
  BY DEF ScopesOf, Scopes, Payloads
<1>3. RowsOf(p, day) \subseteq AggRows
  BY <1>1, <1>2 DEF RowsOf, AggRows
<1>4. \A sc \in Scopes, s \in Shortcuts :
          Touched(sc, s, p, day)
             <=> [scope |-> sc, shortcut |-> s] \in RowsOf(p, day)
  BY DEF Touched, RowsOf
<1> QED
  BY <1>3, <1>4

(* The eight statements of the loop body are numbered by the columns their *)
(* tables have.                                                            *)
LEMMA TableIndexes ==
    ASSUME NEW sc
    PROVE  \E d \in {0, 1}, g \in {0, 2}, e \in {0, 4} :
              /\ TableIndex(sc) = d + g + e
              /\ d = 0 <=> sc.day = Null
              /\ g = 0 <=> sc.tag = Null
              /\ e = 0 <=> sc.experience = Null
<1> DEFINE d == IF sc.day = Null THEN 0 ELSE 1
           g == IF sc.tag = Null THEN 0 ELSE 2
           e == IF sc.experience = Null THEN 0 ELSE 4
<1>1. TableIndex(sc) = d + g + e
  BY DEF TableIndex
<1>2. d \in {0, 1} /\ g \in {0, 2} /\ e \in {0, 4}
  OBVIOUS
<1>3. /\ d = 0 <=> sc.day = Null
      /\ g = 0 <=> sc.tag = Null
      /\ e = 0 <=> sc.experience = Null
  OBVIOUS
<1> HIDE DEF d, g, e
<1> QED
  BY <1>1, <1>2, <1>3

(* There are eight of them.                                                *)
LEMMA TableRange ==
    ASSUME NEW sc
    PROVE  TableIndex(sc) \in 0..7
<1>1. PICK d \in {0, 1}, g \in {0, 2}, e \in {0, 4} : TableIndex(sc) = d + g + e
  BY TableIndexes
<1>2. d + g + e \in 0..7
  OBVIOUS
<1> QED
  BY <1>1, <1>2

(* The rank of a row is a number.                                          *)
LEMMA RankFields ==
    ASSUME NEW r \in AggRows
    PROVE  /\ r.shortcut \in Nat
           /\ TableIndex(r.scope) \in 0..7
           /\ Rank(r) \in Nat
<1>1. r.shortcut \in Nat
  BY ShortcutsAssumption DEF AggRows
<1> QED
  BY <1>1, TableRange, Digits DEF Rank

(* Two rows of one batch with the same rank are the same row.              *)
LEMMA RanksDiffer ==
    ASSUME NEW p \in Payloads, NEW day \in Days,
           NEW r \in RowsOf(p, day), NEW q \in RowsOf(p, day), Rank(r) = Rank(q)
    PROVE  r = q
<1>1. /\ r \in [scope : ScopesOf(p, day), shortcut : DOMAIN p.items]
      /\ q \in [scope : ScopesOf(p, day), shortcut : DOMAIN p.items]
      /\ r.shortcut \in Nat /\ q.shortcut \in Nat
  BY PayloadItems, ShortcutsAssumption DEF RowsOf
<1>2. TableIndex(r.scope) \in 0..7 /\ TableIndex(q.scope) \in 0..7
  BY <1>1, TableRange
<1>3. r.shortcut = q.shortcut /\ TableIndex(r.scope) = TableIndex(q.scope)
  BY <1>1, <1>2, Digits DEF Rank
<1>4. /\ r.scope.tag = Null <=> q.scope.tag = Null
      /\ r.scope.experience = Null <=> q.scope.experience = Null
      /\ r.scope.day = Null <=> q.scope.day = Null
  <2>1. PICK d1 \in {0, 1}, g1 \in {0, 2}, e1 \in {0, 4} :
              /\ TableIndex(r.scope) = d1 + g1 + e1
              /\ d1 = 0 <=> r.scope.day = Null
              /\ g1 = 0 <=> r.scope.tag = Null
              /\ e1 = 0 <=> r.scope.experience = Null
    BY TableIndexes
  <2>2. PICK d2 \in {0, 1}, g2 \in {0, 2}, e2 \in {0, 4} :
              /\ TableIndex(q.scope) = d2 + g2 + e2
              /\ d2 = 0 <=> q.scope.day = Null
              /\ g2 = 0 <=> q.scope.tag = Null
              /\ e2 = 0 <=> q.scope.experience = Null
    BY TableIndexes
  <2>3. d1 = d2 /\ g1 = g2 /\ e1 = e2
    BY <1>3, <2>1, <2>2, Bits
  <2> QED
    BY <2>1, <2>2, <2>3
<1>5. r.scope = q.scope
  BY <1>1, <1>4 DEF ScopesOf
<1> QED
  BY <1>1, <1>3, <1>5

(* The row that is next has the lowest rank of those left.                 *)
LEMMA NextRowFirst ==
    ASSUME NEW t, t.op \in {"submit", "withdraw"}, t.todo \subseteq AggRows,
           t.todo # {}
    PROVE  /\ NextRow(t) \in t.todo
           /\ \A q \in t.todo : Rank(NextRow(t)) <= Rank(q)
<1>1. \A r \in AggRows : /\ r.shortcut \in Nat
                          /\ TableIndex(r.scope) \in 0..7
                          /\ Rank(r) \in Nat
  BY RankFields
<1>2. \A r, q \in AggRows :
          /\ SubmitBefore(r, q) <=> Rank(r) <= Rank(q)
          /\ WithdrawBefore(r, q) <=> Rank(r) <= Rank(q)
  BY <1>1, Digits DEF SubmitBefore, WithdrawBefore, Rank
<1>3. \E r \in t.todo : \A q \in t.todo : Rank(r) <= Rank(q)
  <2> DEFINE ranks == {Rank(r) : r \in t.todo}
  <2>1. ranks \subseteq Nat /\ ranks # {}
    BY <1>1
  <2>2. PICK least \in ranks : \A n \in ranks : least <= n
    <3> HIDE DEF ranks
    <3> QED
      BY <2>1, Least
  <2> QED
    BY <2>2
<1>4. \E r \in t.todo : \A q \in t.todo :
          IF t.op = "submit" THEN SubmitBefore(r, q) ELSE WithdrawBefore(r, q)
  BY <1>2, <1>3
<1>5. /\ NextRow(t) \in t.todo
      /\ \A q \in t.todo :
            IF t.op = "submit" THEN SubmitBefore(NextRow(t), q)
                               ELSE WithdrawBefore(NextRow(t), q)
  BY <1>4 DEF NextRow
<1> QED
  BY <1>2, <1>5

-----------------------------------------------------------------------------
(* The steps that change nothing committed.                                *)

(* A request takes a connection and holds nothing yet.                     *)
LEMMA BeginKeeps ==
    ASSUME TxInv, NEW c \in Conns, NEW b \in Batches, NEW tok \in Tokens,
           \/ BeginWithdraw(c, b, tok)
           \/ \E p \in Payloads : BeginSubmit(c, b, tok, p)
    PROVE  TxInv'
<1>1. UNCHANGED vars /\ tx' = [tx EXCEPT ![c] = tx'[c]]
  BY DEF BeginSubmit, BeginWithdraw, TxInv, TxTypeOK
<1>2. today \in Days /\ today <= today
  BY DEF TxInv, TypeOK, Days
<1>3. CASE BeginWithdraw(c, b, tok)
  <2>1. tx'[c] = [pc |-> "find", op |-> "withdraw", batch |-> b, token |-> tok,
             payload |-> Null, day |-> Null, todo |-> {}, held |-> {},
             status |-> "none"]
    BY <1>3 DEF BeginWithdraw, TxInv, TxTypeOK
  <2>2. tx'[c] \in Busy /\ tx'[c].held = {} /\ Local(tx[c])'
    BY <2>1 DEF Busy, Local
  <2> QED
    BY <1>1, <2>2, SilentStep DEF vars
<1>4. CASE \E p \in Payloads : BeginSubmit(c, b, tok, p)
  <2>1. PICK p \in Payloads : BeginSubmit(c, b, tok, p)
    BY <1>4
  <2>2. tx'[c] = [pc |-> "insert", op |-> "submit", batch |-> b, token |-> tok,
             payload |-> p, day |-> today, todo |-> {}, held |-> {},
             status |-> "none"]
    BY <2>1 DEF BeginSubmit, TxInv, TxTypeOK
  <2>3. tx'[c] \in Busy /\ tx'[c].held = {}
    BY <1>2, <2>2 DEF Busy
  <2>4. Local(tx[c])'
    BY <1>1, <1>2, <2>2 DEF Local, Submission, vars
  <2> QED
    BY <1>1, <2>3, <2>4, SilentStep DEF vars
<1> QED
  BY <1>3, <1>4

(* A lock that a statement waited for is in no other connection's set.     *)
LEMMA LockTaken ==
    ASSUME TxInv, NEW c \in Conns, NEW key, LockFree(c, key)
    PROVE  \A d \in Conns \ {c} : (tx[c].held \cup {key}) \cap tx[d].held = {}
  BY DEF TxInv, LocksExclusive, LockFree

(* An insert takes the lock of a batch nobody stored, or finds it stored.  *)
LEMMA InsertKeeps ==
    ASSUME TxInv, NEW c \in Conns, InsertBatch(c) \/ InsertConflict(c)
    PROVE  TxInv'
<1> DEFINE t == tx[c]
<1>1. /\ t \in Busy /\ Local(t)
      /\ t.pc = "insert" /\ t.held = {} /\ Submission(t)
      /\ UNCHANGED vars
  BY BusyFields DEF InsertBatch, InsertConflict, TxInv, Local
<1>2. today' = today /\ batches' = batches
  BY <1>1 DEF vars, server
<1>3. CASE InsertBatch(c)
  <2>1. /\ tx' = [tx EXCEPT ![c] = tx'[c]]
        /\ tx'[c] = [pc |-> "update", op |-> t.op, batch |-> t.batch,
                      token |-> t.token, payload |-> t.payload, day |-> t.day,
                      todo |-> RowsOf(t.payload, t.day),
                      held |-> {BatchKey(t.batch)}, status |-> "created"]
    BY <1>1, <1>3 DEF InsertBatch, TxInv, TxTypeOK, Busy
  <2>2. RowsOf(t.payload, t.day) \subseteq AggRows
    BY <1>1, RowsOfBatch DEF Submission
  <2>3. BatchKey(t.batch) \in Keys
    BY <1>1 DEF Keys, Busy
  <2>4. tx'[c] \in Busy
    BY <1>1, <2>1, <2>2, <2>3 DEF Busy
  <2>5. Creating(tx[c])'
    BY <1>1, <1>2, <1>3, <2>1 DEF Busy, Creating, Submission, Exists, InsertBatch
  <2>6. Local(tx[c])'
    BY <1>1, <2>1, <2>5, KeysDiffer DEF Local, InOrder, Busy
  <2>7. \A d \in Conns \ {c} : tx'[c].held \cap tx[d].held = {}
    BY <1>1, <1>3, <2>1, LockTaken DEF InsertBatch, Busy
  <2> QED
    BY <1>1, <2>1, <2>4, <2>6, <2>7, SilentStep DEF vars
<1>4. CASE InsertConflict(c)
  <2>1. /\ tx' = [tx EXCEPT ![c] = tx'[c]]
        /\ tx'[c] = [t EXCEPT !.pc = "lookup"]
    BY <1>4 DEF InsertConflict, Goto, TxInv, TxTypeOK
  <2>2. tx'[c] \in Busy /\ tx'[c].held = {}
    BY <1>1, <2>1 DEF Busy
  <2>3. Local(tx[c])'
    BY <1>1, <1>2, <1>4, <2>1 DEF Busy, Local, Submission, Exists, InsertConflict
  <2> QED
    BY <1>1, <2>1, <2>2, <2>3, SilentStep DEF vars
<1> QED
  BY <1>3, <1>4

(* The answer to a batch that was there before is settled under its lock.  *)
LEMMA LookupKeeps ==
    ASSUME TxInv, NEW c \in Conns, LookupBatch(c) \/ FindRefused(c)
    PROVE  TxInv'
<1> DEFINE t == tx[c]
           status == IF t.pc = "lookup"
                     THEN StoredStatus(t.batch, t.token, t.payload)
                     ELSE RefusedStatus(t.batch, t.token)
<1>1. /\ t \in Busy /\ Local(t)
      /\ t.pc \in {"lookup", "find"} /\ t.held = {}
      /\ Exists(t.batch)
      /\ t.pc = "lookup" => Submission(t)
      /\ t.pc = "find" => t.op = "withdraw" /\ ~WithdrawApplies(t.batch, t.token)
      /\ LockFree(c, BatchKey(t.batch))
      /\ UNCHANGED vars
  BY BusyFields DEF LookupBatch, FindRefused, TxInv, Local
<1>2. today' = today /\ batches' = batches
  BY <1>1 DEF vars, server
<1>3. /\ tx' = [tx EXCEPT ![c] = tx'[c]]
      /\ tx'[c] = [pc |-> "commit", op |-> t.op, batch |-> t.batch,
                    token |-> t.token, payload |-> t.payload, day |-> t.day,
                    todo |-> t.todo, held |-> {BatchKey(t.batch)},
                    status |-> status]
  BY <1>1 DEF LookupBatch, FindRefused, FinishHolding, TxInv, TxTypeOK, Busy
<1>4. status \in {"duplicate", "conflict", "withdrawn",
                   "not_found", "forbidden", "already_withdrawn"}
  BY DEF StoredStatus, RefusedStatus
<1>5. BatchKey(t.batch) \in Keys
  BY <1>1 DEF Keys, Busy
<1>6. tx'[c] \in Busy
  BY <1>1, <1>3, <1>4, <1>5 DEF Busy
<1>7. Settled(tx[c])'
  BY <1>1, <1>2, <1>3 DEF Busy, Settled, Submission, Exists, WithdrawApplies, Live,
     StoredStatus, RefusedStatus
<1>8. Local(tx[c])'
  BY <1>1, <1>3, <1>7 DEF Local, Busy
<1>9. \A d \in Conns \ {c} : tx'[c].held \cap tx[d].held = {}
  BY <1>1, <1>3, LockTaken DEF Busy
<1> QED
  BY <1>1, <1>3, <1>6, <1>8, <1>9, SilentStep DEF vars

(* A withdrawal starts from the live batch it locks.                       *)
LEMMA FindLiveKeeps ==
    ASSUME TxInv, NEW c \in Conns, FindLive(c)
    PROVE  TxInv'
<1> DEFINE t   == tx[c]
           row == batches[t.batch]
<1>1. /\ t \in Busy /\ Local(t)
      /\ t.pc = "find" /\ t.held = {} /\ t.op = "withdraw"
      /\ LockFree(c, BatchKey(t.batch))
      /\ WithdrawApplies(t.batch, t.token)
      /\ UNCHANGED vars
  BY BusyFields DEF FindLive, TxInv, Local
<1>2. batches' = batches /\ batch_items' = batch_items
  BY <1>1 DEF vars, server
<1>3. /\ Taken(t.batch) = row.payload
      /\ row.payload \in Payloads
      /\ row.day \in Days
  BY <1>1, LiveItems, RowFields DEF TxInv, Busy, WithdrawApplies
<1>4. /\ tx' = [tx EXCEPT ![c] = tx'[c]]
      /\ tx'[c] = [pc |-> "update", op |-> t.op, batch |-> t.batch,
                    token |-> t.token, payload |-> Taken(t.batch), day |-> row.day,
                    todo |-> RowsOf(Taken(t.batch), row.day),
                    held |-> {BatchKey(t.batch)}, status |-> "withdrawn"]
  BY <1>1 DEF FindLive, TxInv, TxTypeOK, Busy
<1>5. RowsOf(Taken(t.batch), row.day) \subseteq AggRows
  BY <1>3, RowsOfBatch
<1>6. BatchKey(t.batch) \in Keys
  BY <1>1 DEF Keys, Busy
<1>7. tx'[c] \in Busy
  BY <1>1, <1>3, <1>4, <1>5, <1>6 DEF Busy
<1>8. Withdrawing(tx[c])'
  <2>1. t.batch' = t.batch /\ t.token' = t.token
    BY <1>4
  <2>2. WithdrawApplies(t.batch, t.token)' /\ Taken(t.batch)' = Taken(t.batch)
    BY <1>1, <1>2, <2>1 DEF WithdrawApplies, Live, Exists, Taken
  <2> QED
    BY <1>1, <1>2, <1>4, <2>2 DEF Withdrawing
<1>9. Local(tx[c])'
  BY <1>1, <1>4, <1>8, KeysDiffer DEF Local, InOrder, Busy
<1>10. \A d \in Conns \ {c} : tx'[c].held \cap tx[d].held = {}
  BY <1>1, <1>4, LockTaken DEF Busy
<1> QED
  BY <1>1, <1>4, <1>7, <1>9, <1>10, SilentStep DEF vars

(* One statement of the loop takes the next row and leaves later ones.     *)
LEMMA UpdateKeeps ==
    ASSUME TxInv, NEW c \in Conns, UpdateRow(c)
    PROVE  TxInv'
<1> DEFINE t == tx[c]
           r == NextRow(t)
<1>1. /\ t \in Busy /\ t.pc = "update" /\ t.todo # {}
      /\ Creating(t) \/ Withdrawing(t)
      /\ InOrder(t)
      /\ LockFree(c, RowKey(r))
      /\ t.op = "withdraw" =>
            RowCovers(r.scope, r.shortcut, t.payload.items[r.shortcut])
      /\ UNCHANGED vars
  BY BusyFields DEF UpdateRow, TxInv, Local
<1>2. /\ batches' = batches /\ batch_items' = batch_items /\ today' = today
      /\ count' = count /\ contributions' = contributions
  BY <1>1 DEF vars, server
<1>3. t.payload \in Payloads /\ t.day \in Days
  BY <1>1, LiveItems, RowFields
     DEF Creating, Submission, Withdrawing, WithdrawApplies, TxInv, Busy
<1>4. t.todo \subseteq AggRows /\ t.op \in {"submit", "withdraw"}
  BY <1>1 DEF Busy
<1>5. r \in t.todo /\ \A q \in t.todo : Rank(r) <= Rank(q)
  BY <1>1, <1>4, NextRowFirst
<1>6. /\ tx' = [tx EXCEPT ![c] = tx'[c]]
      /\ tx'[c] = [pc |-> "update", op |-> t.op, batch |-> t.batch,
                    token |-> t.token, payload |-> t.payload, day |-> t.day,
                    todo |-> t.todo \ {r}, held |-> t.held \cup {RowKey(r)},
                    status |-> t.status]
  BY <1>1 DEF UpdateRow, TxInv, TxTypeOK, Busy
<1>7. RowKey(r) \in Keys
  BY <1>4, <1>5 DEF Keys
<1>8. tx'[c] \in Busy
  BY <1>1, <1>4, <1>6, <1>7 DEF Busy
<1>9. (Creating(tx[c]) \/ Withdrawing(tx[c]))'
  <2>1. CASE Creating(t)
    BY <1>2, <1>6, <2>1 DEF Creating, Submission, Exists
  <2>2. CASE Withdrawing(t)
    <3>1. \A q \in RowsOf(t.payload, t.day) \ (t.todo \ {r}) :
              /\ RowKey(q) \in t.held \cup {RowKey(r)}
              /\ RowCovers(q.scope, q.shortcut, t.payload.items[q.shortcut])
      BY <1>1, <2>2 DEF Withdrawing
    <3>2. \A q \in RowsOf(t.payload, t.day) \ (t.todo \ {r}) :
              RowCovers(q.scope, q.shortcut, t.payload.items[q.shortcut])'
      BY <1>2, <1>6, <3>1 DEF RowCovers
    <3>3. /\ t.batch' = t.batch /\ t.token' = t.token /\ t.op' = t.op
          /\ t.payload' = t.payload /\ t.day' = t.day /\ t.status' = t.status
          /\ t.todo' = t.todo \ {r} /\ t.held' = t.held \cup {RowKey(r)}
      BY <1>6
    <3>4. /\ WithdrawApplies(t.batch, t.token)' = WithdrawApplies(t.batch, t.token)
          /\ Taken(t.batch)' = Taken(t.batch)
      BY <1>2, <3>3 DEF WithdrawApplies, Live, Exists, Taken
    <3> QED
      BY <1>2, <2>2, <3>1, <3>2, <3>3, <3>4 DEF Withdrawing
  <2> QED
    BY <1>1, <2>1, <2>2
<1>10. InOrder(tx[c])'
  <2>1. ASSUME NEW p \in AggRows, NEW q \in t.todo \ {r},
               RowKey(p) \in t.held \cup {RowKey(r)}
        PROVE  Rank(p) < Rank(q)
    <3>1. CASE RowKey(p) \in t.held
      BY <1>1, <2>1, <3>1 DEF InOrder
    <3>2. CASE RowKey(p) = RowKey(r)
      <4>1. p = r
        BY <3>2, RowKeysDiffer
      <4>2. Rank(r) # Rank(q)
        BY <1>1, <1>3, <1>5, RanksDiffer DEF InOrder
      <4>3. Rank(r) <= Rank(q) /\ Rank(r) \in Nat /\ Rank(q) \in Nat
        BY <1>4, <1>5, RankFields
      <4> QED
        BY <4>1, <4>2, <4>3
    <3> QED
      BY <2>1, <3>1, <3>2
  <2> QED
    BY <1>1, <1>6, <2>1 DEF InOrder
<1>11. Local(tx[c])'
  BY <1>6, <1>9, <1>10 DEF Local
<1>12. \A d \in Conns \ {c} : tx'[c].held \cap tx[d].held = {}
  BY <1>1, <1>6, LockTaken
<1> QED
  BY <1>1, <1>6, <1>8, <1>11, <1>12, SilentStep DEF vars

(* The loop ends.                                                          *)
LEMMA UpdatesDoneKeeps ==
    ASSUME TxInv, NEW c \in Conns, UpdatesDone(c)
    PROVE  TxInv'
<1> DEFINE t == tx[c]
<1>1. /\ t \in Busy /\ t.pc = "update" /\ t.todo = {}
      /\ Creating(t) \/ Withdrawing(t)
      /\ UNCHANGED vars
  BY BusyFields DEF UpdatesDone, TxInv, Local
<1>2. /\ batches' = batches /\ batch_items' = batch_items /\ today' = today
      /\ count' = count /\ contributions' = contributions
  BY <1>1 DEF vars, server
<1>3. /\ tx' = [tx EXCEPT ![c] = tx'[c]]
      /\ tx'[c] = [pc |-> "commit", op |-> t.op, batch |-> t.batch,
                    token |-> t.token, payload |-> t.payload, day |-> t.day,
                    todo |-> t.todo, held |-> t.held, status |-> t.status]
  BY <1>1 DEF UpdatesDone, Goto, TxInv, TxTypeOK, Busy
<1>4. tx'[c] \in Busy
  BY <1>1, <1>3 DEF Busy
<1>5. (Creating(tx[c]) \/ Withdrawing(tx[c]))'
  <2>1. CASE Creating(t)
    BY <1>2, <1>3, <2>1 DEF Creating, Submission, Exists
  <2>2. CASE Withdrawing(t)
    <3>1. /\ t.batch' = t.batch /\ t.token' = t.token /\ t.op' = t.op
          /\ t.payload' = t.payload /\ t.day' = t.day /\ t.status' = t.status
          /\ t.todo' = t.todo /\ t.held' = t.held
      BY <1>3
    <3>2. /\ WithdrawApplies(t.batch, t.token)' = WithdrawApplies(t.batch, t.token)
          /\ Taken(t.batch)' = Taken(t.batch)
      BY <1>2, <3>1 DEF WithdrawApplies, Live, Exists, Taken
    <3>3. \A q \in RowsOf(t.payload, t.day) \ t.todo :
              RowCovers(q.scope, q.shortcut, t.payload.items[q.shortcut])'
      BY <1>2, <1>3, <2>2 DEF Withdrawing, RowCovers
    <3> QED
      BY <1>2, <2>2, <3>1, <3>2, <3>3 DEF Withdrawing
  <2> QED
    BY <1>1, <2>1, <2>2
<1>6. Local(tx[c])'
  BY <1>1, <1>3, <1>5 DEF Local
<1>7. \A d \in Conns \ {c} : tx'[c].held \cap tx[d].held = {}
  BY <1>3 DEF TxInv, LocksExclusive
<1> QED
  BY <1>1, <1>3, <1>4, <1>6, <1>7, SilentStep DEF vars

(* A transaction that ends without a commit leaves no trace.               *)
LEMMA GiveUpKeeps ==
    ASSUME TxInv, NEW c \in Conns, FindNothing(c) \/ Abort(c)
    PROVE  TxInv'
<1>1. /\ UNCHANGED <<server, today>>
      /\ tx' = [tx EXCEPT ![c] = Idle]
  BY DEF FindNothing, Abort, ServerError
<1>2. tx'[c] = Idle /\ tx' = [tx EXCEPT ![c] = tx'[c]]
  BY <1>1 DEF TxInv, TxTypeOK
<1>3. Local(tx[c])' /\ tx'[c].held = {}
  BY <1>2 DEF Local, Idle
<1> QED
  BY <1>1, <1>2, <1>3, SilentStep

(* A day passes while transactions run.                                    *)
LEMMA NextDayKeeps == TxInv /\ TxNextDay => TxInv'
<1> SUFFICES ASSUME TxInv, TxNextDay PROVE TxInv'
  OBVIOUS
<1>1. /\ tx' = tx /\ today' = today + 1 /\ today \in Nat
      /\ batches' = batches /\ batch_items' = batch_items
      /\ count' = count /\ contributions' = contributions
  BY DEF TxNextDay, NextDay, server, TxInv, TypeOK, Days
<1>2. TypeOK'
  BY NextType DEF TxInv, TxNextDay, Next
<1>3. TxTypeOK' /\ LocksExclusive'
  BY <1>1 DEF TxInv, TxTypeOK, LocksExclusive
<1>4. \A c \in Conns : Local(tx[c])'
  <2> TAKE c \in Conns
  <2>1. Local(tx[c])
    BY DEF TxInv
  <2>2. \A d \in Days : d <= today => d <= today'
    BY <1>1 DEF Days
  <2>3. Submission(tx[c]) => Submission(tx[c])'
    BY <1>1, <2>2 DEF Submission
  <2>4. Creating(tx[c]) => Creating(tx[c])'
    BY <1>1, <2>3 DEF Creating, Exists
  <2>5. Withdrawing(tx[c]) => Withdrawing(tx[c])'
    BY <1>1 DEF Withdrawing, WithdrawApplies, Live, Exists, Taken, RowCovers
  <2>6. Settled(tx[c]) => Settled(tx[c])'
    BY <1>1, <2>3 DEF Settled, WithdrawApplies, Live, Exists, StoredStatus, RefusedStatus
  <2> QED
    BY <1>1, <2>1, <2>3, <2>4, <2>5, <2>6 DEF Local, InOrder, Exists
<1> QED
  BY <1>2, <1>3, <1>4 DEF TxInv

-----------------------------------------------------------------------------
(* Commits.  A commit that writes is one step of the atomic functions.     *)

(* The commit of a new batch is SubmitNew.                                 *)
LEMMA CreatedIsSubmitNew ==
    ASSUME TxInv, NEW c \in Conns, Commit(c), CommitCreated(c)
    PROVE  /\ Creating(tx[c])
           /\ SubmitNew(tx[c].batch, tx[c].token, tx[c].payload, tx[c].day)
<1> DEFINE t == tx[c]
<1>1. t \in Busy /\ t.pc = "commit" /\ t.status = "created" /\ Local(t)
  BY BusyFields DEF Commit, CommitCreated, TxInv
<1>2. Creating(t)
  BY <1>1 DEF Local, Settled, Withdrawing, StoredStatus, RefusedStatus
<1> QED
  BY <1>2 DEF Commit, CommitCreated, Creating, Submission, SubmitNew, Answer

(* The commit of a withdrawal is WithdrawLive: every row it takes from is  *)
(* held since it was found large enough.                                   *)
LEMMA WithdrawnIsWithdrawLive ==
    ASSUME TxInv, NEW c \in Conns, Commit(c), CommitWithdrawn(c)
    PROVE  /\ Withdrawing(tx[c]) /\ tx[c].todo = {}
           /\ WithdrawLive(tx[c].batch, tx[c].token)
<1> DEFINE t == tx[c]
<1>1. /\ t \in Busy /\ t.pc = "commit" /\ Local(t)
      /\ t.op = "withdraw" /\ t.status = "withdrawn"
  BY BusyFields DEF Commit, CommitWithdrawn, TxInv
<1>2. Withdrawing(t) /\ t.todo = {}
  BY <1>1 DEF Local, Creating, Settled, Submission, RefusedStatus
<1>3. \A sc \in ScopesOf(t.payload, t.day), s \in DOMAIN t.payload.items :
          RowCovers(sc, s, t.payload.items[s])
  <2> TAKE sc \in ScopesOf(t.payload, t.day), s \in DOMAIN t.payload.items
  <2> DEFINE r == [scope |-> sc, shortcut |-> s]
  <2>1. r \in RowsOf(t.payload, t.day) \ t.todo /\ r.scope = sc /\ r.shortcut = s
    BY <1>2 DEF RowsOf
  <2> QED
    BY <1>2, <2>1 DEF Withdrawing
<1>4. AggregatesCover(t.payload, t.day)
  BY <1>3 DEF AggregatesCover
<1> QED
  BY <1>1, <1>2, <1>4 DEF Commit, CommitWithdrawn, Withdrawing, WithdrawLive, Answer

(* Any other commit only answers.                                          *)
LEMMA UnchangedIsAnswer ==
    ASSUME TxInv, NEW c \in Conns, Commit(c), CommitUnchanged(c)
    PROVE  \/ SubmitSeen(tx[c].batch, tx[c].token, tx[c].payload)
              /\ tx[c].payload \in Payloads
           \/ WithdrawRefused(tx[c].batch, tx[c].token)
<1> DEFINE t == tx[c]
<1>1. t \in Busy /\ t.pc = "commit" /\ Local(t) /\ t.status # "created"
      /\ ~(t.op = "withdraw" /\ t.status = "withdrawn")
  BY BusyFields DEF Commit, CommitUnchanged, TxInv
<1>2. Settled(t)
  BY <1>1 DEF Local, Creating, Withdrawing
<1>3. CASE Submission(t) /\ t.status = StoredStatus(t.batch, t.token, t.payload)
  BY <1>2, <1>3 DEF Commit, CommitUnchanged, Settled, Submission, SubmitSeen, Answer
<1>4. CASE /\ t.op = "withdraw"
           /\ ~WithdrawApplies(t.batch, t.token)
           /\ t.status = RefusedStatus(t.batch, t.token)
  BY <1>4 DEF Commit, CommitUnchanged, WithdrawRefused, Answer
<1> QED
  BY <1>2, <1>3, <1>4 DEF Settled

(* Every commit is a step of the atomic functions.                         *)
LEMMA CommitCases ==
    ASSUME TxInv, NEW c \in Conns, Commit(c)
    PROVE  Next
<1>1. tx[c].batch \in Batches /\ tx[c].token \in Tokens
  BY BusyFields DEF Commit, Busy, TxInv
<1>2. CASE CommitCreated(c)
  BY <1>1, <1>2, CreatedIsSubmitNew DEF Creating, Submission, Next, Post
<1>3. CASE CommitWithdrawn(c)
  BY <1>1, <1>3, WithdrawnIsWithdrawLive DEF Next, Delete
<1>4. CASE CommitUnchanged(c)
  BY <1>1, <1>4, UnchangedIsAnswer DEF Next, Post, Delete
<1> QED
  BY <1>2, <1>3, <1>4 DEF Commit

(* What the commit of one connection leaves to the others: the batches and *)
(* the aggregate rows they hold are as they were, or larger.               *)
LEMMA CommitLeaves ==
    ASSUME TxInv, NEW c \in Conns, Commit(c), NEW d \in Conns \ {c}
    PROVE  /\ \A b \in Batches :
                 /\ Exists(b) => Exists(b)'
                 /\ BatchKey(b) \in tx[d].held =>
                       /\ batches'[b] = batches[b]
                       /\ batch_items'[b] = batch_items[b]
           /\ \A r \in AggRows, n \in Nat :
                 RowKey(r) \in tx[d].held /\ RowCovers(r.scope, r.shortcut, n)
                    => RowCovers(r.scope, r.shortcut, n)'
<1> DEFINE t == tx[c]
<1>0. t \in Busy /\ \A key : ~(key \in t.held /\ key \in tx[d].held)
  BY BusyFields DEF Commit, TxInv, LocksExclusive
<1>1. CASE CommitCreated(c)
  <2>1. Creating(t) /\ SubmitNew(t.batch, t.token, t.payload, t.day)
    BY <1>1, CreatedIsSubmitNew
  <2>2. \A b \in Batches \ {t.batch} :
            batches'[b] = batches[b] /\ batch_items'[b] = batch_items[b]
    BY <2>1 DEF SubmitNew, TxInv, TypeOK
  <2>3. ~Exists(t.batch) /\ BatchKey(t.batch) \notin tx[d].held
    BY <1>0, <2>1 DEF Creating
  <2>4. \A sc \in Scopes, s \in Shortcuts :
            /\ count[sc][s] \in Nat /\ count'[sc][s] \in Nat
            /\ contributions[sc][s] \in Nat /\ contributions'[sc][s] \in Nat
            /\ count'[sc][s] >= count[sc][s]
            /\ contributions'[sc][s] >= contributions[sc][s]
    <3>1. AddBatch(t.payload, t.day) /\ t.payload \in Payloads /\ t.day \in Days
      BY <2>1 DEF SubmitNew, Creating, Submission
    <3>2. \A sc \in Scopes, s \in Shortcuts :
              contributions[sc][s] \in Nat /\ count[sc][s] \in Nat
      BY DEF TxInv, TypeOK
    <3> QED
      BY <3>1, <3>2, AddBatchRows DEF TxInv
  <2>5. ASSUME NEW r \in AggRows, NEW n \in Nat, RowCovers(r.scope, r.shortcut, n)
        PROVE  RowCovers(r.scope, r.shortcut, n)'
    <3>1. r.scope \in Scopes /\ r.shortcut \in Shortcuts
      BY DEF AggRows
    <3> QED
      BY <2>4, <2>5, <3>1 DEF RowCovers
  <2> QED
    BY <2>2, <2>3, <2>5 DEF Exists
<1>2. CASE CommitWithdrawn(c)
  <2>1. Withdrawing(t) /\ t.todo = {} /\ WithdrawLive(t.batch, t.token)
    BY <1>2, WithdrawnIsWithdrawLive
  <2>2. /\ \A b \in Batches \ {t.batch} :
               batches'[b] = batches[b] /\ batch_items'[b] = batch_items[b]
        /\ batches'[t.batch] # NoRow
    <3>1. batches[t.batch] \in Rows /\ t.batch \in Batches
      BY <1>0, <2>1, LiveItems DEF Busy, TxInv, Withdrawing, WithdrawApplies
    <3>2. batches'[t.batch].withdrawn = TRUE /\ batches'[t.batch] \in Rows
      BY <2>1, <3>1 DEF WithdrawLive, TxInv, TypeOK, Rows
    <3>3. batches'[t.batch] # NoRow
      BY <3>2, RowFields
    <3>4. \A b \in Batches \ {t.batch} :
              batches'[b] = batches[b] /\ batch_items'[b] = batch_items[b]
      BY <2>1 DEF WithdrawLive, TxInv, TypeOK
    <3> QED
      BY <3>3, <3>4
  <2>3. BatchKey(t.batch) \notin tx[d].held
    BY <1>0, <2>1 DEF Withdrawing
  <2>4. t.payload \in Payloads /\ t.day \in Days
    BY <1>0, <2>1, LiveItems, RowFields
       DEF Withdrawing, WithdrawApplies, TxInv, Busy
  <2>5. ASSUME NEW r \in AggRows, NEW n \in Nat, RowKey(r) \in tx[d].held,
               RowCovers(r.scope, r.shortcut, n)
        PROVE  RowCovers(r.scope, r.shortcut, n)'
    <3>1. r.scope \in Scopes /\ r.shortcut \in Shortcuts
          /\ r = [scope |-> r.scope, shortcut |-> r.shortcut]
      BY DEF AggRows
    <3>2. r \notin RowsOf(t.payload, t.day)
      BY <1>0, <2>1, <2>5 DEF Withdrawing
    <3>3. ~Touched(r.scope, r.shortcut, t.payload, t.day)
      BY <2>4, <3>1, <3>2, RowsOfBatch
    <3>4. RemoveBatch(t.payload, t.day)
      BY <2>1 DEF WithdrawLive, Withdrawing
    <3>5. /\ count'[r.scope][r.shortcut] = count[r.scope][r.shortcut]
          /\ contributions'[r.scope][r.shortcut] = contributions[r.scope][r.shortcut]
      BY <3>1, <3>3, <3>4 DEF RemoveBatch
    <3> QED
      BY <2>5, <3>5 DEF RowCovers
  <2>6. ASSUME NEW b \in Batches
        PROVE  /\ Exists(b) => Exists(b)'
               /\ BatchKey(b) \in tx[d].held =>
                     batches'[b] = batches[b] /\ batch_items'[b] = batch_items[b]
    <3>1. CASE b = t.batch
      BY <2>2, <2>3, <3>1 DEF Exists
    <3>2. CASE b # t.batch
      BY <2>2, <3>2 DEF Exists
    <3> QED
      BY <3>1, <3>2
  <2> QED
    BY <2>5, <2>6
<1>3. CASE CommitUnchanged(c)
  BY <1>3 DEF CommitUnchanged, server, Exists, RowCovers
<1> QED
  BY <1>1, <1>2, <1>3 DEF Commit

(* A commit keeps what the other connections know.                         *)
LEMMA CommitKeeps ==
    ASSUME TxInv, NEW c \in Conns, Commit(c)
    PROVE  TxInv'
<1>1. TypeOK'
  BY CommitCases, NextType DEF TxInv
<1>2. /\ tx' = [tx EXCEPT ![c] = Idle] /\ tx'[c] = Idle
      /\ \A d \in Conns \ {c} : tx'[d] = tx[d]
      /\ today' = today
  BY DEF Commit, TxInv, TxTypeOK
<1>3. TxTypeOK' /\ LocksExclusive'
  BY <1>2 DEF TxInv, TxTypeOK, LocksExclusive, Idle
<1>4. Local(tx[c])'
  BY <1>2 DEF Local, Idle
<1>5. ASSUME NEW d \in Conns \ {c}
      PROVE  Local(tx[d])'
  <2> DEFINE u == tx[d]
  <2>1. CASE u.pc = "idle"
    BY <1>2, <2>1 DEF TxInv, Local
  <2>2. CASE u.pc # "idle"
    <3>1. /\ u \in Busy /\ Local(u) /\ tx'[d] = u
          /\ u.batch \in Batches
      BY <1>2, <2>2, BusyFields DEF TxInv, Busy
    <3>2. Exists(u.batch) => Exists(u.batch)'
      BY <3>1, CommitLeaves
    <3>3. BatchKey(u.batch) \in u.held =>
             batches'[u.batch] = batches[u.batch] /\ batch_items'[u.batch] = batch_items[u.batch]
      BY <3>1, CommitLeaves
    <3>4. Submission(u) => Submission(tx[d])'
      BY <1>2, <3>1 DEF Submission
    <3>5. Creating(u) => Creating(tx[d])'
      BY <3>1, <3>3, <3>4 DEF Creating, Exists
    <3>6. Settled(u) => Settled(tx[d])'
      BY <3>1, <3>3, <3>4 DEF Settled, Exists, WithdrawApplies, Live, StoredStatus, RefusedStatus
    <3>7. Withdrawing(u) => Withdrawing(tx[d])'
      <4> SUFFICES ASSUME Withdrawing(u) PROVE Withdrawing(tx[d])'
        OBVIOUS
      <4>1. u.payload \in Payloads /\ u.day \in Days
        BY <3>1, LiveItems, RowFields DEF Withdrawing, WithdrawApplies, TxInv
      <4>2. ASSUME NEW r \in RowsOf(u.payload, u.day) \ u.todo
            PROVE  RowCovers(r.scope, r.shortcut, u.payload.items[r.shortcut])'
        <5>1. r \in AggRows /\ r.shortcut \in DOMAIN u.payload.items
          BY <4>1, RowsOfBatch DEF RowsOf
        <5>2. u.payload.items[r.shortcut] \in Nat
          BY <4>1, <5>1, PayloadItems
        <5>3. RowKey(r) \in u.held /\ RowCovers(r.scope, r.shortcut, u.payload.items[r.shortcut])
          BY DEF Withdrawing
        <5>4. PICK n \in Nat : n = u.payload.items[r.shortcut]
          BY <5>2
        <5>5. RowCovers(r.scope, r.shortcut, n)'
          BY <5>1, <5>3, <5>4, CommitLeaves
        <5> QED
          BY <3>1, <5>4, <5>5 DEF RowCovers
      <4>3. WithdrawApplies(u.batch, u.token)' /\ Taken(u.batch)' = Taken(u.batch)
            /\ (batches[u.batch].day)' = batches[u.batch].day
        BY <3>1, <3>3 DEF Withdrawing, WithdrawApplies, Live, Exists, Taken
      <4> QED
        BY <3>1, <4>2, <4>3 DEF Withdrawing
    <3> QED
      BY <3>1, <3>2, <3>4, <3>5, <3>6, <3>7 DEF Local, InOrder
  <2> QED
    BY <2>1, <2>2
<1> QED
  BY <1>1, <1>3, <1>4, <1>5 DEF TxInv

-----------------------------------------------------------------------------
(* No connection runs at first.                                            *)
LEMMA TxInitHolds == TxInit => TxInv
  BY InitType DEF TxInit, TxInv, TxTypeOK, LocksExclusive, Local, Idle

(* Every step keeps the invariant.                                         *)
LEMMA TxNextHolds == TxInv /\ [TxNext]_txVars => TxInv'
<1> SUFFICES ASSUME TxInv, [TxNext]_txVars PROVE TxInv'
  OBVIOUS
<1>1. CASE \E c \in Conns, b \in Batches, tok \in Tokens, p \in Payloads :
              BeginSubmit(c, b, tok, p)
  BY <1>1, BeginKeeps
<1>2. CASE \E c \in Conns, b \in Batches, tok \in Tokens : BeginWithdraw(c, b, tok)
  BY <1>2, BeginKeeps
<1>3. CASE \E c \in Conns : Step(c)
  BY <1>3, InsertKeeps, LookupKeeps, FindLiveKeeps, UpdateKeeps,
     UpdatesDoneKeeps, GiveUpKeeps, CommitKeeps DEF Step
<1>4. CASE \E c \in Conns : Abort(c)
  BY <1>4, GiveUpKeeps
<1>5. CASE TxNextDay
  BY <1>5, NextDayKeeps
<1>6. CASE UNCHANGED txVars
  <2>1. TypeOK'
    BY <1>6, NextType DEF TxInv, txVars
  <2>2. TxTypeOK' /\ LocksExclusive'
    BY <1>6 DEF txVars, TxInv, TxTypeOK, LocksExclusive
  <2>3. \A c \in Conns : Local(tx[c])'
    BY <1>6 DEF txVars, vars, server, TxInv, Local, Submission, Creating,
       Withdrawing, Settled, InOrder, Exists, WithdrawApplies, Live, Taken,
       RowCovers, StoredStatus, RefusedStatus
  <2> QED
    BY <2>1, <2>2, <2>3 DEF TxInv
<1> QED
  BY <1>1, <1>2, <1>3, <1>4, <1>5, <1>6 DEF TxNext

(* In every reachable state the locks are exclusive, and every running     *)
(* transaction knows of the tables what its statements have seen.          *)
THEOREM TxInvariance == TxSpec => []TxInv
  BY TxInitHolds, TxNextHolds, PTL DEF TxSpec

(* Every step of a transaction is one of the atomic functions or changes   *)
(* nothing they know.                                                      *)
LEMMA StepMaps == TxInv /\ [TxNext]_txVars => [Next]_vars
<1> SUFFICES ASSUME TxInv, [TxNext]_txVars PROVE [Next]_vars
  OBVIOUS
<1>1. ASSUME NEW c \in Conns, FindNothing(c) \/ Abort(c)
      PROVE  Next
  <2>1. tx[c].batch \in Batches /\ tx[c].token \in Tokens
    BY <1>1, BusyFields DEF FindNothing, Abort, Busy, TxInv
  <2>2. CASE FindNothing(c)
    <3>1. WithdrawRefused(tx[c].batch, tx[c].token)
      BY <2>2 DEF FindNothing, WithdrawRefused, WithdrawApplies, Live, RefusedStatus
    <3> QED
      BY <2>1, <3>1 DEF Next, Delete
  <2>3. CASE Abort(c)
    BY <2>1, <2>3 DEF Abort, Next
  <2> QED
    BY <1>1, <2>2, <2>3
<1>2. ASSUME NEW c \in Conns, Step(c)
      PROVE  [Next]_vars
  BY <1>1, <1>2, CommitCases DEF Step, InsertBatch, InsertConflict, LookupBatch,
     FindRefused, FindLive, UpdateRow, UpdatesDone
<1>3. CASE \E c \in Conns, b \in Batches, tok \in Tokens, p \in Payloads :
              BeginSubmit(c, b, tok, p)
  BY <1>3 DEF BeginSubmit
<1>4. CASE \E c \in Conns, b \in Batches, tok \in Tokens : BeginWithdraw(c, b, tok)
  BY <1>4 DEF BeginWithdraw
<1>5. CASE TxNextDay
  BY <1>5 DEF TxNextDay, Next
<1>6. CASE UNCHANGED txVars
  BY <1>6 DEF txVars
<1> QED
  BY <1>1, <1>2, <1>3, <1>4, <1>5, <1>6 DEF TxNext

(* Row by row execution implements the atomic functions.                   *)
THEOREM Implementation == TxSpec => ImplementsCommunityServer
<1>1. TxInit => Init
  BY DEF TxInit
<1> QED
  BY <1>1, StepMaps, TxInvariance, PTL DEF TxSpec, Spec, ImplementsCommunityServer

(* So what is proved of the atomic functions holds of the database: its    *)
(* tables, whatever transactions meet or fail, count and sum exactly the   *)
(* batches that are stored and not withdrawn, nothing below the threshold  *)
(* is published, and only its owner withdraws a batch.                     *)
THEOREM DatabaseCounts ==
    TxSpec => /\ []ContributionsMatchBatches /\ []CountsMatchBatches
              /\ []PublishedIsBacked /\ OnlyOwnerRemoves
  BY Implementation, ContributionsCorrect, CountsCorrect, PublishedBacked, OwnerOnly, PTL
     DEF ImplementsCommunityServer

-----------------------------------------------------------------------------
(* Deadlock.                                                               *)

Updating(c) == tx[c].pc = "update" /\ tx[c].todo # {}

NextRank(c) == Rank(NextRow(tx[c]))

(* A connection that has rows left to update waits only for one whose next *)
(* row comes later than its own.                                           *)
LEMMA WaitsUpwards ==
    ASSUME TxInv, NEW c \in Conns, NEW d \in Conns, Updating(c), Updating(d),
           RowKey(NextRow(tx[c])) \in tx[d].held
    PROVE  NextRank(c) < NextRank(d)
<1>1. /\ tx[c] \in Busy /\ tx[d] \in Busy /\ InOrder(tx[d])
      /\ tx[c].todo # {} /\ tx[d].todo # {}
  BY BusyFields DEF Updating, TxInv, Local
<1>2. /\ tx[c].todo \subseteq AggRows /\ tx[c].op \in {"submit", "withdraw"}
      /\ tx[d].todo \subseteq AggRows /\ tx[d].op \in {"submit", "withdraw"}
  BY <1>1 DEF Busy
<1>3. NextRow(tx[c]) \in AggRows /\ NextRow(tx[d]) \in tx[d].todo
  BY <1>1, <1>2, NextRowFirst
<1> QED
  BY <1>1, <1>3 DEF InOrder, NextRank

(* In a group of connections that all have rows left, one has a next row   *)
(* that comes no earlier than any other's.                                 *)
LEMMA LastInOrder ==
    ASSUME TxInv, NEW U \in SUBSET Conns, U # {}, \A c \in U : Updating(c)
    PROVE  \E c \in U : \A d \in U : ~(NextRank(c) < NextRank(d))
<1> DEFINE later(c) == {d \in U : NextRank(c) < NextRank(d)}
<1>1. \A c \in U : NextRank(c) \in Nat
  <2> TAKE c \in U
  <2>1. tx[c] \in Busy /\ Updating(c)
    BY BusyFields DEF Updating, TxInv
  <2>2. NextRow(tx[c]) \in AggRows
    BY <2>1, NextRowFirst DEF Updating, Busy
  <2> QED
    BY <2>2, RankFields DEF NextRank
<1>2. \A c \in U : IsFiniteSet(later(c)) /\ Cardinality(later(c)) \in Nat
  <2> TAKE c \in U
  <2>1. later(c) \in SUBSET Conns
    OBVIOUS
  <2> QED
    BY <2>1, ConnsAssumption, FS_Subset, FS_CardinalityType
<1> DEFINE sizes == {Cardinality(later(c)) : c \in U}
<1>3. PICK n \in sizes : \A m \in sizes : n <= m
  <2>1. sizes \subseteq Nat /\ sizes # {}
    BY <1>2
  <2> HIDE DEF sizes
  <2> QED
    BY <2>1, Least
<1>4. PICK c \in U : Cardinality(later(c)) = n
  BY <1>3
<1>5. ASSUME NEW d \in U, NextRank(c) < NextRank(d) PROVE FALSE
  <2>1. later(d) \subseteq later(c) /\ d \in later(c) /\ d \notin later(d)
    BY <1>1, <1>5
  <2>2. Cardinality(later(d)) < Cardinality(later(c))
    <3>1. later(d) # later(c)
      BY <2>1
    <3> HIDE DEF later
    <3> QED
      BY <1>2, <2>1, <3>1, FS_Subset
  <2>3. n <= Cardinality(later(d))
    BY <1>3
  <2> HIDE DEF later
  <2> QED
    BY <1>2, <1>4, <2>2, <2>3
<1> QED
  BY <1>5

(* The connection of a group whose next row comes last waits for none of   *)
(* them; one that waits for a batch holds nothing another could wait for.  *)
LEMMA TxInvNoDeadlock == TxInv => NoDeadlock
<1> SUFFICES ASSUME TxInv, NEW group \in SUBSET Conns, group # {}
             PROVE  \E c \in group : WaitsFor(c) \cap group = {}
  BY DEF NoDeadlock
<1>1. CASE \E c \in group : Wanted(c) = {}
  BY <1>1 DEF WaitsFor
<1>2. CASE \A c \in group : Wanted(c) # {}
  <2> DEFINE U == {c \in group : Updating(c)}
  <2>1. \A d \in group \ U : tx[d].held = {}
    <3> TAKE d \in group \ U
    <3>1. Local(tx[d]) /\ Wanted(d) # {} /\ ~Updating(d)
      BY <1>2 DEF TxInv
    <3> QED
      BY <3>1 DEF Local, Wanted, Updating
  <2>2. CASE U = {}
    <3>1. PICK c \in group : TRUE
      OBVIOUS
    <3>2. WaitsFor(c) \cap group = {}
      BY <2>1, <2>2 DEF WaitsFor
    <3> QED
      BY <3>2
  <2>3. CASE U # {}
    <3>1. PICK c \in U : \A d \in U : ~(NextRank(c) < NextRank(d))
      BY <2>3, LastInOrder
    <3>2. Wanted(c) = {RowKey(NextRow(tx[c]))}
      BY <3>1 DEF Updating, Wanted
    <3>3. ASSUME NEW d \in group, d \in WaitsFor(c) PROVE FALSE
      <4>1. RowKey(NextRow(tx[c])) \in tx[d].held
        BY <3>2, <3>3 DEF WaitsFor
      <4>2. d \in U
        BY <2>1, <4>1
      <4> QED
        BY <3>1, <4>1, <4>2, WaitsUpwards
    <3> QED
      BY <3>1, <3>3
  <2> QED
    BY <2>2, <2>3
<1> QED
  BY <1>1, <1>2

(* However many connections submit and withdraw at once, in every group of *)
(* them one waits for nobody in the group.                                 *)
THEOREM DeadlockFree == TxSpec => []NoDeadlock
  BY TxInvariance, TxInvNoDeadlock, PTL

-----------------------------------------------------------------------------
(* Withdrawals on their way.                                               *)

(* The rows of a live batch keep what it was counted for, and the lock of  *)
(* the batch keeps it live while its withdrawal runs.                      *)
LEMMA WithdrawingIsCovered ==
    ASSUME TxInv, CountsInv, NEW c \in Conns,
           tx[c].pc = "update", tx[c].op = "withdraw", NEW r \in tx[c].todo
    PROVE  RowCovers(r.scope, r.shortcut, tx[c].payload.items[r.shortcut])
<1> DEFINE t == tx[c]
           row == batches[t.batch]
<1>1. t \in Busy /\ Local(t)
  BY BusyFields DEF TxInv
<1>2. Withdrawing(t) /\ t.todo \subseteq RowsOf(t.payload, t.day)
  BY <1>1 DEF Local, InOrder, Creating, Submission
<1>3. /\ Live(t.batch) /\ t.batch \in Batches
      /\ t.payload = Taken(t.batch) /\ t.day = row.day
  BY <1>1, <1>2 DEF Withdrawing, WithdrawApplies, Busy
<1>4. row \in Rows /\ t.payload = row.payload
  BY <1>3, LiveItems DEF TxInv
<1>5. row.payload \in Payloads /\ row.day \in Days
  BY <1>4, RowFields
<1>6. r \in RowsOf(row.payload, row.day) /\ r \in AggRows
  BY <1>2, <1>3, <1>4, <1>5, RowsOfBatch
<1>7. /\ r.scope \in Scopes /\ r.shortcut \in Shortcuts
      /\ Touched(r.scope, r.shortcut, row.payload, row.day)
  BY <1>6 DEF AggRows, RowsOf, Touched
<1> QED
  BY <1>3, <1>4, <1>7, LiveIsCovered

(* Whatever other transactions commit meanwhile, a withdrawal always finds *)
(* every row it has yet to update large enough: the RAISE lines of the     *)
(* function are unreachable.                                               *)
THEOREM RowsCovered == TxSpec => []RowsStayCovered
<1>1. TxSpec => []CountsInv
  BY Implementation, CountsInvariant, PTL DEF ImplementsCommunityServer
<1>2. TxInv /\ CountsInv => RowsStayCovered
  BY WithdrawingIsCovered DEF RowsStayCovered
<1> QED
  BY <1>1, <1>2, TxInvariance, PTL

-----------------------------------------------------------------------------
(* Sharing.                                                                *)

(* The types of a device's state.                                          *)
Stores == [enabled : BOOLEAN, pending : Batches \cup {None},
           receipts : SUBSET Batches, withdrawn : SUBSET Events]

Pcs == {"idle", "review", "saving", "saved", "connecting", "submitting",
        "withdrawing", "deleting", "clearing"}

Purposes == {"none", "toggle", "save", "finish", "remove", "clear"}

Confirmed == {"withdrawn", "already_withdrawn"}

Answers == Confirmed \cup {"none", "timeout", "created", "duplicate", "conflict",
                           "not_found", "forbidden", "server_error"}

ScreenStates ==
    [open : BOOLEAN, pc : Pcs, store : Stores, draft : SUBSET Events,
     writing : Purposes,
     before : Stores, todo : SUBSET Batches, target : Batches \cup {None},
     request : Nat, answer : Answers]

Requests == [id : Nat, op : {"post", "delete"}, batch : Batches]

DeviceType ==
    /\ clicks \subseteq made /\ made \subseteq Events
    /\ eventsOf \in [Batches -> SUBSET made]
    /\ disk \in Stores
    /\ screen \in [Screens -> ScreenStates]
    /\ net \subseteq Requests
    /\ sent \in Nat
    /\ settled \in SUBSET Batches

(* The batches that a store names, those that are on the server or on      *)
(* their way to it, and those that the server has withdrawn.               *)
Held(store) == store.receipts \cup ({store.pending} \ {None})

Out == {b \in Batches : Exists(b) \/ \E m \in net : m.op = "post" /\ m.batch = b}

Gone == {b \in Batches : Exists(b) /\ batches[b].withdrawn}

(***************************************************************************)
(* A store is sound, given the events of the batches, when it names every  *)
(* batch that is out, or has kept the events of one that was withdrawn,    *)
(* and when no two batches that are named or out share an event.           *)
(***************************************************************************)
Sound(store, events, out, gone) ==
    /\ \A b \in out : b \in Held(store) \/ (b \in gone /\ events[b] \subseteq store.withdrawn)
    /\ \A b \in Held(store) \cup out : events[b] # {}
    /\ \A b, c \in Held(store) \cup out : b # c => events[b] \cap events[c] = {}
    /\ store.pending \notin store.receipts

SameBatches(store1, store2) ==
    /\ store1.pending = store2.pending
    /\ store1.receipts = store2.receipts
    /\ store1.withdrawn = store2.withdrawn

(* A store that no settled batch is pending in.                            *)
Good(store) ==
    Sound(store, eventsOf, Out, Gone) /\ store.pending \notin settled

(* One store names what is pending in another.                             *)
Names(file, store) == store.pending # None => store.pending \in Held(file)

(* What an operation makes of a store.                                     *)
Follows(store, before) ==
    Names(store, before) /\ store.pending \notin before.receipts

Awake(scr) == scr.open \/ scr.pc # "idle"

(***************************************************************************)
(* What a dashboard relies on between two of its awaits: its store is as   *)
(* good as the one on disk, which a failed write may have left behind or   *)
(* ahead of it, and the disk names the batch that is pending in it; a      *)
(* write other than that of the switch blocks it; a draft holds no event   *)
(* that was ever offered; the batch of a connection is the pending one;    *)
(* and an answer to a DELETE is about the batch it was sent for.           *)
(***************************************************************************)
Dash(scr) ==
    /\ Awake(scr) \/ scr.writing # "none" => Good(scr.store)
    /\ Awake(scr) /\ scr.writing = "none" => Names(disk, scr.store)
    /\ scr.writing # "none" =>
          /\ Good(scr.before) /\ Names(disk, scr.before)
          /\ Follows(scr.store, scr.before)
    /\ scr.writing \notin {"none", "toggle"} => scr.pc = "saving"
    /\ scr.writing = "toggle" => SameBatches(scr.store, scr.before)
    /\ scr.pc = "review" =>
          /\ scr.draft # {} /\ scr.draft \subseteq made
          /\ Cardinality(scr.draft) <= MaxTotal
          /\ scr.draft \cap Submitted(scr.store) = {}
          /\ scr.store.pending = None
    /\ scr.pc = "connecting" =>
          scr.target = scr.store.pending /\ scr.target # None
    /\ scr.pc = "deleting" =>
          /\ \A m \in net : m.id = scr.request => m.op = "delete" /\ m.batch = scr.target
          /\ scr.answer \in Confirmed => scr.target \in Gone

SharingInv ==
    /\ TypeOK
    /\ DeviceType
    /\ \A b \in Batches : Cardinality(eventsOf[b]) <= MaxTotal
    /\ \A b \in Batches : Exists(b) => batches[b].payload = PayloadOf(b)
    /\ \A m \in net : m.id <= sent
    /\ Good(disk)
    /\ \A b \in settled : eventsOf[b] # {}
    /\ \A s \in Screens : Dash(screen[s])
-----------------------------------------------------------------------------
(* Sound stores.                                                           *)

(* A store names batches.                                                  *)
LEMMA HeldBatches ==
    ASSUME NEW store \in Stores
    PROVE  /\ Held(store) \subseteq Batches
           /\ store.pending = None \/ store.pending \in Held(store)
           /\ store.receipts \subseteq Held(store)
           /\ store.pending \in Batches \cup {None}
  BY DEF Stores, Held

(* With less out, more withdrawn and the same events, a store stays sound. *)
LEMMA SoundLess ==
    ASSUME NEW store, NEW events, NEW events2, NEW out, NEW out2, NEW gone, NEW gone2,
           Sound(store, events, out, gone),
           out2 \subseteq out \cup Held(store), gone \subseteq gone2,
           \A b \in Held(store) \cup out : events2[b] = events[b]
    PROVE  Sound(store, events2, out2, gone2)
  BY DEF Sound

(* The switch does not matter to soundness.                                *)
LEMMA SoundSame ==
    ASSUME NEW store, NEW store2, NEW events, NEW out, NEW gone,
           Sound(store, events, out, gone), SameBatches(store2, store)
    PROVE  Sound(store2, events, out, gone) /\ Held(store2) = Held(store)
  BY DEF Sound, Held, SameBatches

(* What a receipt changes in a store.                                      *)
LEMMA ReceiptFields ==
    ASSUME NEW store \in Stores
    PROVE  /\ AfterReceipt(store) \in Stores
           /\ Held(AfterReceipt(store)) = Held(store)
           /\ AfterReceipt(store).withdrawn = store.withdrawn
           /\ AfterReceipt(store).pending = None
<1>1. CASE store.pending = None
  BY <1>1 DEF AfterReceipt
<1>2. CASE store.pending # None
  <2> DEFINE kept == [store EXCEPT !.receipts = @ \cup {store.pending}]
  <2>1. /\ kept \in Stores /\ kept.receipts = store.receipts \cup {store.pending}
        /\ kept.withdrawn = store.withdrawn /\ kept.pending = store.pending
    BY <1>2 DEF Stores
  <2>2. AfterReceipt(store) = [kept EXCEPT !.pending = None]
    BY <1>2 DEF AfterReceipt
  <2> HIDE DEF kept
  <2>3. /\ AfterReceipt(store) \in Stores
        /\ AfterReceipt(store).receipts = kept.receipts
        /\ AfterReceipt(store).withdrawn = kept.withdrawn
        /\ AfterReceipt(store).pending = None
    BY <2>1, <2>2 DEF Stores
  <2> QED
    BY <1>2, <2>1, <2>3 DEF Held
<1> QED
  BY <1>1, <1>2

(* A pending batch that becomes a receipt is still named.                  *)
LEMMA SoundReceipt ==
    ASSUME NEW store \in Stores, NEW events, NEW out, NEW gone,
           Sound(store, events, out, gone)
    PROVE  Sound(AfterReceipt(store), events, out, gone)
<1>1. None \notin AfterReceipt(store).receipts
  BY ReceiptFields, NoneAssumption DEF Stores
<1> QED
  BY <1>1, ReceiptFields DEF Sound

(* What the removal of a receipt changes in a store.                       *)
LEMMA RemoveFields ==
    ASSUME NEW store \in Stores, DeviceType, NEW b \in Batches
    PROVE  LET left == AfterRemoveReceipt(store, b)
           IN  /\ left \in Stores
               /\ left.receipts = store.receipts \ {b}
               /\ left.withdrawn = store.withdrawn \cup eventsOf[b]
               /\ left.pending = store.pending
<1> DEFINE fewer == [store EXCEPT !.receipts = @ \ {b}]
           left == AfterRemoveReceipt(store, b)
<1>1. /\ fewer \in Stores /\ fewer.receipts = store.receipts \ {b}
      /\ fewer.withdrawn = store.withdrawn /\ fewer.pending = store.pending
  BY DEF Stores
<1>2. left = [fewer EXCEPT !.withdrawn = store.withdrawn \cup eventsOf[b]]
  BY DEF AfterRemoveReceipt
<1>3. store.withdrawn \cup eventsOf[b] \subseteq Events
  BY DEF Stores, DeviceType
<1> HIDE DEF fewer, left
<1>4. /\ left \in Stores /\ left.receipts = fewer.receipts
      /\ left.withdrawn = store.withdrawn \cup eventsOf[b]
      /\ left.pending = fewer.pending
  BY <1>1, <1>2, <1>3 DEF Stores
<1> QED
  BY <1>1, <1>4 DEF left

(* A receipt may go once the server has withdrawn its batch.               *)
LEMMA SoundRemove ==
    ASSUME NEW store \in Stores, DeviceType, NEW out, NEW gone, NEW b \in Batches,
           Sound(store, eventsOf, out, gone), b \in gone
    PROVE  Sound(AfterRemoveReceipt(store, b), eventsOf, out, gone)
<1> DEFINE left == AfterRemoveReceipt(store, b)
<1>1. /\ left.receipts = store.receipts \ {b}
      /\ left.withdrawn = store.withdrawn \cup eventsOf[b]
      /\ left.pending = store.pending
  BY RemoveFields
<1> HIDE DEF left
<1>2. Held(left) \subseteq Held(store) /\ Held(store) \subseteq Held(left) \cup {b}
  BY <1>1 DEF Held
<1>3. Sound(left, eventsOf, out, gone)
  BY <1>1, <1>2 DEF Sound
<1> QED
  BY <1>3 DEF left

(* What a pending batch changes in a store.                                *)
LEMMA SaveFields ==
    ASSUME NEW store \in Stores, NEW b \in Batches
    PROVE  LET saved == AfterSavePending(store, b)
           IN  /\ saved \in Stores
               /\ saved.receipts = store.receipts
               /\ saved.withdrawn = store.withdrawn
               /\ saved.pending = b
  BY DEF AfterSavePending, Stores

(* Everything named or out was offered, unless it was never sound.         *)
LEMMA SubmittedEvents ==
    ASSUME NEW store \in Stores, NEW out, NEW gone, Sound(store, eventsOf, out, gone),
           NEW b \in Held(store) \cup out
    PROVE  eventsOf[b] \subseteq Submitted(store)
<1>1. \/ b \in store.receipts
      \/ b = store.pending /\ b # None
      \/ eventsOf[b] \subseteq store.withdrawn
  BY DEF Held, Sound
<1> SUFFICES ASSUME NEW e \in eventsOf[b] PROVE e \in Submitted(store)
  OBVIOUS
<1>2. CASE b \in store.receipts
  <2>1. eventsOf[b] \in {eventsOf[c] : c \in store.receipts}
    BY <1>2
  <2>2. e \in UNION {eventsOf[c] : c \in store.receipts}
    BY <2>1
  <2> QED
    BY <2>2 DEF Submitted
<1>3. CASE b = store.pending /\ b # None
  BY <1>3 DEF Submitted
<1>4. CASE eventsOf[b] \subseteq store.withdrawn
  BY <1>4 DEF Submitted
<1> QED
  BY <1>1, <1>2, <1>3, <1>4

(* A new batch of events that were never offered can be pending.           *)
LEMMA SoundSave ==
    ASSUME NEW store \in Stores, NEW out, NEW gone, NEW b \in Batches, NEW draft,
           Sound(store, eventsOf, out, gone), DeviceType, out \subseteq Batches,
           store.pending = None, eventsOf[b] = {},
           draft # {}, draft \cap Submitted(store) = {}
    PROVE  Sound(AfterSavePending(store, b), [eventsOf EXCEPT ![b] = draft], out, gone)
<1> DEFINE saved == AfterSavePending(store, b)
           events == [eventsOf EXCEPT ![b] = draft]
           named == Held(store) \cup out
<1>1. b \notin named
  BY DEF Sound
<1>2. \A c \in named : c \in Batches /\ c # b /\ events[c] = eventsOf[c]
  BY <1>1, HeldBatches DEF DeviceType
<1>3. events[b] = draft
  BY DEF DeviceType
<1>4. \A c \in named : draft \cap eventsOf[c] = {}
  BY SubmittedEvents
<1>5. /\ saved.receipts = store.receipts /\ saved.withdrawn = store.withdrawn
      /\ saved.pending = b
  BY SaveFields
<1>6. Held(saved) = Held(store) \cup {b}
  BY <1>5, NoneAssumption DEF Held
<1> HIDE DEF events, saved
<1>7. \A c \in out : \/ c \in Held(saved)
                     \/ c \in gone /\ events[c] \subseteq saved.withdrawn
  BY <1>2, <1>5, <1>6 DEF Sound
<1>8. \A c \in Held(saved) \cup out : events[c] # {}
  BY <1>2, <1>3, <1>6 DEF Sound
<1>9. \A c, d \in Held(saved) \cup out : c # d => events[c] \cap events[d] = {}
  BY <1>2, <1>3, <1>4, <1>6 DEF Sound
<1>10. saved.pending \notin saved.receipts
  BY <1>1, <1>5 DEF Held
<1>11. Sound(saved, events, out, gone)
  BY <1>7, <1>8, <1>9, <1>10 DEF Sound
<1> QED
  BY <1>11 DEF saved, events

(* A batch that may be pending in a store is none that has its receipt.    *)
LEMMA GoodFields ==
    ASSUME NEW store, Good(store)
    PROVE  /\ Sound(store, eventsOf, Out, Gone)
           /\ store.pending \notin store.receipts
           /\ store.pending \notin settled
  BY DEF Good, Sound

-----------------------------------------------------------------------------
(* How the operations change the state of a screen.                        *)

(* The fields that a dashboard's operations leave alone.                   *)
LEMMA PcSet ==
    ASSUME NEW r \in ScreenStates, NEW pc \in Pcs, NEW q, q = [r EXCEPT !.pc = pc]
    PROVE  /\ q \in ScreenStates /\ q.pc = pc /\ q.open = r.open /\ q.store = r.store
           /\ q.draft = r.draft /\ q.writing = r.writing /\ q.before = r.before
           /\ q.target = r.target /\ q.request = r.request /\ q.answer = r.answer
  BY DEF ScreenStates

(* What is left of a handler that has returned.                            *)
LEMMA AtRestFields ==
    ASSUME NEW r \in ScreenStates
    PROVE  LET q == AtRest(r)
           IN  /\ q \in ScreenStates /\ q.pc = "idle" /\ q.open = r.open
               /\ q.store = r.store /\ q.writing = r.writing /\ q.before = r.before
  BY DEF AtRest, ScreenStates, Pcs, Answers

(* A dashboard begins to write its store.                                  *)
LEMMA Mutated ==
    ASSUME DeviceType, NEW s \in Screens, NEW store \in Stores, NEW purpose \in Purposes,
           NEW pc \in Pcs, Mutate(s, store, purpose, pc)
    PROVE  LET q == screen'[s]
           IN  /\ screen' \in [Screens -> ScreenStates]
               /\ \A r \in Screens \ {s} : screen'[r] = screen[r]
               /\ screen[s].writing = "none"
               /\ q.pc = pc /\ q.store = store /\ q.before = screen[s].store
               /\ q.writing = purpose
               /\ q.open = screen[s].open /\ q.draft = screen[s].draft
               /\ q.target = screen[s].target /\ q.request = screen[s].request
               /\ q.answer = screen[s].answer
<1> DEFINE q == [screen[s] EXCEPT !.store = store, !.before = screen[s].store,
                                  !.writing = purpose, !.pc = pc]
<1>1. screen' = [screen EXCEPT ![s] = q] /\ screen[s].writing = "none"
  BY DEF Mutate, DeviceType
<1>2. screen[s] \in ScreenStates /\ screen[s].store \in Stores
  BY DEF DeviceType, ScreenStates
<1>3. /\ q \in ScreenStates
      /\ q.pc = pc /\ q.store = store /\ q.before = screen[s].store
      /\ q.writing = purpose
      /\ q.open = screen[s].open /\ q.draft = screen[s].draft
      /\ q.target = screen[s].target /\ q.request = screen[s].request
      /\ q.answer = screen[s].answer
  BY <1>2 DEF ScreenStates
<1> HIDE DEF q
<1>4. /\ screen' \in [Screens -> ScreenStates] /\ screen'[s] = q
      /\ \A r \in Screens \ {s} : screen'[r] = screen[r]
  BY <1>1, <1>3 DEF DeviceType
<1> QED
  BY <1>1, <1>3, <1>4

(* A dashboard sends a request and waits for the answer.                   *)
LEMMA Sent ==
    ASSUME DeviceType, NEW s \in Screens, NEW op, NEW b \in Batches, NEW pc \in Pcs,
           Send(s, op, b, pc)
    PROVE  LET q == screen'[s]
           IN  /\ screen' \in [Screens -> ScreenStates]
               /\ \A r \in Screens \ {s} : screen'[r] = screen[r]
               /\ sent' = sent + 1
               /\ net' = net \cup {[id |-> sent + 1, op |-> op, batch |-> b]}
               /\ q.pc = pc /\ q.request = sent + 1 /\ q.answer = "none" /\ q.target = b
               /\ q.store = screen[s].store /\ q.before = screen[s].before
               /\ q.writing = screen[s].writing
               /\ q.open = screen[s].open /\ q.draft = screen[s].draft
<1> DEFINE q == [screen[s] EXCEPT !.pc = pc, !.request = sent + 1, !.answer = "none",
                                  !.target = b]
<1>1. /\ screen' = [screen EXCEPT ![s] = q] /\ sent' = sent + 1
      /\ net' = net \cup {[id |-> sent + 1, op |-> op, batch |-> b]}
  BY DEF Send, DeviceType
<1>2. screen[s] \in ScreenStates /\ sent + 1 \in Nat
  BY DEF DeviceType
<1>3. /\ q \in ScreenStates
      /\ q.pc = pc /\ q.request = sent + 1 /\ q.answer = "none" /\ q.target = b
      /\ q.store = screen[s].store /\ q.before = screen[s].before
      /\ q.writing = screen[s].writing
      /\ q.open = screen[s].open /\ q.draft = screen[s].draft
  BY <1>2 DEF ScreenStates, Answers
<1> HIDE DEF q
<1>4. /\ screen' \in [Screens -> ScreenStates] /\ screen'[s] = q
      /\ \A r \in Screens \ {s} : screen'[r] = screen[r]
  BY <1>1, <1>3 DEF DeviceType
<1> QED
  BY <1>1, <1>3, <1>4

(* Where a dashboard goes on after its write.                              *)
LEMMA ResumedFields ==
    ASSUME NEW r \in ScreenStates, r.writing # "none", NEW ok \in BOOLEAN
    PROVE  LET q == Resumed(r, ok)
           IN  /\ q \in ScreenStates
               /\ q.writing = "none" /\ q.store = r.store /\ q.open = r.open
               /\ IF r.writing = "toggle"
                  THEN /\ q.pc = r.pc /\ q.draft = r.draft /\ q.target = r.target
                       /\ q.request = r.request /\ q.answer = r.answer
                  ELSE q.pc \in {"idle", "saved", "clearing", "withdrawing"}
<1> DEFINE ended == [r EXCEPT !.writing = "none"]
           done == [ended EXCEPT !.before = EmptyStore]
<1>1. EmptyStore \in Stores
  BY DEF EmptyStore, Stores
<1>2. /\ ended \in ScreenStates /\ ended.pc = r.pc /\ ended.writing = "none"
      /\ ended.store = r.store /\ ended.open = r.open /\ ended.draft = r.draft
      /\ ended.target = r.target /\ ended.request = r.request /\ ended.answer = r.answer
  BY DEF ScreenStates, Purposes
<1> HIDE DEF ended
<1>3. /\ done \in ScreenStates /\ done.pc = r.pc /\ done.writing = "none"
      /\ done.store = r.store /\ done.open = r.open /\ done.draft = r.draft
      /\ done.target = r.target /\ done.request = r.request /\ done.answer = r.answer
  BY <1>1, <1>2 DEF ScreenStates
<1> HIDE DEF done
<1>4. Resumed(r, ok) =
        CASE r.writing = "toggle" -> done
          [] r.writing = "save"   -> IF ok THEN [done EXCEPT !.pc = "saved"] ELSE AtRest(done)
          [] r.writing = "finish" -> AtRest(done)
          [] r.writing = "clear"  -> IF ok THEN [done EXCEPT !.pc = "clearing"] ELSE AtRest(done)
          [] r.writing = "remove" ->
                [done EXCEPT !.pc = "withdrawing", !.todo = @ \ {r.target}]
  BY DEF Resumed, done, ended
<1>5. CASE r.writing = "toggle"
  BY <1>3, <1>4, <1>5
<1>6. CASE Resumed(r, ok) = AtRest(done) /\ r.writing # "toggle"
  BY <1>3, <1>6, AtRestFields
<1>7. CASE /\ r.writing # "toggle"
           /\ \E pc \in {"saved", "clearing"} : Resumed(r, ok) = [done EXCEPT !.pc = pc]
  <2>1. PICK pc \in {"saved", "clearing"} : Resumed(r, ok) = [done EXCEPT !.pc = pc]
    BY <1>7
  <2>2. pc \in Pcs
    BY DEF Pcs
  <2> QED
    BY <1>3, <1>7, <2>1, <2>2, PcSet
<1>8. CASE r.writing = "remove"
  <2> DEFINE back == [done EXCEPT !.pc = "withdrawing"]
  <2>1. Resumed(r, ok) = [back EXCEPT !.todo = @ \ {r.target}]
    BY <1>4, <1>8
  <2>2. "withdrawing" \in Pcs
    BY DEF Pcs
  <2>3. /\ back \in ScreenStates /\ back.pc = "withdrawing" /\ back.open = r.open
        /\ back.store = r.store /\ back.writing = "none"
    BY <1>3, <2>2, PcSet
  <2> HIDE DEF back
  <2>4. LET q == [back EXCEPT !.todo = @ \ {r.target}]
        IN  /\ q \in ScreenStates /\ q.pc = "withdrawing" /\ q.open = r.open
            /\ q.store = r.store /\ q.writing = "none"
    BY <2>3 DEF ScreenStates
  <2> QED
    BY <1>8, <2>1, <2>4
<1>9. r.writing \in Purposes
  BY DEF ScreenStates
<1>10. CASE r.writing \in {"save", "finish", "clear"}
  <2>1. \/ Resumed(r, ok) = AtRest(done)
        \/ Resumed(r, ok) = [done EXCEPT !.pc = "saved"]
        \/ Resumed(r, ok) = [done EXCEPT !.pc = "clearing"]
    BY <1>4, <1>10
  <2> QED
    BY <1>6, <1>7, <1>10, <2>1
<1> QED
  BY <1>5, <1>8, <1>9, <1>10 DEF Purposes

-----------------------------------------------------------------------------
(* Steps that change only the dashboards, or the clicks kept.              *)

(* What a quiet step leaves alone.                                         *)
Quiet ==
    /\ UNCHANGED <<vars, eventsOf, disk, net, sent, made, settled>>
    /\ clicks' \subseteq made
    /\ screen' \in [Screens -> ScreenStates]

(* Steps that change screens only, and keep all in order.                  *)
LEMMA QuietKeeps ==
    ASSUME SharingInv, Quiet, \A s \in Screens : Dash(screen'[s])
    PROVE  SharingInv'
<1>1. Out' = Out /\ Gone' = Gone
  BY DEF Quiet, Out, Gone, Exists, vars, server
<1>2. TypeOK' /\ DeviceType'
  <2>1. [Next]_vars
    BY DEF Quiet
  <2>2. TypeOK'
    BY <2>1, NextType DEF SharingInv
  <2>3. DeviceType'
    BY DEF SharingInv, DeviceType, Quiet
  <2> QED
    BY <2>2, <2>3
<1>3. UNCHANGED <<eventsOf, disk, net, made, settled>>
  BY DEF Quiet
<1>4. \A s \in Screens : Dash(screen[s])'
  <2> SUFFICES ASSUME NEW s \in Screens PROVE Dash(screen[s])'
    OBVIOUS
  <2>1. Dash(screen'[s])
    OBVIOUS
  <2> QED
    BY <1>1, <1>3, <2>1 DEF Dash, Good, Names, Follows, Held, Sound, Submitted, Awake,
                             SameBatches
<1>5. Good(disk)'
  BY <1>1, <1>3 DEF SharingInv, Good, Sound, Held
<1>6. \A b \in Batches : Exists(b)' => batches'[b].payload = PayloadOf(b)'
  BY DEF SharingInv, Exists, PayloadOf, ItemsOf, Quiet, vars, server
<1>7. \A b \in settled' : eventsOf'[b] # {}
  BY <1>3 DEF SharingInv
<1> QED
  BY <1>2, <1>4, <1>5, <1>6, <1>7 DEF SharingInv, Quiet

(* Such a step keeps the invariant when it keeps the screen in order.      *)
LEMMA QuietStep ==
    ASSUME SharingInv, Quiet, NEW s \in Screens, Dash(screen'[s]),
           \A r \in Screens \ {s} : screen'[r] = screen[r]
    PROVE  SharingInv'
<1>1. ASSUME NEW r \in Screens PROVE Dash(screen'[r])
  <2>1. CASE r = s
    BY <2>1
  <2>2. CASE r # s
    <3>1. screen'[r] = screen[r] /\ Dash(screen[r])
      BY <2>2 DEF SharingInv
    <3> QED
      BY <3>1
  <2> QED
    BY <2>1, <2>2
<1> QED
  BY <1>1, QuietKeeps

(* A dashboard that is not writing, or only its switch, may go on with     *)
(* anything but a review or an answer.                                     *)
LEMMA GoesOn ==
    ASSUME SharingInv, NEW s \in Screens, Awake(screen[s]), screen[s].pc # "saving",
           NEW q \in ScreenStates, q.pc \notin {"review", "connecting", "deleting"},
           q.open = screen[s].open, q.store = screen[s].store,
           q.before = screen[s].before, q.writing = screen[s].writing
    PROVE  Dash(q)
<1>1. Dash(screen[s])
  BY DEF SharingInv
<1> QED
  BY <1>1 DEF Dash, Awake

(* The screen's state where it is replaced by q.                           *)
LEMMA Put ==
    ASSUME DeviceType, NEW s \in Screens, NEW q \in ScreenStates,
           screen' = [screen EXCEPT ![s] = q]
    PROVE  /\ screen' \in [Screens -> ScreenStates] /\ screen'[s] = q
           /\ \A r \in Screens \ {s} : screen'[r] = screen[r]
  BY DEF DeviceType

(* A step of a dashboard to another pc, without any other effect.          *)
LEMMA PcStep ==
    ASSUME SharingInv, NEW s \in Screens, Awake(screen[s]), screen[s].pc # "saving",
           NEW q \in ScreenStates, q.pc \notin {"review", "connecting", "deleting"},
           q.open = screen[s].open, q.store = screen[s].store,
           q.before = screen[s].before, q.writing = screen[s].writing,
           screen' = [screen EXCEPT ![s] = q],
           UNCHANGED <<vars, eventsOf, disk, net, sent, made, settled>>, clicks' \subseteq made
    PROVE  SharingInv'
<1>1. DeviceType
  BY DEF SharingInv
<1>2. /\ screen' \in [Screens -> ScreenStates] /\ screen'[s] = q
      /\ \A r \in Screens \ {s} : screen'[r] = screen[r]
  BY <1>1, Put
<1>3. Dash(q)
  BY GoesOn
<1>4. Quiet /\ Dash(screen'[s])
  BY <1>2, <1>3 DEF Quiet
<1> QED
  BY <1>2, <1>4, QuietStep

(* The clicks shown were made.                                             *)
LEMMA ClicksMade == SharingInv => clicks \subseteq made
  BY DEF SharingInv, DeviceType

(* The steps that only go on to another await.                             *)
LEMMA PcSteps ==
    ASSUME SharingInv, NEW s \in Screens,
           \/ Dismiss(s) \/ SubmitSkipped(s) \/ SubmitFailed(s)
           \/ Erase(s) \/ WithdrawDone(s)
           \/ Clear(s) /\ screen[s].store.pending = None
    PROVE  SharingInv'
<1>1. DeviceType /\ screen[s] \in ScreenStates /\ clicks \subseteq made
  BY DEF SharingInv, DeviceType
<1>2. /\ Awake(screen[s]) /\ screen[s].pc # "saving"
      /\ UNCHANGED <<vars, eventsOf, disk, net, sent, made, settled>>
      /\ clicks' \subseteq made
      /\ \/ screen' = [screen EXCEPT ![s] = AtRest(screen[s])]
         \/ screen' = [screen EXCEPT ![s].pc = "clearing"]
  BY <1>1 DEF Dismiss, SubmitSkipped, SubmitFailed, Erase, WithdrawDone, Clear, Awake
<1>3. CASE screen' = [screen EXCEPT ![s] = AtRest(screen[s])]
  <2> DEFINE q == AtRest(screen[s])
  <2>1. /\ q \in ScreenStates /\ q.pc = "idle" /\ q.open = screen[s].open
        /\ q.store = screen[s].store /\ q.before = screen[s].before
        /\ q.writing = screen[s].writing /\ screen' = [screen EXCEPT ![s] = q]
    BY <1>1, <1>3, AtRestFields
  <2> HIDE DEF q
  <2> QED
    BY <1>2, <2>1, PcStep
<1>4. CASE screen' = [screen EXCEPT ![s].pc = "clearing"]
  <2> DEFINE q == [screen[s] EXCEPT !.pc = "clearing"]
  <2>1. "clearing" \in Pcs
    BY DEF Pcs
  <2>2. /\ q \in ScreenStates /\ q.pc = "clearing" /\ q.open = screen[s].open
        /\ q.store = screen[s].store /\ q.before = screen[s].before
        /\ q.writing = screen[s].writing
    BY <1>1, <2>1, PcSet
  <2>3. screen' = [screen EXCEPT ![s] = q]
    BY <1>1, <1>4 DEF DeviceType
  <2> HIDE DEF q
  <2> QED
    BY <1>2, <2>2, <2>3, PcStep
<1> QED
  BY <1>2, <1>3, <1>4

(* A submission takes the batch that is pending.                           *)
LEMMA SubmitKeeps == ASSUME SharingInv, NEW s \in Screens, Submit(s) PROVE SharingInv'
<1> DEFINE b == screen[s].store.pending
           q == [screen[s] EXCEPT !.pc = "connecting", !.target = b]
<1>1. /\ DeviceType /\ screen[s] \in ScreenStates /\ clicks \subseteq made
      /\ Dash(screen[s])
  BY DEF SharingInv, DeviceType
<1>2. /\ screen' = [screen EXCEPT ![s] = q]
      /\ UNCHANGED <<vars, clicks, eventsOf, disk, net, sent, made, settled>>
      /\ Awake(screen[s]) /\ screen[s].pc # "saving" /\ b # None
  BY <1>1 DEF Submit, Awake, DeviceType
<1>3. b \in Batches \cup {None}
  BY <1>1 DEF ScreenStates, Stores
<1>4. /\ q \in ScreenStates /\ q.pc = "connecting" /\ q.open = screen[s].open
      /\ q.store = screen[s].store /\ q.before = screen[s].before
      /\ q.writing = screen[s].writing /\ q.target = b
  BY <1>1, <1>3 DEF ScreenStates, Pcs
<1>5. q.target = q.store.pending /\ q.target # None
  BY <1>2, <1>4
<1> HIDE DEF q, b
<1>6. /\ screen' \in [Screens -> ScreenStates] /\ screen'[s] = q
      /\ \A r \in Screens \ {s} : screen'[r] = screen[r]
  BY <1>1, <1>2, <1>4, Put
<1>7. Dash(q)
  BY <1>1, <1>2, <1>4, <1>5 DEF Dash, Awake
<1>8. Quiet /\ Dash(screen'[s])
  BY <1>1, <1>2, <1>6, <1>7 DEF Quiet
<1> QED
  BY <1>6, <1>8, QuietStep

(* A withdrawal begins, and skips a batch that could not be withdrawn.     *)
LEMMA TodoSteps ==
    ASSUME SharingInv, NEW s \in Screens, Withdraw(s) \/ DeleteFailed(s)
    PROVE  SharingInv'
<1> DEFINE todo == IF screen[s].pc = "idle" THEN screen[s].store.receipts
                   ELSE screen[s].todo \ {screen[s].target}
           q == [screen[s] EXCEPT !.pc = "withdrawing", !.todo = todo]
<1>1. DeviceType /\ screen[s] \in ScreenStates /\ clicks \subseteq made
  BY DEF SharingInv, DeviceType
<1>2. todo \in SUBSET Batches
  BY <1>1 DEF ScreenStates, Stores
<1>3. /\ screen' = [screen EXCEPT ![s] = q]
      /\ UNCHANGED <<vars, eventsOf, clicks, disk, net, sent, made, settled>>
      /\ Awake(screen[s]) /\ screen[s].pc # "saving"
  BY <1>1 DEF Withdraw, DeleteFailed, Awake, DeviceType
<1> HIDE DEF todo
<1>4. /\ q \in ScreenStates /\ q.pc = "withdrawing" /\ q.open = screen[s].open
      /\ q.store = screen[s].store /\ q.before = screen[s].before
      /\ q.writing = screen[s].writing
  BY <1>1, <1>2 DEF ScreenStates, Pcs
<1> HIDE DEF q
<1>5. /\ screen' \in [Screens -> ScreenStates] /\ screen'[s] = q
      /\ \A r \in Screens \ {s} : screen'[r] = screen[r]
  BY <1>1, <1>3, <1>4, Put
<1>6. Dash(q)
  BY <1>3, <1>4, GoesOn
<1>7. Quiet /\ Dash(screen'[s])
  BY <1>1, <1>3, <1>5, <1>6 DEF Quiet
<1> QED
  BY <1>5, <1>7, QuietStep

(* A dashboard reads the store from disk.                                  *)
LEMMA OpenKeeps == ASSUME SharingInv, NEW s \in Screens, Open(s) PROVE SharingInv'
<1> DEFINE q == [Closed EXCEPT !.open = TRUE, !.store = disk]
<1>1. DeviceType /\ disk \in Stores /\ clicks \subseteq made /\ Good(disk)
  BY DEF SharingInv, DeviceType
<1>2. /\ screen' = [screen EXCEPT ![s] = q]
      /\ UNCHANGED <<vars, clicks, eventsOf, disk, net, sent, made, settled>>
  BY DEF Open
<1>3. q \in ScreenStates /\ q.pc = "idle" /\ q.store = disk /\ q.writing = "none"
  <2>1. EmptyStore \in Stores
    BY DEF EmptyStore, Stores
  <2>2. Closed \in ScreenStates /\ Closed.pc = "idle" /\ Closed.writing = "none"
    BY <2>1 DEF Closed, ScreenStates, Pcs, Purposes, Answers
  <2> QED
    BY <1>1, <2>2 DEF ScreenStates
<1> HIDE DEF q
<1>4. /\ screen' \in [Screens -> ScreenStates] /\ screen'[s] = q
      /\ \A r \in Screens \ {s} : screen'[r] = screen[r]
  BY <1>1, <1>2, <1>3, Put
<1>5. Names(disk, disk)
  BY <1>1, HeldBatches DEF Names
<1>6. Quiet /\ Dash(screen'[s])
  BY <1>1, <1>2, <1>3, <1>4, <1>5 DEF Quiet, Dash
<1> QED
  BY <1>4, <1>6, QuietStep

(* The user leaves a dashboard.                                            *)
LEMMA CloseKeeps == ASSUME SharingInv, NEW s \in Screens, Close(s) PROVE SharingInv'
<1> DEFINE pc == IF screen[s].pc = "review" THEN "idle" ELSE screen[s].pc
           q == [screen[s] EXCEPT !.open = FALSE, !.pc = pc]
<1>1. /\ DeviceType /\ screen[s] \in ScreenStates /\ clicks \subseteq made
      /\ Dash(screen[s])
  BY DEF SharingInv, DeviceType
<1>2. /\ screen' = [screen EXCEPT ![s] = q]
      /\ UNCHANGED <<vars, clicks, eventsOf, disk, net, sent, made, settled>>
      /\ screen[s].open
  BY <1>1 DEF Close, DeviceType
<1>3. pc \in Pcs
  BY <1>1 DEF ScreenStates, Pcs
<1>4. pc # "review" /\ (pc # "idle" => pc = screen[s].pc)
      /\ (screen[s].pc = "saving" => pc = "saving")
  OBVIOUS
<1> HIDE DEF pc
<1>5. /\ q \in ScreenStates /\ q.pc = pc /\ ~q.open
      /\ q.store = screen[s].store /\ q.before = screen[s].before
      /\ q.writing = screen[s].writing /\ q.target = screen[s].target
      /\ q.request = screen[s].request /\ q.answer = screen[s].answer
  BY <1>1, <1>3 DEF ScreenStates
<1> HIDE DEF q
<1>6. /\ screen' \in [Screens -> ScreenStates] /\ screen'[s] = q
      /\ \A r \in Screens \ {s} : screen'[r] = screen[r]
  BY <1>1, <1>2, <1>5, Put
<1>7. Dash(q)
  BY <1>1, <1>2, <1>4, <1>5 DEF Dash, Awake
<1>8. Quiet /\ Dash(screen'[s])
  BY <1>1, <1>2, <1>6, <1>7 DEF Quiet
<1> QED
  BY <1>6, <1>8, QuietStep

(* A dashboard gives up waiting for an answer.                             *)
LEMMA TimeoutKeeps == ASSUME SharingInv, NEW s \in Screens, Timeout(s) PROVE SharingInv'
<1> DEFINE q == [screen[s] EXCEPT !.answer = "timeout"]
<1>1. /\ DeviceType /\ screen[s] \in ScreenStates /\ clicks \subseteq made
      /\ Dash(screen[s])
  BY DEF SharingInv, DeviceType
<1>2. /\ screen' = [screen EXCEPT ![s] = q]
      /\ UNCHANGED <<vars, clicks, eventsOf, disk, net, sent, made, settled>>
  BY <1>1 DEF Timeout, DeviceType
<1>3. /\ q \in ScreenStates /\ q.pc = screen[s].pc /\ q.open = screen[s].open
      /\ q.store = screen[s].store /\ q.before = screen[s].before
      /\ q.writing = screen[s].writing /\ q.target = screen[s].target
      /\ q.request = screen[s].request /\ q.draft = screen[s].draft
      /\ q.answer = "timeout"
  BY <1>1 DEF ScreenStates, Answers
<1> HIDE DEF q
<1>4. /\ screen' \in [Screens -> ScreenStates] /\ screen'[s] = q
      /\ \A r \in Screens \ {s} : screen'[r] = screen[r]
  BY <1>1, <1>2, <1>3, Put
<1>5. Dash(q)
  BY <1>1, <1>3 DEF Dash, Confirmed, Awake
<1>6. Quiet /\ Dash(screen'[s])
  BY <1>1, <1>2, <1>4, <1>5 DEF Quiet
<1> QED
  BY <1>4, <1>6, QuietStep

(* The process ends, and what was in memory is gone.                       *)
LEMMA CrashKeeps == ASSUME SharingInv, Crash PROVE SharingInv'
<1>1. EmptyStore \in Stores
  BY DEF EmptyStore, Stores
<1>2. Closed \in ScreenStates
  BY <1>1 DEF Closed, ScreenStates, Pcs, Purposes, Answers
<1>3. Dash(Closed)
  BY DEF Closed, Dash, Awake
<1>4. Quiet /\ \A s \in Screens : screen'[s] = Closed
  BY <1>2, ClicksMade DEF Crash, Quiet
<1> QED
  BY <1>3, <1>4, QuietKeeps

(* A reviewed draft holds events that were never offered.                  *)
LEMMA ReviewKeeps == ASSUME SharingInv, NEW s \in Screens, Review(s) PROVE SharingInv'
<1>1. /\ DeviceType /\ screen[s] \in ScreenStates /\ clicks \subseteq made
      /\ made \subseteq Events /\ Dash(screen[s])
  BY DEF SharingInv, DeviceType
<1>2. PICK draft \in SUBSET Eligible(s) :
          /\ \/ draft = Eligible(s) /\ Cardinality(draft) <= MaxTotal
             \/ Cardinality(draft) = MaxTotal
          /\ screen' = [screen EXCEPT ![s].pc = "review", ![s].draft = draft]
  BY DEF Review
<1>3. /\ UNCHANGED <<vars, clicks, eventsOf, disk, net, sent, made, settled>>
      /\ screen[s].open /\ screen[s].pc = "idle" /\ screen[s].store.pending = None
      /\ Eligible(s) # {}
  BY DEF Review
<1>4. Awake(screen[s]) /\ screen[s].pc # "saving"
  BY <1>3 DEF Awake
<1>5. draft \subseteq clicks /\ draft \cap Submitted(screen[s].store) = {}
  BY <1>2 DEF Eligible
<1>6. draft # {} /\ Cardinality(draft) <= MaxTotal
  <2>1. CASE draft = Eligible(s) /\ Cardinality(draft) <= MaxTotal
    BY <1>3, <2>1
  <2>2. CASE Cardinality(draft) = MaxTotal
    BY <2>2, FS_EmptySet, CountsSuffice, MaxTotalAssumption
  <2> QED
    BY <1>2, <2>1, <2>2
<1> DEFINE q == [screen[s] EXCEPT !.pc = "review", !.draft = draft]
<1>7. screen' = [screen EXCEPT ![s] = q]
  BY <1>1, <1>2 DEF DeviceType
<1>8. draft \subseteq made /\ draft \subseteq Events
  BY <1>1, <1>5
<1>9. /\ q \in ScreenStates /\ q.pc = "review" /\ q.open = screen[s].open
      /\ q.store = screen[s].store /\ q.before = screen[s].before
      /\ q.writing = screen[s].writing /\ q.draft = draft
  BY <1>1, <1>8 DEF ScreenStates, Pcs
<1> HIDE DEF q
<1>10. /\ screen' \in [Screens -> ScreenStates] /\ screen'[s] = q
       /\ \A r \in Screens \ {s} : screen'[r] = screen[r]
  BY <1>1, <1>7, <1>9, Put
<1>11. Dash(q)
  BY <1>1, <1>3, <1>4, <1>5, <1>6, <1>8, <1>9 DEF Dash, Awake
<1>12. Quiet /\ Dash(screen'[s])
  BY <1>1, <1>3, <1>10, <1>11 DEF Quiet
<1> QED
  BY <1>10, <1>12, QuietStep

-----------------------------------------------------------------------------
(* Writes of the store.                                                    *)

(* A dashboard begins to write what follows from its store.                *)
LEMMA MutateStep ==
    ASSUME SharingInv, NEW s \in Screens, Awake(screen[s]),
           NEW store \in Stores, Good(store), Follows(store, screen[s].store),
           NEW purpose \in Purposes \ {"none"}, NEW pc \in Pcs,
           Mutate(s, store, purpose, pc),
           IF purpose = "toggle"
           THEN /\ pc = screen[s].pc /\ pc # "review"
                /\ SameBatches(store, screen[s].store)
           ELSE pc = "saving",
           UNCHANGED <<vars, clicks, eventsOf, disk, net, sent, made, settled>>
    PROVE  SharingInv'
<1> DEFINE q == screen'[s]
<1>1. DeviceType /\ Dash(screen[s]) /\ clicks \subseteq made
  BY DEF SharingInv, DeviceType
<1>2. /\ screen' \in [Screens -> ScreenStates]
      /\ \A r \in Screens \ {s} : screen'[r] = screen[r]
      /\ screen[s].writing = "none"
      /\ q.pc = pc /\ q.store = store /\ q.before = screen[s].store
      /\ q.writing = purpose
      /\ q.open = screen[s].open /\ q.draft = screen[s].draft
      /\ q.target = screen[s].target /\ q.request = screen[s].request
      /\ q.answer = screen[s].answer
  BY <1>1, Mutated
<1>3. Good(screen[s].store) /\ Names(disk, screen[s].store)
  BY <1>1, <1>2 DEF Dash
<1> HIDE DEF q
<1>4. pc = "connecting" => q.target = store.pending /\ q.target # None
  BY <1>1, <1>2 DEF Dash, SameBatches
<1>5. pc = "deleting" =>
          /\ \A m \in net : m.id = q.request => m.op = "delete" /\ m.batch = q.target
          /\ q.answer \in Confirmed => q.target \in Gone
  BY <1>1, <1>2 DEF Dash
<1>6. Dash(q)
  BY <1>2, <1>3, <1>4, <1>5 DEF Dash
<1>7. Quiet /\ Dash(screen'[s])
  BY <1>1, <1>2, <1>6 DEF Quiet, q
<1> QED
  BY <1>2, <1>7, QuietStep

(* The store of a dashboard that is not writing.                           *)
LEMMA MemoryIsGood ==
    ASSUME SharingInv, NEW s \in Screens, Awake(screen[s]), screen[s].writing = "none"
    PROVE  /\ screen[s].store \in Stores /\ Good(screen[s].store)
           /\ Names(disk, screen[s].store)
  BY DEF SharingInv, DeviceType, ScreenStates, Dash

(* A store whose batches are the same follows from it.                     *)
LEMMA FollowsSame ==
    ASSUME NEW store \in Stores, NEW store2, Good(store), SameBatches(store2, store)
    PROVE  Good(store2) /\ Follows(store2, store)
<1>1. Sound(store2, eventsOf, Out, Gone) /\ Held(store2) = Held(store)
  BY SoundSame DEF Good
<1> QED
  BY <1>1, HeldBatches DEF Good, Follows, Names, SameBatches, Sound

(* The user turns sharing on or off.                                       *)
LEMMA ToggleKeeps ==
    ASSUME SharingInv, NEW s \in Screens, SetSharingEnabled(s)
    PROVE  SharingInv'
<1> DEFINE store == [screen[s].store EXCEPT !.enabled = ~@]
<1>1. /\ Mutate(s, store, "toggle", screen[s].pc)
      /\ UNCHANGED <<vars, clicks, eventsOf, disk, net, sent, made, settled>>
      /\ Awake(screen[s]) /\ screen[s].pc # "review" /\ screen[s].writing = "none"
  BY DEF SetSharingEnabled, Mutate, Awake
<1>2. screen[s].store \in Stores /\ Good(screen[s].store)
  BY <1>1, MemoryIsGood
<1>3. store \in Stores /\ SameBatches(store, screen[s].store)
  BY <1>2 DEF Stores, SameBatches
<1> HIDE DEF store
<1>4. Good(store) /\ Follows(store, screen[s].store)
  BY <1>2, <1>3, FollowsSame
<1>5. screen[s].pc \in Pcs /\ "toggle" \in Purposes \ {"none"}
  BY DEF SharingInv, DeviceType, ScreenStates, Purposes
<1> QED
  BY <1>1, <1>3, <1>4, <1>5, MutateStep

(* The pending batch, answered or given up, becomes a receipt.             *)
LEMMA ReceiptKeeps ==
    ASSUME SharingInv, NEW s \in Screens,
           \/ Acknowledge(s) \/ CancelPending(s)
           \/ Clear(s) /\ screen[s].store.pending # None
    PROVE  SharingInv'
<1> DEFINE before == screen[s].store
           store == AfterReceipt(before)
<1>1. PICK purpose \in {"finish", "clear"} : Mutate(s, store, purpose, "saving")
  BY DEF Acknowledge, CancelPending, Clear
<1>2. /\ UNCHANGED <<vars, clicks, eventsOf, disk, net, sent, made, settled>>
      /\ Awake(screen[s]) /\ screen[s].writing = "none"
  BY <1>1 DEF Acknowledge, CancelPending, Clear, Mutate, Awake
<1>3. before \in Stores /\ Good(before)
  BY <1>2, MemoryIsGood
<1>4. /\ store \in Stores /\ Sound(store, eventsOf, Out, Gone)
      /\ Held(store) = Held(before) /\ store.pending = None
  BY <1>3, ReceiptFields, SoundReceipt DEF Good
<1>5. None \notin settled /\ None \notin before.receipts
  BY <1>3, NoneAssumption DEF SharingInv, DeviceType, Stores
<1>6. before.pending # None => before.pending \in Held(before)
  BY <1>3, HeldBatches
<1> HIDE DEF store, before
<1>7. Good(store) /\ Follows(store, before)
  BY <1>4, <1>5, <1>6 DEF Good, Follows, Names
<1>8. "saving" \in Pcs /\ purpose \in Purposes \ {"none"} /\ purpose # "toggle"
  BY DEF Pcs, Purposes
<1> QED
  BY <1>1, <1>2, <1>4, <1>7, <1>8, MutateStep DEF before

(* The receipt of a withdrawn batch is removed.                            *)
LEMMA RemoveKeeps ==
    ASSUME SharingInv, NEW s \in Screens, RemoveReceipt(s)
    PROVE  SharingInv'
<1> DEFINE b == screen[s].target
           before == screen[s].store
           store == AfterRemoveReceipt(before, b)
<1>1. /\ Mutate(s, store, "remove", "saving")
      /\ UNCHANGED <<vars, clicks, eventsOf, disk, net, sent, made, settled>>
      /\ Awake(screen[s]) /\ screen[s].writing = "none"
      /\ screen[s].pc = "deleting" /\ screen[s].answer \in Confirmed
  BY DEF RemoveReceipt, Mutate, Awake, Confirmed
<1>2. before \in Stores /\ Good(before)
  BY <1>1, MemoryIsGood
<1>3. b \in Gone /\ b \in Batches /\ DeviceType
  BY <1>1 DEF SharingInv, Dash, Gone
<1> HIDE DEF b, before
<1>4. /\ store \in Stores /\ Sound(store, eventsOf, Out, Gone)
      /\ store.pending = before.pending
  BY <1>2, <1>3, RemoveFields, SoundRemove DEF Good
<1> HIDE DEF store
<1>5. before.pending # None => before.pending \in Held(store)
  BY <1>4 DEF Held
<1>6. Good(store) /\ Follows(store, before)
  BY <1>2, <1>4, <1>5, GoodFields DEF Good, Follows, Names
<1>7. "saving" \in Pcs /\ "remove" \in Purposes \ {"none"}
  BY DEF Pcs, Purposes
<1> QED
  BY <1>1, <1>4, <1>6, <1>7, MutateStep DEF before

-----------------------------------------------------------------------------
(* Steps that change the disk, the network or the server.                  *)

(* One dashboard at a time: two that are open at once overwrite each       *)
(* other's store, and the theorems do not hold.                            *)
OneDashboard == \E s : Screens = {s}

(* There is no other dashboard.                                            *)
LEMMA TheDashboard ==
    ASSUME OneDashboard, NEW s \in Screens
    PROVE  Screens = {s}
  BY DEF OneDashboard

(* A click is made.                                                        *)
LEMMA ClickKeeps == ASSUME SharingInv, NEW e \in Events, Click(e) PROVE SharingInv'
<1>1. /\ clicks' = clicks \cup {e} /\ made' = made \cup {e}
      /\ UNCHANGED <<vars, eventsOf, disk, screen, net, sent, settled>>
  BY DEF Click
<1>2. Out' = Out /\ Gone' = Gone
  BY <1>1 DEF Out, Gone, Exists, vars, server
<1>3. TypeOK'
  BY <1>1, NextType DEF SharingInv
<1>4. DeviceType'
  BY <1>1 DEF SharingInv, DeviceType
<1>5. \A s \in Screens : Dash(screen[s])'
  BY <1>1, <1>2 DEF SharingInv, Dash, Good, Names, Follows, Held, Sound, Submitted, Awake,
                    SameBatches
<1>6. Good(disk)'
  BY <1>1, <1>2 DEF SharingInv, Good, Sound, Held
<1>7. \A b \in Batches : Exists(b)' => batches'[b].payload = PayloadOf(b)'
  BY <1>1 DEF SharingInv, Exists, PayloadOf, ItemsOf, vars, server
<1> QED
  BY <1>1, <1>3, <1>4, <1>5, <1>6, <1>7 DEF SharingInv

(* What a write that ends leaves the dashboard with: the disk is what was  *)
(* written, or what it was; the store in memory what was written, or what  *)
(* was there before.                                                       *)
LEMMA WriteEnds ==
    ASSUME SharingInv, OneDashboard, NEW s \in Screens, NEW q \in ScreenStates,
           screen[s].writing # "none", screen' = [screen EXCEPT ![s] = q],
           q.writing = "none", q.open = screen[s].open,
           IF screen[s].writing = "toggle"
           THEN /\ q.pc = screen[s].pc /\ q.draft = screen[s].draft
                /\ q.target = screen[s].target
                /\ q.request = screen[s].request /\ q.answer = screen[s].answer
           ELSE q.pc \in {"idle", "saved", "clearing", "withdrawing"},
           \/ disk' = screen[s].store /\ q.store = screen[s].store
           \/ disk' \in {disk, screen[s].store} /\ q.store = screen[s].before,
           settled' \in {settled, settled \cup screen[s].before.receipts
                                           \cup screen[s].store.receipts},
           settled' = settled \/ (q.store = screen[s].store /\ disk' = screen[s].store),
           UNCHANGED <<vars, clicks, eventsOf, net, sent, made>>
    PROVE  SharingInv'
<1> DEFINE scr == screen[s]
           old == scr.before
           new == scr.store
<1>1. /\ DeviceType /\ scr \in ScreenStates /\ new \in Stores /\ old \in Stores
      /\ Dash(scr) /\ Good(disk) /\ disk \in Stores
  BY DEF SharingInv, DeviceType, ScreenStates
<1>2. /\ Good(new) /\ Good(old) /\ Names(disk, old) /\ Follows(new, old)
      /\ scr.writing = "toggle" => SameBatches(new, old)
  BY <1>1 DEF Dash
<1>3. screen' \in [Screens -> ScreenStates] /\ screen'[s] = q
  BY <1>1, Put
<1>4. Out' = Out /\ Gone' = Gone
  BY DEF Out, Gone, Exists, vars, server
<1>5. disk' \in Stores /\ Sound(disk', eventsOf, Out, Gone)
  BY <1>1, <1>2 DEF Good
<1>6. disk'.pending \notin settled' /\ q.store.pending \notin settled'
  <2>1. /\ disk.pending \notin settled /\ new.pending \notin settled
        /\ old.pending \notin settled /\ new.pending \notin new.receipts
        /\ new.pending \notin old.receipts
    BY <1>1, <1>2, GoodFields DEF Follows
  <2>2. CASE settled' = settled
    BY <2>1, <2>2
  <2>3. CASE /\ settled' = settled \cup old.receipts \cup new.receipts
             /\ q.store = new /\ disk' = new
    BY <2>1, <2>3
  <2> QED
    BY <2>2, <2>3
<1>7. Names(disk', q.store)
  BY <1>1, <1>2, HeldBatches DEF Names, Follows
<1>8. Sound(q.store, eventsOf, Out, Gone)
  BY <1>2 DEF Good
<1>9. settled' \in SUBSET Batches /\ \A b \in settled' : eventsOf[b] # {}
  <2>1. old.receipts \subseteq Batches /\ new.receipts \subseteq Batches
    BY <1>1 DEF Stores
  <2>2. \A b \in old.receipts \cup new.receipts : eventsOf[b] # {}
    BY <1>2 DEF Good, Sound, Held
  <2> QED
    BY <1>1, <2>1, <2>2 DEF SharingInv, DeviceType
<1>10. scr.writing = "toggle" =>
          Submitted(q.store) = Submitted(new) /\ q.store.pending = new.pending
  BY <1>2 DEF SameBatches, Submitted
<1> HIDE DEF scr, old, new
<1>11. Dash(screen[s])'
  <2>1. Good(q.store)'
    BY <1>3, <1>4, <1>6, <1>8 DEF Good, Sound, Held
  <2>2. Names(disk, q.store)'
    BY <1>3, <1>7 DEF Names, Held
  <2>3. q.pc = "review" =>
          /\ q.draft # {} /\ q.draft \subseteq made
          /\ Cardinality(q.draft) <= MaxTotal
          /\ q.draft \cap Submitted(q.store) = {}
          /\ q.store.pending = None
    BY <1>1, <1>10 DEF Dash, scr, new
  <2>4. q.pc = "connecting" => q.target = q.store.pending /\ q.target # None
    BY <1>1, <1>10 DEF Dash, scr, new
  <2>5. q.pc = "deleting" =>
          /\ \A m \in net' : m.id = q.request => m.op = "delete" /\ m.batch = q.target
          /\ q.answer \in Confirmed => q.target \in Gone'
    BY <1>1, <1>4 DEF Dash, scr
  <2>6. Submitted(q.store)' = Submitted(q.store)
    BY DEF Submitted
  <2> QED
    BY <1>3, <2>1, <2>2, <2>3, <2>4, <2>5, <2>6 DEF Dash
<1>12. TypeOK' /\ DeviceType'
  <2>1. TypeOK'
    BY NextType DEF SharingInv
  <2>2. DeviceType'
    BY <1>1, <1>3, <1>5, <1>9 DEF DeviceType
  <2> QED
    BY <2>1, <2>2
<1>13. Good(disk)'
  BY <1>4, <1>5, <1>6 DEF Good, Sound, Held
<1>14. \A b \in Batches : Exists(b)' => batches'[b].payload = PayloadOf(b)'
  BY DEF SharingInv, Exists, PayloadOf, ItemsOf, vars, server
<1>15. \A r \in Screens : Dash(screen[r])'
  BY <1>11, TheDashboard
<1> QED
  BY <1>9, <1>12, <1>13, <1>14, <1>15 DEF SharingInv

(* The file takes over the store that was being written.                   *)
LEMMA PersistDoneKeeps ==
    ASSUME SharingInv, OneDashboard, NEW s \in Screens, PersistDone(s)
    PROVE  SharingInv'
<1> DEFINE q == Resumed(screen[s], TRUE)
<1>1. screen[s] \in ScreenStates /\ screen[s].writing # "none"
  BY DEF SharingInv, DeviceType, PersistDone
<1>2. /\ disk' = screen[s].store /\ screen' = [screen EXCEPT ![s] = q]
      /\ settled' = settled \cup screen[s].before.receipts \cup screen[s].store.receipts
      /\ UNCHANGED <<vars, clicks, eventsOf, net, sent, made>>
  BY DEF PersistDone
<1>3. /\ q \in ScreenStates
      /\ q.writing = "none" /\ q.store = screen[s].store /\ q.open = screen[s].open
      /\ IF screen[s].writing = "toggle"
         THEN /\ q.pc = screen[s].pc /\ q.draft = screen[s].draft
              /\ q.target = screen[s].target
              /\ q.request = screen[s].request /\ q.answer = screen[s].answer
         ELSE q.pc \in {"idle", "saved", "clearing", "withdrawing"}
  BY <1>1, ResumedFields
<1> HIDE DEF q
<1> QED
  BY <1>1, <1>2, <1>3, WriteEnds

(* A write fails, and the store in memory goes back.                       *)
LEMMA PersistFailedKeepsInv ==
    ASSUME SharingInv, OneDashboard, NEW s \in Screens, PersistFailed(s)
    PROVE  SharingInv'
<1> DEFINE resumed == Resumed(screen[s], FALSE)
           q == [resumed EXCEPT !.store = screen[s].before]
<1>1. /\ screen[s] \in ScreenStates /\ screen[s].before \in Stores
      /\ screen[s].writing # "none"
  BY DEF SharingInv, DeviceType, ScreenStates, PersistFailed
<1>2. /\ disk' \in {disk, screen[s].store} /\ screen' = [screen EXCEPT ![s] = q]
      /\ UNCHANGED <<vars, clicks, eventsOf, net, sent, made, settled>>
  BY DEF PersistFailed
<1>3. /\ resumed \in ScreenStates
      /\ resumed.writing = "none" /\ resumed.open = screen[s].open
      /\ IF screen[s].writing = "toggle"
         THEN /\ resumed.pc = screen[s].pc /\ resumed.draft = screen[s].draft
              /\ resumed.target = screen[s].target
              /\ resumed.request = screen[s].request /\ resumed.answer = screen[s].answer
         ELSE resumed.pc \in {"idle", "saved", "clearing", "withdrawing"}
  BY <1>1, ResumedFields
<1> HIDE DEF resumed
<1>4. /\ q \in ScreenStates /\ q.store = screen[s].before
      /\ q.writing = "none" /\ q.open = resumed.open /\ q.draft = resumed.draft
      /\ q.pc = resumed.pc /\ q.target = resumed.target
      /\ q.request = resumed.request /\ q.answer = resumed.answer
  BY <1>1, <1>3 DEF ScreenStates
<1> HIDE DEF q
<1> QED
  BY <1>1, <1>2, <1>3, <1>4, WriteEnds

(* What is out is batches.                                                 *)
LEMMA OutIsBatches ==
    /\ Out \subseteq Batches
    /\ \A b \in Batches : Exists(b) => b \in Out
  BY DEF Out

(* A confirmed draft becomes a new batch; nothing of it is out yet.        *)
LEMMA ConfirmKeeps ==
    ASSUME SharingInv, OneDashboard, NEW s \in Screens, Confirm(s)
    PROVE  SharingInv'
<1> DEFINE draft == screen[s].draft
           old == screen[s].store
<1>0. PICK q : q = screen'[s]
  OBVIOUS
<1>1. /\ DeviceType /\ Dash(screen[s]) /\ disk \in Stores /\ Good(disk)
  BY DEF SharingInv, DeviceType
<1>2. PICK b \in Batches :
          /\ eventsOf[b] = {}
          /\ eventsOf' = [eventsOf EXCEPT ![b] = draft]
          /\ Mutate(s, AfterSavePending(old, b), "save", "saving")
  BY DEF Confirm, Fresh
<1>3. /\ screen[s].pc = "review" /\ screen[s].writing = "none" /\ Awake(screen[s])
      /\ UNCHANGED <<vars, clicks, disk, net, sent, made, settled>>
  BY <1>2 DEF Confirm, Mutate, Awake
<1>4. old \in Stores /\ Good(old) /\ Names(disk, old)
  BY <1>3, MemoryIsGood
<1>5. /\ draft # {} /\ draft \subseteq made /\ Cardinality(draft) <= MaxTotal
      /\ draft \cap Submitted(old) = {} /\ old.pending = None
  BY <1>1, <1>3 DEF Dash
<1> DEFINE store == AfterSavePending(old, b)
<1>6. store \in Stores /\ store.pending = b
  BY <1>4, SaveFields
<1>7. Sound(store, eventsOf', Out, Gone)
  BY <1>1, <1>2, <1>4, <1>5, OutIsBatches, SoundSave DEF Good
<1>8. ASSUME NEW st \in Stores, Good(st)
      PROVE  /\ b \notin Held(st)
             /\ Sound(st, eventsOf', Out, Gone)
  <2>1. Sound(st, eventsOf, Out, Gone)
    BY <1>8 DEF Good
  <2>2. b \notin Held(st) \cup Out
    BY <1>2, <2>1 DEF Sound
  <2>3. \A c \in Held(st) \cup Out : eventsOf'[c] = eventsOf[c]
    BY <1>1, <1>2, <2>2, HeldBatches, OutIsBatches DEF DeviceType
  <2> QED
    BY <2>1, <2>2, <2>3, SoundLess
<1>9. b \notin settled
  BY <1>2 DEF SharingInv
<1>10. Out' = Out /\ Gone' = Gone
  BY <1>3 DEF Out, Gone, Exists, vars, server
<1> HIDE DEF store, draft, old
<1>11. /\ screen' \in [Screens -> ScreenStates]
       /\ q.pc = "saving" /\ q.store = store /\ q.before = old /\ q.writing = "save"
  <2>1. "save" \in Purposes /\ "saving" \in Pcs
    BY DEF Purposes, Pcs
  <2>2. Mutate(s, store, "save", "saving")
    BY <1>2 DEF store
  <2> QED
    BY <1>0, <1>1, <1>6, <2>1, <2>2, Mutated DEF old
<1>12. Dash(screen[s])'
  <2>1. Good(q.store)'
    BY <1>3, <1>6, <1>7, <1>9, <1>10, <1>11 DEF Good, Sound, Held
  <2>2. Good(q.before)'
    <3>1. Sound(old, eventsOf', Out, Gone) /\ old.pending \notin settled
      BY <1>4, <1>8, GoodFields
    <3> QED
      BY <1>3, <1>10, <1>11, <3>1 DEF Good, Sound, Held
  <2>3. Names(disk, q.before)' /\ Follows(q.store, q.before)'
    <3>1. b \notin old.receipts
      BY <1>4, <1>8 DEF Held
    <3> QED
      BY <1>4, <1>5, <1>6, <1>11, <3>1 DEF Names, Follows, old
  <2> QED
    BY <1>0, <1>11, <2>1, <2>2, <2>3 DEF Dash
<1>13. DeviceType' /\ \A c \in Batches : Cardinality(eventsOf'[c]) <= MaxTotal
  <2>1. eventsOf' \in [Batches -> SUBSET made]
    BY <1>1, <1>2, <1>5 DEF DeviceType
  <2>2. \A c \in Batches : Cardinality(eventsOf'[c]) <= MaxTotal
    BY <1>1, <1>2, <1>5 DEF DeviceType, SharingInv
  <2> QED
    BY <1>1, <1>3, <1>11, <2>1, <2>2 DEF DeviceType
<1>14. TypeOK'
  BY <1>3, NextType DEF SharingInv
<1>15. \A c \in Batches : Exists(c)' => batches'[c].payload = PayloadOf(c)'
  <2> SUFFICES ASSUME NEW c \in Batches, Exists(c)'
               PROVE  batches'[c].payload = PayloadOf(c)'
    OBVIOUS
  <2>1. Exists(c) /\ batches'[c] = batches[c]
    BY <1>3 DEF Exists, vars, server
  <2>2. eventsOf[c] # {}
    BY <1>1, <2>1, OutIsBatches DEF Good, Sound
  <2>3. eventsOf'[c] = eventsOf[c]
    BY <1>1, <1>2, <2>2 DEF DeviceType
  <2> QED
    BY <2>1, <2>3 DEF SharingInv, PayloadOf
<1>16. Good(disk)'
  <2>1. Sound(disk, eventsOf', Out, Gone) /\ disk.pending \notin settled
    BY <1>1, <1>8, GoodFields
  <2> QED
    BY <1>3, <1>10, <2>1 DEF Good, Sound, Held
<1>17. \A r \in Screens : Dash(screen[r])'
  BY <1>12, TheDashboard
<1>18. \A c \in settled' : eventsOf'[c] # {}
  BY <1>1, <1>2, <1>3, <1>5 DEF SharingInv, DeviceType
<1> QED
  BY <1>3, <1>13, <1>14, <1>15, <1>16, <1>17, <1>18 DEF SharingInv

(* A request is sent under a new number: a submission of a batch that disk *)
(* and memory name, or a withdrawal.                                       *)
LEMMA SendStep ==
    ASSUME SharingInv, OneDashboard, NEW s \in Screens, Awake(screen[s]),
           screen[s].pc # "saving", NEW b \in Batches,
           NEW op \in {"post", "delete"}, NEW pc \in {"submitting", "deleting"},
           op = "post" => /\ b \in Held(disk) \cap Held(screen[s].store)
                          /\ pc = "submitting",
           Send(s, op, b, pc), UNCHANGED <<vars, clicks, eventsOf, disk, made, settled>>
    PROVE  SharingInv'
<1> DEFINE m == [id |-> sent + 1, op |-> op, batch |-> b]
<1>0. PICK q : q = screen'[s]
  OBVIOUS
<1>1. /\ DeviceType /\ Dash(screen[s]) /\ disk \in Stores /\ sent \in Nat
      /\ Good(disk) /\ net \subseteq Requests
      /\ \A n \in net : n.id <= sent
  BY DEF SharingInv, DeviceType
<1>2. /\ screen' \in [Screens -> ScreenStates]
      /\ sent' = sent + 1 /\ net' = net \cup {m}
      /\ q.pc = pc /\ q.request = sent + 1 /\ q.answer = "none" /\ q.target = b
      /\ q.store = screen[s].store /\ q.before = screen[s].before
      /\ q.writing = screen[s].writing
      /\ q.open = screen[s].open /\ q.draft = screen[s].draft
  <2>1. pc \in Pcs
    BY DEF Pcs
  <2> QED
    BY <1>0, <1>1, <2>1, Sent
<1>3. m \in Requests /\ m.id = sent + 1 /\ m.op = op /\ m.batch = b
  BY <1>1 DEF Requests
<1> HIDE DEF m
<1>4. Gone' = Gone /\ Out' \subseteq Out \cup {c \in {b} : op = "post"}
  BY <1>2, <1>3 DEF Out, Gone, Exists, vars, server
<1>5. ASSUME NEW st, Good(st), op = "post" => b \in Held(st)
      PROVE  Good(st)'
  <2>1. Out' \subseteq Out \cup Held(st)
    BY <1>4, <1>5
  <2>2. Sound(st, eventsOf, Out', Gone') /\ st.pending \notin settled
    BY <1>4, <1>5, <2>1, SoundLess DEF Good
  <2> QED
    BY <2>2 DEF Good, Sound, Held
<1>6. Good(disk)'
  <2>1. Sound(disk, eventsOf, Out', Gone') /\ disk.pending \notin settled
    BY <1>1, <1>4, SoundLess DEF Good
  <2> QED
    BY <2>1 DEF Good, Sound, Held
<1>7. \A n \in net' : n.id = sent + 1 => n = m
  BY <1>1, <1>2, <1>3 DEF Requests
<1>8. q.writing \in {"none", "toggle"}
  BY <1>1, <1>2 DEF Dash
<1>9. Good(q.store) /\ (op = "post" => b \in Held(q.store))
  BY <1>1, <1>2 DEF Dash
<1>10. q.writing = "toggle" =>
          /\ Good(q.before) /\ Names(disk, q.before) /\ Follows(q.store, q.before)
          /\ SameBatches(q.store, q.before)
          /\ op = "post" => b \in Held(q.before)
  BY <1>1, <1>2, <1>9 DEF Dash, SameBatches, Held
<1>11. Dash(screen[s])'
  <2>1. Good(q.store)' /\ (q.writing # "none" => Good(q.before)')
    BY <1>5, <1>8, <1>9, <1>10
  <2>2. q.writing = "none" => Names(disk, q.store)
    BY <1>1, <1>2 DEF Dash
  <2>3. q.pc = "deleting" =>
          /\ \A n \in net' : n.id = q.request => n.op = "delete" /\ n.batch = q.target
          /\ q.answer \notin Confirmed
    BY <1>2, <1>3, <1>7 DEF Confirmed
  <2>4. q.pc \notin {"review", "connecting"}
    BY <1>2
  <2>5. Names(disk, q.store)' = Names(disk, q.store)
    BY DEF Names, Held
  <2> HIDE DEF Good, Sound
  <2> QED
    BY <1>0, <1>8, <1>10, <2>1, <2>2, <2>3, <2>4, <2>5 DEF Dash, Names, Follows, SameBatches, Held
<1>12. TypeOK' /\ DeviceType'
  <2>1. TypeOK'
    BY NextType DEF SharingInv
  <2>2. sent' \in Nat /\ net' \subseteq Requests
    BY <1>1, <1>2, <1>3
  <2> QED
    BY <1>1, <1>2, <2>1, <2>2 DEF DeviceType
<1>13. \A n \in net' : n.id <= sent'
  BY <1>1, <1>2, <1>3 DEF Requests
<1>14. \A c \in Batches : Exists(c)' => batches'[c].payload = PayloadOf(c)'
  BY DEF SharingInv, Exists, PayloadOf, ItemsOf, vars, server
<1>15. \A r \in Screens : Dash(screen[r])'
  BY <1>11, TheDashboard
<1> QED
  BY <1>6, <1>12, <1>13, <1>14, <1>15 DEF SharingInv

(* What is sent is a batch that disk and memory name, and not settled.     *)
LEMMA ConnectedBatch ==
    ASSUME SharingInv, NEW s \in Screens, Connected(s)
    PROVE  /\ screen[s].target \in Batches
           /\ screen[s].target \in Held(disk) \cap Held(screen[s].store)
           /\ screen[s].target \notin settled
<1> DEFINE b == screen[s].target
           store == screen[s].store
           before == screen[s].before
<1>1. /\ screen[s].pc = "connecting" /\ Awake(screen[s])
      /\ Dash(screen[s]) /\ disk \in Stores /\ store \in Stores
  BY DEF SharingInv, DeviceType, ScreenStates, Connected, Awake
<1>2. b = store.pending /\ b # None /\ Good(store)
  BY <1>1 DEF Dash
<1>3. b \in Batches /\ b \in Held(store) /\ b \notin settled
  BY <1>1, <1>2, HeldBatches DEF Good, Stores
<1>4. Names(disk, store) \/ (Names(disk, before) /\ SameBatches(store, before))
  BY <1>1 DEF Dash
<1>5. b \in Held(disk)
  BY <1>2, <1>4 DEF Names, SameBatches
<1> QED
  BY <1>3, <1>5

(* The pending batch is sent.                                              *)
LEMMA ConnectedKeeps ==
    ASSUME SharingInv, OneDashboard, NEW s \in Screens, Connected(s)
    PROVE  SharingInv'
<1>1. /\ Send(s, "post", screen[s].target, "submitting")
      /\ UNCHANGED <<vars, clicks, eventsOf, disk, made, settled>>
      /\ Awake(screen[s]) /\ screen[s].pc # "saving"
  BY DEF Connected, Awake
<1> QED
  BY <1>1, ConnectedBatch, SendStep

(* The withdrawal of a batch is sent.                                      *)
LEMMA DeleteNextKeeps ==
    ASSUME SharingInv, OneDashboard, NEW s \in Screens, DeleteNext(s)
    PROVE  SharingInv'
<1>1. PICK b \in screen[s].todo : Send(s, "delete", b, "deleting")
  BY DEF DeleteNext
<1>2. /\ UNCHANGED <<vars, clicks, eventsOf, disk, made, settled>>
      /\ Awake(screen[s]) /\ screen[s].pc # "saving"
  BY DEF DeleteNext, Awake
<1>3. b \in Batches
  BY DEF SharingInv, DeviceType, ScreenStates
<1> QED
  BY <1>1, <1>2, <1>3, SendStep

-----------------------------------------------------------------------------
(* The network and the server.                                             *)

(* A dashboard's screen after an answer to it, if any.                     *)
Answered(s, a) ==
    \/ screen'[s] = screen[s]
    \/ /\ screen[s].pc = "deleting" /\ a \in Confirmed => screen[s].target \in Gone'
       /\ screen'[s] = [screen[s] EXCEPT !.answer = a]

(* A request that is over leaves less out and more withdrawn.              *)
LEMMA NetStep ==
    ASSUME SharingInv, NEW a \in Answers, \A s \in Screens : Answered(s, a),
           screen' \in [Screens -> ScreenStates],
           net' \subseteq net, Out' \subseteq Out, Gone \subseteq Gone', TypeOK',
           \A b \in Batches : Exists(b)' => batches'[b].payload = PayloadOf(b),
           UNCHANGED <<clicks, eventsOf, disk, sent, made, settled>>
    PROVE  SharingInv'
<1>1. /\ DeviceType /\ Good(disk)
      /\ \A m \in net : m.id <= sent
  BY DEF SharingInv
<1>2. DeviceType'
  BY <1>1 DEF DeviceType
<1>3. ASSUME NEW store, Good(store)
      PROVE  Sound(store, eventsOf, Out', Gone') /\ store.pending \notin settled'
  <2>1. Out' \subseteq Out \cup Held(store)
    OBVIOUS
  <2> QED
    BY <1>3, <2>1, SoundLess DEF Good
<1>4. Good(disk)'
  <2>1. Sound(disk, eventsOf, Out', Gone') /\ disk.pending \notin settled'
    BY <1>1, <1>3
  <2> QED
    BY <2>1 DEF Good, Sound, Held
<1>5. ASSUME NEW s \in Screens PROVE Dash(screen[s])'
  <2>0. PICK q : q = screen'[s]
    OBVIOUS
  <2>1. Dash(screen[s]) /\ screen[s] \in ScreenStates
    BY <1>1 DEF SharingInv, DeviceType
  <2>2. /\ q.pc = screen[s].pc /\ q.open = screen[s].open /\ q.store = screen[s].store
        /\ q.draft = screen[s].draft /\ q.writing = screen[s].writing
        /\ q.before = screen[s].before /\ q.target = screen[s].target
        /\ q.request = screen[s].request
        /\ q.pc = "deleting" /\ q.answer \in Confirmed => q.target \in Gone'
    <3>1. CASE screen'[s] = screen[s]
      BY <2>0, <2>1, <3>1 DEF Dash
    <3>2. CASE /\ screen[s].pc = "deleting" /\ a \in Confirmed => screen[s].target \in Gone'
               /\ screen'[s] = [screen[s] EXCEPT !.answer = a]
      BY <2>0, <2>1, <3>2 DEF ScreenStates
    <3> QED
      BY <3>1, <3>2 DEF Answered
  <2>3. Awake(q) = Awake(screen[s])
    BY <2>2 DEF Awake
  <2>4. /\ Awake(q) \/ q.writing # "none" =>
              Sound(q.store, eventsOf, Out', Gone') /\ q.store.pending \notin settled'
        /\ q.writing # "none" =>
              Sound(q.before, eventsOf, Out', Gone') /\ q.before.pending \notin settled'
    BY <1>3, <2>1, <2>2, <2>3 DEF Dash
  <2>5. /\ Awake(q) \/ q.writing # "none" => Good(q.store)'
        /\ q.writing # "none" => Good(q.before)'
    BY <2>4 DEF Good, Sound, Held
  <2>6. q.pc = "deleting" =>
          \A m \in net' : m.id = q.request => m.op = "delete" /\ m.batch = q.target
    BY <2>1, <2>2 DEF Dash
  <2>7. /\ Awake(q) /\ q.writing = "none" => Names(disk, q.store)
        /\ q.writing # "none" => Names(disk, q.before) /\ Follows(q.store, q.before)
        /\ q.writing \notin {"none", "toggle"} => q.pc = "saving"
        /\ q.writing = "toggle" => SameBatches(q.store, q.before)
        /\ q.pc = "review" =>
              /\ q.draft # {} /\ q.draft \subseteq made
              /\ Cardinality(q.draft) <= MaxTotal
              /\ q.draft \cap Submitted(q.store) = {}
              /\ q.store.pending = None
        /\ q.pc = "connecting" => q.target = q.store.pending /\ q.target # None
    BY <2>1, <2>2, <2>3 DEF Dash
  <2>8. /\ Names(disk, q.store)' = Names(disk, q.store)
        /\ Names(disk, q.before)' = Names(disk, q.before)
        /\ Follows(q.store, q.before)' = Follows(q.store, q.before)
        /\ Submitted(q.store)' = Submitted(q.store)
    BY DEF Names, Follows, Held, Submitted
  <2> QED
    BY <2>0, <2>2, <2>5, <2>6, <2>7, <2>8 DEF Dash, Awake, SameBatches
<1>7. \A b \in Batches : Exists(b)' => batches'[b].payload = PayloadOf(b)'
  BY DEF PayloadOf, ItemsOf
<1>8. /\ \A m \in net' : m.id <= sent'
      /\ \A b \in Batches : Cardinality(eventsOf'[b]) <= MaxTotal
      /\ \A b \in settled' : eventsOf'[b] # {}
  BY <1>1 DEF SharingInv
<1> QED
  BY <1>2, <1>4, <1>5, <1>7, <1>8 DEF SharingInv

(* A request is lost.                                                      *)
LEMMA LoseKeeps == ASSUME SharingInv, NEW m \in net, LoseRequest(m) PROVE SharingInv'
<1>1. /\ net' = net \ {m}
      /\ UNCHANGED <<vars, clicks, eventsOf, disk, screen, sent, made, settled>>
  BY DEF LoseRequest
<1>2. Out' \subseteq Out /\ Gone' = Gone
  BY <1>1 DEF Out, Gone, Exists, vars, server
<1>3. TypeOK'
  BY <1>1, NextType DEF SharingInv
<1>4. \A b \in Batches : Exists(b)' => batches'[b].payload = PayloadOf(b)
  BY <1>1 DEF SharingInv, Exists, vars, server
<1>5. "none" \in Answers /\ \A s \in Screens : Answered(s, "none")
  BY <1>1 DEF Answers, Answered
<1>6. screen' \in [Screens -> ScreenStates] /\ net' \subseteq net /\ Gone \subseteq Gone'
      /\ UNCHANGED <<clicks, eventsOf, disk, sent, made, settled>>
  BY <1>1, <1>2 DEF SharingInv, DeviceType
<1> QED
  BY <1>2, <1>3, <1>4, <1>5, <1>6, NetStep

(* The items of a batch count its events category by category.             *)
LEMMA ItemsCount ==
    ASSUME NEW E \in SUBSET Events, E # {}, Cardinality(E) <= MaxTotal
    PROVE  ItemsOf(E) \in ItemMaps /\ TotalOf(ItemsOf(E)) <= MaxTotal
<1> DEFINE S == {ShortcutOf[e] : e \in E}
           F == [s \in S |-> {e \in E : ShortcutOf[e] = s}]
           items == [s \in S |-> Cardinality(F[s])]
<1>1. ItemsOf(E) = items
  BY DEF ItemsOf
<1>2. S \in (SUBSET Shortcuts) \ {{}} /\ IsFiniteSet(S)
  <2>1. S \subseteq Shortcuts /\ S # {}
    BY EventsAssumption
  <2> HIDE DEF S
  <2> QED
    BY <2>1, ShortcutsAssumption, FS_Subset
<1>3. IsFiniteSet(E) /\ Cardinality(E) \in Nat
  BY EventsAssumption, FS_Subset, FS_CardinalityType
<1>4. /\ F \in [S -> SUBSET E]
      /\ \A s, t \in S : s # t => F[s] \cap F[t] = {}
      /\ \A s \in S : F[s] # {}
      /\ UNION {F[s] : s \in S} = E
  <2>1. \A s \in S : F[s] # {}
    OBVIOUS
  <2>2. ASSUME NEW e \in E PROVE e \in UNION {F[s] : s \in S}
    <3>1. ShortcutOf[e] \in S /\ e \in F[ShortcutOf[e]]
      OBVIOUS
    <3> HIDE DEF F, S
    <3> QED
      BY <3>1
  <2>3. UNION {F[s] : s \in S} \subseteq E
    OBVIOUS
  <2> QED
    BY <2>1, <2>2, <2>3
<1> HIDE DEF F, S
<1>5. SumFunctionOnSet(items, S) = Cardinality(E)
  BY <1>2, <1>3, <1>4, SumOfDisjoint
<1>6. ASSUME NEW s \in S PROVE Cardinality(F[s]) \in Counts
  <2>1. F[s] \in SUBSET E /\ F[s] # {}
    BY <1>4
  <2>2. Cardinality(F[s]) <= Cardinality(E) /\ Cardinality(F[s]) \in Nat \ {0}
    BY <1>3, <2>1, FS_Subset, FS_CardinalityType, FS_EmptySet
  <2> QED
    BY <1>3, <2>2, CountsSuffice, MaxTotalAssumption
<1>7. items \in [S -> Counts]
  BY <1>6
<1>8. items \in ItemMaps
  BY <1>2, <1>7 DEF ItemMaps
<1>9. TotalOf(items) = Cardinality(E)
  BY <1>5 DEF TotalOf, SumFunction
<1> QED
  BY <1>1, <1>8, <1>9

(* The body made of a reviewed batch is one the server accepts.            *)
LEMMA BodyIsValid ==
    ASSUME SharingInv, NEW b \in Out
    PROVE  PayloadOf(b) \in Payloads
<1>1. /\ b \in Batches /\ eventsOf[b] \in SUBSET Events
      /\ eventsOf[b] # {} /\ Cardinality(eventsOf[b]) <= MaxTotal
  BY OutIsBatches DEF SharingInv, DeviceType, Good, Sound
<1> QED
  BY <1>1, ItemsCount DEF PayloadOf, Payloads

(* The token that a device keeps with its batches.                         *)
LEMMA OneToken == TheToken \in Tokens
  BY TokensAssumption DEF TheToken

(* Every request that reaches the server is one of CommunityServer.        *)
LEMMA ServeIsServer ==
    ASSUME SharingInv, NEW m \in net, Serve(m)
    PROVE  /\ [Next]_vars
           /\ m \in Requests
           /\ reply'.status \in Answers
           /\ m.op = "delete" /\ reply'.status \in Confirmed => m.batch \in Gone'
           /\ \A b \in Batches : Exists(b)' =>
                 Exists(b) \/ (b \in Out /\ batches'[b].payload = PayloadOf(b))
<1>1. /\ m \in Requests /\ m.batch \in Batches /\ m.op \in {"post", "delete"}
      /\ TypeOK
  BY DEF SharingInv, DeviceType, Requests
<1>2. m.op = "post" => m.batch \in Out /\ PayloadOf(m.batch) \in Payloads
  BY <1>1, BodyIsValid DEF Out
<1>3. CASE m.op = "post" /\ Post(m.batch, TheToken, PayloadOf(m.batch))
  <2>1. Next
    BY <1>1, <1>2, <1>3, OneToken DEF Next
  <2>2. CASE SubmitSeen(m.batch, TheToken, PayloadOf(m.batch))
    <3>1. reply'.status = StoredStatus(m.batch, TheToken, PayloadOf(m.batch))
          /\ batches' = batches
      BY <2>2 DEF SubmitSeen, Answer, server
    <3>2. StoredStatus(m.batch, TheToken, PayloadOf(m.batch))
            \in {"withdrawn", "duplicate", "conflict"}
      BY DEF StoredStatus
    <3> QED
      BY <1>1, <1>3, <2>1, <3>1, <3>2 DEF Answers, Confirmed, Exists
  <2>3. CASE \E day \in Days : day <= today
                /\ SubmitNew(m.batch, TheToken, PayloadOf(m.batch), day)
    <3>1. PICK day \in Days : SubmitNew(m.batch, TheToken, PayloadOf(m.batch), day)
      BY <2>3
    <3>2. reply'.status = "created"
      BY <3>1 DEF SubmitNew, Answer
    <3>3. /\ batches'[m.batch].payload = PayloadOf(m.batch)
          /\ \A b \in Batches \ {m.batch} : batches'[b] = batches[b]
      BY <1>1, <3>1 DEF SubmitNew, TypeOK
    <3> QED
      BY <1>1, <1>2, <1>3, <2>1, <3>2, <3>3 DEF Answers, Exists
  <2> QED
    BY <1>3, <2>2, <2>3 DEF Post
<1>4. CASE m.op = "delete" /\ Delete(m.batch, TheToken)
  <2>1. Next
    BY <1>1, <1>4, OneToken DEF Next
  <2>2. CASE WithdrawLive(m.batch, TheToken)
    <3>1. reply'.status = "withdrawn" /\ Live(m.batch) /\ batches[m.batch] \in Rows
      BY <1>1, <2>2, LiveItems DEF WithdrawLive, WithdrawApplies, Answer
    <3>2. batches'[m.batch] = [batches[m.batch] EXCEPT !.withdrawn = TRUE]
          /\ \A b \in Batches \ {m.batch} : batches'[b] = batches[b]
      BY <1>1, <2>2 DEF WithdrawLive, TypeOK
    <3>3. batches'[m.batch].withdrawn /\ batches'[m.batch].state = "stored"
      BY <3>1, <3>2 DEF Rows
    <3>4. batches'[m.batch] # NoRow
      <4>1. batches'[m.batch] \in Rows
        BY <3>1, <3>2 DEF Rows
      <4> QED
        BY <4>1, RowFields
    <3>5. m.batch \in Gone' /\ \A b \in Batches : Exists(b)' => Exists(b)
      BY <1>1, <3>1, <3>2, <3>3, <3>4 DEF Gone, Exists, Live
    <3> QED
      BY <1>1, <2>1, <3>1, <3>5 DEF Answers, Confirmed
  <2>3. CASE WithdrawRefused(m.batch, TheToken)
    <3>1. reply'.status = RefusedStatus(m.batch, TheToken) /\ batches' = batches
          /\ ~WithdrawApplies(m.batch, TheToken)
      BY <2>3 DEF WithdrawRefused, Answer, server
    <3>2. RefusedStatus(m.batch, TheToken) \in {"not_found", "forbidden", "already_withdrawn"}
      BY DEF RefusedStatus
    <3>3. RefusedStatus(m.batch, TheToken) = "already_withdrawn" => m.batch \in Gone
      <4>1. RefusedStatus(m.batch, TheToken) = "already_withdrawn"
              => Exists(m.batch) /\ batches[m.batch].token = TheToken
        BY DEF RefusedStatus
      <4> QED
        BY <1>1, <3>1, <4>1 DEF WithdrawApplies, Live, Gone
    <3>4. Gone' = Gone
      BY <3>1 DEF Gone, Exists
    <3> QED
      BY <1>1, <2>1, <3>1, <3>2, <3>3, <3>4 DEF Answers, Confirmed, Exists
  <2> QED
    BY <1>4, <2>2, <2>3 DEF Delete
<1>5. CASE ServerError(m.batch, TheToken)
  <2>1. Next
    BY <1>1, <1>5, OneToken DEF Next
  <2>2. reply'.status = "server_error" /\ batches' = batches
    BY <1>5 DEF ServerError, Answer, server
  <2> QED
    BY <1>1, <2>1, <2>2 DEF Answers, Confirmed, Exists
<1> QED
  BY <1>3, <1>4, <1>5 DEF Serve

(* The server works on a request, and its answer may be lost.              *)
LEMMA ServeKeeps == ASSUME SharingInv, NEW m \in net, Serve(m) PROVE SharingInv'
<1>1. /\ [Next]_vars /\ m \in Requests /\ reply'.status \in Answers
      /\ m.op = "delete" /\ reply'.status \in Confirmed => m.batch \in Gone'
      /\ \A b \in Batches : Exists(b)' =>
            Exists(b) \/ (b \in Out /\ batches'[b].payload = PayloadOf(b))
  BY ServeIsServer
<1>2. /\ net' = net \ {m}
      /\ screen' = [s \in Screens |->
            IF screen[s].pc \in {"submitting", "deleting"}
                  /\ screen[s].request = m.id /\ screen[s].answer = "none"
            THEN [screen[s] EXCEPT !.answer = reply'.status] ELSE screen[s]]
      /\ UNCHANGED <<clicks, eventsOf, disk, sent, made, settled>>
  BY DEF Serve
<1>3. TypeOK /\ TypeOK' /\ RowsKept
  BY <1>1, NextType, NextKeepsRows DEF SharingInv
<1>4. Out' \subseteq Out
  <2> SUFFICES ASSUME NEW b \in Out' PROVE b \in Out
    OBVIOUS
  <2>1. b \in Batches /\ (Exists(b)' \/ \E n \in net' : n.op = "post" /\ n.batch = b)
    BY DEF Out
  <2> QED
    BY <1>1, <1>2, <2>1 DEF Out
<1>5. Gone \subseteq Gone'
  BY <1>3 DEF Gone, RowsKept, Exists
<1>6. \A b \in Batches : Exists(b)' => batches'[b].payload = PayloadOf(b)
  BY <1>1, <1>3 DEF RowsKept, SharingInv
<1>7. ASSUME NEW s \in Screens
      PROVE  Answered(s, reply'.status) /\ screen'[s] \in ScreenStates
  <2>1. screen[s] \in ScreenStates /\ Dash(screen[s])
    BY DEF SharingInv, DeviceType
  <2>2. CASE screen'[s] = screen[s]
    BY <2>1, <2>2 DEF Answered
  <2>3. CASE /\ screen[s].request = m.id
             /\ screen'[s] = [screen[s] EXCEPT !.answer = reply'.status]
    <3>1. screen'[s] \in ScreenStates
      BY <1>1, <2>1, <2>3 DEF ScreenStates
    <3>2. screen[s].pc = "deleting" => m.op = "delete" /\ m.batch = screen[s].target
      BY <2>1, <2>3 DEF Dash
    <3> QED
      BY <1>1, <2>3, <3>1, <3>2 DEF Answered
  <2> QED
    BY <1>2, <2>2, <2>3
<1>8. screen' \in [Screens -> ScreenStates] /\ net' \subseteq net
  BY <1>2, <1>7
<1> QED
  BY <1>1, <1>2, <1>3, <1>4, <1>5, <1>6, <1>7, <1>8, NetStep

-----------------------------------------------------------------------------
(* Every step, and the theorems.                                           *)

(* Nothing has been shared at first.                                       *)
LEMMA SharingInitially == SharingInit => SharingInv
<1> SUFFICES ASSUME SharingInit PROVE SharingInv
  OBVIOUS
<1>1. TypeOK
  BY InitType DEF SharingInit
<1>2. EmptyStore \in Stores
  BY DEF EmptyStore, Stores
<1>3. Closed \in ScreenStates
  BY <1>2 DEF Closed, ScreenStates, Pcs, Purposes, Answers
<1>4. DeviceType
  BY <1>2, <1>3 DEF SharingInit, DeviceType
<1>5. \A b \in Batches : ~Exists(b) /\ Cardinality(eventsOf[b]) <= MaxTotal
  BY FS_EmptySet, MaxTotalAssumption DEF SharingInit, Init, Exists
<1>6. Out = {} /\ Held(disk) = {}
  BY <1>5 DEF SharingInit, Out, Held, EmptyStore
<1>7. Good(disk)
  BY <1>6 DEF Good, Sound, SharingInit, EmptyStore
<1>8. \A s \in Screens : Dash(screen[s])
  BY DEF SharingInit, Dash, Closed, Awake
<1> QED
  BY <1>1, <1>4, <1>5, <1>7, <1>8 DEF SharingInv, SharingInit

(* Every step of the dashboard keeps the invariant.                        *)
LEMMA ScreenKeeps ==
    ASSUME SharingInv, OneDashboard, NEW s \in Screens, ScreenStep(s)
    PROVE  SharingInv'
<1>1. CASE Open(s) \/ Close(s) \/ SetSharingEnabled(s) \/ PersistDone(s) \/ PersistFailed(s)
  BY <1>1, OpenKeeps, CloseKeeps, ToggleKeeps, PersistDoneKeeps, PersistFailedKeepsInv
<1>2. CASE Review(s) \/ Dismiss(s) \/ Confirm(s)
  BY <1>2, ReviewKeeps, PcSteps, ConfirmKeeps
<1>3. CASE Submit(s) \/ Connected(s) \/ SubmitSkipped(s) \/ Acknowledge(s) \/ SubmitFailed(s)
  BY <1>3, SubmitKeeps, ConnectedKeeps, PcSteps, ReceiptKeeps
<1>4. CASE CancelPending(s) \/ Clear(s) \/ Erase(s)
  BY <1>4, ReceiptKeeps, PcSteps
<1>5. CASE Withdraw(s) \/ DeleteNext(s) \/ RemoveReceipt(s) \/ DeleteFailed(s)
              \/ WithdrawDone(s) \/ Timeout(s)
  BY <1>5, TodoSteps, DeleteNextKeeps, RemoveKeeps, PcSteps, TimeoutKeeps
<1> QED
  BY <1>1, <1>2, <1>3, <1>4, <1>5 DEF ScreenStep

(* Every step keeps the invariant, and is one of the server or none.       *)
LEMMA SharingStep ==
    ASSUME OneDashboard, SharingInv, [SharingNext]_allVars
    PROVE  SharingInv' /\ [Next]_vars
<1>1. ASSUME NEW e \in Events, Click(e) PROVE SharingInv' /\ [Next]_vars
  BY <1>1, ClickKeeps DEF Click
<1>2. ASSUME NEW s \in Screens, ScreenStep(s) PROVE SharingInv' /\ [Next]_vars
  <2>1. UNCHANGED vars
    BY <1>2 DEF ScreenStep, Open, Close, SetSharingEnabled, PersistDone, PersistFailed,
             Review, Dismiss, Confirm, Submit, Connected, SubmitSkipped, Acknowledge, SubmitFailed,
             CancelPending, Clear, Erase, Withdraw, DeleteNext, RemoveReceipt,
             DeleteFailed, WithdrawDone, Timeout
  <2> QED
    BY <1>2, <2>1, ScreenKeeps
<1>3. CASE Crash
  BY <1>3, CrashKeeps DEF Crash
<1>4. ASSUME NEW m \in net, LoseRequest(m) PROVE SharingInv' /\ [Next]_vars
  BY <1>4, LoseKeeps DEF LoseRequest
<1>5. ASSUME NEW m \in net, Serve(m) PROVE SharingInv' /\ [Next]_vars
  BY <1>5, ServeKeeps, ServeIsServer
<1>6. CASE UNCHANGED allVars
  <2>1. Quiet /\ \A s \in Screens : Dash(screen'[s])
    BY <1>6, ClicksMade DEF allVars, device, Quiet, SharingInv, DeviceType
  <2> QED
    BY <1>6, <2>1, QuietKeeps DEF allVars
<1> QED
  BY <1>1, <1>2, <1>3, <1>4, <1>5, <1>6 DEF SharingNext

(***************************************************************************)
(* With one dashboard, the stores on disk and in memory, which differ once *)
(* a write has failed, name every batch that is on the server or on its    *)
(* way, through lost requests and answers, failed writes and crashes       *)
(* (ShortcutCommunityStore._mutate, _persist, _submitPending, _withdraw).  *)
(***************************************************************************)
THEOREM SharingInvariance ==
    ASSUME OneDashboard
    PROVE  SharingSpec => []SharingInv
<1>1. SharingInv /\ [SharingNext]_allVars => SharingInv'
  BY SharingStep
<1> QED
  BY <1>1, SharingInitially, PTL DEF SharingSpec

(***************************************************************************)
(* What devices send is a behaviour of the server's specification: every   *)
(* body is valid, and all that is proved of the server holds of the tables *)
(* that sharing fills.                                                     *)
(***************************************************************************)
THEOREM SharingUsesServer ==
    ASSUME OneDashboard
    PROVE  SharingSpec => Spec
<1>1. SharingInit => Init
  BY DEF SharingInit
<1>2. SharingInv /\ [SharingNext]_allVars => [Next]_vars
  BY SharingStep
<1> QED
  BY <1>1, <1>2, SharingInvariance, PTL DEF SharingSpec, Spec

(***************************************************************************)
(* No click is counted in two batches, whatever is retried, cancelled or   *)
(* withdrawn (submittedEventIds).                                          *)
(***************************************************************************)
THEOREM SubmittedOnce ==
    ASSUME OneDashboard
    PROVE  SharingSpec => []EachClickSubmittedOnce
<1>1. SharingInv => EachClickSubmittedOnce
  BY OutIsBatches DEF SharingInv, Good, Sound, EachClickSubmittedOnce
<1> QED
  BY <1>1, SharingInvariance, PTL

(***************************************************************************)
(* A batch in the public totals has its receipt, or is pending, on disk    *)
(* (removeReceipt follows the server's confirmation).                      *)
(***************************************************************************)
THEOREM ReceiptsKept ==
    ASSUME OneDashboard
    PROVE  SharingSpec => []LiveBatchHasReceipt
<1>1. SharingInv => LiveBatchHasReceipt
  <2> SUFFICES ASSUME SharingInv, NEW b \in Batches, Live(b)
               PROVE  b \in disk.receipts \/ disk.pending = b
    BY DEF LiveBatchHasReceipt
  <2>1. b \in Out /\ b \notin Gone
    BY OutIsBatches DEF Live, Gone
  <2>2. b \in Held(disk)
    BY <2>1 DEF SharingInv, Good, Sound
  <2> QED
    BY <2>2 DEF Held
<1> QED
  BY <1>1, SharingInvariance, PTL

(***************************************************************************)
(* The all-time total of a category is at most the clicks made on it.      *)
(***************************************************************************)
THEOREM TotalsBounded ==
    ASSUME OneDashboard
    PROVE  SharingSpec => []TotalsNeverExceedClicks
<1>1. SharingInv /\ CountsInv => TotalsNeverExceedClicks
  <2> SUFFICES ASSUME SharingInv, CountsInv, NEW s \in Shortcuts
               PROVE  count[[tag |-> Null, experience |-> Null, day |-> Null]][s]
                         <= Cardinality({e \in made : ShortcutOf[e] = s})
    BY DEF TotalsNeverExceedClicks
  <2> DEFINE all == [tag |-> Null, experience |-> Null, day |-> Null]
             C == Contributors(all, s)
             clicked == {e \in made : ShortcutOf[e] = s}
             F == [b \in C |-> {e \in eventsOf[b] : ShortcutOf[e] = s}]
             sizes == [b \in C |-> Cardinality(F[b])]
  <2>1. all \in Scopes
    BY DEF Scopes
  <2>2. /\ count[all][s] = SumFunctionOnSet(Amounts(all, s), C) /\ IsFiniteSet(C)
        /\ \A b \in C : /\ Amounts(all, s)[b] = batches[b].payload.items[s]
                        /\ Amounts(all, s)[b] \in Nat \ {0}
    <3> HIDE DEF all
    <3> QED
      BY <2>1, CountIsSum
  <2>3. ASSUME NEW b \in C PROVE b \in Batches /\ Exists(b) /\ s \in DOMAIN batches[b].payload.items
    BY DEF Contributors, Live, Touched
  <2>4. IsFiniteSet(clicked)
    <3>1. clicked \subseteq Events
      BY DEF SharingInv, DeviceType
    <3> QED
      BY <3>1, EventsAssumption, FS_Subset
  <2>5. F \in [C -> SUBSET clicked]
    <3>1. \A b \in C : eventsOf[b] \subseteq made
      BY <2>3 DEF SharingInv, DeviceType
    <3> HIDE DEF C
    <3> QED
      BY <3>1
  <2>6. \A b, c \in C : b # c => F[b] \cap F[c] = {}
    <3>1. \A b, c \in C : b # c => eventsOf[b] \cap eventsOf[c] = {}
      BY <2>3, OutIsBatches DEF SharingInv, Good, Sound
    <3> HIDE DEF C
    <3> QED
      BY <3>1
  <2>7. \A b \in C : Amounts(all, s)[b] = sizes[b]
    <3> SUFFICES ASSUME NEW b \in C PROVE Amounts(all, s)[b] = sizes[b]
      OBVIOUS
    <3>1. batches[b].payload = PayloadOf(b)
      BY <2>3 DEF SharingInv
    <3>2. batches[b].payload.items = ItemsOf(eventsOf[b])
      BY <3>1 DEF PayloadOf
    <3>3. ItemsOf(eventsOf[b])[s] = Cardinality({e \in eventsOf[b] : ShortcutOf[e] = s})
      BY <2>3, <3>2 DEF ItemsOf
    <3> HIDE DEF C, all
    <3> QED
      BY <2>2, <3>2, <3>3
  <2> HIDE DEF F, C, all, clicked
  <2>8. SumFunctionOnSet(sizes, C) = Cardinality(UNION {F[b] : b \in C})
    BY <2>2, <2>4, <2>5, <2>6, SumOfDisjoint
  <2>9. SumFunctionOnSet(Amounts(all, s), C) = SumFunctionOnSet(sizes, C)
    <3>1. \A b \in C : Amounts(all, s)[b] \in Int /\ Amounts(all, s)[b] = sizes[b]
      BY <2>2, <2>7
    <3> HIDE DEF sizes
    <3> QED
      BY <2>2, <3>1, SumAgree
  <2>10. Cardinality(UNION {F[b] : b \in C}) <= Cardinality(clicked)
    <3>1. UNION {F[b] : b \in C} \subseteq clicked
      BY <2>5
    <3> QED
      BY <2>4, <3>1, FS_Subset
  <2> QED
    BY <2>2, <2>8, <2>9, <2>10 DEF all, clicked
<1> QED
  BY <1>1, SharingInvariance, SharingUsesServer, CountsInvariant, PTL

(***************************************************************************)
(* A batch that was acknowledged, cancelled or withdrawn, and reported so, *)
(* is not sent again, and whatever is sent is named by the store file,     *)
(* although a failed write may leave memory and file different (_persist,  *)
(* _mutate, _submitPending).                                               *)
(***************************************************************************)
THEOREM SettledStaysSettled ==
    ASSUME OneDashboard
    PROVE  SharingSpec => SettledIsNotSent
<1> DEFINE Sends == \A m \in net' \ net : m.op = "post" =>
                       /\ m.batch \notin settled
                       /\ disk.pending = m.batch \/ m.batch \in disk.receipts
<1>1. SharingInv /\ [SharingNext]_allVars => Sends
  <2> SUFFICES ASSUME SharingInv, [SharingNext]_allVars, NEW m \in net' \ net, m.op = "post"
               PROVE  /\ m.batch \notin settled
                      /\ disk.pending = m.batch \/ m.batch \in disk.receipts
    OBVIOUS
  <2>1. ~(net' \subseteq net)
    OBVIOUS
  <2>2. PICK s \in Screens : Connected(s) \/ DeleteNext(s)
    <3>1. /\ \A e \in Events : ~Click(e)
          /\ ~Crash /\ ~UNCHANGED allVars
          /\ \A n \in net : ~LoseRequest(n) /\ ~Serve(n)
      BY <2>1 DEF Click, Crash, LoseRequest, Serve, allVars, device
    <3>2. PICK s \in Screens : ScreenStep(s)
      BY <3>1 DEF SharingNext
    <3> QED
      BY <2>1, <3>2 DEF ScreenStep, Open, Close, SetSharingEnabled, PersistDone,
             PersistFailed, Review, Dismiss, Confirm, Submit, SubmitSkipped, Acknowledge,
             SubmitFailed, CancelPending, Clear, Erase, Withdraw, RemoveReceipt,
             DeleteFailed, WithdrawDone, Timeout
  <2>3. ~DeleteNext(s)
    BY DEF DeleteNext, Send
  <2>4. Connected(s)
    BY <2>2, <2>3
  <2>5. m.batch = screen[s].target
    BY <2>4 DEF Connected, Send
  <2> QED
    BY <2>4, <2>5, ConnectedBatch DEF Held
<1>2. SharingInv /\ [SharingNext]_allVars => [Sends]_allVars
  BY <1>1
<1> QED
  BY <1>2, SharingInvariance, PTL DEF SharingSpec, SettledIsNotSent
=============================================================================
