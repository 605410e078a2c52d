----------------------------- MODULE CommunityTx -----------------------------
(***************************************************************************)
(* The stored functions of CommunityServer as PostgreSQL runs them: every  *)
(* request of the pool executes its statements one by one in a READ        *)
(* COMMITTED transaction of its own, and each statement that writes a row  *)
(* or reads it FOR UPDATE waits for the row's lock, which its transaction  *)
(* keeps until it ends.  The variables of CommunityServer are the          *)
(* committed tables; what a transaction has written so far is visible to   *)
(* nobody else, and is applied when it commits.                            *)
(***************************************************************************)
EXTENDS CommunityServer

CONSTANT Conns   \* the connections of the pool, one request each

ASSUME ConnsAssumption == IsFiniteSet(Conns)

VARIABLE tx      \* connection -> the transaction it runs

txVars == <<vars, tx>>

Idle == [pc |-> "idle", held |-> {}]

(* An aggregate row, and the lock keys: a row of batches or of a table.    *)
AggRows == [scope : Scopes, shortcut : Shortcuts]

RowsOf(payload, day) ==
    [scope : ScopesOf(payload, day), shortcut : DOMAIN payload.items]

(* The statements inside the loop body, in the order both functions have   *)
(* them: total, daily, tag, tag daily, experience, experience daily, both, *)
(* both daily.  The loop itself runs in the order of the category key.     *)
TableIndex(scope) ==
    (IF scope.day        = Null THEN 0 ELSE 1) +
    (IF scope.tag        = Null THEN 0 ELSE 2) +
    (IF scope.experience = Null THEN 0 ELSE 4)

SubmitBefore(r, q) ==
    \/ r.shortcut < q.shortcut
    \/ r.shortcut = q.shortcut /\ TableIndex(r.scope) <= TableIndex(q.scope)

(* Mutant of WithdrawBefore: a withdrawal visits the categories backwards.  *)
WithdrawBackwards(r, q) ==
    \/ r.shortcut > q.shortcut
    \/ r.shortcut = q.shortcut /\ TableIndex(r.scope) <= TableIndex(q.scope)

WithdrawBefore(r, q) ==
    \/ r.shortcut < q.shortcut
    \/ r.shortcut = q.shortcut /\ TableIndex(r.scope) <= TableIndex(q.scope)

NextRow(t) ==
    CHOOSE r \in t.todo : \A q \in t.todo :
        IF t.op = "submit" THEN SubmitBefore(r, q) ELSE WithdrawBefore(r, q)

LockFree(c, key) == \A d \in Conns \ {c} : key \notin tx[d].held

BatchKey(b) == [batch |-> b]

RowKey(r) == [row |-> r]

Goto(c, pc) == tx' = [tx EXCEPT ![c].pc = pc]

FinishHolding(c, key, status) ==
    tx' = [tx EXCEPT ![c].pc = "commit", ![c].status = status,
                     ![c].held = @ \cup {key}]

-----------------------------------------------------------------------------
BeginSubmit(c, b, tok, payload) ==
    /\ tx[c].pc = "idle"
    /\ tx' = [tx EXCEPT ![c] =
            [pc |-> "insert", op |-> "submit", batch |-> b, token |-> tok,
             payload |-> payload, day |-> today, todo |-> {}, held |-> {},
             status |-> "none"]]
    /\ UNCHANGED vars

(* Mutant of InsertBatch: the insert does not wait for another one.         *)
InsertBatchUnlocked(c) ==
    /\ tx[c].pc = "insert"
    /\ ~Exists(tx[c].batch)
    /\ tx' = [tx EXCEPT ![c].pc = "update",
                        ![c].status = "created",
                        ![c].todo = RowsOf(tx[c].payload, tx[c].day)]
    /\ UNCHANGED vars

(* INSERT ... ON CONFLICT DO NOTHING.  The row of a transaction that has   *)
(* not ended holds the insert back; a committed row makes it do nothing.   *)
InsertBatch(c) ==
    /\ tx[c].pc = "insert"
    /\ ~Exists(tx[c].batch)
    /\ LockFree(c, BatchKey(tx[c].batch))
    /\ tx' = [tx EXCEPT ![c].pc = "update",
                        ![c].status = "created",
                        ![c].todo = RowsOf(tx[c].payload, tx[c].day),
                        ![c].held = {BatchKey(tx[c].batch)}]
    /\ UNCHANGED vars

InsertConflict(c) ==
    /\ tx[c].pc = "insert"
    /\ Exists(tx[c].batch)
    /\ Goto(c, "lookup")
    /\ UNCHANGED vars

(* SELECT ... FOR UPDATE of the row that was there before.                 *)
LookupBatch(c) ==
    /\ tx[c].pc = "lookup"
    /\ LockFree(c, BatchKey(tx[c].batch))
    /\ FinishHolding(c, BatchKey(tx[c].batch),
                     StoredStatus(tx[c].batch, tx[c].token, tx[c].payload))
    /\ UNCHANGED vars

BeginWithdraw(c, b, tok) ==
    /\ tx[c].pc = "idle"
    /\ tx' = [tx EXCEPT ![c] =
            [pc |-> "find", op |-> "withdraw", batch |-> b, token |-> tok,
             payload |-> Null, day |-> Null, todo |-> {}, held |-> {},
             status |-> "none"]]
    /\ UNCHANGED vars

(* A row that another transaction has inserted but not committed is not    *)
(* seen, and is not waited for.  The function returns at once: it holds no *)
(* lock and has nothing to commit, so its answer is that of this moment.   *)
FindNothing(c) ==
    /\ tx[c].pc = "find"
    /\ ~Exists(tx[c].batch)
    /\ Answer("withdraw", tx[c].batch, tx[c].token, Null, "not_found")
    /\ tx' = [tx EXCEPT ![c] = Idle]
    /\ UNCHANGED <<server, today>>

FindRefused(c) ==
    /\ tx[c].pc = "find"
    /\ Exists(tx[c].batch)
    /\ LockFree(c, BatchKey(tx[c].batch))
    /\ ~WithdrawApplies(tx[c].batch, tx[c].token)
    /\ FinishHolding(c, BatchKey(tx[c].batch),
                     RefusedStatus(tx[c].batch, tx[c].token))
    /\ UNCHANGED vars

(* Mutant of FindLive: the batch is read without FOR UPDATE.                *)
FindLiveUnlocked(c) ==
    /\ tx[c].pc = "find"
    /\ WithdrawApplies(tx[c].batch, tx[c].token)
    /\ LET row   == batches[tx[c].batch]
           taken == Taken(tx[c].batch)
       IN  tx' = [tx EXCEPT ![c].pc = "update",
                            ![c].status = "withdrawn",
                            ![c].payload = taken,
                            ![c].day = row.day,
                            ![c].todo = RowsOf(taken, row.day)]
    /\ UNCHANGED vars

FindLive(c) ==
    /\ tx[c].pc = "find"
    /\ LockFree(c, BatchKey(tx[c].batch))
    /\ WithdrawApplies(tx[c].batch, tx[c].token)
    /\ LET row   == batches[tx[c].batch]
           taken == Taken(tx[c].batch)
       IN  tx' = [tx EXCEPT ![c].pc = "update",
                            ![c].status = "withdrawn",
                            ![c].payload = taken,
                            ![c].day = row.day,
                            ![c].todo = RowsOf(taken, row.day),
                            ![c].held = {BatchKey(tx[c].batch)}]
    /\ UNCHANGED vars

(* One UPDATE (or INSERT ... ON CONFLICT DO UPDATE) of the loop body.      *)
UpdateRow(c) ==
    /\ tx[c].pc = "update"
    /\ tx[c].todo # {}
    /\ LET r == NextRow(tx[c])
       IN  /\ LockFree(c, RowKey(r))
           /\ tx[c].op = "withdraw" =>
                 RowCovers(r.scope, r.shortcut, tx[c].payload.items[r.shortcut])
           /\ tx' = [tx EXCEPT ![c].todo = @ \ {r},
                               ![c].held = @ \cup {RowKey(r)}]
    /\ UNCHANGED vars

UpdatesDone(c) ==
    /\ tx[c].pc = "update"
    /\ tx[c].todo = {}
    /\ Goto(c, "commit")
    /\ UNCHANGED vars

-----------------------------------------------------------------------------
(* The end of a transaction makes its writes visible and frees its locks   *)
(* in one step.                                                            *)
CommitCreated(c) ==
    /\ tx[c].status = "created"
    /\ batches' = [batches EXCEPT ![tx[c].batch] =
            [state |-> "stored", token |-> tx[c].token, payload |-> tx[c].payload,
             day |-> tx[c].day, withdrawn |-> FALSE]]
    /\ batch_items' = [batch_items EXCEPT ![tx[c].batch] = tx[c].payload.items]
    /\ AddBatch(tx[c].payload, tx[c].day)

CommitWithdrawn(c) ==
    /\ tx[c].op = "withdraw" /\ tx[c].status = "withdrawn"
    /\ batches' = [batches EXCEPT ![tx[c].batch].withdrawn = TRUE]
    /\ batch_items' = [batch_items EXCEPT ![tx[c].batch] = NoItems]
    /\ RemoveBatch(tx[c].payload, tx[c].day)

CommitUnchanged(c) ==
    /\ tx[c].status # "created"
    /\ ~(tx[c].op = "withdraw" /\ tx[c].status = "withdrawn")
    /\ UNCHANGED server

Commit(c) ==
    /\ tx[c].pc = "commit"
    /\ CommitCreated(c) \/ CommitWithdrawn(c) \/ CommitUnchanged(c)
    /\ Answer(tx[c].op, tx[c].batch, tx[c].token,
              IF tx[c].op = "submit" THEN tx[c].payload ELSE Null, tx[c].status)
    /\ tx' = [tx EXCEPT ![c] = Idle]
    /\ UNCHANGED today

(* A statement fails, the connection is lost or the function raises: every *)
(* write is rolled back and the handler answers server_error.              *)
Abort(c) ==
    /\ tx[c].pc # "idle"
    /\ ServerError(tx[c].batch, tx[c].token)
    /\ tx' = [tx EXCEPT ![c] = Idle]

TxNextDay == NextDay /\ UNCHANGED tx

TxInit == Init /\ tx = [c \in Conns |-> Idle]

Step(c) ==
    \/ InsertBatch(c) \/ InsertConflict(c) \/ LookupBatch(c)
    \/ FindNothing(c) \/ FindRefused(c) \/ FindLive(c)
    \/ UpdateRow(c) \/ UpdatesDone(c) \/ Commit(c)

TxNext ==
    \/ \E c \in Conns, b \in Batches, tok \in Tokens, payload \in Payloads :
          BeginSubmit(c, b, tok, payload)
    \/ \E c \in Conns, b \in Batches, tok \in Tokens : BeginWithdraw(c, b, tok)
    \/ \E c \in Conns : Step(c)
    \/ \E c \in Conns : Abort(c)
    \/ TxNextDay

TxSpec == TxInit /\ [][TxNext]_txVars

-----------------------------------------------------------------------------
(***************************************************************************)
(* Every commit is one call of the atomic functions and every other step   *)
(* changes nothing that is committed: row by row execution, whatever the   *)
(* interleaving and wherever transactions fail, implements CommunityServer.*)
(***************************************************************************)
ImplementsCommunityServer == Spec

(* The lock a connection waits for, if any.                                *)
Wanted(c) ==
    CASE tx[c].pc = "insert" /\ ~Exists(tx[c].batch) -> {BatchKey(tx[c].batch)}
      [] tx[c].pc = "lookup" -> {BatchKey(tx[c].batch)}
      [] tx[c].pc = "find" /\ Exists(tx[c].batch) -> {BatchKey(tx[c].batch)}
      [] tx[c].pc = "update" /\ tx[c].todo # {} -> {RowKey(NextRow(tx[c]))}
      [] OTHER -> {}

WaitsFor(c) == {d \in Conns \ {c} : Wanted(c) \cap tx[d].held # {}}

(***************************************************************************)
(* Submissions and withdrawals of any batches never deadlock: in every     *)
(* group of connections one waits for nobody in the group.  It rests on    *)
(* both functions visiting categories and tables in the same order.        *)
(***************************************************************************)
NoDeadlock ==
    \A group \in (SUBSET Conns) \ {{}} :
        \E c \in group : WaitsFor(c) \cap group = {}

(***************************************************************************)
(* The check that guards the function's RAISE lines cannot fail between    *)
(* the read of the batch and the update: a withdrawal on its way always    *)
(* finds the rest of its rows large enough.                                *)
(***************************************************************************)
RowsStayCovered ==
    \A c \in Conns : (tx[c].pc = "update" /\ tx[c].op = "withdraw") =>
        \A r \in tx[c].todo :
            RowCovers(r.scope, r.shortcut, tx[c].payload.items[r.shortcut])
=============================================================================
