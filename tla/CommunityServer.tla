--------------------------- MODULE CommunityServer ---------------------------
(***************************************************************************)
(* What the community ranking service promises: the database of            *)
(* community_server with every stored function taken as one atomic step.   *)
(* CommunityTx.tla splits the same functions into the row locks they take  *)
(* and is shown to implement this module.                                  *)
(*                                                                         *)
(* The eight aggregate tables (shortcut_totals, shortcut_daily_totals,     *)
(* shortcut_tag_totals, ...) are one function over scopes.  A scope names  *)
(* the table and its key: tag, experience and day are each a value or      *)
(* Null, and Null says that the table has no such column.  A row that was  *)
(* never inserted reads as zero, as it does in the ranking queries and in  *)
(* the guarded updates of a withdrawal.                                    *)
(***************************************************************************)
EXTENDS Integers, FiniteSets, Functions

CONSTANTS
    Batches,      \* batch_id values
    Tokens,       \* delete_token values, told apart by their hash
    Shortcuts,    \* ALLOWED: the recognised categories, numbered in key order
    Tags,         \* TAGS
    Experiences,  \* EXPERIENCES
    Null,         \* SQL NULL
    Counts,       \* counts that a category may have in a batch
    MaxTotal,     \* MAX_TOTAL: the largest sum of counts in one batch
    MaxDay,       \* bound of the model: the last UTC day it reaches
    Threshold,    \* batches a category needs before it is published
    Windows       \* lengths in days of the bounded ranking periods

ASSUME ShortcutsAssumption   == Shortcuts \subseteq Nat /\ IsFiniteSet(Shortcuts)
ASSUME BatchesAssumption     == IsFiniteSet(Batches)
ASSUME CountsAssumption      == Counts \subseteq Nat \ {0}
ASSUME MaxTotalAssumption    == MaxTotal \in Nat
ASSUME MaxDayAssumption      == MaxDay \in Nat
ASSUME ThresholdAssumption   == Threshold \in Nat \ {0}
ASSUME WindowsAssumption     == Windows \subseteq Nat \ {0}
ASSUME NullAssumption        == /\ Null \notin Tags
                                /\ Null \notin Experiences
                                /\ Null \notin 0..MaxDay
                                /\ Null \notin Windows

VARIABLES
    batches,        \* batch_id -> its row, or NoRow
    batch_items,    \* batch_id -> (shortcut_id -> count), empty without rows
    count,          \* scope -> shortcut_id -> summed click count
    contributions,  \* scope -> shortcut_id -> number of batches
    today,          \* now_seconds() / 86400
    reply           \* the last answer given, with the request it answers

server == <<batches, batch_items, count, contributions>>
vars == <<server, today, reply>>

Days == 0..MaxDay

(***************************************************************************)
(* The bodies that validate() lets through: at least one category, each at *)
(* most once and with a positive count, the total within MAX_TOTAL, and    *)
(* tag and experience from the allow lists or absent.  The hash of the     *)
(* canonical form is the body itself: it tells two bodies apart exactly    *)
(* when they differ, and never by the order of their items.                *)
(***************************************************************************)
ItemMaps == UNION {[S -> Counts] : S \in (SUBSET Shortcuts) \ {{}}}

TotalOf(items) == SumFunction(items)

Payloads == [tag        : Tags \cup {Null},
             experience : Experiences \cup {Null},
             items      : {m \in ItemMaps : TotalOf(m) <= MaxTotal}]

NoRow == [state |-> "absent"]

NoItems == [s \in {} |-> 0]

Rows == [state     : {"stored"},
         token     : Tokens,
         payload   : Payloads,
         day       : Days,
         withdrawn : BOOLEAN]

Scopes == [tag        : Tags \cup {Null},
           experience : Experiences \cup {Null},
           day        : Days \cup {Null}]

(* The rows that one batch adds to: the global ones, and those of its tag, *)
(* of its experience and of both when it carries them, each for all time   *)
(* and for the day the batch was received.                                 *)
ScopesOf(payload, day) ==
    [tag        : {Null, payload.tag},
     experience : {Null, payload.experience},
     day        : {Null, day}]

Exists(b) == batches[b] # NoRow

Live(b) == Exists(b) /\ ~batches[b].withdrawn

(***************************************************************************)
(* The aggregates after one batch is added to or taken from every row of   *)
(* its scopes.                                                             *)
(***************************************************************************)
Touched(scope, s, payload, day) ==
    scope \in ScopesOf(payload, day) /\ s \in DOMAIN payload.items

AddBatch(payload, day) ==
    /\ count' = [sc \in Scopes |-> [s \in Shortcuts |->
                    IF Touched(sc, s, payload, day)
                    THEN count[sc][s] + payload.items[s] ELSE count[sc][s]]]
    /\ contributions' = [sc \in Scopes |-> [s \in Shortcuts |->
                    IF Touched(sc, s, payload, day)
                    THEN contributions[sc][s] + 1 ELSE contributions[sc][s]]]

(* Mutant of RemoveBatch: every row of the batch loses its whole total.     *)
RemoveBatchTotal(payload, day) ==
    /\ count' = [sc \in Scopes |-> [s \in Shortcuts |->
                    IF Touched(sc, s, payload, day)
                    THEN count[sc][s] - TotalOf(payload.items) ELSE count[sc][s]]]
    /\ contributions' = [sc \in Scopes |-> [s \in Shortcuts |->
                    IF Touched(sc, s, payload, day)
                    THEN contributions[sc][s] - 1 ELSE contributions[sc][s]]]

RemoveBatch(payload, day) ==
    /\ count' = [sc \in Scopes |-> [s \in Shortcuts |->
                    IF Touched(sc, s, payload, day)
                    THEN count[sc][s] - payload.items[s] ELSE count[sc][s]]]
    /\ contributions' = [sc \in Scopes |-> [s \in Shortcuts |->
                    IF Touched(sc, s, payload, day)
                    THEN contributions[sc][s] - 1 ELSE contributions[sc][s]]]

(* The WHERE clauses of the withdrawal: a row that is missing or too small *)
(* is not updated, and the function raises.                                *)
RowCovers(scope, s, amount) ==
    count[scope][s] >= amount /\ contributions[scope][s] > 0

AggregatesCover(payload, day) ==
    \A sc \in ScopesOf(payload, day), s \in DOMAIN payload.items :
        RowCovers(sc, s, payload.items[s])

Answer(op, b, tok, payload, status) ==
    reply' = [op |-> op, batch |-> b, token |-> tok, payload |-> payload,
              status |-> status]

StoredStatus(b, tok, payload) ==
    CASE batches[b].withdrawn -> "withdrawn"
      [] ~batches[b].withdrawn
            /\ batches[b].payload = payload /\ batches[b].token = tok -> "duplicate"
      [] OTHER -> "conflict"

SubmitNew(b, tok, payload, day) ==
    /\ ~Exists(b)
    /\ batches' = [batches EXCEPT ![b] =
            [state |-> "stored", token |-> tok, payload |-> payload,
             day |-> day, withdrawn |-> FALSE]]
    /\ batch_items' = [batch_items EXCEPT ![b] = payload.items]
    /\ AddBatch(payload, day)
    /\ Answer("submit", b, tok, payload, "created")
    /\ UNCHANGED today

(* Mutant of SubmitSeen: a retry of the same batch is counted again.        *)
SubmitSeenCountsAgain(b, tok, payload) ==
    /\ Exists(b)
    /\ Answer("submit", b, tok, payload, StoredStatus(b, tok, payload))
    /\ IF StoredStatus(b, tok, payload) = "duplicate"
       THEN AddBatch(payload, batches[b].day)
       ELSE UNCHANGED <<count, contributions>>
    /\ UNCHANGED <<batches, batch_items, today>>

SubmitSeen(b, tok, payload) ==
    /\ Exists(b)
    /\ Answer("submit", b, tok, payload, StoredStatus(b, tok, payload))
    /\ UNCHANGED <<server, today>>

(* The handler of POST reads the clock before it waits for a connection,   *)
(* so the day of a row may be over when the row is written.                *)
Post(b, tok, payload) ==
    \/ \E day \in Days : day <= today /\ SubmitNew(b, tok, payload, day)
    \/ SubmitSeen(b, tok, payload)

(***************************************************************************)
(* withdraw_community_batch: the owner of the token takes the items of the *)
(* batch out of every aggregate, deletes them and leaves a tombstone.      *)
(***************************************************************************)
RefusedStatus(b, tok) ==
    CASE ~Exists(b) -> "not_found"
      [] Exists(b) /\ batches[b].token # tok -> "forbidden"
      [] OTHER -> "already_withdrawn"

(* Mutant of WithdrawApplies: any token withdraws.                          *)
WithdrawAppliesToAnyone(b, tok) == Live(b) /\ tok \in Tokens

(* What is subtracted: the rows of batch_items under the tag, experience   *)
(* and day that the row of batches keeps.                                  *)
Taken(b) == [tag        |-> batches[b].payload.tag,
             experience |-> batches[b].payload.experience,
             items      |-> batch_items[b]]

WithdrawApplies(b, tok) == Live(b) /\ batches[b].token = tok

(* Mutant of WithdrawLive: the items of the batch stay behind.              *)
WithdrawLiveKeepsItems(b, tok) ==
    /\ WithdrawApplies(b, tok)
    /\ RemoveBatch(Taken(b), batches[b].day)
    /\ batches' = [batches EXCEPT ![b].withdrawn = TRUE]
    /\ Answer("withdraw", b, tok, Null, "withdrawn")
    /\ UNCHANGED <<batch_items, today>>

WithdrawLive(b, tok) ==
    /\ WithdrawApplies(b, tok)
    /\ AggregatesCover(Taken(b), batches[b].day)
    /\ RemoveBatch(Taken(b), batches[b].day)
    /\ batch_items' = [batch_items EXCEPT ![b] = NoItems]
    /\ batches' = [batches EXCEPT ![b].withdrawn = TRUE]
    /\ Answer("withdraw", b, tok, Null, "withdrawn")
    /\ UNCHANGED today

WithdrawRefused(b, tok) ==
    /\ ~WithdrawApplies(b, tok)
    /\ Answer("withdraw", b, tok, Null, RefusedStatus(b, tok))
    /\ UNCHANGED <<server, today>>

Delete(b, tok) == WithdrawLive(b, tok) \/ WithdrawRefused(b, tok)

(* A request that ends in server_error: the transaction was rolled back.   *)
ServerError(b, tok) ==
    /\ Answer("failed", b, tok, Null, "server_error")
    /\ UNCHANGED <<server, today>>

NextDay ==
    /\ today < MaxDay
    /\ today' = today + 1
    /\ UNCHANGED <<server, reply>>

Init ==
    /\ batches = [b \in Batches |-> NoRow]
    /\ batch_items = [b \in Batches |-> NoItems]
    /\ count = [sc \in Scopes |-> [s \in Shortcuts |-> 0]]
    /\ contributions = [sc \in Scopes |-> [s \in Shortcuts |-> 0]]
    /\ today = 0
    /\ reply = [status |-> "none"]

Next ==
    \/ \E b \in Batches, tok \in Tokens, payload \in Payloads : Post(b, tok, payload)
    \/ \E b \in Batches, tok \in Tokens : Delete(b, tok)
    \/ \E b \in Batches, tok \in Tokens : ServerError(b, tok)
    \/ NextDay

Spec == Init /\ [][Next]_vars

-----------------------------------------------------------------------------
(***************************************************************************)
(* GET /v1/rankings.  Without a period the rows of the all-time table are  *)
(* read; with one, the daily rows from the cutoff day on are summed.       *)
(***************************************************************************)
Views == [tag        : Tags \cup {Null},
          experience : Experiences \cup {Null},
          window     : Windows \cup {Null}]

(* Mutant of CutoffDay: the period starts a day early.                      *)
CutoffDayEarly(view) == today - view.window

CutoffDay(view) == today - (view.window - 1)

ScopesRead(view) ==
    IF view.window = Null
    THEN [tag : {view.tag}, experience : {view.experience}, day : {Null}]
    ELSE [tag : {view.tag}, experience : {view.experience},
          day : {d \in Days : d >= CutoffDay(view)}]

RankedContributions(view, s) ==
    SumFunction([sc \in ScopesRead(view) |-> contributions[sc][s]])

RankedCount(view, s) ==
    SumFunction([sc \in ScopesRead(view) |-> count[sc][s]])

Ranking(view) ==
    {[shortcut_id |-> s, count |-> RankedCount(view, s),
      contributions |-> RankedContributions(view, s)] :
        s \in {x \in Shortcuts : RankedContributions(view, x) >= Threshold}}

-----------------------------------------------------------------------------
(* The live batches that count towards one aggregate row.                  *)
Contributors(scope, s) ==
    {b \in Batches : Live(b) /\ Touched(scope, s, batches[b].payload, batches[b].day)}

(***************************************************************************)
(* Type correctness of the tables.                                         *)
(***************************************************************************)
TypeOK ==
    /\ batches \in [Batches -> Rows \cup {NoRow}]
    /\ batch_items \in [Batches -> ItemMaps \cup {NoItems}]
    /\ \A b \in Batches :
          batch_items[b] = IF Live(b) THEN batches[b].payload.items ELSE NoItems
    /\ count \in [Scopes -> [Shortcuts -> Nat]]
    /\ contributions \in [Scopes -> [Shortcuts -> Nat]]
    /\ today \in Days

(***************************************************************************)
(* contributions of every aggregate row is the number of live batches that *)
(* hold the category in that row's scope: concurrent submissions, retries  *)
(* and withdrawals never leave a batch counted twice or half removed.      *)
(***************************************************************************)
ContributionsMatchBatches ==
    \A sc \in Scopes, s \in Shortcuts :
        contributions[sc][s] = Cardinality(Contributors(sc, s))

(***************************************************************************)
(* count of every aggregate row is the sum of that category over the same  *)
(* batches, so taking a batch out returns exactly what it brought in.      *)
(***************************************************************************)
CountsMatchBatches ==
    \A sc \in Scopes, s \in Shortcuts :
        count[sc][s] =
            SumFunction([b \in Contributors(sc, s) |-> batches[b].payload.items[s]])

(* What a ranking query asks for.                                          *)
InView(b, view) ==
    /\ view.tag \in {Null, batches[b].payload.tag}
    /\ view.experience \in {Null, batches[b].payload.experience}
    /\ view.window # Null => batches[b].day > today - view.window

(***************************************************************************)
(* The publication threshold: a category in the answer to any ranking      *)
(* query is backed by at least Threshold different batches that are stored,*)
(* not withdrawn, carry the asked tag and experience, and were received in *)
(* the asked period.                                                       *)
(***************************************************************************)
PublishedIsBacked ==
    \A view \in Views : \A row \in Ranking(view) :
        Cardinality({b \in Batches :
            /\ Live(b)
            /\ row.shortcut_id \in DOMAIN batches[b].payload.items
            /\ InView(b, view)}) >= Threshold

(***************************************************************************)
(* A stored batch is never re-used: its token, contents and day are fixed, *)
(* and a withdrawn batch stays withdrawn whatever is submitted under its   *)
(* id afterwards.                                                          *)
(***************************************************************************)
RowsAreImmutable ==
    [][\A b \in Batches : Exists(b) =>
          /\ batches'[b] # NoRow
          /\ batches'[b].token = batches[b].token
          /\ batches'[b].payload = batches[b].payload
          /\ batches'[b].day = batches[b].day
          /\ batches[b].withdrawn => batches'[b].withdrawn]_vars

(***************************************************************************)
(* Published numbers go down only through the owner: a step that lowers    *)
(* any aggregate answers a withdrawal made with the token of a batch that  *)
(* was live.                                                               *)
(***************************************************************************)
OnlyOwnerRemoves ==
    [][(\E sc \in Scopes, s \in Shortcuts :
            \/ count'[sc][s] < count[sc][s]
            \/ contributions'[sc][s] < contributions[sc][s])
       => /\ reply'.op = "withdraw" /\ reply'.status = "withdrawn"
          /\ Live(reply'.batch)
          /\ batches[reply'.batch].token = reply'.token]_vars
=============================================================================
