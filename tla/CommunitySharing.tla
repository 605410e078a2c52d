-------------------------- MODULE CommunitySharing --------------------------
(***************************************************************************)
(* Voluntary sharing from end to end: the usage dashboard of one device,   *)
(* its private store on disk, a network that delays and loses requests and *)
(* answers, and the community server (CommunityServer, whose actions are   *)
(* the server's steps here).                                               *)
(*                                                                         *)
(* A screen is one instance of UsageDashboardScreen with the               *)
(* ShortcutCommunityStore it loaded when it was opened.  Closing a screen  *)
(* does not end a request it has begun: its continuation still runs and    *)
(* still writes that screen's copy of the store to disk.                   *)
(***************************************************************************)
EXTENDS CommunityServer

CONSTANTS
    Screens,       \* dashboards that may exist at once
    Events,        \* recorded clicks on recognised shortcuts
    ShortcutOf,    \* event -> its publicShortcutId
    None,          \* Dart null
    MaxRequests    \* bound of the model: requests the device sends

ASSUME EventsAssumption == IsFiniteSet(Events) /\ ShortcutOf \in [Events -> Shortcuts]
ASSUME NoneAssumption == None \notin Batches
ASSUME TokensAssumption == Tokens # {}
ASSUME CountsSuffice == MaxTotal > 0 /\ 1..MaxTotal \subseteq Counts
ASSUME MaxRequestsAssumption == MaxRequests \in Nat

VARIABLES
    clicks,     \* repository.events
    eventsOf,   \* batch -> the events a reviewed batch was made of
    disk,       \* the store file of the service's origin
    screen,     \* screen -> its state
    net,        \* requests on their way to the server
    sent,       \* number of requests sent so far
    made,       \* history: all clicks ever recorded
    settled     \* history: batches reported as submitted, cancelled or withdrawn

device == <<clicks, eventsOf, disk, screen, net, sent, made, settled>>
allVars == <<vars, device>>

(* The store of a device: sharing is on, the pending batch or None, the     *)
(* batches with a receipt, the clicks of withdrawn batches.                *)
EmptyStore == [enabled |-> FALSE, pending |-> None, receipts |-> {}, withdrawn |-> {}]

(* A screen: pc is what it is doing between two of its awaits ("idle",     *)
(* "review", "saving", "saved", "connecting", "submitting", "withdrawing", *)
(* "deleting" or "clearing"), writing what a mutation being written to     *)
(* disk is for ("none", "toggle", "save", "finish", "remove" or "clear").  *)
Closed == [open |-> FALSE, pc |-> "idle", store |-> EmptyStore, draft |-> {},
           writing |-> "none", before |-> EmptyStore,
           todo |-> {}, target |-> None, request |-> 0, answer |-> "none"]

(* The token of a batch is as random as its id and is never sent for       *)
(* another one, so every batch has the one token of this instance.         *)
TheToken == CHOOSE t \in Tokens : TRUE

ItemsOf(events) ==
    [s \in {ShortcutOf[e] : e \in events} |->
        Cardinality({e \in events : ShortcutOf[e] = s})]

PayloadOf(b) ==
    [tag |-> Null, experience |-> Null, items |-> ItemsOf(eventsOf[b])]

(* submittedEventIds: events of receipts, of withdrawn batches and of the  *)
(* pending batch are never offered again.                                  *)
Submitted(store) ==
    (UNION {eventsOf[b] : b \in store.receipts})
        \cup store.withdrawn
        \cup (IF store.pending = None THEN {} ELSE eventsOf[store.pending])

Fresh(b) == eventsOf[b] = {}

-----------------------------------------------------------------------------
(* The operations of ShortcutCommunityStore: each changes the screen's     *)
(* copy, then writes it to disk; a failed write restores the copy.  One    *)
(* write at a time: a later mutation waits for it.                         *)
AfterSavePending(store, b) == [store EXCEPT !.pending = b]

(* acknowledgePending and cancelPendingSubmission both turn the pending    *)
(* batch into a receipt; the receipt of a cancelled one may be of a batch  *)
(* that the server never accepted.                                         *)
AfterReceipt(store) ==
    IF store.pending = None THEN store
    ELSE [store EXCEPT !.receipts = @ \cup {store.pending}, !.pending = None]

(* Mutant of AfterRemoveReceipt: the events become eligible again.          *)
AfterRemoveReceiptForgets(store, b) == [store EXCEPT !.receipts = @ \ {b}]

AfterRemoveReceipt(store, b) ==
    [store EXCEPT !.receipts = @ \ {b}, !.withdrawn = @ \cup eventsOf[b]]

Mutate(s, store, purpose, pc) ==
    /\ screen[s].writing = "none"
    /\ screen' = [screen EXCEPT ![s].store = store, ![s].before = screen[s].store,
                                ![s].writing = purpose, ![s].pc = pc]

(* Its handler has returned, and the handler's locals are gone.            *)
AtRest(scr) == [scr EXCEPT !.pc = "idle", !.draft = {}, !.todo = {}, !.target = None,
                           !.request = 0, !.answer = "none"]

(* Where the operation that waits for the write goes on.                   *)
Resumed(scr, ok) ==
    LET done == [scr EXCEPT !.writing = "none", !.before = EmptyStore]
    IN  CASE scr.writing = "toggle" -> done
          [] scr.writing = "save"   -> IF ok THEN [done EXCEPT !.pc = "saved"] ELSE AtRest(done)
          [] scr.writing = "finish" -> AtRest(done)
          [] scr.writing = "clear"  -> IF ok THEN [done EXCEPT !.pc = "clearing"] ELSE AtRest(done)
          [] scr.writing = "remove" ->
                [done EXCEPT !.pc = "withdrawing", !.todo = @ \ {scr.target}]

Send(s, op, b, pc) ==
    /\ sent < MaxRequests
    /\ sent' = sent + 1
    /\ net' = net \cup {[id |-> sent + 1, op |-> op, batch |-> b]}
    /\ screen' = [screen EXCEPT ![s].pc = pc, ![s].request = sent + 1,
                                ![s].answer = "none", ![s].target = b]

-----------------------------------------------------------------------------
Click(e) ==
    /\ e \notin made
    /\ clicks' = clicks \cup {e} /\ made' = made \cup {e}
    /\ UNCHANGED <<vars, eventsOf, disk, screen, net, sent, settled>>

(* A dashboard can be opened again after it was left: one is shown at a    *)
(* time, but an earlier one may still have a request under way.            *)
Open(s) ==
    /\ \A r \in Screens : ~screen[r].open
    /\ screen[s].pc = "idle" /\ screen[s].writing = "none"
    /\ screen' = [screen EXCEPT ![s] = [Closed EXCEPT !.open = TRUE, !.store = disk]]
    /\ UNCHANGED <<vars, clicks, eventsOf, disk, net, sent, made, settled>>

(* Leaving the dashboard dismisses its dialog; an await goes on.           *)
Close(s) ==
    /\ screen[s].open
    /\ screen' = [screen EXCEPT ![s].open = FALSE,
                     ![s].pc = IF @ = "review" THEN "idle" ELSE @]
    /\ UNCHANGED <<vars, clicks, eventsOf, disk, net, sent, made, settled>>

(* The process ends: every screen and continuation is gone, requests that  *)
(* left the device are not.                                                *)
Crash ==
    /\ screen' = [s \in Screens |-> Closed]
    /\ UNCHANGED <<vars, clicks, eventsOf, disk, net, sent, made, settled>>

(* The switch is not disabled while a request runs.                        *)
SetSharingEnabled(s) ==
    /\ screen[s].open /\ screen[s].pc # "review"
    /\ Mutate(s, [screen[s].store EXCEPT !.enabled = ~@], "toggle", screen[s].pc)
    /\ UNCHANGED <<vars, clicks, eventsOf, disk, net, sent, made, settled>>

PersistDone(s) ==
    /\ screen[s].writing # "none"
    /\ disk' = screen[s].store
    /\ screen' = [screen EXCEPT ![s] = Resumed(@, TRUE)]
    /\ settled' = settled \cup screen[s].before.receipts \cup screen[s].store.receipts
    /\ UNCHANGED <<vars, clicks, eventsOf, net, sent, made>>

(* Mutant of PersistFailed: memory keeps what the file does not have.      *)
PersistFailedKeeps(s) ==
    /\ screen[s].writing # "none"
    /\ disk' \in {disk, screen[s].store}
    /\ screen' = [screen EXCEPT ![s] = Resumed(@, FALSE)]
    /\ UNCHANGED <<vars, clicks, eventsOf, net, sent, made, settled>>

(* A failed write restores memory.  The file may have been replaced all    *)
(* the same, when only the deletion of the backup failed.                  *)
PersistFailed(s) ==
    /\ screen[s].writing # "none"
    /\ disk' \in {disk, screen[s].store}
    /\ screen' = [screen EXCEPT ![s] =
          [Resumed(@, FALSE) EXCEPT !.store = screen[s].before]]
    /\ UNCHANGED <<vars, clicks, eventsOf, net, sent, made, settled>>

Eligible(s) == clicks \ Submitted(screen[s].store)

(* The preview takes the eligible events, at most MAX_TOTAL of them.       *)
Review(s) ==
    /\ screen[s].open /\ screen[s].pc = "idle"
    /\ screen[s].store.enabled /\ screen[s].store.pending = None
    /\ Eligible(s) # {}
    /\ \E draft \in SUBSET Eligible(s) :
          /\ \/ draft = Eligible(s) /\ Cardinality(draft) <= MaxTotal
             \/ Cardinality(draft) = MaxTotal
          /\ screen' = [screen EXCEPT ![s].pc = "review", ![s].draft = draft]
    /\ UNCHANGED <<vars, clicks, eventsOf, disk, net, sent, made, settled>>

Dismiss(s) ==
    /\ screen[s].pc = "review"
    /\ screen' = [screen EXCEPT ![s] = AtRest(@)]
    /\ UNCHANGED <<vars, clicks, eventsOf, disk, net, sent, made, settled>>

(* The confirmed batch is saved before anything is sent.                   *)
Confirm(s) ==
    /\ screen[s].pc = "review"
    /\ \E b \in Batches :
          /\ Fresh(b)
          /\ eventsOf' = [eventsOf EXCEPT ![b] = screen[s].draft]
          /\ Mutate(s, AfterSavePending(screen[s].store, b), "save", "saving")
    /\ UNCHANGED <<vars, clicks, disk, net, sent, made, settled>>

(* _submitPending, after a save or from the Retry button: it takes the     *)
(* pending batch, checks the switch and opens a connection.                *)
Submit(s) ==
    /\ screen[s].open /\ screen[s].pc \in {"idle", "saved"}
    /\ screen[s].store.pending # None
    /\ screen[s].store.enabled
    /\ screen' = [screen EXCEPT ![s].pc = "connecting",
                                ![s].target = screen[s].store.pending]
    /\ UNCHANGED <<vars, clicks, eventsOf, disk, net, sent, made, settled>>

(* The batch taken is sent once the connection is open, whether or not the *)
(* switch was turned off or the dashboard left in the meantime.            *)
Connected(s) ==
    /\ screen[s].pc = "connecting"
    /\ Send(s, "post", screen[s].target, "submitting")
    /\ UNCHANGED <<vars, clicks, eventsOf, disk, made, settled>>

(* A save that ends after the screen was left or sharing turned off sends  *)
(* nothing: the batch waits for an explicit retry.                         *)
SubmitSkipped(s) ==
    /\ screen[s].pc = "saved"
    /\ ~screen[s].open \/ ~screen[s].store.enabled
    /\ screen' = [screen EXCEPT ![s] = AtRest(@)]
    /\ UNCHANGED <<vars, clicks, eventsOf, disk, net, sent, made, settled>>

Acknowledge(s) ==
    /\ screen[s].pc = "submitting"
    /\ screen[s].answer \in {"created", "duplicate"}
    /\ Mutate(s, AfterReceipt(screen[s].store), "finish", "saving")
    /\ UNCHANGED <<vars, clicks, eventsOf, disk, net, sent, made, settled>>

(* No connection, or an answer that does not confirm the batch.            *)
SubmitFailed(s) ==
    /\ \/ screen[s].pc = "connecting"
       \/ /\ screen[s].pc = "submitting"
          /\ screen[s].answer \notin {"none", "created", "duplicate"}
    /\ screen' = [screen EXCEPT ![s] = AtRest(@)]
    /\ UNCHANGED <<vars, clicks, eventsOf, disk, net, sent, made, settled>>

(* Mutant of CancelPending: a cancelled batch leaves no receipt.           *)
CancelPendingForgets(s) ==
    /\ screen[s].open /\ screen[s].pc = "idle"
    /\ screen[s].store.pending # None
    /\ Mutate(s, [screen[s].store EXCEPT !.pending = None], "finish", "saving")
    /\ UNCHANGED <<vars, clicks, eventsOf, disk, net, sent, made, settled>>

CancelPending(s) ==
    /\ screen[s].open /\ screen[s].pc = "idle"
    /\ screen[s].store.pending # None
    /\ Mutate(s, AfterReceipt(screen[s].store), "finish", "saving")
    /\ UNCHANGED <<vars, clicks, eventsOf, disk, net, sent, made, settled>>

(* _confirmClear: the pending batch is cancelled first, then the private   *)
(* clicks are erased, which may fail.                                      *)
Clear(s) ==
    /\ screen[s].open /\ screen[s].pc = "idle"
    /\ clicks # {}
    /\ IF screen[s].store.pending = None
       THEN screen' = [screen EXCEPT ![s].pc = "clearing"]
       ELSE Mutate(s, AfterReceipt(screen[s].store), "clear", "saving")
    /\ UNCHANGED <<vars, clicks, eventsOf, disk, net, sent, made, settled>>

Erase(s) ==
    /\ screen[s].pc = "clearing"
    /\ clicks' \in {clicks, {}}
    /\ screen' = [screen EXCEPT ![s] = AtRest(@)]
    /\ UNCHANGED <<vars, eventsOf, disk, net, sent, made, settled>>

(* _withdraw: one DELETE after the other for a copy of the receipts; the   *)
(* loop does not stop when the screen is left.                             *)
Withdraw(s) ==
    /\ screen[s].open /\ screen[s].pc = "idle"
    /\ screen[s].store.receipts # {}
    /\ screen' = [screen EXCEPT ![s].pc = "withdrawing",
                                ![s].todo = screen[s].store.receipts]
    /\ UNCHANGED <<vars, clicks, eventsOf, disk, net, sent, made, settled>>

DeleteNext(s) ==
    /\ screen[s].pc = "withdrawing"
    /\ \E b \in screen[s].todo : Send(s, "delete", b, "deleting")
    /\ UNCHANGED <<vars, clicks, eventsOf, disk, made, settled>>

RemoveReceipt(s) ==
    /\ screen[s].pc = "deleting"
    /\ screen[s].answer \in {"withdrawn", "already_withdrawn"}
    /\ Mutate(s, AfterRemoveReceipt(screen[s].store, screen[s].target), "remove", "saving")
    /\ UNCHANGED <<vars, clicks, eventsOf, disk, net, sent, made, settled>>

(* Mutant of DeleteFailed: a batch the server does not know is done with.  *)
DeleteFailedForgets(s) ==
    /\ screen[s].pc = "deleting"
    /\ screen[s].answer \notin {"none", "withdrawn", "already_withdrawn"}
    /\ Mutate(s, AfterRemoveReceipt(screen[s].store, screen[s].target), "remove", "saving")
    /\ UNCHANGED <<vars, clicks, eventsOf, disk, net, sent, made, settled>>

DeleteFailed(s) ==
    /\ screen[s].pc = "deleting"
    /\ screen[s].answer \notin {"none", "withdrawn", "already_withdrawn"}
    /\ screen' = [screen EXCEPT ![s].pc = "withdrawing", ![s].todo = @ \ {screen[s].target}]
    /\ UNCHANGED <<vars, clicks, eventsOf, disk, net, sent, made, settled>>

WithdrawDone(s) ==
    /\ screen[s].pc = "withdrawing" /\ screen[s].todo = {}
    /\ screen' = [screen EXCEPT ![s] = AtRest(@)]
    /\ UNCHANGED <<vars, clicks, eventsOf, disk, net, sent, made, settled>>

(* No answer in time, or a lost connection.  The request may still arrive. *)
Timeout(s) ==
    /\ screen[s].pc \in {"submitting", "deleting"}
    /\ screen' = [screen EXCEPT ![s].answer = "timeout"]
    /\ UNCHANGED <<vars, clicks, eventsOf, disk, net, sent, made, settled>>

-----------------------------------------------------------------------------
LoseRequest(m) ==
    /\ net' = net \ {m}
    /\ UNCHANGED <<vars, clicks, eventsOf, disk, screen, sent, made, settled>>

(* The server answers; an answer nobody waits for any more is dropped.     *)
Serve(m) ==
    /\ \/ m.op = "post" /\ Post(m.batch, TheToken, PayloadOf(m.batch))
       \/ m.op = "delete" /\ Delete(m.batch, TheToken)
       \/ ServerError(m.batch, TheToken)
    /\ net' = net \ {m}
    /\ screen' = [s \in Screens |->
          IF screen[s].pc \in {"submitting", "deleting"}
                /\ screen[s].request = m.id /\ screen[s].answer = "none"
          THEN [screen[s] EXCEPT !.answer = reply'.status] ELSE screen[s]]
    /\ UNCHANGED <<clicks, eventsOf, disk, sent, made, settled>>

SharingInit ==
    /\ Init
    /\ clicks = {}
    /\ eventsOf = [b \in Batches |-> {}]
    /\ disk = EmptyStore
    /\ screen = [s \in Screens |-> Closed]
    /\ net = {}
    /\ sent = 0
    /\ made = {}
    /\ settled = {}

ScreenStep(s) ==
    \/ Open(s) \/ Close(s)
    \/ SetSharingEnabled(s) \/ PersistDone(s) \/ PersistFailed(s)
    \/ Review(s) \/ Dismiss(s) \/ Confirm(s)
    \/ Submit(s) \/ Connected(s) \/ SubmitSkipped(s) \/ Acknowledge(s) \/ SubmitFailed(s)
    \/ CancelPending(s) \/ Clear(s) \/ Erase(s)
    \/ Withdraw(s) \/ DeleteNext(s) \/ RemoveReceipt(s) \/ DeleteFailed(s)
    \/ WithdrawDone(s) \/ Timeout(s)

SharingNext ==
    \/ \E e \in Events : Click(e)
    \/ \E s \in Screens : ScreenStep(s)
    \/ Crash
    \/ \E m \in net : LoseRequest(m)
    \/ \E m \in net : Serve(m)

SharingSpec == SharingInit /\ [][SharingNext]_allVars

-----------------------------------------------------------------------------
(***************************************************************************)
(* No click is submitted twice: the events of any two batches the server   *)
(* has ever stored are different, through retries, cancelled submissions,  *)
(* withdrawals, lost answers, failed writes and crashes.                   *)
(***************************************************************************)
EachClickSubmittedOnce ==
    \A b, c \in Batches :
        b # c /\ Exists(b) /\ Exists(c) => eventsOf[b] \cap eventsOf[c] = {}

(***************************************************************************)
(* The public all-time total of a category never exceeds the clicks that   *)
(* were made on it.                                                        *)
(***************************************************************************)
TotalsNeverExceedClicks ==
    \A s \in Shortcuts :
        count[[tag |-> Null, experience |-> Null, day |-> Null]][s] <=
            Cardinality({e \in made : ShortcutOf[e] = s})

(***************************************************************************)
(* Every batch in the public totals can be withdrawn: the device has its   *)
(* receipt, or the pending batch that becomes one, on disk, and keeps it   *)
(* across crashes until the server has confirmed the withdrawal.           *)
(***************************************************************************)
LiveBatchHasReceipt ==
    \A b \in Batches : Live(b) => b \in disk.receipts \/ disk.pending = b

(***************************************************************************)
(* docs/SHORTCUT_USAGE.md: "Saved receipts allow Withdraw online           *)
(* contributions; keep them until withdrawal succeeds."  No receipt is     *)
(* lost for good: a batch in the public totals is known on disk or to a    *)
(* dashboard that is still open or at work.                                *)
(***************************************************************************)
ReceiptIsKept ==
    \A b \in Batches : Live(b) =>
        \/ b \in disk.receipts \/ disk.pending = b
        \/ \E s \in Screens :
              /\ screen[s].open \/ screen[s].pc # "idle" \/ screen[s].writing # "none"
              /\ b \in screen[s].store.receipts \/ screen[s].store.pending = b

(***************************************************************************)
(* What the user was told is done stays done ("The batch will never be     *)
(* retried"): a batch that was acknowledged or cancelled is not sent       *)
(* again, whatever writes failed and however often the app was restarted,  *)
(* and whatever is sent is named by the store file, so that a crash cannot *)
(* leave a contribution that no receipt can withdraw.                      *)
(***************************************************************************)
SettledIsNotSent ==
    [][\A m \in net' \ net : m.op = "post" =>
          /\ m.batch \notin settled
          /\ disk.pending = m.batch \/ m.batch \in disk.receipts]_allVars
=============================================================================
