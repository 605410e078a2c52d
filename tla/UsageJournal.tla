---------------------------- MODULE UsageJournal ----------------------------
(***************************************************************************)
(* FileShortcutUsageRepository: the append-only journal of shortcut        *)
(* clicks, its recovery after an interruption, and Clear, which leaves a   *)
(* marker with an offset into the journal so that it can be finished after *)
(* a crash.  Operations are serialised by the repository's queue; the      *)
(* process may end between any two file operations.                        *)
(*                                                                         *)
(* Replacing a file (_atomicWrite) is one step here that happens or does   *)
(* not: AtomicFile shows that it may be used so.  A journal is a sequence  *)
(* of complete lines, one per event, and of fragments of lines, Torn: a    *)
(* fragment spoils the line that follows it and, at the end of the file,   *)
(* is the incomplete tail.  Offsets count these pieces.                    *)
(***************************************************************************)
EXTENDS Naturals, Sequences

CONSTANTS
    Events,         \* clicks, each recorded at most once
    Torn,           \* a fragment of a line
    None            \* there is no clear marker

ASSUME EventsAssumption == Torn \notin Events
ASSUME NoneAssumption == None \notin Nat

VARIABLES
    journal,      \* events.jsonl
    marker,       \* clear.marker
    legacyFile,   \* legacy.json: "absent", "counts" or "empty"
    prefs,        \* the preferences still hold the old counters
    loaded,       \* _loaded
    events,       \* _events, as a set
    legacy,       \* hasLegacyCounts
    pc,           \* next step of the operation under way
    op,           \* "none", "load", "record" or "clear"
    click,        \* the event being recorded
    used,         \* history: events whose recording was attempted
    recorded,     \* history: events whose recording succeeded
    doomed,       \* history: events recorded before the latest clear began
    cleared,      \* history: events recorded before a clear that succeeded
    clears,       \* history: "none", "tried" or "done"
    faults        \* history: the failures the properties except, see Faults

disk == <<journal, marker, legacyFile, prefs>>
memory == <<loaded, events, legacy>>
task == <<pc, op, click>>
history == <<used, recorded, doomed, cleared, clears, faults>>
vars == <<disk, memory, task, history>>

Pcs == {"idle", "legacy", "migrate", "prefs", "read", "check",
        "retain", "reset", "unmark", "append", "mark",
        "clearRetain", "clearReset", "clearUnmark"}

(* "fragment": a failed append left part of its line; "unfinished": a      *)
(* clear failed and so did its recovery; "emptied": cutting off a tail, in *)
(* place, was itself cut off.                                              *)
Faults == {"fragment", "unfinished", "emptied"}

TypeOK ==
    /\ journal \in Seq(Events \cup {Torn})
    /\ marker \in Nat \cup {None}
    /\ legacyFile \in {"absent", "counts", "empty"}
    /\ prefs \in BOOLEAN /\ loaded \in BOOLEAN /\ legacy \in BOOLEAN
    /\ pc \in Pcs /\ op \in {"none", "load", "record", "clear"}
    /\ (pc = "idle") = (op = "none")
    /\ events \subseteq Events /\ recorded \subseteq used /\ used \subseteq Events
    /\ clears \in {"none", "tried", "done"} /\ faults \subseteq Faults

Init ==
    /\ journal = <<>> /\ marker = None
    /\ legacyFile = "absent" /\ prefs = TRUE
    /\ loaded = FALSE /\ events = {} /\ legacy = FALSE
    /\ pc = "idle" /\ op = "none" /\ click = None
    /\ used = {} /\ recorded = {} /\ doomed = {} /\ cleared = {} /\ clears = "none"
    /\ faults = {}

-----------------------------------------------------------------------------
(* Bytes up to the last newline.                                           *)
CompleteLines(file) ==
    LET ends == {i \in 1..Len(file) : file[i] # Torn}
    IN  SubSeq(file, 1, IF ends = {} THEN 0 ELSE CHOOSE i \in ends : \A j \in ends : j <= i)

(* Bytes from offset on, without an incomplete tail.                       *)
TailFrom(file, offset) ==
    IF offset >= Len(file) THEN <<>>
    ELSE CompleteLines(SubSeq(file, offset + 1, Len(file)))

(* The events of the well-formed lines from offset on.                     *)
EventsIn(file, offset) ==
    {file[i] : i \in {j \in offset + 1..Len(file) :
        /\ file[j] # Torn
        /\ j = offset + 1 \/ file[j - 1] # Torn}}

Start == IF marker = None THEN 0 ELSE marker

(* What a load of these files would find.                                  *)
Readable ==
    IF marker = None THEN EventsIn(CompleteLines(journal), 0)
                     ELSE EventsIn(TailFrom(journal, marker), 0)

Finished == pc' = "idle" /\ op' = "none" /\ click' = None

Goto(step) == pc' = step /\ UNCHANGED <<op, click>>

-----------------------------------------------------------------------------
(* load is called when the app starts; record and clear load first when    *)
(* that has not succeeded.                                                 *)
Begin(operation, e, first) ==
    /\ pc = "idle"
    /\ op' = operation /\ click' = e
    /\ pc' = IF loaded THEN first ELSE "legacy"

Load ==
    /\ ~loaded
    /\ Begin("load", None, "idle")
    /\ UNCHANGED <<disk, memory, history>>

Record(e) ==
    /\ e \notin used
    /\ Begin("record", e, "append")
    /\ used' = used \cup {e}
    /\ UNCHANGED <<disk, memory, recorded, doomed, cleared, clears, faults>>

Clear ==
    /\ Begin("clear", None, "mark")
    /\ UNCHANGED <<disk, memory, history>>

(* _readLegacy                                                             *)
ReadLegacy ==
    /\ pc = "legacy"
    /\ legacy' = IF legacyFile = "absent" THEN prefs ELSE legacyFile = "counts"
    /\ Goto(IF legacyFile = "absent" /\ prefs THEN "migrate" ELSE "prefs")
    /\ UNCHANGED <<disk, loaded, events, history>>

MigrateLegacy ==
    /\ pc = "migrate"
    /\ legacyFile' = "counts"
    /\ Goto("prefs")
    /\ UNCHANGED <<journal, marker, prefs, memory, history>>

RemovePreferences ==
    /\ pc = "prefs"
    /\ prefs' = FALSE
    /\ Goto("read")
    /\ UNCHANGED <<journal, marker, legacyFile, memory, history>>

(* Mutant of ReadJournal: an incomplete tail stays in the file.            *)
ReadJournalKeepsTail ==
    /\ pc = "read"
    /\ events' = IF Start > Len(journal) THEN {} ELSE EventsIn(CompleteLines(journal), Start)
    /\ Goto("check")
    /\ UNCHANGED <<disk, loaded, legacy, history>>

(* _readJournal; an incomplete tail is cut off by writing the file anew,   *)
(* in place.                                                               *)
ReadJournal ==
    /\ pc = "read"
    /\ LET beyond == Start > Len(journal)
           whole  == CompleteLines(journal)
       IN  /\ events' = IF beyond THEN {} ELSE EventsIn(whole, Start)
           /\ journal' = IF beyond THEN journal ELSE whole
    /\ Goto("check")
    /\ UNCHANGED <<marker, legacyFile, prefs, loaded, legacy, history>>

(* The operation that had to load goes on.                                 *)
AfterLoad ==
    /\ loaded' = TRUE
    /\ IF op = "load" THEN Finished
       ELSE Goto(IF op = "record" THEN "append" ELSE "mark")

(* _recoverInterruptedClear, at the end of a load and after a failed clear *)
CheckMarker ==
    /\ pc = "check"
    /\ IF marker # None THEN Goto("retain") /\ UNCHANGED loaded
       ELSE IF loaded THEN Finished /\ UNCHANGED loaded
       ELSE AfterLoad
    /\ UNCHANGED <<disk, events, legacy, history>>

Retain ==
    /\ pc = "retain"
    /\ journal' = TailFrom(journal, marker)
    /\ Goto("reset")
    /\ UNCHANGED <<marker, legacyFile, prefs, memory, history>>

Reset ==
    /\ pc = "reset"
    /\ legacyFile' = "empty"
    /\ Goto("unmark")
    /\ UNCHANGED <<journal, marker, prefs, memory, history>>

Unmark ==
    /\ pc = "unmark"
    /\ marker' = None
    /\ legacy' = FALSE
    /\ events' = EventsIn(journal, 0)
    /\ IF loaded THEN Finished /\ UNCHANGED loaded ELSE AfterLoad
    /\ UNCHANGED <<journal, legacyFile, prefs, history>>

(* record: the line is on disk before the event counts.                    *)
AppendLine ==
    /\ pc = "append"
    /\ journal' = Append(journal, click)
    /\ events' = events \cup {click}
    /\ recorded' = recorded \cup {click}
    /\ Finished
    /\ UNCHANGED <<marker, legacyFile, prefs, loaded, legacy, used, doomed,
                   cleared, clears, faults>>

(* clear                                                                   *)
BeginClear ==
    /\ doomed' = recorded
    /\ clears' = IF clears = "none" THEN "tried" ELSE clears
    /\ UNCHANGED <<used, recorded, cleared, faults>>

(* Mutant of Mark: the offset of the marker is the beginning.               *)
MarkStart ==
    /\ pc = "mark"
    /\ marker' = 0
    /\ BeginClear
    /\ Goto("clearRetain")
    /\ UNCHANGED <<journal, legacyFile, prefs, memory>>

(* An unfinished clear keeps its offset.                                   *)
Mark ==
    /\ pc = "mark"
    /\ marker' = IF marker = None THEN Len(journal) ELSE marker
    /\ BeginClear
    /\ Goto("clearRetain")
    /\ UNCHANGED <<journal, legacyFile, prefs, memory>>

ClearRetain ==
    /\ pc = "clearRetain"
    /\ journal' = TailFrom(journal, marker)
    /\ Goto("clearReset")
    /\ UNCHANGED <<marker, legacyFile, prefs, memory, history>>

ClearReset ==
    /\ pc = "clearReset"
    /\ legacyFile' = "empty"
    /\ Goto("clearUnmark")
    /\ UNCHANGED <<journal, marker, prefs, memory, history>>

ClearUnmark ==
    /\ pc = "clearUnmark"
    /\ marker' = None
    /\ events' = {} /\ legacy' = FALSE
    /\ cleared' = cleared \cup doomed
    /\ clears' = "done"
    /\ Finished
    /\ UNCHANGED <<journal, legacyFile, prefs, loaded, used, recorded, doomed, faults>>

-----------------------------------------------------------------------------
(* What the file operation of the current step may leave behind when a     *)
(* crash or an error cuts it off.  Only the journal is written in place.   *)
LeavesUntouched == UNCHANGED disk

LeavesReplaced ==
    \/ /\ pc \in {"retain", "clearRetain"}
       /\ journal' = TailFrom(journal, marker)
       /\ UNCHANGED <<marker, legacyFile, prefs>>
    \/ /\ pc \in {"migrate", "reset", "clearReset"}
       /\ legacyFile' = IF pc = "migrate" THEN "counts" ELSE "empty"
       /\ UNCHANGED <<journal, marker, prefs>>
    \/ /\ pc = "mark"
       /\ marker' = IF marker = None THEN Len(journal) ELSE marker
       /\ UNCHANGED <<journal, legacyFile, prefs>>

LeavesPiece(piece) ==
    /\ pc = "append"
    /\ journal' = Append(journal, piece)
    /\ UNCHANGED <<marker, legacyFile, prefs>>

(* writeAsBytes empties the file before it fills it.                       *)
LeavesEmptied ==
    /\ pc = "read" /\ Start <= Len(journal) /\ journal # CompleteLines(journal)
    /\ journal' = <<>>
    /\ UNCHANGED <<marker, legacyFile, prefs>>

(* The interruption is the fault, or none that a property excepts.         *)
Note(fault) == faults' = faults \cup fault

CrashLeaves ==
    \/ (LeavesUntouched \/ LeavesReplaced \/ LeavesPiece(click) \/ LeavesPiece(Torn)) /\ Note({})
    \/ LeavesEmptied /\ Note({"emptied"})

Crash ==
    /\ CrashLeaves
    /\ loaded' = FALSE /\ events' = {} /\ legacy' = FALSE
    /\ Finished
    /\ IF pc = "mark" THEN BeginClear
       ELSE UNCHANGED <<used, recorded, doomed, cleared, clears>>

(* An error of a load, a record or the recovery of a clear ends the        *)
(* operation; record reports it only through lastError.                    *)
Fail ==
    /\ pc \notin {"idle", "mark", "clearRetain", "clearReset", "clearUnmark"}
    /\ \/ /\ LeavesUntouched \/ LeavesReplaced
          /\ Note(IF loaded /\ op = "clear" THEN {"unfinished"} ELSE {})
       \/ LeavesPiece(click) /\ Note({})
       \/ LeavesPiece(Torn) /\ Note({"fragment"})
       \/ LeavesEmptied /\ Note({"emptied"})
    /\ Finished
    /\ UNCHANGED <<memory, used, recorded, doomed, cleared, clears>>

(* An error of a clear starts its recovery.                                *)
ClearFails ==
    /\ pc \in {"mark", "clearRetain", "clearReset", "clearUnmark"}
    /\ LeavesUntouched \/ LeavesReplaced
    /\ Goto("check")
    /\ IF pc = "mark" THEN BeginClear ELSE UNCHANGED history
    /\ UNCHANGED memory

Next ==
    \/ Load \/ Clear
    \/ \E e \in Events : Record(e)
    \/ ReadLegacy \/ MigrateLegacy \/ RemovePreferences
    \/ ReadJournal \/ CheckMarker \/ Retain \/ Reset \/ Unmark
    \/ AppendLine
    \/ Mark \/ ClearRetain \/ ClearReset \/ ClearUnmark
    \/ Crash \/ Fail \/ ClearFails

Spec == Init /\ [][Next]_vars

-----------------------------------------------------------------------------
(***************************************************************************)
(* Recovery finds every click that was recorded and not cleared, after any *)
(* number of crashes and failed operations ("recover complete lines after  *)
(* interruption", docs/superpowers/specs/2026-10-21-shortcut-usage-        *)
(* design.md), unless one of the three faults has happened: each of them   *)
(* can lose a click.  The counters of the old version are migrated once:   *)
(* they stay until the user clears, and do not return afterwards.          *)
(***************************************************************************)
RecordedSurvives ==
    /\ faults = {} => recorded \ doomed \subseteq Readable
    /\ loaded /\ pc = "idle" =>
          /\ clears = "none" => legacy
          /\ clears = "done" => ~legacy

(***************************************************************************)
(* A click recorded before a successful clear never comes back ("old       *)
(* writes cannot resurrect cleared data", the same document), as long as   *)
(* no clear stays unfinished while the app runs on: the retried clear      *)
(* reuses the offset of the unfinished one.                                *)
(***************************************************************************)
ClearedStaysCleared == "unfinished" \notin faults => Readable \cap cleared = {}
=============================================================================
