----------------------------- MODULE AtomicFile -----------------------------
(***************************************************************************)
(* How the app replaces a private file: the contents are written to a new  *)
(* file, the old file is moved aside, the new one takes its name, and the  *)
(* old one is deleted.  Any file operation may fail and the process may    *)
(* end between any two.  Three places of the code do this:                 *)
(*   CommunitySetupRepository.save, FileShortcutUsageRepository._atomic-   *)
(*   Write, whose loads tidy up, and                                       *)
(*   ShortcutCommunityStore._persist, whose load only moves an orphaned    *)
(*   old file back, and carries on with nothing when that fails.           *)
(***************************************************************************)
CONSTANTS
    Values,         \* contents a caller may save
    Absent,         \* there is no file
    Torn            \* contents of a file whose writing was cut short

ASSUME ContentsAssumption == Absent \notin Values /\ Torn \notin Values \cup {Absent}

VARIABLES
    file,       \* the file itself
    next,       \* <file>.next or <file>.tmp
    previous,   \* <file>.previous or <file>.bak
    pc,         \* the step of the write or load under way
    writing,    \* value being written, Absent if none
    loaded,     \* what the last load returned
    acked,      \* history: the last acknowledged value
    doubtful,   \* history: values begun since then
    tidies,     \* fixed: the load deletes what an interrupted write left
    strands     \* fixed: moving the old file back may fail

fixed == <<tidies, strands>>
vars == <<file, next, previous, pc, writing, loaded, acked, doubtful, fixed>>

Pcs == {"down", "ready", "create", "discard", "aside", "replace", "finish",
        "restore", "orphan", "tidy", "read"}

(* Where a write is under way.                                             *)
InWrite == {"create", "discard", "aside", "replace", "finish", "restore"}

Contents == Values \cup {Absent, Torn}

TypeOK ==
    /\ {file, next, previous, loaded} \subseteq Contents
    /\ pc \in Pcs
    /\ IF pc \in InWrite THEN writing \in Values ELSE writing = Absent
    /\ acked \in Values \cup {Absent}
    /\ doubtful \subseteq Values
    /\ {tidies, strands} \subseteq BOOLEAN

Init ==
    /\ file = Absent /\ next = Absent /\ previous = Absent
    /\ pc = "down"
    /\ writing = Absent
    /\ loaded = Absent
    /\ acked = Absent /\ doubtful = {}
    /\ tidies \in BOOLEAN /\ strands \in BOOLEAN

-----------------------------------------------------------------------------
(* The caller of a write learns of its end.                                *)
Return == pc' = "ready" /\ writing' = Absent

ReturnOk ==
    /\ Return
    /\ acked' = writing /\ doubtful' = {}

ReturnError == Return /\ UNCHANGED <<acked, doubtful>>

Save(v) ==
    /\ pc = "ready"
    /\ pc' = "create"
    /\ writing' = v
    /\ doubtful' = doubtful \cup {v}
    /\ UNCHANGED <<file, next, previous, loaded, acked>>

CreateNext ==
    /\ pc = "create"
    /\ next' = writing
    /\ pc' = "discard"
    /\ UNCHANGED <<file, previous, writing, loaded, acked, doubtful>>

CreateNextFails ==
    /\ pc = "create"
    /\ next' \in {next, Torn, writing}
    /\ ReturnError
    /\ UNCHANGED <<file, previous, loaded>>

DiscardPrevious ==
    /\ pc = "discard"
    /\ previous' = Absent
    /\ pc' = "aside"
    /\ UNCHANGED <<file, next, writing, loaded, acked, doubtful>>

(* Mutant of MoveAside: the old file is deleted instead.                   *)
MoveAsideDeletes ==
    /\ pc = "aside"
    /\ file' = Absent
    /\ pc' = "replace"
    /\ UNCHANGED <<next, previous, writing, loaded, acked, doubtful>>

MoveAside ==
    /\ pc = "aside"
    /\ IF file # Absent
       THEN previous' = file /\ file' = Absent
       ELSE UNCHANGED <<previous, file>>
    /\ pc' = "replace"
    /\ UNCHANGED <<next, writing, loaded, acked, doubtful>>

(* Neither of these two is inside the try of the source.                   *)
PreparationFails ==
    /\ pc \in {"discard", "aside"}
    /\ ReturnError
    /\ UNCHANGED <<file, next, previous, loaded>>

Replace ==
    /\ pc = "replace"
    /\ file' = next /\ next' = Absent
    /\ pc' = "finish"
    /\ UNCHANGED <<previous, writing, loaded, acked, doubtful>>

ReplaceFails ==
    /\ pc = "replace"
    /\ pc' = "restore"
    /\ UNCHANGED <<file, next, previous, writing, loaded, acked, doubtful>>

Finish ==
    /\ pc = "finish"
    /\ previous' = Absent
    /\ ReturnOk
    /\ UNCHANGED <<file, next, loaded>>

(* The new contents are in place and the caller is told of an error.       *)
FinishFails ==
    /\ pc = "finish"
    /\ ReturnError
    /\ UNCHANGED <<file, next, previous, loaded>>

Restore ==
    /\ pc = "restore"
    /\ IF previous # Absent
       THEN file' = previous /\ previous' = Absent
       ELSE UNCHANGED <<file, previous>>
    /\ ReturnError
    /\ UNCHANGED <<next, loaded>>

RestoringFails ==
    /\ strands
    /\ pc = "restore" /\ previous # Absent
    /\ ReturnError
    /\ UNCHANGED <<file, next, previous, loaded>>

-----------------------------------------------------------------------------
Crash ==
    /\ pc # "down"
    /\ pc' = "down"
    /\ writing' = Absent
    /\ next' \in IF pc = "create" THEN {next, Torn, writing} ELSE {next}
    /\ UNCHANGED <<file, previous, loaded, acked, doubtful>>

BeginLoad ==
    /\ pc \in {"down", "ready"}
    /\ pc' = "orphan"
    /\ UNCHANGED <<file, next, previous, writing, loaded, acked, doubtful>>

(* Mutant of RecoverPrevious: a new file without an old one is taken.      *)
RecoverPreviousOrNext ==
    /\ pc = "orphan"
    /\ IF file = Absent
       THEN file' = (IF previous # Absent THEN previous ELSE next)
       ELSE UNCHANGED file
    /\ previous' = Absent
    /\ pc' = IF tidies THEN "tidy" ELSE "read"
    /\ UNCHANGED <<next, writing, loaded, acked, doubtful>>

(* A file whose replacement never arrived gets its name back.              *)
RecoverPrevious ==
    /\ pc = "orphan"
    /\ \/ /\ file = Absent /\ previous # Absent
          /\ file' = previous
          /\ previous' = Absent
       \/ /\ file # Absent \/ previous = Absent
          /\ previous' = IF tidies THEN Absent ELSE previous
          /\ UNCHANGED file
    /\ pc' = IF tidies THEN "tidy" ELSE "read"
    /\ UNCHANGED <<next, writing, loaded, acked, doubtful>>

TidyNext ==
    /\ pc = "tidy"
    /\ next' = Absent
    /\ pc' = "read"
    /\ UNCHANGED <<file, previous, writing, loaded, acked, doubtful>>

Read ==
    /\ pc = "read"
    /\ loaded' = file
    /\ pc' = "ready"
    /\ UNCHANGED <<file, next, previous, writing, acked, doubtful>>

(* A load that tidies reports the error and nothing is saved before a      *)
(* later load has succeeded.                                               *)
LoadFails ==
    /\ tidies
    /\ pc \in {"orphan", "tidy", "read"}
    /\ pc' = "down"
    /\ UNCHANGED <<file, next, previous, writing, loaded, acked, doubtful>>

(* ShortcutCommunityStore.load catches the error and goes on.              *)
LoadGoesOn ==
    /\ ~tidies /\ strands
    /\ pc = "orphan" /\ file = Absent /\ previous # Absent
    /\ loaded' = Absent
    /\ pc' = "ready"
    /\ UNCHANGED <<file, next, previous, writing, acked, doubtful>>

-----------------------------------------------------------------------------
Next ==
    /\ UNCHANGED fixed
    /\ \/ \E v \in Values : Save(v)
       \/ CreateNext \/ CreateNextFails
       \/ DiscardPrevious \/ MoveAside \/ PreparationFails
       \/ Replace \/ ReplaceFails
       \/ Finish \/ FinishFails
       \/ Restore \/ RestoringFails
       \/ Crash
       \/ BeginLoad \/ RecoverPrevious \/ TidyNext \/ Read
       \/ LoadFails \/ LoadGoesOn

Spec == Init /\ [][Next]_vars

-----------------------------------------------------------------------------
(***************************************************************************)
(* Between the two renames of a write the contents exist under the other   *)
(* name.                                                                   *)
(***************************************************************************)
Current == IF file # Absent THEN file ELSE previous

(***************************************************************************)
(* The promise: where the old file can be moved back, save and load behave *)
(* like the atomic register, with the current version as its value; where  *)
(* it cannot, nothing is promised and the register stays untouched.        *)
(***************************************************************************)
Promised(x) == IF strands THEN Absent ELSE x

Register == INSTANCE AtomicRegister WITH
    value   <- Promised(Current),
    writing <- Promised(writing),
    applied <- ~strands /\ pc = "finish",
    acked   <- Promised(acked),
    loaded  <- Promised(loaded)

ImplementsRegister == Register!Spec

(***************************************************************************)
(* What survives is never older than the last acknowledged save: it is its *)
(* value or that of a save attempted since.                                *)
(***************************************************************************)
AcknowledgedSurvives == ~strands => Current \in {acked} \cup doubtful

(***************************************************************************)
(* A torn file never takes the place of a whole one.                       *)
(***************************************************************************)
NeverTorn == Torn \notin {file, previous, loaded}
=============================================================================
