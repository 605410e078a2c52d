-------------------------- MODULE UsageJournalProofs --------------------------
(***************************************************************************)
(* Proofs about UsageJournal, for any set of clicks: whatever operations   *)
(* fail and wherever the process ends, recorded clicks survive, cleared    *)
(* ones stay away, and the old counters are migrated once.                 *)
(***************************************************************************)
EXTENDS UsageJournal, SequenceTheorems, WellFoundedInduction, TLAPS

Pieces == Events \cup {Torn}
PiecesOf(file) == {file[i] : i \in 1..Len(file)}

(* What each operation is doing, and what it needs for that.               *)
Control ==
    /\ pc = "append" => op = "record"
    /\ pc \in {"mark", "clearRetain", "clearReset", "clearUnmark"} => op = "clear"
    /\ pc \in {"append", "mark", "clearRetain", "clearReset", "clearUnmark"} => loaded
    /\ pc \in {"legacy", "migrate", "prefs", "read"} => ~loaded
    /\ loaded /\ pc \in {"check", "retain", "reset", "unmark"} => op = "clear"
    /\ pc \in {"retain", "reset", "unmark", "clearRetain", "clearReset", "clearUnmark"}
           => marker # None
    /\ op = "record" => click \in used \ recorded
    /\ cleared \subseteq recorded /\ doomed \subseteq recorded

(* While no clear stays unfinished, nothing is appended under a marker:    *)
(* what lies behind its offset is always empty.                            *)
Orderly ==
    /\ loaded /\ pc \in {"idle", "append", "mark"} => marker = None
    /\ marker # None => Len(journal) <= marker
    /\ pc \in {"reset", "unmark", "clearReset", "clearUnmark"} => journal = <<>>
    /\ cleared \cap PiecesOf(journal) = {}

(* Without a fault the only fragment is an incomplete tail that the next   *)
(* load cuts off, and every recorded click that no clear doomed is a line. *)
Whole ==
    /\ \A i \in 1..Len(journal) : journal[i] = Torn => i = Len(journal)
    /\ loaded \/ (pc = "check" /\ marker = None) => Torn \notin PiecesOf(journal)
    /\ marker = None => recorded \ doomed \subseteq PiecesOf(journal)
    /\ marker # None => recorded \subseteq doomed

(* Where the old counters are, and whether memory knows of them.           *)
Counted == (clears = "none" => legacy) /\ (clears = "done" => ~legacy)

Counters ==
    /\ legacyFile = "absent" => prefs
    /\ pc = "prefs" => legacyFile # "absent"
    /\ pc = "migrate" => legacyFile = "absent"
    /\ clears = "none" => marker = None /\ legacyFile # "empty"
    /\ clears = "done" => legacyFile = "empty"
    /\ pc = "clearUnmark" => legacyFile = "empty"
    /\ loaded \/ pc \in {"migrate", "prefs", "read", "check", "retain", "reset",
                         "unmark"} => Counted

JournalInv ==
    /\ TypeOK /\ Control /\ Counters
    /\ "unfinished" \notin faults => Orderly
    /\ faults = {} => Whole

-----------------------------------------------------------------------------
(* Sequences of pieces                                                     *)

(* A nonempty set of natural numbers has a least element.                  *)
LEMMA LeastNumber ==
    ASSUME NEW T \in SUBSET Nat, T # {}
    PROVE  \E x \in T : \A y \in T : x <= y
<1> DEFINE less == {ss \in Nat \X Nat : ss[1] < ss[2]}
<1>1. IsWellFoundedOn(less, Nat)
  BY NatLessThanWellFounded DEF OpToRel
<1>2. PICK x \in T : \A y \in T : ~ (<<y, x>> \in less)
  <2> HIDE DEF less
  <2> QED
    BY <1>1, WFMin, Zenon
<1>3. \A y \in Nat : y < x => <<y, x>> \in less
  BY <1>2
<1>4. x \in Nat /\ \A y \in T : ~ (y < x)
  <2> HIDE DEF less
  <2> QED
    BY <1>2, <1>3
<1> QED
  BY <1>2, <1>4

(* A bounded nonempty set of natural numbers has a greatest element: the   *)
(* least of its bounds.                                                    *)
LEMMA GreatestNumber ==
    ASSUME NEW n \in Nat, NEW T \in SUBSET (1..n), T # {}
    PROVE  \E x \in T : \A y \in T : y <= x
<1> DEFINE U == {u \in Nat : \A y \in T : y <= u}
<1>1. PICK u \in U : \A v \in U : u <= v
  <2>1. n \in U
    OBVIOUS
  <2> HIDE DEF U
  <2>2. U \subseteq Nat
    BY DEF U
  <2> QED
    BY <2>1, <2>2, LeastNumber
<1>2. u \in T
  <2> SUFFICES ASSUME u \notin T PROVE FALSE
    OBVIOUS
  <2>1. u # 0
    <3>1. PICK y \in T : y \in 1..n
      OBVIOUS
    <3>2. y <= u
      BY <1>1, <3>1
    <3> QED
      BY <1>1, <3>1, <3>2
  <2>2. \A y \in T : y <= u - 1
    BY <2>1
  <2>3. u - 1 \in U
    BY <2>1, <2>2
  <2> QED
    BY <1>1, <2>3
<1> QED
  BY <1>2

(* A file is cut behind its last complete line.                            *)
LEMMA CompletePrefix ==
    ASSUME NEW file \in Seq(Pieces)
    PROVE  \E n \in 0..Len(file) :
               /\ CompleteLines(file) = SubSeq(file, 1, n)
               /\ n = 0 \/ file[n] # Torn
               /\ \A i \in n + 1..Len(file) : file[i] = Torn
<1> DEFINE ends == {i \in 1..Len(file) : file[i] # Torn}
           last == CHOOSE i \in ends : \A j \in ends : j <= i
<1>1. Len(file) \in Nat
  OBVIOUS
<1>2. CASE ends = {}
  BY <1>1, <1>2 DEF CompleteLines
<1>3. CASE ends # {}
  <2>1. last \in ends /\ \A j \in ends : j <= last
    <3>1. \E i \in ends : \A j \in ends : j <= i
      BY <1>1, <1>3, GreatestNumber
    <3> HIDE DEF ends
    <3> QED
      BY <3>1
  <2>2. CompleteLines(file) = SubSeq(file, 1, last)
    BY <1>3 DEF CompleteLines
  <2> HIDE DEF last
  <2> QED
    BY <1>1, <2>1, <2>2
<1> QED
  BY <1>2, <1>3

(* A part of a journal.                                                    *)
LEMMA SubSeqPieces ==
    ASSUME NEW file \in Seq(Pieces), NEW m \in Nat \ {0}, NEW n \in 0..Len(file)
    PROVE  /\ SubSeq(file, m, n) \in Seq(Pieces)
           /\ Len(SubSeq(file, m, n)) = IF m <= n THEN n - m + 1 ELSE 0
           /\ \A i \in 1..n - m + 1 : SubSeq(file, m, n)[i] = file[m + i - 1]
<1>1. \A i \in m..n : file[i] \in Pieces
  BY ElementOfSeq
<1> QED
  BY <1>1, SubSeqProperties

(* The complete lines are a prefix of the journal.                         *)
LEMMA CompletePieces ==
    ASSUME NEW file \in Seq(Pieces)
    PROVE  /\ CompleteLines(file) \in Seq(Pieces)
           /\ Len(CompleteLines(file)) <= Len(file)
           /\ \A i \in 1..Len(CompleteLines(file)) : CompleteLines(file)[i] = file[i]
           /\ PiecesOf(CompleteLines(file)) \subseteq PiecesOf(file)
<1>1. PICK n \in 0..Len(file) : CompleteLines(file) = SubSeq(file, 1, n)
  BY CompletePrefix
<1>2. /\ CompleteLines(file) \in Seq(Pieces) /\ Len(CompleteLines(file)) = n
      /\ \A i \in 1..n : CompleteLines(file)[i] = file[i]
  BY <1>1, SubSeqPieces
<1> QED
  BY <1>2 DEF PiecesOf

(* What lies behind an offset, nothing if it is past the end.              *)
LEMMA TailPieces ==
    ASSUME NEW file \in Seq(Pieces), NEW offset \in Nat
    PROVE  /\ TailFrom(file, offset) \in Seq(Pieces)
           /\ offset >= Len(file) => TailFrom(file, offset) = <<>>
<1>1. SubSeq(file, offset + 1, Len(file)) \in Seq(Pieces)
  BY SubSeqPieces
<1>2. <<>> \in Seq(Pieces)
  OBVIOUS
<1> QED
  BY <1>1, <1>2, CompletePieces DEF TailFrom

(* Events are read from lines of the file.                                 *)
LEMMA EventsArePieces ==
    ASSUME NEW file \in Seq(Pieces), NEW offset \in Nat
    PROVE  EventsIn(file, offset) \subseteq PiecesOf(file) \ {Torn}
  BY DEF EventsIn, PiecesOf

(* A file whose only fragment is its tail loses just that, and all its     *)
(* lines are read.                                                         *)
LEMMA TornTail ==
    ASSUME NEW file \in Seq(Pieces),
           \A i \in 1..Len(file) : file[i] = Torn => i = Len(file)
    PROVE  /\ Torn \notin PiecesOf(CompleteLines(file))
           /\ PiecesOf(CompleteLines(file)) = PiecesOf(file) \ {Torn}
           /\ EventsIn(CompleteLines(file), 0) = PiecesOf(file) \ {Torn}
<1> DEFINE whole == CompleteLines(file)
<1>1. PICK n \in 0..Len(file) : /\ whole = SubSeq(file, 1, n)
                                /\ n = 0 \/ file[n] # Torn
                                /\ \A i \in n + 1..Len(file) : file[i] = Torn
  BY CompletePrefix
<1>2. Len(whole) = n /\ \A i \in 1..n : whole[i] = file[i]
  BY <1>1, SubSeqPieces
<1>3. \A i \in 1..n : file[i] # Torn
  BY <1>1
<1> HIDE DEF whole
<1>4. PiecesOf(whole) = PiecesOf(file) \ {Torn}
  <2>1. \A i \in 1..n : file[i] \in PiecesOf(whole) /\ file[i] \in PiecesOf(file)
    BY <1>1, <1>2 DEF PiecesOf
  <2>2. PiecesOf(whole) \subseteq PiecesOf(file) \ {Torn}
    BY <1>2, <1>3, <2>1 DEF PiecesOf
  <2>3. ASSUME NEW p \in PiecesOf(file), p # Torn
        PROVE  p \in PiecesOf(whole)
    <3>1. PICK i \in 1..Len(file) : p = file[i]
      BY <2>3 DEF PiecesOf
    <3>2. i \in 1..n
      BY <1>1, <2>3, <3>1
    <3> QED
      BY <2>1, <3>1, <3>2
  <2> QED
    BY <2>2, <2>3
<1>5. EventsIn(whole, 0) = PiecesOf(whole)
  BY <1>1, <1>2, <1>3 DEF EventsIn, PiecesOf
<1> QED
  BY <1>4, <1>5 DEF whole

(* A journal with one piece more.                                          *)
LEMMA AppendPieces ==
    ASSUME NEW file \in Seq(Pieces), NEW p \in Pieces
    PROVE  /\ Append(file, p) \in Seq(Pieces)
           /\ Len(Append(file, p)) = Len(file) + 1
           /\ \A i \in 1..Len(file) : Append(file, p)[i] = file[i]
           /\ Append(file, p)[Len(file) + 1] = p
           /\ PiecesOf(Append(file, p)) = PiecesOf(file) \cup {p}
<1>1. /\ Append(file, p) \in Seq(Pieces)
      /\ Len(Append(file, p)) = Len(file) + 1
      /\ \A i \in 1..Len(file) : Append(file, p)[i] = file[i]
      /\ Append(file, p)[Len(file) + 1] = p
      /\ Len(file) \in Nat
  OBVIOUS
<1>2. PiecesOf(Append(file, p)) = PiecesOf(file) \cup {p}
  <2>1. \A i \in 1..Len(file) + 1 : i \in 1..Len(file) \/ i = Len(file) + 1
    BY <1>1
  <2>2. Len(file) + 1 \in 1..Len(file) + 1
    BY <1>1
  <2>3. \A i \in 1..Len(file) : i \in 1..Len(file) + 1
    BY <1>1
  <2> DEFINE new == Append(file, p)
  <2>4. PiecesOf(new) = {new[i] : i \in 1..Len(file) + 1}
    BY <1>1 DEF PiecesOf
  <2> HIDE DEF new
  <2>5. \A i \in 1..Len(file) : new[i] = file[i]
    BY <1>1 DEF new
  <2>6. new[Len(file) + 1] = p
    BY <1>1 DEF new
  <2> QED
    BY <2>1, <2>2, <2>3, <2>4, <2>5, <2>6 DEF PiecesOf, new
<1> QED
  BY <1>1, <1>2

-----------------------------------------------------------------------------
(* The invariant holds at first.                                           *)
LEMMA Initially == Init => JournalInv
<1> SUFFICES ASSUME Init PROVE JournalInv
  OBVIOUS
<1>1. TypeOK
  <2>1. journal \in Seq(Events \cup {Torn}) /\ marker \in Nat \cup {None}
    BY EmptySeq DEF Init
  <2>2. prefs \in BOOLEAN /\ loaded \in BOOLEAN /\ legacy \in BOOLEAN
    BY DEF Init
  <2>3. pc \in Pcs /\ pc = "idle" /\ op = "none" /\ legacyFile = "absent"
        /\ clears = "none"
    BY DEF Init, Pcs
  <2>4. events \subseteq Events /\ recorded \subseteq used /\ used \subseteq Events
        /\ faults \subseteq Faults
    BY DEF Init
  <2> QED
    BY <2>1, <2>2, <2>3, <2>4 DEF TypeOK
<1>2. Control /\ Counters
  BY DEF Init, Control, Counters, Counted
<1>3. Orderly /\ Whole
  BY DEF Init, Orderly, Whole, PiecesOf
<1> QED
  BY <1>1, <1>2, <1>3 DEF JournalInv

(* What a file operation that was cut off left.                            *)
Interrupted ==
    \/ UNCHANGED disk
    \/ /\ pc \in {"retain", "clearRetain"} /\ journal' = TailFrom(journal, marker)
       /\ UNCHANGED <<marker, legacyFile, prefs>>
    \/ /\ pc = "migrate" /\ legacyFile' = "counts" /\ UNCHANGED <<journal, marker, prefs>>
    \/ /\ pc \in {"reset", "clearReset"} /\ legacyFile' = "empty"
       /\ UNCHANGED <<journal, marker, prefs>>
    \/ /\ pc = "mark" /\ marker' = (IF marker = None THEN Len(journal) ELSE marker)
       /\ UNCHANGED <<journal, legacyFile, prefs>>
    \/ /\ pc = "append" /\ journal' = Append(journal, click)
       /\ UNCHANGED <<marker, legacyFile, prefs>>
    \/ /\ pc = "append" /\ journal' = Append(journal, Torn)
       /\ UNCHANGED <<marker, legacyFile, prefs>>
       /\ ~loaded' \/ "fragment" \in faults'
    \/ /\ pc = "read" /\ journal' = <<>> /\ "emptied" \in faults'
       /\ UNCHANGED <<marker, legacyFile, prefs>>

(* A crash or a failure only adds to the faults.                           *)
LEMMA Interruptions ==
    ASSUME Crash \/ Fail \/ ClearFails
    PROVE  /\ Interrupted
           /\ faults \subseteq faults'
           /\ faults' \subseteq faults \cup Faults
           /\ UNCHANGED <<used, recorded, cleared>>
           /\ IF pc = "mark" THEN BeginClear ELSE UNCHANGED <<doomed, clears>>
<1>1. CASE Crash
  BY <1>1 DEF Crash, CrashLeaves, Note, Faults, Interrupted, LeavesUntouched,
     LeavesReplaced, LeavesPiece, LeavesEmptied, BeginClear
<1>2. CASE Fail
  BY <1>2 DEF Fail, Note, Faults, Interrupted, LeavesUntouched,
     LeavesReplaced, LeavesPiece, LeavesEmptied
<1>3. CASE ClearFails
  BY <1>3 DEF ClearFails, Faults, Interrupted, LeavesUntouched,
     LeavesReplaced, BeginClear, history
<1> QED
  BY <1>1, <1>2, <1>3

(* Where the control goes.                                                 *)
LEMMA TypeStep == TypeOK /\ Control /\ [Next]_vars => TypeOK'
<1> SUFFICES ASSUME TypeOK, Control, [Next]_vars
             PROVE  TypeOK'
  OBVIOUS
<1>1. journal \in Seq(Pieces) /\ Torn \in Pieces
  BY DEF TypeOK, Pieces
<1>2. Crash \/ Fail \/ ClearFails => /\ journal' \in Seq(Pieces)
                                     /\ marker' \in Nat \cup {None}
                                     /\ legacyFile' \in {"absent", "counts", "empty"}
                                     /\ prefs' \in BOOLEAN
                                     /\ used' = used /\ recorded' = recorded
                                     /\ clears' \in {"none", "tried", "done"}
                                     /\ faults' \subseteq Faults
  <2> SUFFICES ASSUME Crash \/ Fail \/ ClearFails
               PROVE  /\ journal' \in Seq(Pieces)
                      /\ marker' \in Nat \cup {None}
                      /\ legacyFile' \in {"absent", "counts", "empty"}
                      /\ prefs' \in BOOLEAN
                      /\ used' = used /\ recorded' = recorded
                      /\ clears' \in {"none", "tried", "done"}
                      /\ faults' \subseteq Faults
    OBVIOUS
  <2>1. Interrupted
    BY Interruptions
  <2>2. journal' \in Seq(Pieces)
    <3>1. pc \in {"retain", "clearRetain"} => TailFrom(journal, marker) \in Seq(Pieces)
      BY <1>1, TailPieces DEF Control, TypeOK
    <3>2. pc = "append" => click \in Pieces
      BY DEF Control, TypeOK, Pieces
    <3>3. <<>> \in Seq(Pieces)
      BY EmptySeq
    <3>4. \A p \in Pieces : Append(journal, p) \in Seq(Pieces)
      BY <1>1, AppendPieces
    <3> QED
      BY <1>1, <2>1, <3>1, <3>2, <3>3, <3>4 DEF Interrupted, disk
  <2>3. marker' \in Nat \cup {None}
    BY <1>1, <2>1, LenProperties DEF Interrupted, disk, TypeOK
  <2>4. legacyFile' \in {"absent", "counts", "empty"} /\ prefs' \in BOOLEAN
    BY <2>1 DEF Interrupted, disk, TypeOK
  <2>5. used' = used /\ recorded' = recorded /\ faults' \subseteq Faults
    BY Interruptions DEF TypeOK
  <2>6. clears' \in {"none", "tried", "done"}
    BY Interruptions DEF BeginClear, TypeOK
  <2> QED
    BY <2>2, <2>3, <2>4, <2>5, <2>6
<1>3. CASE Crash
  BY <1>2, <1>3 DEF Crash, Finished, TypeOK, Pcs, Pieces
<1>4. CASE Fail
  BY <1>2, <1>4 DEF Fail, Finished, memory, TypeOK, Pcs, Pieces
<1>5. CASE ClearFails
  BY <1>2, <1>5 DEF ClearFails, Goto, memory, TypeOK, Pcs, Pieces
<1>6. CASE Load \/ Clear
  BY <1>6 DEF Load, Clear, Begin, disk, memory, history, TypeOK, Pcs
<1>7. ASSUME NEW e \in Events, Record(e) PROVE TypeOK'
  BY <1>7 DEF Record, Begin, disk, memory, TypeOK, Pcs
<1>8. CASE ReadLegacy \/ MigrateLegacy \/ RemovePreferences
  BY <1>8 DEF ReadLegacy, MigrateLegacy, RemovePreferences, Goto, disk, memory,
     history, TypeOK, Pcs
<1>9. \A file \in Seq(Pieces), offset \in Nat : EventsIn(file, offset) \subseteq Events
  BY EventsArePieces, ElementOfSeq DEF Pieces, PiecesOf
<1>10. CompleteLines(journal) \in Seq(Pieces) /\ Start \in Nat
  BY <1>1, CompletePieces DEF Start, TypeOK
<1>11. CASE ReadJournal
  <2>1. events' \subseteq Events /\ journal' \in Seq(Pieces)
    BY <1>1, <1>9, <1>10, <1>11 DEF ReadJournal
  <2> QED
    BY <1>11, <2>1 DEF ReadJournal, Goto, history, TypeOK, Pcs, Pieces
<1>12. CASE CheckMarker
  BY <1>12 DEF CheckMarker, Goto, Finished, AfterLoad, disk, history, TypeOK, Pcs
<1>13. CASE Retain \/ ClearRetain
  <2>1. journal' \in Seq(Pieces)
    BY <1>1, <1>13, TailPieces DEF Retain, ClearRetain, Control, TypeOK
  <2> QED
    BY <1>13, <2>1 DEF Retain, ClearRetain, Goto, memory, history, TypeOK, Pcs, Pieces
<1>14. CASE Reset \/ ClearReset
  BY <1>14 DEF Reset, ClearReset, Goto, memory, history, TypeOK, Pcs
<1>15. CASE Unmark
  <2>1. events' \subseteq Events
    BY <1>1, <1>9, <1>15 DEF Unmark
  <2> QED
    BY <1>15, <2>1 DEF Unmark, Goto, Finished, AfterLoad, history, TypeOK, Pcs
<1>16. CASE ClearUnmark
  BY <1>16 DEF ClearUnmark, Finished, TypeOK, Pcs
<1>17. CASE AppendLine
  <2>1. click \in used /\ click \in Events
    BY <1>17 DEF AppendLine, Control, TypeOK
  <2>2. journal' \in Seq(Pieces)
    BY <1>1, <1>17, <2>1, AppendPieces DEF AppendLine, Pieces
  <2> QED
    BY <1>17, <2>1, <2>2 DEF AppendLine, Finished, TypeOK, Pcs, Pieces
<1>18. CASE Mark
  <2>1. marker' \in Nat \cup {None}
    BY <1>1, <1>18, LenProperties DEF Mark, TypeOK
  <2> QED
    BY <1>18, <2>1 DEF Mark, BeginClear, Goto, memory, TypeOK, Pcs
<1>19. CASE UNCHANGED vars
  BY <1>19 DEF vars, disk, memory, task, history, TypeOK
<1> QED
  BY <1>3, <1>4, <1>5, <1>6, <1>7, <1>8, <1>11, <1>12, <1>13, <1>14, <1>15, <1>16,
     <1>17, <1>18, <1>19 DEF Next

(* Every step keeps the operations in their order.                         *)
LEMMA ControlStep == TypeOK /\ Control /\ [Next]_vars => Control'
<1> SUFFICES ASSUME TypeOK, Control, [Next]_vars
             PROVE  Control'
  OBVIOUS
<1>1. CASE Crash
  <2>1. cleared' = cleared /\ recorded' = recorded /\ doomed' \in {doomed, recorded}
    BY <1>1, Interruptions DEF BeginClear
  <2> QED
    BY <1>1, <2>1 DEF Crash, Finished, Control
<1>2. CASE Fail
  BY <1>2 DEF Fail, Finished, memory, Control
<1>3. CASE ClearFails
  BY <1>3 DEF ClearFails, Goto, BeginClear, memory, history, Control, TypeOK
<1>4. CASE Load \/ Clear
  BY <1>4 DEF Load, Clear, Begin, disk, memory, history, Control
<1>5. ASSUME NEW e \in Events, Record(e) PROVE Control'
  BY <1>5 DEF Record, Begin, disk, memory, Control, TypeOK
<1>6. CASE ReadLegacy \/ MigrateLegacy \/ RemovePreferences \/ ReadJournal
  BY <1>6 DEF ReadLegacy, MigrateLegacy, RemovePreferences, ReadJournal, Goto, disk,
     memory, history, Control
<1>7. CASE CheckMarker
  BY <1>7 DEF CheckMarker, Goto, Finished, AfterLoad, disk, history, Control, TypeOK
<1>8. CASE Retain \/ ClearRetain \/ Reset \/ ClearReset
  BY <1>8 DEF Retain, ClearRetain, Reset, ClearReset, Goto, memory, history, Control
<1>9. CASE Unmark
  BY <1>9 DEF Unmark, Goto, Finished, AfterLoad, history, Control, TypeOK
<1>10. CASE ClearUnmark
  BY <1>10 DEF ClearUnmark, Finished, Control
<1>11. CASE AppendLine
  BY <1>11 DEF AppendLine, Finished, Control
<1>12. CASE Mark
  BY <1>12, NoneAssumption, LenProperties DEF Mark, BeginClear, Goto, memory, Control, TypeOK
<1>13. CASE UNCHANGED vars
  BY <1>13 DEF vars, disk, memory, task, history, Control
<1> QED
  BY <1>1, <1>2, <1>3, <1>4, <1>5, <1>6, <1>7, <1>8, <1>9, <1>10, <1>11, <1>12,
     <1>13 DEF Next

(* Every step knows where the old counters are.                            *)
LEMMA CountersStep == TypeOK /\ Control /\ Counters /\ [Next]_vars => Counters'
<1> SUFFICES ASSUME TypeOK, Control, Counters, [Next]_vars
             PROVE  Counters'
  OBVIOUS
<1>1. Crash \/ Fail \/ ClearFails =>
          /\ legacyFile' = "absent" => prefs'
          /\ clears' = "none" => marker' = None /\ legacyFile' # "empty"
          /\ clears' = "done" => legacyFile' = "empty"
          /\ clears' = clears \/ (pc = "mark" /\ clears = "none" /\ clears' = "tried")
  <2> SUFFICES ASSUME Crash \/ Fail \/ ClearFails
               PROVE  /\ legacyFile' = "absent" => prefs'
                      /\ clears' = "none" => marker' = None /\ legacyFile' # "empty"
                      /\ clears' = "done" => legacyFile' = "empty"
                      /\ clears' = clears \/ (pc = "mark" /\ clears = "none"
                                              /\ clears' = "tried")
    OBVIOUS
  <2>1. Interrupted
    BY Interruptions
  <2>2. \/ pc # "mark" /\ clears' = clears
        \/ pc = "mark" /\ clears' = IF clears = "none" THEN "tried" ELSE clears
    BY Interruptions DEF BeginClear
  <2> QED
    BY <2>1, <2>2 DEF Interrupted, disk, Counters, Control
<1>2. CASE Crash
  BY <1>1, <1>2 DEF Crash, Finished, Counters
<1>3. CASE Fail
  BY <1>1, <1>3 DEF Fail, Finished, memory, Counters, Counted
<1>4. CASE ClearFails
  BY <1>1, <1>4 DEF ClearFails, Goto, memory, Control, Counters, Counted
<1>5. CASE Load \/ Clear
  BY <1>5 DEF Load, Clear, Begin, disk, memory, history, Counters, Counted
<1>6. ASSUME NEW e \in Events, Record(e) PROVE Counters'
  BY <1>6 DEF Record, Begin, disk, memory, Counters, Counted
<1>7. CASE ReadLegacy
  BY <1>7 DEF ReadLegacy, Goto, disk, history, Control, Counters, Counted, TypeOK
<1>8. CASE MigrateLegacy \/ RemovePreferences \/ ReadJournal
  BY <1>8 DEF MigrateLegacy, RemovePreferences, ReadJournal, Goto,
     memory, history, Control, Counters, Counted
<1>9. CASE CheckMarker
  BY <1>9 DEF CheckMarker, Goto, Finished, AfterLoad, disk, history, Counters,
     Counted, TypeOK, Control
<1>10. CASE Retain \/ ClearRetain \/ Reset \/ ClearReset
  BY <1>10 DEF Retain, ClearRetain, Reset, ClearReset, Goto, memory, history, Control,
     Counters, Counted
<1>11. CASE Unmark
  BY <1>11 DEF Unmark, Goto, Finished, AfterLoad, history, Counters, Counted, Control, TypeOK
<1>12. CASE ClearUnmark
  BY <1>12 DEF ClearUnmark, Finished, Counters, Counted
<1>13. CASE AppendLine
  BY <1>13 DEF AppendLine, Finished, Counters, Counted
<1>14. CASE Mark
  BY <1>14 DEF Mark, BeginClear, Goto, memory, Control, Counters, Counted
<1>15. CASE UNCHANGED vars
  BY <1>15 DEF vars, disk, memory, task, history, Counters, Counted
<1> QED
  BY <1>2, <1>3, <1>4, <1>5, <1>6, <1>7, <1>8, <1>9, <1>10, <1>11, <1>12,
     <1>13, <1>14, <1>15 DEF Next

-----------------------------------------------------------------------------
(* The files, while no clear stays unfinished.                             *)
LEMMA OrderlyStep ==
    ASSUME TypeOK, Control, Orderly, [Next]_vars, "unfinished" \notin faults'
    PROVE  Orderly'
<1>1. journal \in Seq(Pieces) /\ Torn \in Pieces /\ Len(journal) \in Nat
  BY LenProperties DEF TypeOK, Pieces
<1>2. marker # None => marker \in Nat /\ Len(journal) <= marker
  BY DEF TypeOK, Orderly
<1>3. marker # None => TailFrom(journal, marker) = <<>>
  BY <1>1, <1>2, TailPieces
<1>4. Len(<<>>) = 0 /\ PiecesOf(<<>>) = {}
  BY EmptySeq DEF PiecesOf
<1>5. pc = "append" => /\ marker = None /\ click \in Pieces /\ click \notin cleared
                       /\ Torn \notin cleared
  BY EventsAssumption DEF Control, Orderly, TypeOK, Pieces
<1>6. Crash \/ Fail \/ ClearFails =>
          /\ marker' # None => Len(journal') <= marker'
          /\ cleared' \cap PiecesOf(journal') = {}
          /\ marker' = marker \/ pc = "mark"
          /\ journal = <<>> => journal' = <<>> \/ pc = "append"
  <2> SUFFICES ASSUME Crash \/ Fail \/ ClearFails
               PROVE  /\ marker' # None => Len(journal') <= marker'
                      /\ cleared' \cap PiecesOf(journal') = {}
                      /\ marker' = marker \/ pc = "mark"
                      /\ journal = <<>> => journal' = <<>> \/ pc = "append"
    OBVIOUS
  <2>1. Interrupted /\ cleared' = cleared
    BY Interruptions
  <2>2. CASE UNCHANGED <<journal, marker>>
    BY <2>1, <2>2 DEF Orderly
  <2>3. CASE journal' = <<>> /\ marker' = marker
    BY <1>2, <1>4, <2>3
  <2>4. CASE pc = "mark" /\ marker' = (IF marker = None THEN Len(journal) ELSE marker)
             /\ UNCHANGED journal
    BY <1>1, <1>2, <2>1, <2>4 DEF Orderly
  <2>5. ASSUME NEW p \in {click, Torn}, pc = "append", journal' = Append(journal, p),
               UNCHANGED marker
        PROVE  /\ marker' # None => Len(journal') <= marker'
               /\ cleared' \cap PiecesOf(journal') = {}
               /\ marker' = marker \/ pc = "mark"
               /\ journal = <<>> => journal' = <<>> \/ pc = "append"
    <3>1. PiecesOf(journal') = PiecesOf(journal) \cup {p}
      BY <1>1, <1>5, <2>5, AppendPieces
    <3> QED
      BY <1>5, <2>1, <2>5, <3>1 DEF Orderly
  <2>6. pc \in {"retain", "clearRetain"} => TailFrom(journal, marker) = <<>>
    BY <1>3 DEF Control
  <2> QED
    BY <2>1, <2>2, <2>3, <2>4, <2>5, <2>6 DEF Interrupted, disk
<1>7. CASE Crash
  BY <1>6, <1>7 DEF Crash, Finished, Orderly
<1>8. CASE Fail
  <2>1. loaded => pc = "append"
    <3>1. ~(loaded /\ op = "clear")
      BY <1>8 DEF Fail, Note, LeavesUntouched, LeavesReplaced, LeavesPiece,
         LeavesEmptied, Control, Pcs, TypeOK
    <3> QED
      BY <1>8, <3>1 DEF Fail, Control, TypeOK, Pcs
  <2> QED
    BY <1>5, <1>6, <1>8, <2>1 DEF Fail, Finished, memory, Orderly
<1>9. CASE ClearFails
  BY <1>6, <1>9 DEF ClearFails, Goto, memory, Orderly
<1>10. CASE Load \/ Clear
  BY <1>10 DEF Load, Clear, Begin, disk, memory, history, Orderly
<1>11. ASSUME NEW e \in Events, Record(e) PROVE Orderly'
  BY <1>11 DEF Record, Begin, disk, memory, Orderly
<1>12. CASE ReadLegacy \/ MigrateLegacy \/ RemovePreferences
  BY <1>12 DEF ReadLegacy, MigrateLegacy, RemovePreferences, Goto, disk, memory,
     history, Control, Orderly
<1>13. CASE ReadJournal
  <2>1. Len(journal') <= Len(journal) /\ PiecesOf(journal') \subseteq PiecesOf(journal)
        /\ Len(journal') \in Nat
    BY <1>1, <1>13, CompletePieces, LenProperties DEF ReadJournal
  <2> QED
    BY <1>1, <1>2, <1>13, <2>1 DEF ReadJournal, Goto, history, Orderly
<1>14. CASE CheckMarker
  BY <1>14 DEF CheckMarker, Goto, Finished, AfterLoad, disk, history, Orderly
<1>15. CASE Retain \/ ClearRetain
  <2>1. journal' = <<>>
    BY <1>3, <1>15 DEF Retain, ClearRetain, Control
  <2> QED
    BY <1>2, <1>4, <1>15, <2>1 DEF Retain, ClearRetain, Goto, memory, history, Control,
       Orderly
<1>16. CASE Reset \/ ClearReset
  BY <1>16 DEF Reset, ClearReset, Goto, memory, history, Orderly
<1>17. CASE Unmark
  BY <1>17 DEF Unmark, Goto, Finished, AfterLoad, history, Orderly
<1>18. CASE ClearUnmark
  BY <1>4, <1>18 DEF ClearUnmark, Finished, Orderly
<1>19. CASE AppendLine
  <2>1. PiecesOf(journal') = PiecesOf(journal) \cup {click}
    BY <1>1, <1>5, <1>19, AppendPieces DEF AppendLine
  <2> QED
    BY <1>5, <1>19, <2>1 DEF AppendLine, Finished, Orderly
<1>20. CASE Mark
  BY <1>1, <1>2, <1>20 DEF Mark, BeginClear, Goto, memory, Orderly
<1>21. CASE UNCHANGED vars
  BY <1>21 DEF vars, disk, memory, task, history, Orderly
<1> QED
  BY <1>7, <1>8, <1>9, <1>10, <1>11, <1>12, <1>13, <1>14, <1>15, <1>16,
     <1>17, <1>18, <1>19, <1>20, <1>21 DEF Next

(* The journal, while no fault has happened.                               *)
LEMMA WholeStep ==
    ASSUME TypeOK, Control, Orderly, Whole, [Next]_vars, faults' = {}
    PROVE  Whole'
<1>1. journal \in Seq(Pieces) /\ Torn \in Pieces /\ Len(journal) \in Nat
  BY LenProperties DEF TypeOK, Pieces
<1>2. marker # None => TailFrom(journal, marker) = <<>>
  BY <1>1, TailPieces DEF TypeOK, Orderly
<1>3. Len(<<>>) = 0 /\ PiecesOf(<<>>) = {}
  BY EmptySeq DEF PiecesOf
\* A file that is nothing but lines.
<1>4. \A file \in Seq(Pieces) : Torn \notin PiecesOf(file) =>
          \A i \in 1..Len(file) : file[i] # Torn
  BY DEF PiecesOf
<1>5. pc = "append" => /\ marker = None /\ click \in Pieces /\ click # Torn
                       /\ loaded /\ Torn \notin PiecesOf(journal)
  BY EventsAssumption DEF Control, Orderly, Whole, TypeOK, Pieces
<1>6. ASSUME NEW p \in Pieces, journal' = Append(journal, p), pc = "append"
      PROVE  /\ \A i \in 1..Len(journal') : journal'[i] = Torn => i = Len(journal')
             /\ PiecesOf(journal') = PiecesOf(journal) \cup {p}
  <2>1. \A i \in 1..Len(journal) : journal[i] # Torn
    BY <1>1, <1>4, <1>5, <1>6
  <2>2. /\ Len(journal') = Len(journal) + 1
        /\ \A i \in 1..Len(journal) : journal'[i] = journal[i]
        /\ PiecesOf(journal') = PiecesOf(journal) \cup {p}
    BY <1>1, <1>6, AppendPieces
  <2>3. ASSUME NEW i \in 1..Len(journal') PROVE i \in 1..Len(journal) \/ i = Len(journal')
    BY <1>1, <2>2
  <2> QED
    BY <2>1, <2>2, <2>3
<1>7. CASE UNCHANGED <<journal, marker, recorded, doomed>> /\ pc' # "check" /\
           (loaded' => loaded)
  BY <1>7 DEF Whole
<1>8. CASE Crash \/ Fail \/ ClearFails
  <2>1. /\ Interrupted /\ faults = {} /\ recorded' = recorded
        /\ pc = "mark" => doomed' = recorded
        /\ pc # "mark" => doomed' = doomed
    BY <1>8, Interruptions DEF BeginClear
  <2>2. /\ loaded' => loaded
        /\ pc' = "check" => loaded
    BY <1>8 DEF Crash, Fail, ClearFails, Finished, Goto, memory, Control
  <2>3. CASE pc = "mark"
    <3>1. journal' = journal
      BY <2>1, <2>3 DEF Interrupted, disk
    <3> QED
      BY <2>1, <2>2, <2>3, <3>1 DEF Whole
  <2>4. CASE pc # "mark" /\ UNCHANGED <<journal, marker>>
    BY <2>1, <2>2, <2>4 DEF Whole
  <2>5. CASE pc \in {"retain", "clearRetain"} /\ journal' = TailFrom(journal, marker)
             /\ marker' = marker
    <3>1. journal' = <<>> /\ marker # None
      BY <1>2, <2>5 DEF Control
    <3> QED
      BY <1>3, <2>1, <2>5, <3>1 DEF Whole
  <2>6. CASE pc = "append" /\ journal' = Append(journal, click) /\ UNCHANGED marker
    <3>1. /\ \A i \in 1..Len(journal') : journal'[i] = Torn => i = Len(journal')
          /\ PiecesOf(journal') = PiecesOf(journal) \cup {click}
      BY <1>5, <1>6, <2>6
    <3> QED
      BY <1>5, <2>1, <2>6, <3>1 DEF Whole
  <2>7. CASE pc = "append" /\ journal' = Append(journal, Torn) /\ UNCHANGED marker
             /\ ~loaded'
    <3>1. /\ \A i \in 1..Len(journal') : journal'[i] = Torn => i = Len(journal')
          /\ PiecesOf(journal') = PiecesOf(journal) \cup {Torn}
      BY <1>1, <1>6, <2>7
    <3>2. pc' # "check"
      BY <1>8, <2>7 DEF Crash, Fail, ClearFails, Finished
    <3> QED
      BY <1>5, <2>1, <2>7, <3>1, <3>2 DEF Whole
  <2> QED
    BY <2>1, <2>3, <2>4, <2>5, <2>6, <2>7 DEF Interrupted, disk
<1>9. CASE Load \/ Clear
  BY <1>7, <1>9 DEF Load, Clear, Begin, disk, memory, history
<1>10. ASSUME NEW e \in Events, Record(e) PROVE Whole'
  BY <1>7, <1>10 DEF Record, Begin, disk, memory
<1>11. CASE ReadLegacy \/ MigrateLegacy \/ RemovePreferences
  BY <1>7, <1>11 DEF ReadLegacy, MigrateLegacy, RemovePreferences, Goto, disk, memory,
     history
<1>12. CASE ReadJournal
  <2> DEFINE whole == CompleteLines(journal)
  <2>1. /\ Torn \notin PiecesOf(whole) /\ whole \in Seq(Pieces)
        /\ PiecesOf(whole) = PiecesOf(journal) \ {Torn}
    BY <1>1, TornTail, CompletePieces DEF Whole
  <2>2. UNCHANGED <<marker, recorded, doomed>> /\ ~loaded'
    BY <1>12 DEF ReadJournal, history, Control
  <2>3. CASE Start > Len(journal)
    <3>1. journal' = journal /\ marker # None
      BY <1>1, <1>12, <2>3 DEF ReadJournal, Start
    <3> QED
      BY <2>2, <3>1 DEF Whole
  <2>4. CASE ~(Start > Len(journal))
    <3>1. journal' = whole
      BY <1>12, <2>4 DEF ReadJournal
    <3>2. \A i \in 1..Len(whole) : whole[i] # Torn
      BY <1>4, <2>1
    <3>3. Torn \notin recorded
      BY EventsAssumption DEF TypeOK
    <3> HIDE DEF whole
    <3> QED
      BY <2>1, <2>2, <3>1, <3>2, <3>3 DEF Whole
  <2> QED
    BY <2>3, <2>4
<1>13. CASE CheckMarker
  <2>1. UNCHANGED <<journal, marker, recorded, doomed>> /\ pc' # "check"
    BY <1>13 DEF CheckMarker, Goto, Finished, AfterLoad, disk, history
  <2>2. loaded' => loaded \/ marker = None
    BY <1>13 DEF CheckMarker
  <2>3. pc = "check"
    BY <1>13 DEF CheckMarker
  <2> QED
    BY <2>1, <2>2, <2>3 DEF Whole
<1>14. CASE Retain \/ ClearRetain
  <2>1. journal' = <<>> /\ marker # None
    BY <1>2, <1>14 DEF Retain, ClearRetain, Control
  <2> QED
    BY <1>3, <1>14, <2>1 DEF Retain, ClearRetain, Goto, memory, history, Whole
<1>15. CASE Reset \/ ClearReset
  BY <1>7, <1>15 DEF Reset, ClearReset, Goto, memory, history
<1>16. CASE Unmark
  <2>1. journal' = <<>> /\ marker # None
    BY <1>16 DEF Unmark, Orderly, Control
  <2> QED
    BY <1>3, <1>16, <2>1 DEF Unmark, history, Whole
<1>17. CASE ClearUnmark
  <2>1. journal' = <<>> /\ marker # None
    BY <1>17 DEF ClearUnmark, Orderly, Control
  <2> QED
    BY <1>3, <1>17, <2>1 DEF ClearUnmark, Whole
<1>18. CASE AppendLine
  <2>1. /\ \A i \in 1..Len(journal') : journal'[i] = Torn => i = Len(journal')
        /\ PiecesOf(journal') = PiecesOf(journal) \cup {click}
    BY <1>5, <1>6, <1>18 DEF AppendLine
  <2> QED
    BY <1>5, <1>18, <2>1 DEF AppendLine, Finished, Whole
<1>19. CASE Mark
  BY <1>1, <1>19, NoneAssumption DEF Mark, BeginClear, Goto, memory, Whole
<1>20. CASE UNCHANGED vars
  BY <1>20 DEF vars, disk, memory, task, history, Whole
<1> QED
  BY <1>8, <1>9, <1>10, <1>11, <1>12, <1>13, <1>14, <1>15, <1>16,
     <1>17, <1>18, <1>19, <1>20 DEF Next

-----------------------------------------------------------------------------
(***************************************************************************)
(* The invariant holds in every behaviour.                                 *)
(***************************************************************************)
THEOREM JournalInvariance == Spec => []JournalInv
<1>1. JournalInv /\ [Next]_vars => JournalInv'
  <2> SUFFICES ASSUME JournalInv, [Next]_vars
               PROVE  JournalInv'
    OBVIOUS
  <2>1. faults \subseteq faults'
    BY Interruptions DEF Next, vars, Load, Clear, Record, ReadLegacy, MigrateLegacy,
       RemovePreferences, ReadJournal, CheckMarker, Retain, Reset, Unmark, AppendLine,
       Mark, ClearRetain, ClearReset, ClearUnmark, BeginClear, history
  <2>2. "unfinished" \notin faults' => Orderly'
    BY <2>1, OrderlyStep DEF JournalInv
  <2>3. faults' = {} => Whole'
    BY <2>1, WholeStep DEF JournalInv
  <2> QED
    BY <2>2, <2>3, TypeStep, ControlStep, CountersStep DEF JournalInv
<1> QED
  BY Initially, <1>1, PTL DEF Spec

(***************************************************************************)
(* No crash and no failed operation loses a recorded click, but the named  *)
(* faults; and the old counters are there until the user clears and not    *)
(* afterwards (RecordedSurvives).                                          *)
(***************************************************************************)
THEOREM RecordedClicksSurvive == Spec => []RecordedSurvives
<1>1. JournalInv => RecordedSurvives
  <2> SUFFICES ASSUME JournalInv
               PROVE  RecordedSurvives
    OBVIOUS
  <2>1. ASSUME faults = {}
        PROVE  recorded \ doomed \subseteq Readable
    <3>1. CASE marker # None
      BY <2>1, <3>1 DEF JournalInv, Whole
    <3>2. CASE marker = None
      <4>1. journal \in Seq(Pieces) /\ Torn \notin recorded
        BY EventsAssumption DEF JournalInv, TypeOK, Pieces
      <4>2. Readable = PiecesOf(journal) \ {Torn}
        BY <2>1, <3>2, <4>1, TornTail DEF Readable, JournalInv, Whole
      <4> QED
        BY <2>1, <3>2, <4>1, <4>2 DEF JournalInv, Whole
    <3> QED
      BY <3>1, <3>2
  <2> QED
    BY <2>1 DEF RecordedSurvives, JournalInv, Counters, Counted
<1> QED
  BY JournalInvariance, <1>1, PTL

(***************************************************************************)
(* No crash and no failed operation brings a cleared click back, unless a  *)
(* clear stays unfinished while the app runs on (ClearedStaysCleared).     *)
(***************************************************************************)
THEOREM ClearedClicksStayAway == Spec => []ClearedStaysCleared
<1>1. JournalInv => ClearedStaysCleared
  <2> SUFFICES ASSUME JournalInv, "unfinished" \notin faults
               PROVE  Readable \cap cleared = {}
    BY DEF ClearedStaysCleared
  <2>1. journal \in Seq(Pieces) /\ Orderly
    BY DEF JournalInv, TypeOK, Pieces
  <2>2. Readable \subseteq PiecesOf(journal)
    <3>1. CASE marker = None
      <4>1. EventsIn(CompleteLines(journal), 0) \subseteq PiecesOf(journal)
        BY <2>1, CompletePieces, EventsArePieces
      <4> QED
        BY <3>1, <4>1 DEF Readable
    <3>2. CASE marker # None
      <4>1. TailFrom(journal, marker) = <<>>
        BY <2>1, <3>2, TailPieces DEF Orderly, JournalInv, TypeOK
      <4>2. EventsIn(<<>>, 0) = {}
        <5>1. <<>> \in Seq(Pieces) /\ 1..Len(<<>>) = {}
          BY EmptySeq
        <5>2. PiecesOf(<<>>) = {}
          BY <5>1 DEF PiecesOf
        <5> QED
          BY <5>1, <5>2, EventsArePieces
      <4> QED
        BY <3>2, <4>1, <4>2 DEF Readable
    <3> QED
      BY <3>1, <3>2
  <2> QED
    BY <2>1, <2>2 DEF Orderly
<1> QED
  BY JournalInvariance, <1>1, PTL
=============================================================================
