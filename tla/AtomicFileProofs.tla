-------------------------- MODULE AtomicFileProofs --------------------------
(***************************************************************************)
(* The file protocol of AtomicFile is an atomic register for every set of  *)
(* contents, whatever operation fails and wherever the process ends, as    *)
(* long as a file that was moved aside can be moved back.                  *)
(***************************************************************************)
EXTENDS AtomicFile, TLAPS

Idle == {"down", "ready", "orphan", "tidy", "read"}

(***************************************************************************)
(* The strengthening: what the files hold at each step.  The second part   *)
(* is the reason nothing is lost when the previous version is discarded:   *)
(* wherever that may happen the file itself exists, or nothing does.       *)
(***************************************************************************)
WriteInv ==
    /\ pc \in InWrite => writing \in doubtful
    /\ pc \in Idle => writing = Absent
    /\ pc \in {"discard", "aside", "replace"} => next = writing
    /\ pc \in {"aside"} => previous = Absent
    /\ pc \in {"replace", "restore"} => file = Absent
    /\ pc = "finish" => file = writing

VersionInv ==
    pc \in {"ready", "create", "discard", "aside", "tidy", "read"} /\ file = Absent
        => previous = Absent

TypeInv ==
    /\ file \in Values \cup {Absent}
    /\ previous \in Values \cup {Absent}
    /\ next \in Contents
    /\ loaded \in Values \cup {Absent}
    /\ pc \in Pcs
    /\ writing \in Values \cup {Absent}
    /\ acked \in Values \cup {Absent}
    /\ doubtful \subseteq Values
    /\ {tidies, strands} \subseteq BOOLEAN

IInv ==
    /\ TypeInv
    /\ WriteInv
    /\ ~strands => VersionInv /\ AcknowledgedSurvives

(* The invariant holds at first.                                           *)
LEMMA InitIInv == Init => IInv
BY DEF Init, IInv, TypeInv, WriteInv, VersionInv, AcknowledgedSurvives, Current,
       InWrite, Idle, Pcs, Contents

(* Every file operation, failure and crash keeps the invariant.            *)
LEMMA NextIInv ==
    ASSUME IInv, [Next]_vars
    PROVE  IInv'
<1> USE ContentsAssumption DEF IInv, TypeInv, WriteInv, VersionInv,
        AcknowledgedSurvives, Current, InWrite, Idle, Pcs, Contents
<1>0. tidies' = tidies /\ strands' = strands
      BY DEF Next, vars, fixed
<1>1. ASSUME NEW v \in Values, Save(v)
      PROVE  IInv'
      BY <1>0, <1>1 DEF Save
<1>2. CASE CreateNext
      BY <1>0, <1>2 DEF CreateNext
<1>3. CASE CreateNextFails
      BY <1>0, <1>3 DEF CreateNextFails, ReturnError, Return
<1>4. CASE DiscardPrevious
      BY <1>0, <1>4 DEF DiscardPrevious
<1>5. CASE MoveAside
      BY <1>0, <1>5 DEF MoveAside
<1>6. CASE PreparationFails
      BY <1>0, <1>6 DEF PreparationFails, ReturnError, Return
<1>7. CASE Replace
      BY <1>0, <1>7 DEF Replace
<1>8. CASE ReplaceFails
      BY <1>0, <1>8 DEF ReplaceFails
<1>9. CASE Finish
      BY <1>0, <1>9 DEF Finish, ReturnOk, Return
<1>10. CASE FinishFails
      BY <1>0, <1>10 DEF FinishFails, ReturnError, Return
<1>11. CASE Restore
      BY <1>0, <1>11 DEF Restore, ReturnError, Return
<1>12. CASE RestoringFails
      BY <1>0, <1>12 DEF RestoringFails, ReturnError, Return
<1>13. CASE Crash
      BY <1>0, <1>13 DEF Crash
<1>14. CASE BeginLoad
      BY <1>0, <1>14 DEF BeginLoad
<1>15. CASE RecoverPrevious
      BY <1>0, <1>15 DEF RecoverPrevious
<1>16. CASE TidyNext
      BY <1>0, <1>16 DEF TidyNext
<1>17. CASE Read
      BY <1>0, <1>17 DEF Read
<1>18. CASE LoadFails
      BY <1>0, <1>18 DEF LoadFails
<1>19. CASE LoadGoesOn
      BY <1>0, <1>19 DEF LoadGoesOn
<1>20. CASE UNCHANGED vars
      BY <1>20 DEF vars, fixed
<1> QED
      BY <1>1, <1>2, <1>3, <1>4, <1>5, <1>6, <1>7, <1>8, <1>9, <1>10, <1>11,
         <1>12, <1>13, <1>14, <1>15, <1>16, <1>17, <1>18, <1>19, <1>20 DEF Next

(***************************************************************************)
(* The types of the protocol's state; a value is remembered exactly while  *)
(* its write is under way.                                                 *)
(***************************************************************************)
THEOREM TypeCorrect == Spec => []TypeOK
<1>1. IInv /\ [Next]_vars => IInv'
      BY NextIInv
<1>2. IInv => TypeOK
      BY DEF IInv, TypeInv, WriteInv, TypeOK, InWrite, Idle, Pcs, Contents
<1> QED
      BY InitIInv, <1>1, <1>2, PTL DEF Spec

(***************************************************************************)
(* Whatever fails and whenever the process ends, what is on disk is the    *)
(* last acknowledged value or one whose save was attempted since.          *)
(***************************************************************************)
THEOREM Survival == Spec => []AcknowledgedSurvives
<1>1. IInv /\ [Next]_vars => IInv'
      BY NextIInv
<1>2. IInv => AcknowledgedSurvives
      BY DEF IInv, AcknowledgedSurvives
<1> QED
      BY InitIInv, <1>1, <1>2, PTL DEF Spec

(***************************************************************************)
(* No load ever returns, and no rename ever promotes, a torn file, even    *)
(* where the previous version cannot be moved back.                        *)
(***************************************************************************)
THEOREM Untorn == Spec => []NeverTorn
<1>1. IInv /\ [Next]_vars => IInv'
      BY NextIInv
<1>2. IInv => NeverTorn
      BY ContentsAssumption DEF IInv, TypeInv, NeverTorn
<1> QED
      BY InitIInv, <1>1, <1>2, PTL DEF Spec

-----------------------------------------------------------------------------
(* Each step of the protocol is a step of the register, or leaves the      *)
(* register as it is.                                                      *)
LEMMA StepRefines ==
    ASSUME ~strands, IInv, [Next]_vars
    PROVE  [Register!Next]_Register!vars
<1> USE ContentsAssumption DEF IInv, TypeInv, WriteInv, VersionInv, Current,
        InWrite, Idle, Pcs, Contents, Register!Next, Register!vars,
        Promised
<1>0. strands' = strands
      BY DEF Next, vars, fixed
<1>1. ASSUME NEW v \in Values, Save(v)
      PROVE  Register!Begin(v)
      BY <1>0, <1>1 DEF Save, Register!Begin
<1>2. CASE CreateNext
      BY <1>0, <1>2 DEF CreateNext
<1>3. CASE CreateNextFails
      BY <1>0, <1>3 DEF CreateNextFails, ReturnError, Return, Register!GiveUp
<1>4. CASE DiscardPrevious
      BY <1>0, <1>4 DEF DiscardPrevious
<1>5. CASE MoveAside
      BY <1>0, <1>5 DEF MoveAside
<1>6. CASE PreparationFails
      BY <1>0, <1>6 DEF PreparationFails, ReturnError, Return, Register!GiveUp
<1>7. CASE Replace
      BY <1>0, <1>7 DEF Replace, Register!Apply
<1>8. CASE ReplaceFails
      BY <1>0, <1>8 DEF ReplaceFails
<1>9. CASE Finish
      BY <1>0, <1>9 DEF Finish, ReturnOk, Return, Register!Acknowledge
<1>10. CASE FinishFails
      BY <1>0, <1>10 DEF FinishFails, ReturnError, Return, Register!GiveUp
<1>11. CASE Restore
      BY <1>0, <1>11 DEF Restore, ReturnError, Return, Register!GiveUp
<1>12. CASE RestoringFails
      BY <1>0, <1>12 DEF RestoringFails
<1>13. CASE Crash
  <2>1. CASE pc \in InWrite
        BY <1>0, <1>13, <2>1 DEF Crash, Register!GiveUp
  <2>2. CASE pc \in Idle
        BY <1>0, <1>13, <2>2 DEF Crash
  <2> QED BY <2>1, <2>2
<1>14. CASE BeginLoad
      BY <1>0, <1>14 DEF BeginLoad
<1>15. CASE RecoverPrevious
      BY <1>0, <1>15 DEF RecoverPrevious
<1>16. CASE TidyNext
      BY <1>0, <1>16 DEF TidyNext
<1>17. CASE Read
      BY <1>0, <1>17 DEF Read, Register!Load
<1>18. CASE LoadFails
      BY <1>0, <1>18 DEF LoadFails
<1>19. CASE LoadGoesOn
      BY <1>0, <1>19 DEF LoadGoesOn
<1>20. CASE UNCHANGED vars
      BY <1>20 DEF vars, fixed
<1> QED
      BY <1>1, <1>2, <1>3, <1>4, <1>5, <1>6, <1>7, <1>8, <1>9, <1>10, <1>11,
         <1>12, <1>13, <1>14, <1>15, <1>16, <1>17, <1>18, <1>19, <1>20 DEF Next

(* Where moving back may fail, the register does not change.               *)
LEMMA StepWithoutPromise ==
    ASSUME strands, IInv, [Next]_vars
    PROVE  UNCHANGED Register!vars
<1>1. strands' = strands
      BY DEF Next, vars, fixed
<1> QED
      BY <1>1 DEF Register!vars, Promised

(***************************************************************************)
(* Saving and loading a private file refines the atomic register.          *)
(***************************************************************************)
THEOREM RegisterImplemented == Spec => ImplementsRegister
<1>1. Init => Register!Init
      BY DEF Init, Register!Init, Current, Promised
<1>2. IInv /\ [Next]_vars => IInv'
      BY NextIInv
<1>3. IInv /\ [Next]_vars => [Register!Next]_Register!vars
      BY StepRefines, StepWithoutPromise
<1> QED
      BY <1>1, <1>2, <1>3, InitIInv, PTL DEF Spec, Register!Spec, ImplementsRegister
=============================================================================
