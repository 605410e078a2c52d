--------------------------- MODULE AtomicRegister ---------------------------
(***************************************************************************)
(* What the app relies on when it saves one of its private files: a write  *)
(* takes effect at one moment or not at all, an acknowledged write has     *)
(* taken effect, and whoever loads the file later reads the value of the   *)
(* last write that took effect.                                            *)
(***************************************************************************)
CONSTANTS
    Values,     \* contents a caller may save
    Absent      \* there is no file

VARIABLES
    value,      \* what a load would return
    writing,    \* the value being written, or Absent
    applied,    \* the write under way has taken effect
    acked,      \* the last value whose write was acknowledged
    loaded      \* what the last load returned

vars == <<value, writing, applied, acked, loaded>>

Init ==
    /\ value = Absent
    /\ writing = Absent
    /\ applied = FALSE
    /\ acked = Absent
    /\ loaded = Absent

Begin(v) ==
    /\ writing = Absent
    /\ writing' = v
    /\ applied' = FALSE
    /\ UNCHANGED <<value, acked, loaded>>

Apply ==
    /\ writing # Absent /\ ~applied
    /\ value' = writing
    /\ applied' = TRUE
    /\ UNCHANGED <<writing, acked, loaded>>

(* Only a write that took effect is acknowledged.                          *)
Acknowledge ==
    /\ writing # Absent /\ applied
    /\ writing' = Absent /\ applied' = FALSE
    /\ acked' = writing
    /\ UNCHANGED <<value, loaded>>

(* An error or a crash leaves the caller in doubt.                         *)
GiveUp ==
    /\ writing # Absent
    /\ writing' = Absent /\ applied' = FALSE
    /\ UNCHANGED <<value, acked, loaded>>

Load ==
    /\ writing = Absent
    /\ loaded' = value
    /\ UNCHANGED <<value, writing, applied, acked>>

Next ==
    \/ \E v \in Values : Begin(v)
    \/ Apply \/ Acknowledge \/ GiveUp \/ Load

Spec == Init /\ [][Next]_vars
=============================================================================
