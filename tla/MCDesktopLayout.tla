--------------------------- MODULE MCDesktopLayout ---------------------------
(* An instance of DesktopLayout: Codex is matched by its own process and,   *)
(* once the first edit has given it an executable that the other one's      *)
(* name contains, by that of the other application too.                     *)
EXTENDS DesktopLayout

CONSTANTS x, y

MCMatches(a, texts, process) ==
    \/ a = process
    \/ a = Codex /\ texts[2] = 1
=============================================================================
