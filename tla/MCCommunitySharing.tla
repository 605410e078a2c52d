------------------------ MODULE MCCommunitySharing ------------------------
(* Instances of CommunitySharing: a few clicks, batches and requests.      *)
EXTENDS CommunitySharing, TLC

CONSTANTS e1, e2, e3, b1, b2, b3

MCShortcutOf == [e \in Events |-> IF e = e2 THEN 2 ELSE 1]

BatchSymmetry == Permutations({b1, b2, b3})
===========================================================================
