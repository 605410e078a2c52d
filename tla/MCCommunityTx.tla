---------------------------- MODULE MCCommunityTx ----------------------------
(* Instances of CommunityTx: connections that race on the same rows.       *)
EXTENDS CommunityTx, TLC

CONSTANTS c1, c2, b1, b2

TxSymmetry == Permutations({c1, c2}) \cup Permutations({b1, b2})
=============================================================================
