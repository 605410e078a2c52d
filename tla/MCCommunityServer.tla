------------------------- MODULE MCCommunityServer -------------------------
(***************************************************************************)
(* A small instance of CommunityServer: two batches, which is the          *)
(* publication threshold, so that a category is published only when both   *)
(* are live in the view.                                                   *)
(***************************************************************************)
EXTENDS CommunityServer, TLC

CONSTANTS b1, b2

BatchSymmetry == Permutations({b1, b2})
=============================================================================
