--------------------------- MODULE MCOwnerLimits ----------------------------
(***************************************************************************)
(* OwnerLimits for TLC: the requests that claim a slot are alike.          *)
(***************************************************************************)
EXTENDS OwnerLimits, TLC

Symmetry == Permutations(Claims)
=============================================================================
