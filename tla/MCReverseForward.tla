------------------------- MODULE MCReverseForward -------------------------
(* Small instances of ReverseForward. *)
EXTENDS ReverseForward, TLC

CONSTANTS c1, c2, c3

Symmetry == Permutations(Calls)
=============================================================================
