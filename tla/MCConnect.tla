---------------------------- MODULE MCConnect ----------------------------
(* Small instances of Connect. *)
EXTENDS Connect, TLC

CONSTANTS a1, a2, a3

Symmetry == Permutations(Attempts)
=============================================================================
