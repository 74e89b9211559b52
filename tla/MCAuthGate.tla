---------------------------- MODULE MCAuthGate ----------------------------
(* Model values for AuthGate. *)
EXTENDS AuthGate, TLC

CONSTANTS c1, c2

Symmetry == Permutations(Clients)
=============================================================================
