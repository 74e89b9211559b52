------------------------------- MODULE MCObfs -------------------------------
(* Model values for Obfs. *)
EXTENDS Obfs

CONSTANTS k1, k2
=============================================================================
