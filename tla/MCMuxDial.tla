----------------------------- MODULE MCMuxDial -----------------------------
(* Model values for MuxDial: concurrent calls of con(). *)
EXTENDS MuxDial

CONSTANTS d1, d2
=============================================================================
