----------------------------- MODULE MCWsRelay -----------------------------
(* Model values for WsRelay. *)
EXTENDS WsRelay

CONSTANTS c1, c2
=============================================================================
