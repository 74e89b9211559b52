------------------------------ MODULE MCLimits ------------------------------
(* Values for TLC. *)
EXTENDS Limits

(* The initial limits, and a request that leaves the free allowance as it is. *)
MCLimitValues == {[free |-> 1, burst |-> 1, rate |-> 1],
                  [free |-> 0, burst |-> 2, rate |-> 2]}
=============================================================================
