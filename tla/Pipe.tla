-------------------------------- MODULE Pipe --------------------------------
(***************************************************************************)
(* What an obfuscated connection promises its user, who sees a net.Conn:   *)
(* each direction is a queue, Reads return what was written, in order and  *)
(* once, and nothing else happens to it; the handshake is not visible.     *)
(* Ends that are configured differently are promised nothing.              *)
(***************************************************************************)
EXTENDS Naturals, Sequences

CONSTANTS Sides, Other(_)

VARIABLES matched,  \* whether the ends are configured alike
          queue,    \* what each side wrote and the other has not read
          got,      \* what the Reads of each side returned
          closed    \* whether the transport was closed

vars == <<matched, queue, got, closed>>

Init ==
    /\ matched \in BOOLEAN
    /\ queue = [s \in Sides |-> <<>>]
    /\ got = [s \in Sides |-> <<>>]
    /\ closed = FALSE

(* The messages of a side are numbered. *)
Send(s) ==
    /\ matched /\ ~closed
    /\ queue' = [queue EXCEPT ![s] = Append(@, Len(got[Other(s)]) + Len(@) + 1)]
    /\ UNCHANGED <<matched, got, closed>>

Recv(s) ==
    /\ matched /\ queue[Other(s)] # <<>>
    /\ got' = [got EXCEPT ![s] = Append(@, Head(queue[Other(s)]))]
    /\ queue' = [queue EXCEPT ![Other(s)] = Tail(@)]
    /\ UNCHANGED <<matched, closed>>

Close ==
    /\ ~closed /\ closed' = TRUE
    /\ UNCHANGED <<matched, queue, got>>

Unmatched == ~matched /\ UNCHANGED matched

Next == (\E s \in Sides : Send(s) \/ Recv(s)) \/ Close \/ Unmatched

Spec == Init /\ [][Next]_vars
=============================================================================
