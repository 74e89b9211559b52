------------------------ MODULE ReverseForwardProofs ------------------------
(***************************************************************************)
(* Proofs about ReverseForward, for any calls, ports, targets and number   *)
(* of SSH clients, several of which may work at a time.  The gate is       *)
(* obeyed because a listening call owns the table's entry of its port,     *)
(* unless a listener of another client took it, and the history of stopped *)
(* ports agrees with the gate of that entry.                               *)
(***************************************************************************)
EXTENDS ReverseForward, TLAPS

(* An entry of the table was created by a call for that port, whose listener
   works as long as its client does. *)
EntryOwnsPort == \A p \in Ports : revFwds[p] # None =>
    /\ port[revFwds[p]] = p
    /\ \/ pc[revFwds[p]] = "accept"
       \/ pc[revFwds[p]] = "done" /\ client[revFwds[p]] \notin alive

(* A call that has reached its goroutine has a port, and its gate is open
   until it is in the table; its client is one that was created. *)
CallReady == \A c \in Calls :
    /\ pc[c] \in {"start", "listen", "accept"} => port[c] \in Ports
    /\ pc[c] \in {"idle", "start", "listen"} => ~stopped[c]
    /\ client[c] <= gen

(* A client listens on a port at most once. *)
OneListener == \A c, d \in Listening :
    port[c] = port[d] /\ client[c] = client[d] => c = d

(* The history of stopped ports agrees with the gates in the table. *)
GateAgrees == \A p \in Ports : revFwds[p] # None =>
                  (stopped[revFwds[p]] <=> p \in gated)

(* A port that is listened on has an entry. *)
HasEntry == \A c \in Listening : revFwds[port[c]] # None

IInv ==
    /\ TypeOK
    /\ EntryOwnsPort
    /\ CallReady
    /\ OneListener
    /\ GateAgrees
    /\ HasEntry
    /\ ListenerReachable

USE NoneAssumption, MaxGenAssumption

(* Init => IInv. *)
LEMMA InitInv == Init => IInv
<1> SUFFICES ASSUME Init PROVE IInv
  OBVIOUS
<1>1. TypeOK
  <2>1. last \in [port: Ports \cup {None}, to: Targets \cup {None}]
    BY DEF Init, NoConn
  <2> QED BY <2>1 DEF Init, TypeOK
<1>2. EntryOwnsPort /\ CallReady /\ GateAgrees
  BY DEF Init, EntryOwnsPort, CallReady, GateAgrees
<1>3. OneListener /\ HasEntry /\ ListenerReachable
  BY DEF Init, OneListener, HasEntry, ListenerReachable, Listening
<1> QED BY <1>1, <1>2, <1>3 DEF IInv

(* Every step of reverseForward, stopReverseForward, the accept loops and the
   SSH clients preserves IInv. *)
LEMMA NextInv == IInv /\ [Next]_vars => IInv'
<1> SUFFICES ASSUME IInv, [Next]_vars PROVE IInv'
  OBVIOUS
<1> USE DEF IInv, TypeOK, EntryOwnsPort, CallReady, OneListener, GateAgrees,
            HasEntry, ListenerReachable, Listening, callVars, fwdVars, histVars
<1>1. CASE Connected BY <1>1 DEF Connected
<1>2. ASSUME NEW k \in 1 .. gen, Disconnected(k) PROVE IInv'
  BY <1>2 DEF Disconnected
<1>3. ASSUME NEW c \in Calls, NEW p \in Ports, AddNoClient(c, p) PROVE IInv'
  BY <1>3 DEF AddNoClient
<1>4. ASSUME NEW c \in Calls, NEW p \in Ports, NEW t \in Targets, AddKnown(c, p, t)
      PROVE IInv'
  BY <1>4 DEF AddKnown
<1>5. ASSUME NEW c \in Calls, NEW p \in Ports, NEW t \in Targets, AddNew(c, p, t)
      PROVE IInv'
  BY <1>5 DEF AddNew
<1>6. ASSUME NEW c \in Calls, Listen(c) PROVE IInv'
  BY <1>6 DEF Listen
<1>7. ASSUME NEW c \in Calls, ListenOk(c) PROVE IInv'
  BY <1>7 DEF ListenOk, Granted, OnPort
<1>8. ASSUME NEW c \in Calls, ListenFail(c) PROVE IInv'
  BY <1>8 DEF ListenFail
<1>9. ASSUME NEW c \in Calls, Accept(c) PROVE IInv'
  BY <1>9 DEF Accept
<1>10. ASSUME NEW c \in Calls, AcceptEnds(c) PROVE IInv'
  BY <1>10 DEF AcceptEnds
<1>11. ASSUME NEW p \in Ports, Stop(p) PROVE IInv'
  BY <1>11 DEF Stop
<1>12. CASE UNCHANGED vars BY <1>12 DEF vars
<1> QED BY <1>1, <1>2, <1>3, <1>4, <1>5, <1>6, <1>7, <1>8, <1>9, <1>10, <1>11, <1>12
        DEF Next, Quiet

(* The variables stay in their ranges. *)
THEOREM TypeCorrect == Spec => []TypeOK
<1>1. IInv => TypeOK BY DEF IInv
<1> QED BY InitInv, NextInv, <1>1, PTL DEF Spec

(* Every listener is reachable through the table, so that Stop and re-add act
   on it, for any number of clients and racing adds, unless a listener of
   another client that works at the same time took its entry. *)
THEOREM ListenerReachableHolds == Spec => []ListenerReachable
<1>1. IInv => ListenerReachable BY DEF IInv
<1> QED BY InitInv, NextInv, <1>1, PTL DEF Spec

(* The accept loops drop what comes in on a stopped port and forward the rest
   to the target given last, unless their entry was taken that way. *)
THEOREM GateObeyedHolds == Spec => GateObeyed
<1>1. IInv /\ [Next]_vars =>
        [\A c \in Calls \ taken : Accept(c) =>
            IF port[c] \in gated THEN last'.to = None
                                 ELSE last'.to = target[revFwds[port[c]]]]_vars
  <2> SUFFICES ASSUME IInv, NEW c \in Calls \ taken, Accept(c)
               PROVE IF port[c] \in gated THEN last'.to = None
                                          ELSE last'.to = target[revFwds[port[c]]]
    OBVIOUS
  <2>1. port[c] \in Ports /\ revFwds[port[c]] = c
    BY DEF Accept, Listening, IInv, ListenerReachable, CallReady
  <2>2. stopped[c] <=> port[c] \in gated
    BY <2>1, NoneAssumption DEF IInv, GateAgrees
  <2> QED BY <2>1, <2>2 DEF Accept
<1> QED BY InitInv, NextInv, <1>1, PTL DEF Spec, GateObeyed
=============================================================================
