--------------------------- MODULE MuxDialProofs ---------------------------
(***************************************************************************)
(* Theorems about MuxDial, for every set of dialers and every number of    *)
(* faults.                                                                 *)
(***************************************************************************)
EXTENDS MuxDial, TLAPS

(* A dialer that is opening the websocket holds muxMu, and no session is open
   while it does: the check and the replacement are one critical section. *)
DialHoldsLock ==
    \A d \in Dialers : pc[d] = "dialWS" => muxMu = d /\ live = {}

(* The shared session is nil or the newest, and no stream is on a later one. *)
SharedIsNewest ==
    /\ muxSess \in {0, nsess}
    /\ \A d \in Dialers : ssn[<<d, 1>>] <= nsess /\ ssn[<<d, 2>>] <= nsess

(* The session of a failed first attempt is closed before the second. *)
FirstIsClosed ==
    \A d \in Dialers :
        /\ try[d] = 2 => ssn[<<d, 1>>] \notin live
        /\ try[d] = 1 => ssn[<<d, 2>>] = 0

(* The inductive invariant. *)
IInv == /\ TypeOK
        /\ OneLiveSession
        /\ DialHoldsLock
        /\ SharedIsNewest
        /\ FirstIsClosed
        /\ RetryIsFresh

(* The initial state satisfies the invariant. *)
LEMMA InitIInv == Init => IInv
  BY MaxFaultsAssumption
  DEF Init, IInv, TypeOK, OneLiveSession, DialHoldsLock, SharedIsNewest,
      FirstIsClosed, RetryIsFresh, Streams, PCs

(* The stream of the attempt a dialer is making is one of Streams. *)
LEMMA CurIsStream ==
    ASSUME TypeOK, NEW d \in Dialers
    PROVE  Cur(d) \in Streams
  BY DEF TypeOK, Cur, Streams

(* What an assignment to the session of the current attempt changes. *)
LEMMA AssignSession ==
    ASSUME TypeOK, NEW d \in Dialers, NEW s \in Nat,
           ssn' = [ssn EXCEPT ![Cur(d)] = s]
    PROVE  \A e \in Dialers :
              /\ ssn'[<<e, 1>>] = IF e = d /\ try[d] = 1 THEN s ELSE ssn[<<e, 1>>]
              /\ ssn'[<<e, 2>>] = IF e = d /\ try[d] = 2 THEN s ELSE ssn[<<e, 2>>]
  BY DEF TypeOK, Cur, Streams

(* Type correctness is preserved: one step per action. *)
LEMMA TypeStep == TypeOK /\ [Next]_vars => TypeOK'
<1> SUFFICES ASSUME TypeOK, [Next]_vars PROVE TypeOK'
  OBVIOUS
<1> USE DEF TypeOK, PCs, dialerVars, streamVars, sessVars
<1>1. ASSUME NEW d \in Dialers, Con(d) \/ LegacyOk(d) \/ LegacyFail(d)
      PROVE  TypeOK'
  BY <1>1 DEF Con, LegacyOk, LegacyFail, Goto
<1>2. ASSUME NEW d \in Dialers, MuxSessionReuse(d) \/ MuxSessionDial(d)
      PROVE  TypeOK'
  <2>1. CASE MuxSessionReuse(d)
    BY <2>1, CurIsStream DEF MuxSessionReuse, Goto
  <2>2. CASE MuxSessionDial(d)
    BY <2>2, CurIsStream DEF MuxSessionDial, Goto
  <2> QED
    BY <1>2, <2>1, <2>2
<1>3. ASSUME NEW d \in Dialers, DialObfWSOk(d) PROVE TypeOK'
  BY <1>3, CurIsStream DEF DialObfWSOk, Goto
<1>4. ASSUME NEW d \in Dialers, DialObfWSFail(d) PROVE TypeOK'
  BY <1>4 DEF DialObfWSFail, AttemptFails, Goto
<1>5. ASSUME NEW d \in Dialers,
             OpenStreamOk(d) \/ OpenStreamFail(d) \/ CallerCloses(d)
      PROVE  TypeOK'
  BY <1>5, CurIsStream
  DEF OpenStreamOk, OpenStreamFail, CallerCloses, CloseStream, AttemptFails, Goto
<1>6. ASSUME NEW d \in Dialers, ReadStatusOk(d) \/ ReadStatusFail(d)
      PROVE  TypeOK'
  BY <1>6, CurIsStream
  DEF ReadStatusOk, ReadStatusFail, CloseStream, AttemptFails, Goto
<1>7. ASSUME NEW d \in Dialers, CloseShared(d) PROVE TypeOK'
  BY <1>7 DEF CloseShared, Goto
<1>8. ASSUME NEW st \in Streams, HandlerStep(st) \/ TargetStep(st)
      PROVE  TypeOK'
  BY <1>8
  DEF HandlerStep, AcceptStream, RefuseStream, TargetDialOk, TargetDialFail,
      TargetDialLate, RelayTornDown, TargetStep, TargetStalls, TargetReads,
      TargetSends, TargetCloses, HandlerAt, Reply
<1>9. ASSUME NEW s \in 1 .. nsess, SessionStep(s) \/ WireDies(s)
      PROVE  TypeOK'
  <2>1. CASE HandleMuxWss(s)
    BY <2>1 DEF HandleMuxWss
  <2>2. CASE BlockMuxWss(s)
    BY <2>2, MaxFaultsAssumption DEF BlockMuxWss
  <2>3. CASE SessionNotices(s)
    BY <2>3 DEF SessionNotices
  <2>4. CASE WireDies(s)
    BY <2>4, MaxFaultsAssumption DEF WireDies
  <2> QED
    BY <1>9, <2>1, <2>2, <2>3, <2>4 DEF SessionStep
<1>10. CASE UNCHANGED vars
  BY <1>10 DEF vars
<1> QED
  BY <1>1, <1>2, <1>3, <1>4, <1>5, <1>6, <1>7, <1>8, <1>9, <1>10
  DEF Next, DialStep, AllReturned

(* A step that moves no session, no attempt and no dialer into dialObfWS
   keeps the rest of the invariant. *)
LEMMA QuietStep ==
    ASSUME IInv, TypeOK',
           UNCHANGED <<try, ssn, muxMu, muxSess, nsess>>,
           live' \subseteq live,
           \A d \in Dialers : pc'[d] = "dialWS" => pc[d] = "dialWS"
    PROVE  IInv'
  BY DEF IInv, TypeOK, OneLiveSession, DialHoldsLock, SharedIsNewest,
         FirstIsClosed, RetryIsFresh

(* Every step preserves the inductive invariant. *)
LEMMA NextIInv == IInv /\ [Next]_vars => IInv'
<1> SUFFICES ASSUME IInv, [Next]_vars PROVE IInv'
  OBVIOUS
<1>t. TypeOK /\ TypeOK'
  BY TypeStep DEF IInv
<1> USE DEF dialerVars, streamVars, sessVars
<1>1. ASSUME NEW d \in Dialers,
             \/ Con(d) \/ LegacyOk(d) \/ LegacyFail(d) \/ CallerCloses(d)
             \/ OpenStreamOk(d) \/ OpenStreamFail(d)
             \/ ReadStatusOk(d) \/ ReadStatusFail(d)
      PROVE  IInv'
  <2>1. /\ UNCHANGED <<try, ssn, muxMu, muxSess, nsess, live>>
        /\ \A e \in Dialers : pc'[e] = "dialWS" => pc[e] = "dialWS"
    BY <1>1, <1>t
    DEF Con, LegacyOk, LegacyFail, CallerCloses, OpenStreamOk, OpenStreamFail,
        ReadStatusOk, ReadStatusFail, AttemptFails, Goto, TypeOK
  <2> QED
    BY <2>1, <1>t, QuietStep
<1>2. ASSUME NEW d \in Dialers, MuxSessionReuse(d) PROVE IInv'
  <2>1. /\ UNCHANGED <<try, live, nsess, muxSess, muxMu>>
        /\ muxSess \in live /\ muxSess = nsess
        /\ \A e \in Dialers : pc'[e] = "dialWS" => pc[e] = "dialWS"
    BY <1>2, <1>t DEF MuxSessionReuse, Goto, IInv, SharedIsNewest, TypeOK
  <2>2. \A e \in Dialers :
           /\ ssn'[<<e, 1>>] = IF e = d /\ try[d] = 1 THEN muxSess ELSE ssn[<<e, 1>>]
           /\ ssn'[<<e, 2>>] = IF e = d /\ try[d] = 2 THEN muxSess ELSE ssn[<<e, 2>>]
    <3>1. muxSess \in Nat
      BY <1>t DEF TypeOK
    <3>2. ssn' = [ssn EXCEPT ![Cur(d)] = muxSess]
      BY <1>2 DEF MuxSessionReuse
    <3> QED
      BY <3>1, <3>2, <1>t, AssignSession
  <2>3. OneLiveSession' /\ DialHoldsLock'
    BY <2>1 DEF IInv, OneLiveSession, DialHoldsLock
  <2>4. SharedIsNewest'
    BY <2>1, <2>2, <1>t DEF IInv, SharedIsNewest, TypeOK, Streams
  <2>5. FirstIsClosed'
    <3> SUFFICES ASSUME NEW e \in Dialers
                 PROVE  /\ try[e] = 2 => ssn'[<<e, 1>>] \notin live
                        /\ try[e] = 1 => ssn'[<<e, 2>>] = 0
      BY <2>1 DEF FirstIsClosed
    <3>1. CASE e = d
      <4>1. try[d] \in 1 .. 2
        BY <1>t DEF TypeOK
      <4> QED
        BY <4>1, <3>1, <2>2 DEF IInv, FirstIsClosed
    <3>2. CASE e # d
      BY <3>2, <2>2 DEF IInv, FirstIsClosed
    <3> QED
      BY <3>1, <3>2
  <2>6. RetryIsFresh'
    <3> SUFFICES ASSUME NEW e \in Dialers, ssn'[<<e, 1>>] # 0, ssn'[<<e, 2>>] # 0
                 PROVE  ssn'[<<e, 1>>] < ssn'[<<e, 2>>]
      BY DEF RetryIsFresh
    <3>1. CASE e = d /\ try[d] = 2
      <4>1. ssn'[<<e, 1>>] = ssn[<<e, 1>>] /\ ssn'[<<e, 2>>] = nsess
        BY <3>1, <2>1, <2>2
      <4>2. ssn[<<e, 1>>] \in Nat /\ ssn[<<e, 1>>] <= nsess /\ ssn[<<e, 1>>] # nsess
        BY <3>1, <2>1, <1>t DEF IInv, SharedIsNewest, FirstIsClosed, TypeOK, Streams
      <4> QED
        BY <4>1, <4>2, <1>t, SMTT(30) DEF TypeOK
    <3>2. CASE e = d /\ try[d] = 1
      BY <3>2, <2>2 DEF IInv, FirstIsClosed
    <3>3. CASE e # d
      BY <3>3, <2>2 DEF IInv, RetryIsFresh
    <3> QED
      BY <3>1, <3>2, <3>3, <1>t DEF TypeOK
  <2> QED
    BY <1>t, <2>3, <2>4, <2>5, <2>6 DEF IInv
<1>3. ASSUME NEW d \in Dialers, MuxSessionDial(d) PROVE IInv'
  BY <1>3, <1>t, DialersAssumption
  DEF MuxSessionDial, Goto, IInv, TypeOK, OneLiveSession, DialHoldsLock,
      SharedIsNewest, FirstIsClosed, RetryIsFresh
<1>4. ASSUME NEW d \in Dialers, DialObfWSOk(d) PROVE IInv'
  <2>1. /\ muxMu = d /\ live = {} /\ live' = {nsess + 1} /\ try' = try
        /\ nsess' = nsess + 1 /\ muxSess' = nsess + 1
        /\ \A e \in Dialers : pc'[e] = "dialWS" => pc[e] = "dialWS" /\ e # d
    BY <1>4, <1>t DEF DialObfWSOk, Goto, IInv, DialHoldsLock, TypeOK
  <2>2. \A e \in Dialers :
           /\ ssn'[<<e, 1>>] = IF e = d /\ try[d] = 1 THEN nsess + 1 ELSE ssn[<<e, 1>>]
           /\ ssn'[<<e, 2>>] = IF e = d /\ try[d] = 2 THEN nsess + 1 ELSE ssn[<<e, 2>>]
    <3>1. nsess + 1 \in Nat
      BY <1>t DEF TypeOK
    <3>2. ssn' = [ssn EXCEPT ![Cur(d)] = nsess + 1]
      BY <1>4 DEF DialObfWSOk
    <3> QED
      BY <3>1, <3>2, <1>t, AssignSession
  <2>3. OneLiveSession' /\ DialHoldsLock'
    BY <2>1 DEF IInv, OneLiveSession, DialHoldsLock
  <2>4. SharedIsNewest'
    BY <2>1, <2>2, <1>t DEF IInv, SharedIsNewest, TypeOK, Streams
  <2>5. \A e \in Dialers : ssn[<<e, 1>>] \in Nat /\ ssn[<<e, 1>>] <= nsess
    BY <1>t DEF IInv, SharedIsNewest, TypeOK, Streams
  <2>6. FirstIsClosed'
    <3> SUFFICES ASSUME NEW e \in Dialers
                 PROVE  /\ try[e] = 2 => ssn'[<<e, 1>>] # nsess + 1
                        /\ try[e] = 1 => ssn'[<<e, 2>>] = 0
      BY <2>1 DEF FirstIsClosed
    <3>0. ssn[<<e, 1>>] # nsess + 1
      BY <2>5, <1>t DEF TypeOK
    <3>1. CASE e = d
      <4>1. try[d] \in 1 .. 2
        BY <1>t DEF TypeOK
      <4> QED
        BY <4>1, <3>1, <2>2, <3>0 DEF IInv, FirstIsClosed
    <3>2. CASE e # d
      BY <3>2, <2>2, <3>0 DEF IInv, FirstIsClosed
    <3> QED
      BY <3>1, <3>2
  <2>7. RetryIsFresh'
    BY <2>1, <2>2, <2>5, <1>t DEF IInv, RetryIsFresh, FirstIsClosed, TypeOK
  <2> QED
    BY <1>t, <2>3, <2>4, <2>6, <2>7 DEF IInv
<1>5. ASSUME NEW d \in Dialers, DialObfWSFail(d) PROVE IInv'
  BY <1>5, <1>t, DialersAssumption
  DEF DialObfWSFail, AttemptFails, Goto, IInv, TypeOK, OneLiveSession,
      DialHoldsLock, SharedIsNewest, FirstIsClosed, RetryIsFresh
<1>6. ASSUME NEW d \in Dialers, CloseShared(d) PROVE IInv'
  <2>1. live' = {}
    BY <1>6 DEF CloseShared, IInv, OneLiveSession
  <2> QED
    BY <1>6, <2>1, <1>t, ZenonT(60)
    DEF CloseShared, Goto, IInv, TypeOK, OneLiveSession, DialHoldsLock,
        SharedIsNewest, FirstIsClosed, RetryIsFresh
<1>7. ASSUME NEW st \in Streams, HandlerStep(st) \/ TargetStep(st)
      PROVE  IInv'
  <2>1. UNCHANGED <<dialerVars, muxMu, sessVars>>
    BY <1>7
    DEF HandlerStep, AcceptStream, RefuseStream, TargetDialOk, TargetDialFail,
        TargetDialLate, RelayTornDown, TargetStep, TargetStalls, TargetReads,
        TargetSends, TargetCloses
  <2> QED
    BY <2>1, <1>t, QuietStep
<1>8. ASSUME NEW s \in 1 .. nsess, SessionStep(s) \/ WireDies(s)
      PROVE  IInv'
  <2>1. /\ UNCHANGED <<dialerVars, muxMu, muxSess, nsess>>
        /\ live' \subseteq live
    BY <1>8
    DEF SessionStep, HandleMuxWss, BlockMuxWss, SessionNotices, WireDies
  <2> QED
    BY <2>1, <1>t, QuietStep
<1>9. CASE UNCHANGED vars
  BY <1>9, <1>t, QuietStep DEF vars
<1> QED
  BY <1>1, <1>2, <1>3, <1>4, <1>5, <1>6, <1>7, <1>8, <1>9
  DEF Next, DialStep, AllReturned

(* The program's variables keep their types. *)
THEOREM TypeCorrect == Spec => []TypeOK
  BY InitIInv, TypeStep, PTL DEF Spec, IInv

(* At most one mux session is open, and muxSess names it, however many calls
   of con() race (muxSession and dialMuxed of web/mux.go). *)
THEOREM OneLiveSessionHolds == Spec => []OneLiveSession
<1>1. IInv => OneLiveSession
  BY DEF IInv
<1> QED
  BY InitIInv, NextIInv, <1>1, PTL DEF Spec

(* The retry of dialMuxed uses a later session than the attempt that failed. *)
THEOREM RetryIsFreshHolds == Spec => []RetryIsFresh
<1>1. IInv => RetryIsFresh
  BY DEF IInv
<1> QED
  BY InitIInv, NextIInv, <1>1, PTL DEF Spec
=============================================================================
