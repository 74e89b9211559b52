--------------------------- MODULE ConnectProofs ---------------------------
(***************************************************************************)
(* Proofs about Connect, for any attempts, hosts, keys and credentials.    *)
(*                                                                         *)
(* The changes of the known hosts hold whatever overlaps, by what the      *)
(* dialog and the pending host can be.  The other properties hold as long  *)
(* as no attempt was started over another: at most one is under way, and   *)
(* the globals, the dialog and the timer are then its own.                 *)
(***************************************************************************)
EXTENDS Connect, TLAPS

(* The attempts whose goroutine has a transport and is not finished. *)
Active == {"kex", "wait", "rejected", "auth", "setup", "pty", "shell", "connected"}
Consented == {"auth", "setup", "pty", "shell", "connected"}
Early == {"idle", "con", "kex"}

-----------------------------------------------------------------------------
(* The dialog. *)

(* The attempts the dialog and the page name have presented their key. *)
Presented ==
    /\ modal => shown # None /\ pending # None
    /\ shown # None => pc[shown] \notin Early
    /\ pending # None => pc[pending] \notin Early

(* What rememberHost would store is on display or stored already. *)
PendingIsShown ==
    modal => \/ pending = shown
             \/ knownHosts[host[pending]] = key[pending]

DialogInv == TypeOK /\ Presented /\ PendingIsShown

-----------------------------------------------------------------------------
(* Attempts one after the other. *)

OneAtATime == \A a, b \in Attempts : ~Settled(a) /\ ~Settled(b) => a = b

(* The globals are those of the attempt under way, and the streams of an
   attempt are given its own transport. *)
GlobalsOwned ==
    \A a \in Attempts :
        /\ pc[a] \in Active \/ streams[a] # "off" => sshCon = a /\ fpAccepted = a
        /\ streams[a] # "off" => streams[a] = a
        /\ waitCh[a] = IF pc[a] = "wait" THEN a ELSE None

(* What is left of an attempt's transport. *)
ConnOwned ==
    \A a \in Attempts :
        /\ pc[a] \in {"idle", "con"} => conn[a] = "none" /\ streams[a] = "off"
        /\ pc[a] \in {"ended", "failed"} => conn[a] # "open" \/ cred[a] = "badkey"
        /\ pc[a] \in {"shell", "connected"} => conn[a] = "open" \/ streams[a] = "off"

(* Exactly one answer is on its way to an attempt that waits: a timer, for
   one that was trusted, or the dialog. *)
AnswerOwned ==
    /\ timers \in {0, 1}
    /\ timers = 1 => ~modal /\ \E a \in Attempts : pc[a] = "wait" /\ a \in consent
    /\ modal => pc[shown] = "wait" /\ pending = shown

LiveOwned == live => \E a \in Attempts : pc[a] = "connected"

Sequential ==
    /\ OneAtATime /\ GlobalsOwned /\ ConnOwned /\ AnswerOwned /\ LiveOwned
    /\ rt = "ok"
    /\ \A a \in Attempts : pc[a] \in Consented => a \in consent

IInv == DialogInv /\ (overlapped \/ Sequential)
USE NoneAssumption, OffAssumption

-----------------------------------------------------------------------------
(* The first page load and a reload start from the same state, but for
   localStorage. *)
LEMMA InitTypeOK == Init => TypeOK
<1> SUFFICES ASSUME Init PROVE TypeOK
  OBVIOUS
<1>1. AnyHost \in Hosts /\ AnyCred \in AllCreds
  BY HostsAssumption DEF AnyHost, AnyCred, AllCreds
<1>2. {conBtn, modal, live, alwaysAccept} \subseteq BOOLEAN /\ overlapped \in BOOLEAN
  BY Zenon DEF Init
<1> QED BY <1>1, <1>2 DEF Init, TypeOK, PCs

LEMMA NextTypeOK == TypeOK /\ Presented /\ [Next]_vars => TypeOK'
<1> SUFFICES ASSUME TypeOK, Presented, [Next]_vars PROVE TypeOK'
  OBVIOUS
<1>a. ASSUME NEW v \in BOOLEAN, AcceptFP(v)
      PROVE  /\ pc' \in [Attempts -> PCs]
             /\ waitCh' \in [Attempts -> Attempts \cup {None}]
             /\ rt' \in {"ok", "blocked", "panicked"}
  BY <1>a DEF TypeOK, AcceptFP, Waiting, PCs
<1>f. ASSUME NEW a \in Attempts, FailAndClose(a) PROVE TypeOK'
  BY <1>f DEF TypeOK, FailAndClose, CloseConn, PCs, globalVars, storeVars, histVars
<1>r. ASSUME modal PROVE host[pending] \in Hosts /\ key[pending] \in Keys \cup {None}
  BY <1>r DEF TypeOK, Presented
<1> USE DEF TypeOK, PCs, attemptVars, globalVars, uiVars, storeVars, histVars
<1>1. ASSUME NEW a \in Attempts, NEW h \in Hosts, NEW cr \in Creds, ConnectNow(a, h, cr)
      PROVE TypeOK'
  BY <1>1, CredsAssumption DEF ConnectNow
<1>2. CASE EditForm BY <1>2 DEF EditForm
<1>3. ASSUME NEW a \in Attempts, ConOk(a) PROVE TypeOK'
  BY <1>3 DEF ConOk
<1>4. ASSUME NEW a \in Attempts, ConFail(a) PROVE TypeOK'
  BY <1>4 DEF ConFail
<1>5. ASSUME NEW a \in Attempts, NEW k \in Keys, HostKey(a, k) PROVE TypeOK'
  <2>1. timers' \in Nat /\ consent' \subseteq Attempts
        /\ knownHosts' \in [Hosts -> Keys \cup {None}]
    BY <1>5 DEF HostKey
  <2>2. modal' \in BOOLEAN /\ shown' \in Attempts \cup {None}
    BY <1>5 DEF HostKey
  <2> QED BY <1>5, <2>1, <2>2 DEF HostKey
<1>6. CASE TimerFires
  <2>1. timers' \in Nat BY <1>6 DEF TimerFires
  <2>2. AcceptFP(TRUE) BY <1>6 DEF TimerFires
  <2> QED BY <1>6, <2>1, <2>2, <1>a DEF TimerFires
<1>7. CASE AnswerNo
  <2>1. AcceptFP(FALSE) BY <1>7 DEF AnswerNo
  <2> QED BY <1>7, <2>1, <1>a DEF AnswerNo
<1>8. CASE Dismiss BY <1>8 DEF Dismiss
<1>9. ASSUME NEW button \in {"once", "remember", "always"}, AnswerYes(button)
      PROVE TypeOK'
  <2>1. AcceptFP(TRUE) /\ modal BY <1>9 DEF AnswerYes
  <2>2. knownHosts' \in [Hosts -> Keys \cup {None}] /\ alwaysAccept' \in BOOLEAN
    BY <1>9, <2>1, <1>r DEF AnswerYes, Remember
  <2>3. consent' \subseteq Attempts BY <1>9, <2>1 DEF AnswerYes, Presented
  <2> QED BY <1>9, <2>1, <2>2, <2>3, <1>a DEF AnswerYes
<1>10. ASSUME NEW a \in Attempts, HandshakeFail(a) \/ SetupFail(a) PROVE TypeOK'
  BY <1>10, <1>f DEF HandshakeFail, SetupFail
<1>11. ASSUME NEW a \in Attempts, AuthOk(a) PROVE TypeOK'
  BY <1>11 DEF AuthOk
<1>12. ASSUME NEW a \in Attempts, SessionOk(a) PROVE TypeOK'
  BY <1>12 DEF SessionOk
<1>13. ASSUME NEW a \in Attempts, ShellOk(a) PROVE TypeOK'
  BY <1>13 DEF ShellOk
<1>14. ASSUME NEW a \in Attempts, Connected(a) PROVE TypeOK'
  BY <1>14 DEF Connected
<1>15. ASSUME NEW a \in Attempts, SessionEnds(a) PROVE TypeOK'
  BY <1>15 DEF SessionEnds, CloseConn
<1>16. CASE Reload
  <2>1. AnyHost \in Hosts /\ AnyCred \in AllCreds
    BY HostsAssumption DEF AnyHost, AnyCred, AllCreds
  <2> QED BY <1>16, <2>1 DEF Reload
<1>17. CASE UNCHANGED vars BY <1>17 DEF vars
<1> QED BY <1>1, <1>2, <1>3, <1>4, <1>5, <1>6, <1>7, <1>8, <1>9, <1>10, <1>11,
           <1>12, <1>13, <1>14, <1>15, <1>16, <1>17 DEF Next
(* The dialog and the pending host, through every step. *)
LEMMA NextDialog == DialogInv /\ [Next]_vars => DialogInv'
<1> SUFFICES ASSUME DialogInv, [Next]_vars PROVE Presented' /\ PendingIsShown'
  BY NextTypeOK DEF DialogInv
<1> DEFINE Goal == Presented' /\ PendingIsShown'
<1> USE DEF DialogInv, TypeOK, Presented, PendingIsShown, PCs, Early, attemptVars, globalVars,
            uiVars, storeVars, histVars
<1>a. ASSUME NEW v \in BOOLEAN, AcceptFP(v), NEW x \in Attempts, pc[x] \notin Early
      PROVE pc'[x] \notin Early
  BY <1>a DEF AcceptFP, Waiting
<1>f. ASSUME NEW a \in Attempts, FailAndClose(a) PROVE Goal
  BY <1>f DEF FailAndClose
<1>1. ASSUME NEW a \in Attempts, NEW h \in Hosts, NEW cr \in Creds, ConnectNow(a, h, cr)
      PROVE Goal
  BY <1>1 DEF ConnectNow
<1>2. CASE EditForm BY <1>2 DEF EditForm
<1>3. ASSUME NEW a \in Attempts, ConOk(a) PROVE Goal
  BY <1>3 DEF ConOk
<1>4. ASSUME NEW a \in Attempts, ConFail(a) PROVE Goal
  BY <1>4 DEF ConFail
<1>5. ASSUME NEW a \in Attempts, NEW k \in Keys, HostKey(a, k) PROVE Goal
  BY <1>5 DEF HostKey
<1>6. CASE TimerFires
  <2>1. AcceptFP(TRUE) BY <1>6 DEF TimerFires
  <2> QED BY <1>6, <2>1, <1>a DEF TimerFires
<1>7. CASE AnswerNo
  <2>1. AcceptFP(FALSE) BY <1>7 DEF AnswerNo
  <2> QED BY <1>7, <2>1, <1>a DEF AnswerNo
<1>8. CASE Dismiss BY <1>8 DEF Dismiss
<1>9. ASSUME NEW button \in {"once", "remember", "always"}, AnswerYes(button)
      PROVE Goal
  <2>1. AcceptFP(TRUE) BY <1>9 DEF AnswerYes
  <2> QED BY <1>9, <2>1, <1>a DEF AnswerYes
<1>10. ASSUME NEW a \in Attempts, HandshakeFail(a) \/ SetupFail(a) PROVE Goal
  BY <1>10, <1>f DEF HandshakeFail, SetupFail
<1>11. ASSUME NEW a \in Attempts, AuthOk(a) PROVE Goal
  BY <1>11 DEF AuthOk
<1>12. ASSUME NEW a \in Attempts, SessionOk(a) PROVE Goal
  BY <1>12 DEF SessionOk
<1>13. ASSUME NEW a \in Attempts, ShellOk(a) PROVE Goal
  BY <1>13 DEF ShellOk
<1>14. ASSUME NEW a \in Attempts, Connected(a) PROVE Goal
  BY <1>14 DEF Connected
<1>15. ASSUME NEW a \in Attempts, SessionEnds(a) PROVE Goal
  BY <1>15 DEF SessionEnds
<1>16. CASE Reload BY <1>16 DEF Reload
<1>17. CASE UNCHANGED vars BY <1>17 DEF vars
<1> QED BY <1>1, <1>2, <1>3, <1>4, <1>5, <1>6, <1>7, <1>8, <1>9, <1>10, <1>11,
           <1>12, <1>13, <1>14, <1>15, <1>16, <1>17 DEF Next

(* A trusted key changes only as the dialog shows it: HostKey stores what was
   stored, or the key of a new host, and rememberHost what is displayed. *)
LEMMA TrustStep ==
    DialogInv /\ [Next]_vars =>
        [\A h \in Hosts :
            knownHosts[h] \notin {None, knownHosts'[h]} =>
                modal /\ host[shown] = h /\ key[shown] = knownHosts'[h]]_vars
<1> SUFFICES ASSUME DialogInv, [Next]_vars,
                    NEW h \in Hosts, knownHosts[h] \notin {None, knownHosts'[h]}
             PROVE  modal /\ host[shown] = h /\ key[shown] = knownHosts'[h]
  OBVIOUS
<1> USE DEF DialogInv, TypeOK
<1>1. ASSUME NEW a \in Attempts, NEW k \in Keys, HostKey(a, k) PROVE FALSE
  BY <1>1 DEF HostKey, AutoTrusted, Changed
<1>2. ASSUME NEW button \in {"once", "remember", "always"}, AnswerYes(button)
      PROVE modal /\ host[shown] = h /\ key[shown] = knownHosts'[h]
  <2>1. modal /\ Remember
    BY <1>2 DEF AnswerYes, storeVars
  <2>2. h = host[pending] /\ knownHosts'[h] = key[pending]
    BY <2>1 DEF Remember
  <2> QED BY <2>1, <2>2 DEF PendingIsShown, Presented
<1>3. ASSUME UNCHANGED knownHosts PROVE FALSE
  BY <1>3
<1> QED
  BY <1>1, <1>2, <1>3
  DEF Next, vars, storeVars, ConnectNow, EditForm, ConOk, ConFail, TimerFires, AnswerNo,
      Dismiss, HandshakeFail, SetupFail, FailAndClose, AuthOk, SessionOk, ShellOk, Connected,
      SessionEnds, Reload
-----------------------------------------------------------------------------
LEMMA InitSequential == Init => Sequential
BY DEF Init, Sequential, OneAtATime, Settled, GlobalsOwned, ConnOwned, AnswerOwned,
       LiveOwned, Active, Consented

(* A reload forgets every attempt. *)
LEMMA ReloadSequential == Reload => Sequential'
BY DEF Reload, Sequential, OneAtATime, Settled, GlobalsOwned, ConnOwned, AnswerOwned,
       LiveOwned, Active, Consented

(* The answer of a timer or of the dialog reaches the attempt it is for. *)
LEMMA AnswerArrives ==
    ASSUME DialogInv, Sequential, NEW v \in BOOLEAN, AcceptFP(v),
           NEW w \in Attempts, pc[w] = "wait"
    PROVE  /\ pc' = [pc EXCEPT ![w] = IF v THEN "auth" ELSE "rejected"]
           /\ waitCh' = [waitCh EXCEPT ![w] = None]
           /\ rt' = "ok"
<1>1. Waiting = {w}
  <2>1. \A a \in Attempts : pc[a] = "wait" => a = w
    BY DEF Sequential, OneAtATime, Settled
  <2>2. waitCh[w] = w /\ fpAccepted = w
    BY DEF Sequential, GlobalsOwned, Active
  <2> QED BY <2>1, <2>2 DEF Waiting
<1> QED BY <1>1 DEF AcceptFP, Sequential

LEMMA NextSequential ==
    DialogInv /\ (overlapped \/ Sequential) /\ [Next]_vars => overlapped' \/ Sequential'
<1> SUFFICES ASSUME DialogInv, Sequential, ~overlapped, [Next]_vars, ~overlapped'
             PROVE Sequential'
  <2>1. ASSUME Reload PROVE Sequential'
    BY <2>1, ReloadSequential
  <2>2. ASSUME overlapped, Next, ~Reload PROVE overlapped'
    BY <2>2 DEF Next, vars, histVars, ConnectNow, EditForm, ConOk, ConFail, HostKey,
      TimerFires, AnswerNo, AnswerYes, Dismiss, HandshakeFail, SetupFail, FailAndClose,
      AuthOk, SessionOk, ShellOk, Connected, SessionEnds
  <2>3. ASSUME overlapped, UNCHANGED vars PROVE overlapped'
    BY <2>3 DEF vars, histVars
  <2> QED BY <2>1, <2>2, <2>3
<1>type. TypeOK /\ TypeOK'
  BY NextTypeOK DEF DialogInv
<1> USE <1>type DEF attemptVars, globalVars, uiVars, storeVars, histVars
<1> USE DEF TypeOK, PCs, Sequential, OneAtATime, Settled, GlobalsOwned, ConnOwned, AnswerOwned,
            LiveOwned, Active, Consented, DialogInv, Presented
<1>1. ASSUME NEW a \in Attempts, NEW h \in Hosts, NEW cr \in Creds, ConnectNow(a, h, cr)
      PROVE Sequential'
  <2>1. \A b \in Attempts : Settled(b)
    BY <1>1 DEF ConnectNow
  <2>2. AnswerOwned' /\ LiveOwned' /\ rt' = "ok"
    BY <1>1, <2>1 DEF ConnectNow
  <2>3. OneAtATime' /\ GlobalsOwned'
    BY <1>1, <2>1 DEF ConnectNow
  <2>4. ConnOwned' /\ \A b \in Attempts : pc'[b] \in Consented => b \in consent'
    BY <1>1, <2>1 DEF ConnectNow
  <2> QED BY <2>2, <2>3, <2>4
<1>2. CASE EditForm BY <1>2 DEF EditForm
<1>3. ASSUME NEW a \in Attempts, ConOk(a) PROVE Sequential'
  BY <1>3 DEF ConOk
<1>4. ASSUME NEW a \in Attempts, ConFail(a) PROVE Sequential'
  BY <1>4 DEF ConFail
<1>5. ASSUME NEW a \in Attempts, NEW k \in Keys, HostKey(a, k) PROVE Sequential'
  BY <1>5 DEF HostKey
<1>6. CASE TimerFires
  <2>1. PICK w \in Attempts : pc[w] = "wait" /\ w \in consent
    BY <1>6 DEF TimerFires
  <2>2. /\ pc' = [pc EXCEPT ![w] = "auth"]
        /\ waitCh' = [waitCh EXCEPT ![w] = None]
        /\ rt' = "ok"
    BY <1>6, <2>1, AnswerArrives DEF TimerFires
  <2> QED BY <1>6, <2>1, <2>2 DEF TimerFires
<1>7. CASE AnswerNo
  <2>1. /\ pc' = [pc EXCEPT ![shown] = "rejected"]
        /\ waitCh' = [waitCh EXCEPT ![shown] = None]
        /\ rt' = "ok"
    BY <1>7, AnswerArrives DEF AnswerNo
  <2> QED BY <1>7, <2>1 DEF AnswerNo
<1>8. CASE Dismiss BY <1>8 DEF Dismiss
<1>9. ASSUME NEW button \in {"once", "remember", "always"}, AnswerYes(button)
      PROVE Sequential'
  <2>1. /\ pc' = [pc EXCEPT ![shown] = "auth"]
        /\ waitCh' = [waitCh EXCEPT ![shown] = None]
        /\ rt' = "ok"
    BY <1>9, AnswerArrives DEF AnswerYes
  <2> QED BY <1>9, <2>1 DEF AnswerYes
<1>f. ASSUME NEW a \in Attempts, FailAndClose(a),
             pc[a] \in {"kex", "rejected", "auth", "setup", "pty"}
      PROVE Sequential'
  <2>1. sshCon = a /\ conn' = [conn EXCEPT ![a] = "closed"] /\ rt' = "ok"
    BY <1>f DEF FailAndClose, CloseConn
  <2> QED BY <1>f, <2>1 DEF FailAndClose
<1>10. ASSUME NEW a \in Attempts, HandshakeFail(a) \/ SetupFail(a) PROVE Sequential'
  BY <1>10, <1>f DEF HandshakeFail, SetupFail
<1>11. ASSUME NEW a \in Attempts, AuthOk(a) PROVE Sequential'
  BY <1>11 DEF AuthOk
<1>12. ASSUME NEW a \in Attempts, SessionOk(a) PROVE Sequential'
  BY <1>12 DEF SessionOk
<1>13. ASSUME NEW a \in Attempts, ShellOk(a) PROVE Sequential'
  BY <1>13 DEF ShellOk
<1>14. ASSUME NEW a \in Attempts, Connected(a) PROVE Sequential'
  BY <1>14 DEF Connected
<1>15. ASSUME NEW a \in Attempts, SessionEnds(a) PROVE Sequential'
  BY <1>15 DEF SessionEnds, CloseConn
<1>16. CASE Reload BY <1>16, ReloadSequential
<1>17. CASE UNCHANGED vars BY <1>17 DEF vars
<1> QED BY <1>1, <1>2, <1>3, <1>4, <1>5, <1>6, <1>7, <1>8, <1>9, <1>10, <1>11,
           <1>12, <1>13, <1>14, <1>15, <1>16, <1>17, SMTT(30) DEF Next

-----------------------------------------------------------------------------
LEMMA InitInv == Init => IInv
<1>1. Init => Presented /\ PendingIsShown
  BY DEF Init, Presented, PendingIsShown
<1> QED BY <1>1, InitTypeOK, InitSequential DEF IInv, DialogInv

LEMMA NextInv == IInv /\ [Next]_vars => IInv'
BY NextDialog, NextSequential DEF IInv

LEMMA Invariance == Spec => []IInv
BY InitInv, NextInv, PTL DEF Spec

(* The variables stay in their ranges. *)
THEOREM TypeCorrect == Spec => []TypeOK
<1>1. IInv => TypeOK BY DEF IInv, DialogInv
<1> QED BY Invariance, <1>1, PTL

(* showServerKey and fpRemember replace a stored key only by the one that the
   dialog shows for that host, however many attempts overlap. *)
THEOREM TrustChangeIsShownHolds == Spec => TrustChangeIsShown
<1>1. IInv => DialogInv BY DEF IInv
<1> QED BY Invariance, <1>1, TrustStep, PTL DEF Spec, TrustChangeIsShown

(* No attempt that ran alone gets past the host-key check without consent. *)
THEOREM ConsentGivenHolds == Spec => []ConsentGiven
<1>1. IInv => ConsentGiven
  BY DEF IInv, Sequential, ConsentGiven, Consented
<1> QED BY Invariance, <1>1, PTL

(* acceptFP blocks the event loop only after an attempt was started over
   another. *)
THEOREM BlocksOnlyIfOverlappedHolds == Spec => []BlocksOnlyIfOverlapped
<1>1. IInv => BlocksOnlyIfOverlapped
  BY DEF IInv, Sequential, BlocksOnlyIfOverlapped, LoopNeverBlocked
<1> QED BY Invariance, <1>1, PTL

(* The error paths of initConnection close the transport of the attempt that
   failed, as long as attempts do not overlap. *)
THEOREM OpenConnIsGlobalHolds == Spec => []OpenConnIsGlobal
<1>1. IInv => OpenConnIsGlobal
  BY DEF IInv, DialogInv, TypeOK, PCs, Sequential, GlobalsOwned, ConnOwned, Active,
         OpenConnIsGlobal
<1> QED BY Invariance, <1>1, PTL

(* The page takes a session for live only while its transport is open. *)
THEOREM LiveIsOpenHolds == Spec => []LiveIsOpen
<1>1. IInv => LiveIsOpen
  BY DEF IInv, Sequential, LiveOwned, ConnOwned, LiveIsOpen
<1> QED BY Invariance, <1>1, PTL
=============================================================================
