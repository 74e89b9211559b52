------------------------------ MODULE MuxDial ------------------------------
(***************************************************************************)
(* How a connection is opened: con() of the browser client (web/main.go)   *)
(* dials a target as a yamux stream on one shared /pm websocket            *)
(* (web/mux.go), retries once, and falls back to a dedicated /p websocket; *)
(* handleMuxWss and handleMuxStream of the proxy (proxy/mux.go) accept the *)
(* session and its streams.                                                *)
(*                                                                         *)
(* A dialer is one call of con(); several run concurrently, because the    *)
(* SSH transport and every reverse-forwarded connection call con() from    *)
(* their own goroutine.  Sessions are numbered in the order they are       *)
(* created; 0 is the nil session.                                          *)
(***************************************************************************)
EXTENDS Naturals, FiniteSets

CONSTANTS Dialers,     \* the calls of con()
          NoDialer,    \* the value of muxMu when it is free
          MaxFaults    \* bound: how many websockets break or are refused

ASSUME DialersAssumption == NoDialer \notin Dialers
ASSUME MaxFaultsAssumption == MaxFaults \in Nat

VARIABLES
    pc,        \* where each call of con() is
    try,       \* which of the two openMuxStream calls of dialMuxed runs
    ssn,       \* the session of each stream (0: sess.Open not reached)
    cst,       \* the client's end of each stream
    prx,       \* the goroutine handleMuxStream of each stream
    sent,      \* the unread status byte of each stream
    muxMu,     \* the holder of the mutex
    muxSess,   \* the shared session, 0 when nil
    nsess,     \* the number of sessions created so far
    live,      \* the client's sessions for which IsClosed() is false
    wire,      \* the sessions whose websocket still carries bytes
    served,    \* the sessions handleMuxWss is accepting streams of
    faults     \* how many websockets have broken or been refused

dialerVars == <<pc, try, ssn>>
streamVars == <<cst, prx, sent>>
sessVars   == <<muxSess, nsess, live, wire, served, faults>>
vars == <<dialerVars, streamVars, muxMu, sessVars>>

Streams == Dialers \X {1, 2}       \* at most one stream for each attempt

PCs == {"idle", "muxSession", "dialWS", "open", "status", "reset",
        "legacy", "muxed", "dedicated", "failed"}

Returned == {"muxed", "dedicated", "failed"}

(* One type invariant: the ranges of the program's variables. *)
TypeOK ==
    /\ pc \in [Dialers -> PCs]
    /\ try \in [Dialers -> {1, 2}]
    /\ ssn \in [Streams -> Nat]
    /\ cst \in [Streams -> {"none", "sent", "est", "closed"}]
    /\ prx \in [Streams -> {"none", "dial", "relay", "stuck", "gone"}]
    /\ sent \in [Streams -> {"none", "one", "zero"}]
    /\ muxMu \in Dialers \cup {NoDialer}
    /\ muxSess \in Nat
    /\ nsess \in Nat
    /\ live \subseteq 1 .. nsess
    /\ wire \subseteq 1 .. nsess
    /\ served \subseteq 1 .. nsess
    /\ faults \in 0 .. MaxFaults

Init ==
    /\ pc = [d \in Dialers |-> "idle"]
    /\ try = [d \in Dialers |-> 1]
    /\ ssn = [st \in Streams |-> 0]
    /\ cst = [st \in Streams |-> "none"]
    /\ prx = [st \in Streams |-> "none"]
    /\ sent = [st \in Streams |-> "none"]
    /\ muxMu = NoDialer
    /\ muxSess = 0
    /\ nsess = 0
    /\ live = {}
    /\ wire = {}
    /\ served = {}
    /\ faults = 0

Cur(d) == <<d, try[d]>>            \* the stream of the attempt d is making

Goto(d, to) == pc' = [pc EXCEPT ![d] = to]

-----------------------------------------------------------------------------
(* The client: con, dialMuxed, openMuxStream and muxSession. *)

(* con() calls dialMuxed, which calls openMuxStream, which calls muxSession. *)
Con(d) ==
    /\ pc[d] = "idle"
    /\ Goto(d, "muxSession")
    /\ UNCHANGED <<try, ssn, streamVars, muxMu, sessVars>>

(* muxSession: the shared session is open, and is returned. *)
MuxSessionReuse(d) ==
    /\ pc[d] = "muxSession"
    /\ muxMu = NoDialer
    /\ muxSess \in live
    /\ ssn' = [ssn EXCEPT ![Cur(d)] = muxSess]
    /\ Goto(d, "open")
    /\ UNCHANGED <<try, streamVars, muxMu, sessVars>>

(* muxSession: no open session, so dialObfWS("/pm") is called, with muxMu held. *)
MuxSessionDial(d) ==
    /\ pc[d] = "muxSession"
    /\ muxMu = NoDialer
    /\ muxSess \notin live
    /\ muxMu' = d
    /\ Goto(d, "dialWS")
    /\ UNCHANGED <<try, ssn, streamVars, sessVars>>

(* Mutant: the new session takes the number of the last one. *)
DialObfWSOkUncounted(d) ==
    /\ pc[d] = "dialWS"
    /\ muxSess' = nsess + 1
    /\ live' = live \cup {nsess + 1}
    /\ wire' = wire \cup {nsess + 1}
    /\ ssn' = [ssn EXCEPT ![Cur(d)] = nsess + 1]
    /\ muxMu' = NoDialer
    /\ Goto(d, "open")
    /\ UNCHANGED <<try, streamVars, nsess, served, faults>>

(* The websocket opens: yamux.Client wraps it and the session is shared. *)
DialObfWSOk(d) ==
    /\ pc[d] = "dialWS"
    /\ nsess' = nsess + 1
    /\ muxSess' = nsess + 1
    /\ live' = live \cup {nsess + 1}
    /\ wire' = wire \cup {nsess + 1}
    /\ ssn' = [ssn EXCEPT ![Cur(d)] = nsess + 1]
    /\ muxMu' = NoDialer
    /\ Goto(d, "open")
    /\ UNCHANGED <<try, streamVars, served, faults>>

(* An attempt of d fails: dialMuxed resets the session after the first one
   and returns the error of the second one, upon which con() falls back. *)
AttemptFails(d) == Goto(d, IF try[d] = 1 THEN "reset" ELSE "legacy")

(* Mutant: the error path of muxSession leaves muxMu locked. *)
DialObfWSFailLocked(d) ==
    /\ pc[d] = "dialWS"
    /\ AttemptFails(d)
    /\ UNCHANGED <<try, ssn, streamVars, muxMu, sessVars>>

(* The websocket does not open; the deferred Unlock runs. *)
DialObfWSFail(d) ==
    /\ pc[d] = "dialWS"
    /\ AttemptFails(d)
    /\ muxMu' = NoDialer
    /\ UNCHANGED <<try, ssn, streamVars, sessVars>>

CloseStream(d) == cst' = [cst EXCEPT ![Cur(d)] = "closed"]

(* sess.Open and writeMuxHeader.  yamux buffers what they send, so they may
   succeed on a session whose websocket is dead, until the session notices. *)
OpenStreamOk(d) ==
    /\ pc[d] = "open"
    /\ ssn[Cur(d)] \in live
    /\ cst' = [cst EXCEPT ![Cur(d)] = "sent"]
    /\ Goto(d, "status")
    /\ UNCHANGED <<try, ssn, prx, sent, muxMu, sessVars>>

(* Either call fails: the session is closed, or its writes time out. *)
OpenStreamFail(d) ==
    /\ pc[d] = "open"
    /\ ssn[Cur(d)] \notin live \cap wire
    /\ CloseStream(d)
    /\ AttemptFails(d)
    /\ UNCHANGED <<try, ssn, prx, sent, muxMu, sessVars>>

(* io.ReadFull of the status byte: 1 means the proxy has dialled the target.
   A byte that arrived before the session closed is still read after it. *)
ReadStatusOk(d) ==
    /\ pc[d] = "status"
    /\ sent[Cur(d)] = "one"
    /\ sent' = [sent EXCEPT ![Cur(d)] = "none"]
    /\ cst' = [cst EXCEPT ![Cur(d)] = "est"]
    /\ Goto(d, "muxed")
    /\ UNCHANGED <<try, ssn, prx, muxMu, sessVars>>

(* Status 0, a stream the proxy closed without a status, or a closed session. *)
ReadStatusFail(d) ==
    /\ pc[d] = "status"
    /\ sent[Cur(d)] = "zero" \/ ssn[Cur(d)] \notin live
    /\ sent' = [sent EXCEPT ![Cur(d)] = "none"]
    /\ CloseStream(d)
    /\ AttemptFails(d)
    /\ UNCHANGED <<try, ssn, prx, muxMu, sessVars>>

(* Mutant: the shared session is forgotten but not closed. *)
CloseSharedForgets(d) ==
    /\ pc[d] = "reset"
    /\ muxMu = NoDialer
    /\ muxSess' = 0
    /\ try' = [try EXCEPT ![d] = 2]
    /\ Goto(d, "muxSession")
    /\ UNCHANGED <<ssn, streamVars, muxMu, nsess, live, wire, served, faults>>

(* Mutant: the shared session is kept when its websocket still works. *)
CloseSharedIfDead(d) ==
    /\ pc[d] = "reset"
    /\ muxMu = NoDialer
    /\ live' = IF muxSess \in wire THEN live ELSE live \ {muxSess}
    /\ muxSess' = IF muxSess \in wire THEN muxSess ELSE 0
    /\ try' = [try EXCEPT ![d] = 2]
    /\ Goto(d, "muxSession")
    /\ UNCHANGED <<ssn, streamVars, muxMu, nsess, wire, served, faults>>

(* dialMuxed after the first failure, whatever it was: close and forget the
   shared session, then try again.  Session.Close also closes the websocket. *)
CloseShared(d) ==
    /\ pc[d] = "reset"
    /\ muxMu = NoDialer
    /\ live' = live \ {muxSess}
    /\ wire' = wire \ {muxSess}
    /\ served' = served \ {muxSess}
    /\ muxSess' = 0
    /\ try' = [try EXCEPT ![d] = 2]
    /\ Goto(d, "muxSession")
    /\ UNCHANGED <<ssn, streamVars, muxMu, nsess, faults>>

(* conLegacy: a websocket of its own, the header, and the JSON response.
   The session and the streams play no part in it. *)
LegacyOk(d) ==
    /\ pc[d] = "legacy"
    /\ Goto(d, "dedicated")
    /\ UNCHANGED <<try, ssn, streamVars, muxMu, sessVars>>

LegacyFail(d) ==
    /\ pc[d] = "legacy"
    /\ Goto(d, "failed")
    /\ UNCHANGED <<try, ssn, streamVars, muxMu, sessVars>>

(* The caller of con() closes the stream it was given. *)
CallerCloses(d) ==
    /\ pc[d] = "muxed"
    /\ cst[Cur(d)] = "est"
    /\ CloseStream(d)
    /\ UNCHANGED <<dialerVars, prx, sent, muxMu, sessVars>>

-----------------------------------------------------------------------------
(* The proxy: handleMuxWss for a session, handleMuxStream for a stream. *)

(* handleMuxWss starts serving the websocket ... *)
HandleMuxWss(s) ==
    /\ s \in wire \ served
    /\ served' = served \cup {s}
    /\ UNCHANGED <<dialerVars, streamVars, muxMu, muxSess, nsess, live, wire, faults>>

(* ... or returns at once, because the source is blocked or over its
   connection rate; the websocket server then closes the connection. *)
BlockMuxWss(s) ==
    /\ s \in wire \ served
    /\ faults < MaxFaults
    /\ faults' = faults + 1
    /\ wire' = wire \ {s}
    /\ UNCHANGED <<dialerVars, streamVars, muxMu, muxSess, nsess, live, served>>

(* The bytes reach the client only while the websocket carries them. *)
Reply(st, status) ==
    sent' = [sent EXCEPT ![st] = IF ssn[st] \in wire THEN status ELSE @]

HandlerAt(st, to) == prx' = [prx EXCEPT ![st] = to]

(* The header of a new stream is read and its target is allowed. *)
AcceptStream(st) ==
    /\ prx[st] = "none" /\ cst[st] = "sent"
    /\ ssn[st] \in served
    /\ HandlerAt(st, "dial")
    /\ UNCHANGED <<dialerVars, cst, sent, muxMu, sessVars>>

(* isAllowedTarger is false, or readMuxHeader fails.  The handler then closes
   the stream without a status byte, which its reader takes as it takes a 0. *)
RefuseStream(st) ==
    /\ prx[st] = "none" /\ cst[st] = "sent"
    /\ ssn[st] \in served
    /\ HandlerAt(st, "gone")
    /\ Reply(st, "zero")
    /\ UNCHANGED <<dialerVars, cst, muxMu, sessVars>>

(* net.DialTimeout fails, or takes the full 30 seconds. *)
TargetDialFail(st) ==
    /\ prx[st] = "dial"
    /\ HandlerAt(st, "gone")
    /\ Reply(st, "zero")
    /\ UNCHANGED <<dialerVars, cst, muxMu, sessVars>>

(* It succeeds and the status byte is written, or buffered by a session that
   has not yet noticed that its websocket is dead. *)
TargetDialOk(st) ==
    /\ prx[st] = "dial"
    /\ HandlerAt(st, "relay")
    /\ Reply(st, "one")
    /\ UNCHANGED <<dialerVars, cst, muxMu, sessVars>>

(* It succeeds too late: st.Write fails on the closed session. *)
TargetDialLate(st) ==
    /\ prx[st] = "dial"
    /\ ssn[st] \notin served
    /\ HandlerAt(st, "gone")
    /\ UNCHANGED <<dialerVars, cst, sent, muxMu, sessVars>>

(* Mutant: the handler waits for both directions before it tears down. *)
RelayTornDownBoth(st) ==
    /\ prx[st] = "relay"
    /\ cst[st] = "closed" /\ ssn[st] \notin served
    /\ HandlerAt(st, "gone")
    /\ UNCHANGED <<dialerVars, cst, sent, muxMu, sessVars>>

(* io.Copy(target, st) waits in st.Read, which returns when the client's end
   is gone; the handler receives from done and its deferred calls close the
   target. *)
RelayTornDown(st) ==
    /\ prx[st] = "relay"
    /\ cst[st] = "closed" \/ ssn[st] \notin served
    /\ HandlerAt(st, "gone")
    /\ UNCHANGED <<dialerVars, cst, sent, muxMu, sessVars>>

(* The client has sent what the target does not read: io.Copy(target, st) is
   in target.Write and io.Copy(st, target) in target.Read.  What happens to
   the stream or to its session wakes neither. *)
TargetStalls(st) ==
    /\ prx[st] = "relay"
    /\ cst[st] = "est" /\ ssn[st] \in served
    /\ HandlerAt(st, "stuck")
    /\ UNCHANGED <<dialerVars, cst, sent, muxMu, sessVars>>

(* The target reads all of it after all. *)
TargetReads(st) ==
    /\ prx[st] = "stuck"
    /\ HandlerAt(st, "relay")
    /\ UNCHANGED <<dialerVars, cst, sent, muxMu, sessVars>>

(* The target sends: io.Copy(st, target) wakes, and its st.Write fails. *)
TargetSends(st) ==
    /\ prx[st] = "stuck"
    /\ cst[st] = "closed" \/ ssn[st] \notin served
    /\ HandlerAt(st, "gone")
    /\ UNCHANGED <<dialerVars, cst, sent, muxMu, sessVars>>

(* Both copies end when the target closes its connection. *)
TargetCloses(st) ==
    /\ prx[st] \in {"relay", "stuck"}
    /\ HandlerAt(st, "gone")
    /\ UNCHANGED <<dialerVars, cst, sent, muxMu, sessVars>>

-----------------------------------------------------------------------------
(* The transport. *)

(* The websocket breaks: the network fails or the proxy exits.  The accept
   loop of handleMuxWss ends, and with it the proxy's session. *)
WireDies(s) ==
    /\ s \in wire
    /\ faults < MaxFaults
    /\ faults' = faults + 1
    /\ wire' = wire \ {s}
    /\ served' = served \ {s}
    /\ UNCHANGED <<dialerVars, streamVars, muxMu, muxSess, nsess, live>>

(* The client's yamux session notices: its receive loop or its keepalive
   fails, and it closes itself. *)
SessionNotices(s) ==
    /\ s \in live \ wire
    /\ live' = live \ {s}
    /\ UNCHANGED <<dialerVars, streamVars, muxMu, muxSess, nsess, wire, served, faults>>

-----------------------------------------------------------------------------

DialStep(d) ==
    \/ MuxSessionReuse(d) \/ MuxSessionDial(d)
    \/ DialObfWSOk(d) \/ DialObfWSFail(d)
    \/ OpenStreamOk(d) \/ OpenStreamFail(d)
    \/ ReadStatusOk(d) \/ ReadStatusFail(d)
    \/ CloseShared(d)
    \/ LegacyOk(d) \/ LegacyFail(d)

HandlerStep(st) ==
    \/ AcceptStream(st) \/ RefuseStream(st)
    \/ TargetDialOk(st) \/ TargetDialFail(st) \/ TargetDialLate(st)
    \/ RelayTornDown(st)

TargetStep(st) ==
    \/ TargetStalls(st) \/ TargetReads(st) \/ TargetSends(st) \/ TargetCloses(st)

SessionStep(s) == HandleMuxWss(s) \/ BlockMuxWss(s) \/ SessionNotices(s)

(* Every call of con() has returned: the client has nothing left to do. *)
AllReturned ==
    /\ \A d \in Dialers : pc[d] \in Returned
    /\ UNCHANGED vars

Next ==
    \/ \E d \in Dialers : Con(d) \/ DialStep(d) \/ CallerCloses(d)
    \/ \E st \in Streams : HandlerStep(st) \/ TargetStep(st)
    \/ \E s \in 1 .. nsess : SessionStep(s) \/ WireDies(s)
    \/ AllReturned

Progress ==
    \/ \E d \in Dialers : DialStep(d)
    \/ \E st \in Streams : HandlerStep(st)
    \/ \E s \in 1 .. nsess : SessionStep(s)

(* Some goroutine of either program runs as long as one can: the proxy's dial
   ends within its 30 second timeout, a websocket open succeeds or fails, and
   yamux notices a dead websocket by its keepalive.  Nothing obliges a caller
   to dial or to close, a target to read, to send or to close, or a websocket
   to break. *)
Fairness == WF_vars(Progress)

Spec == Init /\ [][Next]_vars

FairSpec == Spec /\ Fairness

-----------------------------------------------------------------------------
(* Properties *)

(* At most one session is open, and it is the one muxSess names: no session,
   with its websocket and its goroutines, is orphaned by racing dialers
   (muxSession and dialMuxed, web/mux.go). *)
OneLiveSession == live \subseteq {muxSess}

(* The retry of dialMuxed never reuses the session its first attempt failed
   on, even when another dialer has replaced the session in between. *)
RetryIsFresh ==
    \A d \in Dialers :
        ssn[<<d, 1>>] # 0 /\ ssn[<<d, 2>>] # 0 => ssn[<<d, 1>>] < ssn[<<d, 2>>]

(* Every call of con() returns: no dialer waits for ever for muxMu, for a
   session that died, or for a status byte (web/main.go, web/mux.go). *)
DialTerminates ==
    \A d \in Dialers : (pc[d] = "muxSession") ~> (pc[d] \in Returned)

(* A handler of the proxy does not outlive its client: once the stream or the
   session is closed, handleMuxStream returns and closes its target, or it
   hangs for good on a target that neither reads what it was sent, nor sends,
   nor closes; there is no other way to hang. *)
HandlersEnd ==
    \A st \in Streams :
        (prx[st] # "none" /\ (cst[st] = "closed" \/ ssn[st] \notin live))
            ~> (prx[st] = "gone" \/ [](prx[st] = "stuck"))

(* "retrying once with a fresh session if the current one has gone away"
   (comment of dialMuxed): a session is given up only after its websocket
   has died. *)
ClosedOnlyWhenGone == [][\A s \in live \ live' : s \notin wire]_vars
=============================================================================
