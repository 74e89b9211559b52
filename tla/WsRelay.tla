------------------------------ MODULE WsRelay ------------------------------
(***************************************************************************)
(* The per-connection relay of the proxy and its shutdown (proxy/main.go): *)
(* handleWss with its two copying goroutines and its ping goroutine, the   *)
(* counter activeWebsocks, and main's wait for that counter after an       *)
(* interrupt.  The sessions of handleMuxWss are not counted and have no    *)
(* part in it.                                                             *)
(*                                                                         *)
(* A copier is blocked in a read or in a write.  A closed socket fails     *)
(* both; so does a peer that is gone, once TCP has noticed.  A target that *)
(* stops reading blocks a write for as long as it pleases.                 *)
(*                                                                         *)
(* Limits is about the same handlers; names that it has too are others     *)
(* here, so that HandlerProofs can extend both.                            *)
(***************************************************************************)
EXTENDS Integers, FiniteSets

CONSTANT Handlers   \* requests on /p and /ws

ASSUME HandlersAssumption == IsFiniteSet(Handlers)

VARIABLES
    srv,       \* "serving", "closing" (in Shutdown), "draining" (polling
               \* activeWebsocks), "leaving" (it read 0) or "exited"
    active,    \* activeWebsocks
    handler,   \* each handleWss
    ws, conn,  \* the proxy's ends: "none", "open" or "closed"
    up, down,  \* the copiers: "off", "read", "write" or "done"
    ping,      \* whether the ping goroutine runs
    browser,   \* the browser's end: "here", "lost" (silently) or "gone"
    dest,      \* the target's end: "here", "eof" (no more output) or "gone"
    held       \* history: the handlers counted when the interrupt came

relayVars == <<ws, conn, up, down, ping>>
peerVars  == <<browser, dest>>
wsVars == <<srv, active, handler, relayVars, peerVars, held>>

Inside == {"entered", "dial", "relay"}
Counted == {c \in Handlers : handler[c] \in Inside}

(* One type invariant: the ranges of the program's variables. *)
RelayTypeOK ==
    /\ srv \in {"serving", "closing", "draining", "leaving", "exited"}
    /\ active \in Nat
    /\ handler \in [Handlers -> Inside \cup {"idle", "hijacked", "ended"}]
    /\ ws \in [Handlers -> {"none", "open", "closed"}]
    /\ conn \in [Handlers -> {"none", "open", "closed"}]
    /\ up \in [Handlers -> {"off", "read", "write", "done"}]
    /\ down \in [Handlers -> {"off", "read", "write", "done"}]
    /\ ping \in [Handlers -> BOOLEAN]
    /\ browser \in [Handlers -> {"here", "lost", "gone"}]
    /\ dest \in [Handlers -> {"here", "eof", "gone"}]
    /\ held \subseteq Handlers

RelayInit ==
    /\ srv = "serving"
    /\ active = 0
    /\ handler = [c \in Handlers |-> "idle"]
    /\ ws = [c \in Handlers |-> "none"]
    /\ conn = [c \in Handlers |-> "none"]
    /\ up = [c \in Handlers |-> "off"]
    /\ down = [c \in Handlers |-> "off"]
    /\ ping = [c \in Handlers |-> FALSE]
    /\ browser = [c \in Handlers |-> "here"]
    /\ dest = [c \in Handlers |-> "here"]
    /\ held = {}

Running == srv # "exited"

-----------------------------------------------------------------------------
(* handleWss up to the relay. *)

(* The server hijacks the connection and answers the upgrade; Shutdown knows
   it no more, and activeWebsocks does not know it yet. *)
Hijack(c) ==
    /\ srv \in {"serving", "closing"}
    /\ handler[c] = "idle"
    /\ handler' = [handler EXCEPT ![c] = "hijacked"]
    /\ ws' = [ws EXCEPT ![c] = "open"]
    /\ UNCHANGED <<srv, active, conn, up, down, ping, peerVars, held>>

(* Mutant: the handler is not counted. *)
EnterUncounted(c) ==
    /\ Running
    /\ handler[c] = "hijacked"
    /\ handler' = [handler EXCEPT ![c] = "entered"]
    /\ UNCHANGED <<srv, active, relayVars, peerVars, held>>

Enter(c) ==
    /\ Running
    /\ handler[c] = "hijacked"
    /\ handler' = [handler EXCEPT ![c] = "entered"]
    /\ active' = active + 1
    /\ UNCHANGED <<srv, relayVars, peerVars, held>>

(* The deferred calls of handleWss. *)
Return(c) ==
    /\ handler' = [handler EXCEPT ![c] = "ended"]
    /\ active' = active - 1
    /\ ws' = [ws EXCEPT ![c] = "closed"]

(* An early return: the source is blocked, no header came within 2 s, it does
   not parse, or the target is not allowed. *)
Refuse(c) ==
    /\ Running
    /\ handler[c] = "entered"
    /\ Return(c)
    /\ UNCHANGED <<srv, conn, up, down, ping, peerVars, held>>

Dial(c) ==
    /\ Running
    /\ handler[c] = "entered"
    /\ handler' = [handler EXCEPT ![c] = "dial"]
    /\ UNCHANGED <<srv, active, relayVars, peerVars, held>>

(* net.DialTimeout fails, at the latest after 30 s. *)
DialFail(c) ==
    /\ Running
    /\ handler[c] = "dial"
    /\ Return(c)
    /\ UNCHANGED <<srv, conn, up, down, ping, peerVars, held>>

(* Mutant: no ping goroutine. *)
DialOkNoPing(c) ==
    /\ Running
    /\ handler[c] = "dial"
    /\ handler' = [handler EXCEPT ![c] = "relay"]
    /\ conn' = [conn EXCEPT ![c] = "open"]
    /\ up' = [up EXCEPT ![c] = "read"]
    /\ down' = [down EXCEPT ![c] = "read"]
    /\ UNCHANGED <<srv, active, ws, ping, peerVars, held>>

(* It succeeds: the status is sent and the three goroutines start. *)
DialOk(c) ==
    /\ Running
    /\ handler[c] = "dial"
    /\ handler' = [handler EXCEPT ![c] = "relay"]
    /\ conn' = [conn EXCEPT ![c] = "open"]
    /\ up' = [up EXCEPT ![c] = "read"]
    /\ down' = [down EXCEPT ![c] = "read"]
    /\ ping' = [ping EXCEPT ![c] = TRUE]
    /\ UNCHANGED <<srv, active, ws, peerVars, held>>

-----------------------------------------------------------------------------
(* The copiers: io.Copy, then close the other side and report. *)

Copying == <<srv, active, handler, ping, peerVars, held>>

(* A chunk is read from the websocket, and then taken by the target. *)
UpRead(c) ==
    /\ Running
    /\ up[c] = "read" /\ ws[c] = "open" /\ browser[c] = "here"
    /\ up' = [up EXCEPT ![c] = "write"]
    /\ UNCHANGED <<Copying, ws, conn, down>>

UpWrite(c) ==
    /\ Running
    /\ up[c] = "write" /\ conn[c] = "open" /\ dest[c] # "gone"
    /\ up' = [up EXCEPT ![c] = "read"]
    /\ UNCHANGED <<Copying, ws, conn, down>>

UpFails(c) ==
    \/ up[c] = "read" /\ (ws[c] = "closed" \/ browser[c] = "gone")
    \/ up[c] = "write" /\ (conn[c] = "closed" \/ dest[c] = "gone")

UpEnds(c) ==
    /\ Running
    /\ UpFails(c)
    /\ up' = [up EXCEPT ![c] = "done"]
    /\ conn' = [conn EXCEPT ![c] = "closed"]
    /\ UNCHANGED <<Copying, ws, down>>

DownRead(c) ==
    /\ Running
    /\ down[c] = "read" /\ conn[c] = "open" /\ dest[c] = "here"
    /\ down' = [down EXCEPT ![c] = "write"]
    /\ UNCHANGED <<Copying, ws, conn, up>>

DownWrite(c) ==
    /\ Running
    /\ down[c] = "write" /\ ws[c] = "open" /\ browser[c] = "here"
    /\ down' = [down EXCEPT ![c] = "read"]
    /\ UNCHANGED <<Copying, ws, conn, up>>

DownFails(c) ==
    \/ down[c] = "read" /\ (conn[c] = "closed" \/ dest[c] # "here")
    \/ down[c] = "write" /\ (ws[c] = "closed" \/ browser[c] = "gone")

DownEnds(c) ==
    /\ Running
    /\ DownFails(c)
    /\ down' = [down EXCEPT ![c] = "done"]
    /\ ws' = [ws EXCEPT ![c] = "closed"]
    /\ UNCHANGED <<Copying, conn, up>>

(* Mutant: the handler leaves when the first copier reports. *)
FinishFirst(c) ==
    /\ Running
    /\ handler[c] = "relay" /\ "done" \in {up[c], down[c]}
    /\ Return(c)
    /\ conn' = [conn EXCEPT ![c] = "closed"]
    /\ UNCHANGED <<srv, up, down, ping, peerVars, held>>

(* Both reports arrived: close(done) and the deferred calls. *)
Finish(c) ==
    /\ Running
    /\ handler[c] = "relay" /\ up[c] = "done" /\ down[c] = "done"
    /\ Return(c)
    /\ conn' = [conn EXCEPT ![c] = "closed"]
    /\ UNCHANGED <<srv, up, down, ping, peerVars, held>>

(* Pings to a browser that vanished go unanswered until TCP gives up: the
   socket fails, for the copiers as well, and the ping goroutine returns. *)
PingFails(c) ==
    /\ Running
    /\ ping[c] /\ ws[c] = "open" /\ browser[c] # "here"
    /\ ping' = [ping EXCEPT ![c] = FALSE]
    /\ browser' = [browser EXCEPT ![c] = "gone"]
    /\ UNCHANGED <<srv, active, handler, ws, conn, up, down, dest, held>>

(* done is closed, or the websocket is: the goroutine returns. *)
PingEnds(c) ==
    /\ Running
    /\ ping[c]
    /\ handler[c] = "ended" \/ ws[c] = "closed"
    /\ ping' = [ping EXCEPT ![c] = FALSE]
    /\ UNCHANGED <<srv, active, handler, ws, conn, up, down, peerVars, held>>

-----------------------------------------------------------------------------
(* The peers. *)

BrowserLeaves(c) ==
    /\ Running
    /\ ws[c] = "open" /\ browser[c] = "here"
    /\ browser' \in {[browser EXCEPT ![c] = "lost"], [browser EXCEPT ![c] = "gone"]}
    /\ UNCHANGED <<srv, active, handler, relayVars, dest, held>>

TargetLeaves(c) ==
    /\ Running
    /\ conn[c] = "open" /\ dest[c] # "gone"
    /\ \/ dest[c] = "here" /\ dest' = [dest EXCEPT ![c] = "eof"]
       \/ dest' = [dest EXCEPT ![c] = "gone"]
    /\ UNCHANGED <<srv, active, handler, relayVars, browser, held>>

-----------------------------------------------------------------------------
(* main after an interrupt. *)

Interrupt ==
    /\ srv = "serving"
    /\ srv' = "closing"
    /\ held' = Counted
    /\ UNCHANGED <<active, handler, relayVars, peerVars>>

(* srv.Shutdown returns: it has waited for the requests that are not hijacked. *)
ShutdownReturns ==
    /\ srv = "closing"
    /\ srv' = "draining"
    /\ UNCHANGED <<active, handler, relayVars, peerVars, held>>

(* Mutant: the loop leaves at the last handler. *)
LoadLast ==
    /\ srv = "draining"
    /\ active <= 1
    /\ srv' = "leaving"
    /\ UNCHANGED <<active, handler, relayVars, peerVars, held>>

(* The polling loop reads activeWebsocks <= 0 and breaks. *)
LoadZero ==
    /\ srv = "draining"
    /\ active <= 0
    /\ srv' = "leaving"
    /\ UNCHANGED <<active, handler, relayVars, peerVars, held>>

Exit ==
    /\ srv = "leaving"
    /\ srv' = "exited"
    /\ UNCHANGED <<active, handler, relayVars, peerVars, held>>

-----------------------------------------------------------------------------
RelayNext ==
    \/ \E c \in Handlers :
          \/ Hijack(c) \/ Enter(c) \/ Refuse(c)
          \/ Dial(c) \/ DialFail(c) \/ DialOk(c)
          \/ UpRead(c) \/ UpWrite(c) \/ UpEnds(c)
          \/ DownRead(c) \/ DownWrite(c) \/ DownEnds(c)
          \/ Finish(c) \/ PingFails(c) \/ PingEnds(c)
          \/ BrowserLeaves(c) \/ TargetLeaves(c)
    \/ Interrupt \/ ShutdownReturns \/ LoadZero \/ Exit

RelaySpec == RelayInit /\ [][RelayNext]_wsVars

(* The handler's goroutines are scheduled and its dial has a timeout.  The
   browser's stack takes what the proxy sends.  Nothing is assumed of the
   peers otherwise: the target may never take a chunk (UpWrite). *)
FairRelaySpec ==
    /\ RelaySpec
    /\ \A c \in Handlers :
          /\ WF_wsVars(Enter(c))
          /\ WF_wsVars(Refuse(c) \/ Dial(c))
          /\ WF_wsVars(DialFail(c) \/ DialOk(c))
          /\ WF_wsVars(UpEnds(c)) /\ WF_wsVars(DownEnds(c)) /\ WF_wsVars(DownWrite(c))
          /\ WF_wsVars(Finish(c))
          /\ WF_wsVars(PingFails(c)) /\ WF_wsVars(PingEnds(c))

-----------------------------------------------------------------------------
(* Properties *)

(* main leaves its loop only when every handler that was counted at the
   interrupt has returned: the shutdown cuts no relay that was established,
   whatever handlers enter while it polls. *)
DrainedBeforeExit ==
    srv \in {"leaving", "exited"} => \A c \in held : handler[c] = "ended"

(* A handler that returned has left nothing behind: both sockets are closed
   and both copiers have finished, whichever side ended first. *)
NothingLeaks ==
    \A c \in Handlers : handler[c] = "ended" =>
        /\ ws[c] = "closed" /\ conn[c] # "open"
        /\ {up[c], down[c]} \subseteq {"off", "done"}

(* Once a side of a relay is gone the handler returns and its ping goroutine
   with it, or it is stuck for good in a write to a target that is still
   there and reads no more; there is no other way to hang. *)
RelayEnds ==
    \A c \in Handlers :
        []((browser[c] # "here" \/ dest[c] # "here") =>
              <>(\/ srv = "exited"
                 \/ handler[c] = "ended" /\ ~ping[c]
                 \/ [](up[c] = "write" /\ dest[c] # "gone")))
=============================================================================
