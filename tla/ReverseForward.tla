-------------------------- MODULE ReverseForward --------------------------
(***************************************************************************)
(* Reverse forwarding (web/reverse.go): reverseForward opens a port on the *)
(* SSH server, or re-enables one it opened before; stopReverseForward only *)
(* gates it; an accept loop per opened port forwards or drops what comes   *)
(* in.  SSH clients come and go, and a later one may take the place of one *)
(* that still works; the table revFwds lives as long as the page.          *)
(***************************************************************************)
EXTENDS Naturals, FiniteSets

CONSTANTS Calls,      \* calls of reverseForward
          None,       \* no call (nil)
          Ports,      \* keys of revFwds: bind address and remote port
          Targets,    \* target host and port
          MaxGen      \* bound: how many SSH clients one page creates

ASSUME NoneAssumption == None \notin Calls
ASSUME MaxGenAssumption == MaxGen \in Nat

VARIABLES
    gen,        \* how many SSH clients were created; the last is sshClient
    alive,      \* those whose transport still works
    pc,         \* each call: "idle", "start" (its goroutine), "listen" (in
                \* sshClient.Listen), "accept" (in its accept loop), "done"
    res,        \* what its callback was given: "none", "ok" or "error"
    port,       \* its port
    client,     \* the SSH client it called Listen on, 0 before
    target,     \* the target of the revFwd it created
    stopped,    \* the gate of the revFwd it created
    revFwds,    \* the table: the call that created the entry of a port
    gated,      \* history: the ports stopped since they were last added
    taken,      \* history: the calls whose entry was replaced, while they were
                \* listening, by one for a listener of another SSH client
    last        \* the last connection accepted, and what became of it

callVars == <<pc, res, port, client>>
fwdVars  == <<target, stopped, revFwds>>
histVars == <<gated, taken>>
vars == <<gen, alive, callVars, fwdVars, histVars, last>>

NoConn == [port |-> None, to |-> None]

(* One type invariant: the ranges of the program's variables. *)
TypeOK ==
    /\ gen \in 0 .. MaxGen
    /\ alive \subseteq 1 .. gen
    /\ pc \in [Calls -> {"idle", "start", "listen", "accept", "done"}]
    /\ res \in [Calls -> {"none", "ok", "error"}]
    /\ port \in [Calls -> Ports \cup {None}]
    /\ client \in [Calls -> 0 .. MaxGen]
    /\ target \in [Calls -> Targets \cup {None}]
    /\ stopped \in [Calls -> BOOLEAN]
    /\ revFwds \in [Ports -> Calls \cup {None}]
    /\ gated \subseteq Ports
    /\ taken \subseteq Calls
    /\ last \in [port: Ports \cup {None}, to: Targets \cup {None}]

Init ==
    /\ gen = 0
    /\ alive = {}
    /\ pc = [c \in Calls |-> "idle"]
    /\ res = [c \in Calls |-> "none"]
    /\ port = [c \in Calls |-> None]
    /\ client = [c \in Calls |-> 0]
    /\ target = [c \in Calls |-> None]
    /\ stopped = [c \in Calls |-> FALSE]
    /\ revFwds = [p \in Ports |-> None]
    /\ gated = {}
    /\ taken = {}
    /\ last = NoConn

(* The calls whose listener works: the server still holds their port. *)
Listening == {c \in Calls : pc[c] = "accept" /\ client[c] \in alive}

(* The listeners on the port of call c. *)
OnPort(c) == {d \in Listening : port[d] = port[c]}

-----------------------------------------------------------------------------
(* The SSH clients. *)

(* initConnection creates a client and assigns sshClient, whatever became of
   the one before; nothing clears revFwds. *)
Connected ==
    /\ gen < MaxGen
    /\ gen' = gen + 1
    /\ alive' = alive \cup {gen + 1}
    /\ UNCHANGED <<callVars, fwdVars, histVars, last>>

(* The transport of one ends, and its server releases the ports. *)
Disconnected(k) ==
    /\ k \in alive
    /\ alive' = alive \ {k}
    /\ UNCHANGED <<gen, callVars, fwdVars, histVars, last>>

-----------------------------------------------------------------------------
(* reverseForward. *)

(* No client was ever created: the callback gets an error. *)
AddNoClient(c, p) ==
    /\ pc[c] = "idle"
    /\ gen = 0
    /\ pc' = [pc EXCEPT ![c] = "done"]
    /\ port' = [port EXCEPT ![c] = p]
    /\ res' = [res EXCEPT ![c] = "error"]
    /\ UNCHANGED <<gen, alive, client, fwdVars, histVars, last>>

(* Mutant: the entry is given its target but stays gated. *)
AddKnownGated(c, p, t) ==
    /\ pc[c] = "idle"
    /\ gen > 0
    /\ revFwds[p] # None
    /\ target' = [target EXCEPT ![revFwds[p]] = t]
    /\ pc' = [pc EXCEPT ![c] = "done"]
    /\ port' = [port EXCEPT ![c] = p]
    /\ res' = [res EXCEPT ![c] = "ok"]
    /\ gated' = gated \ {p}
    /\ UNCHANGED <<gen, alive, client, stopped, revFwds, taken, last>>

(* The table has the port: the entry is given the target and enabled. *)
AddKnown(c, p, t) ==
    /\ pc[c] = "idle"
    /\ gen > 0
    /\ revFwds[p] # None
    /\ target' = [target EXCEPT ![revFwds[p]] = t]
    /\ stopped' = [stopped EXCEPT ![revFwds[p]] = FALSE]
    /\ pc' = [pc EXCEPT ![c] = "done"]
    /\ port' = [port EXCEPT ![c] = p]
    /\ res' = [res EXCEPT ![c] = "ok"]
    /\ gated' = gated \ {p}
    /\ UNCHANGED <<gen, alive, client, revFwds, taken, last>>

(* It has not: a goroutine is started, which will ask the server for it. *)
AddNew(c, p, t) ==
    /\ pc[c] = "idle"
    /\ gen > 0
    /\ revFwds[p] = None
    /\ pc' = [pc EXCEPT ![c] = "start"]
    /\ port' = [port EXCEPT ![c] = p]
    /\ target' = [target EXCEPT ![c] = t]
    /\ UNCHANGED <<gen, alive, res, client, stopped, revFwds, histVars, last>>

(* The goroutine calls Listen on what sshClient is now. *)
Listen(c) ==
    /\ pc[c] = "start"
    /\ pc' = [pc EXCEPT ![c] = "listen"]
    /\ client' = [client EXCEPT ![c] = gen]
    /\ UNCHANGED <<gen, alive, res, port, fwdVars, histVars, last>>

(* The server grants a port only once to a client.  A listener of another
   client is no obstacle when it is on another host. *)
Granted(c) ==
    /\ pc[c] = "listen"
    /\ client[c] \in alive
    /\ \A d \in OnPort(c) : client[d] # client[c]
    /\ pc' = [pc EXCEPT ![c] = "accept"]
    /\ res' = [res EXCEPT ![c] = "ok"]
    /\ gated' = gated \ {port[c]}

(* Mutant: an entry that is already in the table is kept. *)
ListenOkKeep(c) ==
    /\ Granted(c)
    /\ revFwds' = [revFwds EXCEPT ![port[c]] = IF @ = None THEN c ELSE @]
    /\ taken' = taken \cup OnPort(c)
    /\ UNCHANGED <<gen, alive, port, client, target, stopped, last>>

(* The entry enters the table, in place of any other, and the accept loop
   starts. *)
ListenOk(c) ==
    /\ Granted(c)
    /\ revFwds' = [revFwds EXCEPT ![port[c]] = c]
    /\ taken' = taken \cup OnPort(c)
    /\ UNCHANGED <<gen, alive, port, client, target, stopped, last>>

(* The server refuses, or the client is gone. *)
ListenFail(c) ==
    /\ pc[c] = "listen"
    /\ pc' = [pc EXCEPT ![c] = "done"]
    /\ res' = [res EXCEPT ![c] = "error"]
    /\ UNCHANGED <<gen, alive, port, client, fwdVars, histVars, last>>

-----------------------------------------------------------------------------

(* Mutant: a port that is not in the table is looked up all the same. *)
StopUnknown(p) ==
    /\ gated' = gated \cup {revFwds[p]}
    /\ UNCHANGED <<gen, alive, callVars, fwdVars, taken, last>>

(* stopReverseForward: the entry is gated, the listener stays. *)
Stop(p) ==
    /\ revFwds[p] # None
    /\ ~stopped[revFwds[p]]
    /\ stopped' = [stopped EXCEPT ![revFwds[p]] = TRUE]
    /\ gated' = gated \cup {p}
    /\ UNCHANGED <<gen, alive, callVars, target, revFwds, taken, last>>

(* The accept loop of c takes a connection, reads the gate and the target
   under the entry's mutex, and drops it or starts handleReverseConn. *)
Accept(c) ==
    /\ c \in Listening
    /\ last' = [port |-> port[c], to |-> IF stopped[c] THEN None ELSE target[c]]
    /\ UNCHANGED <<gen, alive, callVars, fwdVars, histVars>>

(* The listener of a dead client returns an error and the loop ends. *)
AcceptEnds(c) ==
    /\ pc[c] = "accept"
    /\ c \notin Listening
    /\ pc' = [pc EXCEPT ![c] = "done"]
    /\ UNCHANGED <<gen, alive, res, port, client, fwdVars, histVars, last>>

-----------------------------------------------------------------------------
(* Every call is done and no more client is created. *)
Quiet ==
    /\ alive = {} /\ gen = MaxGen
    /\ \A c \in Calls : pc[c] = "done"
    /\ UNCHANGED vars

Next ==
    \/ Connected
    \/ \E k \in 1 .. gen : Disconnected(k)
    \/ \E c \in Calls, p \in Ports : AddNoClient(c, p)
    \/ \E c \in Calls, p \in Ports, t \in Targets : AddKnown(c, p, t) \/ AddNew(c, p, t)
    \/ \E c \in Calls : \/ Listen(c) \/ ListenOk(c) \/ ListenFail(c)
                        \/ Accept(c) \/ AcceptEnds(c)
    \/ \E p \in Ports : Stop(p)
    \/ Quiet

Spec == Init /\ [][Next]_vars

-----------------------------------------------------------------------------
(* Properties *)

(* A port that is listened on is in the table under the listener's own entry,
   so that Stop can gate it and a re-add can retarget it: no accept loop runs
   out of the user's reach, across clients and racing adds.  The exception
   takes two clients that work at the same time (web/main.go:103 replaces the
   first without closing it) and two adds of one port, answered one by each:
   the later answer takes the entry, and the first loop is lost. *)
ListenerReachable ==
    \A c \in Listening :
        \/ revFwds[port[c]] = c
        \/ c \in taken /\ client[revFwds[port[c]]] # client[c]

(* A connection that comes in on a stopped port is dropped, and one on a port
   that is not stopped is forwarded to the target given last (Stop "just
   gates the forward (drops new connections)"), but for a loop that was lost
   to a listener of another client: it goes on as it was. *)
GateObeyed ==
    [][\A c \in Calls \ taken : Accept(c) =>
          IF port[c] \in gated THEN last'.to = None
                               ELSE last'.to = target[revFwds[port[c]]]]_vars

(* "opens remotePort on the SSH server ... cb is called once with {ok, key,
   info}" and "re-adding the same port re-enables it": with a working client,
   ok is reported only when the server is listening on the port. *)
OkMeansListening ==
    [][\A c \in Calls :
          res[c] # "ok" /\ res'[c] = "ok" /\ gen \in alive =>
              \E d \in Calls : d \in Listening' /\ port'[d] = port'[c]]_vars
=============================================================================
