------------------------------ MODULE Connect ------------------------------
(***************************************************************************)
(* Opening an SSH session: the connect form and the host-key prompt of     *)
(* web/html/index.html, and initConnection, acceptFP and showFingerprint   *)
(* of web/main.go.                                                         *)
(*                                                                         *)
(* An attempt is one goroutine started by initConnection.  Every attempt   *)
(* has its own transport and makes its own accept channel, but reaches     *)
(* them through the globals sshCon and fpAccepted, so attempts are named   *)
(* where the code has a connection or a channel.  Callbacks from the page  *)
(* run on the browser's event loop: one that blocks on a channel stops the *)
(* page and the network with it.                                           *)
(***************************************************************************)
EXTENDS Integers, FiniteSets

CONSTANTS Attempts,   \* calls of initConnection
          None,       \* no attempt (nil), no key
          Hosts,      \* what the user types as host
          Keys,       \* host keys, by fingerprint
          Creds,      \* the credentials typed: subset of AllCreds
          MaxOverlap  \* bound: attempts made in a page once two have overlapped

AllCreds == {"good", "none", "badkey"}

ASSUME CredsAssumption == Creds \subseteq AllCreds
ASSUME MaxOverlapAssumption == MaxOverlap \in Nat
ASSUME NoneAssumption == None \notin Attempts /\ None \notin Keys
ASSUME HostsAssumption == Hosts # {}
ASSUME OffAssumption == "off" \notin Attempts \cup {None}

VARIABLES
    pc,          \* where each attempt is
    host, cred,  \* its arguments
    key,         \* the host key its server presented
    waitCh,      \* the channel it waits on in showFingerprint
    conn,        \* its transport: "none", "open" or "closed"
    streams,     \* the transport its forwardOutStreams was given, or "off"
    sshCon, fpAccepted, sshClient,       \* globals of web/main.go
    conBtn,      \* whether Connect can be clicked
    modal,       \* whether the host-key dialog is open
    shown,       \* the attempt whose host and key the dialog displays
    pending,     \* __pendingHost and __pendingKey, as an attempt
    timers,      \* setTimeout callbacks that will accept
    rt,          \* the Go runtime: "ok", "blocked" in a callback, "panicked"
    live,        \* window.__sshConnected
    knownHosts, alwaysAccept,            \* localStorage
    consent,     \* history: the attempts whose key was trusted or accepted
    overlapped   \* history: an attempt was started while another was under way

attemptVars == <<pc, host, cred, key, waitCh, conn, streams>>
globalVars  == <<sshCon, fpAccepted, sshClient>>
uiVars      == <<conBtn, modal, shown, pending, timers, rt, live>>
storeVars   == <<knownHosts, alwaysAccept>>
histVars    == <<consent, overlapped>>
vars == <<attemptVars, globalVars, uiVars, storeVars, histVars>>

PCs == {"idle", "con", "kex", "wait", "rejected", "auth", "setup",
        "pty", "shell", "connected", "ended", "failed"}

(* One type invariant: the ranges of the program's variables. *)
TypeOK ==
    /\ pc \in [Attempts -> PCs]
    /\ host \in [Attempts -> Hosts]
    /\ cred \in [Attempts -> AllCreds]
    /\ key \in [Attempts -> Keys \cup {None}]
    /\ waitCh \in [Attempts -> Attempts \cup {None}]
    /\ conn \in [Attempts -> {"none", "open", "closed"}]
    /\ {sshCon, fpAccepted, sshClient, shown, pending} \subseteq Attempts \cup {None}
    /\ streams \in [Attempts -> Attempts \cup {None, "off"}]
    /\ {conBtn, modal, live, alwaysAccept} \subseteq BOOLEAN
    /\ rt \in {"ok", "blocked", "panicked"}
    /\ timers \in Nat
    /\ knownHosts \in [Hosts -> Keys \cup {None}]
    /\ consent \subseteq Attempts
    /\ overlapped \in BOOLEAN

(* Arguments of the attempts that have not been made. *)
AnyHost == CHOOSE h \in Hosts : TRUE
AnyCred == CHOOSE cr \in AllCreds : TRUE

Init ==
    /\ pc = [a \in Attempts |-> "idle"]
    /\ host = [a \in Attempts |-> AnyHost]
    /\ cred = [a \in Attempts |-> AnyCred]
    /\ key = [a \in Attempts |-> None]
    /\ waitCh = [a \in Attempts |-> None]
    /\ conn = [a \in Attempts |-> "none"]
    /\ streams = [a \in Attempts |-> "off"]
    /\ sshCon = None /\ fpAccepted = None /\ sshClient = None
    /\ conBtn = TRUE /\ modal = FALSE /\ shown = None /\ pending = None
    /\ timers = 0 /\ rt = "ok" /\ live = FALSE
    /\ consent = {} /\ overlapped = FALSE
    /\ knownHosts = [h \in Hosts |-> None]
    /\ alwaysAccept = FALSE

(* The user reloads the page: only localStorage survives. *)
Reload ==
    /\ \E a \in Attempts : pc[a] # "idle"
    /\ pc' = [a \in Attempts |-> "idle"]
    /\ host' = [a \in Attempts |-> AnyHost]
    /\ cred' = [a \in Attempts |-> AnyCred]
    /\ key' = [a \in Attempts |-> None]
    /\ waitCh' = [a \in Attempts |-> None]
    /\ conn' = [a \in Attempts |-> "none"]
    /\ streams' = [a \in Attempts |-> "off"]
    /\ sshCon' = None /\ fpAccepted' = None /\ sshClient' = None
    /\ conBtn' = TRUE /\ modal' = FALSE /\ shown' = None /\ pending' = None
    /\ timers' = 0 /\ rt' = "ok" /\ live' = FALSE
    /\ consent' = {} /\ overlapped' = FALSE
    /\ UNCHANGED storeVars

(* Goroutines, and the network they wait for, need the runtime and the event
   loop; the page's own handlers run unless a callback into Go blocks. *)
GoRuns == rt = "ok"
PageRuns == rt # "blocked"

-----------------------------------------------------------------------------
(* The connect form. *)

(* Nothing of an attempt is under way. *)
Settled(a) == pc[a] \in {"idle", "ended", "failed"} /\ streams[a] = "off"

(* connectNow: the button is disabled and initConnection starts a goroutine. *)
ConnectNow(a, h, cr) ==
    /\ GoRuns /\ conBtn /\ ~modal
    /\ pc[a] = "idle"
    /\ overlapped' = (overlapped \/ \E b \in Attempts : ~Settled(b))
    /\ overlapped' => Cardinality({b \in Attempts : pc[b] # "idle"}) < MaxOverlap
    /\ pc' = [pc EXCEPT ![a] = "con"]
    /\ host' = [host EXCEPT ![a] = h]
    /\ cred' = [cred EXCEPT ![a] = cr]
    /\ conBtn' = FALSE
    /\ UNCHANGED <<key, waitCh, conn, streams, globalVars, modal, shown, pending,
                   timers, rt, live, storeVars, consent>>

(* A keyup in the form enables the button again, attempt or no attempt. *)
EditForm ==
    /\ PageRuns /\ ~conBtn /\ ~modal
    /\ \A a \in Attempts : pc[a] # "connected"
    /\ conBtn' = TRUE
    /\ UNCHANGED <<attemptVars, globalVars, modal, shown, pending, timers,
                   rt, live, storeVars, histVars>>

-----------------------------------------------------------------------------
(* The goroutine of an attempt, up to the host key. *)

(* con() returned a transport.  A key that does not parse ends the attempt,
   and missing credentials are reported, which enables the button, but the
   attempt goes on. *)
ConOk(a) ==
    /\ pc[a] = "con" /\ GoRuns
    /\ conn' = [conn EXCEPT ![a] = "open"]
    /\ sshCon' = a
    /\ fpAccepted' = a
    /\ conBtn' = (conBtn \/ cred[a] # "good")
    /\ pc' = [pc EXCEPT ![a] = IF cred[a] = "badkey" THEN "failed" ELSE "kex"]
    /\ UNCHANGED <<host, cred, key, waitCh, streams, sshClient, modal, shown,
                   pending, timers, rt, live, storeVars, histVars>>

(* con() failed: sshCon is nil now, and showErr enables the button. *)
ConFail(a) ==
    /\ pc[a] = "con" /\ GoRuns
    /\ sshCon' = None
    /\ conBtn' = TRUE
    /\ pc' = [pc EXCEPT ![a] = "failed"]
    /\ UNCHANGED <<host, cred, key, waitCh, conn, streams, fpAccepted, sshClient,
                   modal, shown, pending, timers, rt, live, storeVars, histVars>>

Changed(a, k) == knownHosts[host[a]] \notin {None, k}

(* Mutant: "Always accept" also replaces a key that changed. *)
AutoTrustedAny(a, k) == alwaysAccept \/ knownHosts[host[a]] = k

(* showServerKey accepts by itself: a known key, or a new host when "Always
   accept" is set. *)
AutoTrusted(a, k) ==
    knownHosts[host[a]] = k \/ (alwaysAccept /\ ~Changed(a, k))

Waiting == {a \in Attempts : pc[a] = "wait" /\ waitCh[a] = fpAccepted}

(* Mutant: the answer is not looked at. *)
AcceptFPAlways(v) ==
    IF rt # "ok" THEN UNCHANGED <<pc, waitCh, rt>>
    ELSE IF Waiting = {} THEN rt' = "blocked" /\ UNCHANGED <<pc, waitCh>>
    ELSE /\ UNCHANGED rt
         /\ \E a \in Waiting :
              /\ pc' = [pc EXCEPT ![a] = "auth"]
              /\ waitCh' = [waitCh EXCEPT ![a] = None]

(* acceptFP sends on fpAccepted.  It returns once an attempt that waits on
   that channel receives; with none, it blocks the event loop.  A call into
   a runtime that panicked throws. *)
AcceptFP(v) ==
    IF rt # "ok" THEN UNCHANGED <<pc, waitCh, rt>>
    ELSE IF Waiting = {} THEN rt' = "blocked" /\ UNCHANGED <<pc, waitCh>>
    ELSE /\ UNCHANGED rt
         /\ \E a \in Waiting :
              /\ pc' = [pc EXCEPT ![a] = IF v THEN "auth" ELSE "rejected"]
              /\ waitCh' = [waitCh EXCEPT ![a] = None]

(* Mutant: showServerKey accepts inline, before the goroutine waits. *)
HostKeyInline(a, k) ==
    /\ pc[a] = "kex" /\ conn[a] = "open" /\ GoRuns
    /\ key' = [key EXCEPT ![a] = k]
    /\ pending' = a
    /\ IF AutoTrusted(a, k)
       THEN /\ AcceptFP(TRUE)
            /\ UNCHANGED <<timers, modal, shown>>
       ELSE /\ modal' = TRUE
            /\ shown' = a
            /\ pc' = [pc EXCEPT ![a] = "wait"]
            /\ waitCh' = [waitCh EXCEPT ![a] = fpAccepted]
            /\ UNCHANGED <<timers, rt>>
    /\ UNCHANGED <<host, cred, conn, streams, globalVars, conBtn, live,
                   storeVars, histVars>>

(* showFingerprint: showServerKey runs to its end on the page and either
   defers an acceptance or opens the dialog, and then the goroutine waits on
   the channel fpAccepted is at that moment. *)
HostKey(a, k) ==
    /\ pc[a] = "kex" /\ conn[a] = "open" /\ GoRuns
    /\ key' = [key EXCEPT ![a] = k]
    /\ pending' = a
    /\ waitCh' = [waitCh EXCEPT ![a] = fpAccepted]
    /\ pc' = [pc EXCEPT ![a] = "wait"]
    /\ IF AutoTrusted(a, k)
       THEN /\ timers' = timers + 1
            /\ knownHosts' = [knownHosts EXCEPT ![host[a]] = k]
            /\ consent' = consent \cup {a}
            /\ UNCHANGED <<modal, shown>>
       ELSE /\ modal' = TRUE
            /\ shown' = a
            /\ UNCHANGED <<timers, knownHosts, consent>>
    /\ UNCHANGED <<host, cred, conn, streams, globalVars, conBtn, rt, live,
                   alwaysAccept, overlapped>>

-----------------------------------------------------------------------------
(* Answering for the host key. *)

(* The deferred acceptance of a trusted key. *)
TimerFires ==
    /\ timers > 0 /\ PageRuns
    /\ timers' = timers - 1
    /\ AcceptFP(TRUE)
    /\ UNCHANGED <<host, cred, key, conn, streams, globalVars, conBtn, modal,
                   shown, pending, live, storeVars, histVars>>

(* "No", or the cross: the dialog closes and the key is refused. *)
AnswerNo ==
    /\ modal /\ PageRuns
    /\ modal' = FALSE
    /\ AcceptFP(FALSE)
    /\ UNCHANGED <<host, cred, key, conn, streams, globalVars, conBtn, shown,
                   pending, timers, live, storeVars, histVars>>

(* rememberHost of fpRemember and fpAlways. *)
Remember == knownHosts' = [knownHosts EXCEPT ![host[pending]] = key[pending]]

(* "Connect once", "Remember this host", and "Always accept", which is hidden
   when the key has changed. *)
AnswerYes(button) ==
    /\ modal /\ PageRuns
    /\ modal' = FALSE
    /\ consent' = consent \cup {shown}
    /\ \/ button = "once" /\ UNCHANGED storeVars
       \/ button = "remember" /\ Remember /\ UNCHANGED alwaysAccept
       \/ button = "always" /\ ~Changed(shown, key[shown])
          /\ Remember /\ alwaysAccept' = TRUE
    /\ AcceptFP(TRUE)
    /\ UNCHANGED <<host, cred, key, conn, streams, globalVars, conBtn, shown,
                   pending, timers, live, overlapped>>

(* Escape or a click beside the dialog hides it, and answers nothing. *)
Dismiss ==
    /\ modal /\ PageRuns
    /\ modal' = FALSE
    /\ UNCHANGED <<attemptVars, globalVars, conBtn, shown, pending, timers,
                   rt, live, storeVars, histVars>>

-----------------------------------------------------------------------------
(* The rest of the goroutine. *)

(* Close on a net.Conn variable; nil panics. *)
CloseConn(c) ==
    IF c = None THEN rt' = "panicked" /\ UNCHANGED conn
    ELSE conn' = [conn EXCEPT ![c] = "closed"] /\ UNCHANGED rt

(* showErr and sshCon.Close(), on the global, whoever's transport it is; it is
   nil after another attempt failed to connect. *)
FailAndClose(a) ==
    /\ pc' = [pc EXCEPT ![a] = "failed"]
    /\ conBtn' = TRUE
    /\ CloseConn(sshCon)
    /\ UNCHANGED <<host, cred, key, waitCh, streams, globalVars, modal, shown,
                   pending, timers, live, storeVars, histVars>>

(* Mutant: the attempt does not close its transport. *)
HandshakeFailOpen(a) ==
    /\ pc[a] \in {"kex", "rejected", "auth"} /\ GoRuns
    /\ pc' = [pc EXCEPT ![a] = "failed"]
    /\ conBtn' = TRUE
    /\ UNCHANGED <<host, cred, key, waitCh, conn, streams, globalVars, modal,
                   shown, pending, timers, rt, live, storeVars, histVars>>

(* ssh.NewClientConn fails: key exchange, host key or authentication. *)
HandshakeFail(a) ==
    /\ pc[a] \in {"kex", "rejected", "auth"} /\ GoRuns
    /\ FailAndClose(a)

(* ssh.NewClientConn succeeds and the client becomes the global one. *)
AuthOk(a) ==
    /\ pc[a] = "auth" /\ conn[a] = "open" /\ GoRuns
    /\ pc' = [pc EXCEPT ![a] = "setup"]
    /\ sshClient' = a
    /\ UNCHANGED <<host, cred, key, waitCh, conn, streams, sshCon, fpAccepted,
                   uiVars, storeVars, histVars>>

(* The session and its pipes exist: forwardOutStreams starts, and is given
   the global transport. *)
SessionOk(a) ==
    /\ pc[a] = "setup" /\ conn[a] = "open" /\ GoRuns
    /\ pc' = [pc EXCEPT ![a] = "pty"]
    /\ streams' = [streams EXCEPT ![a] = sshCon]
    /\ UNCHANGED <<host, cred, key, waitCh, conn, globalVars, uiVars, storeVars,
                   histVars>>

(* The session, one of its pipes, the terminal or the shell is refused. *)
SetupFail(a) ==
    /\ pc[a] \in {"setup", "pty"} /\ GoRuns
    /\ FailAndClose(a)

(* The shell runs; initSftp and getwd follow, and may fail without harm. *)
ShellOk(a) ==
    /\ pc[a] = "pty" /\ conn[a] = "open" /\ GoRuns
    /\ pc' = [pc EXCEPT ![a] = "shell"]
    /\ UNCHANGED <<host, cred, key, waitCh, conn, streams, globalVars, uiVars,
                   storeVars, histVars>>

(* connected() hides the form and marks the session as live. *)
Connected(a) ==
    /\ pc[a] = "shell" /\ GoRuns
    /\ pc' = [pc EXCEPT ![a] = "connected"]
    /\ conBtn' = FALSE
    /\ live' = TRUE
    /\ UNCHANGED <<host, cred, key, waitCh, conn, streams, globalVars, modal,
                   shown, pending, timers, rt, storeVars, histVars>>

(* Mutant: the page is not told that the session ended. *)
SessionEndsQuietly(a) ==
    /\ streams[a] # "off" /\ pc[a] # "pty" /\ GoRuns
    /\ streams' = [streams EXCEPT ![a] = "off"]
    /\ pc' = [pc EXCEPT ![a] = IF @ = "connected" THEN "ended" ELSE @]
    /\ conBtn' = TRUE
    /\ CloseConn(streams[a])
    /\ UNCHANGED <<host, cred, key, waitCh, globalVars, modal, shown, pending,
                   timers, live, storeVars, histVars>>

(* The readers of forwardOutStreams get an error, in one turn of the event
   loop: they close the transport they were given, and showReconnect marks
   the session as dead and offers the form again.  What ends them before the
   shell runs fails the request under way first. *)
SessionEnds(a) ==
    /\ streams[a] # "off" /\ pc[a] # "pty" /\ GoRuns
    /\ streams' = [streams EXCEPT ![a] = "off"]
    /\ pc' = [pc EXCEPT ![a] = IF @ = "connected" THEN "ended" ELSE @]
    /\ live' = FALSE
    /\ conBtn' = TRUE
    /\ CloseConn(streams[a])
    /\ UNCHANGED <<host, cred, key, waitCh, globalVars, modal, shown, pending,
                   timers, storeVars, histVars>>

-----------------------------------------------------------------------------
Next ==
    \/ \E a \in Attempts, h \in Hosts, cr \in Creds : ConnectNow(a, h, cr)
    \/ EditForm
    \/ \E a \in Attempts : ConOk(a) \/ ConFail(a)
    \/ \E a \in Attempts, k \in Keys : HostKey(a, k)
    \/ TimerFires
    \/ AnswerNo \/ Dismiss
    \/ \E button \in {"once", "remember", "always"} : AnswerYes(button)
    \/ \E a \in Attempts : HandshakeFail(a) \/ AuthOk(a)
    \/ \E a \in Attempts : SessionOk(a) \/ SetupFail(a) \/ ShellOk(a)
    \/ \E a \in Attempts : Connected(a) \/ SessionEnds(a)
    \/ Reload

Spec == Init /\ [][Next]_vars

-----------------------------------------------------------------------------
(* Properties *)

(* The key stored for a host is replaced by another only while the dialog
   displays that host with that key, whatever attempts overlap: a changed key
   is never trusted behind the user's back (showServerKey, fpRemember). *)
TrustChangeIsShown ==
    [][\A h \in Hosts :
          knownHosts[h] \notin {None, knownHosts'[h]} =>
              modal /\ host[shown] = h /\ key[shown] = knownHosts'[h]]_vars

(* As long as attempts do not overlap, one gets past the host-key check only
   if its own key was already trusted or was accepted in the dialog. *)
ConsentGiven ==
    overlapped \/ \A a \in Attempts :
        pc[a] \in {"auth", "setup", "pty", "shell", "connected"} => a \in consent

(* "replying inline would deadlock. setTimeout lets this call unwind first"
   (comment of showServerKey): accepting a key never blocks the event loop. *)
LoopNeverBlocked == rt # "blocked"

(* Only a second attempt started over a first can make an answer block: a
   dismissed dialog, a late timer or what earlier attempts left in the
   globals cannot (acceptFP, showServerKey). *)
BlocksOnlyIfOverlapped == overlapped \/ LoopNeverBlocked

(* As long as attempts do not overlap, the only open transport is the one
   sshCon names, so an error path that closes sshCon closes the transport of
   the attempt that failed, and never nil.  The exception is an attempt whose
   private key does not parse: its transport is never closed. *)
OpenConnIsGlobal ==
    \/ overlapped
    \/ /\ \A a \in Attempts :
             conn[a] = "open" => sshCon = a \/ cred[a] = "badkey"
       /\ rt # "panicked"

(* "session is dead until reconnected" (comment of showReconnect): as long as
   attempts do not overlap, the page treats a session as live only while its
   transport is open, unless the shell had ended before connected() was
   called. *)
LiveIsOpen ==
    ~overlapped /\ live =>
        \E a \in Attempts :
            pc[a] = "connected" /\ (conn[a] = "open" \/ streams[a] = "off")
=============================================================================
