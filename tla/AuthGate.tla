----------------------------- MODULE AuthGate -----------------------------
(***************************************************************************)
(* The login gate of the proxy (proxy/auth.go): initAuth, the TOTP login   *)
(* handler with its per-address lockout, the signed session cookies and    *)
(* the middleware that checks them.                                        *)
(*                                                                         *)
(* Time is a discrete clock.  A client is a browser with one cookie and at *)
(* most one login request in flight.  A TOTP code is named by the counter  *)
(* it was computed for; a wrong code is one of a counter out of the window.*)
(***************************************************************************)
EXTENDS Integers, FiniteSets

CONSTANTS Clients,     \* browsers
          IPs,         \* what clientIP can return
          Secrets,     \* values of SESSION_SECRET of at least 16 characters
          NoSecret,    \* signKey while the gate is disabled
          MaxFails,    \* maxLoginFails
          Lockout,     \* loginLockout
          TTL,         \* sessionTTL
          Period,      \* the TOTP step, 30 seconds in the code
          Sleep,       \* the throttle before a code is verified
          MaxNow       \* bound: the last instant of the clock

ASSUME ClientsAssumption == IsFiniteSet(Clients)
ASSUME SecretAssumption == NoSecret \notin Secrets
ASSUME TimeAssumption ==
    /\ MaxFails \in Nat \ {0}
    /\ Lockout \in Nat \ {0}
    /\ Period \in Nat \ {0}
    /\ Sleep \in Nat
    /\ MaxNow \in Nat
    /\ TTL \in Int

VARIABLES
    now,         \* time.Now()
    proc,        \* the process: "down", "exited" (log.Fatal) or "serving"
    gateEnabled, \* whether authMiddleware checks anything
    signKey,     \* the HMAC key of the cookies
    loginByIP,   \* the failure record of each address
    req,         \* each client's POST /auth/login
    cookie,      \* each client's session cookie
    login,       \* history: each client's last verified login
    wrong        \* history: wrong codes per address, up to each instant, since
                 \* its last success or the last start of the process

procVars == <<proc, gateEnabled, signKey>>
histVars == <<login, wrong>>
vars == <<now, procVars, loginByIP, req, cookie, histVars>>

Instants == 0 .. MaxNow
Codes == 0 .. (MaxNow \div Period) + 2

(* A record is created by the first failure, so fails = 0 means no record;
   lockedUntil = 0 is the zero time. *)
NoRecord == [fails |-> 0, lockedUntil |-> 0, last |-> 0]
NoToken == [key |-> NoSecret, exp |-> 0]
NoLogin == [key |-> NoSecret, at |-> -1]
Idle == [pc |-> "idle"]

(* One type invariant: the ranges of the program's variables. *)
TypeOK ==
    /\ now \in Instants
    /\ proc \in {"down", "exited", "serving"}
    /\ gateEnabled \in BOOLEAN
    /\ signKey \in Secrets \cup {NoSecret}
    /\ loginByIP \in [IPs -> [fails: Nat, lockedUntil: Nat, last: Instants]]
    /\ req \in [Clients -> {Idle}
                  \cup [pc: {"sleep"}, ip: IPs, code: Codes, wake: Nat]
                  \cup [pc: {"record"}, ip: IPs, ok: BOOLEAN]]
    /\ cookie \in [Clients -> [key: Secrets \cup {NoSecret}, exp: Int]]
    /\ login \in [Clients -> [key: Secrets \cup {NoSecret}, at: Int]]
    /\ wrong \in [IPs -> [Instants -> Nat]]

Init ==
    /\ now = 0
    /\ proc = "down"
    /\ gateEnabled = FALSE
    /\ signKey = NoSecret
    /\ loginByIP = [ip \in IPs |-> NoRecord]
    /\ req = [c \in Clients |-> Idle]
    /\ cookie = [c \in Clients |-> NoToken]
    /\ login = [c \in Clients |-> NoLogin]
    /\ wrong = [ip \in IPs |-> [t \in Instants |-> 0]]

-----------------------------------------------------------------------------
(* Starting and stopping. *)

(* The environment variables initAuth reads. *)
Envs == [seed: {"unset", "invalid", "valid"},
         secret: Secrets \cup {"unset", "short"},
         authDisabled: BOOLEAN,
         ttl: {"valid", "invalid"}]

Unset(env) == env.seed = "unset" \/ env.secret = "unset"

Fatal(env) ==
    IF Unset(env) THEN ~env.authDisabled
    ELSE env.seed = "invalid" \/ env.secret = "short" \/ env.ttl = "invalid"

(* main calls initAuth; memory starts empty. *)
Start(env) ==
    /\ proc # "serving"
    /\ proc' = IF Fatal(env) THEN "exited" ELSE "serving"
    /\ gateEnabled' = (~Fatal(env) /\ ~Unset(env))
    /\ signKey' = IF gateEnabled' THEN env.secret ELSE NoSecret
    /\ loginByIP' = [ip \in IPs |-> NoRecord]
    /\ wrong' = [ip \in IPs |-> [t \in Instants |-> 0]]
    /\ UNCHANGED <<now, req, cookie, login>>

(* The process stops; the requests it was handling are lost. *)
Stop ==
    /\ proc = "serving"
    /\ proc' = "down"
    /\ req' = [c \in Clients |-> Idle]
    /\ UNCHANGED <<now, gateEnabled, signKey, loginByIP, cookie, histVars>>

Tick ==
    /\ now < MaxNow
    /\ now' = now + 1
    /\ UNCHANGED <<procVars, loginByIP, req, cookie, histVars>>

-----------------------------------------------------------------------------
(* POST /auth/login, from handleLogin: loginLocked, sleep, verify, record. *)

(* Mutant: the sweep takes every entry that is not locked. *)
ExpiredOr(a) == now - a.last > Lockout \/ now > a.lockedUntil

(* The entries loginLocked sweeps away. *)
Expired(a) == now - a.last > Lockout /\ now > a.lockedUntil

Swept == [ip \in IPs |-> IF Expired(loginByIP[ip]) THEN NoRecord
                                                   ELSE loginByIP[ip]]

Locked(a) == now < a.lockedUntil

(* loginLocked is true: 429, and nothing is verified. *)
PostRefused(c, ip) ==
    /\ proc = "serving"
    /\ req[c] = Idle
    /\ Locked(Swept[ip])
    /\ loginByIP' = Swept
    /\ UNCHANGED <<now, procVars, req, cookie, histVars>>

(* loginLocked is false: the handler sleeps, without the mutex. *)
PostAdmitted(c, ip, code) ==
    /\ proc = "serving"
    /\ req[c] = Idle
    /\ ~Locked(Swept[ip])
    /\ loginByIP' = Swept
    /\ req' = [req EXCEPT ![c] =
                 [pc |-> "sleep", ip |-> ip, code |-> code, wake |-> now + Sleep]]
    /\ UNCHANGED <<now, procVars, cookie, histVars>>

(* The current step and the ones next to it. *)
VerifyTOTP(code) == now \div Period - code \in -1 .. 1

(* After the sleep, with the time of this instant. *)
Verify(c) ==
    /\ req[c].pc = "sleep"
    /\ now >= req[c].wake
    /\ req' = [req EXCEPT ![c] = [pc |-> "record", ip |-> req[c].ip,
                                  ok |-> VerifyTOTP(req[c].code)]]
    /\ UNCHANGED <<now, procVars, loginByIP, cookie, histVars>>

(* Mutant: the lockout starts at the maxLoginFails-th failure only. *)
FailedExactly(a) ==
    [fails |-> a.fails + 1,
     last |-> now,
     lockedUntil |-> IF a.fails + 1 = MaxFails THEN now + Lockout
                                               ELSE a.lockedUntil]

(* Mutant: the deadline is stored as the time of the last failure too. *)
FailedAhead(a) ==
    [fails |-> a.fails + 1, last |-> now + Lockout,
     lockedUntil |-> IF a.fails + 1 >= MaxFails THEN now + Lockout
                                                ELSE a.lockedUntil]

(* Mutant: a failure after the lockout was set starts a new record. *)
FailedAfresh(a) ==
    LET fails == IF a.fails >= MaxFails THEN 1 ELSE a.fails + 1 IN
    [fails |-> fails, last |-> now,
     lockedUntil |-> IF fails >= MaxFails THEN now + Lockout ELSE 0]

(* recordLogin(ip, false) of a record. *)
Failed(a) ==
    [fails |-> a.fails + 1,
     last |-> now,
     lockedUntil |-> IF a.fails + 1 >= MaxFails THEN now + Lockout
                                                ELSE a.lockedUntil]

(* A wrong code: recordLogin counts it, and the answer is 401. *)
RecordFailure(c) ==
    /\ req[c].pc = "record"
    /\ ~req[c].ok
    /\ loginByIP' = [loginByIP EXCEPT ![req[c].ip] = Failed(@)]
    /\ wrong' = [wrong EXCEPT ![req[c].ip] =
                    [t \in Instants |-> IF t < now THEN @[t] ELSE @[t] + 1]]
    /\ req' = [req EXCEPT ![c] = Idle]
    /\ UNCHANGED <<now, procVars, cookie, login>>

(* newSession: the payload is the expiry, signed with signKey. *)
NewSession == [key |-> signKey, exp |-> now + TTL]

(* A correct code: recordLogin clears the address, and a cookie is set. *)
RecordSuccess(c) ==
    /\ req[c].pc = "record"
    /\ req[c].ok
    /\ loginByIP' = [loginByIP EXCEPT ![req[c].ip] = NoRecord]
    /\ cookie' = [cookie EXCEPT ![c] = NewSession]
    /\ login' = [login EXCEPT ![c] = [key |-> signKey, at |-> now]]
    /\ wrong' = [wrong EXCEPT ![req[c].ip] = [t \in Instants |-> 0]]
    /\ req' = [req EXCEPT ![c] = Idle]
    /\ UNCHANGED <<now, procVars>>

(* handleLogout clears the cookie of the browser that asks. *)
Logout(c) ==
    /\ proc = "serving"
    /\ cookie[c] # NoToken
    /\ cookie' = [cookie EXCEPT ![c] = NoToken]
    /\ UNCHANGED <<now, procVars, loginByIP, req, histVars>>

-----------------------------------------------------------------------------
(* Every other request: authMiddleware. *)

(* Mutant: a session is valid through its last second. *)
ValidSessionInclusive(token) == token.key = signKey /\ now <= token.exp

(* The signature is the one of signKey, and the expiry is in the future. *)
ValidSession(token) == token.key = signKey /\ now < token.exp

(* What a request of client c for a path that is neither under /auth/ nor a
   public asset gets: the handler, the redirect to the login page for a
   navigation, or a bare 401. *)
AuthMiddleware(c, navigation) ==
    IF ~gateEnabled \/ ValidSession(cookie[c]) THEN "next"
    ELSE IF navigation THEN "redirect" ELSE "401"

-----------------------------------------------------------------------------
Next ==
    \/ \E env \in Envs : Start(env)
    \/ Stop
    \/ Tick
    \/ \E c \in Clients, ip \in IPs : PostRefused(c, ip)
    \/ \E c \in Clients, ip \in IPs, code \in Codes : PostAdmitted(c, ip, code)
    \/ \E c \in Clients : Verify(c) \/ RecordFailure(c) \/ RecordSuccess(c)
    \/ \E c \in Clients : Logout(c)

Spec == Init /\ [][Next]_vars

-----------------------------------------------------------------------------
(* Properties *)

(* The counter and the deadline agree: an address has a deadline exactly when
   it has maxLoginFails failures, and the deadline is a full loginLockout
   after its last failure, late ones included (recordLogin). *)
LockRecord ==
    \A ip \in IPs :
        LET a == loginByIP[ip] IN
        /\ a.last <= now
        /\ a.fails >= MaxFails => a.lockedUntil = a.last + Lockout
        /\ a.fails < MaxFails => a.lockedUntil = 0

(* How many wrong codes of an address were verified in the loginLockout long
   interval that ends at instant t. *)
WrongUntil(ip, t) ==
    wrong[ip][t] - (IF t < Lockout THEN 0 ELSE wrong[ip][t - Lockout])

(* The lockout bounds guessing even though requests are admitted before and
   counted after the sleep: in any interval as long as the lockout, an address
   without a success gets at most maxLoginFails wrong codes verified, and one
   more for each other request that was already in flight. *)
GuessBudget ==
    \A ip \in IPs, t \in Instants :
        WrongUntil(ip, t) <= MaxFails + Cardinality(Clients) - 1

(* A lockout is never lifted early: only its deadline, a correct code of that
   address or a new process ends it; late failures only extend it. *)
LockNeverShortened ==
    [][\A ip \in IPs :
          \/ loginByIP'[ip].lockedUntil >= loginByIP[ip].lockedUntil
          \/ now > loginByIP[ip].lockedUntil
          \/ proc # "serving"
          \/ \E c \in Clients : RecordSuccess(c) /\ req[c].ip = ip]_vars

(* With the gate enabled, a request passes authMiddleware only if its browser
   entered a correct code less than SESSION_TTL ago, and the cookie of that
   login is signed with the secret now in force, across restarts. *)
SessionBacked ==
    \A c \in Clients :
        gateEnabled /\ AuthMiddleware(c, TRUE) = "next" =>
            /\ login[c].key = signKey
            /\ now < login[c].at + TTL
=============================================================================
