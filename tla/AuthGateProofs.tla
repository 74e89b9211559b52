-------------------------- MODULE AuthGateProofs --------------------------
(***************************************************************************)
(* Theorems about AuthGate, for every number of clients and addresses and  *)
(* every value of the limits and durations.                                *)
(***************************************************************************)
EXTENDS AuthGate, FiniteSetTheorems, TLAPS

(* A client's cookie is none, or the one its last verified login set. *)
CookieFromLogin ==
    \A c \in Clients :
        \/ cookie[c] = NoToken
        \/ cookie[c].key = login[c].key /\ cookie[c].exp = login[c].at + TTL

(* The gate is only ever enabled with a secret from the environment. *)
GateHasKey == gateEnabled => signKey \in Secrets

(* The inductive invariant. *)
IInv == TypeOK /\ LockRecord /\ CookieFromLogin /\ GateHasKey

(* The initial state satisfies the invariant. *)
LEMMA InitIInv == Init => IInv
<1> SUFFICES ASSUME Init PROVE IInv
  OBVIOUS
<1> USE DEF Init, NoRecord, NoToken, NoLogin
<1>1. TypeOK
  <2>1. now \in Instants /\ 0 \in Instants
    BY TimeAssumption DEF Instants
  <2>2. loginByIP \in [IPs -> [fails: Nat, lockedUntil: Nat, last: Instants]]
    BY <2>1
  <2>3. cookie \in [Clients -> [key: Secrets \cup {NoSecret}, exp: Int]]
    OBVIOUS
  <2>4. login \in [Clients -> [key: Secrets \cup {NoSecret}, at: Int]]
    OBVIOUS
  <2> QED
    BY <2>1, <2>2, <2>3, <2>4 DEF TypeOK
<1>2. LockRecord
  BY TimeAssumption DEF LockRecord
<1>3. CookieFromLogin /\ GateHasKey
  BY DEF CookieFromLogin, GateHasKey
<1> QED
  BY <1>1, <1>2, <1>3 DEF IInv

(* What the operations do to one failure record. *)
LEMMA FailedRecord ==
    ASSUME now \in Instants,
           NEW a \in [fails: Nat, lockedUntil: Nat, last: Instants],
           a.fails < MaxFails => a.lockedUntil = 0
    PROVE  /\ Failed(a) \in [fails: Nat, lockedUntil: Nat, last: Instants]
           /\ Failed(a).last = now
           /\ Failed(a).fails >= MaxFails => Failed(a).lockedUntil = now + Lockout
           /\ Failed(a).fails < MaxFails => Failed(a).lockedUntil = 0
  BY TimeAssumption DEF Failed, Instants

(* Type correctness is preserved: one step per action. *)
LEMMA TypeStep == IInv /\ [Next]_vars => TypeOK'
<1> SUFFICES ASSUME IInv, [Next]_vars PROVE TypeOK'
  OBVIOUS
<1>t. TypeOK
  BY DEF IInv
<1>r. NoRecord \in [fails: Nat, lockedUntil: Nat, last: Instants]
  BY TimeAssumption DEF NoRecord, Instants
<1> USE DEF procVars, histVars
<1>1. ASSUME NEW env \in Envs, Start(env) PROVE TypeOK'
  <2>1. gateEnabled' => env.secret \in Secrets
    BY <1>1 DEF Start, Envs, Fatal, Unset
  <2> QED
    BY <1>1, <1>t, <1>r, <2>1 DEF Start, TypeOK
<1>2. CASE Stop
  BY <1>2, <1>t DEF Stop, TypeOK
<1>3. CASE Tick
  BY <1>3, <1>t, TimeAssumption DEF Tick, TypeOK, Instants
<1>s. Swept \in [IPs -> [fails: Nat, lockedUntil: Nat, last: Instants]]
  BY <1>t, <1>r DEF Swept, TypeOK
<1>4. ASSUME NEW c \in Clients, NEW ip \in IPs, PostRefused(c, ip) PROVE TypeOK'
  BY <1>4, <1>t, <1>s DEF PostRefused, TypeOK
<1>5. ASSUME NEW c \in Clients, NEW ip \in IPs, NEW code \in Codes,
             PostAdmitted(c, ip, code)
      PROVE  TypeOK'
  <2>1. now + Sleep \in Nat
    BY <1>t, TimeAssumption DEF TypeOK, Instants
  <2> QED
    BY <1>5, <1>t, <1>s, <2>1 DEF PostAdmitted, TypeOK
<1>6. ASSUME NEW c \in Clients, Verify(c) PROVE TypeOK'
  BY <1>6, <1>t DEF Verify, TypeOK, VerifyTOTP, Idle
<1>7. ASSUME NEW c \in Clients, RecordFailure(c) PROVE TypeOK'
  <2>1. req[c].ip \in IPs
    BY <1>7, <1>t DEF RecordFailure, TypeOK, Idle
  <2>2. Failed(loginByIP[req[c].ip]) \in [fails: Nat, lockedUntil: Nat, last: Instants]
    BY <2>1, <1>t, FailedRecord DEF IInv, LockRecord, TypeOK
  <2>3. wrong' \in [IPs -> [Instants -> Nat]]
    BY <1>7, <1>t, <2>1 DEF RecordFailure, TypeOK
  <2> QED
    BY <1>7, <1>t, <2>1, <2>2, <2>3 DEF RecordFailure, TypeOK
<1>8. ASSUME NEW c \in Clients, RecordSuccess(c) PROVE TypeOK'
  <2>1. NewSession \in [key: Secrets \cup {NoSecret}, exp: Int]
    BY <1>t, TimeAssumption DEF NewSession, TypeOK, Instants
  <2>2. [key |-> signKey, at |-> now] \in [key: Secrets \cup {NoSecret}, at: Int]
    BY <1>t DEF TypeOK, Instants
  <2> QED
    BY <1>8, <1>t, <1>r, <2>1, <2>2 DEF RecordSuccess, TypeOK
<1>9. ASSUME NEW c \in Clients, Logout(c) PROVE TypeOK'
  BY <1>9, <1>t DEF Logout, TypeOK, NoToken
<1>10. CASE UNCHANGED vars
  BY <1>10, <1>t DEF vars, TypeOK
<1> QED
  BY <1>1, <1>2, <1>3, <1>4, <1>5, <1>6, <1>7, <1>8, <1>9, <1>10 DEF Next

(* The failure records stay consistent. *)
LEMMA LockRecordStep == IInv /\ [Next]_vars => LockRecord'
<1> SUFFICES ASSUME IInv, [Next]_vars PROVE LockRecord'
  OBVIOUS
<1>t. TypeOK /\ LockRecord /\ now \in Nat
  BY DEF IInv, TypeOK, Instants
<1> USE DEF procVars, histVars
<1>n. /\ 0 <= now /\ NoRecord.last <= now /\ ~(NoRecord.fails >= MaxFails)
      /\ NoRecord.lockedUntil = 0
  BY <1>t, TimeAssumption DEF NoRecord
<1>1. ASSUME UNCHANGED <<now, loginByIP>>
      PROVE  LockRecord'
  BY <1>1, <1>t DEF LockRecord
<1>2. CASE Tick
  BY <1>2, <1>t DEF Tick, LockRecord, TypeOK, Instants
<1>3. CASE \E env \in Envs : Start(env)
  BY <1>3, <1>n DEF Start, LockRecord
<1>4. ASSUME loginByIP' = Swept, now' = now
      PROVE  LockRecord'
  BY <1>4, <1>t, <1>n DEF Swept, LockRecord
<1>5. ASSUME NEW c \in Clients, RecordFailure(c) PROVE LockRecord'
  <2> SUFFICES ASSUME NEW ip \in IPs
               PROVE  LET a == loginByIP'[ip] IN
                      /\ a.last <= now'
                      /\ a.fails >= MaxFails => a.lockedUntil = a.last + Lockout
                      /\ a.fails < MaxFails => a.lockedUntil = 0
    BY DEF LockRecord
  <2>1. \/ loginByIP'[ip] = loginByIP[ip]
        \/ loginByIP'[ip] = Failed(loginByIP[ip])
    BY <1>5, <1>t DEF RecordFailure, TypeOK
  <2>2. now' = now
    BY <1>5 DEF RecordFailure
  <2>3. /\ Failed(loginByIP[ip]).last = now
        /\ Failed(loginByIP[ip]).fails >= MaxFails
              => Failed(loginByIP[ip]).lockedUntil = now + Lockout
        /\ Failed(loginByIP[ip]).fails < MaxFails
              => Failed(loginByIP[ip]).lockedUntil = 0
    BY <1>t, FailedRecord DEF TypeOK, LockRecord
  <2> QED
    BY <2>1, <2>2, <2>3, <1>t DEF LockRecord
<1>6. ASSUME NEW c \in Clients, RecordSuccess(c) PROVE LockRecord'
  BY <1>6, <1>t, <1>n DEF RecordSuccess, LockRecord, TypeOK
<1> QED
  BY <1>1, <1>2, <1>3, <1>4, <1>5, <1>6
  DEF Next, Stop, PostRefused, PostAdmitted, Verify, Logout, vars

(* Cookies stay the ones of verified logins, and the gate keeps its key. *)
LEMMA CookieStep == IInv /\ [Next]_vars => CookieFromLogin' /\ GateHasKey'
<1> SUFFICES ASSUME IInv, [Next]_vars PROVE CookieFromLogin' /\ GateHasKey'
  OBVIOUS
<1> USE DEF procVars, histVars, IInv
<1>1. ASSUME UNCHANGED <<cookie, login, gateEnabled, signKey>>
      PROVE  CookieFromLogin' /\ GateHasKey'
  BY <1>1 DEF CookieFromLogin, GateHasKey
<1>2. ASSUME NEW env \in Envs, Start(env)
      PROVE  CookieFromLogin' /\ GateHasKey'
  BY <1>2 DEF Start, Envs, Fatal, Unset, CookieFromLogin, GateHasKey
<1>3. ASSUME NEW c \in Clients, RecordSuccess(c)
      PROVE  CookieFromLogin' /\ GateHasKey'
  <2>1. DOMAIN cookie = Clients /\ DOMAIN login = Clients
    BY DEF TypeOK
  <2>2. /\ cookie' = [cookie EXCEPT ![c] = [key |-> signKey, exp |-> now + TTL]]
        /\ login' = [login EXCEPT ![c] = [key |-> signKey, at |-> now]]
    BY <1>3 DEF RecordSuccess, NewSession
  <2>3. UNCHANGED <<gateEnabled, signKey>>
    BY <1>3 DEF RecordSuccess
  <2> QED
    BY <2>1, <2>2, <2>3 DEF CookieFromLogin, GateHasKey
<1>4. ASSUME NEW c \in Clients, Logout(c)
      PROVE  CookieFromLogin' /\ GateHasKey'
  BY <1>4 DEF Logout, CookieFromLogin, GateHasKey, TypeOK
<1> QED
  BY <1>1, <1>2, <1>3, <1>4
  DEF Next, Stop, Tick, PostRefused, PostAdmitted, Verify, RecordFailure, vars

(* Every step preserves the inductive invariant. *)
LEMMA NextIInv == IInv /\ [Next]_vars => IInv'
  BY TypeStep, LockRecordStep, CookieStep DEF IInv

(* The program's variables keep their types. *)
THEOREM TypeCorrect == Spec => []TypeOK
<1>1. IInv => TypeOK
  BY DEF IInv
<1> QED
  BY InitIInv, NextIInv, <1>1, PTL DEF Spec

(* A lockout's counter and deadline agree in every reachable state, however
   the requests of an address overlap (recordLogin of proxy/auth.go). *)
THEOREM LockRecordHolds == Spec => []LockRecord
<1>1. IInv => LockRecord
  BY DEF IInv
<1> QED
  BY InitIInv, NextIInv, <1>1, PTL DEF Spec

(* With the gate enabled, only browsers that entered a correct code less than
   SESSION_TTL ago pass authMiddleware. *)
THEOREM SessionBackedHolds == Spec => []SessionBacked
<1>1. IInv => SessionBacked
  <2> SUFFICES ASSUME IInv, NEW c \in Clients, gateEnabled,
                      AuthMiddleware(c, TRUE) = "next"
               PROVE  login[c].key = signKey /\ now < login[c].at + TTL
    BY DEF SessionBacked
  <2>1. cookie[c].key = signKey /\ now < cookie[c].exp
    BY DEF AuthMiddleware, ValidSession
  <2>2. cookie[c] # NoToken
    BY <2>1, SecretAssumption DEF IInv, GateHasKey, NoToken
  <2> QED
    BY <2>1, <2>2 DEF IInv, CookieFromLogin
<1> QED
  BY InitIInv, NextIInv, <1>1, PTL DEF Spec

(* No step lifts a lockout early: only its deadline, a correct code or a new
   process ends it, and a failure that was in flight can only extend it. *)
THEOREM LockNeverShortenedHolds == Spec => LockNeverShortened
<1> DEFINE Kept(ip) ==
       \/ loginByIP'[ip].lockedUntil >= loginByIP[ip].lockedUntil
       \/ now > loginByIP[ip].lockedUntil
       \/ proc # "serving"
       \/ \E c \in Clients : RecordSuccess(c) /\ req[c].ip = ip
<1>1. ASSUME IInv, [Next]_vars, NEW ip \in IPs
      PROVE  Kept(ip)
  <2>t. TypeOK /\ LockRecord /\ loginByIP[ip].lockedUntil \in Nat /\ now \in Nat
    BY <1>1 DEF IInv, TypeOK, Instants
  <2> USE DEF procVars, histVars
  <2>1. CASE loginByIP' = loginByIP
    BY <2>1, <2>t
  <2>2. CASE \E env \in Envs : Start(env)
    BY <2>2 DEF Start
  <2>3. CASE loginByIP' = Swept
    BY <2>3, <2>t DEF Swept, Expired
  <2>4. ASSUME NEW c \in Clients, RecordFailure(c) PROVE Kept(ip)
    <3>1. \/ loginByIP'[ip] = loginByIP[ip]
          \/ loginByIP'[ip] = Failed(loginByIP[ip])
      BY <2>4, <2>t DEF RecordFailure, TypeOK
    <3>2. Failed(loginByIP[ip]).lockedUntil >= loginByIP[ip].lockedUntil
      <4> DEFINE a == loginByIP[ip]
      <4>1. /\ a.fails \in Nat /\ a.last \in Nat /\ a.last <= now
            /\ a.fails >= MaxFails => a.lockedUntil = a.last + Lockout
            /\ a.fails < MaxFails => a.lockedUntil = 0
        BY <2>t DEF LockRecord, TypeOK, Instants
      <4>2. Failed(a).lockedUntil = IF a.fails + 1 >= MaxFails THEN now + Lockout
                                                              ELSE a.lockedUntil
        BY DEF Failed
      <4> HIDE DEF a
      <4>3. a.lockedUntil <= now + Lockout
        BY <4>1, <2>t, TimeAssumption
      <4>4. Failed(a).lockedUntil >= a.lockedUntil
        BY <4>2, <4>3, <2>t, TimeAssumption DEF a
      <4> QED
        BY <4>4 DEF a
    <3> QED
      BY <3>1, <3>2, <2>t
  <2>5. ASSUME NEW c \in Clients, RecordSuccess(c) PROVE Kept(ip)
    <3>1. CASE req[c].ip = ip
      BY <2>5, <3>1
    <3>2. CASE req[c].ip # ip
      <4>1. loginByIP'[ip] = loginByIP[ip]
        BY <2>5, <3>2, <2>t DEF RecordSuccess, TypeOK
      <4> QED
        BY <4>1, <2>t
    <3> QED
      BY <3>1, <3>2
  <2> QED
    BY <1>1, <2>1, <2>2, <2>3, <2>4, <2>5
    DEF Next, Stop, Tick, PostRefused, PostAdmitted, Verify, Logout, vars
<1>2. IInv /\ [Next]_vars => [\A ip \in IPs : Kept(ip)]_vars
  BY <1>1
<1> QED
  BY InitIInv, NextIInv, <1>2, PTL DEF Spec, LockNeverShortened
-----------------------------------------------------------------------------
(* The guesses an address gets. *)

(* The window of a history that counts up to each instant. *)
Window(w, t) == w[t] - (IF t < Lockout THEN 0 ELSE w[t - Lockout])
Grows(w) == \A s, t \in Instants : s <= t => w[s] <= w[t]

LEMMA WindowIsNat ==
    ASSUME NEW w \in [Instants -> Nat], Grows(w), NEW t \in Instants
    PROVE  Window(w, t) \in Nat
BY TimeAssumption DEF Window, Grows, Instants

(* Once nothing is added, the window only loses guesses. *)
LEMMA WindowLater ==
    ASSUME NEW w \in [Instants -> Nat], Grows(w),
           NEW n \in Instants, NEW t \in Instants, n <= t, w[t] = w[n]
    PROVE  Window(w, t) <= Window(w, n)
<1>1. CASE t < Lockout
  BY <1>1, TimeAssumption DEF Window, Instants
<1>2. CASE ~(t < Lockout) /\ n < Lockout
  BY <1>2, TimeAssumption DEF Window, Instants
<1>3. CASE ~(n < Lockout)
  <2>1. n - Lockout \in Instants /\ t - Lockout \in Instants /\ n - Lockout <= t - Lockout
    BY <1>3, TimeAssumption DEF Instants
  <2>2. w[n - Lockout] <= w[t - Lockout]
    BY <2>1 DEF Grows
  <2> QED BY <1>3, <2>1, <2>2, TimeAssumption DEF Window, Instants
<1> QED BY <1>1, <1>2, <1>3

(* A lockout after the last guess, the window is empty. *)
LEMMA WindowEmpty ==
    ASSUME NEW w \in [Instants -> Nat], NEW n \in Instants, NEW last \in Instants,
           last + Lockout <= n, \A u \in Instants : u >= last => w[u] = w[n]
    PROVE  Window(w, n) = 0
<1>1. n - Lockout \in Instants /\ n - Lockout >= last /\ ~(n < Lockout)
  BY TimeAssumption DEF Instants
<1> QED BY <1>1 DEF Window

(* One more guess at instant n. *)
LEMMA WindowAdd ==
    ASSUME NEW w \in [Instants -> Nat], Grows(w), NEW n \in Instants
    PROVE  LET v == [t \in Instants |-> IF t < n THEN w[t] ELSE w[t] + 1] IN
           /\ v \in [Instants -> Nat]
           /\ Grows(v)
           /\ Window(v, n) = Window(w, n) + 1
           /\ \A t \in Instants : t < n => Window(v, t) = Window(w, t)
<1> DEFINE v == [t \in Instants |-> IF t < n THEN w[t] ELSE w[t] + 1]
<1>1. v \in [Instants -> Nat] /\ Grows(v)
  BY DEF Grows, Instants
<1>2. ASSUME NEW t \in Instants, t <= n
      PROVE  Window(v, t) = IF t < n THEN Window(w, t) ELSE Window(w, t) + 1
  <2>1. CASE t < Lockout
    BY <1>2, <2>1, TimeAssumption DEF Window, Instants
  <2>2. CASE ~(t < Lockout)
    <3>1. t - Lockout \in Instants /\ t - Lockout < n
      BY <1>2, <2>2, TimeAssumption DEF Instants
    <3>2. v[t - Lockout] = w[t - Lockout] /\ v[t] = IF t < n THEN w[t] ELSE w[t] + 1
      BY <3>1
    <3> HIDE DEF v
    <3> QED BY <2>2, <3>1, <3>2, <1>1, TimeAssumption DEF Window, Instants
  <2> QED BY <2>1, <2>2
<1> HIDE DEF v
<1>3. Window(v, n) = Window(w, n) + 1
  BY <1>2 DEF Instants
<1>4. \A t \in Instants : t < n => Window(v, t) = Window(w, t)
  BY <1>2 DEF Instants
<1> QED BY <1>1, <1>3, <1>4 DEF v
Records == [fails: Nat, lockedUntil: Nat, last: Instants]

(* LockRecord, for one record at instant n. *)
Consistent(a, n) ==
    /\ a.last <= n
    /\ a.fails >= MaxFails => a.lockedUntil = a.last + Lockout
    /\ a.fails < MaxFails => a.lockedUntil = 0

Budget == MaxFails + Cardinality(Clients) - 1

(* How a record a covers the guesses w of its address at instant n, with k
   requests in flight: nothing was added after its last failure; before the
   lockout its counter bounds the guesses of the last Lockout instants, and
   during it only the requests in flight can still add to them. *)
Covers(a, w, n, k) ==
    /\ Grows(w)
    /\ \A t \in Instants : t >= n \/ (a.fails > 0 /\ t >= a.last) => w[t] = w[n]
    /\ a.fails < MaxFails => Window(w, n) <= a.fails
    /\ a.fails >= MaxFails /\ n < a.lockedUntil => Window(w, n) + k <= Budget

LEMMA ClientCount == Cardinality(Clients) \in Nat /\ Budget \in Int
BY ClientsAssumption, FS_CardinalityType, TimeAssumption DEF Budget

(* Fewer requests in flight, or a lockout that is over. *)
LEMMA CoversFewer ==
    ASSUME NEW a \in Records, NEW w \in [Instants -> Nat], NEW n \in Instants,
           NEW k \in Nat, NEW j \in Nat, Covers(a, w, n, k), j <= k \/ ~(n < a.lockedUntil)
    PROVE  Covers(a, w, n, j)
BY WindowIsNat, ClientCount DEF Covers, Records

(* Time passes. *)
LEMMA CoversTick ==
    ASSUME NEW a \in Records, NEW w \in [Instants -> Nat], NEW n \in Instants,
           n + 1 \in Instants, NEW k \in Nat, Covers(a, w, n, k)
    PROVE  Covers(a, w, n + 1, k)
<1>1. w[n + 1] = w[n] /\ Grows(w)
  BY DEF Covers, Instants
<1>2. Window(w, n + 1) <= Window(w, n)
  <2>1. n <= n + 1 BY DEF Instants
  <2> QED BY <1>1, <2>1, WindowLater
<1>3. Window(w, n + 1) \in Nat /\ Window(w, n) \in Nat
  BY <1>1, WindowIsNat
<1>4. \A t \in Instants : t >= n + 1 \/ (a.fails > 0 /\ t >= a.last) => w[t] = w[n + 1]
  <2>1. \A t \in Instants : t >= n + 1 => t >= n
    BY DEF Instants
  <2> QED BY <1>1, <2>1 DEF Covers
<1>5. a.fails < MaxFails => Window(w, n + 1) <= a.fails
  BY <1>2, <1>3, TimeAssumption DEF Covers, Records
<1>6. a.fails >= MaxFails /\ n + 1 < a.lockedUntil => Window(w, n + 1) + k <= Budget
  <2>1. n + 1 < a.lockedUntil => n < a.lockedUntil
    BY DEF Records, Instants
  <2> QED BY <1>2, <1>3, <2>1, ClientCount DEF Covers
<1> QED BY <1>1, <1>4, <1>5, <1>6 DEF Covers

(* A record that is swept away had nothing to cover. *)
LEMMA CoversSwept ==
    ASSUME NEW a \in Records, NEW w \in [Instants -> Nat], NEW n \in Instants,
           NEW k \in Nat, Covers(a, w, n, k), n - a.last > Lockout, NEW j \in Nat
    PROVE  Covers(NoRecord, w, n, j)
<1>1. Window(w, n) \in Nat
  BY WindowIsNat DEF Covers
<1>2. Window(w, n) = 0
  <2>1. CASE a.fails > 0
    <3>1. a.last + Lockout <= n /\ a.last \in Instants
      BY TimeAssumption DEF Records, Instants
    <3> QED BY <2>1, <3>1, WindowEmpty DEF Covers
  <2>2. CASE a.fails = 0
    BY <2>2, <1>1, TimeAssumption DEF Covers
  <2> QED BY <2>1, <2>2 DEF Records
<1> QED BY <1>2, TimeAssumption DEF Covers, NoRecord

(* A new history, after a success or a start. *)
LEMMA CoversNothing ==
    ASSUME NEW n \in Instants, NEW k \in Nat
    PROVE  Covers(NoRecord, [t \in Instants |-> 0], n, k)
BY TimeAssumption DEF Covers, NoRecord, Grows, Window, Instants

(* A request of the address turns out wrong. *)
LEMMA CoversFailure ==
    ASSUME NEW a \in Records, NEW w \in [Instants -> Nat], now \in Instants,
           NEW k \in Nat, k > 0, k <= Cardinality(Clients),
           Covers(a, w, now, k), Consistent(a, now)
    PROVE  Covers(Failed(a), [t \in Instants |-> IF t < now THEN w[t] ELSE w[t] + 1],
                  now, k - 1)
<1> DEFINE v == [t \in Instants |-> IF t < now THEN w[t] ELSE w[t] + 1]
<1>1. /\ v \in [Instants -> Nat] /\ Grows(v)
      /\ Window(v, now) = Window(w, now) + 1
  BY WindowAdd DEF Covers
<1>2. \A t \in Instants : t >= now => v[t] = v[now]
  BY DEF Covers, Instants
<1>3. Window(w, now) \in Nat
  BY WindowIsNat DEF Covers
<1> HIDE DEF v
<1>4. Failed(a).fails = a.fails + 1 /\ Failed(a).last = now
  BY DEF Failed
<1>5. Failed(a).fails < MaxFails => Window(v, now) <= Failed(a).fails
  BY <1>1, <1>3, <1>4, TimeAssumption DEF Covers, Records
<1>6. Failed(a).fails >= MaxFails => Window(v, now) + (k - 1) <= Budget
  <2>1. CASE a.fails < MaxFails
    BY <2>1, <1>1, <1>3, <1>4, ClientCount, TimeAssumption DEF Covers, Records, Budget
  <2>2. CASE a.fails >= MaxFails /\ now < a.lockedUntil
    BY <2>2, <1>1, <1>3, ClientCount DEF Covers
  <2>3. CASE a.fails >= MaxFails /\ ~(now < a.lockedUntil)
    <3>1. a.last + Lockout <= now /\ a.last \in Instants
      BY <2>3, TimeAssumption DEF Consistent, Records, Instants
    <3>2. a.fails > 0
      BY <2>3, TimeAssumption DEF Records
    <3>3. Window(w, now) = 0
      BY <3>1, <3>2, WindowEmpty DEF Covers
    <3> QED BY <3>3, <1>1, ClientCount, TimeAssumption DEF Budget
  <2> QED BY <2>1, <2>2, <2>3, TimeAssumption DEF Records
<1>7. Covers(Failed(a), v, now, k - 1)
  BY <1>1, <1>2, <1>4, <1>5, <1>6 DEF Covers
<1> QED BY <1>7 DEF v

(* Covered guesses are within the budget from now on. *)
LEMMA CoversBudget ==
    ASSUME NEW a \in Records, NEW w \in [Instants -> Nat], NEW n \in Instants,
           NEW k \in Nat, Covers(a, w, n, k), Consistent(a, n),
           NEW t \in Instants, t >= n
    PROVE  Window(w, t) <= Budget
<1>1. Window(w, n) \in Nat /\ Window(w, t) \in Nat /\ Window(w, t) <= Window(w, n)
  BY WindowIsNat, WindowLater DEF Covers, Instants
<1>2. CASE a.fails < MaxFails
  BY <1>1, <1>2, ClientCount, TimeAssumption DEF Covers, Records, Budget
<1>3. CASE a.fails >= MaxFails /\ n < a.lockedUntil
  BY <1>1, <1>3, ClientCount DEF Covers
<1>4. CASE a.fails >= MaxFails /\ ~(n < a.lockedUntil)
  <2>1. a.last + Lockout <= n /\ a.last \in Instants
    BY <1>4, TimeAssumption DEF Consistent, Records, Instants
  <2>2. a.fails > 0
    BY <1>4, TimeAssumption DEF Records
  <2>3. Window(w, n) = 0
    BY <2>1, <2>2, WindowEmpty DEF Covers
  <2> QED BY <1>1, <2>3, ClientCount, TimeAssumption DEF Budget
<1> QED BY <1>2, <1>3, <1>4, TimeAssumption DEF Records

-----------------------------------------------------------------------------
Inflight(ip) == {c \in Clients : req[c].pc # "idle" /\ req[c].ip = ip}

Covered(ip) == Covers(loginByIP[ip], wrong[ip], now, Cardinality(Inflight(ip)))

BudgetInv == IInv /\ GuessBudget /\ \A ip \in IPs : Covered(ip)

LEMMA InflightCount ==
    ASSUME NEW S \in SUBSET Clients
    PROVE  /\ Cardinality(S) \in Nat /\ Cardinality(S) <= Cardinality(Clients)
           /\ \A T \in SUBSET S : Cardinality(T) \in Nat /\ Cardinality(T) <= Cardinality(S)
           /\ \A c \in S : Cardinality(S \ {c}) = Cardinality(S) - 1 /\ Cardinality(S) > 0
<1>1. IsFiniteSet(S)
  BY ClientsAssumption, FS_Subset
<1>2. Cardinality(S) \in Nat /\ Cardinality(S) <= Cardinality(Clients)
  BY ClientsAssumption, FS_Subset, FS_CardinalityType
<1>3. \A T \in SUBSET S : Cardinality(T) \in Nat /\ Cardinality(T) <= Cardinality(S)
  BY <1>1, FS_Subset, FS_CardinalityType
<1>4. ASSUME NEW c \in S PROVE Cardinality(S \ {c}) = Cardinality(S) - 1 /\ Cardinality(S) > 0
  <2>1. Cardinality(S \ {c}) = Cardinality(S) - 1
    BY <1>1, FS_RemoveElement
  <2>2. Cardinality(S \ {c}) \in Nat
    BY <1>3
  <2> QED BY <2>1, <2>2, <1>2
<1> QED BY <1>2, <1>3, <1>4

(* The guesses of one address stay covered and in the budget: one step for
   each way its record, its history or its requests change. *)
LEMMA CoveredStep ==
    ASSUME BudgetInv, IInv', [Next]_vars, NEW ip \in IPs
    PROVE  Covered(ip)' /\ \A t \in Instants : Window(wrong'[ip], t) <= Budget
<1> DEFINE a == loginByIP[ip]
           w == wrong[ip]
           k == Cardinality(Inflight(ip))
           Goal == /\ Covers(loginByIP'[ip], wrong'[ip], now', Cardinality(Inflight(ip)'))
                   /\ \A t \in Instants : Window(wrong'[ip], t) <= Budget
<1> SUFFICES Goal
  BY DEF Covered
<1>t. /\ now \in Instants /\ a \in Records /\ w \in [Instants -> Nat]
      /\ Covers(a, w, now, k) /\ Consistent(a, now)
  BY DEF BudgetInv, IInv, TypeOK, LockRecord, Covered, Records, Consistent
<1>b. \A t \in Instants : Window(w, t) <= Budget
  BY DEF BudgetInv, GuessBudget, WrongUntil, Window, Budget
<1>k. k \in Nat /\ k <= Cardinality(Clients)
  BY InflightCount DEF Inflight
<1>j. Cardinality(Inflight(ip)') \in Nat
  BY InflightCount DEF Inflight
<1>n. NoRecord \in Records
  BY TimeAssumption DEF NoRecord, Records, Instants
<1>z. \A t \in Instants : Window([u \in Instants |-> 0], t) <= Budget
  BY ClientCount, TimeAssumption DEF Window, Instants, Budget
<1>r. req \in [Clients -> {Idle}
                  \cup [pc: {"sleep"}, ip: IPs, code: Codes, wake: Nat]
                  \cup [pc: {"record"}, ip: IPs, ok: BOOLEAN]]
  BY DEF BudgetInv, IInv, TypeOK
<1> HIDE DEF a, w, k
<1>s. ASSUME loginByIP' = Swept, wrong' = wrong, now' = now,
             Inflight(ip)' = Inflight(ip) \/ ~Locked(Swept[ip])
      PROVE  Goal
  <2>1. CASE Expired(a)
    <3>1. loginByIP'[ip] = NoRecord
      BY <1>s, <2>1 DEF Swept, a
    <3> QED BY <1>s, <2>1, <3>1, <1>t, <1>k, <1>j, <1>b, CoversSwept DEF Expired, w
  <2>2. CASE ~Expired(a)
    <3>1. loginByIP'[ip] = a
      BY <1>s, <2>2 DEF Swept, a
    <3>2. Inflight(ip)' = Inflight(ip) \/ ~(now < a.lockedUntil)
      BY <1>s, <3>1 DEF Locked
    <3>3. Cardinality(Inflight(ip)') <= k \/ ~(now < a.lockedUntil)
      BY <3>2, <1>k DEF k
    <3>4. Covers(a, w, now, Cardinality(Inflight(ip)'))
      BY <3>3, <1>t, <1>k, <1>j, CoversFewer
    <3> QED BY <1>s, <3>1, <3>4, <1>b DEF w
  <2> QED BY <2>1, <2>2
<1>u. ASSUME UNCHANGED <<loginByIP, wrong, now>>, Inflight(ip)' \subseteq Inflight(ip)
      PROVE  Goal
  <2>1. Cardinality(Inflight(ip)') <= k
    BY <1>u, InflightCount DEF Inflight, k
  <2> QED BY <1>u, <2>1, <1>t, <1>k, <1>j, <1>b, CoversFewer DEF a, w
<1> USE DEF procVars, histVars
<1>1. ASSUME NEW env \in Envs, Start(env) PROVE Goal
  <2>1. loginByIP'[ip] = NoRecord /\ wrong'[ip] = [t \in Instants |-> 0] /\ now' = now
    BY <1>1 DEF Start
  <2> QED BY <2>1, <1>t, <1>j, <1>z, CoversNothing
<1>2. CASE Stop
  BY <1>2, <1>u DEF Stop, Inflight, Idle
<1>3. CASE Tick
  <2>1. now' = now + 1 /\ now + 1 \in Instants
    BY <1>3, <1>t, TimeAssumption DEF Tick, Instants
  <2>2. loginByIP'[ip] = a /\ wrong'[ip] = w /\ Inflight(ip)' = Inflight(ip)
    BY <1>3 DEF Tick, Inflight, a, w
  <2> QED BY <2>1, <2>2, <1>t, <1>k, <1>b, CoversTick DEF k
<1>4. ASSUME NEW c \in Clients, NEW p \in IPs, PostRefused(c, p) PROVE Goal
  BY <1>4, <1>s DEF PostRefused, Inflight
<1>5. ASSUME NEW c \in Clients, NEW p \in IPs, NEW code \in Codes, PostAdmitted(c, p, code)
      PROVE  Goal
  <2>1. Inflight(ip)' = Inflight(ip) \/ ~Locked(Swept[ip])
    <3>1. CASE p = ip
      BY <1>5, <3>1 DEF PostAdmitted
    <3>2. CASE p # ip
      BY <1>5, <3>2, <1>r DEF PostAdmitted, Inflight, Idle
    <3> QED BY <3>1, <3>2
  <2> QED BY <1>5, <2>1, <1>s DEF PostAdmitted
<1>6. ASSUME NEW c \in Clients, Verify(c) PROVE Goal
  <2>1. Inflight(ip)' = Inflight(ip)
    BY <1>6, <1>r DEF Verify, Inflight
  <2> QED BY <1>6, <2>1, <1>u DEF Verify
<1>7. ASSUME NEW c \in Clients, RecordFailure(c) PROVE Goal
  <2>1. now' = now /\ Inflight(ip)' = Inflight(ip) \ {c}
    BY <1>7, <1>r DEF RecordFailure, Inflight, Idle
  <2>2. CASE req[c].ip # ip
    <3>1. loginByIP'[ip] = loginByIP[ip] /\ wrong'[ip] = wrong[ip]
      BY <1>7, <2>2 DEF RecordFailure, BudgetInv, IInv, TypeOK
    <3>2. Cardinality(Inflight(ip)') <= k
      BY <2>1, InflightCount DEF Inflight, k
    <3> QED BY <2>1, <3>1, <3>2, <1>t, <1>k, <1>j, <1>b, CoversFewer DEF a, w
  <2>3. CASE req[c].ip = ip
    <3> DEFINE v == [t \in Instants |-> IF t < now THEN w[t] ELSE w[t] + 1]
    <3>1. loginByIP'[ip] = Failed(a)
      BY <1>7, <2>3 DEF RecordFailure, BudgetInv, IInv, TypeOK, a
    <3>2. wrong'[ip] = v
      BY <1>7, <2>3 DEF RecordFailure, BudgetInv, IInv, TypeOK, w
    <3>3. c \in Inflight(ip)
      BY <1>7, <2>3 DEF RecordFailure, Inflight
    <3>4. Cardinality(Inflight(ip)') = k - 1 /\ k > 0
      BY <2>1, <3>3, InflightCount DEF Inflight, k
    <3>5. Covers(Failed(a), v, now, k - 1)
      BY <3>4, <1>t, <1>k, CoversFailure
    <3>6. v \in [Instants -> Nat] /\ \A t \in Instants : t < now => Window(v, t) <= Budget
      BY <1>t, <1>b, WindowAdd DEF Covers
    <3>7. Failed(a) \in Records /\ Consistent(Failed(a), now)
      BY <1>t, FailedRecord DEF Records, Consistent, Instants
    <3>8. \A t \in Instants : t >= now => Window(v, t) <= Budget
      BY <3>4, <3>5, <3>6, <3>7, <1>t, <1>j, CoversBudget
    <3>9. \A t \in Instants : Window(v, t) <= Budget
      BY <3>6, <3>8, <1>t DEF Instants
    <3> HIDE DEF v
    <3> QED BY <2>1, <3>1, <3>2, <3>4, <3>5, <3>9
  <2> QED BY <2>2, <2>3
<1>8. ASSUME NEW c \in Clients, RecordSuccess(c) PROVE Goal
  <2>1. now' = now
    BY <1>8 DEF RecordSuccess
  <2>2. CASE req[c].ip # ip
    <3>1. loginByIP'[ip] = loginByIP[ip] /\ wrong'[ip] = wrong[ip]
      BY <1>8, <2>2 DEF RecordSuccess, BudgetInv, IInv, TypeOK
    <3>2. Inflight(ip)' \subseteq Inflight(ip)
      BY <1>8, <1>r DEF RecordSuccess, Inflight, Idle
    <3>3. Cardinality(Inflight(ip)') <= k
      BY <3>2, InflightCount DEF Inflight, k
    <3> QED BY <2>1, <3>1, <3>3, <1>t, <1>k, <1>j, <1>b, CoversFewer DEF a, w
  <2>3. CASE req[c].ip = ip
    <3>1. loginByIP'[ip] = NoRecord /\ wrong'[ip] = [t \in Instants |-> 0]
      BY <1>8, <2>3 DEF RecordSuccess, BudgetInv, IInv, TypeOK
    <3> QED BY <2>1, <3>1, <1>t, <1>j, <1>z, CoversNothing
  <2> QED BY <2>2, <2>3
<1>9. ASSUME NEW c \in Clients, Logout(c) PROVE Goal
  BY <1>9, <1>u DEF Logout, Inflight
<1>10. CASE UNCHANGED vars
  BY <1>10, <1>u DEF vars, Inflight
<1> HIDE DEF Goal
<1> QED
  BY <1>1, <1>2, <1>3, <1>4, <1>5, <1>6, <1>7, <1>8, <1>9, <1>10 DEF Next

LEMMA InitBudget == Init => BudgetInv
<1> SUFFICES ASSUME Init PROVE GuessBudget /\ \A ip \in IPs : Covered(ip)
  BY InitIInv DEF BudgetInv
<1>1. now \in Instants
  BY InitIInv DEF IInv, TypeOK
<1>2. ASSUME NEW ip \in IPs PROVE Covered(ip)
  <2>1. Cardinality(Inflight(ip)) \in Nat
    BY InflightCount DEF Inflight
  <2> QED BY <1>1, <2>1, CoversNothing DEF Init, Covered
<1>3. GuessBudget
  BY ClientCount, TimeAssumption DEF Init, GuessBudget, WrongUntil, Instants
<1> QED BY <1>2, <1>3

LEMMA NextBudget == BudgetInv /\ [Next]_vars => BudgetInv'
<1> SUFFICES ASSUME BudgetInv, [Next]_vars PROVE BudgetInv'
  OBVIOUS
<1>1. IInv'
  BY NextIInv DEF BudgetInv
<1>2. \A ip \in IPs : Covered(ip)' /\ \A t \in Instants : Window(wrong'[ip], t) <= Budget
  BY <1>1, CoveredStep
<1>3. GuessBudget'
  BY <1>2 DEF GuessBudget, WrongUntil, Window, Budget
<1> QED BY <1>1, <1>2, <1>3 DEF BudgetInv

(* The lockout bounds guessing: an address without a success gets at most
   maxLoginFails wrong codes in any interval as long as the lockout, and one
   more for each other browser whose request was in flight (handleLogin). *)
THEOREM GuessBudgetHolds == Spec => []GuessBudget
<1>1. BudgetInv => GuessBudget BY DEF BudgetInv
<1> QED BY InitBudget, NextBudget, <1>1, PTL DEF Spec
=============================================================================
