------------------------------- MODULE Limits -------------------------------
(***************************************************************************)
(* What a connection passes on the proxy and what slows it down:           *)
(* getIPAdress with the limiter of its source, isAllowedTarger, the byte   *)
(* limiter its two directions share (proxy/main.go), and the admin API     *)
(* that reads and changes the limits (proxy/admin.go).                     *)
(*                                                                         *)
(* A handler runs getIPAdress under a read lock, which excludes nobody:    *)
(* the steps of several handlers interleave, and one may use the map       *)
(* sourceRates while another writes it, which the Go runtime answers by    *)
(* ending the process when it notices.                                     *)
(***************************************************************************)
EXTENDS Integers, FiniteSets, FiniteSetsExt

CONSTANTS Conns,         \* the websockets, each with its handler
          Sources,       \* the values of ips[0]; all clients that come without
                         \* X-Forwarded-For have one in common
          ListedTarget,  \* the targets that blacklistedTargets names
          OpenTarget,    \* the others
          SrcRate, SrcBurst,          \* SRC_CONN_RATE and SRC_CONN_BURST
          Limits,        \* what the admin sets: free, burst, rate, 0 for absent
          Chunks,        \* sizes of the chunks io.Copy writes
          Carriers,      \* bound: the connections that carry data
          MaxBytes,      \* bound: bytes each direction carries
          MaxNow         \* bound: the clock

Nats == Nat \ {0}

ASSUME RateAssumption == SrcRate \in Nats /\ SrcBurst \in Nats
ASSUME ChunkAssumption ==
    Chunks \subseteq Nats /\ \E max \in Chunks : \A n \in Chunks : n <= max
ASSUME ConnsAssumption == IsFiniteSet(Conns)
ASSUME LimitsAssumption == Limits \subseteq [free : Nat, burst : Nat, rate : Nat]
ASSUME BoundAssumption == Carriers \subseteq Conns /\ MaxBytes \in Nat /\ MaxNow \in Nat
ASSUME TargetAssumption == ListedTarget \cap OpenTarget = {}

VARIABLES
    proc,        \* "up", or "crashed" by the runtime's check of map accesses
    now,         \* the clock
    pc,          \* each handler
    src, target, \* the source and the target of its connection
    srcLimitEnabled, \* FALSE when SRC_CONN_RATE turns the limiter off
    sourceRates, \* the limiter of each source, NoLimiter when there is none
    writing,     \* the handlers inside a write to the map
    leaked,      \* read locks of blacklistMu that were never given back
    conf,        \* freeLimit, maxBurst and maxLimitedRate
    lim,         \* the byte limiter of each connection
    dir,         \* its two limitedWriters
    firsts,      \* history: how often a source was looked up and not found
    admitted,    \* history: connections of each source let in up to each instant
    relayed,     \* history: bytes each direction let through for tokens and free
    maxFree      \* history: the largest freeLimit so far

procVars == <<proc, now, srcLimitEnabled>>
srcVars  == <<sourceRates, writing, firsts, admitted>>
byteVars == <<lim, dir, relayed>>
confVars == <<conf, maxFree>>
vars == <<procVars, pc, src, target, srcVars, leaked, byteVars, confVars>>

-----------------------------------------------------------------------------
(* rate.Limiter, with whole tokens and instants. *)

NoLimiter == [tokens |-> 0, last |-> 0, rate |-> 0, burst |-> 0, born |-> 0]

NewLimiter(rate, burst) ==
    [tokens |-> burst, last |-> now, rate |-> rate, burst |-> burst, born |-> now]

Smaller(a, b) == IF a < b THEN a ELSE b

Available(l) == Smaller(l.burst, l.tokens + (now - l.last) * l.rate)

Spend(l, n) == [l EXCEPT !.tokens = Available(l) - n, !.last = now]

(* How long the sleep of WaitN is for a limiter that was overspent. *)
Debt(l) == IF l.tokens >= 0 THEN 0 ELSE (l.rate - l.tokens - 1) \div l.rate

-----------------------------------------------------------------------------
Dirs == {"up", "down"}

PCs == {"idle", "lookup", "insert", "inserting", "allow", "target",
        "relay", "refused", "ended"}

Limiters == [tokens : Int, last : Nat, rate : Nat, burst : Nat, born : Nat]

Writer == [written : Nat, n : Nat, ready : Nat, paid : BOOLEAN]
IdleWriter == [written |-> 0, n |-> 0, ready |-> 0, paid |-> FALSE]

(* The ranges of the variables: limits stay above 0 whatever setRate is given. *)
TypeOK ==
    /\ proc \in {"up", "crashed"} /\ now \in 0 .. MaxNow
    /\ srcLimitEnabled \in BOOLEAN
    /\ pc \in [Conns -> PCs]
    /\ src \in [Conns -> Sources]
    /\ target \in [Conns -> ListedTarget \cup OpenTarget]
    /\ sourceRates \in [Sources -> Limiters]
    /\ writing \subseteq Conns
    /\ leaked \in Nat
    /\ conf \in [free : Nats, burst : Nats, rate : Nats]
    /\ lim \in [Conns -> Limiters]
    /\ dir \in [Conns -> [Dirs -> Writer]]
    /\ firsts \in [Sources -> Nat]
    /\ admitted \in [Sources -> [0 .. MaxNow -> Nat]]
    /\ relayed \in [Conns -> [Dirs -> [paid : Nat, free : Nat]]]
    /\ maxFree \in Nat

Init ==
    /\ proc = "up" /\ now = 0
    /\ srcLimitEnabled \in BOOLEAN
    /\ pc = [c \in Conns |-> "idle"]
    /\ src \in [Conns -> Sources]
    /\ target \in [Conns -> ListedTarget \cup OpenTarget]
    /\ sourceRates = [s \in Sources |-> NoLimiter]
    /\ writing = {}
    /\ leaked = 0
    /\ conf \in {r \in Limits : r.free > 0 /\ r.burst > 0 /\ r.rate > 0}
    /\ lim = [c \in Conns |-> NoLimiter]
    /\ dir = [c \in Conns |-> [d \in Dirs |-> IdleWriter]]
    /\ firsts = [s \in Sources |-> 0]
    /\ admitted = [s \in Sources |-> [t \in 0 .. MaxNow |-> 0]]
    /\ relayed = [c \in Conns |-> [d \in Dirs |-> [paid |-> 0, free |-> 0]]]
    /\ maxFree = conf.free

Tick ==
    /\ proc = "up" /\ now < MaxNow
    /\ now' = now + 1
    /\ UNCHANGED <<proc, srcLimitEnabled, pc, src, target, srcVars, leaked, byteVars, confVars>>

-----------------------------------------------------------------------------
(* getIPAdress. *)

(* A map access while another handler writes the map: the runtime may notice
   and end the process, or not. *)
MapAccess(c) ==
    IF writing \ {c} = {} THEN proc' = "up" ELSE proc' \in {"up", "crashed"}

(* Mutant: every connection makes a new limiter. *)
LookupFresh(c) ==
    /\ proc = "up" /\ pc[c] = "idle"
    /\ MapAccess(c)
    /\ pc' = [pc EXCEPT ![c] = "insert"]
    /\ firsts' = [firsts EXCEPT ![src[c]] = IF sourceRates[src[c]] = NoLimiter
                                            THEN @ + 1 ELSE @]
    /\ UNCHANGED <<now, srcLimitEnabled, src, target, sourceRates, writing, admitted, leaked,
                   byteVars, confVars>>

(* The read lock is taken and sourceRates[ips[0]] looked up. *)
Lookup(c) ==
    /\ proc = "up" /\ pc[c] = "idle"
    /\ MapAccess(c)
    /\ IF sourceRates[src[c]] = NoLimiter
       THEN /\ pc' = [pc EXCEPT ![c] = "insert"]
            /\ firsts' = [firsts EXCEPT ![src[c]] = @ + 1]
       ELSE /\ pc' = [pc EXCEPT ![c] = "allow"]
            /\ UNCHANGED firsts
    /\ UNCHANGED <<now, srcLimitEnabled, src, target, sourceRates, writing, admitted, leaked,
                   byteVars, confVars>>

(* There was none: a new limiter is written to the map. *)
Insert(c) ==
    /\ proc = "up" /\ pc[c] = "insert"
    /\ MapAccess(c)
    /\ pc' = [pc EXCEPT ![c] = "inserting"]
    /\ writing' = writing \cup {c}
    /\ UNCHANGED <<now, srcLimitEnabled, src, target, sourceRates, firsts, admitted, leaked,
                   byteVars, confVars>>

Inserted(c) ==
    /\ proc = "up" /\ pc[c] = "inserting"
    /\ pc' = [pc EXCEPT ![c] = "allow"]
    /\ writing' = writing \ {c}
    /\ sourceRates' = [sourceRates EXCEPT ![src[c]] = NewLimiter(SrcRate, SrcBurst)]
    /\ UNCHANGED <<procVars, src, target, firsts, admitted, leaked, byteVars,
                   confVars>>

Admit(upTo) == [t \in 0 .. MaxNow |-> IF t < now THEN upTo[t] ELSE upTo[t] + 1]

(* blacklistedSources, whose setter no route leads to. *)
BlacklistedSources == {}

(* Mutant: a refused connection uses up a token, too. *)
AllowGreedy(c) ==
    LET l == sourceRates[src[c]] IN
    /\ proc = "up" /\ pc[c] = "allow"
    /\ MapAccess(c)
    /\ sourceRates' = [sourceRates EXCEPT ![src[c]] = Spend(l, 1)]
    /\ IF srcLimitEnabled /\ Available(l) < 1
       THEN /\ pc' = [pc EXCEPT ![c] = "refused"]
            /\ UNCHANGED admitted
       ELSE /\ pc' = [pc EXCEPT ![c] = "target"]
            /\ admitted' = [admitted EXCEPT ![src[c]] = Admit(@)]
    /\ UNCHANGED <<now, srcLimitEnabled, src, target, writing, firsts, leaked, byteVars, confVars>>

(* sourceRates is read again, and Allow asked of what it holds now. *)
Allow(c) ==
    LET l == sourceRates[src[c]] IN
    /\ proc = "up" /\ pc[c] = "allow"
    /\ MapAccess(c)
    /\ \/ /\ src[c] \in BlacklistedSources \/ (srcLimitEnabled /\ Available(l) < 1)
          /\ pc' = [pc EXCEPT ![c] = "refused"]
          /\ UNCHANGED <<sourceRates, admitted>>
       \/ /\ src[c] \notin BlacklistedSources
          /\ srcLimitEnabled => Available(l) >= 1
          /\ pc' = [pc EXCEPT ![c] = "target"]
          /\ sourceRates' = IF srcLimitEnabled
                            THEN [sourceRates EXCEPT ![src[c]] = Spend(l, 1)]
                            ELSE sourceRates
          /\ admitted' = [admitted EXCEPT ![src[c]] = Admit(@)]
    /\ UNCHANGED <<now, srcLimitEnabled, src, target, writing, firsts, leaked, byteVars, confVars>>

-----------------------------------------------------------------------------
(* isAllowedTarger and newLimters. *)

(* A listed target: the function returns with the read lock held. *)
TargetRefused(c) ==
    /\ proc = "up" /\ pc[c] = "target"
    /\ target[c] \in ListedTarget
    /\ leaked' = leaked + 1
    /\ pc' = [pc EXCEPT ![c] = "refused"]
    /\ UNCHANGED <<procVars, src, target, srcVars, byteVars, confVars>>

(* Another target: both directions get one limiter with today's limits. *)
TargetAllowed(c) ==
    /\ proc = "up" /\ pc[c] = "target"
    /\ target[c] \in OpenTarget
    /\ pc' = [pc EXCEPT ![c] = "relay"]
    /\ lim' = [lim EXCEPT ![c] = NewLimiter(conf.rate, conf.burst)]
    /\ UNCHANGED <<procVars, src, target, srcVars, leaked, dir, relayed, confVars>>

(* Either peer ends the connection. *)
End(c) ==
    /\ proc = "up" /\ pc[c] = "relay"
    /\ pc' = [pc EXCEPT ![c] = "ended"]
    /\ dir' = [dir EXCEPT ![c] = [d \in Dirs |-> [@[d] EXCEPT !.n = 0]]]
    /\ UNCHANGED <<procVars, src, target, srcVars, leaked, lim, relayed, confVars>>

-----------------------------------------------------------------------------
(* limitedWriter.Write. *)

(* A chunk of n bytes comes.  WaitN refuses one larger than the burst, which
   is then written at once, as a chunk within the free allowance is. *)
Write(c, d, n) ==
    LET w == dir[c][d]
        after == Spend(lim[c], n)
        waits == w.written > conf.free /\ n <= lim[c].burst
    IN
    /\ proc = "up" /\ pc[c] = "relay"
    /\ w.n = 0 /\ relayed[c][d].paid + relayed[c][d].free + n <= MaxBytes
    /\ dir' = [dir EXCEPT ![c][d] =
                 [w EXCEPT !.n = n, !.paid = waits,
                           !.ready = now + (IF waits THEN Debt(after) ELSE 0)]]
    /\ lim' = [lim EXCEPT ![c] = IF waits THEN after ELSE @]
    /\ UNCHANGED <<procVars, pc, src, target, srcVars, leaked, relayed, confVars>>

Relay(r, w) == IF w.paid THEN [r EXCEPT !.paid = @ + w.n]
                         ELSE [r EXCEPT !.free = @ + w.n]

(* Mutant: only the chunks that waited are counted. *)
PassUncounted(c, d) ==
    LET w == dir[c][d] IN
    /\ proc = "up" /\ pc[c] = "relay"
    /\ w.n > 0 /\ now >= w.ready
    /\ dir' = [dir EXCEPT ![c][d] = [IdleWriter EXCEPT
                 !.written = IF w.paid THEN w.written + w.n ELSE w.written]]
    /\ relayed' = [relayed EXCEPT ![c][d] = Relay(@, w)]
    /\ UNCHANGED <<procVars, pc, src, target, srcVars, leaked, lim, confVars>>

(* The wait is over: the chunk is counted and written. *)
Pass(c, d) ==
    LET w == dir[c][d] IN
    /\ proc = "up" /\ pc[c] = "relay"
    /\ w.n > 0 /\ now >= w.ready
    /\ dir' = [dir EXCEPT ![c][d] = [IdleWriter EXCEPT !.written = w.written + w.n]]
    /\ relayed' = [relayed EXCEPT ![c][d] = Relay(@, w)]
    /\ UNCHANGED <<procVars, pc, src, target, srcVars, leaked, lim, confVars>>

-----------------------------------------------------------------------------
(* The admin API. *)

Given(new, old) == IF new > 0 THEN new ELSE old

(* setRate of an authorised request that decodes: the fields above 0 replace
   the limits, those of running connections keep their limiter. *)
SetRate(r) ==
    /\ proc = "up"
    /\ conf' = [free |-> Given(r.free, conf.free), burst |-> Given(r.burst, conf.burst),
                rate |-> Given(r.rate, conf.rate)]
    /\ maxFree' = IF conf'.free > maxFree THEN conf'.free ELSE maxFree
    /\ UNCHANGED <<procVars, pc, src, target, srcVars, leaked, byteVars>>

-----------------------------------------------------------------------------
(* Bound: no handler starts after data has flowed, and data flows and limits
   change only while the other handlers have not started.  The checks of a
   handler and the bytes of a connection share the clock and nothing else. *)
NoData == \A c \in Carriers : dir[c] = [d \in Dirs |-> IdleWriter]
Alone(c) == \A o \in Conns \ {c} : pc[o] = "idle"

Next ==
    \/ Tick
    \/ \E c \in Conns :
          \/ NoData /\ Lookup(c)
          \/ Insert(c) \/ Inserted(c) \/ Allow(c)
          \/ TargetRefused(c) \/ TargetAllowed(c)
    \/ \E c \in Carriers :
          /\ Alone(c)
          /\ \/ End(c)
             \/ \E d \in Dirs : Pass(c, d) \/ \E n \in Chunks : Write(c, d, n)
             \/ \E r \in Limits : SetRate(r)

Spec == Init /\ [][Next]_vars

-----------------------------------------------------------------------------
Admissions(s, from, to) ==
    admitted[s][to] - (IF from = 0 THEN 0 ELSE admitted[s][from - 1])

(* The anti-abuse limit of getIPAdress: in every stretch of time a source gets
   at most one burst and what the rate adds, and one burst more for every
   handler that found no limiter because another had not yet inserted its
   own.  The map, shared under a read lock, loses no other spent token. *)
SourceBudget ==
    srcLimitEnabled =>
        \A s \in Sources : \A from, to \in 0 .. now :
            from <= to =>
                Admissions(s, from, to)
                  <= SrcRate * (to - from)
                     + SrcBurst * (IF firsts[s] > 1 THEN firsts[s] ELSE 1)

(* getIPAdress turns nobody away who kept to the rate: a refusal means that
   the connections let in since some instant have used up a whole burst and
   all that the rate has added since. *)
RefusedOnlyWhenSpent ==
    [][\A c \in Conns :
         pc[c] = "allow" /\ pc'[c] = "refused" =>
            /\ srcLimitEnabled
            /\ \E t \in 0 .. now :
                  Admissions(src[c], t, now) >= SrcBurst + SrcRate * (now - t)]_vars

LargestChunk == Max(Chunks)

(* limitedWriter: whatever the admin sets meanwhile, a direction gets at most
   the free allowance and one chunk without waiting, and the two directions
   together no more tokens than the limiter of the connection has given out,
   unless chunks are larger than the burst, which WaitN refuses and Write
   then lets through. *)
Throttled ==
    \A c \in Conns :
        pc[c] = "relay" =>
           /\ relayed[c]["up"].paid + relayed[c]["down"].paid
                <= lim[c].burst + lim[c].rate * (now - lim[c].born)
           /\ LargestChunk <= lim[c].burst =>
                 \A d \in Dirs : relayed[c][d].free <= maxFree + LargestChunk
=============================================================================
