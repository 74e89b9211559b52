--------------------------- MODULE HandlerProofs ---------------------------
(***************************************************************************)
(* Proofs about what a handler of the proxy goes through: its admission    *)
(* and its limiters (Limits), and its relay with the drain at the end      *)
(* (WsRelay), for any connections, sources, rates, bursts, limits, chunks  *)
(* and relays.                                                             *)
(*                                                                         *)
(* Both limiters are accounts.  What was let through since any instant and *)
(* the tokens left are together at most what was there and what the rate   *)
(* has added; since some instant, when the limiter was last full, they are *)
(* no less.  Each insertion into the racing map adds one full burst.       *)
(*                                                                         *)
(* The relay's counter of websockets is the number of handlers between     *)
(* their first and last statement, which is why the drain waits for them.  *)
(***************************************************************************)
EXTENDS Limits, WsRelay, FiniteSetTheorems, TLAPS

Times == 0 .. MaxNow

-----------------------------------------------------------------------------
(* rate.Limiter. *)

AvailableAt(l, n) == Smaller(l.burst, l.tokens + (n - l.last) * l.rate)

(* The tokens grow by the rate until the limiter is full. *)
LEMMA AvailableTick ==
    ASSUME NEW l \in Limiters, NEW n \in Nat, l.last <= n
    PROVE  /\ AvailableAt(l, n) \in Int /\ AvailableAt(l, n) <= l.burst
           /\ \/ AvailableAt(l, n + 1) = l.burst
              \/ AvailableAt(l, n + 1) = AvailableAt(l, n) + l.rate
           /\ AvailableAt(l, n + 1) <= AvailableAt(l, n) + l.rate
           /\ AvailableAt(l, n + 1) >= AvailableAt(l, n)
<1> DEFINE x == l.tokens + (n - l.last) * l.rate
           y == l.tokens + ((n + 1) - l.last) * l.rate
<1>1. x \in Int /\ y \in Int /\ l.burst \in Nat /\ l.rate \in Nat
  BY DEF Limiters
<1>2. y = x + l.rate
  <2>1. ASSUME NEW p \in Int, NEW q \in Int, NEW r \in Nat
        PROVE ((p + 1) - q) * r = (p - q) * r + r
    OBVIOUS
  <2>2. ((n + 1) - l.last) * l.rate = (n - l.last) * l.rate + l.rate
    BY <2>1 DEF Limiters
  <2>3. (n - l.last) * l.rate \in Int
    BY DEF Limiters
  <2> HIDE DEF x, y
  <2> QED BY <2>2, <2>3, <1>1 DEF x, y, Limiters
<1>3. /\ AvailableAt(l, n) = IF l.burst < x THEN l.burst ELSE x
      /\ AvailableAt(l, n + 1) = IF l.burst < y THEN l.burst ELSE y
  BY DEF AvailableAt, Smaller
<1> HIDE DEF x, y
<1> QED BY <1>1, <1>2, <1>3

(* What is spent is gone. *)
LEMMA AvailableSpent ==
    ASSUME NEW l \in Limiters, now \in Nat, NEW k \in Nat, l.last <= now
    PROVE  /\ Spend(l, k) \in Limiters /\ Spend(l, k).last = now
           /\ Spend(l, k).rate = l.rate /\ Spend(l, k).burst = l.burst
           /\ Spend(l, k).born = l.born
           /\ Spend(l, k).tokens = AvailableAt(l, now) - k
           /\ AvailableAt(Spend(l, k), now) = AvailableAt(l, now) - k
<1> DEFINE m == Spend(l, k)
<1>1. AvailableAt(l, now) \in Int /\ AvailableAt(l, now) <= l.burst
  BY AvailableTick
<1>2. m.tokens = AvailableAt(l, now) - k /\ m.last = now
  BY DEF Spend, Available, AvailableAt, Limiters
<1>3. m.rate = l.rate /\ m.burst = l.burst /\ m.born = l.born /\ m \in Limiters
  <2>1. m = [l EXCEPT !.tokens = AvailableAt(l, now) - k, !.last = now]
    BY DEF Spend, Available, AvailableAt
  <2>2. AvailableAt(l, now) - k \in Int
    BY <1>1
  <2> HIDE DEF m
  <2> QED BY <2>1, <2>2 DEF Limiters
<1>4. m.tokens + (now - m.last) * m.rate = m.tokens
  <2>1. ASSUME NEW r \in Nat PROVE (now - now) * r = 0
    OBVIOUS
  <2> HIDE DEF m
  <2> QED BY <1>1, <1>2, <1>3, <2>1 DEF Limiters
<1>5. AvailableAt(m, now) = Smaller(m.burst, m.tokens)
  BY <1>4 DEF AvailableAt
<1> HIDE DEF m
<1>6. AvailableAt(m, now) = AvailableAt(l, now) - k
  BY <1>1, <1>2, <1>3, <1>5 DEF Smaller, Limiters
<1> QED BY <1>2, <1>3, <1>6 DEF m

LEMMA AvailableNew ==
    ASSUME now \in Nat, NEW r \in Nat, NEW b \in Nat
    PROVE  /\ NewLimiter(r, b) \in Limiters
           /\ AvailableAt(NewLimiter(r, b), now) = b
<1>1. NewLimiter(r, b) \in Limiters
  BY DEF NewLimiter, Limiters
<1>2. b + (now - now) * r = b
  OBVIOUS
<1> QED BY <1>1, <1>2 DEF NewLimiter, AvailableAt, Smaller
-----------------------------------------------------------------------------
(* The account of a source. *)

Count(w, f, n) == w[n] - (IF f = 0 THEN 0 ELSE w[f - 1])

(* The history only grows, and not yet after instant n. *)
History(w, n) ==
    /\ w \in [Times -> Nat]
    /\ \A s, t \in Times : s <= t => w[s] <= w[t]
    /\ \A t \in Times : t >= n => w[t] = w[n]

(* Since any instant at most i bursts and the rate were let in or are left,
   and since some instant no less than one burst and the rate. *)
AtMost(l, w, n, i) ==
    \A f \in 0 .. n : Count(w, f, n) + AvailableAt(l, n) <= SrcRate * (n - f) + SrcBurst * i
AtLeast(l, w, n) ==
    \E f \in 0 .. n : Count(w, f, n) + AvailableAt(l, n) >= SrcBurst + SrcRate * (n - f)

Account(l, w, n, i) ==
    /\ l \in Limiters /\ l.rate = SrcRate /\ l.burst = SrcBurst
    /\ l.last <= n /\ AvailableAt(l, n) >= 0
    /\ AtMost(l, w, n, i) /\ AtLeast(l, w, n)

LEMMA Products ==
    /\ SrcRate \in Nat /\ SrcBurst \in Nat /\ SrcRate > 0 /\ SrcBurst > 0
    /\ \A x \in Nat : SrcRate * x \in Nat /\ SrcRate * (x + 1) = SrcRate * x + SrcRate
    /\ \A x \in Nat : SrcBurst * x \in Nat /\ SrcBurst * (x + 1) = SrcBurst * x + SrcBurst
    /\ \A x \in Nat : x > 0 => SrcBurst * x >= SrcBurst
    /\ SrcRate * 0 = 0 /\ SrcBurst * 0 = 0 /\ SrcBurst * 1 = SrcBurst
BY RateAssumption DEF Nats

LEMMA CountIsNat ==
    ASSUME NEW n \in Times, NEW w, History(w, n), NEW m \in Times, NEW f \in 0 .. m
    PROVE  Count(w, f, m) \in Nat
BY BoundAssumption DEF Count, History, Times

LEMMA AccountTick ==
    ASSUME NEW l, NEW w, NEW n \in Times, n + 1 \in Times, NEW i \in Nat, i > 0,
           History(w, n), Account(l, w, n, i)
    PROVE  History(w, n + 1) /\ Account(l, w, n + 1, i)
<1>1. /\ l \in Limiters /\ l.rate = SrcRate /\ l.burst = SrcBurst /\ l.last <= n /\ n \in Nat
      /\ l.last \in Nat
  BY DEF Account, Times, Limiters
<1>2. History(w, n + 1) /\ w[n + 1] = w[n]
  BY DEF History, Times
<1>3. /\ AvailableAt(l, n) \in Int /\ AvailableAt(l, n + 1) \in Int
      /\ AvailableAt(l, n + 1) <= SrcBurst /\ AvailableAt(l, n + 1) >= AvailableAt(l, n)
      /\ AvailableAt(l, n + 1) <= AvailableAt(l, n) + SrcRate
      /\ AvailableAt(l, n + 1) = SrcBurst \/ AvailableAt(l, n + 1) = AvailableAt(l, n) + SrcRate
  <2>1. n + 1 \in Nat /\ l.last <= n + 1
    BY <1>1
  <2> QED BY <1>1, <2>1, AvailableTick
<1>4. ASSUME NEW f \in 0 .. n
      PROVE  /\ Count(w, f, n + 1) = Count(w, f, n) /\ Count(w, f, n) \in Nat
             /\ SrcRate * ((n + 1) - f) = SrcRate * (n - f) + SrcRate
             /\ SrcRate * (n - f) \in Nat
  <2>1. Count(w, f, n + 1) = Count(w, f, n) /\ Count(w, f, n) \in Nat
    BY <1>2, CountIsNat DEF Count
  <2>2. n - f \in Nat /\ (n + 1) - f = (n - f) + 1
    BY <1>1
  <2> QED BY <2>1, <2>2, Products
<1>5. Count(w, n + 1, n + 1) = 0 /\ SrcRate * ((n + 1) - (n + 1)) = 0
  <2>1. n + 1 # 0 /\ (n + 1) - 1 = n /\ (n + 1) - (n + 1) = 0
    BY <1>1
  <2>2. w[n] \in Nat
    BY DEF History
  <2>3. Count(w, n + 1, n + 1) = w[n] - w[n]
    BY <1>2, <2>1 DEF Count
  <2> QED BY <2>1, <2>2, <2>3, Products
<1>6. ASSUME NEW f \in 0 .. n + 1
      PROVE Count(w, f, n + 1) + AvailableAt(l, n + 1) <= SrcRate * ((n + 1) - f) + SrcBurst * i
  <2>1. CASE f = n + 1
    <3>1. Count(w, f, n + 1) = 0 /\ SrcRate * ((n + 1) - f) = 0
      BY <2>1, <1>5
    <3>2. SrcBurst * i \in Nat /\ SrcBurst * i >= SrcBurst /\ SrcBurst \in Nat
      BY Products
    <3> QED BY <3>1, <3>2, <1>3
  <2>2. CASE f \in 0 .. n
    <3>1. Count(w, f, n) + AvailableAt(l, n) <= SrcRate * (n - f) + SrcBurst * i
      BY <2>2 DEF Account, AtMost
    <3> QED BY <2>2, <3>1, <1>3, <1>4, Products
  <2> QED BY <2>1, <2>2, <1>1
<1>7. AtLeast(l, w, n + 1)
  <2>1. CASE AvailableAt(l, n + 1) = SrcBurst
    <3>1. Count(w, n + 1, n + 1) + AvailableAt(l, n + 1)
            >= SrcBurst + SrcRate * ((n + 1) - (n + 1))
      BY <2>1, <1>5, Products
    <3>2. n + 1 \in 0 .. n + 1
      BY <1>1
    <3> QED BY <3>1, <3>2 DEF AtLeast
  <2>2. CASE AvailableAt(l, n + 1) = AvailableAt(l, n) + SrcRate
    <3>1. PICK f \in 0 .. n : Count(w, f, n) + AvailableAt(l, n) >= SrcBurst + SrcRate * (n - f)
      BY DEF Account, AtLeast
    <3>2. Count(w, f, n + 1) + AvailableAt(l, n + 1) >= SrcBurst + SrcRate * ((n + 1) - f)
      BY <3>1, <2>2, <1>3, <1>4, Products
    <3>3. f \in 0 .. n + 1
      BY <1>1
    <3> QED BY <3>2, <3>3 DEF AtLeast
  <2> QED BY <2>1, <2>2, <1>3
<1>8. AvailableAt(l, n + 1) >= 0 /\ l.last <= n + 1
  BY <1>1, <1>3 DEF Account
<1> QED BY <1>1, <1>2, <1>6, <1>7, <1>8 DEF Account, AtMost

(* One connection is let in now. *)
LEMMA HistoryAdmit ==
    ASSUME NEW w, now \in Times, History(w, now)
    PROVE  /\ History(Admit(w), now)
           /\ \A f \in 0 .. now : Count(Admit(w), f, now) = Count(w, f, now) + 1
           /\ \A t \in Times : \A f \in 0 .. t : t < now => Count(Admit(w), f, t) = Count(w, f, t)
<1>1. Admit(w) = [t \in Times |-> IF t < now THEN w[t] ELSE w[t] + 1]
  BY DEF Admit, Times
<1>2. History(Admit(w), now)
  BY <1>1 DEF History, Times
<1>3. ASSUME NEW t \in Times, NEW f \in 0 .. t, t <= now
      PROVE  Count(Admit(w), f, t) = IF t < now THEN Count(w, f, t) ELSE Count(w, f, t) + 1
  <2>1. f # 0 => f - 1 \in Times /\ f - 1 < now
    BY <1>3, BoundAssumption DEF Times
  <2>2. f # 0 => Admit(w)[f - 1] = w[f - 1] /\ w[f - 1] \in Nat
    BY <2>1, <1>1 DEF History
  <2>3. Admit(w)[t] = (IF t < now THEN w[t] ELSE w[t] + 1) /\ w[t] \in Nat
    BY <1>1 DEF History
  <2> QED BY <2>2, <2>3 DEF Count
<1>4. \A f \in 0 .. now : Count(Admit(w), f, now) = Count(w, f, now) + 1
  BY <1>3 DEF Times
<1>5. \A t \in Times : \A f \in 0 .. t : t < now => Count(Admit(w), f, t) = Count(w, f, t)
  BY <1>3 DEF Times
<1> QED BY <1>2, <1>4, <1>5

LEMMA AccountSpend ==
    ASSUME NEW l, NEW w, now \in Times, NEW i \in Nat,
           History(w, now), Account(l, w, now, i), AvailableAt(l, now) >= 1
    PROVE  Account(Spend(l, 1), Admit(w), now, i)
<1> DEFINE m == Spend(l, 1)
           v == Admit(w)
<1>1. /\ m \in Limiters /\ m.last = now /\ m.rate = SrcRate /\ m.burst = SrcBurst
      /\ AvailableAt(m, now) = AvailableAt(l, now) - 1 /\ AvailableAt(l, now) \in Int
  BY AvailableSpent, AvailableTick DEF Account, Times
<1>2. \A f \in 0 .. now : Count(v, f, now) = Count(w, f, now) + 1 /\ Count(w, f, now) \in Nat
  BY HistoryAdmit, CountIsNat
<1> HIDE DEF m, v
<1>3. \A f \in 0 .. now : Count(v, f, now) + AvailableAt(m, now)
                             = Count(w, f, now) + AvailableAt(l, now)
  BY <1>1, <1>2
<1> QED BY <1>1, <1>3 DEF Account, AtMost, AtLeast, Times, m, v

(* Another handler inserts a new limiter: one burst more. *)
LEMMA AccountInsert ==
    ASSUME NEW w, now \in Times, NEW i \in Nat, History(w, now),
           \/ i = 0 /\ \A t \in Times : w[t] = 0
           \/ \E l : Account(l, w, now, i)
    PROVE  Account(NewLimiter(SrcRate, SrcBurst), w, now, i + 1)
<1> DEFINE m == NewLimiter(SrcRate, SrcBurst)
<1>1. /\ m \in Limiters /\ m.last = now /\ m.rate = SrcRate /\ m.burst = SrcBurst
      /\ AvailableAt(m, now) = SrcBurst
  BY AvailableNew, Products DEF NewLimiter, Times
<1>2. \A f \in 0 .. now : /\ Count(w, f, now) \in Nat
                          /\ Count(w, f, now) <= SrcRate * (now - f) + SrcBurst * i
                          /\ SrcRate * (now - f) \in Nat
  <2> SUFFICES ASSUME NEW f \in 0 .. now
               PROVE  /\ Count(w, f, now) \in Nat
                      /\ Count(w, f, now) <= SrcRate * (now - f) + SrcBurst * i
                      /\ SrcRate * (now - f) \in Nat
    OBVIOUS
  <2>1. Count(w, f, now) \in Nat
    BY CountIsNat
  <2>2. SrcRate * (now - f) \in Nat /\ SrcBurst * i \in Nat
    <3>1. now - f \in Nat BY DEF Times
    <3> QED BY <3>1, Products
  <2>3. CASE i = 0 /\ \A t \in Times : w[t] = 0
    <3>1. Count(w, f, now) = 0
      BY <2>3, BoundAssumption DEF Count, Times
    <3> QED BY <2>2, <3>1
  <2>4. CASE \E l : Account(l, w, now, i)
    <3>1. PICK l : Account(l, w, now, i)
      BY <2>4
    <3>2. AvailableAt(l, now) >= 0 /\ AvailableAt(l, now) \in Int
      BY <3>1, AvailableTick DEF Account, Times
    <3>3. Count(w, f, now) + AvailableAt(l, now) <= SrcRate * (now - f) + SrcBurst * i
      BY <3>1 DEF Account, AtMost
    <3> QED BY <2>1, <2>2, <3>2, <3>3
  <2> QED BY <2>1, <2>2, <2>3, <2>4
<1> HIDE DEF m
<1>3. AtMost(m, w, now, i + 1)
  BY <1>1, <1>2, Products DEF AtMost
<1>4. AtLeast(m, w, now)
  <2>1. now \in 0 .. now /\ now - now = 0
    BY DEF Times
  <2>2. Count(w, now, now) + AvailableAt(m, now) >= SrcBurst + SrcRate * (now - now)
    BY <2>1, <1>1, <1>2, Products
  <2> QED BY <2>1, <2>2 DEF AtLeast
<1> QED BY <1>1, <1>3, <1>4, Products DEF Account, Times, m
-----------------------------------------------------------------------------
(* The handlers and the map. *)

SrcType ==
    /\ now \in Times /\ srcLimitEnabled \in BOOLEAN
    /\ pc \in [Conns -> PCs] /\ src \in [Conns -> Sources]
    /\ sourceRates \in [Sources -> Limiters]
    /\ firsts \in [Sources -> Nat]
    /\ admitted \in [Sources -> [Times -> Nat]]

(* The handlers that found no limiter and have not inserted theirs. *)
Pending(s) == {c \in Conns : src[c] = s /\ pc[c] \in {"insert", "inserting"}}
Inserts(s) == firsts[s] - Cardinality(Pending(s))

(* A source with limiter l and history w at instant n, after i insertions. *)
InOrder(l, w, n, i, on) ==
    /\ History(w, n) /\ i \in Nat
    /\ IF l = NoLimiter THEN i = 0 /\ \A t \in Times : w[t] = 0
                        ELSE i > 0 /\ (on => Account(l, w, n, i))

(* A handler asks a limiter that is in the map. *)
AllowKnown == \A c \in Conns : pc[c] = "allow" => sourceRates[src[c]] # NoLimiter

Within(w, f, t, i) == Count(w, f, t) <= SrcRate * (t - f) + SrcBurst * (IF i > 1 THEN i ELSE 1)

(* SourceBudget up to instant n. *)
WithinUpTo(w, n, i) == \A t \in 0 .. n : \A f \in 0 .. t : Within(w, f, t, i)

SourceOK(s) ==
    /\ InOrder(sourceRates[s], admitted[s], now, Inserts(s), srcLimitEnabled)
    /\ srcLimitEnabled => WithinUpTo(admitted[s], now, firsts[s])

SrcInv == SrcType /\ AllowKnown /\ \A s \in Sources : SourceOK(s)

LEMMA PendingCount ==
    ASSUME NEW S \in SUBSET Conns
    PROVE  /\ Cardinality(S) \in Nat /\ Cardinality({}) = 0
           /\ \A c \in S : Cardinality(S \ {c}) = Cardinality(S) - 1
           /\ \A c \in Conns \ S : Cardinality(S \cup {c}) = Cardinality(S) + 1
<1>1. IsFiniteSet(S)
  BY ConnsAssumption, FS_Subset
<1> QED BY <1>1, FS_CardinalityType, FS_EmptySet, FS_RemoveElement, FS_AddElement

(* More insertions only make the budget larger. *)
LEMMA WithinMore ==
    ASSUME NEW n \in Times, NEW w, History(w, n), NEW t \in Times, NEW f \in 0 .. t,
           NEW i \in Nat, NEW k \in Nat, i <= k, Within(w, f, t, i)
    PROVE  Within(w, f, t, k)
<1> DEFINE a == IF i > 1 THEN i ELSE 1
           b == IF k > 1 THEN k ELSE 1
<1>1. a \in Nat /\ b \in Nat /\ a <= b
  OBVIOUS
<1>2. Count(w, f, t) <= SrcRate * (t - f) + SrcBurst * a
  BY DEF Within
<1>3. Count(w, f, t) \in Nat /\ t - f \in Nat
  BY CountIsNat DEF Times
<1> HIDE DEF a, b
<1>4. SrcBurst * a \in Nat /\ SrcBurst * b \in Nat /\ SrcBurst * a <= SrcBurst * b
  BY <1>1, Products
<1>5. SrcRate * (t - f) \in Nat
  BY <1>3, Products
<1>6. Count(w, f, t) <= SrcRate * (t - f) + SrcBurst * b
  BY <1>2, <1>3, <1>4, <1>5
<1> QED BY <1>6 DEF Within, b

(* A source in order is within its budget. *)
LEMMA InOrderWithin ==
    ASSUME NEW l, NEW w, NEW n \in Times, NEW i, NEW k \in Nat, i <= k,
           InOrder(l, w, n, i, TRUE), NEW f \in 0 .. n
    PROVE  Within(w, f, n, k)
<1> DEFINE b == IF k > 1 THEN k ELSE 1
<1>1. Count(w, f, n) \in Nat /\ n - f \in Nat
  BY CountIsNat DEF InOrder, Times
<1>2. SrcRate * (n - f) \in Nat
  BY <1>1, Products
<1>3. i \in Nat /\ b \in Nat /\ i <= b /\ b >= 1
  BY DEF InOrder
<1> SUFFICES Count(w, f, n) <= SrcRate * (n - f) + SrcBurst * b
  BY DEF Within
<1> HIDE DEF b
<1>4. SrcBurst * i \in Nat /\ SrcBurst * b \in Nat /\ SrcBurst * i <= SrcBurst * b
  BY <1>3, Products
<1>5. CASE l = NoLimiter
  <2>1. Count(w, f, n) = 0
    BY <1>5, BoundAssumption DEF InOrder, Count, Times
  <2> QED BY <2>1, <1>2, <1>4
<1>6. CASE l # NoLimiter
  <2>1. Account(l, w, n, i)
    BY <1>6 DEF InOrder
  <2>2. AvailableAt(l, n) >= 0 /\ AvailableAt(l, n) \in Int
    BY <2>1, AvailableTick DEF Account, Times
  <2>3. Count(w, f, n) + AvailableAt(l, n) <= SrcRate * (n - f) + SrcBurst * i
    BY <2>1 DEF Account, AtMost
  <2> QED BY <1>1, <1>2, <1>4, <2>2, <2>3
<1> QED BY <1>5, <1>6

(* The budget holds up to now if it did before now and the source is in order. *)
LEMMA WithinNow ==
    ASSUME NEW l, NEW w, NEW n \in Times, NEW i, NEW k \in Nat, i <= k,
           InOrder(l, w, n, i, TRUE),
           \A t \in 0 .. n : t < n => \A f \in 0 .. t : Within(w, f, t, k)
    PROVE  WithinUpTo(w, n, k)
<1> SUFFICES ASSUME NEW t \in 0 .. n, NEW f \in 0 .. t PROVE Within(w, f, t, k)
  BY DEF WithinUpTo
<1>1. CASE t < n BY <1>1
<1>2. CASE t = n BY <1>2, InOrderWithin
<1> QED BY <1>1, <1>2 DEF Times

(* The operations on one source. *)
LEMMA InOrderTick ==
    ASSUME NEW l, NEW w, NEW n \in Times, n + 1 \in Times, NEW i, NEW on \in BOOLEAN,
           InOrder(l, w, n, i, on)
    PROVE  InOrder(l, w, n + 1, i, on)
<1>1. History(w, n + 1)
  BY DEF InOrder, History, Times
<1> QED BY <1>1, AccountTick DEF InOrder

LEMMA InOrderInsert ==
    ASSUME NEW l, NEW w, now \in Times, NEW i, NEW on \in BOOLEAN, InOrder(l, w, now, i, on)
    PROVE  /\ InOrder(NewLimiter(SrcRate, SrcBurst), w, now, i + 1, on)
           /\ NewLimiter(SrcRate, SrcBurst) # NoLimiter
<1>1. NewLimiter(SrcRate, SrcBurst) # NoLimiter
  BY Products DEF NewLimiter, NoLimiter
<1>2. ASSUME on PROVE Account(NewLimiter(SrcRate, SrcBurst), w, now, i + 1)
  BY <1>2, AccountInsert DEF InOrder
<1> QED BY <1>1, <1>2 DEF InOrder

LEMMA InOrderAdmit ==
    ASSUME NEW l, NEW w, now \in Times, NEW i, NEW on \in BOOLEAN, InOrder(l, w, now, i, on),
           l \in Limiters, l # NoLimiter, on => Available(l) >= 1
    PROVE  /\ InOrder(IF on THEN Spend(l, 1) ELSE l, Admit(w), now, i, on)
           /\ (IF on THEN Spend(l, 1) ELSE l) # NoLimiter
<1>1. History(Admit(w), now)
  BY HistoryAdmit DEF InOrder
<1>2. ASSUME on PROVE Account(Spend(l, 1), Admit(w), now, i) /\ Spend(l, 1) # NoLimiter
  <2>1. Account(l, w, now, i) /\ AvailableAt(l, now) >= 1
    BY <1>2 DEF InOrder, Available, AvailableAt
  <2>2. Account(Spend(l, 1), Admit(w), now, i)
    BY <2>1, AccountSpend DEF InOrder
  <2> QED BY <2>2, Products DEF Account, NoLimiter
<1> QED BY <1>1, <1>2 DEF InOrder
LEMMA SrcInit == Init => SrcInv
<1> SUFFICES ASSUME Init PROVE SrcInv
  OBVIOUS
<1>1. NoLimiter \in Limiters /\ 0 \in Times
  BY BoundAssumption DEF NoLimiter, Limiters, Times
<1>2. SrcType
  BY <1>1 DEF Init, SrcType, PCs, Times
<1>3. ASSUME NEW s \in Sources PROVE SourceOK(s)
  <2>1. Pending(s) = {}
    BY DEF Init, Pending
  <2>2. Inserts(s) = 0
    BY <2>1, PendingCount DEF Init, Inserts
  <2>3. InOrder(sourceRates[s], admitted[s], now, Inserts(s), TRUE)
    BY <1>2, <2>2 DEF Init, InOrder, History, SrcType, Times
  <2>4. InOrder(sourceRates[s], admitted[s], now, Inserts(s), srcLimitEnabled)
    BY <2>3 DEF Init, InOrder
  <2>5. WithinUpTo(admitted[s], now, firsts[s])
    <3>1. now = 0 /\ now \in Times /\ firsts[s] \in Nat /\ Inserts(s) <= firsts[s]
      BY <1>2, <2>2 DEF Init, SrcType
    <3>2. \A t \in 0 .. now : ~(t < now)
      BY <3>1
    <3> QED BY <3>1, <3>2, <2>3, WithinNow
  <2> QED BY <2>4, <2>5 DEF SourceOK
<1>4. AllowKnown
  BY DEF Init, AllowKnown
<1> QED BY <1>2, <1>3, <1>4 DEF SrcInv

LEMMA SrcNext == SrcInv /\ [Next]_vars => SrcInv'
<1> SUFFICES ASSUME SrcInv, [Next]_vars PROVE SrcInv'
  OBVIOUS
<1>t. SrcType /\ now \in Times /\ srcLimitEnabled \in BOOLEAN
  BY DEF SrcInv, SrcType
<1>o. \A s \in Sources :
        /\ InOrder(sourceRates[s], admitted[s], now, Inserts(s), srcLimitEnabled)
        /\ srcLimitEnabled => WithinUpTo(admitted[s], now, firsts[s])
        /\ History(admitted[s], now)
        /\ firsts[s] \in Nat /\ Inserts(s) \in Nat /\ Inserts(s) <= firsts[s]
        /\ Cardinality(Pending(s)) \in Nat
  <2> SUFFICES ASSUME NEW s \in Sources
               PROVE  /\ InOrder(sourceRates[s], admitted[s], now, Inserts(s), srcLimitEnabled)
                      /\ srcLimitEnabled => WithinUpTo(admitted[s], now, firsts[s])
                      /\ History(admitted[s], now)
                      /\ firsts[s] \in Nat /\ Inserts(s) \in Nat /\ Inserts(s) <= firsts[s]
                      /\ Cardinality(Pending(s)) \in Nat
    OBVIOUS
  <2>1. Cardinality(Pending(s)) \in Nat
    BY PendingCount DEF Pending
  <2> QED BY <2>1 DEF SrcInv, SrcType, SourceOK, InOrder, Inserts
<1> USE DEF procVars, srcVars, byteVars, confVars
(* A step that leaves a source alone. *)
<1>k. ASSUME NEW s \in Sources, UNCHANGED <<now, srcLimitEnabled>>,
             sourceRates'[s] = sourceRates[s], admitted'[s] = admitted[s],
             firsts'[s] = firsts[s], Pending(s)' = Pending(s)
      PROVE  SourceOK(s)'
  BY <1>k, <1>o DEF SourceOK, Inserts
(* A step that leaves all sources alone. *)
<1>u. ASSUME UNCHANGED <<now, srcLimitEnabled, src, sourceRates, firsts, admitted>>,
             pc' \in [Conns -> PCs],
             \A c \in Conns : pc'[c] = pc[c] \/ {pc[c], pc'[c]} \cap {"insert", "inserting"} = {},
             \A c \in Conns : pc'[c] = "allow" => pc[c] = "allow"
      PROVE  SrcInv'
  <2>1. \A s \in Sources : Pending(s)' = Pending(s)
    BY <1>u DEF Pending
  <2>2. \A s \in Sources : SourceOK(s)'
    BY <1>u, <2>1, <1>k
  <2> QED BY <1>u, <2>2 DEF SrcInv, SrcType, AllowKnown
<1>1. CASE Tick
  <2>1. now' = now + 1 /\ now + 1 \in Times
    BY <1>1, <1>t, BoundAssumption DEF Tick, Times
  <2>2. UNCHANGED <<pc, src, srcLimitEnabled, sourceRates, firsts, admitted>>
    BY <1>1 DEF Tick
  <2>3. ASSUME NEW s \in Sources PROVE SourceOK(s)'
    <3>1. Inserts(s)' = Inserts(s)
      BY <2>2 DEF Inserts, Pending
    <3>2. InOrder(sourceRates[s], admitted[s], now + 1, Inserts(s), srcLimitEnabled)
      BY <2>1, <1>t, <1>o, InOrderTick
    <3>3. ASSUME srcLimitEnabled PROVE WithinUpTo(admitted[s], now + 1, firsts[s])
      <4>1. InOrder(sourceRates[s], admitted[s], now + 1, Inserts(s), TRUE)
        BY <3>2, <3>3 DEF InOrder
      <4>2. \A t \in 0 .. now + 1 : t < now + 1 => t \in 0 .. now
        BY <1>t DEF Times
      <4> QED BY <3>3, <4>1, <4>2, <2>1, <1>o, WithinNow DEF WithinUpTo
    <3> QED BY <2>1, <2>2, <3>1, <3>2, <3>3 DEF SourceOK
  <2> QED BY <2>1, <2>2, <2>3 DEF SrcInv, SrcType, AllowKnown
<1>2. ASSUME NEW c \in Conns, Lookup(c) PROVE SrcInv'
  <2>1. pc[c] = "idle" /\ src[c] \in Sources
    BY <1>2, <1>t DEF Lookup, SrcType
  <2>2. CASE sourceRates[src[c]] # NoLimiter
    <3>1. \A s \in Sources : Pending(s)' = Pending(s)
      BY <1>2, <2>1, <2>2, <1>t DEF Lookup, Pending, SrcType
    <3>2. \A s \in Sources : SourceOK(s)'
      BY <1>2, <2>2, <3>1, <1>k DEF Lookup
    <3> QED BY <1>2, <2>2, <3>2 DEF Lookup, SrcInv, SrcType, AllowKnown, PCs
  <2>3. CASE sourceRates[src[c]] = NoLimiter
    <3>1. /\ pc' = [pc EXCEPT ![c] = "insert"]
          /\ firsts' = [firsts EXCEPT ![src[c]] = @ + 1]
          /\ UNCHANGED <<now, srcLimitEnabled, src, sourceRates, admitted>>
      BY <1>2, <2>3 DEF Lookup
    <3>2. ASSUME NEW s \in Sources PROVE SourceOK(s)'
      <4>1. CASE s # src[c]
        <5>1. Pending(s)' = Pending(s) /\ firsts'[s] = firsts[s]
          BY <3>1, <4>1, <1>t DEF Pending, SrcType
        <5> QED BY <3>1, <5>1, <1>k
      <4>2. CASE s = src[c]
        <5>1. Pending(s)' = Pending(s) \cup {c} /\ c \notin Pending(s)
          BY <2>1, <3>1, <4>2, <1>t DEF Pending, SrcType
        <5>2. Cardinality(Pending(s)') = Cardinality(Pending(s)) + 1
          BY <5>1, PendingCount DEF Pending
        <5>3. firsts'[s] = firsts[s] + 1
          BY <3>1, <4>2, <1>t DEF SrcType
        <5>4. Inserts(s)' = Inserts(s)
          BY <5>2, <5>3, <1>o DEF Inserts
        <5>5. ASSUME srcLimitEnabled PROVE WithinUpTo(admitted[s], now, firsts[s] + 1)
          <6> SUFFICES ASSUME NEW t \in 0 .. now, NEW f \in 0 .. t
                       PROVE Within(admitted[s], f, t, firsts[s] + 1)
            BY DEF WithinUpTo
          <6>1. t \in Times BY <1>t, BoundAssumption DEF Times
          <6>2. Within(admitted[s], f, t, firsts[s]) BY <5>5, <1>o DEF WithinUpTo
          <6>3. firsts[s] \in Nat /\ firsts[s] + 1 \in Nat /\ firsts[s] <= firsts[s] + 1
            BY <1>o
          <6> QED BY <6>1, <6>2, <6>3, <1>o, <1>t, WithinMore
        <5> QED BY <3>1, <5>3, <5>4, <5>5, <1>o DEF SourceOK
      <4> QED BY <4>1, <4>2
    <3> QED BY <3>1, <3>2, <2>1 DEF SrcInv, SrcType, AllowKnown, PCs
  <2> QED BY <2>2, <2>3
<1>3. ASSUME NEW c \in Conns, Insert(c) PROVE SrcInv'
  <2>1. \A s \in Sources : Pending(s)' = Pending(s)
    BY <1>3, <1>t DEF Insert, Pending, SrcType
  <2>2. \A s \in Sources : SourceOK(s)'
    BY <1>3, <2>1, <1>k DEF Insert
  <2> QED BY <1>3, <2>2 DEF Insert, SrcInv, SrcType, AllowKnown, PCs
<1>4. ASSUME NEW c \in Conns, Inserted(c) PROVE SrcInv'
  <2> DEFINE m == NewLimiter(SrcRate, SrcBurst)
  <2>1. /\ pc[c] = "inserting" /\ src[c] \in Sources
        /\ pc' = [pc EXCEPT ![c] = "allow"]
        /\ sourceRates' = [sourceRates EXCEPT ![src[c]] = m]
        /\ UNCHANGED <<now, srcLimitEnabled, src, firsts, admitted>>
    BY <1>4, <1>t DEF Inserted, SrcType
  <2>2. m \in Limiters /\ m # NoLimiter
    BY <1>t, <2>1, <1>o, AvailableNew, InOrderInsert, Products DEF Times
  <2> HIDE DEF m
  <2>3. ASSUME NEW s \in Sources PROVE SourceOK(s)'
    <3>1. CASE s # src[c]
      <4>1. Pending(s)' = Pending(s) /\ sourceRates'[s] = sourceRates[s]
        BY <2>1, <3>1, <1>t DEF Pending, SrcType
      <4> QED BY <2>1, <4>1, <1>k
    <3>2. CASE s = src[c]
      <4>1. Pending(s)' = Pending(s) \ {c} /\ c \in Pending(s)
        BY <2>1, <3>2, <1>t DEF Pending, SrcType
      <4>2. Cardinality(Pending(s)') = Cardinality(Pending(s)) - 1
        BY <4>1, PendingCount DEF Pending
      <4>3. Inserts(s)' = Inserts(s) + 1
        <5>1. firsts'[s] = firsts[s] /\ firsts[s] \in Nat /\ Cardinality(Pending(s)) \in Nat
          BY <2>1, <1>o
        <5> QED BY <4>2, <5>1 DEF Inserts
      <4>4. InOrder(m, admitted[s], now, Inserts(s) + 1, srcLimitEnabled)
        BY <1>t, <1>o, InOrderInsert DEF m
      <4>5. sourceRates'[s] = m
        BY <2>1, <3>2, <1>t DEF SrcType
      <4> QED BY <2>1, <4>3, <4>4, <4>5, <1>o DEF SourceOK
    <3> QED BY <3>1, <3>2
  <2>4. AllowKnown'
    BY <2>1, <2>2 DEF AllowKnown, SrcInv, SrcType
  <2> QED BY <2>1, <2>2, <2>3, <2>4 DEF SrcInv, SrcType, PCs
<1>5. ASSUME NEW c \in Conns, Allow(c) PROVE SrcInv'
  <2> DEFINE l == sourceRates[src[c]]
             m == IF srcLimitEnabled THEN Spend(l, 1) ELSE l
  <2>1. pc[c] = "allow" /\ src[c] \in Sources /\ l # NoLimiter /\ l \in Limiters
    BY <1>5, <1>t DEF Allow, SrcInv, SrcType, AllowKnown
  <2>2. CASE pc' = [pc EXCEPT ![c] = "refused"] /\ UNCHANGED <<sourceRates, admitted>>
    BY <1>5, <2>1, <2>2, <1>u, <1>t DEF Allow, PCs, SrcType
  <2>3. CASE /\ srcLimitEnabled => Available(l) >= 1
             /\ pc' = [pc EXCEPT ![c] = "target"]
             /\ sourceRates' = IF srcLimitEnabled
                               THEN [sourceRates EXCEPT ![src[c]] = Spend(l, 1)]
                               ELSE sourceRates
             /\ admitted' = [admitted EXCEPT ![src[c]] = Admit(@)]
    <3>1. UNCHANGED <<now, srcLimitEnabled, src, firsts>>
      BY <1>5 DEF Allow
    <3>2. sourceRates' = [sourceRates EXCEPT ![src[c]] = m]
      BY <2>3, <1>t DEF SrcType
    <3>3. \A s \in Sources : Pending(s)' = Pending(s)
      BY <2>1, <2>3, <3>1, <1>t DEF Pending, SrcType
    <3>4. /\ InOrder(m, Admit(admitted[src[c]]), now, Inserts(src[c]), srcLimitEnabled)
          /\ m # NoLimiter
      BY <2>1, <2>3, <1>t, <1>o, InOrderAdmit
    <3>5. m \in Limiters
      <4>1. l.last <= now \/ ~srcLimitEnabled
        BY <2>1, <1>o DEF InOrder, Account
      <4> QED BY <2>1, <4>1, <1>t, AvailableSpent DEF Times
    <3> HIDE DEF m, l
    <3>6. ASSUME NEW s \in Sources PROVE SourceOK(s)'
      <4>1. CASE s # src[c]
        <5>1. sourceRates'[s] = sourceRates[s] /\ admitted'[s] = admitted[s]
          BY <2>3, <3>2, <4>1, <1>t DEF SrcType
        <5> QED BY <3>1, <3>3, <5>1, <1>k
      <4>2. CASE s = src[c]
        <5>1. sourceRates'[s] = m /\ admitted'[s] = Admit(admitted[s]) /\ Inserts(s)' = Inserts(s)
          BY <2>3, <3>1, <3>2, <3>3, <4>2, <1>t DEF SrcType, Inserts
        <5>2. InOrder(m, Admit(admitted[s]), now, Inserts(s), srcLimitEnabled)
          BY <3>4, <4>2
        <5>3. ASSUME srcLimitEnabled PROVE WithinUpTo(Admit(admitted[s]), now, firsts[s])
          <6>1. InOrder(m, Admit(admitted[s]), now, Inserts(s), TRUE)
            BY <5>2, <5>3 DEF InOrder
          <6>2. \A t \in 0 .. now : t < now =>
                  \A f \in 0 .. t : Within(Admit(admitted[s]), f, t, firsts[s])
            <7> SUFFICES ASSUME NEW t \in 0 .. now, t < now, NEW f \in 0 .. t
                         PROVE  Within(Admit(admitted[s]), f, t, firsts[s])
              OBVIOUS
            <7>1. t \in Times BY <1>t, BoundAssumption DEF Times
            <7>2. Count(Admit(admitted[s]), f, t) = Count(admitted[s], f, t)
              BY <7>1, <1>o, <1>t, HistoryAdmit
            <7>3. Within(admitted[s], f, t, firsts[s]) BY <5>3, <1>o DEF WithinUpTo
            <7> QED BY <7>2, <7>3 DEF Within
          <6> QED BY <6>1, <6>2, <1>o, <1>t, WithinNow
        <5> QED BY <3>1, <5>1, <5>2, <5>3 DEF SourceOK
      <4> QED BY <4>1, <4>2
    <3>7. Admit(admitted[src[c]]) \in [Times -> Nat]
      BY <3>4 DEF InOrder, History
    <3>8. SrcType'
      BY <2>1, <2>3, <3>1, <3>2, <3>5, <3>7, <1>t DEF SrcType, PCs
    <3>9. AllowKnown'
      BY <2>1, <2>3, <3>1, <3>2, <3>4, <1>t DEF AllowKnown, SrcInv, SrcType
    <3> QED BY <3>6, <3>8, <3>9 DEF SrcInv
  <2> QED BY <1>5, <2>2, <2>3 DEF Allow
<1>6. ASSUME NEW c \in Conns, TargetRefused(c) PROVE SrcInv'
  BY <1>6, <1>u, <1>t DEF TargetRefused, PCs, SrcType
<1>7. ASSUME NEW c \in Conns, TargetAllowed(c) PROVE SrcInv'
  BY <1>7, <1>u, <1>t DEF TargetAllowed, PCs, SrcType
<1>8. ASSUME NEW c \in Carriers, End(c) PROVE SrcInv'
  BY <1>8, <1>u, <1>t, BoundAssumption DEF End, PCs, SrcType
<1>9. ASSUME UNCHANGED <<procVars, pc, src, srcVars>> PROVE SrcInv'
  BY <1>9, <1>u, <1>t DEF SrcType
<1>10. ASSUME NEW c, NEW d, Pass(c, d) \/ \E n : Write(c, d, n) PROVE SrcInv'
  BY <1>9, <1>10 DEF Pass, Write
<1>11. ASSUME NEW r, SetRate(r) PROVE SrcInv'
  BY <1>9, <1>11 DEF SetRate
<1>12. CASE UNCHANGED vars
  BY <1>9, <1>12 DEF vars
<1> QED
  BY <1>1, <1>2, <1>3, <1>4, <1>5, <1>6, <1>7, <1>8, <1>10, <1>11, <1>12 DEF Next

(* getIPAdress lets in no more connections of a source than its budget, in
   any stretch of time and however the handlers race for the map. *)
THEOREM SourceBudgetHolds == Spec => []SourceBudget
<1>1. SrcInv => SourceBudget
  <2> SUFFICES ASSUME SrcInv, srcLimitEnabled, NEW s \in Sources,
                      NEW from \in 0 .. now, NEW to \in 0 .. now, from <= to
               PROVE  Admissions(s, from, to)
                        <= SrcRate * (to - from)
                           + SrcBurst * (IF firsts[s] > 1 THEN firsts[s] ELSE 1)
    BY DEF SourceBudget
  <2>1. from \in 0 .. to
    BY DEF SrcInv, SrcType, Times
  <2>2. Within(admitted[s], from, to, firsts[s])
    BY <2>1 DEF SrcInv, SourceOK, WithinUpTo
  <2> QED BY <2>2 DEF Within, Count, Admissions
<1> QED BY SrcInit, SrcNext, <1>1, PTL DEF Spec

(* getIPAdress refuses a connection only when its source has used up a burst
   and all the rate has added since some instant. *)
THEOREM RefusedOnlyWhenSpentHolds == Spec => RefusedOnlyWhenSpent
<1> DEFINE Spent(c) ==
        pc[c] = "allow" /\ pc'[c] = "refused" =>
            /\ srcLimitEnabled
            /\ \E t \in 0 .. now :
                  Admissions(src[c], t, now) >= SrcBurst + SrcRate * (now - t)
<1>1. ASSUME SrcInv, [Next]_vars, NEW c \in Conns, pc[c] = "allow", pc'[c] = "refused"
      PROVE  /\ srcLimitEnabled
             /\ \E t \in 0 .. now :
                  Admissions(src[c], t, now) >= SrcBurst + SrcRate * (now - t)
  <2> USE <1>1
  <2> DEFINE l == sourceRates[src[c]]
             w == admitted[src[c]]
  <2>t. pc \in [Conns -> PCs] /\ src[c] \in Sources /\ now \in Times
    BY DEF SrcInv, SrcType
  <2>1. Allow(c)
    <3> USE DEF procVars, srcVars, byteVars, confVars
    <3>1. ASSUME NEW o \in Conns, Allow(o) PROVE o = c
      BY <3>1, <2>t DEF Allow
    <3>2. ~Tick /\ ~UNCHANGED vars
      BY DEF Tick, vars
    <3>3. ASSUME NEW o \in Conns, \/ Lookup(o) \/ Insert(o) \/ Inserted(o)
                                  \/ TargetRefused(o) \/ TargetAllowed(o) \/ End(o)
          PROVE FALSE
      BY <3>3, <2>t DEF Lookup, Insert, Inserted, TargetRefused, TargetAllowed, End
    <3>4. ASSUME UNCHANGED pc PROVE FALSE
      BY <3>4
    <3>5. \A o \in Carriers, d \in Dirs : ~Pass(o, d)
      BY <3>4 DEF Pass
    <3>6. \A o \in Carriers : o \in Conns
      BY BoundAssumption
    <3>7. \A r \in Limits : ~SetRate(r)
      BY <3>4 DEF SetRate
    <3>8. \A o \in Carriers, d \in Dirs, n \in Chunks : ~Write(o, d, n)
      BY <3>4 DEF Write
    <3>9. \E o \in Conns : Allow(o)
      BY <3>2, <3>3, <3>5, <3>6, <3>7, <3>8 DEF Next
    <3> QED BY <3>1, <3>9
  <2>2. srcLimitEnabled /\ Available(l) < 1
    BY <2>1, <2>t DEF Allow, BlacklistedSources
  <2>3. Account(l, w, now, Inserts(src[c])) /\ History(w, now)
    BY <2>2, <2>t DEF SrcInv, SourceOK, InOrder, AllowKnown
  <2>4. AvailableAt(l, now) \in Int /\ AvailableAt(l, now) <= 0
    <3>1. AvailableAt(l, now) \in Int
      BY <2>3, <2>t, AvailableTick DEF Account, Times
    <3> QED BY <2>2, <3>1 DEF Available, AvailableAt
  <2>5. PICK t \in 0 .. now : Count(w, t, now) + AvailableAt(l, now) >= SrcBurst + SrcRate * (now - t)
    BY <2>3 DEF Account, AtLeast
  <2>6. Count(w, t, now) \in Nat /\ SrcRate * (now - t) \in Nat
    <3>1. now - t \in Nat BY <2>t DEF Times
    <3> QED BY <3>1, <2>3, <2>t, CountIsNat, Products
  <2>7. Count(w, t, now) >= SrcBurst + SrcRate * (now - t)
    <3> HIDE DEF l, w
    <3> QED BY <2>4, <2>5, <2>6, Products
  <2> QED BY <2>2, <2>7 DEF Count, Admissions
<1>2. SrcInv /\ [Next]_vars => [\A c \in Conns : Spent(c)]_vars
  BY <1>1
<1> QED BY SrcInit, SrcNext, <1>2, PTL DEF Spec, RefusedOnlyWhenSpent
-----------------------------------------------------------------------------
(* The byte limiter of a connection. *)

(* What limiter l has given out at most by instant x. *)
Line(l, x) == l.burst + l.rate * (x - l.born)

Later(x, y) == IF x < y THEN y ELSE x

(* p tokens were used, and the chunks of the two directions that wait have
   reserved u and d, to pass at ru and rd: no sum of them is above the line
   at the instant it can be reached. *)
Metered(l, p, u, d, ru, rd, n) ==
    /\ p + u + d + AvailableAt(l, n) <= Line(l, n)
    /\ p <= Line(l, n)
    /\ p + u <= Line(l, Later(n, ru))
    /\ p + d <= Line(l, Later(n, rd))
    /\ p + u + d <= Line(l, Later(n, Later(ru, rd)))

LEMMA LineRises ==
    ASSUME NEW l \in Limiters, NEW x \in Nat, NEW y \in Nat, x <= y
    PROVE  /\ Line(l, x) \in Int /\ Line(l, y) \in Int /\ Line(l, x) <= Line(l, y)
           /\ Line(l, x + 1) = Line(l, x) + l.rate
<1> DEFINE a == x - l.born
           b == y - l.born
<1>1. a \in Int /\ b \in Int /\ a <= b /\ (x + 1) - l.born = a + 1
  BY DEF Limiters
<1>2. l.rate \in Nat /\ l.burst \in Nat
  BY DEF Limiters
<1>3. Line(l, x) = l.burst + l.rate * a /\ Line(l, y) = l.burst + l.rate * b
  BY DEF Line
<1>4. Line(l, x + 1) = l.burst + l.rate * (a + 1)
  BY <1>1 DEF Line
<1> HIDE DEF a, b
<1>5. ASSUME NEW r \in Nat
      PROVE  r * a \in Int /\ r * b \in Int /\ r * a <= r * b /\ r * (a + 1) = r * a + r
  BY <1>1
<1> DEFINE ra == l.rate * a
           rb == l.rate * b
<1>6. ra \in Int /\ rb \in Int /\ ra <= rb /\ l.rate * (a + 1) = ra + l.rate
  BY <1>2, <1>5
<1>7. Line(l, x) = l.burst + ra /\ Line(l, y) = l.burst + rb /\ Line(l, x + 1) = l.burst + (ra + l.rate)
  BY <1>3, <1>4, <1>6
<1> HIDE DEF ra, rb
<1> QED BY <1>2, <1>6, <1>7

LEMMA MeteredSwap ==
    ASSUME NEW l, NEW p \in Nat, NEW u \in Nat, NEW d \in Nat, NEW ru \in Nat, NEW rd \in Nat,
           NEW n \in Nat, AvailableAt(l, n) \in Int, Metered(l, p, u, d, ru, rd, n)
    PROVE  Metered(l, p, d, u, rd, ru, n)
<1>1. p + u + d = p + d + u /\ p + u + d + AvailableAt(l, n) = p + d + u + AvailableAt(l, n)
  OBVIOUS
<1>2. Later(n, Later(ru, rd)) = Later(n, Later(rd, ru))
  BY DEF Later
<1> QED BY <1>1, <1>2 DEF Metered

LEMMA MeteredTick ==
    ASSUME NEW l \in Limiters, NEW p \in Nat, NEW u \in Nat, NEW d \in Nat, NEW ru \in Nat,
           NEW rd \in Nat, NEW n \in Nat, l.last <= n, Metered(l, p, u, d, ru, rd, n)
    PROVE  Metered(l, p, u, d, ru, rd, n + 1)
<1>1. \A x \in Nat : Later(n, x) \in Nat /\ Later(n + 1, x) \in Nat /\ Later(n, x) <= Later(n + 1, x)
  BY DEF Later
<1>2. Later(ru, rd) \in Nat
  BY DEF Later
<1>3. \A x \in Nat : /\ Line(l, Later(n, x)) <= Line(l, Later(n + 1, x))
                      /\ Line(l, Later(n, x)) \in Int /\ Line(l, Later(n + 1, x)) \in Int
  BY <1>1, LineRises
<1>4. Line(l, n + 1) = Line(l, n) + l.rate /\ Line(l, n) \in Int /\ l.rate \in Nat
  BY LineRises DEF Limiters
<1>5. /\ AvailableAt(l, n) \in Int /\ AvailableAt(l, n + 1) \in Int
      /\ AvailableAt(l, n + 1) <= AvailableAt(l, n) + l.rate
  <2>1. n + 1 \in Nat /\ l.last <= n + 1
    BY DEF Limiters
  <2> QED BY <2>1, AvailableTick
<1>6. /\ p + u + d + AvailableAt(l, n + 1) <= Line(l, n + 1)
      /\ p <= Line(l, n + 1)
  BY <1>4, <1>5 DEF Metered
<1>7. /\ p + u <= Line(l, Later(n + 1, ru)) /\ p + d <= Line(l, Later(n + 1, rd))
      /\ p + u + d <= Line(l, Later(n + 1, Later(ru, rd)))
  BY <1>2, <1>3 DEF Metered
<1> QED BY <1>6, <1>7 DEF Metered

(* The chunk of a direction passes when its time has come. *)
LEMMA MeteredPass ==
    ASSUME NEW l \in Limiters, NEW p \in Nat, NEW u \in Nat, NEW d \in Nat, NEW ru \in Nat,
           NEW rd \in Nat, NEW n \in Nat, AvailableAt(l, n) \in Int,
           Metered(l, p, u, d, ru, rd, n), n >= ru
    PROVE  Metered(l, p + u, 0, d, 0, rd, n)
<1>1. Later(n, ru) = n /\ Later(n, 0) = n /\ Later(n, Later(ru, rd)) = Later(n, rd)
      /\ Later(n, Later(0, rd)) = Later(n, rd)
  BY DEF Later
<1>2. p + u + 0 = p + u /\ p + u + 0 + d = p + u + d
      /\ p + u + 0 + d + AvailableAt(l, n) = p + u + d + AvailableAt(l, n)
  OBVIOUS
<1> QED BY <1>1, <1>2 DEF Metered

(* A direction that reserves nothing may be given any time. *)
LEMMA MeteredFree ==
    ASSUME NEW l \in Limiters, NEW p \in Nat, NEW d \in Nat, NEW ru \in Nat, NEW rd \in Nat,
           NEW n \in Nat, AvailableAt(l, n) \in Int, Metered(l, p, 0, d, ru, rd, n),
           NEW rn \in Nat
    PROVE  Metered(l, p, 0, d, rn, rd, n)
<1>1. Later(n, rn) \in Nat /\ n <= Later(n, rn) /\ Later(n, rd) \in Nat
      /\ Later(n, Later(rn, rd)) \in Nat /\ Later(n, rd) <= Later(n, Later(rn, rd))
  BY DEF Later
<1>2. Line(l, n) <= Line(l, Later(n, rn)) /\ Line(l, n) \in Int /\ Line(l, Later(n, rn)) \in Int
  BY <1>1, LineRises
<1>3. /\ Line(l, Later(n, rd)) <= Line(l, Later(n, Later(rn, rd)))
      /\ Line(l, Later(n, rd)) \in Int /\ Line(l, Later(n, Later(rn, rd))) \in Int
  BY <1>1, LineRises
<1>4. p + 0 = p /\ p + 0 + d = p + d
  OBVIOUS
<1> QED BY <1>2, <1>3, <1>4 DEF Metered

(* The sleep of WaitN is long enough to earn what was overspent. *)
LEMMA DebtEarned ==
    ASSUME NEW l \in Limiters, l.rate > 0
    PROVE  Debt(l) \in Nat /\ l.tokens + l.rate * Debt(l) >= 0
<1>1. ASSUME NEW r \in Nat, r > 0, NEW t \in Int, t < 0
      PROVE  /\ (r - t - 1) \div r \in Nat
             /\ t + r * ((r - t - 1) \div r) >= 0
  <2> DEFINE a == r - t - 1
  <2>1. a \in Nat BY <1>1
  <2>2. a = r - t - 1 OBVIOUS
  <2> HIDE DEF a
  <2>3. a \div r \in Nat /\ r * (a \div r) + r > a
    BY <2>1, <1>1
  <2>4. r * (a \div r) \in Int
    BY <2>3
  <2>5. t + r * (a \div r) >= 0
    BY <2>1, <2>2, <2>3, <2>4, <1>1
  <2> QED BY <2>3, <2>5 DEF a
<1>2. l.rate \in Nat /\ l.tokens \in Int
  BY DEF Limiters
<1>3. l.rate * 0 = 0
  BY <1>2
<1>4. CASE l.tokens >= 0
  BY <1>2, <1>3, <1>4 DEF Debt
<1>5. CASE l.tokens < 0
  BY <1>1, <1>2, <1>5 DEF Debt
<1> QED BY <1>2, <1>4, <1>5

(* WaitN reserves k tokens for a direction that had none reserved. *)
LEMMA MeteredReserve ==
    ASSUME NEW l \in Limiters, l.rate > 0, l.last <= now, now \in Nat,
           NEW p \in Nat, NEW d \in Nat, NEW ru \in Nat, NEW rd \in Nat, NEW k \in Nat,
           Metered(l, p, 0, d, ru, rd, now)
    PROVE  Metered(Spend(l, k), p, k, d, now + Debt(Spend(l, k)), rd, now)
<1> DEFINE m == Spend(l, k)
           rn == now + Debt(m)
<1>1. /\ m \in Limiters /\ m.rate = l.rate /\ m.burst = l.burst /\ m.born = l.born
      /\ m.tokens = AvailableAt(l, now) - k
      /\ AvailableAt(m, now) = AvailableAt(l, now) - k /\ AvailableAt(l, now) \in Int
  BY AvailableSpent, AvailableTick
<1>2. Debt(m) \in Nat /\ m.tokens + m.rate * Debt(m) >= 0
  BY <1>1, DebtEarned
<1>3. \A x : Line(m, x) = Line(l, x)
  BY <1>1 DEF Line
<1>4. Line(m, rn) = Line(m, now) + m.rate * Debt(m) /\ Line(m, now) \in Int
      /\ m.rate * Debt(m) \in Int
  <2>1. ASSUME NEW r \in Nat, NEW a \in Int, NEW b \in Nat, NEW q \in Nat
        PROVE  r * ((a + q) - b) = r * (a - b) + r * q /\ r * (a - b) \in Int /\ r * q \in Int
    OBVIOUS
  <2>2. m.rate \in Nat /\ m.born \in Nat /\ m.burst \in Nat
    BY <1>1 DEF Limiters
  <2>3. /\ m.rate * ((now + Debt(m)) - m.born) = m.rate * (now - m.born) + m.rate * Debt(m)
        /\ m.rate * (now - m.born) \in Int /\ m.rate * Debt(m) \in Int
    BY <2>1, <2>2, <1>2
  <2> HIDE DEF m
  <2> QED BY <2>2, <2>3 DEF Line
<1> HIDE DEF m
<1>5. p + 0 + d + AvailableAt(l, now) <= Line(m, now) /\ p <= Line(m, now)
      /\ p + d <= Line(m, Later(now, rd))
  BY <1>3 DEF Metered
<1>6. p + k + d + AvailableAt(m, now) <= Line(m, now)
  BY <1>1, <1>4, <1>5
<1>7. p + k + d <= Line(m, rn)
  <2> HIDE DEF rn
  <2> QED BY <1>1, <1>2, <1>4, <1>5
<1>8. rn \in Nat /\ Later(now, rn) = rn /\ rn <= Later(now, Later(rn, rd))
      /\ Later(now, Later(rn, rd)) \in Nat
  BY <1>2 DEF Later
<1>9. /\ Line(m, rn) <= Line(m, Later(now, Later(rn, rd))) /\ Line(m, rn) \in Int
      /\ Line(m, Later(now, Later(rn, rd))) \in Int
  BY <1>1, <1>8, LineRises
<1> HIDE DEF rn
<1>10. p + k <= Line(m, Later(now, rn)) /\ p + k + d <= Line(m, Later(now, Later(rn, rd)))
  BY <1>7, <1>8, <1>9
<1> QED BY <1>5, <1>6, <1>10 DEF Metered, m, rn

(* A new limiter has given out nothing. *)
LEMMA MeteredNew ==
    ASSUME now \in Nat, NEW r \in Nat, NEW b \in Nat
    PROVE  Metered(NewLimiter(r, b), 0, 0, 0, 0, 0, now)
<1>1. /\ AvailableAt(NewLimiter(r, b), now) = b /\ Later(now, 0) = now
      /\ Later(now, Later(0, 0)) = now
  BY AvailableNew DEF Later
<1>2. Line(NewLimiter(r, b), now) = b
  <2>1. b + r * (now - now) = b OBVIOUS
  <2> QED BY <2>1 DEF Line, NewLimiter
<1> QED BY <1>1, <1>2 DEF Metered

(* The tokens a waiting chunk has reserved, or the bytes it goes without. *)
Owed(w) == IF w.paid THEN w.n ELSE 0
Gift(w) == IF w.paid THEN 0 ELSE w.n

Other(d) == IF d = "up" THEN "down" ELSE "up"

Writers == [Dirs -> Writer]
Relays == [Dirs -> [paid : Nat, free : Nat]]

(* The limiter as direction d and the other one see it. *)
MeteredFor(l, wrs, rs, d, n) ==
    Metered(l, rs[d].paid + rs[Other(d)].paid, Owed(wrs[d]), Owed(wrs[Other(d)]),
            wrs[d].ready, wrs[Other(d)].ready, n)

(* written counts what passed, and what goes free stays near the allowance. *)
Accounted(w, r, b, mf) ==
    /\ w.written = r.paid + r.free
    /\ LargestChunk <= b => r.free + Gift(w) <= mf + LargestChunk

(* A connection that relays with limiter l. *)
Kept(l, wrs, rs, n, mf) ==
    /\ l.rate > 0 /\ l.last <= n
    /\ \A d \in Dirs : MeteredFor(l, wrs, rs, d, n) /\ Accounted(wrs[d], rs[d], l.burst, mf)

NoBytes == [d \in Dirs |-> [paid |-> 0, free |-> 0]]
IdleWriters == [d \in Dirs |-> IdleWriter]

ConnKept(c) ==
    /\ pc[c] = "relay" => Kept(lim[c], dir[c], relayed[c], now, maxFree)
    /\ pc[c] \notin {"relay", "ended"} => dir[c] = IdleWriters /\ relayed[c] = NoBytes

ByteType ==
    /\ now \in 0 .. MaxNow /\ pc \in [Conns -> PCs]
    /\ conf \in [free : Nats, burst : Nats, rate : Nats]
    /\ maxFree \in Nat /\ conf.free <= maxFree
    /\ lim \in [Conns -> Limiters]
    /\ dir \in [Conns -> Writers]
    /\ relayed \in [Conns -> Relays]

ByteInv == ByteType /\ \A c \in Conns : ConnKept(c)

LEMMA LargestIsMax ==
    LargestChunk \in Nat /\ \A n \in Chunks : n \in Nat /\ n <= LargestChunk
<1>1. PICK m \in Chunks : \A n \in Chunks : n <= m
  BY ChunkAssumption
<1>2. \A n \in Chunks : n \in Nat
  BY ChunkAssumption DEF Nats
<1>3. \A y \in Chunks : m >= y
  BY <1>1, <1>2
<1>4. LargestChunk \in Chunks /\ \A y \in Chunks : LargestChunk >= y
  BY <1>3 DEF LargestChunk, Max
<1> QED BY <1>2, <1>4

LEMMA BothDirs ==
    ASSUME NEW d \in Dirs
    PROVE  Other(d) \in Dirs /\ Other(d) # d /\ Other(Other(d)) = d /\ Dirs = {d, Other(d)}
BY DEF Dirs, Other

LEMMA DirTypes ==
    ASSUME NEW wrs \in Writers, NEW rs \in Relays, NEW d \in Dirs
    PROVE  /\ wrs[d] \in Writer /\ rs[d] \in [paid : Nat, free : Nat]
           /\ Owed(wrs[d]) \in Nat /\ Gift(wrs[d]) \in Nat /\ wrs[d].ready \in Nat
           /\ wrs[d].n \in Nat /\ wrs[d].written \in Nat /\ wrs[d].paid \in BOOLEAN
           /\ rs[d].paid \in Nat /\ rs[d].free \in Nat
<1>1. wrs[d] \in Writer /\ rs[d] \in [paid : Nat, free : Nat]
  BY DEF Writers, Relays
<1>2. /\ wrs[d].n \in Nat /\ wrs[d].written \in Nat /\ wrs[d].paid \in BOOLEAN
      /\ wrs[d].ready \in Nat
  BY <1>1 DEF Writer
<1>3. rs[d].paid \in Nat /\ rs[d].free \in Nat
  BY <1>1
<1> QED BY <1>1, <1>2, <1>3 DEF Owed, Gift

(* One direction's view is the other's. *)
LEMMA MeteredEither ==
    ASSUME NEW l \in Limiters, NEW wrs \in Writers, NEW rs \in Relays, NEW d \in Dirs,
           NEW n \in Nat, l.last <= n, MeteredFor(l, wrs, rs, d, n)
    PROVE  MeteredFor(l, wrs, rs, Other(d), n)
<1> DEFINE e == Other(d)
<1>1. e \in Dirs /\ Other(e) = d
  BY BothDirs
<1> HIDE DEF e
<1>2. /\ rs[d].paid + rs[e].paid = rs[e].paid + rs[d].paid
      /\ rs[d].paid + rs[e].paid \in Nat
  BY <1>1, DirTypes
<1>3. AvailableAt(l, n) \in Int
  BY AvailableTick
<1>4. Metered(l, rs[d].paid + rs[e].paid, Owed(wrs[d]), Owed(wrs[e]), wrs[d].ready, wrs[e].ready, n)
  BY DEF MeteredFor, e
<1>5. Metered(l, rs[d].paid + rs[e].paid, Owed(wrs[e]), Owed(wrs[d]), wrs[e].ready, wrs[d].ready, n)
  BY <1>1, <1>2, <1>3, <1>4, DirTypes, MeteredSwap
<1>6. MeteredFor(l, wrs, rs, e, n)
  BY <1>1, <1>2, <1>5 DEF MeteredFor
<1> QED BY <1>6 DEF e

LEMMA KeptTick ==
    ASSUME NEW l \in Limiters, NEW wrs \in Writers, NEW rs \in Relays, NEW n \in Nat,
           NEW mf, Kept(l, wrs, rs, n, mf)
    PROVE  Kept(l, wrs, rs, n + 1, mf)
<1>1. l.last <= n /\ l.last \in Nat
  BY DEF Kept, Limiters
<1>2. ASSUME NEW d \in Dirs PROVE MeteredFor(l, wrs, rs, d, n + 1)
  <2>1. Other(d) \in Dirs
    BY BothDirs
  <2>2. rs[d].paid + rs[Other(d)].paid \in Nat
    BY <2>1, DirTypes
  <2>3. MeteredFor(l, wrs, rs, d, n)
    BY DEF Kept
  <2> QED BY <1>1, <2>1, <2>2, <2>3, DirTypes, MeteredTick DEF MeteredFor
<1> QED BY <1>1, <1>2 DEF Kept

LEMMA KeptNew ==
    ASSUME now \in Nat, NEW r \in Nat, r > 0, NEW b \in Nat, NEW mf \in Nat
    PROVE  Kept(NewLimiter(r, b), IdleWriters, NoBytes, now, mf)
<1> DEFINE l == NewLimiter(r, b)
<1>1. l.rate = r /\ l.last = now /\ l.burst = b
  BY DEF NewLimiter
<1>2. ASSUME NEW d \in Dirs
      PROVE  /\ NoBytes[d].paid = 0 /\ NoBytes[d].free = 0
             /\ IdleWriters[d].ready = 0 /\ IdleWriters[d].written = 0
             /\ Owed(IdleWriters[d]) = 0 /\ Gift(IdleWriters[d]) = 0
  BY DEF NoBytes, IdleWriters, IdleWriter, Owed, Gift
<1>3. ASSUME NEW d \in Dirs PROVE MeteredFor(l, IdleWriters, NoBytes, d, now)
  <2>1. Other(d) \in Dirs BY BothDirs
  <2>2. Metered(l, 0, 0, 0, 0, 0, now) BY MeteredNew
  <2>3. NoBytes[d].paid + NoBytes[Other(d)].paid = 0 BY <1>2, <2>1
  <2> QED BY <1>2, <2>1, <2>2, <2>3 DEF MeteredFor
<1>4. ASSUME NEW d \in Dirs PROVE Accounted(IdleWriters[d], NoBytes[d], l.burst, mf)
  BY <1>2, LargestIsMax DEF Accounted
<1> HIDE DEF l
<1> QED BY <1>1, <1>3, <1>4 DEF Kept, l

(* A chunk comes and waits for its tokens. *)
LEMMA KeptReserve ==
    ASSUME NEW l \in Limiters, NEW wrs \in Writers, NEW rs \in Relays, now \in Nat, NEW mf \in Nat,
           Kept(l, wrs, rs, now, mf), NEW d \in Dirs, NEW k \in Nat, wrs[d].n = 0,
           NEW vs \in Writers, vs[Other(d)] = wrs[Other(d)],
           vs[d] = [wrs[d] EXCEPT !.n = k, !.paid = TRUE, !.ready = now + Debt(Spend(l, k))]
    PROVE  Kept(Spend(l, k), vs, rs, now, mf)
<1> DEFINE e == Other(d)
           m == Spend(l, k)
<1>1. e \in Dirs /\ Dirs = {d, e} /\ vs[e] = wrs[e]
  BY BothDirs
<1>2. l.last <= now /\ l.rate > 0
  BY DEF Kept
<1>3. m \in Limiters /\ m.last = now /\ m.rate = l.rate /\ m.burst = l.burst
  BY <1>2, AvailableSpent
<1>4. wrs[d] \in Writer
  BY DirTypes
<1>5. /\ vs[d].n = k /\ vs[d].paid = TRUE /\ vs[d].ready = now + Debt(m)
      /\ vs[d].written = wrs[d].written
  BY <1>4 DEF Writer
<1>6. Owed(wrs[d]) = 0 /\ Gift(wrs[d]) = 0 /\ Owed(vs[d]) = k /\ Gift(vs[d]) = 0
  BY <1>5 DEF Owed, Gift
<1>7. rs[d].paid + rs[e].paid \in Nat
  BY <1>1, DirTypes
<1>8. Metered(l, rs[d].paid + rs[e].paid, 0, Owed(wrs[e]), wrs[d].ready, wrs[e].ready, now)
  <2>1. MeteredFor(l, wrs, rs, d, now)
    BY DEF Kept
  <2> QED BY <2>1, <1>6 DEF MeteredFor
<1>9. Metered(m, rs[d].paid + rs[e].paid, k, Owed(wrs[e]), now + Debt(m), wrs[e].ready, now)
  <2>1. Owed(wrs[e]) \in Nat /\ wrs[d].ready \in Nat /\ wrs[e].ready \in Nat
    BY <1>1, DirTypes
  <2> HIDE DEF e
  <2> QED BY <1>2, <1>7, <1>8, <2>1, MeteredReserve
<1> HIDE DEF m
<1>10. MeteredFor(m, vs, rs, d, now)
  BY <1>1, <1>5, <1>6, <1>9 DEF MeteredFor
<1>11. MeteredFor(m, vs, rs, e, now)
  <2>1. m.last <= now
    BY <1>3
  <2> QED BY <1>3, <1>10, <2>1, MeteredEither
<1>12. Accounted(vs[d], rs[d], m.burst, mf)
  <2>1. Accounted(wrs[d], rs[d], l.burst, mf)
    BY DEF Kept
  <2> QED BY <2>1, <1>3, <1>5, <1>6 DEF Accounted
<1>13. Accounted(vs[e], rs[e], m.burst, mf)
  BY <1>1, <1>3 DEF Kept
<1> HIDE DEF e
<1>14. m.last <= now /\ m.rate > 0
  BY <1>2, <1>3
<1>15. Kept(m, vs, rs, now, mf)
  BY <1>1, <1>10, <1>11, <1>12, <1>13, <1>14 DEF Kept
<1> QED BY <1>15 DEF m

(* A chunk comes that is within the allowance or above the burst. *)
LEMMA KeptFree ==
    ASSUME NEW l \in Limiters, NEW wrs \in Writers, NEW rs \in Relays, now \in Nat, NEW mf \in Nat,
           Kept(l, wrs, rs, now, mf), NEW d \in Dirs, NEW k \in Chunks, wrs[d].n = 0,
           wrs[d].written <= mf \/ k > l.burst,
           NEW vs \in Writers, vs[Other(d)] = wrs[Other(d)],
           vs[d] = [wrs[d] EXCEPT !.n = k, !.paid = FALSE, !.ready = now]
    PROVE  Kept(l, vs, rs, now, mf)
<1> DEFINE e == Other(d)
<1>1. e \in Dirs /\ Dirs = {d, e} /\ vs[e] = wrs[e]
  BY BothDirs
<1>2. l.last <= now /\ l.rate > 0 /\ l.burst \in Nat
  BY DEF Kept, Limiters
<1>3. wrs[d] \in Writer
  BY DirTypes
<1>4. /\ vs[d].n = k /\ vs[d].paid = FALSE /\ vs[d].ready = now
      /\ vs[d].written = wrs[d].written
  BY <1>3 DEF Writer
<1>5. Owed(wrs[d]) = 0 /\ Gift(wrs[d]) = 0 /\ Owed(vs[d]) = 0 /\ Gift(vs[d]) = k
  BY <1>4 DEF Owed, Gift
<1>6. rs[d].paid + rs[e].paid \in Nat /\ rs[d].paid \in Nat /\ rs[d].free \in Nat
  BY <1>1, DirTypes
<1>7. Metered(l, rs[d].paid + rs[e].paid, 0, Owed(wrs[e]), wrs[d].ready, wrs[e].ready, now)
  <2>1. MeteredFor(l, wrs, rs, d, now)
    BY DEF Kept
  <2> QED BY <2>1, <1>5 DEF MeteredFor
<1>8. Metered(l, rs[d].paid + rs[e].paid, 0, Owed(wrs[e]), now, wrs[e].ready, now)
  <2>1. Owed(wrs[e]) \in Nat /\ wrs[d].ready \in Nat /\ wrs[e].ready \in Nat
    BY <1>1, DirTypes
  <2>2. AvailableAt(l, now) \in Int
    BY <1>2, AvailableTick
  <2> HIDE DEF e
  <2> QED BY <1>6, <1>7, <2>1, <2>2, MeteredFree
<1>9. MeteredFor(l, vs, rs, d, now)
  BY <1>1, <1>4, <1>5, <1>8 DEF MeteredFor
<1>10. MeteredFor(l, vs, rs, e, now)
  BY <1>2, <1>9, MeteredEither
<1>11. Accounted(vs[d], rs[d], l.burst, mf)
  <2>1. wrs[d].written = rs[d].paid + rs[d].free
    BY DEF Kept, Accounted
  <2>2. k \in Nat /\ k <= LargestChunk /\ LargestChunk \in Nat
    BY LargestIsMax
  <2>3. LargestChunk <= l.burst => rs[d].free + k <= mf + LargestChunk
    BY <2>1, <2>2, <1>2, <1>6
  <2> QED BY <2>1, <2>3, <1>4, <1>5 DEF Accounted
<1>12. Accounted(vs[e], rs[e], l.burst, mf)
  BY <1>1 DEF Kept
<1> HIDE DEF e
<1> QED BY <1>1, <1>2, <1>9, <1>10, <1>11, <1>12 DEF Kept

(* The chunk of direction d passes. *)
LEMMA KeptPass ==
    ASSUME NEW l \in Limiters, NEW wrs \in Writers, NEW rs \in Relays, NEW n \in Nat, NEW mf \in Nat,
           Kept(l, wrs, rs, n, mf), NEW d \in Dirs, n >= wrs[d].ready,
           NEW vs \in Writers, vs[Other(d)] = wrs[Other(d)],
           vs[d] = [IdleWriter EXCEPT !.written = wrs[d].written + wrs[d].n],
           NEW qs \in Relays, qs[Other(d)] = rs[Other(d)], qs[d] = Relay(rs[d], wrs[d])
    PROVE  Kept(l, vs, qs, n, mf)
<1> DEFINE e == Other(d)
<1>1. e \in Dirs /\ Dirs = {d, e} /\ vs[e] = wrs[e] /\ qs[e] = rs[e]
  BY BothDirs
<1>2. l.last <= n /\ l.rate > 0
  BY DEF Kept
<1>3. /\ wrs[d].n \in Nat /\ wrs[d].written \in Nat /\ wrs[d].paid \in BOOLEAN /\ wrs[d].ready \in Nat
      /\ rs[d] \in [paid : Nat, free : Nat] /\ rs[d].paid \in Nat /\ rs[d].free \in Nat
      /\ Owed(wrs[d]) \in Nat /\ Gift(wrs[d]) \in Nat
  BY DirTypes
<1>4. /\ rs[e].paid \in Nat /\ Owed(wrs[e]) \in Nat /\ wrs[e].ready \in Nat
      /\ rs[d].paid + rs[e].paid \in Nat
  BY <1>1, <1>3, DirTypes
<1>5. /\ vs[d].n = 0 /\ vs[d].paid = FALSE /\ vs[d].ready = 0
      /\ vs[d].written = wrs[d].written + wrs[d].n
  BY DEF IdleWriter
<1>6. Owed(vs[d]) = 0 /\ Gift(vs[d]) = 0
  BY <1>5 DEF Owed, Gift
<1>7. qs[d].paid = rs[d].paid + Owed(wrs[d]) /\ qs[d].free = rs[d].free + Gift(wrs[d])
  BY <1>3 DEF Relay, Owed, Gift
<1>8. Owed(wrs[d]) + Gift(wrs[d]) = wrs[d].n
  BY <1>3 DEF Owed, Gift
<1> HIDE DEF e
<1>9. Metered(l, (rs[d].paid + rs[e].paid) + Owed(wrs[d]), 0, Owed(wrs[e]), 0, wrs[e].ready, n)
  <2>1. MeteredFor(l, wrs, rs, d, n)
    BY DEF Kept
  <2>2. AvailableAt(l, n) \in Int
    BY <1>2, AvailableTick
  <2>3. Metered(l, rs[d].paid + rs[e].paid, Owed(wrs[d]), Owed(wrs[e]), wrs[d].ready, wrs[e].ready, n)
    BY <2>1 DEF MeteredFor, e
  <2> QED BY <1>3, <1>4, <2>2, <2>3, MeteredPass
<1>10. (rs[d].paid + rs[e].paid) + Owed(wrs[d]) = qs[d].paid + qs[e].paid
  BY <1>1, <1>3, <1>4, <1>7
<1>11. MeteredFor(l, vs, qs, d, n)
  BY <1>1, <1>5, <1>6, <1>9, <1>10 DEF MeteredFor, e
<1>12. MeteredFor(l, vs, qs, e, n)
  BY <1>2, <1>11, MeteredEither DEF e
<1>13. Accounted(vs[d], qs[d], l.burst, mf)
  <2>1. Accounted(wrs[d], rs[d], l.burst, mf)
    BY DEF Kept
  <2>2. vs[d].written = qs[d].paid + qs[d].free
    BY <2>1, <1>3, <1>5, <1>7, <1>8 DEF Accounted
  <2>3. qs[d].free + Gift(vs[d]) = rs[d].free + Gift(wrs[d])
    BY <1>3, <1>6, <1>7
  <2> QED BY <2>1, <2>2, <2>3 DEF Accounted
<1>14. Accounted(vs[e], qs[e], l.burst, mf)
  BY <1>1 DEF Kept
<1> QED BY <1>1, <1>2, <1>11, <1>12, <1>13, <1>14 DEF Kept

(* A larger allowance keeps what was within a smaller one. *)
LEMMA KeptMore ==
    ASSUME NEW l \in Limiters, NEW wrs \in Writers, NEW rs \in Relays, NEW n \in Nat, NEW mf \in Nat,
           NEW more \in Nat, mf <= more, Kept(l, wrs, rs, n, mf)
    PROVE  Kept(l, wrs, rs, n, more)
<1>1. ASSUME NEW d \in Dirs PROVE Accounted(wrs[d], rs[d], l.burst, more)
  <2>1. Accounted(wrs[d], rs[d], l.burst, mf)
    BY DEF Kept
  <2>2. rs[d].free + Gift(wrs[d]) \in Nat
    BY DirTypes
  <2> QED BY <2>1, <2>2, LargestIsMax DEF Accounted
<1> QED BY <1>1 DEF Kept

LEMMA ByteInit == Init => ByteInv
<1> SUFFICES ASSUME Init PROVE ByteInv
  OBVIOUS
<1>1. now \in 0 .. MaxNow /\ pc \in [Conns -> PCs]
  BY BoundAssumption DEF Init, PCs
<1>2. conf \in [free : Nats, burst : Nats, rate : Nats]
  <2>1. conf \in [free : Nat, burst : Nat, rate : Nat] /\ conf.free > 0 /\ conf.burst > 0 /\ conf.rate > 0
    BY LimitsAssumption DEF Init
  <2> QED BY <2>1 DEF Nats
<1>3. maxFree \in Nat /\ conf.free <= maxFree
  BY <1>2 DEF Init, Nats
<1>4. lim \in [Conns -> Limiters]
  BY DEF Init, Limiters, NoLimiter
<1>5. dir \in [Conns -> Writers] /\ relayed \in [Conns -> Relays]
  BY DEF Init, Writers, Writer, IdleWriter, Relays
<1>6. \A c \in Conns : pc[c] = "idle" /\ dir[c] = IdleWriters /\ relayed[c] = NoBytes
  BY DEF Init, IdleWriters, NoBytes
<1> QED BY <1>1, <1>2, <1>3, <1>4, <1>5, <1>6 DEF ByteInv, ByteType, ConnKept

LEMMA ByteNext == ByteInv /\ [Next]_vars => ByteInv'
<1> SUFFICES ASSUME ByteInv, [Next]_vars PROVE ByteInv'
  OBVIOUS
<1> USE DEF procVars, srcVars, byteVars, confVars
<1>t. ByteType /\ now \in Nat /\ maxFree \in Nat /\ \A c \in Conns : ConnKept(c)
  BY BoundAssumption DEF ByteInv, ByteType
<1>c. ASSUME NEW c \in Conns
      PROVE  lim[c] \in Limiters /\ dir[c] \in Writers /\ relayed[c] \in Relays
  BY <1>t DEF ByteType
<1>u. ASSUME UNCHANGED <<now, byteVars, confVars>>, pc' \in [Conns -> PCs],
             \A c \in Conns : pc'[c] = "relay" => pc[c] = "relay",
             \A c \in Conns : pc'[c] \notin {"relay", "ended"} => pc[c] \notin {"relay", "ended"}
      PROVE  ByteInv'
  BY <1>u, <1>t DEF ByteInv, ByteType, ConnKept
<1>1. ASSUME Tick PROVE ByteInv'
  <2>1. now' = now + 1 /\ now' \in 0 .. MaxNow /\ UNCHANGED <<pc, byteVars, confVars>>
    BY <1>1, <1>t, BoundAssumption DEF Tick, ByteType
  <2>2. ASSUME NEW c \in Conns PROVE ConnKept(c)'
    BY <2>1, <1>t, <1>c, KeptTick DEF ConnKept
  <2>3. ByteType'
    BY <2>1, <1>t DEF ByteType
  <2> QED BY <2>2, <2>3 DEF ByteInv
<1>2. ASSUME NEW c \in Conns,
             Lookup(c) \/ Insert(c) \/ Inserted(c) \/ Allow(c) \/ TargetRefused(c)
      PROVE  ByteInv'
  <2>1. UNCHANGED <<now, byteVars, confVars>>
    BY <1>2 DEF Lookup, Insert, Inserted, Allow, TargetRefused
  <2>2. PICK s \in PCs \ {"relay", "ended"} : pc' = [pc EXCEPT ![c] = s]
    <3>1. CASE Lookup(c) BY <3>1 DEF Lookup, PCs
    <3>2. CASE Insert(c) BY <3>2 DEF Insert, PCs
    <3>3. CASE Inserted(c) BY <3>3 DEF Inserted, PCs
    <3>4. CASE Allow(c) BY <3>4 DEF Allow, PCs
    <3>5. CASE TargetRefused(c) BY <3>5 DEF TargetRefused, PCs
    <3> QED BY <1>2, <3>1, <3>2, <3>3, <3>4, <3>5
  <2>3. pc[c] \notin {"relay", "ended"}
    BY <1>2 DEF Lookup, Insert, Inserted, Allow, TargetRefused
  <2> QED BY <2>1, <2>2, <2>3, <1>u, <1>t DEF ByteType
<1>3. ASSUME NEW c \in Conns, TargetAllowed(c) PROVE ByteInv'
  <2>1. /\ UNCHANGED <<now, dir, relayed, confVars>> /\ pc[c] = "target"
        /\ pc' = [pc EXCEPT ![c] = "relay"]
        /\ lim' = [lim EXCEPT ![c] = NewLimiter(conf.rate, conf.burst)]
    BY <1>3 DEF TargetAllowed
  <2>2. conf.rate \in Nat /\ conf.rate > 0 /\ conf.burst \in Nat
    BY <1>t DEF ByteType, Nats
  <2>3. NewLimiter(conf.rate, conf.burst) \in Limiters
    BY <2>2, <1>t, AvailableNew
  <2>4. Kept(NewLimiter(conf.rate, conf.burst), IdleWriters, NoBytes, now, maxFree)
    BY <2>2, <1>t, KeptNew
  <2>5. dir[c] = IdleWriters /\ relayed[c] = NoBytes
    BY <2>1, <1>t DEF ConnKept
  <2>6. lim'[c] = NewLimiter(conf.rate, conf.burst) /\ pc'[c] = "relay"
    BY <2>1, <1>t DEF ByteType
  <2>7. ByteType'
    BY <2>1, <2>3, <1>t DEF ByteType, PCs
  <2>8. ConnKept(c)'
    BY <2>1, <2>4, <2>5, <2>6 DEF ConnKept
  <2>9. ASSUME NEW o \in Conns, o # c PROVE ConnKept(o)'
    <3>1. lim'[o] = lim[o] /\ pc'[o] = pc[o]
      BY <2>1, <2>9, <1>t DEF ByteType
    <3> QED BY <3>1, <2>1, <1>t DEF ConnKept
  <2> QED BY <2>7, <2>8, <2>9 DEF ByteInv
<1>4. ASSUME NEW c \in Conns, End(c) PROVE ByteInv'
  <2>1. /\ UNCHANGED <<now, lim, relayed, confVars>> /\ pc' = [pc EXCEPT ![c] = "ended"]
        /\ dir' = [dir EXCEPT ![c] = [d \in Dirs |-> [dir[c][d] EXCEPT !.n = 0]]]
    BY <1>4, <1>t DEF End, ByteType
  <2>2. [d \in Dirs |-> [dir[c][d] EXCEPT !.n = 0]] \in Writers
    BY <1>c DEF Writers, Writer
  <2>3. ByteType'
    BY <2>1, <2>2, <1>t DEF ByteType, PCs
  <2>4. ASSUME NEW o \in Conns PROVE ConnKept(o)'
    <3>1. CASE o = c
      BY <2>1, <3>1, <1>t DEF ConnKept, ByteType
    <3>2. CASE o # c
      <4>1. dir'[o] = dir[o] /\ pc'[o] = pc[o]
        BY <2>1, <3>2, <1>t DEF ByteType
      <4> QED BY <4>1, <2>1, <1>t DEF ConnKept
    <3> QED BY <3>1, <3>2
  <2> QED BY <2>3, <2>4 DEF ByteInv
<1>5. ASSUME NEW c \in Conns, NEW d \in Dirs, Pass(c, d) PROVE ByteInv'
  <2> DEFINE w == dir[c][d]
             v == [IdleWriter EXCEPT !.written = w.written + w.n]
             q == Relay(relayed[c][d], w)
             e == Other(d)
  <2>1. /\ UNCHANGED <<now, pc, lim, confVars>> /\ pc[c] = "relay" /\ now >= w.ready
        /\ dir' = [dir EXCEPT ![c][d] = v] /\ relayed' = [relayed EXCEPT ![c][d] = q]
    BY <1>5, <1>t DEF Pass, ByteType, Relays
  <2>2. /\ w.n \in Nat /\ w.written \in Nat /\ w.paid \in BOOLEAN
        /\ relayed[c][d] \in [paid : Nat, free : Nat]
    BY <1>c, DirTypes
  <2>3. v \in Writer /\ q \in [paid : Nat, free : Nat]
    <3> HIDE DEF w
    <3>1. w.written + w.n \in Nat
      BY <2>2
    <3>2. v \in Writer
      BY <3>1 DEF IdleWriter, Writer
    <3>3. ASSUME NEW r \in [paid : Nat, free : Nat]
          PROVE  Relay(r, w) \in [paid : Nat, free : Nat]
      BY <2>2 DEF Relay
    <3> QED BY <2>2, <3>2, <3>3
  <2>4. e \in Dirs /\ e # d
    BY BothDirs
  <2>5. /\ dir'[c] \in Writers /\ dir'[c][d] = v /\ dir'[c][e] = dir[c][e]
        /\ relayed'[c] \in Relays /\ relayed'[c][d] = q /\ relayed'[c][e] = relayed[c][e]
        /\ \A o \in Conns \ {c} : dir'[o] = dir[o] /\ relayed'[o] = relayed[o]
        /\ dir' \in [Conns -> Writers] /\ relayed' \in [Conns -> Relays]
    <3> HIDE DEF v, q, e
    <3> QED BY <2>1, <2>3, <2>4, <1>t DEF ByteType, Writers, Relays
  <2>6. Kept(lim[c], dir'[c], relayed'[c], now, maxFree)
    <3>1. Kept(lim[c], dir[c], relayed[c], now, maxFree)
      BY <2>1, <1>t DEF ConnKept
    <3> DEFINE l == lim[c]
               wrs == dir[c]
               rs == relayed[c]
               vs == dir'[c]
               qs == relayed'[c]
    <3>2. l \in Limiters /\ wrs \in Writers /\ rs \in Relays /\ vs \in Writers /\ qs \in Relays
      BY <2>5, <1>c
    <3>3. /\ now >= wrs[d].ready /\ vs[Other(d)] = wrs[Other(d)] /\ qs[Other(d)] = rs[Other(d)]
          /\ vs[d] = [IdleWriter EXCEPT !.written = wrs[d].written + wrs[d].n]
          /\ qs[d] = Relay(rs[d], wrs[d])
      BY <2>1, <2>5
    <3> HIDE DEF l, wrs, rs, vs, qs
    <3>4. Kept(l, wrs, rs, now, maxFree)
      BY <3>1 DEF l, wrs, rs
    <3>5. Kept(l, vs, qs, now, maxFree)
      BY <3>2, <3>3, <3>4, <1>t, KeptPass
    <3> QED BY <3>5 DEF l, vs, qs
  <2> HIDE DEF w, v, q, e
  <2>7. ByteType'
    BY <2>1, <2>5, <1>t DEF ByteType
  <2>8. ConnKept(c)'
    BY <2>1, <2>6 DEF ConnKept
  <2>9. ASSUME NEW o \in Conns, o # c PROVE ConnKept(o)'
    BY <2>1, <2>5, <2>9, <1>t DEF ConnKept
  <2> QED BY <2>7, <2>8, <2>9 DEF ByteInv
<1>6. ASSUME NEW c \in Conns, NEW d \in Dirs, NEW n \in Chunks, Write(c, d, n) PROVE ByteInv'
  <2> DEFINE w == dir[c][d]
             waits == w.written > conf.free /\ n <= lim[c].burst
             after == Spend(lim[c], n)
             v == [w EXCEPT !.n = n, !.paid = waits,
                            !.ready = now + (IF waits THEN Debt(after) ELSE 0)]
             e == Other(d)
  <2>1. /\ UNCHANGED <<now, pc, relayed, confVars>> /\ pc[c] = "relay" /\ w.n = 0
        /\ dir' = [dir EXCEPT ![c][d] = v]
        /\ lim' = [lim EXCEPT ![c] = IF waits THEN after ELSE lim[c]]
    BY <1>6, <1>t DEF Write, ByteType
  <2>2. w \in Writer /\ w.written \in Nat /\ n \in Nat
    BY <1>c, DirTypes, LargestIsMax
  <2>3. Kept(lim[c], dir[c], relayed[c], now, maxFree)
    BY <2>1, <1>t DEF ConnKept
  <2>4. lim[c].last <= now /\ lim[c].rate > 0 /\ lim[c].burst \in Nat
    BY <2>3, <1>c DEF Kept, Limiters
  <2>5. after \in Limiters /\ after.rate > 0 /\ Debt(after) \in Nat
    <3>1. after \in Limiters /\ after.rate = lim[c].rate
      BY <2>2, <2>4, <1>t, <1>c, AvailableSpent
    <3> HIDE DEF after
    <3> QED BY <2>4, <3>1, DebtEarned
  <2>6. e \in Dirs /\ e # d
    BY BothDirs
  <2>7. v \in Writer
    <3> HIDE DEF w, after
    <3>1. waits \in BOOLEAN
      OBVIOUS
    <3>2. now + (IF waits THEN Debt(after) ELSE 0) \in Nat
      BY <2>5, <1>t
    <3> HIDE DEF waits
    <3> QED BY <2>2, <3>1, <3>2 DEF Writer
  <2>8. /\ dir'[c] \in Writers /\ dir'[c][d] = v /\ dir'[c][e] = dir[c][e]
        /\ \A o \in Conns \ {c} : dir'[o] = dir[o]
        /\ dir' \in [Conns -> Writers]
    <3> HIDE DEF v, e
    <3> QED BY <2>1, <2>6, <2>7, <1>t DEF ByteType, Writers
  <2>9. lim'[c] = (IF waits THEN after ELSE lim[c]) /\ lim' \in [Conns -> Limiters]
        /\ \A o \in Conns \ {c} : lim'[o] = lim[o]
    <3> HIDE DEF waits, after
    <3> QED BY <2>1, <2>5, <1>t DEF ByteType
  <2>10. ASSUME waits PROVE Kept(lim'[c], dir'[c], relayed[c], now, maxFree)
    <3>1. dir'[c][d] = [dir[c][d] EXCEPT !.n = n, !.paid = TRUE, !.ready = now + Debt(after)]
      BY <2>8, <2>10
    <3>2. Kept(after, dir'[c], relayed[c], now, maxFree)
      <4> DEFINE l == lim[c]
                 wrs == dir[c]
                 rs == relayed[c]
                 vs == dir'[c]
      <4>1. l \in Limiters /\ wrs \in Writers /\ rs \in Relays /\ vs \in Writers
        BY <2>8, <1>c
      <4>2. /\ n \in Nat /\ wrs[d].n = 0 /\ vs[Other(d)] = wrs[Other(d)]
            /\ vs[d] = [wrs[d] EXCEPT !.n = n, !.paid = TRUE, !.ready = now + Debt(Spend(l, n))]
        BY <3>1, <2>1, <2>2, <2>8
      <4>3. Kept(l, wrs, rs, now, maxFree)
        BY <2>3
      <4> HIDE DEF l, wrs, rs, vs
      <4>4. Kept(Spend(l, n), vs, rs, now, maxFree)
        BY <4>1, <4>2, <4>3, <1>t, KeptReserve
      <4> QED BY <4>4 DEF l, rs, vs
    <3> QED BY <3>2, <2>9, <2>10
  <2>11. ASSUME ~waits PROVE Kept(lim'[c], dir'[c], relayed[c], now, maxFree)
    <3>1. dir'[c][d] = [dir[c][d] EXCEPT !.n = n, !.paid = FALSE, !.ready = now]
      <4>1. now + 0 = now BY <1>t
      <4> QED BY <2>8, <2>11, <4>1
    <3>2. dir[c][d].written <= maxFree \/ n > lim[c].burst
      <4>1. conf.free \in Nat /\ conf.free <= maxFree
        BY <1>t DEF ByteType, Nats
      <4> HIDE DEF w
      <4>2. w.written <= maxFree \/ n > lim[c].burst
        BY <4>1, <2>2, <2>4, <2>11, <1>t
      <4> QED BY <4>2 DEF w
    <3>3. Kept(lim[c], dir'[c], relayed[c], now, maxFree)
      <4> DEFINE l == lim[c]
                 wrs == dir[c]
                 rs == relayed[c]
                 vs == dir'[c]
      <4>1. l \in Limiters /\ wrs \in Writers /\ rs \in Relays /\ vs \in Writers
        BY <2>8, <1>c
      <4>2. /\ (wrs[d].written <= maxFree \/ n > l.burst) /\ wrs[d].n = 0 /\ vs[Other(d)] = wrs[Other(d)]
            /\ vs[d] = [wrs[d] EXCEPT !.n = n, !.paid = FALSE, !.ready = now]
        BY <3>1, <3>2, <2>1, <2>2, <2>8
      <4>3. Kept(l, wrs, rs, now, maxFree)
        BY <2>3
      <4> HIDE DEF l, wrs, rs, vs
      <4>4. Kept(l, vs, rs, now, maxFree)
        BY <4>1, <4>2, <4>3, <1>t, KeptFree
      <4> QED BY <4>4 DEF l, rs, vs
    <3> QED BY <3>3, <2>9, <2>11
  <2>12. Kept(lim'[c], dir'[c], relayed[c], now, maxFree)
    BY <2>10, <2>11
  <2> HIDE DEF w, v, e, waits, after
  <2>13. ByteType'
    BY <2>1, <2>8, <2>9, <1>t DEF ByteType
  <2>14. ConnKept(c)'
    BY <2>1, <2>12 DEF ConnKept
  <2>15. ASSUME NEW o \in Conns, o # c PROVE ConnKept(o)'
    BY <2>1, <2>8, <2>9, <2>15, <1>t DEF ConnKept
  <2> QED BY <2>13, <2>14, <2>15 DEF ByteInv
<1>7. ASSUME NEW r \in Limits, SetRate(r) PROVE ByteInv'
  <2>1. UNCHANGED <<now, pc, byteVars>>
    BY <1>7 DEF SetRate
  <2>2. r \in [free : Nat, burst : Nat, rate : Nat]
    BY LimitsAssumption
  <2>3. conf' \in [free : Nats, burst : Nats, rate : Nats]
    BY <1>7, <2>2, <1>t DEF SetRate, Given, ByteType, Nats
  <2>4. maxFree' \in Nat /\ maxFree <= maxFree' /\ conf'.free <= maxFree'
    <3>1. conf'.free \in Nat
      BY <2>3 DEF Nats
    <3>2. maxFree' = IF conf'.free > maxFree THEN conf'.free ELSE maxFree
      BY <1>7 DEF SetRate
    <3> QED BY <3>1, <3>2, <1>t
  <2>5. ByteType'
    BY <2>1, <2>3, <2>4, <1>t DEF ByteType
  <2>6. ASSUME NEW c \in Conns PROVE ConnKept(c)'
    BY <2>1, <2>4, <1>t, <1>c, KeptMore DEF ConnKept
  <2> QED BY <2>5, <2>6 DEF ByteInv
<1>8. ASSUME UNCHANGED vars PROVE ByteInv'
  BY <1>8, <1>u, <1>t DEF vars, ByteType
<1>9. Carriers \subseteq Conns
  BY BoundAssumption
<1> QED BY <1>1, <1>2, <1>3, <1>4, <1>5, <1>6, <1>7, <1>8, <1>9 DEF Next

(* limitedWriter and WaitN keep both directions of every connection within the
   free allowance and within what its limiter has given out. *)
THEOREM ThrottledHolds == Spec => []Throttled
<1>1. ByteInv => Throttled
  <2> SUFFICES ASSUME ByteInv, NEW c \in Conns, pc[c] = "relay"
               PROVE  /\ relayed[c]["up"].paid + relayed[c]["down"].paid
                            <= lim[c].burst + lim[c].rate * (now - lim[c].born)
                      /\ LargestChunk <= lim[c].burst =>
                            \A d \in Dirs : relayed[c][d].free <= maxFree + LargestChunk
    BY DEF Throttled
  <2>1. /\ Kept(lim[c], dir[c], relayed[c], now, maxFree) /\ maxFree \in Nat
        /\ dir[c] \in Writers /\ relayed[c] \in Relays
    BY DEF ByteInv, ByteType, ConnKept
  <2>2. "up" \in Dirs /\ Other("up") = "down"
    BY DEF Dirs, Other
  <2>3. MeteredFor(lim[c], dir[c], relayed[c], "up", now)
    BY <2>1, <2>2 DEF Kept
  <2>4. relayed[c]["up"].paid + relayed[c]["down"].paid <= Line(lim[c], now)
    BY <2>2, <2>3 DEF MeteredFor, Metered
  <2>5. ASSUME LargestChunk <= lim[c].burst, NEW d \in Dirs
        PROVE  relayed[c][d].free <= maxFree + LargestChunk
    <3>1. relayed[c][d].free + Gift(dir[c][d]) <= maxFree + LargestChunk
      BY <2>1, <2>5 DEF Kept, Accounted
    <3>2. relayed[c][d].free \in Nat /\ Gift(dir[c][d]) \in Nat
      BY <2>1, DirTypes
    <3> QED BY <3>1, <3>2, <2>1, LargestIsMax
  <2> QED BY <2>4, <2>5 DEF Line
<1> QED BY ByteInit, ByteNext, <1>1, PTL DEF Spec

-----------------------------------------------------------------------------
RestType ==
    /\ proc \in {"up", "crashed"} /\ writing \subseteq Conns
    /\ target \in [Conns -> ListedTarget \cup OpenTarget]
    /\ leaked \in Nat

(* Every variable stays in its range: above all, no request to setRate makes
   a limit 0, and no limiter is left with an impossible time or rate. *)
THEOREM TypeCorrect == Spec => []TypeOK
<1>1. Init => RestType
  <2> SUFFICES ASSUME Init PROVE RestType
    OBVIOUS
  <2>1. leaked \in Nat
    BY DEF Init
  <2>2. proc \in {"up", "crashed"} /\ writing \subseteq Conns
    BY DEF Init
  <2>3. target \in [Conns -> ListedTarget \cup OpenTarget]
    BY DEF Init
  <2> QED BY <2>1, <2>2, <2>3 DEF RestType
<1>2. RestType /\ [Next]_vars => RestType'
  <2> SUFFICES ASSUME RestType, [Next]_vars PROVE RestType'
    OBVIOUS
  <2> USE DEF RestType, procVars, srcVars, byteVars, confVars
  <2>1. CASE Tick BY <2>1 DEF Tick
  <2>2. ASSUME NEW c \in Conns, Lookup(c) \/ Insert(c) \/ Allow(c) PROVE RestType'
    BY <2>2 DEF Lookup, Insert, Allow, MapAccess
  <2>3. ASSUME NEW c \in Conns, Inserted(c) PROVE RestType'
    BY <2>3 DEF Inserted
  <2>4. ASSUME NEW c \in Conns, TargetRefused(c) PROVE RestType'
    BY <2>4 DEF TargetRefused
  <2>5. ASSUME NEW c \in Conns, TargetAllowed(c) \/ End(c) PROVE RestType'
    BY <2>5 DEF TargetAllowed, End
  <2>6. ASSUME NEW c \in Conns, NEW d \in Dirs, Pass(c, d) \/ \E n \in Chunks : Write(c, d, n)
        PROVE RestType'
    BY <2>6 DEF Pass, Write
  <2>7. ASSUME NEW r \in Limits, SetRate(r) PROVE RestType'
    BY <2>7 DEF SetRate
  <2>8. CASE UNCHANGED vars BY <2>8 DEF vars
  <2> QED
    BY <2>1, <2>2, <2>3, <2>4, <2>5, <2>6, <2>7, <2>8, BoundAssumption DEF Next
<1>3. RestType /\ SrcInv /\ ByteInv => TypeOK
  BY DEF RestType, SrcInv, SrcType, Times, ByteInv, ByteType, Writers, Relays, TypeOK
<1> QED BY SrcInit, SrcNext, ByteInit, ByteNext, <1>1, <1>2, <1>3, PTL DEF Spec

-----------------------------------------------------------------------------
(* The relay and the shutdown, for the same handlers: any finite set of them.
   The drain is complete because activeWebsocks is at all times the number of
   handlers between their first and their last statement. *)

(* activeWebsocks counts the handlers that have entered and not returned. *)
CountIsRight == active = Cardinality(Counted)

(* A handler counted at the interrupt is still counted, or has returned. *)
HeldEntered == \A c \in held : handler[c] \in Inside \cup {"ended"}

(* Before the relay there is no target connection and no copier. *)
NotYet == \A c \in Handlers : handler[c] \in {"idle", "hijacked", "entered", "dial"} =>
              conn[c] = "none" /\ up[c] = "off" /\ down[c] = "off"

RelayInv ==
    /\ RelayTypeOK
    /\ CountIsRight
    /\ HeldEntered
    /\ NotYet
    /\ DrainedBeforeExit
    /\ NothingLeaks

(* The counted handlers are a finite set, with a natural number of members. *)
LEMMA CountedFinite ==
    IsFiniteSet(Counted) /\ Cardinality(Counted) \in Nat
<1>1. IsFiniteSet(Counted)
  BY HandlersAssumption, FS_Subset DEF Counted
<1> QED BY <1>1, FS_CardinalityType

(* Enter adds one handler to the counted ones. *)
LEMMA EnterCounts ==
    ASSUME RelayTypeOK, CountIsRight, NEW c \in Handlers, Enter(c)
    PROVE  CountIsRight' /\ active' \in Nat
<1>1. c \notin Counted BY DEF Enter, Counted, Inside
<1>2. Counted' = Counted \cup {c} BY DEF Enter, Counted, Inside, RelayTypeOK
<1>3. Cardinality(Counted') = Cardinality(Counted) + 1
  BY <1>1, <1>2, CountedFinite, FS_AddElement
<1> QED BY <1>3, CountedFinite DEF Enter, CountIsRight

(* The deferred calls take one away. *)
LEMMA ReturnCounts ==
    ASSUME RelayTypeOK, CountIsRight, NEW c \in Handlers, handler[c] \in Inside, Return(c)
    PROVE  CountIsRight' /\ active' \in Nat
<1>1. c \in Counted BY DEF Counted
<1>2. Counted' = Counted \ {c} BY DEF Return, Counted, Inside, RelayTypeOK
<1>3. Cardinality(Counted') = Cardinality(Counted) - 1
  BY <1>1, <1>2, CountedFinite, FS_RemoveElement
<1>4. Cardinality(Counted') \in Nat
  BY <1>2, CountedFinite, FS_RemoveElement, FS_CardinalityType
<1> QED BY <1>3, <1>4 DEF Return, CountIsRight

(* Everything else leaves them alone. *)
LEMMA SameCount ==
    ASSUME RelayTypeOK, CountIsRight, UNCHANGED active,
           \A c \in Handlers : handler'[c] \in Inside <=> handler[c] \in Inside
    PROVE  CountIsRight' /\ active' \in Nat
<1>1. Counted' = Counted BY DEF Counted
<1> QED BY <1>1, CountedFinite DEF CountIsRight

(* The initial state satisfies the invariant: nothing is counted. *)
LEMMA RelayStarts == RelayInit => RelayInv
<1> SUFFICES ASSUME RelayInit PROVE RelayInv
  OBVIOUS
<1>1. Counted = {} BY DEF RelayInit, Counted, Inside
<1>2. CountIsRight BY <1>1, FS_EmptySet DEF RelayInit, CountIsRight
<1>3. RelayTypeOK BY DEF RelayInit, RelayTypeOK, Inside
<1>4. HeldEntered /\ NotYet /\ DrainedBeforeExit /\ NothingLeaks
  BY DEF RelayInit, HeldEntered, NotYet, DrainedBeforeExit, NothingLeaks
<1> QED BY <1>2, <1>3, <1>4 DEF RelayInv

(* The steps of one handler, its goroutines and its peers. *)
LEMMA RelayHandlers ==
    ASSUME RelayInv, NEW c \in Handlers,
           \/ Hijack(c) \/ Enter(c) \/ Refuse(c)
           \/ Dial(c) \/ DialFail(c) \/ DialOk(c)
           \/ UpRead(c) \/ UpWrite(c) \/ UpEnds(c)
           \/ DownRead(c) \/ DownWrite(c) \/ DownEnds(c)
           \/ Finish(c) \/ PingFails(c) \/ PingEnds(c)
           \/ BrowserLeaves(c) \/ TargetLeaves(c)
    PROVE  RelayInv'
<1> USE DEF RelayInv, RelayTypeOK, HeldEntered, NotYet, DrainedBeforeExit, NothingLeaks,
            Inside, relayVars, peerVars, Copying, Running
<1>1. CASE Hijack(c)
  <2>1. CountIsRight' BY <1>1, SameCount DEF Hijack
  <2> QED BY <1>1, <2>1 DEF Hijack
<1>2. CASE Enter(c)
  <2>1. CountIsRight' /\ active' \in Nat BY <1>2, EnterCounts
  <2> QED BY <1>2, <2>1 DEF Enter
<1>3. CASE Refuse(c)
  <2>1. CountIsRight' /\ active' \in Nat BY <1>3, ReturnCounts DEF Refuse
  <2> QED BY <1>3, <2>1 DEF Refuse, Return
<1>4. CASE Dial(c)
  <2>1. CountIsRight' BY <1>4, SameCount DEF Dial
  <2> QED BY <1>4, <2>1 DEF Dial
<1>5. CASE DialFail(c)
  <2>1. CountIsRight' /\ active' \in Nat BY <1>5, ReturnCounts DEF DialFail
  <2> QED BY <1>5, <2>1 DEF DialFail, Return
<1>6. CASE DialOk(c)
  <2>1. CountIsRight' BY <1>6, SameCount DEF DialOk
  <2> QED BY <1>6, <2>1 DEF DialOk
<1>7. CASE UpRead(c) \/ UpWrite(c)
  <2>1. CountIsRight' BY <1>7, SameCount DEF UpRead, UpWrite
  <2> QED BY <1>7, <2>1 DEF UpRead, UpWrite
<1>8. CASE UpEnds(c)
  <2>1. CountIsRight' BY <1>8, SameCount DEF UpEnds
  <2> QED BY <1>8, <2>1 DEF UpEnds, UpFails
<1>9. CASE DownRead(c) \/ DownWrite(c)
  <2>1. CountIsRight' BY <1>9, SameCount DEF DownRead, DownWrite
  <2> QED BY <1>9, <2>1 DEF DownRead, DownWrite
<1>10. CASE DownEnds(c)
  <2>1. CountIsRight' BY <1>10, SameCount DEF DownEnds
  <2> QED BY <1>10, <2>1 DEF DownEnds, DownFails
<1>11. CASE Finish(c)
  <2>1. CountIsRight' /\ active' \in Nat BY <1>11, ReturnCounts DEF Finish
  <2> QED BY <1>11, <2>1 DEF Finish, Return
<1>12. CASE PingFails(c) \/ PingEnds(c)
  <2>1. CountIsRight' BY <1>12, SameCount DEF PingFails, PingEnds
  <2>2. ping' \in [Handlers -> BOOLEAN]
    <3>1. ping \in [Handlers -> BOOLEAN] OBVIOUS
    <3>2. ping' = [ping EXCEPT ![c] = FALSE] BY <1>12 DEF PingFails, PingEnds
    <3> HIDE DEF RelayInv, RelayTypeOK
    <3> QED BY <3>1, <3>2, Zenon
  <2>3. browser' \in [Handlers -> {"here", "lost", "gone"}]
    BY <1>12 DEF PingFails, PingEnds
  <2> QED BY <1>12, <2>1, <2>2, <2>3 DEF PingFails, PingEnds
<1>13. CASE BrowserLeaves(c) \/ TargetLeaves(c)
  <2>1. CountIsRight' BY <1>13, SameCount DEF BrowserLeaves, TargetLeaves
  <2> QED BY <1>13, <2>1 DEF BrowserLeaves, TargetLeaves
<1> QED BY <1>1, <1>2, <1>3, <1>4, <1>5, <1>6, <1>7, <1>8, <1>9, <1>10, <1>11,
           <1>12, <1>13

(* The loop of main leaves with no handler counted, hence none held. *)
LEMMA RelayLoadZero == ASSUME RelayInv, LoadZero PROVE RelayInv'
<1>1. CountIsRight' BY SameCount DEF RelayInv, LoadZero
<1>2. Counted = {}
  BY CountedFinite, FS_EmptySet DEF RelayInv, CountIsRight, LoadZero
<1>3. \A c \in held : handler[c] = "ended"
  BY <1>2 DEF RelayInv, HeldEntered, Counted, RelayTypeOK
<1> QED
  BY <1>1, <1>3 DEF RelayInv, RelayTypeOK, HeldEntered, NotYet, DrainedBeforeExit,
                    NothingLeaks, LoadZero, relayVars, peerVars

(* Every step preserves the invariant. *)
LEMMA RelayGoesOn == RelayInv /\ [RelayNext]_wsVars => RelayInv'
<1> SUFFICES ASSUME RelayInv, [RelayNext]_wsVars PROVE RelayInv'
  OBVIOUS
<1>1. CASE Interrupt
  <2>1. CountIsRight' BY <1>1, SameCount DEF RelayInv, Interrupt
  <2> QED BY <1>1, <2>1 DEF RelayInv, RelayTypeOK, HeldEntered, NotYet, DrainedBeforeExit,
             NothingLeaks, Interrupt, Counted, relayVars, peerVars
<1>2. CASE ShutdownReturns \/ Exit
  <2>1. CountIsRight' BY <1>2, SameCount DEF RelayInv, ShutdownReturns, Exit
  <2> QED BY <1>2, <2>1 DEF RelayInv, RelayTypeOK, HeldEntered, NotYet, DrainedBeforeExit,
             NothingLeaks, ShutdownReturns, Exit, relayVars, peerVars
<1>3. CASE UNCHANGED wsVars
  <2>1. CountIsRight' BY <1>3, SameCount DEF RelayInv, wsVars
  <2> QED BY <1>3, <2>1 DEF RelayInv, RelayTypeOK, HeldEntered, NotYet, DrainedBeforeExit,
             NothingLeaks, wsVars, relayVars, peerVars
<1> QED BY RelayHandlers, RelayLoadZero, <1>1, <1>2, <1>3 DEF RelayNext

(* The variables stay in their ranges; activeWebsocks never falls below 0. *)
THEOREM RelayTypeCorrect == RelaySpec => []RelayTypeOK
<1>1. RelayInv => RelayTypeOK BY DEF RelayInv
<1> QED BY RelayStarts, RelayGoesOn, <1>1, PTL DEF RelaySpec

(* main leaves its drain loop only after every handler that was counted at
   the interrupt has returned, for any finite number of handlers. *)
THEOREM DrainedBeforeExitHolds == RelaySpec => []DrainedBeforeExit
<1>1. RelayInv => DrainedBeforeExit BY DEF RelayInv
<1> QED BY RelayStarts, RelayGoesOn, <1>1, PTL DEF RelaySpec

(* A handler that returned has closed both sockets and outlived both of its
   copiers. *)
THEOREM NothingLeaksHolds == RelaySpec => []NothingLeaks
<1>1. RelayInv => NothingLeaks BY DEF RelayInv
<1> QED BY RelayStarts, RelayGoesOn, <1>1, PTL DEF RelaySpec
=============================================================================
