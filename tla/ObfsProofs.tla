----------------------------- MODULE ObfsProofs -----------------------------
(***************************************************************************)
(* Proofs about Obfs, for any keys and any number of messages.             *)
(*                                                                         *)
(* What a side has written is one sequence: its seed or key, then its      *)
(* payload, masked in order.  The wire holds the part of it that comes     *)
(* after what the other side has taken, first for the handshake, then for  *)
(* its Reads; once both are done the two secrets are equal.                *)
(***************************************************************************)
EXTENDS Obfs, FiniteSetTheorems, SequenceTheorems, TLAPS

-----------------------------------------------------------------------------
(* Sequences of whatever the wire carries. *)

IsSeq(q) == \E U : q \in Seq(U)

LEMMA SeqAppend ==
    ASSUME NEW q, IsSeq(q), NEW x
    PROVE  /\ IsSeq(Append(q, x)) /\ Len(q) \in Nat /\ Len(Append(q, x)) = Len(q) + 1
           /\ \A i \in 1 .. Len(q) : Append(q, x)[i] = q[i]
           /\ Append(q, x)[Len(q) + 1] = x
<1>1. PICK U : q \in Seq(U)
  BY DEF IsSeq
<1> DEFINE V == U \cup {x}
<1>2. q \in Seq(V)
  <2>1. Len(q) \in Nat /\ q = [i \in 1 .. Len(q) |-> q[i]] /\ \A i \in 1 .. Len(q) : q[i] \in V
    BY <1>1
  <2> QED BY <2>1
<1>3. x \in V
  OBVIOUS
<1> HIDE DEF V
<1>4. Append(q, x) \in Seq(V)
  BY <1>2, <1>3
<1> QED BY <1>2, <1>3, <1>4 DEF IsSeq

LEMMA SeqTail ==
    ASSUME NEW q, IsSeq(q), q # <<>>
    PROVE  /\ IsSeq(Tail(q)) /\ Len(q) \in Nat /\ Len(q) > 0
           /\ Len(Tail(q)) = Len(q) - 1 /\ Head(q) = q[1]
           /\ \A i \in 1 .. Len(q) - 1 : Tail(q)[i] = q[i + 1]
<1>1. PICK U : q \in Seq(U)
  BY DEF IsSeq
<1>2. Tail(q) \in Seq(U) /\ Len(q) \in Nat /\ Len(q) > 0
  BY <1>1
<1> QED BY <1>1, <1>2 DEF IsSeq

LEMMA SeqEmpty ==
    /\ IsSeq(<<>>) /\ Len(<<>>) = 0
    /\ \A q : IsSeq(q) => Len(q) \in Nat
    /\ \A q : IsSeq(q) /\ Len(q) = 0 => q = <<>>
<1>1. <<>> \in Seq({})
  OBVIOUS
<1>2. ASSUME NEW q, IsSeq(q) PROVE Len(q) \in Nat /\ (Len(q) = 0 => q = <<>>)
  <2>1. PICK U : q \in Seq(U)
    BY <1>2 DEF IsSeq
  <2> QED BY <2>1
<1> QED BY <1>1, <1>2 DEF IsSeq

LEMMA FcnIsSeq ==
    ASSUME NEW U, NEW n \in Nat, NEW f \in [1 .. n -> U]
    PROVE  f \in Seq(U) /\ Len(f) = n /\ IsSeq(f)
<1>1. f \in Seq(U)
  OBVIOUS
<1>2. Len(f) = n
  OBVIOUS
<1> QED BY <1>1, <1>2 DEF IsSeq

(* Sequences of the same length and elements. *)
LEMMA SameSequence ==
    ASSUME NEW p, NEW q, IsSeq(p), IsSeq(q), Len(p) = Len(q),
           \A i \in 1 .. Len(p) : p[i] = q[i]
    PROVE  p = q
<1>1. PICK U : p \in Seq(U)
  BY DEF IsSeq
<1>2. PICK V : q \in Seq(V)
  BY DEF IsSeq
<1>3. p = [i \in 1 .. Len(p) |-> p[i]] /\ q = [i \in 1 .. Len(q) |-> q[i]]
  BY <1>1, <1>2
<1> QED BY <1>3

-----------------------------------------------------------------------------
(* The handshake's units. *)

(* What side s sends before its payload. *)
Opening(s) == IF Sends(s) THEN HsUnits(s) ELSE <<>>

LEMMA OtherSide ==
    ASSUME NEW s \in Sides
    PROVE  Other(s) \in Sides /\ Other(s) # s /\ Other(Other(s)) = s /\ Sides = {s, Other(s)}
BY DEF Sides, Other

LEMMA HsShape ==
    ASSUME NEW s \in Sides
    PROVE  /\ IsSeq(HsUnits(s)) /\ Len(HsUnits(s)) \in {1, 2} /\ <<>> \o HsUnits(s) = HsUnits(s)
           /\ \A i \in 1 .. Len(HsUnits(s)) : HsUnits(s)[i].t # "data"
           /\ IsSeq(Opening(s)) /\ Len(Opening(s)) \in 0 .. 2 /\ Need(s) \in 0 .. 2
           /\ \A i \in 1 .. Len(Opening(s)) : Opening(s)[i].t # "data"
<1>1. /\ IsSeq(SeedUnit(s)) /\ Len(SeedUnit(s)) = 1 /\ <<>> \o SeedUnit(s) = SeedUnit(s)
      /\ SeedUnit(s)[1].t # "data"
  <2>1. SeedUnit(s) \in Seq({[t |-> "seed", from |-> s]})
    BY DEF SeedUnit
  <2>2. Len(SeedUnit(s)) = 1 /\ SeedUnit(s)[1] = [t |-> "seed", from |-> s]
    BY DEF SeedUnit
  <2>3. <<>> \o SeedUnit(s) = SeedUnit(s)
    BY DEF SeedUnit
  <2> QED BY <2>1, <2>2, <2>3 DEF IsSeq
<1>2. /\ IsSeq(PubUnits(s)) /\ Len(PubUnits(s)) = 2 /\ <<>> \o PubUnits(s) = PubUnits(s)
      /\ \A i \in 1 .. 2 : PubUnits(s)[i].t # "data"
  <2> DEFINE U == {[t |-> "pub", from |-> s, part |-> i] : i \in 1 .. 2}
  <2>1. PubUnits(s) \in [1 .. 2 -> U]
    BY DEF PubUnits
  <2>2. \A i \in 1 .. 2 : PubUnits(s)[i].t = "pub"
    BY DEF PubUnits
  <2> HIDE DEF U
  <2>3. PubUnits(s) \in Seq(U) /\ Len(PubUnits(s)) = 2
    BY <2>1, FcnIsSeq
  <2>4. <<>> \o PubUnits(s) = PubUnits(s)
    BY <2>3, ConcatEmptySeq
  <2> QED BY <2>2, <2>3, <2>4 DEF IsSeq
<1>3. IsSeq(<<>>) /\ Len(<<>>) = 0
  BY SeqEmpty
<1>4. /\ IsSeq(HsUnits(s)) /\ Len(HsUnits(s)) \in {1, 2} /\ <<>> \o HsUnits(s) = HsUnits(s)
      /\ \A i \in 1 .. Len(HsUnits(s)) : HsUnits(s)[i].t # "data"
  <2>1. CASE psk[s] = Empty
    <3>1. HsUnits(s) = PubUnits(s)
      BY <2>1 DEF HsUnits
    <3> QED BY <1>2, <3>1
  <2>2. CASE psk[s] # Empty
    <3>1. HsUnits(s) = SeedUnit(s)
      BY <2>2 DEF HsUnits
    <3>2. \A i \in 1 .. 1 : SeedUnit(s)[i].t # "data"
      BY <1>1
    <3> QED BY <1>1, <3>1, <3>2
  <2> QED BY <2>1, <2>2
<1>5. IsSeq(Opening(s)) /\ Len(Opening(s)) \in 0 .. 2
      /\ \A i \in 1 .. Len(Opening(s)) : Opening(s)[i].t # "data"
  BY <1>3, <1>4 DEF Opening
<1> QED BY <1>4, <1>5 DEF Need

Paired == psk["client"] = psk["server"]

(* Ends with the same configuration expect what the other sends. *)
LEMMA OpeningExpected ==
    ASSUME Paired, NEW s \in Sides
    PROVE  Len(Opening(s)) = Need(Other(s)) /\ psk[s] = psk[Other(s)]
<1>1. Len(SeedUnit(s)) = 1 /\ Len(PubUnits(s)) = 2 /\ Len(<<>>) = 0
  <2>1. PubUnits(s) \in [1 .. 2 -> {[t |-> "pub", from |-> s, part |-> i] : i \in 1 .. 2}]
    BY DEF PubUnits
  <2>2. Len(PubUnits(s)) = 2
    BY <2>1
  <2> QED BY <2>2 DEF SeedUnit
<1>2. psk[s] = psk[Other(s)]
  BY DEF Paired, Sides, Other
<1>3. CASE psk[s] = Empty
  BY <1>1, <1>2, <1>3 DEF Opening, HsUnits, Sends, Need
<1>4. CASE psk[s] # Empty /\ s = "client"
  BY <1>1, <1>2, <1>4 DEF Opening, HsUnits, Sends, Need, Other
<1>5. CASE psk[s] # Empty /\ s = "server"
  BY <1>1, <1>2, <1>5 DEF Opening, HsUnits, Sends, Need, Other
<1> QED BY <1>2, <1>3, <1>4, <1>5 DEF Sides

(* Both ends derive the same secret from each other's opening. *)
LEMMA SameSecret ==
    ASSUME Paired, NEW s \in Sides,
           peer[s] = Opening(Other(s)), peer[Other(s)] = Opening(s)
    PROVE  Secret(s) = Secret(Other(s))
<1>1. psk[s] = psk[Other(s)]
  BY DEF Paired, Sides, Other
<1>2. CASE psk[s] = Empty
  <2>1. peer[s] = PubUnits(Other(s)) /\ peer[Other(s)] = PubUnits(s)
    BY <1>1, <1>2 DEF Opening, HsUnits, Sends
  <2>2. {PubUnits(s), peer[s]} = {PubUnits(Other(s)), peer[Other(s)]}
    BY <2>1
  <2> QED BY <1>1, <1>2, <2>2 DEF Secret
<1>3. CASE psk[s] # Empty /\ s = "client"
  BY <1>1, <1>3 DEF Secret, Opening, HsUnits, Sends, Other
<1>4. CASE psk[s] # Empty /\ s = "server"
  BY <1>1, <1>4 DEF Secret, Opening, HsUnits, Sends, Other
<1> QED BY <1>2, <1>3, <1>4 DEF Sides

-----------------------------------------------------------------------------
(* How far the handshakes and the streams are. *)

(* The units that side s has written. *)
Through(s) == Len(peer[Other(s)]) + rpos[Other(s)] + Len(wire[s])

Ranges ==
    /\ psk \in [Sides -> Keys \cup {Empty}] /\ buffered \in BOOLEAN /\ closed \in BOOLEAN
    /\ g \in [Sides -> [Goroutines -> {"idle", "once", "run", "failed"}]]
    /\ once \in [Sides -> {"new", "busy", "ok", "err"}]
    /\ helper \in [Sides -> {"off", "ready", "writing", "sent", "err"}]
    /\ writing \in [Sides -> BOOLEAN]
    /\ wpos \in [Sides -> 0 .. MaxMsgs] /\ rpos \in [Sides -> Nat]
    /\ DOMAIN peer = Sides /\ DOMAIN secret = Sides /\ DOMAIN wire = Sides /\ DOMAIN got = Sides
    /\ \A s \in Sides : IsSeq(peer[s]) /\ IsSeq(wire[s]) /\ IsSeq(got[s])

(* A side reads and writes payload only when its handshake has succeeded. *)
Settled(s) ==
    /\ Len(peer[s]) <= Need(s) /\ Len(got[s]) = rpos[s]
    /\ \A k \in Goroutines : g[s][k] = "run" => once[s] = "ok"
    /\ wpos[s] > 0 \/ rpos[s] > 0 => once[s] = "ok"
    /\ once[s] = "ok" => /\ Len(peer[s]) = Need(s) /\ secret[s] = Secret(s)
                         /\ helper[s] = IF Sends(s) THEN "sent" ELSE "off"
    /\ once[s] = "new" => helper[s] = "off"
    /\ helper[s] # "off" => Sends(s)

(* A side with helper h and once o, an opening of n units and w messages has
   written nothing, or its opening and all its messages. *)
Progress(h, o, through, n, w) ==
    /\ through \in {0, n + w}
    /\ h = "ready" \/ (h = "off" /\ o # "ok") => through = 0
    /\ h \in {"writing", "sent"} \/ o = "ok" => through = n + w

Far(s) == Settled(s) /\ Progress(helper[s], once[s], Through(s), Len(Opening(s)), wpos[s])

HsInv == Ranges /\ \A s \in Sides : Far(s)

LEMMA HsInit == Init => HsInv
<1> SUFFICES ASSUME Init PROVE HsInv
  OBVIOUS
<1>1. /\ psk \in [Sides -> Keys \cup {Empty}] /\ buffered \in BOOLEAN
      /\ g \in [Sides -> [Goroutines -> {"idle", "once", "run", "failed"}]]
      /\ once \in [Sides -> {"new", "busy", "ok", "err"}]
      /\ helper \in [Sides -> {"off", "ready", "writing", "sent", "err"}]
      /\ wpos \in [Sides -> 0 .. MaxMsgs] /\ rpos \in [Sides -> Nat]
      /\ DOMAIN peer = Sides /\ DOMAIN secret = Sides /\ DOMAIN wire = Sides /\ DOMAIN got = Sides
  BY MaxMsgsAssumption DEF Init
<1>2. closed \in BOOLEAN /\ writing \in [Sides -> BOOLEAN]
  BY DEF Init
<1>3. \A s \in Sides : /\ peer[s] = <<>> /\ wire[s] = <<>> /\ got[s] = <<>> /\ rpos[s] = 0
                       /\ wpos[s] = 0 /\ once[s] = "new" /\ helper[s] = "off"
                       /\ \A k \in Goroutines : g[s][k] = "idle"
  BY DEF Init
<1>4. Ranges
  BY <1>1, <1>2, <1>3, SeqEmpty DEF Ranges
<1>5. ASSUME NEW s \in Sides PROVE Far(s)
  <2>1. Through(s) = 0
    BY <1>3, OtherSide, SeqEmpty DEF Through
  <2>2. Len(peer[s]) = 0 /\ Len(got[s]) = 0 /\ Need(s) \in 0 .. 2
    BY <1>3, SeqEmpty, HsShape
  <2> QED BY <1>3, <2>1, <2>2 DEF Far, Settled, Progress
<1> QED BY <1>4, <1>5 DEF HsInv

(* A step that leaves the streams alone. *)
LEMMA HsSame ==
    ASSUME HsInv, UNCHANGED <<psk, peer, secret, wire, wpos, rpos, got>>, Ranges',
           \A s \in Sides :
              /\ \A k \in Goroutines : g'[s][k] = "run" => once'[s] = "ok"
              /\ once[s] = "ok" => once'[s] = "ok"
              /\ once'[s] = "ok" => /\ Len(peer[s]) = Need(s) /\ secret[s] = Secret(s)
                                    /\ helper'[s] = IF Sends(s) THEN "sent" ELSE "off"
              /\ once'[s] = "new" => helper'[s] = "off"
              /\ helper'[s] # "off" => Sends(s)
              /\ Progress(helper'[s], once'[s], Through(s), Len(Opening(s)), wpos[s])
    PROVE  HsInv'
<1>1. ASSUME NEW s \in Sides
      PROVE  /\ Through(s)' = Through(s) /\ Opening(s)' = Opening(s) /\ Need(s)' = Need(s)
             /\ Sends(s)' = Sends(s) /\ Secret(s)' = Secret(s)
  BY DEF Through, Opening, HsUnits, Sends, Need, Secret
<1>2. ASSUME NEW s \in Sides PROVE Far(s)'
  <2>1. Settled(s)'
    BY <1>1 DEF HsInv, Far, Settled
  <2> QED BY <2>1, <1>1 DEF Far
<1> QED BY <1>2 DEF HsInv

(* The units a side takes from the wire have been written before. *)
LEMMA HsTake ==
    ASSUME HsInv, NEW s \in Sides, wire[Other(s)] # <<>>, Take(s)
    PROVE  /\ DOMAIN wire' = Sides /\ \A t \in Sides : IsSeq(wire'[t])
           /\ wire'[s] = wire[s] /\ Len(wire'[Other(s)]) = Len(wire[Other(s)]) - 1
           /\ Len(wire[Other(s)]) \in Nat /\ Len(wire[Other(s)]) > 0
           /\ wire'[Other(s)] = Tail(wire[Other(s)])
<1>1. Other(s) \in Sides /\ Other(s) # s /\ Sides = {s, Other(s)}
  BY OtherSide
<1>2. DOMAIN wire = Sides /\ IsSeq(wire[s]) /\ IsSeq(wire[Other(s)])
  BY <1>1 DEF HsInv, Ranges
<1>3. DOMAIN wire' = Sides /\ wire'[s] = wire[s] /\ wire'[Other(s)] = Tail(wire[Other(s)])
  BY <1>1, <1>2 DEF Take
<1> QED BY <1>1, <1>2, <1>3, SeqTail

LEMMA HsNext == HsInv /\ [Next]_vars => HsInv'
<1> SUFFICES ASSUME HsInv, [Next]_vars PROVE HsInv'
  OBVIOUS
<1> USE DEF hsVars, dataVars
<1>r. Ranges /\ \A s \in Sides : Far(s)
  BY DEF HsInv
<1>n. ASSUME NEW s \in Sides
      PROVE  /\ Len(peer[s]) \in Nat /\ Len(wire[s]) \in Nat /\ Len(got[s]) \in Nat
             /\ rpos[s] \in Nat /\ wpos[s] \in Nat /\ Need(s) \in Nat
             /\ Len(Opening(s)) \in 0 .. 2 /\ Through(s) \in Nat
  <2>1. \A t \in Sides : Len(peer[t]) \in Nat /\ Len(wire[t]) \in Nat /\ Len(got[t]) \in Nat
    BY <1>r, SeqEmpty DEF Ranges
  <2>2. \A t \in Sides : rpos[t] \in Nat
    BY <1>r DEF Ranges
  <2>3. wpos[s] \in Nat /\ Need(s) \in Nat /\ Len(Opening(s)) \in 0 .. 2
    <3>1. wpos[s] \in Nat
      BY <1>r, MaxMsgsAssumption DEF Ranges
    <3> QED BY <3>1, HsShape
  <2>4. Through(s) \in Nat
    BY <2>1, <2>2, OtherSide DEF Through
  <2> QED BY <2>1, <2>2, <2>3, <2>4
<1>1. ASSUME NEW s \in Sides, NEW k \in Goroutines, Call(s, k) PROVE HsInv'
  <2>1. Ranges'
    BY <1>1, <1>r DEF Call, Set, Ranges
  <2>2. ASSUME NEW t \in Sides, NEW j \in Goroutines, g'[t][j] = "run" PROVE g[t][j] = "run"
    BY <1>1, <1>r, <2>2 DEF Call, Set, Ranges
  <2>3. ASSUME NEW t \in Sides
        PROVE  /\ once[t] # "new" => once'[t] = once[t] /\ helper'[t] = helper[t]
               /\ once'[t] \in {once[t], "busy"} /\ (once'[t] # once[t] => once[t] = "new")
               /\ helper'[t] = helper[t] \/ (once'[t] = "busy" /\ helper'[t] = IF Sends(t) THEN "ready" ELSE "off")
    BY <1>1, <1>r DEF Call, Ranges
  <2>4. ASSUME NEW t \in Sides
        PROVE  /\ \A j \in Goroutines : g'[t][j] = "run" => once'[t] = "ok"
               /\ once[t] = "ok" => once'[t] = "ok"
               /\ once'[t] = "ok" => /\ Len(peer[t]) = Need(t) /\ secret[t] = Secret(t)
                                     /\ helper'[t] = IF Sends(t) THEN "sent" ELSE "off"
               /\ once'[t] = "new" => helper'[t] = "off"
               /\ helper'[t] # "off" => Sends(t)
               /\ Progress(helper'[t], once'[t], Through(t), Len(Opening(t)), wpos[t])
    BY <2>2, <2>3, <1>r DEF Far, Settled, Progress
  <2> QED BY <1>1, <2>1, <2>4, HsSame DEF Call
<1>2. ASSUME NEW s \in Sides, NEW k \in Goroutines, Return(s, k) \/ Fail(s, k) PROVE HsInv'
  <2>1. Ranges'
    <3>1. CASE Return(s, k) BY <3>1, <1>r DEF Return, Set, Ranges
    <3>2. CASE Fail(s, k)
      <4>1. writing' \in [Sides -> BOOLEAN]
        BY <3>2, <1>r DEF Fail, Ranges
      <4> QED BY <3>2, <4>1, <1>r DEF Fail, Set, Ranges
    <3> QED BY <1>2, <3>1, <3>2
  <2>2. ASSUME NEW t \in Sides, NEW j \in Goroutines, g'[t][j] = "run" PROVE once[t] = "ok"
    <3>1. g'[t][j] = g[t][j] \/ (t = s /\ once[s] = "ok")
      BY <1>2, <1>r, <2>2 DEF Return, Fail, Set, Ranges
    <3> QED BY <2>2, <3>1, <1>r DEF Far, Settled
  <2>3. UNCHANGED <<psk, hsVars, wire, wpos, rpos, got>>
    BY <1>2 DEF Return, Fail
  <2> QED BY <2>1, <2>2, <2>3, <1>r, HsSame DEF Far, Settled
<1>3. ASSUME NEW s \in Sides, HsWrite(s) PROVE HsInv'
  <2> DEFINE o == Other(s)
  <2>1. /\ UNCHANGED <<psk, g, once, peer, secret, wpos, rpos, got>>
        /\ helper[s] = "ready" /\ helper' = [helper EXCEPT ![s] = "writing"]
        /\ wire' = [wire EXCEPT ![s] = wire[s] \o HsUnits(s)]
    BY <1>3, <1>r DEF HsWrite, Ranges
  <2>2. Through(s) = 0 /\ Len(wire[s]) = 0 /\ Len(peer[o]) = 0 /\ rpos[o] = 0
    <3>1. Through(s) = 0
      BY <2>1, <1>r DEF Far, Progress
    <3>2. o \in Sides BY OtherSide
    <3> QED BY <3>1, <3>2, <1>n DEF Through
  <2>3. wire[s] = <<>>
    BY <2>2, <1>r, SeqEmpty DEF Ranges
  <2>4. wire'[s] = HsUnits(s) /\ \A t \in Sides \ {s} : wire'[t] = wire[t]
    BY <2>1, <2>3, <1>r, HsShape DEF Ranges
  <2>5. Ranges'
    <3>1. DOMAIN wire' = Sides /\ \A t \in Sides : IsSeq(wire'[t])
      <4>1. DOMAIN wire' = Sides
        BY <2>1, <1>r DEF Ranges
      <4>2. IsSeq(wire'[s])
        BY <2>4, HsShape
      <4>3. ASSUME NEW t \in Sides \ {s} PROVE IsSeq(wire'[t])
        BY <2>4, <1>r DEF Ranges
      <4> QED BY <4>1, <4>2, <4>3
    <3>2. helper' \in [Sides -> {"off", "ready", "writing", "sent", "err"}]
      BY <2>1, <1>r DEF Ranges
    <3> QED BY <1>3, <3>1, <3>2, <1>r DEF HsWrite, Ranges
  <2>6. /\ \A t \in Sides \ {s} : Through(t)' = Through(t)
        /\ Through(s)' = Len(Opening(s))
    <3>1. ASSUME NEW t \in Sides, t # s PROVE Through(t)' = Through(t)
      BY <2>1, <2>4, <3>1 DEF Through
    <3>2. Opening(s) = HsUnits(s)
      BY <2>1, <1>r DEF Far, Settled, Opening
    <3>3. Through(s)' = 0 + 0 + Len(HsUnits(s))
      BY <2>1, <2>2, <2>4 DEF Through
    <3> QED BY <3>1, <3>2, <3>3, HsShape
  <2>7. once[s] # "ok" /\ wpos[s] = 0
    <3>1. once[s] # "ok"
      BY <2>1, <1>r DEF Far, Settled
    <3> QED BY <3>1, <1>r, <1>n DEF Far, Settled
  <2>8. ASSUME NEW t \in Sides
        PROVE  /\ Opening(t)' = Opening(t) /\ Need(t)' = Need(t)
               /\ Sends(t)' = Sends(t) /\ Secret(t)' = Secret(t)
    BY <2>1 DEF Opening, HsUnits, Sends, Need, Secret
  <2>9. ASSUME NEW t \in Sides PROVE Far(t)'
    <3>1. helper'[t] = IF t = s THEN "writing" ELSE helper[t]
      BY <2>1, <1>r DEF Ranges
    <3>2. Settled(t)'
      BY <2>1, <2>7, <2>8, <3>1, <1>r DEF Far, Settled
    <3>3. Progress(helper[t], once[t], Through(t), Len(Opening(t)), wpos[t])'
      BY <2>1, <2>6, <2>7, <2>8, <3>1, <1>r, <1>n DEF Far, Progress
    <3> QED BY <3>2, <3>3 DEF Far
  <2> QED BY <2>5, <2>9 DEF HsInv
<1>4. ASSUME NEW s \in Sides, HsWritten(s) \/ HsWriteFail(s) PROVE HsInv'
  <2>1. PICK v \in {"sent", "err"} :
           /\ helper' = [helper EXCEPT ![s] = v] /\ helper[s] \in {"ready", "writing"}
           /\ v = "sent" => helper[s] = "writing"
           /\ UNCHANGED <<psk, buffered, g, once, peer, secret, wire, dataVars, closed>>
    BY <1>4 DEF HsWritten, HsWriteFail
  <2>2. Ranges'
    BY <2>1, <1>r DEF Ranges
  <2>3. ASSUME NEW t \in Sides
        PROVE  /\ \A k \in Goroutines : g'[t][k] = "run" => once'[t] = "ok"
               /\ once'[t] = once[t]
               /\ once[t] = "ok" => helper'[t] = helper[t]
               /\ helper'[t] = helper[t] \/ (t = s /\ helper'[t] = v)
    BY <2>1, <1>r DEF Far, Settled, Ranges
  <2>4. ASSUME NEW t \in Sides
        PROVE  /\ once'[t] = "new" => helper'[t] = "off"
               /\ helper'[t] # "off" => Sends(t)
               /\ once'[t] = "ok" => helper'[t] = IF Sends(t) THEN "sent" ELSE "off"
               /\ Progress(helper'[t], once'[t], Through(t), Len(Opening(t)), wpos[t])
    BY <2>1, <2>3, <1>r DEF Far, Settled, Progress
  <2> QED BY <2>1, <2>2, <2>3, <2>4, <1>r, HsSame DEF Far, Settled
<1>5. ASSUME NEW s \in Sides, HsRead(s) PROVE HsInv'
  <2>2. PICK o \in Sides : o = Other(s) /\ o # s /\ Sides = {s, o} /\ Other(o) = s
    BY OtherSide
  <2> DEFINE x == Head(wire[o])
  <2>1. /\ UNCHANGED <<psk, g, once, helper, secret, wpos, rpos, got>> /\ once[s] = "busy"
        /\ Len(peer[s]) < Need(s) /\ wire[o] # <<>> /\ Take(s)
        /\ peer' = [peer EXCEPT ![s] = Append(peer[s], x)]
    BY <1>5, <2>2, <1>r DEF HsRead, Ranges
  <2>3. /\ DOMAIN wire' = Sides /\ \A t \in Sides : IsSeq(wire'[t])
        /\ wire'[s] = wire[s] /\ Len(wire'[o]) = Len(wire[o]) - 1
    BY <2>1, <2>2, HsTake
  <2> HIDE DEF x
  <2>4. /\ DOMAIN peer' = Sides /\ peer'[s] = Append(peer[s], x) /\ peer'[o] = peer[o]
        /\ IsSeq(peer'[s]) /\ Len(peer'[s]) = Len(peer[s]) + 1
    BY <2>1, <2>2, <1>r, SeqAppend DEF Ranges
  <2>5. Ranges'
    BY <1>5, <2>1, <2>2, <2>3, <2>4, <1>r DEF HsRead, Ranges
  <2>6. Through(s)' = Through(s) /\ Through(o)' = Through(o)
    <3>1. /\ Through(s) = Len(peer[o]) + rpos[o] + Len(wire[s])
          /\ Through(o) = Len(peer[s]) + rpos[s] + Len(wire[o])
          /\ Through(s)' = Len(peer'[o]) + rpos'[o] + Len(wire'[s])
          /\ Through(o)' = Len(peer'[s]) + rpos'[s] + Len(wire'[o])
      BY <2>2 DEF Through
    <3>2. Through(s)' = Through(s)
      BY <2>1, <2>3, <2>4, <3>1
    <3>3. Through(o)' = (Len(peer[s]) + 1) + rpos[s] + (Len(wire[o]) - 1)
      BY <2>1, <2>3, <2>4, <3>1
    <3>4. \A a, b, c \in Nat : (a + 1) + b + (c - 1) = a + b + c
      OBVIOUS
    <3>5. Len(peer[s]) \in Nat /\ rpos[s] \in Nat /\ Len(wire[o]) \in Nat
      BY <1>n
    <3> QED BY <3>1, <3>2, <3>3, <3>4, <3>5
  <2>7. ASSUME NEW t \in Sides
        PROVE  Opening(t)' = Opening(t) /\ Need(t)' = Need(t) /\ Sends(t)' = Sends(t)
    BY <2>1 DEF Opening, HsUnits, Sends, Need
  <2>8. Settled(s)'
    BY <2>1, <2>4, <2>7, <1>r, <1>n DEF Far, Settled
  <2>9. Settled(o)'
    <3>1. Secret(o)' = Secret(o)
      BY <2>1, <2>4 DEF Secret
    <3> QED BY <2>1, <2>2, <2>4, <2>7, <3>1, <1>r DEF Far, Settled
  <2>10. ASSUME NEW t \in Sides PROVE Far(t)'
    BY <2>1, <2>2, <2>6, <2>7, <2>8, <2>9, <1>r DEF Far
  <2> QED BY <2>5, <2>10 DEF HsInv
<1>6. ASSUME NEW s \in Sides, HsDone(s) PROVE HsInv'
  <2>1. /\ UNCHANGED <<psk, g, helper, peer, wire, wpos, rpos, got>>
        /\ once[s] = "busy" /\ Len(peer[s]) = Need(s)
        /\ helper[s] = IF Sends(s) THEN "sent" ELSE "off"
        /\ secret' = [secret EXCEPT ![s] = Secret(s)]
        /\ once' = [once EXCEPT ![s] = "ok"]
    BY <1>6 DEF HsDone
  <2>2. /\ DOMAIN secret' = Sides /\ secret'[s] = Secret(s) /\ once'[s] = "ok"
        /\ \A t \in Sides \ {s} : secret'[t] = secret[t] /\ once'[t] = once[t]
    BY <2>1, <1>r DEF Ranges
  <2>3. Ranges'
    BY <1>6, <2>1, <2>2, <1>r DEF HsDone, Ranges
  <2>4. ASSUME NEW t \in Sides
        PROVE  /\ Through(t)' = Through(t) /\ Opening(t)' = Opening(t) /\ Need(t)' = Need(t)
               /\ Sends(t)' = Sends(t) /\ Secret(t)' = Secret(t)
    BY <2>1 DEF Through, Opening, HsUnits, Sends, Need, Secret
  <2>5. ASSUME NEW t \in Sides PROVE Settled(t)'
    BY <2>1, <2>2, <2>4, <1>r DEF Far, Settled
  <2>6. Through(s) = Len(Opening(s)) + wpos[s]
    <3>1. CASE Sends(s) BY <2>1, <3>1, <1>r DEF Far, Progress
    <3>2. CASE ~Sends(s)
      <4>1. Through(s) = 0 /\ wpos[s] = 0
        BY <2>1, <3>2, <1>r, <1>n DEF Far, Settled, Progress
      <4>2. Len(Opening(s)) = 0
        BY <3>2, SeqEmpty DEF Opening
      <4> QED BY <4>1, <4>2
    <3> QED BY <3>1, <3>2
  <2>7. ASSUME NEW t \in Sides
        PROVE  Progress(helper[t], once[t], Through(t), Len(Opening(t)), wpos[t])'
    BY <2>1, <2>2, <2>4, <2>6, <1>r DEF Far, Progress
  <2> QED BY <2>3, <2>5, <2>7 DEF HsInv, Far
<1>7. ASSUME NEW s \in Sides, HsFail(s) PROVE HsInv'
  <2>1. /\ UNCHANGED <<psk, buffered, g, helper, peer, secret, wire, dataVars, closed>>
        /\ once[s] = "busy" /\ once' = [once EXCEPT ![s] = "err"]
    BY <1>7 DEF HsFail
  <2>2. Ranges'
    BY <2>1, <1>r DEF Ranges
  <2>3. ASSUME NEW t \in Sides
        PROVE  once'[t] = once[t] \/ (once[t] = "busy" /\ once'[t] = "err")
    BY <2>1, <1>r DEF Ranges
  <2> QED BY <2>1, <2>2, <2>3, <1>r, HsSame DEF Far, Settled, Progress
<1>8. ASSUME NEW s \in Sides, Write(s) PROVE HsInv'
  <2> DEFINE m == Mask(s, wpos[s] + 1)
  <2>1. /\ UNCHANGED <<psk, g, hsVars, rpos, got>> /\ g[s]["write"] = "run"
        /\ wpos[s] < MaxMsgs /\ wpos' = [wpos EXCEPT ![s] = wpos[s] + 1]
        /\ wire' = [wire EXCEPT ![s] = Append(wire[s], m)]
    BY <1>8, <1>r DEF Write, Ranges
  <2> HIDE DEF m
  <2>2. once[s] = "ok"
    BY <2>1, <1>r DEF Far, Settled, Goroutines
  <2>3. /\ DOMAIN wire' = Sides /\ wire'[s] = Append(wire[s], m)
        /\ wpos'[s] = wpos[s] + 1 /\ wpos' \in [Sides -> 0 .. MaxMsgs]
        /\ \A t \in Sides \ {s} : wire'[t] = wire[t] /\ wpos'[t] = wpos[t]
    BY <2>1, <1>r, MaxMsgsAssumption DEF Ranges
  <2>4. IsSeq(wire'[s]) /\ Len(wire'[s]) = Len(wire[s]) + 1
    BY <2>3, <1>r, SeqAppend DEF Ranges
  <2>5. Ranges'
    <3>1. writing' \in [Sides -> BOOLEAN]
      BY <1>8, <1>r DEF Write, Ranges
    <3> QED BY <1>8, <2>1, <2>3, <2>4, <3>1, <1>r DEF Write, Ranges
  <2>6. Through(s)' = Through(s) + 1 /\ \A t \in Sides \ {s} : Through(t)' = Through(t)
    <3>1. ASSUME NEW t \in Sides
          PROVE  /\ Through(t) = Len(peer[Other(t)]) + rpos[Other(t)] + Len(wire[t])
                 /\ Through(t)' = Len(peer[Other(t)]) + rpos[Other(t)] + Len(wire'[t])
                 /\ Len(peer[Other(t)]) \in Nat /\ rpos[Other(t)] \in Nat
      BY <2>1, <1>n, OtherSide DEF Through
    <3>2. \A a, b, c \in Nat : a + b + (c + 1) = (a + b + c) + 1
      OBVIOUS
    <3>3. Len(wire[s]) \in Nat
      BY <1>n
    <3>4. Through(s)' = Through(s) + 1
      BY <2>4, <3>1, <3>2, <3>3
    <3> QED BY <2>3, <3>1, <3>4
  <2>7. ASSUME NEW t \in Sides
        PROVE  /\ Opening(t)' = Opening(t) /\ Need(t)' = Need(t)
               /\ Sends(t)' = Sends(t) /\ Secret(t)' = Secret(t)
    BY <2>1 DEF Opening, HsUnits, Sends, Need, Secret
  <2>8. ASSUME NEW t \in Sides PROVE Settled(t)'
    BY <2>1, <2>2, <2>3, <2>7, <1>r DEF Far, Settled
  <2>9. Progress(helper[s], once[s], Through(s), Len(Opening(s)), wpos[s])'
    <3>1. Through(s) = Len(Opening(s)) + wpos[s] /\ helper[s] \in {"sent", "off"}
      BY <2>2, <1>r DEF Far, Settled, Progress
    <3> QED BY <2>1, <2>2, <2>3, <2>6, <2>7, <3>1, <1>n DEF Progress
  <2>10. ASSUME NEW t \in Sides, t # s
         PROVE  Progress(helper[t], once[t], Through(t), Len(Opening(t)), wpos[t])'
    BY <2>1, <2>3, <2>6, <2>7, <2>10, <1>r DEF Far
  <2> QED BY <2>5, <2>8, <2>9, <2>10 DEF HsInv, Far
<1>9. ASSUME NEW s \in Sides, Written(s) PROVE HsInv'
  <2>1. UNCHANGED <<psk, buffered, g, hsVars, wire, wpos, rpos, got, closed>>
    BY <1>9 DEF Written
  <2>2. writing' \in [Sides -> BOOLEAN]
    BY <1>9, <1>r DEF Written, Ranges
  <2>3. Ranges'
    BY <2>1, <2>2, <1>r DEF Ranges
  <2> QED BY <2>1, <2>3, <1>r, HsSame DEF Far, Settled
<1>10. ASSUME NEW s \in Sides, Read(s) PROVE HsInv'
  <2>2. PICK o \in Sides : o = Other(s) /\ o # s /\ Sides = {s, o} /\ Other(o) = s
    BY OtherSide
  <2> DEFINE x == Unmask(s, Head(wire[o]))
  <2>1. /\ UNCHANGED <<psk, g, hsVars, wpos>> /\ g[s]["read"] = "run"
        /\ wire[o] # <<>> /\ Take(s)
        /\ rpos' = [rpos EXCEPT ![s] = rpos[s] + 1]
        /\ got' = [got EXCEPT ![s] = Append(got[s], x)]
    BY <1>10, <2>2, <1>r DEF Read, Ranges
  <2>3. /\ DOMAIN wire' = Sides /\ \A t \in Sides : IsSeq(wire'[t])
        /\ wire'[s] = wire[s] /\ Len(wire'[o]) = Len(wire[o]) - 1
    BY <2>1, <2>2, HsTake
  <2> HIDE DEF x
  <2>4. once[s] = "ok"
    BY <2>1, <1>r DEF Far, Settled, Goroutines
  <2>5. /\ DOMAIN got' = Sides /\ IsSeq(got'[s]) /\ Len(got'[s]) = Len(got[s]) + 1
        /\ got'[o] = got[o]
    BY <2>1, <2>2, <1>r, SeqAppend DEF Ranges
  <2>6. rpos' \in [Sides -> Nat] /\ rpos'[s] = rpos[s] + 1 /\ rpos'[o] = rpos[o]
    BY <2>1, <2>2, <1>r DEF Ranges
  <2>7. Ranges'
    BY <1>10, <2>1, <2>2, <2>3, <2>5, <2>6, <1>r DEF Read, Ranges
  <2>8. Through(s)' = Through(s) /\ Through(o)' = Through(o)
    <3>1. /\ Through(s) = Len(peer[o]) + rpos[o] + Len(wire[s])
          /\ Through(o) = Len(peer[s]) + rpos[s] + Len(wire[o])
          /\ Through(s)' = Len(peer'[o]) + rpos'[o] + Len(wire'[s])
          /\ Through(o)' = Len(peer'[s]) + rpos'[s] + Len(wire'[o])
      BY <2>2 DEF Through
    <3>2. Through(s)' = Through(s)
      BY <2>1, <2>3, <2>6, <3>1
    <3>3. Through(o)' = Len(peer[s]) + (rpos[s] + 1) + (Len(wire[o]) - 1)
      BY <2>1, <2>3, <2>6, <3>1
    <3>4. \A a, b, c \in Nat : a + (b + 1) + (c - 1) = a + b + c
      OBVIOUS
    <3>5. Len(peer[s]) \in Nat /\ rpos[s] \in Nat /\ Len(wire[o]) \in Nat
      BY <1>n
    <3> QED BY <3>1, <3>2, <3>3, <3>4, <3>5
  <2>9. ASSUME NEW t \in Sides
        PROVE  /\ Opening(t)' = Opening(t) /\ Need(t)' = Need(t)
               /\ Sends(t)' = Sends(t) /\ Secret(t)' = Secret(t)
    BY <2>1 DEF Opening, HsUnits, Sends, Need, Secret
  <2>10. Settled(s)'
    BY <2>1, <2>4, <2>5, <2>6, <2>9, <1>r, <1>n DEF Far, Settled
  <2>11. Settled(o)'
    BY <2>1, <2>2, <2>5, <2>6, <2>9, <1>r DEF Far, Settled
  <2>12. ASSUME NEW t \in Sides PROVE Far(t)'
    BY <2>1, <2>2, <2>8, <2>9, <2>10, <2>11, <1>r DEF Far
  <2> QED BY <2>7, <2>12 DEF HsInv
<1>11. ASSUME UNCHANGED <<psk, buffered, g, hsVars, wire, dataVars>>, closed' \in BOOLEAN
       PROVE  HsInv'
  <2>1. Ranges'
    BY <1>11, <1>r DEF Ranges
  <2> QED BY <1>11, <2>1, <1>r, HsSame DEF Far, Settled
<1>12. CASE Close
  BY <1>11, <1>12 DEF Close
<1>13. CASE UNCHANGED vars
  BY <1>11, <1>13, <1>r DEF vars, Ranges
<1> QED
  BY <1>1, <1>2, <1>3, <1>4, <1>5, <1>6, <1>7, <1>8, <1>9, <1>10, <1>12, <1>13 DEF Next, Step

(* Every variable stays in its range: above all, no side reads more than the
   other's seed or key for its handshake. *)
THEOREM TypeCorrect == Spec => []TypeOK
<1>1. HsInv => TypeOK
  <2> SUFFICES ASSUME HsInv PROVE TypeOK
    OBVIOUS
  <2>1. ASSUME NEW s \in Sides PROVE rpos[s] \in 0 .. MaxMsgs + 2
    <3>1. Other(s) \in Sides /\ Other(Other(s)) = s
      BY OtherSide
    <3>2. /\ Len(peer[s]) \in Nat /\ Len(wire[Other(s)]) \in Nat /\ rpos[s] \in Nat
          /\ wpos[Other(s)] \in 0 .. MaxMsgs /\ Len(Opening(Other(s))) \in 0 .. 2
      BY <3>1, SeqEmpty, HsShape DEF HsInv, Ranges
    <3>3. Len(peer[s]) + rpos[s] + Len(wire[Other(s)])
             \in {0, Len(Opening(Other(s))) + wpos[Other(s)]}
      BY <3>1 DEF HsInv, Far, Progress, Through
    <3>4. ASSUME NEW a \in Nat, NEW b \in Nat, NEW c \in Nat, NEW n \in 0 .. 2,
                 NEW w \in 0 .. MaxMsgs, a + b + c \in {0, n + w}
          PROVE  b \in 0 .. MaxMsgs + 2
      BY <3>4, MaxMsgsAssumption
    <3> QED BY <3>2, <3>3, <3>4
  <2>2. rpos \in [Sides -> 0 .. MaxMsgs + 2]
    BY <2>1 DEF HsInv, Ranges
  <2> QED BY <2>2 DEF HsInv, Ranges, Far, Settled, TypeOK
<1> QED BY HsInit, HsNext, <1>1, PTL DEF Spec

-----------------------------------------------------------------------------
(* The keystreams. *)

PadInv ==
    /\ IsFiniteSet(pad) /\ Cardinality(pad) = wpos["client"] + wpos["server"]
    /\ \A x \in pad : \E s \in Sides, p \in Nat :
          p < wpos[s] /\ x = <<secret[s], WriteStream(s), p>>

LEMMA PadNext == HsInv /\ PadInv /\ [Next]_vars => PadInv'
<1> SUFFICES ASSUME HsInv, PadInv, [Next]_vars PROVE PadInv'
  OBVIOUS
<1> USE DEF hsVars, dataVars
<1>r. wpos \in [Sides -> Nat] /\ DOMAIN secret = Sides
  BY MaxMsgsAssumption DEF HsInv, Ranges
<1>s. Sides = {"client", "server"}
  BY DEF Sides
<1>1. ASSUME UNCHANGED <<secret, wpos, pad>> PROVE PadInv'
  BY <1>1 DEF PadInv
<1>2. ASSUME NEW s \in Sides, HsDone(s) PROVE PadInv'
  <2>1. wpos[s] = 0
    BY <1>2, <1>r DEF HsDone, HsInv, Far, Settled
  <2>2. \A t \in Sides \ {s} : secret'[t] = secret[t]
    BY <1>2, <1>r DEF HsDone
  <2>3. UNCHANGED <<wpos, pad>>
    BY <1>2 DEF HsDone
  <2>4. ASSUME NEW x \in pad
        PROVE  \E t \in Sides, p \in Nat : p < wpos[t] /\ x = <<secret'[t], WriteStream(t), p>>
    <3>1. PICK t \in Sides, p \in Nat : p < wpos[t] /\ x = <<secret[t], WriteStream(t), p>>
      BY <2>4 DEF PadInv
    <3>2. t # s
      BY <2>1, <3>1
    <3> QED BY <2>2, <3>1, <3>2
  <2> QED BY <2>3, <2>4 DEF PadInv
<1>3. ASSUME NEW s \in Sides, Write(s) PROVE PadInv'
  <2> DEFINE new == <<secret[s], WriteStream(s), wpos[s]>>
  <2>1. /\ pad' = pad \cup {new} /\ wpos' = [wpos EXCEPT ![s] = wpos[s] + 1]
        /\ UNCHANGED secret
    BY <1>3, <1>r DEF Write
  <2>2. new \notin pad
    <3> SUFFICES ASSUME new \in pad PROVE FALSE
      OBVIOUS
    <3>1. PICK t \in Sides, p \in Nat : p < wpos[t] /\ new = <<secret[t], WriteStream(t), p>>
      BY DEF PadInv
    <3>2. WriteStream(s) = WriteStream(t) /\ wpos[s] = p
      BY <3>1
    <3>3. s = t
      BY <3>2, <1>s DEF WriteStream
    <3> QED BY <3>1, <3>2, <3>3, <1>r
  <2>3. IsFiniteSet(pad') /\ Cardinality(pad') = Cardinality(pad) + 1
    BY <2>1, <2>2, FS_AddElement DEF PadInv
  <2>4. wpos'["client"] + wpos'["server"] = (wpos["client"] + wpos["server"]) + 1
    <3>1. /\ s = "client" => wpos'["client"] = wpos["client"] + 1 /\ wpos'["server"] = wpos["server"]
          /\ s = "server" => wpos'["server"] = wpos["server"] + 1 /\ wpos'["client"] = wpos["client"]
      BY <2>1, <1>r, <1>s
    <3>2. wpos["client"] \in Nat /\ wpos["server"] \in Nat
      BY <1>r, <1>s
    <3> QED BY <3>1, <3>2, <1>s
  <2>5. ASSUME NEW x \in pad'
        PROVE  \E t \in Sides, p \in Nat : p < wpos'[t] /\ x = <<secret[t], WriteStream(t), p>>
    <3>1. \A t \in Sides : wpos[t] <= wpos'[t]
      BY <2>1, <1>r
    <3>2. CASE x \in pad
      <4>1. PICK t \in Sides, p \in Nat : p < wpos[t] /\ x = <<secret[t], WriteStream(t), p>>
        BY <3>2 DEF PadInv
      <4>2. wpos[t] \in Nat /\ wpos'[t] \in Nat
        BY <2>1, <1>r
      <4>3. p < wpos'[t]
        BY <4>1, <4>2, <3>1
      <4> QED BY <4>1, <4>3
    <3>3. CASE x = new
      <4>1. wpos[s] < wpos'[s] /\ wpos[s] \in Nat
        BY <2>1, <1>r
      <4> QED BY <3>3, <4>1
    <3> QED BY <2>1, <3>2, <3>3
  <2> QED BY <2>1, <2>3, <2>4, <2>5 DEF PadInv
<1> QED
  BY <1>1, <1>2, <1>3
  DEF Next, Step, vars, Call, Return, Fail, HsWrite, HsWritten, HsWriteFail, HsRead, HsFail,
      Written, Read, Close

(* No unit of keystream masks two units of payload, whatever the two ends are
   configured with and whenever their Writes run. *)
THEOREM KeystreamUsedOnceHolds == Spec => []KeystreamUsedOnce
<1>1. Init => PadInv
  <2> SUFFICES ASSUME Init PROVE PadInv
    OBVIOUS
  <2>1. pad = {} /\ wpos["client"] = 0 /\ wpos["server"] = 0
    BY DEF Init, Sides
  <2> QED BY <2>1, FS_EmptySet DEF PadInv
<1>2. PadInv => KeystreamUsedOnce
  BY DEF PadInv, KeystreamUsedOnce
<1> QED BY HsInit, HsNext, PadNext, <1>1, <1>2, PTL DEF Spec

-----------------------------------------------------------------------------
(* What the wire carries between ends that are configured alike. *)

(* The unit number q of a side: its opening hs, then its messages, masked with
   key k and stream st. *)
UnitAt(hs, k, st, q) ==
    IF q <= Len(hs) THEN hs[q]
    ELSE [t |-> "data", n |-> q - Len(hs), key |-> k, stream |-> st, pos |-> (q - Len(hs)) - 1]

Carries(w, hs, k, st, c) == \A i \in 1 .. Len(w) : w[i] = UnitAt(hs, k, st, c + i)

Taken(s) == Len(peer[s]) + rpos[s]

Content(s) ==
    /\ Carries(wire[s], Opening(s), secret[s], WriteStream(s), Taken(Other(s)))
    /\ \A i \in 1 .. Len(peer[Other(s)]) : peer[Other(s)][i] = Opening(s)[i]
    /\ \A i \in 1 .. Len(got[s]) : got[s][i] = i

StreamInv == HsInv /\ (Paired => \A s \in Sides : Content(s))

LEMMA CarriesTail ==
    ASSUME NEW w, IsSeq(w), w # <<>>, NEW hs, NEW k, NEW st, NEW c \in Nat, Carries(w, hs, k, st, c)
    PROVE  Head(w) = UnitAt(hs, k, st, c + 1) /\ Carries(Tail(w), hs, k, st, c + 1)
<1>1. /\ Len(w) \in Nat /\ Len(w) > 0 /\ Len(Tail(w)) = Len(w) - 1 /\ Head(w) = w[1]
      /\ \A i \in 1 .. Len(w) - 1 : Tail(w)[i] = w[i + 1]
  BY SeqTail
<1>2. Head(w) = UnitAt(hs, k, st, c + 1)
  BY <1>1 DEF Carries
<1>3. ASSUME NEW i \in 1 .. Len(Tail(w)) PROVE Tail(w)[i] = UnitAt(hs, k, st, (c + 1) + i)
  <2>1. Tail(w)[i] = w[i + 1] /\ i + 1 \in 1 .. Len(w)
    BY <1>1
  <2>2. c + (i + 1) = (c + 1) + i
    BY <1>1
  <2> QED BY <2>1, <2>2 DEF Carries
<1> QED BY <1>2, <1>3 DEF Carries

LEMMA CarriesAppend ==
    ASSUME NEW w, IsSeq(w), NEW hs, NEW k, NEW st, NEW c \in Nat, Carries(w, hs, k, st, c),
           NEW x, x = UnitAt(hs, k, st, c + (Len(w) + 1))
    PROVE  Carries(Append(w, x), hs, k, st, c)
<1>1. /\ Len(w) \in Nat /\ Len(Append(w, x)) = Len(w) + 1
      /\ \A i \in 1 .. Len(w) : Append(w, x)[i] = w[i]
      /\ Append(w, x)[Len(w) + 1] = x
  BY SeqAppend
<1>2. ASSUME NEW i \in 1 .. Len(Append(w, x)) PROVE Append(w, x)[i] = UnitAt(hs, k, st, c + i)
  <2>1. CASE i \in 1 .. Len(w)
    BY <1>1, <2>1 DEF Carries
  <2>2. CASE i = Len(w) + 1
    BY <1>1, <2>2
  <2> QED BY <1>1, <2>1, <2>2
<1> QED BY <1>2 DEF Carries

(* The key does not show before the first message. *)
LEMMA CarriesKey ==
    ASSUME NEW w, IsSeq(w), NEW hs, IsSeq(hs), NEW k, NEW st, NEW c \in Nat,
           Carries(w, hs, k, st, c), c + Len(w) <= Len(hs), NEW l
    PROVE  Carries(w, hs, l, st, c)
<1>1. Len(w) \in Nat /\ Len(hs) \in Nat
  BY SeqEmpty
<1>2. ASSUME NEW i \in 1 .. Len(w) PROVE UnitAt(hs, k, st, c + i) = UnitAt(hs, l, st, c + i)
  <2>1. c + i <= Len(hs)
    BY <1>1
  <2> QED BY <2>1 DEF UnitAt
<1> QED BY <1>2 DEF Carries

LEMMA CarriesOpening ==
    ASSUME NEW hs, IsSeq(hs), NEW k, NEW st
    PROVE  Carries(hs, hs, k, st, 0)
<1>1. Len(hs) \in Nat
  BY SeqEmpty
<1> QED BY <1>1 DEF Carries, UnitAt

LEMMA Numbers ==
    ASSUME HsInv, NEW s \in Sides
    PROVE  /\ IsSeq(peer[s]) /\ IsSeq(wire[s]) /\ IsSeq(got[s]) /\ IsSeq(Opening(s))
           /\ Len(peer[s]) \in Nat /\ Len(wire[s]) \in Nat /\ Len(got[s]) \in Nat
           /\ rpos[s] \in Nat /\ wpos[s] \in Nat /\ Len(Opening(s)) \in Nat
           /\ Taken(s) \in Nat /\ Taken(s) = Len(peer[s]) + rpos[s]
           /\ Through(s) = Taken(Other(s)) + Len(wire[s]) /\ Len(got[s]) = rpos[s]
<1>1. IsSeq(peer[s]) /\ IsSeq(wire[s]) /\ IsSeq(got[s]) /\ rpos[s] \in Nat /\ wpos[s] \in Nat
  BY MaxMsgsAssumption DEF HsInv, Ranges
<1>2. Len(peer[s]) \in Nat /\ Len(wire[s]) \in Nat /\ Len(got[s]) \in Nat
  BY <1>1, SeqEmpty
<1>3. IsSeq(Opening(s)) /\ Len(Opening(s)) \in Nat
  BY HsShape, SeqEmpty
<1>4. Len(got[s]) = rpos[s]
  BY DEF HsInv, Far, Settled
<1> QED BY <1>1, <1>2, <1>3, <1>4 DEF Taken, Through

(* A Read gets the next message and unmasks it with the right secret, stream
   and position. *)
LEMMA ReadReturns ==
    ASSUME StreamInv, Paired, NEW s \in Sides, once[s] = "ok", wire[Other(s)] # <<>>
    PROVE  Unmask(s, Head(wire[Other(s)])) = rpos[s] + 1
<1>o. PICK o \in Sides : o = Other(s) /\ Other(o) = s
  BY OtherSide
<1>i. HsInv /\ Content(s) /\ Content(o)
  BY DEF StreamInv
<1>n. /\ IsSeq(peer[s]) /\ IsSeq(wire[o]) /\ IsSeq(Opening(o)) /\ IsSeq(peer[o]) /\ IsSeq(Opening(s))
      /\ Len(peer[s]) \in Nat /\ Len(wire[o]) \in Nat /\ rpos[s] \in Nat /\ wpos[o] \in Nat
      /\ Len(Opening(o)) \in Nat /\ Taken(s) \in Nat /\ Taken(s) = Len(peer[s]) + rpos[s]
      /\ Through(o) = Taken(s) + Len(wire[o])
  BY <1>o, <1>i, Numbers
<1> DEFINE q == Taken(s) + 1
           u == Head(wire[o])
<1>1. Len(peer[s]) = Need(s) /\ secret[s] = Secret(s) /\ Need(s) = Len(Opening(o))
  BY <1>i, <1>o, OpeningExpected DEF HsInv, Far, Settled
<1>2. u = UnitAt(Opening(o), secret[o], WriteStream(o), q)
  BY <1>i, <1>n, <1>o, CarriesTail DEF Content
<1>3. Len(wire[o]) > 0
  BY <1>n, <1>o, SeqTail
<1>4. q = Len(Opening(o)) + (rpos[s] + 1) /\ Through(o) > Len(Opening(o))
  BY <1>n, <1>1, <1>3
<1>5. u = [t |-> "data", n |-> rpos[s] + 1, key |-> secret[o], stream |-> WriteStream(o), pos |-> rpos[s]]
  <2>1. ~(q <= Len(Opening(o))) /\ q - Len(Opening(o)) = rpos[s] + 1 /\ (rpos[s] + 1) - 1 = rpos[s]
    <3>1. \A a, b \in Nat : /\ ~(a + (b + 1) <= a) /\ (a + (b + 1)) - a = b + 1
                             /\ (b + 1) - 1 = b
      OBVIOUS
    <3> HIDE DEF q
    <3>2. q = Len(Opening(o)) + (rpos[s] + 1) /\ Len(Opening(o)) \in Nat /\ rpos[s] \in Nat
      BY <1>n, <1>4
    <3> QED BY <3>1, <3>2
  <2> HIDE DEF u, q
  <2> QED BY <1>2, <2>1 DEF UnitAt
<1>6. once[o] = "ok"
  <2>1. Through(o) \in {0, Len(Opening(o)) + wpos[o]}
    BY <1>i DEF HsInv, Far, Progress
  <2> HIDE DEF q, u
  <2>2. wpos[o] > 0
    BY <2>1, <1>n, <1>4
  <2> QED BY <2>2, <1>i DEF HsInv, Far, Settled
<1>7. Len(peer[o]) = Need(o) /\ secret[o] = Secret(o) /\ Need(o) = Len(Opening(s))
  <2>1. Settled(o)
    BY <1>i DEF HsInv, Far
  <2>2. Len(peer[o]) = Need(o) /\ secret[o] = Secret(o)
    BY <1>6, <2>1 DEF Settled
  <2>3. Len(Opening(s)) = Need(Other(s)) /\ Other(s) = o
    BY <1>i, <1>o, OpeningExpected
  <2> QED BY <2>2, <2>3
<1>8. peer[s] = Opening(o) /\ peer[o] = Opening(s)
  <2>1. /\ \A i \in 1 .. Len(peer[s]) : peer[s][i] = Opening(o)[i]
        /\ \A i \in 1 .. Len(peer[o]) : peer[o][i] = Opening(s)[i]
    BY <1>i, <1>o DEF Content
  <2>2. Len(peer[s]) = Len(Opening(o)) /\ Len(peer[o]) = Len(Opening(s))
    BY <1>1, <1>7
  <2>3. peer[s] = Opening(o)
    BY <1>n, <2>1, <2>2, SameSequence
  <2>4. peer[o] = Opening(s)
    BY <1>n, <2>1, <2>2, SameSequence
  <2> QED BY <2>3, <2>4
<1>9. secret[s] = secret[o]
  BY <1>1, <1>7, <1>8, <1>o, SameSecret
<1>10. ReadStream(s) = WriteStream(o)
  BY <1>o DEF ReadStream, WriteStream, Other, Sides
<1> HIDE DEF u
<1>11. Unmask(s, u) = rpos[s] + 1
  BY <1>5, <1>9, <1>10 DEF Unmask
<1> QED BY <1>11, <1>o DEF u

LEMMA StreamInit == Init => StreamInv
<1> SUFFICES ASSUME Init PROVE StreamInv
  OBVIOUS
<1>1. \A s \in Sides : peer[s] = <<>> /\ wire[s] = <<>> /\ got[s] = <<>>
  BY DEF Init
<1>2. ASSUME NEW s \in Sides PROVE Content(s)
  BY <1>1, OtherSide, SeqEmpty DEF Content, Carries
<1> QED BY <1>2, HsInit DEF StreamInv

LEMMA StreamNext == StreamInv /\ [Next]_vars => StreamInv'
<1> SUFFICES ASSUME StreamInv, [Next]_vars, HsInv', Paired' PROVE \A s \in Sides : Content(s)'
  BY HsNext DEF StreamInv
<1> USE DEF hsVars, dataVars
<1>p. psk' = psk
  BY DEF Next, Step, vars, Call, Return, Fail, HsWrite, HsWritten, HsWriteFail, HsRead, HsDone,
         HsFail, Write, Written, Read, Close
<1>i. HsInv /\ Paired /\ \A s \in Sides : Content(s)
  BY <1>p DEF StreamInv, Paired
<1>d. /\ DOMAIN peer = Sides /\ DOMAIN secret = Sides /\ DOMAIN wire = Sides /\ DOMAIN got = Sides
      /\ rpos \in [Sides -> Nat]
  BY <1>i DEF HsInv, Ranges
<1>s. ASSUME NEW s \in Sides PROVE Opening(s)' = Opening(s)
  BY <1>p DEF Opening, HsUnits, Sends
<1>u. ASSUME NEW s \in Sides,
             UNCHANGED <<wire[s], secret[s], peer[Other(s)], rpos[Other(s)], got[s]>>
      PROVE  Content(s)'
  BY <1>u, <1>i, <1>s DEF Content, Taken
<1>1. ASSUME UNCHANGED <<peer, secret, wire, rpos, got>> PROVE \A s \in Sides : Content(s)'
  BY <1>1, <1>u
<1>2. ASSUME NEW s \in Sides, HsWrite(s) PROVE \A t \in Sides : Content(t)'
  <2>1. /\ UNCHANGED <<peer, secret, rpos, got>> /\ helper[s] = "ready"
        /\ wire' = [wire EXCEPT ![s] = wire[s] \o HsUnits(s)]
    BY <1>2, <1>d DEF HsWrite
  <2>2. Through(s) = 0 /\ Sends(s)
    BY <2>1, <1>i DEF HsInv, Far, Settled, Progress
  <2>3. wire[s] = <<>> /\ Taken(Other(s)) = 0
    <3>1. Taken(Other(s)) \in Nat /\ Len(wire[s]) \in Nat /\ IsSeq(wire[s])
          /\ Through(s) = Taken(Other(s)) + Len(wire[s])
      BY <1>i, Numbers, OtherSide
    <3>2. Len(wire[s]) = 0 /\ Taken(Other(s)) = 0
      BY <2>2, <3>1
    <3> QED BY <3>1, <3>2, SeqEmpty
  <2>4. wire'[s] = Opening(s) /\ \A t \in Sides \ {s} : wire'[t] = wire[t]
    BY <2>1, <2>2, <2>3, <1>d, HsShape DEF Opening
  <2>5. Content(s)'
    <3>1. Carries(wire'[s], Opening(s), secret[s], WriteStream(s), 0)
      BY <2>4, HsShape, CarriesOpening
    <3>2. Taken(Other(s))' = 0
      BY <2>1, <2>3 DEF Taken
    <3> QED BY <2>1, <3>1, <3>2, <1>i, <1>s DEF Content
  <2> QED BY <2>1, <2>4, <2>5, <1>u
<1>3. ASSUME NEW s \in Sides, HsRead(s) PROVE \A t \in Sides : Content(t)'
  <2>o. PICK o \in Sides : o = Other(s) /\ Other(o) = s /\ Sides = {s, o} /\ o # s
    BY OtherSide
  <2> DEFINE x == Head(wire[o])
  <2>1. /\ UNCHANGED <<secret, rpos, got>> /\ once[s] = "busy" /\ Len(peer[s]) < Need(s)
        /\ wire[o] # <<>> /\ Take(s) /\ peer' = [peer EXCEPT ![s] = Append(peer[s], x)]
    BY <1>3, <1>d, <2>o DEF HsRead
  <2>2. /\ IsSeq(peer[s]) /\ IsSeq(wire[o]) /\ Len(peer[s]) \in Nat /\ Taken(s) \in Nat
        /\ Taken(s) = Len(peer[s]) + rpos[s] /\ rpos[s] \in Nat /\ Len(Opening(o)) \in Nat
    BY <1>i, Numbers
  <2>3. wire'[s] = wire[s] /\ wire'[o] = Tail(wire[o])
    BY <2>1, <2>o, <1>i, HsTake
  <2>4. peer'[s] = Append(peer[s], x) /\ peer'[o] = peer[o]
    BY <2>1, <2>o, <1>d
  <2>5. rpos[s] = 0 /\ Need(s) = Len(Opening(o))
    BY <2>1, <2>2, <2>o, <1>i, OpeningExpected DEF HsInv, Far, Settled
  <2>6. /\ x = UnitAt(Opening(o), secret[o], WriteStream(o), Taken(s) + 1)
        /\ Carries(wire'[o], Opening(o), secret[o], WriteStream(o), Taken(s) + 1)
    BY <2>1, <2>2, <2>3, <2>o, <1>i, CarriesTail DEF Content
  <2> HIDE DEF x
  <2>7. Taken(s) + 1 = Len(peer[s]) + 1 /\ Taken(s) + 1 <= Len(Opening(o))
    BY <2>1, <2>2, <2>5
  <2>8. x = Opening(o)[Len(peer[s]) + 1]
    BY <2>6, <2>7 DEF UnitAt
  <2>9. /\ Len(peer'[s]) = Len(peer[s]) + 1
        /\ \A i \in 1 .. Len(peer[s]) : peer'[s][i] = peer[s][i]
        /\ peer'[s][Len(peer[s]) + 1] = x
    BY <2>2, <2>4, SeqAppend
  <2>10. \A i \in 1 .. Len(peer'[s]) : peer'[s][i] = Opening(o)[i]
    <3>1. \A i \in 1 .. Len(peer[s]) : peer[s][i] = Opening(o)[i]
      BY <2>o, <1>i DEF Content
    <3>2. \A i \in 1 .. Len(peer'[s]) : i \in 1 .. Len(peer[s]) \/ i = Len(peer[s]) + 1
      BY <2>2, <2>9
    <3> QED BY <2>8, <2>9, <3>1, <3>2
  <2>11. Taken(s)' = Taken(s) + 1
    <3>1. Taken(s)' = (Len(peer[s]) + 1) + rpos[s]
      BY <2>1, <2>9 DEF Taken
    <3> QED BY <2>2, <2>5, <3>1
  <2>12. Content(o)'
    BY <2>1, <2>6, <2>10, <2>11, <2>o, <1>i, <1>s DEF Content
  <2>13. Content(s)'
    BY <2>1, <2>3, <2>4, <2>o, <1>u
  <2> QED BY <2>12, <2>13, <2>o
<1>4. ASSUME NEW s \in Sides, HsDone(s) PROVE \A t \in Sides : Content(t)'
  <2>1. /\ UNCHANGED <<wire, peer, rpos, got>> /\ once[s] = "busy"
        /\ helper[s] = IF Sends(s) THEN "sent" ELSE "off"
        /\ secret' = [secret EXCEPT ![s] = Secret(s)]
    BY <1>4 DEF HsDone
  <2>2. \A t \in Sides \ {s} : secret'[t] = secret[t]
    BY <2>1, <1>d
  <2>n. /\ IsSeq(wire[s]) /\ IsSeq(Opening(s)) /\ Len(wire[s]) \in Nat /\ wpos[s] \in Nat
        /\ Len(Opening(s)) \in Nat /\ Taken(Other(s)) \in Nat
        /\ Through(s) = Taken(Other(s)) + Len(wire[s])
    BY <1>i, Numbers, OtherSide
  <2>3. Taken(Other(s)) + Len(wire[s]) <= Len(Opening(s))
    <3>1. wpos[s] = 0
      BY <2>1, <2>n, <1>i DEF HsInv, Far, Settled
    <3>2. Through(s) \in {0, Len(Opening(s)) + wpos[s]}
      BY <1>i DEF HsInv, Far, Progress
    <3> QED BY <2>n, <3>1, <3>2
  <2>4. Carries(wire[s], Opening(s), secret'[s], WriteStream(s), Taken(Other(s)))
    BY <2>3, <2>n, <1>i, CarriesKey DEF Content
  <2>5. Content(s)'
    <3>1. Taken(Other(s))' = Taken(Other(s))
      BY <2>1 DEF Taken
    <3> QED BY <2>1, <2>4, <3>1, <1>i, <1>s DEF Content
  <2> QED BY <2>1, <2>2, <2>5, <1>u
<1>5. ASSUME NEW s \in Sides, Write(s) PROVE \A t \in Sides : Content(t)'
  <2> DEFINE x == Mask(s, wpos[s] + 1)
  <2>1. /\ UNCHANGED <<secret, peer, rpos, got>> /\ g[s]["write"] = "run"
        /\ wire' = [wire EXCEPT ![s] = Append(wire[s], x)]
    BY <1>5, <1>d DEF Write
  <2>n. /\ IsSeq(wire[s]) /\ Len(wire[s]) \in Nat /\ wpos[s] \in Nat
        /\ Len(Opening(s)) \in Nat /\ Taken(Other(s)) \in Nat
        /\ Through(s) = Taken(Other(s)) + Len(wire[s])
    BY <1>i, Numbers, OtherSide
  <2>2. Through(s) = Len(Opening(s)) + wpos[s]
    BY <2>1, <1>i DEF HsInv, Far, Settled, Progress, Goroutines
  <2>3. x = UnitAt(Opening(s), secret[s], WriteStream(s), Taken(Other(s)) + (Len(wire[s]) + 1))
    <3> DEFINE q == Taken(Other(s)) + (Len(wire[s]) + 1)
    <3>1. q = Len(Opening(s)) + (wpos[s] + 1)
      BY <2>n, <2>2
    <3> HIDE DEF q
    <3>2. ~(q <= Len(Opening(s))) /\ q - Len(Opening(s)) = wpos[s] + 1 /\ (wpos[s] + 1) - 1 = wpos[s]
      BY <2>n, <3>1
    <3>3. x = UnitAt(Opening(s), secret[s], WriteStream(s), q)
      BY <3>2 DEF UnitAt, Mask
    <3> QED BY <3>3 DEF q
  <2> HIDE DEF x
  <2>4. wire'[s] = Append(wire[s], x) /\ \A t \in Sides \ {s} : wire'[t] = wire[t]
    BY <2>1, <1>d
  <2>5. Carries(wire'[s], Opening(s), secret[s], WriteStream(s), Taken(Other(s)))
    BY <2>3, <2>4, <2>n, <1>i, CarriesAppend DEF Content
  <2>6. Content(s)'
    <3>1. Taken(Other(s))' = Taken(Other(s))
      BY <2>1 DEF Taken
    <3> QED BY <2>1, <2>5, <3>1, <1>i, <1>s DEF Content
  <2> QED BY <2>1, <2>4, <2>6, <1>u
<1>6. ASSUME NEW s \in Sides, Read(s) PROVE \A t \in Sides : Content(t)'
  <2>o. PICK o \in Sides : o = Other(s) /\ Other(o) = s /\ Sides = {s, o} /\ o # s
    BY OtherSide
  <2> DEFINE x == Unmask(s, Head(wire[o]))
  <2>1. /\ UNCHANGED <<secret, peer>> /\ g[s]["read"] = "run"
        /\ wire[o] # <<>> /\ Take(s) /\ rpos' = [rpos EXCEPT ![s] = rpos[s] + 1]
        /\ got' = [got EXCEPT ![s] = Append(got[s], x)]
    BY <1>6, <1>d, <2>o DEF Read
  <2>2. /\ IsSeq(wire[o]) /\ IsSeq(got[s]) /\ Len(got[s]) \in Nat /\ Taken(s) \in Nat
        /\ Taken(s) = Len(peer[s]) + rpos[s] /\ rpos[s] \in Nat /\ Len(peer[s]) \in Nat
        /\ Len(got[s]) = rpos[s]
    BY <1>i, Numbers
  <2>3. wire'[s] = wire[s] /\ wire'[o] = Tail(wire[o])
    BY <2>1, <2>o, <1>i, HsTake
  <2>4. x = rpos[s] + 1
    <3>1. once[s] = "ok"
      BY <2>1, <1>i DEF HsInv, Far, Settled, Goroutines
    <3> QED BY <2>1, <2>o, <3>1, <1>i, ReadReturns
  <2> HIDE DEF x
  <2>5. /\ got'[s] = Append(got[s], x) /\ got'[o] = got[o]
        /\ rpos'[s] = rpos[s] + 1 /\ rpos'[o] = rpos[o]
    BY <2>1, <2>o, <1>d
  <2>6. Carries(wire'[o], Opening(o), secret[o], WriteStream(o), Taken(s) + 1)
    BY <2>1, <2>2, <2>3, <2>o, <1>i, CarriesTail DEF Content
  <2>7. Taken(s)' = Taken(s) + 1
    <3>1. Taken(s)' = Len(peer[s]) + (rpos[s] + 1)
      BY <2>1, <2>5 DEF Taken
    <3> QED BY <2>2, <3>1
  <2>8. Content(o)'
    BY <2>1, <2>5, <2>6, <2>7, <2>o, <1>i, <1>s DEF Content
  <2>9. \A i \in 1 .. Len(got'[s]) : got'[s][i] = i
    <3>1. /\ Len(got'[s]) = Len(got[s]) + 1
          /\ \A i \in 1 .. Len(got[s]) : got'[s][i] = got[s][i]
          /\ got'[s][Len(got[s]) + 1] = x
      BY <2>2, <2>5, SeqAppend
    <3>2. \A i \in 1 .. Len(got'[s]) : i \in 1 .. Len(got[s]) \/ i = Len(got[s]) + 1
      BY <2>2, <3>1
    <3>3. \A i \in 1 .. Len(got[s]) : got[s][i] = i
      BY <1>i DEF Content
    <3> QED BY <2>2, <2>4, <3>1, <3>2, <3>3
  <2>10. Content(s)'
    <3>1. Taken(o)' = Taken(o)
      BY <2>1, <2>5 DEF Taken
    <3> QED BY <2>1, <2>3, <2>9, <2>o, <3>1, <1>i, <1>s DEF Content
  <2> QED BY <2>8, <2>10, <2>o
<1>7. ASSUME NEW s \in Sides, NEW k \in Goroutines, Call(s, k) \/ Return(s, k) \/ Fail(s, k)
      PROVE  \A t \in Sides : Content(t)'
  BY <1>7, <1>1 DEF Call, Return, Fail
<1>8. ASSUME NEW s \in Sides, HsWritten(s) \/ HsWriteFail(s) \/ HsFail(s) \/ Written(s)
      PROVE  \A t \in Sides : Content(t)'
  BY <1>8, <1>1 DEF HsWritten, HsWriteFail, HsFail, Written
<1>9. CASE Close \/ UNCHANGED vars
  BY <1>9, <1>1 DEF Close, vars
<1> QED BY <1>2, <1>3, <1>4, <1>5, <1>6, <1>7, <1>8, <1>9 DEF Next, Step

(* With matching configurations every Read returns what the other side wrote,
   in order and unmasked, for any number of messages and any interleaving of
   the goroutines and the handshakes. *)
THEOREM StreamIntactHolds == Spec => []StreamIntact
<1>1. StreamInv => StreamIntact
  BY DEF StreamInv, Content, StreamIntact, Paired
<1> QED BY StreamInit, StreamNext, <1>1, PTL DEF Spec

-----------------------------------------------------------------------------
(* The refinement: the payload on the wire is the queue of messages written
   and not yet read. *)

Queue(w, r) == [i \in 1 .. w - r |-> r + i]

LEMMA QueueShape ==
    ASSUME NEW w \in Nat, NEW r \in Nat, r <= w
    PROVE  Queue(w, r) \in Seq(Nat) /\ Len(Queue(w, r)) = w - r
<1>1. w - r \in Nat /\ Queue(w, r) \in [1 .. w - r -> Nat]
  BY DEF Queue
<1> HIDE DEF Queue
<1> QED BY <1>1, FcnIsSeq

LEMMA QueueSend ==
    ASSUME NEW w \in Nat, NEW r \in Nat, r <= w
    PROVE  Append(Queue(w, r), r + Len(Queue(w, r)) + 1) = Queue(w + 1, r)
<1>1. /\ Queue(w, r) \in Seq(Nat) /\ Len(Queue(w, r)) = w - r
      /\ Queue(w + 1, r) \in Seq(Nat) /\ Len(Queue(w + 1, r)) = (w + 1) - r
  <2>1. w + 1 \in Nat /\ r <= w + 1
    OBVIOUS
  <2> QED BY <2>1, QueueShape
<1>2. r + (w - r) + 1 = w + 1 /\ w - r \in Nat
  OBVIOUS
<1>3. /\ \A i \in 1 .. w - r : Queue(w, r)[i] = r + i
      /\ \A i \in 1 .. (w + 1) - r : Queue(w + 1, r)[i] = r + i
  BY DEF Queue
<1> DEFINE a == Append(Queue(w, r), w + 1)
<1>4. /\ a \in Seq(Nat) /\ Len(a) = (w - r) + 1
      /\ \A i \in 1 .. w - r : a[i] = Queue(w, r)[i]
      /\ a[(w - r) + 1] = w + 1
  BY <1>1
<1> HIDE DEF a
<1>5. ASSUME NEW i \in 1 .. Len(a) PROVE a[i] = Queue(w + 1, r)[i]
  <2>1. i \in 1 .. (w + 1) - r /\ (i \in 1 .. w - r \/ i = (w - r) + 1)
    BY <1>4
  <2>2. CASE i \in 1 .. w - r
    BY <1>3, <1>4, <2>1, <2>2
  <2>3. CASE i = (w - r) + 1
    <3>1. r + i = w + 1
      BY <2>3
    <3> QED BY <1>3, <1>4, <2>1, <2>3, <3>1
  <2> QED BY <2>1, <2>2, <2>3
<1>6. Len(a) = Len(Queue(w + 1, r))
  BY <1>1, <1>4
<1>7. a = Queue(w + 1, r)
  BY <1>1, <1>4, <1>5, <1>6, SeqEqual
<1> QED BY <1>1, <1>2, <1>7 DEF a

LEMMA QueueRecv ==
    ASSUME NEW w \in Nat, NEW r \in Nat, r < w
    PROVE  /\ Queue(w, r) # <<>> /\ Head(Queue(w, r)) = r + 1
           /\ Tail(Queue(w, r)) = Queue(w, r + 1)
<1> DEFINE q == Queue(w, r)
           p == Queue(w, r + 1)
<1>1. q \in Seq(Nat) /\ Len(q) = w - r /\ p \in Seq(Nat) /\ Len(p) = w - (r + 1)
  <2>1. r + 1 \in Nat /\ r <= w /\ r + 1 <= w
    OBVIOUS
  <2> QED BY <2>1, QueueShape
<1>2. /\ \A i \in 1 .. w - r : q[i] = r + i
      /\ \A i \in 1 .. w - (r + 1) : p[i] = (r + 1) + i
  BY DEF Queue
<1> HIDE DEF q, p
<1>3. q # <<>> /\ Len(q) > 0
  BY <1>1
<1>4. Head(q) = q[1] /\ q[1] = r + 1
  BY <1>1, <1>2, <1>3
<1>5. Tail(q) \in Seq(Nat) /\ Len(Tail(q)) = Len(q) - 1
      /\ \A i \in 1 .. Len(q) - 1 : Tail(q)[i] = q[i + 1]
  BY <1>1, <1>3
<1>6. Len(Tail(q)) = Len(p)
  BY <1>1, <1>5
<1>7. ASSUME NEW i \in 1 .. Len(Tail(q)) PROVE Tail(q)[i] = p[i]
  <2>1. i \in 1 .. w - (r + 1) /\ i + 1 \in 1 .. w - r /\ i \in 1 .. Len(q) - 1
    BY <1>1, <1>5
  <2>2. q[i + 1] = r + (i + 1) /\ p[i] = (r + 1) + i
    BY <1>2, <2>1
  <2> QED BY <1>5, <2>1, <2>2
<1>8. Tail(q) = p
  BY <1>1, <1>5, <1>6, <1>7, SeqEqual
<1> QED BY <1>3, <1>4, <1>8 DEF q, p

(* The handshake units on a wire are told from the payload. *)
LEMMA PayloadFrom ==
    ASSUME NEW w, IsSeq(w), NEW h \in 0 .. Len(w), \A i \in 1 .. h : w[i].t # "data",
           h < Len(w) => w[h + 1].t = "data"
    PROVE  Payload(w) = [i \in 1 .. Len(w) - h |-> w[h + i].n]
<1>1. Len(w) \in Nat
  BY SeqEmpty
<1> DEFINE Good(x) == /\ \A i \in 1 .. x : w[i].t # "data"
                      /\ x < Len(w) => w[x + 1].t = "data"
<1>2. ASSUME NEW x \in 0 .. Len(w), Good(x) PROVE x = h
  <2>1. CASE x < h
    <3>1. x + 1 \in 1 .. h /\ x < Len(w)
      BY <1>1, <2>1
    <3> QED BY <1>2, <3>1
  <2>2. CASE h < x
    <3>1. h + 1 \in 1 .. x /\ h < Len(w)
      BY <1>1, <2>2
    <3> QED BY <1>2, <3>1
  <2> QED BY <1>1, <2>1, <2>2
<1>3. HsLeft(w) = CHOOSE x \in 0 .. Len(w) : Good(x)
  BY DEF HsLeft
<1>4. Good(h)
  OBVIOUS
<1> HIDE DEF Good
<1>5. HsLeft(w) = h
  BY <1>2, <1>3, <1>4
<1> QED BY <1>5 DEF Payload

QueueInv ==
    Paired => \A s \in Sides :
        /\ Payload(wire[s]) = Queue(wpos[s], rpos[Other(s)])
        /\ rpos[Other(s)] \in Nat /\ wpos[s] \in Nat /\ rpos[Other(s)] <= wpos[s]

LEMMA QueueOnWire == StreamInv => QueueInv
<1> SUFFICES ASSUME StreamInv, Paired, NEW s \in Sides
             PROVE  /\ Payload(wire[s]) = Queue(wpos[s], rpos[Other(s)])
                    /\ rpos[Other(s)] \in Nat /\ wpos[s] \in Nat /\ rpos[Other(s)] <= wpos[s]
  BY DEF QueueInv
<1>o. PICK o \in Sides : o = Other(s) /\ Other(o) = s
  BY OtherSide
<1>i. HsInv /\ Content(s)
  BY DEF StreamInv
<1> DEFINE w == wire[s]
           n == Len(w)
           a == Len(peer[o])
           r == rpos[o]
           p == wpos[s]
           L == Len(Opening(s))
<1>n. /\ IsSeq(w) /\ n \in Nat /\ a \in Nat /\ r \in Nat /\ p \in Nat /\ L \in Nat
      /\ Taken(o) = a + r /\ Through(s) = a + r + n
  BY <1>i, <1>o, Numbers
<1>1. /\ a + r + n \in {0, L + p} /\ a <= L /\ (r > 0 => a = L) /\ (a + r + n = 0 => p = 0)
  <2>1. /\ Through(s) \in {0, L + p} /\ (once[s] = "ok" => Through(s) = L + p)
        /\ (p > 0 => once[s] = "ok")
    BY <1>i DEF HsInv, Far, Settled, Progress
  <2>2. a <= Need(o) /\ (r > 0 => a = Need(o)) /\ Need(o) = L
    BY <1>i, <1>o, OpeningExpected DEF HsInv, Far, Settled
  <2>3. Through(s) = a + r + n
    BY <1>n
  <2> HIDE DEF n, a, r, p, L
  <2>4. a + r + n \in {0, L + p}
    BY <2>1, <2>3
  <2>5. a + r + n = 0 => p = 0
    <3>1. p > 0 => a + r + n = L + p
      BY <2>1, <2>3
    <3> QED BY <3>1, <1>n
  <2> QED BY <2>2, <2>4, <2>5
<1>2. \A i \in 1 .. n : w[i] = UnitAt(Opening(s), secret[s], WriteStream(s), (a + r) + i)
  BY <1>i, <1>n, <1>o DEF Content, Carries
<1>3. \A i \in 1 .. L : Opening(s)[i].t # "data"
  BY HsShape
<1>4. r <= p /\ p - r <= n
  <2> HIDE DEF n, a, r, p, L
  <2> QED BY <1>n, <1>1
<1> DEFINE h == n - (p - r)
<1>5. h \in 0 .. n /\ n - h = p - r
  <2> HIDE DEF n, r, p
  <2> QED BY <1>n, <1>4
<1>6. /\ \A i \in 1 .. h : (a + r) + i \in 1 .. L
      /\ \A i \in 1 .. n - h : /\ ~((a + r) + (h + i) <= L) /\ ((a + r) + (h + i)) - L = r + i
                               /\ h + i \in 1 .. n
  <2> HIDE DEF n, a, r, p, L
  <2>1. \A i \in 1 .. h : (a + r) + i \in 1 .. L
    BY <1>n, <1>1, <1>4
  <2>2. \A i \in 1 .. n - h : h + i \in 1 .. n
    BY <1>n, <1>4
  <2>3. n # 0 => n - h = p - r /\ a + r + h = L + r
    BY <1>n, <1>1, <1>4
  <2>4. \A i \in 1 .. n - h : n # 0 /\ i \in Nat /\ i > 0
    BY <1>n, <1>4
  <2>5. h \in Int
    BY <1>n
  <2> HIDE DEF h
  <2>6. ASSUME NEW i \in 1 .. n - h
        PROVE  ~((a + r) + (h + i) <= L) /\ ((a + r) + (h + i)) - L = r + i
    <3>1. (a + r) + (h + i) = (L + r) + i
      BY <2>3, <2>4, <2>5, <2>6, <1>n
    <3> QED BY <2>4, <3>1, <1>n
  <2> QED BY <2>1, <2>2, <2>6
<1> HIDE DEF n, a, r, p, L, h
<1>7. ASSUME NEW i \in 1 .. h PROVE w[i].t # "data"
  <2>1. i \in 1 .. n /\ (a + r) + i \in 1 .. L
    BY <1>5, <1>6, <1>n
  <2>2. w[i] = Opening(s)[(a + r) + i]
    <3>1. (a + r) + i <= Len(Opening(s))
      BY <2>1, <1>n DEF L
    <3>2. w[i] = UnitAt(Opening(s), secret[s], WriteStream(s), (a + r) + i)
      BY <1>2, <2>1
    <3> QED BY <3>1, <3>2 DEF UnitAt
  <2> QED BY <1>3, <2>1, <2>2
<1>8. ASSUME NEW i \in 1 .. n - h PROVE w[h + i].t = "data" /\ w[h + i].n = r + i
  <2>1. w[h + i] = UnitAt(Opening(s), secret[s], WriteStream(s), (a + r) + (h + i))
    BY <1>2, <1>6
  <2>2. UnitAt(Opening(s), secret[s], WriteStream(s), (a + r) + (h + i))
          = [t |-> "data", n |-> r + i, key |-> secret[s], stream |-> WriteStream(s),
             pos |-> (r + i) - 1]
    BY <1>6 DEF UnitAt, L
  <2> QED BY <2>1, <2>2
<1>9. h < n => w[h + 1].t = "data"
  <2>1. h < n => 1 \in 1 .. n - h
    BY <1>5, <1>n
  <2> QED BY <2>1, <1>8
<1>10. Payload(w) = [i \in 1 .. n - h |-> w[h + i].n]
  BY <1>5, <1>7, <1>9, <1>n, PayloadFrom DEF n
<1>11. Payload(w) = [i \in 1 .. p - r |-> r + i]
  BY <1>5, <1>8, <1>10
<1> QED BY <1>4, <1>11, <1>n, <1>o DEF Queue, p, r

LEMMA PipeInit == Init => P!Init
<1> SUFFICES ASSUME Init PROVE P!Init
  OBVIOUS
<1>1. Payload(<<>>) = <<>>
  <2>1. IsSeq(<<>>) /\ Len(<<>>) = 0
    BY SeqEmpty
  <2>2. Payload(<<>>) = [i \in 1 .. 0 - 0 |-> <<>>[0 + i].n]
    BY <2>1, PayloadFrom
  <2>3. [i \in 1 .. 0 - 0 |-> <<>>[0 + i].n] \in [1 .. 0 -> {}]
    OBVIOUS
  <2>4. Payload(<<>>) \in Seq({}) /\ Len(Payload(<<>>)) = 0
    BY <2>2, <2>3, FcnIsSeq
  <2> QED BY <2>4
<1>2. [s \in Sides |-> Payload(wire[s])] = [s \in Sides |-> <<>>]
  BY <1>1 DEF Init
<1>3. (psk["client"] = psk["server"]) \in BOOLEAN
  OBVIOUS
<1> QED BY <1>2, <1>3 DEF Init, P!Init

LEMMA PipeNext == StreamInv /\ StreamInv' /\ QueueInv /\ QueueInv' /\ [Next]_vars => [P!Next]_(P!vars)
<1> SUFFICES ASSUME StreamInv, StreamInv', QueueInv, QueueInv', [Next]_vars PROVE [P!Next]_(P!vars)
  OBVIOUS
<1> USE DEF hsVars, dataVars
<1> DEFINE queue == [s \in Sides |-> Payload(wire[s])]
<1>p. psk' = psk
  BY DEF Next, Step, vars, Call, Return, Fail, HsWrite, HsWritten, HsWriteFail, HsRead, HsDone,
         HsFail, Write, Written, Read, Close
<1>1. CASE ~Paired
  BY <1>1, <1>p DEF Paired, P!Next, P!Unmatched
<1>2. CASE Paired
  <2>i. HsInv /\ HsInv' /\ Paired /\ Paired'
    BY <1>2, <1>p DEF StreamInv, Paired
  <2>q. ASSUME NEW s \in Sides
        PROVE  /\ queue[s] = Queue(wpos[s], rpos[Other(s)])
               /\ wpos[s] \in Nat /\ rpos[Other(s)] \in Nat /\ rpos[Other(s)] <= wpos[s]
               /\ queue'[s] = Queue(wpos'[s], rpos'[Other(s)])
    <3>1. /\ Payload(wire[s]) = Queue(wpos[s], rpos[Other(s)])
          /\ wpos[s] \in Nat /\ rpos[Other(s)] \in Nat /\ rpos[Other(s)] <= wpos[s]
      BY <2>i DEF QueueInv
    <3>2. Payload(wire[s])' = Queue(wpos'[s], rpos'[Other(s)])
      BY <2>i DEF QueueInv
    <3> QED BY <3>1, <3>2
  <2>d. /\ wpos \in [Sides -> Nat] /\ rpos \in [Sides -> Nat] /\ DOMAIN got = Sides
        /\ DOMAIN wire = Sides
    BY <2>i, MaxMsgsAssumption DEF HsInv, Ranges
  <2>e. DOMAIN queue = Sides /\ queue = [s \in Sides |-> queue[s]]
        /\ queue' = [s \in Sides |-> queue'[s]]
    OBVIOUS
  <2>m. (psk["client"] = psk["server"]) = TRUE /\ (psk'["client"] = psk'["server"]) = TRUE
    BY <2>i DEF Paired
  <2>1. ASSUME NEW s \in Sides, Write(s) PROVE P!Send(s)
    <3>1. ~closed /\ closed' = closed /\ got' = got /\ rpos' = rpos
          /\ wpos' = [wpos EXCEPT ![s] = wpos[s] + 1]
      BY <2>1, <2>d DEF Write
    <3>2. wpos'[s] = wpos[s] + 1 /\ \A t \in Sides \ {s} : wpos'[t] = wpos[t]
      BY <3>1, <2>d
    <3>3. Len(got[Other(s)]) = rpos[Other(s)]
      BY <2>i, Numbers, OtherSide
    <3> HIDE DEF queue
    <3>4. queue'[s] = Append(queue[s], Len(got[Other(s)]) + Len(queue[s]) + 1)
      BY <2>q, <3>1, <3>2, <3>3, QueueSend
    <3>5. \A t \in Sides \ {s} : queue'[t] = queue[t]
      BY <2>q, <3>1, <3>2
    <3>6. queue' = [queue EXCEPT ![s] = Append(@, Len(got[Other(s)]) + Len(@) + 1)]
      BY <2>e, <3>4, <3>5
    <3> QED BY <2>m, <3>1, <3>6 DEF P!Send, queue
  <2>2. ASSUME NEW s \in Sides, Read(s) PROVE P!Recv(s)
    <3>o. PICK o \in Sides : o = Other(s) /\ Other(o) = s /\ o # s /\ Sides = {s, o}
      BY OtherSide
    <3>1. /\ closed' = closed /\ wpos' = wpos /\ g[s]["read"] = "run" /\ wire[o] # <<>>
          /\ got' = [got EXCEPT ![s] = Append(got[s], Unmask(s, Head(wire[o])))]
          /\ rpos' = [rpos EXCEPT ![s] = rpos[s] + 1]
      BY <2>2, <2>d, <3>o DEF Read
    <3>2. once[s] = "ok"
      BY <3>1, <2>i DEF HsInv, Far, Settled, Goroutines
    <3>3. Unmask(s, Head(wire[o])) = rpos[s] + 1
      BY <3>1, <3>2, <3>o, <2>i, ReadReturns
    <3>4. rpos'[s] = rpos[s] + 1 /\ rpos'[o] = rpos[o]
      BY <3>1, <3>o, <2>d
    <3>5. rpos'[s] <= wpos[o]
      <4>1. rpos'[Other(o)] <= wpos'[o]
        BY <2>i DEF QueueInv
      <4> QED BY <4>1, <3>o, <3>1
    <3>6. wpos[o] \in Nat /\ rpos[s] \in Nat /\ rpos[s] < wpos[o]
      BY <3>4, <3>5, <2>d
    <3> HIDE DEF queue
    <3>7. queue[o] = Queue(wpos[o], rpos[s]) /\ queue'[o] = Queue(wpos[o], rpos[s] + 1)
      BY <2>q, <3>o, <3>1, <3>4
    <3>8. queue[o] # <<>> /\ Head(queue[o]) = rpos[s] + 1 /\ Tail(queue[o]) = queue'[o]
      <4>1. LET w == wpos[o]  r == rpos[s] IN
            /\ Queue(w, r) # <<>> /\ Head(Queue(w, r)) = r + 1
            /\ Tail(Queue(w, r)) = Queue(w, r + 1)
        BY <3>6, QueueRecv
      <4> QED BY <3>7, <4>1
    <3>9. queue'[s] = queue[s]
      BY <2>q, <3>o, <3>1, <3>4
    <3>10. queue' = [queue EXCEPT ![o] = Tail(queue[o])]
      BY <2>e, <3>o, <3>8, <3>9
    <3>11. got' = [got EXCEPT ![s] = Append(got[s], Head(queue[o]))]
      BY <3>1, <3>3, <3>8
    <3> QED BY <2>m, <2>d, <3>1, <3>8, <3>10, <3>11, <3>o, <2>e DEF P!Recv, queue
  <2>3. ASSUME UNCHANGED <<wpos, rpos, got>> PROVE UNCHANGED <<queue, got>>
    <3> HIDE DEF queue
    <3>1. \A s \in Sides : queue'[s] = queue[s]
      BY <2>3, <2>q
    <3> QED BY <2>3, <2>e, <3>1
  <2>4. CASE Close
    <3>1. UNCHANGED <<queue, got>>
      BY <2>3, <2>4 DEF Close
    <3> QED BY <2>4, <2>m, <3>1 DEF Close, P!Next, P!Close
  <2>5. ASSUME UNCHANGED <<wpos, rpos, got, closed>> PROVE UNCHANGED P!vars
    <3>1. UNCHANGED <<queue, got>>
      BY <2>3, <2>5
    <3> QED BY <2>5, <2>m, <3>1 DEF P!vars
  <2>6. ASSUME NEW s \in Sides, NEW k \in Goroutines, Call(s, k) \/ Return(s, k) \/ Fail(s, k)
        PROVE  UNCHANGED P!vars
    BY <2>5, <2>6 DEF Call, Return, Fail
  <2>7. ASSUME NEW s \in Sides, \/ HsWrite(s) \/ HsWritten(s) \/ HsWriteFail(s) \/ HsRead(s)
                                \/ HsDone(s) \/ HsFail(s) \/ Written(s)
        PROVE  UNCHANGED P!vars
    BY <2>5, <2>7 DEF HsWrite, HsWritten, HsWriteFail, HsRead, HsDone, HsFail, Written
  <2>8. CASE UNCHANGED vars
    BY <2>5, <2>8 DEF vars
  <2>9. ASSUME NEW s \in Sides, Write(s) \/ Read(s) PROVE P!Next
    BY <2>1, <2>2, <2>9 DEF P!Next
  <2> QED BY <2>4, <2>6, <2>7, <2>8, <2>9 DEF Next, Step
<1> QED BY <1>1, <1>2

(* The obfuscated connection implements the plain one: the handshake neither
   takes, adds nor reorders payload, and Reads return the messages in order. *)
THEOREM ImplementsPipeHolds == Spec => ImplementsPipe
<1> QED BY StreamInit, StreamNext, QueueOnWire, PipeInit, PipeNext, PTL DEF Spec, ImplementsPipe, P!Spec
=============================================================================
