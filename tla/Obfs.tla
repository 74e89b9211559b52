-------------------------------- MODULE Obfs --------------------------------
(***************************************************************************)
(* The obfuscated connection (proxy/obfs.go and its mirror web/obfs.go):   *)
(* two obfConns over one transport, each driven by a reading and a writing *)
(* goroutine, as yamux drives them.  The first Read or Write on a side     *)
(* runs the handshake, once.                                               *)
(*                                                                         *)
(* The wire carries units of 16 bytes: a seed is one unit, a public key    *)
(* two, a payload message one.  A unit of payload records the secret, the  *)
(* keystream and the position it was masked with; unmasking gives the      *)
(* message back only with all three equal.                                 *)
(***************************************************************************)
EXTENDS Naturals, Sequences, FiniteSets

CONSTANTS Keys,      \* pre-shared passphrases
          Empty,     \* no passphrase: negotiate
          Garbage,   \* what unmasking with the wrong keystream gives
          MaxMsgs    \* bound: payload messages each side writes

ASSUME EmptyAssumption == Empty \notin Keys
ASSUME GarbageAssumption == Garbage \notin Nat
ASSUME MaxMsgsAssumption == MaxMsgs \in Nat

Sides == {"client", "server"}
Goroutines == {"read", "write"}
Other(s) == IF s = "client" THEN "server" ELSE "client"

VARIABLES
    psk,      \* the passphrase each side is configured with
    buffered, \* whether a Write may return before its bytes are read
    g,        \* each goroutine: "idle", "once" (in handshake()), "run", "failed"
    once,     \* the handshake of each side: "new", "busy", "ok" or "err"
    helper,   \* its write of seed or key: "off", "ready", "writing", "sent", "err"
    peer,     \* the units it has read
    secret,   \* what it derived
    wire,     \* wire[s]: what s wrote and the other side has not read
    writing,  \* whether a payload Write of s is under way
    wpos, rpos,   \* the positions of its two keystreams
    got,      \* the messages its Reads returned
    pad,      \* history: the keystream units used for masking
    closed    \* whether the transport was closed

hsVars   == <<once, helper, peer, secret>>
dataVars == <<writing, wpos, rpos, got, pad>>
vars == <<psk, buffered, g, hsVars, wire, dataVars, closed>>

SeedUnit(s) == <<[t |-> "seed", from |-> s]>>
PubUnits(s) == [i \in 1..2 |-> [t |-> "pub", from |-> s, part |-> i]]

(* What a side sends in its handshake, and how many units it reads. *)
HsUnits(s) == IF psk[s] = Empty THEN PubUnits(s) ELSE SeedUnit(s)
Sends(s) == psk[s] = Empty \/ s = "client"
(* Mutant: the server expects a seed of two units. *)
NeedMore(s) == IF psk[s] = Empty \/ s = "server" THEN 2 ELSE 0

Need(s) == IF psk[s] = Empty THEN 2 ELSE IF s = "client" THEN 0 ELSE 1

(* handshakePSK appends the seed to the key; handshakeECDH combines the own
   key with the peer's: both sides get the same from two real keys. *)
Secret(s) ==
    IF psk[s] = Empty
    THEN <<"ecdh", {PubUnits(s), peer[s]}>>
    ELSE <<psk[s], IF s = "client" THEN SeedUnit(s) ELSE peer[s]>>

(* Mutant: both sides write with the first stream. *)
WriteStreamUp(s) == "up"

(* obfStreams and its use in doHandshake: the server writes "down". *)
WriteStream(s) == IF s = "server" THEN "down" ELSE "up"
ReadStream(s) == IF s = "server" THEN "up" ELSE "down"

Mask(s, n) == [t |-> "data", n |-> n, key |-> secret[s],
               stream |-> WriteStream(s), pos |-> wpos[s]]

Unmask(s, u) ==
    IF /\ u.t = "data"
       /\ u.key = secret[s] /\ u.stream = ReadStream(s) /\ u.pos = rpos[s]
    THEN u.n ELSE Garbage

(* One type invariant: the ranges of the program's variables. *)
TypeOK ==
    /\ psk \in [Sides -> Keys \cup {Empty}]
    /\ buffered \in BOOLEAN
    /\ g \in [Sides -> [Goroutines -> {"idle", "once", "run", "failed"}]]
    /\ once \in [Sides -> {"new", "busy", "ok", "err"}]
    /\ helper \in [Sides -> {"off", "ready", "writing", "sent", "err"}]
    /\ \A s \in Sides : Len(peer[s]) <= Need(s)
    /\ writing \in [Sides -> BOOLEAN]
    /\ wpos \in [Sides -> 0 .. MaxMsgs]
    /\ rpos \in [Sides -> 0 .. MaxMsgs + 2]
    /\ \A s \in Sides : Len(got[s]) = rpos[s]
    /\ closed \in BOOLEAN

Init ==
    /\ psk \in [Sides -> Keys \cup {Empty}]
    /\ buffered \in BOOLEAN
    /\ g = [s \in Sides |-> [k \in Goroutines |-> "idle"]]
    /\ once = [s \in Sides |-> "new"]
    /\ helper = [s \in Sides |-> "off"]
    /\ peer = [s \in Sides |-> <<>>]
    /\ secret = [s \in Sides |-> <<>>]
    /\ wire = [s \in Sides |-> <<>>]
    /\ writing = [s \in Sides |-> FALSE]
    /\ wpos = [s \in Sides |-> 0]
    /\ rpos = [s \in Sides |-> 0]
    /\ got = [s \in Sides |-> <<>>]
    /\ pad = {}
    /\ closed = FALSE

Set(s, k, v) == g' = [g EXCEPT ![s][k] = v]

-----------------------------------------------------------------------------
(* handshake(). *)

(* Mutant: no sync.Once: a second caller starts over. *)
CallAgain(s, k) ==
    /\ g[s][k] = "idle"
    /\ Set(s, k, "once")
    /\ once' = [once EXCEPT ![s] = "busy"]
    /\ helper' = [helper EXCEPT ![s] = IF Sends(s) THEN "ready" ELSE "off"]
    /\ peer' = [peer EXCEPT ![s] = <<>>]
    /\ UNCHANGED <<psk, buffered, secret, wire, dataVars, closed>>

(* A goroutine's first Read or Write.  The first on its side runs the
   handshake; the second waits for it in once.Do. *)
Call(s, k) ==
    /\ g[s][k] = "idle"
    /\ Set(s, k, "once")
    /\ IF once[s] = "new"
       THEN /\ once' = [once EXCEPT ![s] = "busy"]
            /\ helper' = [helper EXCEPT ![s] = IF Sends(s) THEN "ready" ELSE "off"]
       ELSE UNCHANGED <<once, helper>>
    /\ UNCHANGED <<psk, buffered, peer, secret, wire, dataVars, closed>>

Return(s, k) ==
    /\ g[s][k] = "once"
    /\ once[s] \in {"ok", "err"}
    /\ Set(s, k, IF once[s] = "ok" THEN "run" ELSE "failed")
    /\ UNCHANGED <<psk, buffered, hsVars, wire, dataVars, closed>>

(* The seed or the key is written: by the goroutine of handshakeECDH, or by
   the caller itself in handshakePSK, which has nothing to read then. *)
HsWrite(s) ==
    /\ helper[s] = "ready" /\ ~closed
    /\ helper' = [helper EXCEPT ![s] = "writing"]
    /\ wire' = [wire EXCEPT ![s] = @ \o HsUnits(s)]
    /\ UNCHANGED <<psk, buffered, g, once, peer, secret, dataVars, closed>>

HsWritten(s) ==
    /\ helper[s] = "writing"
    /\ buffered \/ wire[s] = <<>>
    /\ helper' = [helper EXCEPT ![s] = "sent"]
    /\ UNCHANGED <<psk, buffered, g, once, peer, secret, wire, dataVars, closed>>

(* Mutant: werr has no buffer, so its sender needs a receiver. *)
HsWriteFailUnbuffered(s) ==
    /\ helper[s] \in {"ready", "writing"} /\ closed
    /\ once[s] = "busy"
    /\ helper' = [helper EXCEPT ![s] = "err"]
    /\ UNCHANGED <<psk, buffered, g, once, peer, secret, wire, dataVars, closed>>

(* The error goes into werr, which has room for it. *)
HsWriteFail(s) ==
    /\ helper[s] \in {"ready", "writing"} /\ closed
    /\ helper' = [helper EXCEPT ![s] = "err"]
    /\ UNCHANGED <<psk, buffered, g, once, peer, secret, wire, dataVars, closed>>

Take(s) == wire' = [wire EXCEPT ![Other(s)] = Tail(@)]

(* Mutant: the key is written before the peer's is read. *)
HsReadAfterWrite(s) ==
    /\ once[s] = "busy" /\ Len(peer[s]) < Need(s)
    /\ helper[s] \in {"off", "sent"}
    /\ wire[Other(s)] # <<>>
    /\ peer' = [peer EXCEPT ![s] = Append(@, Head(wire[Other(s)]))]
    /\ Take(s)
    /\ UNCHANGED <<psk, buffered, g, once, helper, secret, dataVars, closed>>

(* io.ReadFull gets the next unit. *)
HsRead(s) ==
    /\ once[s] = "busy" /\ Len(peer[s]) < Need(s)
    /\ wire[Other(s)] # <<>>
    /\ peer' = [peer EXCEPT ![s] = Append(@, Head(wire[Other(s)]))]
    /\ Take(s)
    /\ UNCHANGED <<psk, buffered, g, once, helper, secret, dataVars, closed>>

(* Enough was read and the write has succeeded: the streams are derived. *)
HsDone(s) ==
    /\ once[s] = "busy" /\ Len(peer[s]) = Need(s)
    /\ helper[s] = IF Sends(s) THEN "sent" ELSE "off"
    /\ secret' = [secret EXCEPT ![s] = Secret(s)]
    /\ once' = [once EXCEPT ![s] = "ok"]
    /\ UNCHANGED <<psk, buffered, g, helper, peer, wire, dataVars, closed>>

(* The read fails, or it is done and the write has failed. *)
HsFail(s) ==
    /\ once[s] = "busy"
    /\ IF Len(peer[s]) < Need(s) THEN closed ELSE helper[s] = "err"
    /\ once' = [once EXCEPT ![s] = "err"]
    /\ UNCHANGED <<psk, buffered, g, helper, peer, secret, wire, dataVars, closed>>

-----------------------------------------------------------------------------
(* Read and Write after the handshake. *)

Write(s) ==
    /\ g[s]["write"] = "run" /\ ~writing[s] /\ ~closed
    /\ wpos[s] < MaxMsgs
    /\ wire' = [wire EXCEPT ![s] = Append(@, Mask(s, wpos[s] + 1))]
    /\ pad' = pad \cup {<<secret[s], WriteStream(s), wpos[s]>>}
    /\ wpos' = [wpos EXCEPT ![s] = @ + 1]
    /\ writing' = [writing EXCEPT ![s] = TRUE]
    /\ UNCHANGED <<psk, buffered, g, hsVars, rpos, got, closed>>

Written(s) ==
    /\ writing[s]
    /\ buffered \/ wire[s] = <<>>
    /\ writing' = [writing EXCEPT ![s] = FALSE]
    /\ UNCHANGED <<psk, buffered, g, hsVars, wire, wpos, rpos, got, pad, closed>>

Read(s) ==
    /\ g[s]["read"] = "run"
    /\ wire[Other(s)] # <<>>
    /\ got' = [got EXCEPT ![s] = Append(@, Unmask(s, Head(wire[Other(s)])))]
    /\ rpos' = [rpos EXCEPT ![s] = @ + 1]
    /\ Take(s)
    /\ UNCHANGED <<psk, buffered, g, hsVars, writing, wpos, pad, closed>>

(* A Read or a Write fails. *)
Fail(s, k) ==
    /\ g[s][k] = "run" /\ closed
    /\ Set(s, k, "failed")
    /\ writing' = [writing EXCEPT ![s] = @ /\ k # "write"]
    /\ UNCHANGED <<psk, buffered, hsVars, wire, wpos, rpos, got, pad, closed>>

(* Either end is closed.  What is in flight may still be read, or not. *)
Close ==
    /\ ~closed
    /\ closed' = TRUE
    /\ UNCHANGED <<psk, buffered, g, hsVars, wire, dataVars>>

-----------------------------------------------------------------------------
Step(s) ==
    \/ HsWrite(s) \/ HsWritten(s) \/ HsWriteFail(s)
    \/ HsRead(s) \/ HsDone(s) \/ HsFail(s)
    \/ Write(s) \/ Written(s) \/ Read(s)

Next ==
    \/ \E s \in Sides, k \in Goroutines : Call(s, k) \/ Return(s, k) \/ Fail(s, k)
    \/ \E s \in Sides : Step(s)
    \/ Close

Spec == Init /\ [][Next]_vars

(* The goroutines inside a handshake are scheduled, and so are the reads that
   follow it; nobody has to make a first call or to close. *)
FairSpec ==
    /\ Spec
    /\ \A s \in Sides :
          /\ WF_vars(HsWrite(s)) /\ WF_vars(HsWritten(s)) /\ WF_vars(HsWriteFail(s))
          /\ WF_vars(HsRead(s)) /\ WF_vars(HsDone(s) \/ HsFail(s))
          /\ \A k \in Goroutines : WF_vars(Return(s, k))

-----------------------------------------------------------------------------
(* Properties *)

(* With matching configurations every Read returns what the other side wrote,
   in order and unmasked, however the four goroutines and the handshakes
   interleave. *)
StreamIntact ==
    psk["client"] = psk["server"] =>
        \A s \in Sides : \A i \in 1 .. Len(got[s]) : got[s][i] = i

(* "independent keystreams per direction": no unit of keystream masks two
   units of payload, in either direction. *)
KeystreamUsedOnce == Cardinality(pad) = wpos["client"] + wpos["server"]

(* "writing in a goroutine avoids a deadlock on unbuffered transports": with
   matching configurations, once both sides have made a call both handshakes
   succeed, unless the transport is closed. *)
HandshakeCompletes ==
    psk["client"] = psk["server"] =>
        []((\A s \in Sides : once[s] # "new") =>
           <>(closed \/ \A s \in Sides : once[s] = "ok"))

(* Closing the transport releases everyone: no caller stays in handshake()
   and no key-writing goroutine is left behind, even one whose handshake has
   already failed, and with configurations that do not match. *)
CloseReleases ==
    closed ~> \A s \in Sides : /\ helper[s] \notin {"ready", "writing"}
                               /\ \A k \in Goroutines : g[s][k] # "once"

(* The abstract connection: the payload on the wire, which follows what is left
   of the handshake, is its queue. *)
HsLeft(seq) ==
    CHOOSE h \in 0 .. Len(seq) : /\ \A i \in 1 .. h : seq[i].t # "data"
                                 /\ h < Len(seq) => seq[h + 1].t = "data"

Payload(seq) == [i \in 1 .. Len(seq) - HsLeft(seq) |-> seq[HsLeft(seq) + i].n]

P == INSTANCE Pipe WITH matched <- psk["client"] = psk["server"],
                        queue <- [s \in Sides |-> Payload(wire[s])]

(* Read and Write after the handshake behave as those of the plain transport:
   no step of a handshake takes, adds or reorders payload, and every Read
   returns the oldest message not yet read. *)
ImplementsPipe == P!Spec
=============================================================================
