----------------------------- MODULE SftpProofs -----------------------------
(***************************************************************************)
(* Proofs about Sftp, for any hosts, calls, finite trees without hard      *)
(* links, and requests of the shapes that Sftp assumes.                    *)
(*                                                                         *)
(* The inductive invariant IInv says of the servers that their trees are   *)
(* well formed, of each call which requests it still has to make, and what *)
(* is true already of the items it is done with: gone, moved, with their   *)
(* mode, read as far as the position, written as far as the position.  All *)
(* of that holds apart from paths that other calls changed meanwhile,      *)
(* which Disturbed reads off the record of changes.                        *)
(*                                                                         *)
(* A step is taken by one call.  For that call the proof follows the       *)
(* request made (the ...Own, Move..., Read... and Write... lemmas, from    *)
(* the ...Effect lemmas).  All other calls rely on two facts only: every   *)
(* path that the step changes is on record as changed for them (Server,    *)
(* from which Watch), and what they keep themselves is untouched (Keeps).  *)
(* The ...Stays lemmas show that this is enough.                           *)
(*                                                                         *)
(* OkMeansStored excuses a call only by particular changes of others, so   *)
(* its proof needs more: that what excuses a call goes on excusing it      *)
(* (Steady), and that an upload which comes later opens the file of an     *)
(* earlier one only where that is excused (CrossInv).                      *)
(***************************************************************************)
EXTENDS Sftp, FiniteSetTheorems, WellFoundedInduction, TLAPS

-----------------------------------------------------------------------------
(* Sequences. *)

(* A prefix, by its elements. *)
LEMMA PrefixDef ==
    ASSUME NEW S, NEW s \in Seq(S), NEW t \in Seq(S)
    PROVE  IsPrefix(s, t) <=> Len(s) <= Len(t) /\ \A i \in 1 .. Len(s) : s[i] = t[i]
<1>1. Len(s) \in Nat /\ Len(t) \in Nat
  OBVIOUS
<1>2. ASSUME Len(s) <= Len(t)
      PROVE  /\ Len(SubSeq(t, 1, Len(s))) = Len(s)
             /\ \A i \in 1 .. Len(s) : SubSeq(t, 1, Len(s))[i] = t[i]
             /\ SubSeq(t, 1, Len(s)) \in Seq(S)
  BY <1>1, <1>2
<1>3. SubSeq(s, 1, Len(s)) = s
  BY <1>1
<1>4. ASSUME Len(s) <= Len(t), \A i \in 1 .. Len(s) : s[i] = t[i]
      PROVE  s = SubSeq(t, 1, Len(s))
  BY <1>1, <1>2, <1>4
<1> QED
  BY <1>1, <1>2, <1>3, <1>4 DEF IsPrefix

(* Every sequence is a prefix of itself. *)
LEMMA PrefixRefl ==
    ASSUME NEW S, NEW s \in Seq(S)
    PROVE  IsPrefix(s, s)
  BY PrefixDef

(* Prefixes are transitive. *)
LEMMA PrefixTrans ==
    ASSUME NEW S, NEW s \in Seq(S), NEW t \in Seq(S), NEW u \in Seq(S),
           IsPrefix(s, t), IsPrefix(t, u)
    PROVE  IsPrefix(s, u)
<1>1. Len(s) \in Nat /\ Len(t) \in Nat /\ Len(u) \in Nat
  OBVIOUS
<1>2. Len(s) <= Len(t) /\ \A i \in 1 .. Len(s) : s[i] = t[i]
  BY PrefixDef
<1>3. Len(t) <= Len(u) /\ \A i \in 1 .. Len(t) : t[i] = u[i]
  BY PrefixDef
<1>4. Len(s) <= Len(u) /\ \A i \in 1 .. Len(s) : s[i] = u[i]
  BY <1>1, <1>2, <1>3
<1> QED
  BY <1>4, PrefixDef

(* The elements of an appended sequence. *)
LEMMA AppendElems ==
    ASSUME NEW S, NEW s \in Seq(S), NEW x \in S
    PROVE  /\ Append(s, x) \in Seq(S) /\ Len(Append(s, x)) = Len(s) + 1
           /\ Append(s, x)[Len(s) + 1] = x /\ \A i \in 1 .. Len(s) : Append(s, x)[i] = s[i]
  OBVIOUS

(* Sequences of one length with the same elements are equal. *)
LEMMA SameElems ==
    ASSUME NEW S, NEW s \in Seq(S), NEW t \in Seq(S), Len(s) = Len(t),
           \A i \in 1 .. Len(t) : s[i] = t[i]
    PROVE  s = t
  OBVIOUS

(* A sequence over a set is one over every larger set. *)
LEMMA WiderSeq ==
    ASSUME NEW S, NEW T, S \subseteq T, NEW s \in Seq(S)
    PROVE  s \in Seq(T)
<1>1. PICK n \in Nat : n = Len(s) /\ s \in [1 .. n -> S]
  OBVIOUS
<1>2. s \in [1 .. n -> T]
  BY <1>1
<1> QED BY <1>1, <1>2

(* The front of a sequence and its last element, put together again. *)
LEMMA Extended ==
    ASSUME NEW S, NEW s \in Seq(S), NEW g \in Seq(S), NEW u \in Seq(S), NEW x \in S,
           Len(g) = Len(s) - 1, Len(u) = Len(g) + 1, x = s[Len(s)], u[Len(g) + 1] = x,
           \A i \in 1 .. Len(s) - 1 : g[i] = s[i], \A i \in 1 .. Len(g) : u[i] = g[i]
    PROVE  u = s
<1>1. PICK n \in Nat : n = Len(s)
  OBVIOUS
<1>2. Len(u) = n /\ Len(g) = n - 1
  BY <1>1
<1>3. \A i \in 1 .. n - 1 : u[i] = s[i]
  BY <1>1, <1>2
<1>4. n > 0 => u[n] = s[n]
  BY <1>1, <1>2
<1>5. \A i \in 1 .. n : i \in 1 .. n - 1 \/ (n > 0 /\ i = n)
  BY <1>1
<1>6. \A i \in 1 .. n : u[i] = s[i]
  BY <1>3, <1>4, <1>5
<1> QED
  BY <1>1, <1>2, <1>6

(* The directory of a path. *)
LEMMA FrontFacts ==
    ASSUME NEW S, NEW s \in Seq(S), s # <<>>
    PROVE  /\ Front(s) \in Seq(S) /\ Len(Front(s)) = Len(s) - 1 /\ Len(s) \in Nat /\ Len(s) > 0
           /\ \A i \in 1 .. Len(s) - 1 : Front(s)[i] = s[i]
           /\ Last(s) \in S /\ Last(s) = s[Len(s)]
           /\ Append(Front(s), Last(s)) = s
<1>1. Len(s) \in Nat /\ Len(s) # 0 /\ s \in [1 .. Len(s) -> S]
  OBVIOUS
<1>2. /\ Front(s) \in Seq(S) /\ Len(Front(s)) = Len(s) - 1
      /\ \A i \in 1 .. Len(s) - 1 : Front(s)[i] = s[i]
  BY <1>1 DEF Front
<1>3. Last(s) \in S /\ Last(s) = s[Len(s)]
  BY <1>1 DEF Last
<1>4. Append(Front(s), Last(s)) = s
  <2>1. PICK g \in Seq(S), x \in S : g = Front(s) /\ x = Last(s)
    BY <1>2, <1>3
  <2>2. PICK u : u = Append(g, x)
    OBVIOUS
  <2>3. /\ u \in Seq(S) /\ Len(u) = Len(g) + 1 /\ u[Len(g) + 1] = x
        /\ \A i \in 1 .. Len(g) : u[i] = g[i]
    BY <2>1, <2>2, AppendElems
  <2>4. Len(g) = Len(s) - 1 /\ x = s[Len(s)] /\ \A i \in 1 .. Len(s) - 1 : g[i] = s[i]
    BY <1>2, <1>3, <2>1
  <2>5. u = s
    BY <2>1, <2>3, <2>4, Extended
  <2> QED BY <2>1, <2>2, <2>5
<1> QED
  BY <1>1, <1>2, <1>3, <1>4

(* Front and Last undo Append. *)
LEMMA AppendFacts ==
    ASSUME NEW S, NEW s \in Seq(S), NEW x \in S
    PROVE  /\ Append(s, x) \in Seq(S) /\ Append(s, x) # <<>>
           /\ Len(Append(s, x)) = Len(s) + 1
           /\ Front(Append(s, x)) = s /\ Last(Append(s, x)) = x
<1> DEFINE u == Append(s, x)
<1>1. Len(s) \in Nat /\ u \in Seq(S) /\ Len(u) = Len(s) + 1 /\ u[Len(s) + 1] = x
      /\ \A i \in 1 .. Len(s) : u[i] = s[i]
  OBVIOUS
<1>2. u # <<>>
  BY <1>1
<1> HIDE DEF u
<1>3. Front(u) \in Seq(S) /\ Len(Front(u)) = Len(s) /\ \A i \in 1 .. Len(s) : Front(u)[i] = s[i]
  <2>1. /\ Front(u) \in Seq(S) /\ Len(Front(u)) = Len(u) - 1
        /\ \A i \in 1 .. Len(u) - 1 : Front(u)[i] = u[i]
    BY <1>1, <1>2, FrontFacts
  <2>2. Len(u) - 1 = Len(s)
    BY <1>1
  <2> QED BY <1>1, <2>1, <2>2
<1>4. Front(u) = s
  BY <1>3, SameElems
<1>5. Last(u) = x
  BY <1>1 DEF Last
<1> QED
  BY <1>1, <1>2, <1>4, <1>5 DEF u

(* A prefix of a path is the path or a prefix of its directory. *)
LEMMA PrefixFront ==
    ASSUME NEW S, NEW s \in Seq(S), NEW t \in Seq(S), t # <<>>
    PROVE  /\ IsPrefix(Front(t), t)
           /\ IsPrefix(s, t) <=> s = t \/ IsPrefix(s, Front(t))
<1>1. Len(s) \in Nat /\ Len(t) \in Nat
  OBVIOUS
<1>2. /\ Front(t) \in Seq(S) /\ Len(Front(t)) = Len(t) - 1 /\ Len(t) > 0
      /\ \A i \in 1 .. Len(t) - 1 : Front(t)[i] = t[i]
  BY FrontFacts
<1>3. IsPrefix(Front(t), t)
  <2>1. Len(Front(t)) <= Len(t) /\ \A i \in 1 .. Len(Front(t)) : Front(t)[i] = t[i]
    BY <1>1, <1>2
  <2> QED BY <1>2, <2>1, PrefixDef
<1>4. ASSUME IsPrefix(s, t) PROVE s = t \/ IsPrefix(s, Front(t))
  <2>1. Len(s) <= Len(t) /\ \A i \in 1 .. Len(s) : s[i] = t[i]
    BY <1>4, PrefixDef
  <2>2. CASE Len(s) = Len(t)
    BY <2>1, <2>2
  <2>3. CASE Len(s) # Len(t)
    <3>1. Len(s) <= Len(Front(t)) /\ \A i \in 1 .. Len(s) : s[i] = Front(t)[i]
      BY <1>1, <1>2, <2>1, <2>3
    <3> QED BY <1>2, <3>1, PrefixDef
  <2> QED BY <2>2, <2>3
<1>5. ASSUME IsPrefix(s, Front(t)) PROVE IsPrefix(s, t)
  BY <1>2, <1>3, <1>5, PrefixTrans
<1> QED
  BY <1>3, <1>4, <1>5, PrefixRefl

-----------------------------------------------------------------------------
(* The server: trees without hard links, whose directories are there, and
   nodes that are named after the host. *)

NodeRecs == [kind : {"dir", "file"}, data : Contents, mode : Modes]
              \cup [kind : {"link"}, data : Paths, mode : Modes]

GoodTree(h, t, nodes) ==
    /\ IsFiniteSet(DOMAIN t) /\ DOMAIN t \subseteq Paths
    /\ \A p \in DOMAIN t :
          /\ t[p] \in DOMAIN nodes /\ t[p][1] = h
          /\ p # <<>> => Front(p) \in DOMAIN t /\ nodes[t[Front(p)]].kind = "dir"
          /\ \A q \in DOMAIN t : t[p] = t[q] => p = q

ServerInv ==
    /\ DOMAIN tree = Hosts
    /\ \A n \in DOMAIN node : node[n] \in NodeRecs
    /\ \A h \in Hosts : GoodTree(h, tree[h], node)

(* The clients. *)
ClientInv ==
    /\ page \in {"up", "crashed"}
    /\ ssh \in Hosts \cup {Nil} /\ sftp \in Hosts \cup {Nil}
    /\ sftp # Nil \/ Running # {} => ssh \in Hosts
    /\ reconnects \in 0 .. MaxReconnects /\ pending \in BOOLEAN

-----------------------------------------------------------------------------
(* The calls: the ranges of what they keep. *)

Begun(c) == ans[c] \notin {"idle", "silent"}
Active(c) == ans[c] \in {"running", "ok"}

Dos == OnClient \cup {"read", "write", "close", "cp"}
Todos == [do : Dos, path : Paths, to : Paths]

Files == [host : Hosts, id : DOMAIN node, asked : Paths, path : Paths, pos : Nat]

OpenFile(f) == f \in Files /\ f.id[1] = f.host /\ node[f.id].kind = "file"

CallTyped(c) ==
    /\ ans[c] \in Answers /\ (ans[c] # "idle" => req[c] \in Requests)
    /\ todo[c] \in Seq(Todos) /\ (todo[c] # <<>> <=> ans[c] = "running")
    /\ file[c] = NoFile \/ OpenFile(file[c])
    /\ size[c] \in Nat
    /\ \A i \in DOMAIN got[c] : OpenFile(got[c][i].f)
    /\ got[c] \in Seq([f : Files, data : Contents])
    /\ Begun(c) => home[c] \in Hosts
    /\ ~Begun(c) => file[c] = NoFile /\ got[c] = <<>> /\ changes[c] = {}
    /\ \A e \in changes[c] :
          /\ e \in [by : Calls, host : Hosts, path : Paths]
          /\ Begun(e.by) /\ e.by # c

(* The client is the one that the call began on. *)
OnHome(c) ==
    ans[c] = "running" /\ c \notin replaced =>
        home[c] = IF req[c].op = "copy" THEN ssh ELSE sftp

(* A call creates a node at most once for a path. *)
Fresh(c) ==
    \A h \in Hosts, p \in Paths : <<h, c, p>> \in DOMAIN node =>
        \/ ans[c] \in {"ok", "error"}
        \/ ans[c] = "running" /\ req[c].op \in Uploads /\ file[c] # NoFile
        \/ /\ ans[c] = "running" /\ req[c].op = "uploadToDownloads" /\ p = Downloads
           /\ \A j \in DOMAIN todo[c] : todo[c][j].do \notin {"realpath", "mkdirall"}

-----------------------------------------------------------------------------
(* What each call has yet to do, and what it has done. *)

Calm(c, h, p) == ~Disturbed(c, h, p)

(* Nothing is left under the path but what others put there. *)
Gone(c, h, p) == \A q \in DOMAIN tree[h] : IsPrefix(p, q) => Disturbed(c, h, q)

Ahead(c, p) == \E j \in DOMAIN todo[c] : todo[c][j].path = p

DeleteInv(c) ==
    /\ \A j \in DOMAIN todo[c] : todo[c][j].do \in {"lstat", "readdir", "remove", "rmdir"}
    /\ c \notin replaced =>
          \A i \in DOMAIN req[c].items :
              Ahead(c, req[c].items[i]) \/ Gone(c, home[c], req[c].items[i])

(* An item that was moved does not come back under its own name, and a
   destination above it is not free. *)
Dest(r, isDir, p) == IF isDir THEN Append(r.path, Last(p)) ELSE r.path

Held(c, isDir, p) ==
    /\ ~IsPrefix(p, Dest(req[c], isDir, p))
    /\ \A q \in Paths \ {<<>>} :
          LET d == Dest(req[c], isDir, q) IN
          IsPrefix(d, p) => Exists(home[c], d) \/ Disturbed(c, home[c], d)

Moving(c, isDir) ==
    /\ \A j \in DOMAIN todo[c] :
          /\ todo[c][j].do = "rename" /\ todo[c][j].path # <<>>
          /\ todo[c][j].to = Dest(req[c], isDir, todo[c][j].path)
    /\ c \notin replaced =>
          \A i \in DOMAIN req[c].items :
              LET p == req[c].items[i] IN
              Ahead(c, p) \/ (Gone(c, home[c], p) /\ Held(c, isDir, p))

MoveInv(c) ==
    \/ todo[c] = <<Req("lstat", req[c].path)>>
    \/ \E isDir \in BOOLEAN : Moving(c, isDir)

RenameInv(c) ==
    /\ ans[c] = "running" => todo[c] = <<RenameTo(req[c].items[1], req[c].path)>>
    /\ ans[c] = "ok" /\ c \notin replaced =>
          /\ Exists(home[c], req[c].items[1]) => Disturbed(c, home[c], req[c].items[1])
          /\ Exists(home[c], req[c].path) \/ Disturbed(c, home[c], req[c].path)

FolderInv(c) ==
    /\ ans[c] = "running" => todo[c] = <<Req("mkdir", req[c].path)>>
    /\ ans[c] = "ok" /\ c \notin replaced =>
          IsDir(home[c], req[c].path) \/ Disturbed(c, home[c], req[c].path)

CopyInv(c) ==
    /\ ans[c] = "running" => todo[c] = <<Req("cp", req[c].path)>>
    /\ ans[c] = "ok" /\ c \notin replaced =>
          \A i \in DOMAIN req[c].items :
              LET p == Target(home[c], req[c], i) IN
              Exists(home[c], p) \/ Disturbed(c, home[c], p)

(* Whoever is under an item has the mode, is a link, was changed by others, or
   is yet to come. *)
Covers(r, x, q) ==
    \/ x.do = "chmod" /\ (x.path = q \/ (r.rec /\ IsPrefix(x.path, q)))
    \/ x.do \in {"lstat", "readdir"} /\ IsPrefix(x.path, q) /\ x.path # q

ModeSet(c, h, q) ==
    At(h, q).kind = "link" \/ At(h, q).mode = req[c].mode \/ Disturbed(c, h, q)

ChmodInv(c) ==
    /\ \A j \in DOMAIN todo[c] :
          todo[c][j].do \in IF req[c].rec THEN {"chmod", "lstat", "readdir"} ELSE {"chmod"}
    /\ c \notin replaced =>
          \A i \in DOMAIN req[c].items :
              LET p == req[c].items[i] IN
              /\ \/ \E j \in DOMAIN todo[c] : todo[c][j].do = "chmod" /\ todo[c][j].path = p
                 \/ Exists(home[c], p) \/ Disturbed(c, home[c], p)
              /\ \A q \in DOMAIN tree[home[c]] :
                    IsPrefix(p, q) /\ (req[c].rec \/ q = p) =>
                        \/ ModeSet(c, home[c], q)
                        \/ \E j \in DOMAIN todo[c] : Covers(req[c], todo[c][j], q)

(* An open file is at its path, unless others changed it. *)
InPlace(c, f) ==
    Calm(c, f.host, f.path) => Exists(f.host, f.path) /\ tree[f.host][f.path] = f.id

(* The size that download was told does not count for links and other hosts. *)
SizeCounts(c, f) == req[c].op = "download" /\ c \notin replaced /\ f.asked = f.path

ReadDone(c, g) ==
    Calm(c, g.f.host, g.f.path) =>
        \/ g.data = node[g.f.id].data
        \/ req[c].op = "download" /\ ~SizeCounts(c, g.f)

Reading(c) == ans[c] = "running" /\ todo[c][1].do = "read"

Partial(c) ==
    LET g == got[c][Len(got[c])]  f == file[c] IN
    /\ got[c] # <<>> /\ f # NoFile
    /\ g.f.host = f.host /\ g.f.id = f.id /\ g.f.asked = f.asked /\ g.f.path = f.path
    /\ Calm(c, f.host, f.path) =>
          /\ Len(g.data) = f.pos /\ f.pos <= Len(node[f.id].data)
          /\ \A k \in 1 .. f.pos : g.data[k] = node[f.id].data[k]
          /\ SizeCounts(c, f) => Len(node[f.id].data) = size[c]

(* Open is followed by read, and read comes first or after open. *)
Paired(s) ==
    \A i \in DOMAIN s :
        /\ s[i].do \in {"open", "read", "close"}
        /\ s[i].do = "open" => i + 1 \in DOMAIN s /\ s[i + 1].do = "read"
        /\ s[i].do = "read" /\ i > 1 => s[i - 1].do = "open"

ReadShape(c) ==
    \/ req[c].op = "download" /\ todo[c] = <<Req("lstat", req[c].path)>>
    \/ /\ Paired(todo[c])
       /\ req[c].op = "download" =>
             \A i \in DOMAIN todo[c] : /\ todo[c][i].path = req[c].path
                                       /\ i > 1 => todo[c][i].do # "open"

ReadInv(c) ==
    /\ ReadShape(c)
    /\ \A i \in DOMAIN got[c] :
          /\ InPlace(c, got[c][i].f)
          /\ i # Len(got[c]) \/ ~Reading(c) => ReadDone(c, got[c][i])
    /\ Reading(c) => Partial(c)
    /\ req[c].op = "download" /\ ans[c] = "running" /\ todo[c][1].do = "open"
          /\ c \notin replaced /\ Calm(c, home[c], req[c].path) =>
       Exists(home[c], req[c].path) /\ Len(At(home[c], req[c].path).data) = size[c]

Writers == Uploads \cup {"edit"}

(* The name that was found is free, unless others took it or none was. *)
NotThere(c, q) ==
    c \notin replaced =>
        ~Exists(home[c], q) \/ Disturbed(c, home[c], q) \/ UsedUp(c, home[c])

Unopened(c) ==
    LET r == req[c]  t == todo[c]  rd == Req("readdir", Downloads)
        mk == Req("mkdirall", Downloads)
    IN  \/ r.op = "edit" /\ t = <<Req("truncate", r.path)>>
        \/ r.op = "upload" /\ t = <<Req("readdir", r.path)>>
        \/ r.op = "uploadToDownloads" /\ t = <<Req("realpath", <<>>), mk, rd>>
        \/ r.op = "uploadToDownloads" /\ t = <<mk, rd>>
        \/ r.op = "uploadToDownloads" /\ t = <<rd>>
        \/ /\ \E n \in Entries :
                 t = <<Req("create", Append(IF r.op = "upload" THEN r.path ELSE Downloads, n))>>
           /\ r.op \in Uploads /\ NotThere(c, t[1].path)

ExcusedBy(c) ==
    \E e \in changes[c] :
        e.host = file[c].host /\ IsPrefix(e.path, file[c].path) /\ Excused(c, e)

Kept(c) ==
    LET f == file[c]  data == node[f.id].data IN
    /\ Exists(f.host, f.path) /\ tree[f.host][f.path] = f.id
    /\ Len(data) = f.pos /\ \A i \in 1 .. f.pos : data[i] = req[c].data[i]

(* The writes to come, and the close. *)
Writing(c) ==
    LET left == Len(req[c].data) - file[c].pos  t == todo[c] IN
    /\ left >= 0 /\ (ans[c] = "ok" => left = 0)
    /\ ans[c] = "running" => Len(t) = left + (IF req[c].op = "edit" THEN 0 ELSE 1)
    /\ \A i \in DOMAIN t : t[i].do = IF i <= left THEN "write" ELSE "close"

WriteInv(c) ==
    IF file[c] = NoFile THEN ans[c] = "running" /\ Unopened(c)
    ELSE Writing(c) /\ (Kept(c) \/ ExcusedBy(c))

Readers == {"getContent", "download", "downloadMultiple"}

CallInv(c) ==
    Active(c) =>
        /\ req[c].op = "list" /\ ans[c] = "running" => todo[c] = <<Req("readdir", req[c].path)>>
        /\ req[c].op = "rename" => RenameInv(c)
        /\ req[c].op = "move" => MoveInv(c)
        /\ req[c].op = "copy" => CopyInv(c)
        /\ req[c].op = "delete" => DeleteInv(c)
        /\ req[c].op = "createFolder" => FolderInv(c)
        /\ req[c].op = "changePerm" => ChmodInv(c)
        /\ req[c].op \in Readers => ReadInv(c)
        /\ req[c].op \in Writers => WriteInv(c)

OverlapInv == \A c, d \in Running : c # d => <<c, d>> \in overlap

(* A later upload that has opened the file of an earlier call. *)
Clobbers(c, d) ==
    /\ ans[c] = "ok" /\ req[c].op \in Writers /\ ans[d] = "running" /\ req[d].op \in Uploads
    /\ c # d /\ <<c, d>> \notin overlap /\ d \notin replaced
    /\ file[d] # NoFile /\ file[d].id = file[c].id

CrossInv == \A c, d \in Calls : Clobbers(c, d) => ExcusedBy(c)

-----------------------------------------------------------------------------
(* Trees. *)

(* A non-empty set of naturals has a least member. *)
LEMMA LeastNat ==
    ASSUME NEW T, T \subseteq Nat, T # {}
    PROVE  \E x \in T : \A y \in T : x <= y
<1>1. \E x \in T : \A y \in T : <<y, x>> \notin OpToRel(<, Nat)
  BY NatLessThanWellFounded, WFMin
<1>2. \A x, y \in Nat : <<y, x>> \notin OpToRel(<, Nat) => x <= y
  BY DEF OpToRel
<1> QED BY <1>1, <1>2

(* A path is below its directory and not the other way round. *)
LEMMA PathFacts ==
    ASSUME NEW p \in Paths
    PROVE  /\ p \in Seq(Entries) /\ Len(p) \in Nat /\ IsPrefix(p, p)
           /\ p # <<>> => Front(p) \in Paths /\ Len(Front(p)) = Len(p) - 1 /\ Len(p) > 0
                          /\ IsPrefix(Front(p), p) /\ ~IsPrefix(p, Front(p))
<1>1. p \in Seq(Entries) /\ Len(p) \in Nat
  BY DEF Paths
<1>2. ASSUME p # <<>>
      PROVE  Front(p) \in Seq(Entries) /\ Len(Front(p)) = Len(p) - 1 /\ Len(p) > 0
             /\ IsPrefix(Front(p), p)
  BY <1>1, <1>2, FrontFacts, PrefixFront
<1>3. ASSUME p # <<>> PROVE ~IsPrefix(p, Front(p))
  BY <1>1, <1>2, <1>3 DEF IsPrefix
<1> QED
  BY <1>1, <1>2, <1>3, PrefixRefl DEF Paths

(* With a path, all directories on it are in the tree. *)
LEMMA Closed ==
    ASSUME NEW h, NEW t, NEW nodes, GoodTree(h, t, nodes),
           NEW q \in DOMAIN t, NEW p \in Paths, IsPrefix(p, q)
    PROVE  p \in DOMAIN t /\ (p # q => nodes[t[p]].kind = "dir")
<1> DEFINE Ok(x) == p \in DOMAIN t /\ (p # x => nodes[t[p]].kind = "dir")
           B == {n \in Nat : \E x \in DOMAIN t : Len(x) = n /\ IsPrefix(p, x) /\ ~Ok(x)}
<1> SUFFICES ASSUME ~Ok(q) PROVE FALSE
  OBVIOUS
<1>0. DOMAIN t \subseteq Paths
  BY DEF GoodTree
<1>1. Len(q) \in B
  BY <1>0, PathFacts
<1>2. PICK n \in B : \A m \in B : n <= m
  BY <1>1, LeastNat
<1>3. PICK x \in DOMAIN t : Len(x) = n /\ IsPrefix(p, x) /\ ~Ok(x)
  BY <1>2
<1>4. p # x
  BY <1>3
<1>5. x # <<>>
  <2> SUFFICES ASSUME x = <<>> PROVE FALSE
    OBVIOUS
  <2>1. Len(p) = 0
    BY <1>3, PathFacts DEF IsPrefix
  <2> QED BY <1>4, <2>1, PathFacts
<1>6. Front(x) \in DOMAIN t /\ nodes[t[Front(x)]].kind = "dir"
  BY <1>5 DEF GoodTree
<1>7. IsPrefix(p, Front(x))
  BY <1>0, <1>3, <1>4, <1>5, PathFacts, PrefixFront
<1>8. ~Ok(Front(x))
  BY <1>3, <1>4, <1>6
<1>9. Len(Front(x)) = n - 1 /\ n \in Nat /\ n > 0
  BY <1>0, <1>3, <1>5, PathFacts
<1>10. n - 1 \in B
  BY <1>6, <1>7, <1>8, <1>9
<1> QED BY <1>2, <1>9, <1>10

(* Nodes are added, and keep their kinds. *)
Grown(nodes, more) ==
    /\ DOMAIN nodes \subseteq DOMAIN more
    /\ \A n \in DOMAIN nodes : more[n].kind = nodes[n].kind

(* A good tree stays good when there are more nodes. *)
LEMMA GrownTree ==
    ASSUME NEW h, NEW t, NEW nodes, NEW more, GoodTree(h, t, nodes), Grown(nodes, more)
    PROVE  GoodTree(h, t, more)
  BY DEF GoodTree, Grown

(* New paths in directories that are there, with nodes of their own. *)
LEMMA Added ==
    ASSUME NEW h, NEW t, NEW nodes, GoodTree(h, t, nodes),
           NEW X, IsFiniteSet(X), X \subseteq Paths, NEW u, DOMAIN u = DOMAIN t \cup X,
           \A q \in DOMAIN t : u[q] = t[q],
           \A q \in X \ DOMAIN t :
              /\ q # <<>> /\ Front(q) \in DOMAIN t /\ nodes[t[Front(q)]].kind = "dir"
              /\ u[q] \in DOMAIN nodes /\ u[q][1] = h
              /\ \A p \in DOMAIN t : t[p] # u[q]
              /\ \A p \in X \ DOMAIN t : u[p] = u[q] => p = q
    PROVE  GoodTree(h, u, nodes)
<1>1. IsFiniteSet(DOMAIN u) /\ DOMAIN u \subseteq Paths
  <2>1. IsFiniteSet(DOMAIN t) /\ DOMAIN t \subseteq Paths
    BY DEF GoodTree
  <2>2. IsFiniteSet(DOMAIN t \cup X)
    BY <2>1, FS_Union, Zenon
  <2> QED BY <2>1, <2>2
<1>2. ASSUME NEW p \in DOMAIN u
      PROVE  /\ u[p] \in DOMAIN nodes /\ u[p][1] = h
             /\ p # <<>> => Front(p) \in DOMAIN u /\ nodes[u[Front(p)]].kind = "dir"
  <2>1. CASE p \in DOMAIN t
    BY <2>1 DEF GoodTree
  <2>2. CASE p \in X \ DOMAIN t
    BY <2>2
  <2> QED BY <2>1, <2>2
<1>3. ASSUME NEW p \in DOMAIN u, NEW q \in DOMAIN u, u[p] = u[q]
      PROVE  p = q
  <2>1. CASE p \in DOMAIN t /\ q \in DOMAIN t
    BY <1>3, <2>1 DEF GoodTree
  <2>2. CASE p \notin DOMAIN t /\ q \notin DOMAIN t
    BY <1>3, <2>2
  <2>3. CASE p \in DOMAIN t /\ q \notin DOMAIN t
    BY <1>3, <2>3
  <2>4. CASE p \notin DOMAIN t /\ q \in DOMAIN t
    BY <1>3, <2>4
  <2> QED BY <2>1, <2>2, <2>3, <2>4
<1> QED BY <1>1, <1>2, <1>3 DEF GoodTree

(* A path goes, under which there is nothing. *)
LEMMA Removed ==
    ASSUME NEW h, NEW t, NEW nodes, GoodTree(h, t, nodes), NEW p \in DOMAIN t,
           \A q \in DOMAIN t : q # <<>> => Front(q) # p
    PROVE  GoodTree(h, Without(t, p), nodes)
<1>1. DOMAIN Without(t, p) = DOMAIN t \ {p} /\ \A q \in DOMAIN t \ {p} : Without(t, p)[q] = t[q]
  BY DEF Without
<1>2. IsFiniteSet(DOMAIN Without(t, p))
  BY <1>1, FS_Subset DEF GoodTree
<1> QED BY <1>1, <1>2 DEF GoodTree

(* The path q with d in place of its prefix s. *)
Rebase(s, d, q) == d \o SubSeq(q, Len(s) + 1, Len(q))

(* The elements of a concatenation. *)
LEMMA Concat ==
    ASSUME NEW S, NEW s \in Seq(S), NEW t \in Seq(S)
    PROVE  /\ s \o t \in Seq(S) /\ Len(s \o t) = Len(s) + Len(t)
           /\ \A i \in 1 .. Len(s) : (s \o t)[i] = s[i]
           /\ \A i \in 1 .. Len(t) : (s \o t)[Len(s) + i] = t[i]
<1>1. Len(s) \in Nat /\ Len(t) \in Nat /\ s \o t \in Seq(S) /\ Len(s \o t) = Len(s) + Len(t)
  OBVIOUS
<1>2. ASSUME NEW i \in 1 .. Len(s) PROVE (s \o t)[i] = s[i]
  BY <1>1
<1>3. ASSUME NEW i \in 1 .. Len(t) PROVE (s \o t)[Len(s) + i] = t[i]
  <2>1. Len(s) + i \in 1 .. Len(s) + Len(t) /\ ~(Len(s) + i <= Len(s)) /\ (Len(s) + i) - Len(s) = i
    BY <1>1
  <2> QED BY <1>1, <2>1
<1> QED BY <1>1, <1>2, <1>3

Rebased(s, d, q, r) ==
    /\ r \in Seq(Entries) /\ Len(r) = Len(d) + Len(q) - Len(s) /\ Len(s) <= Len(q)
    /\ \A i \in 1 .. Len(d) : r[i] = d[i]
    /\ \A i \in 1 .. Len(q) - Len(s) : r[Len(d) + i] = q[Len(s) + i]

(* A path below s, moved below d, keeps what follows s. *)
LEMMA RebaseElems ==
    ASSUME NEW s \in Paths, NEW d \in Paths, NEW q \in Paths, IsPrefix(s, q),
           NEW r, r = Rebase(s, d, q)
    PROVE  Rebased(s, d, q, r)
<1>0. s \in Seq(Entries) /\ d \in Seq(Entries) /\ q \in Seq(Entries)
  BY DEF Paths
<1>1. Len(s) \in Nat /\ Len(d) \in Nat /\ Len(q) \in Nat /\ Len(s) <= Len(q)
  BY <1>0, PrefixDef
<1>2. PICK v \in Seq(Entries) :
         /\ v = SubSeq(q, Len(s) + 1, Len(q)) /\ Len(v) = Len(q) - Len(s)
         /\ \A i \in 1 .. Len(q) - Len(s) : v[i] = q[Len(s) + i]
  <2>1. /\ SubSeq(q, Len(s) + 1, Len(q)) \in Seq(Entries)
        /\ Len(SubSeq(q, Len(s) + 1, Len(q))) = Len(q) - Len(s)
        /\ \A i \in 1 .. Len(q) - Len(s) : SubSeq(q, Len(s) + 1, Len(q))[i] = q[Len(s) + i]
    BY <1>0, <1>1
  <2> QED BY <2>1, Zenon
<1>3. r = d \o v
  BY <1>2 DEF Rebase
<1>4. PICK u \in Seq(Entries) :
         /\ u = d \o v /\ Len(u) = Len(d) + Len(v)
         /\ \A i \in 1 .. Len(d) : u[i] = d[i]
         /\ \A i \in 1 .. Len(v) : u[Len(d) + i] = v[i]
  <2>1. /\ d \o v \in Seq(Entries) /\ Len(d \o v) = Len(d) + Len(v)
        /\ \A i \in 1 .. Len(d) : (d \o v)[i] = d[i]
        /\ \A i \in 1 .. Len(v) : (d \o v)[Len(d) + i] = v[i]
    BY <1>0, <1>2, Concat
  <2> QED BY <2>1, Zenon
<1>5. r = u
  BY <1>3, <1>4
<1>6. /\ u \in Seq(Entries) /\ Len(u) = Len(d) + Len(q) - Len(s) /\ Len(s) <= Len(q)
      /\ \A i \in 1 .. Len(d) : u[i] = d[i]
      /\ \A i \in 1 .. Len(q) - Len(s) : u[Len(d) + i] = q[Len(s) + i]
  BY <1>1, <1>2, <1>4
<1> QED BY <1>5, <1>6 DEF Rebased

(* Rebasing can be undone, and commutes with taking the directory. *)
LEMMA RebaseFacts ==
    ASSUME NEW s \in Paths, NEW d \in Paths, NEW q \in Paths, IsPrefix(s, q)
    PROVE  /\ Rebase(s, d, q) \in Paths /\ IsPrefix(d, Rebase(s, d, q))
           /\ Rebase(d, s, Rebase(s, d, q)) = q
           /\ Rebase(s, d, s) = d
           /\ q # s => /\ q # <<>> /\ IsPrefix(s, Front(q)) /\ Rebase(s, d, q) # <<>>
                       /\ Front(Rebase(s, d, q)) = Rebase(s, d, Front(q))
<1>1. s \in Seq(Entries) /\ d \in Seq(Entries) /\ q \in Seq(Entries)
      /\ Len(s) \in Nat /\ Len(d) \in Nat /\ Len(q) \in Nat
  BY PathFacts
<1>2. PICK r : r = Rebase(s, d, q)
  OBVIOUS
<1>3. /\ r \in Seq(Entries) /\ Len(r) = Len(d) + Len(q) - Len(s) /\ Len(s) <= Len(q)
      /\ \A i \in 1 .. Len(d) : r[i] = d[i]
      /\ \A i \in 1 .. Len(q) - Len(s) : r[Len(d) + i] = q[Len(s) + i]
  <2>1. Rebased(s, d, q, r)
    BY <1>2, RebaseElems
  <2> QED BY <2>1 DEF Rebased
<1>0. r \in Paths
  BY <1>3 DEF Paths
<1>4. IsPrefix(d, r)
  <2>1. Len(d) <= Len(r)
    BY <1>1, <1>3
  <2> QED BY <1>1, <1>3, <2>1, PrefixDef
<1>5. Rebase(d, s, r) = q
  <2>1. PICK u : u = Rebase(d, s, r)
    OBVIOUS
  <2>2. /\ u \in Seq(Entries) /\ Len(u) = Len(s) + Len(r) - Len(d)
        /\ \A i \in 1 .. Len(s) : u[i] = s[i]
        /\ \A i \in 1 .. Len(r) - Len(d) : u[Len(s) + i] = r[Len(d) + i]
    <3>1. Rebased(d, s, r, u)
      BY <1>0, <1>4, <2>1, RebaseElems
    <3> QED BY <3>1 DEF Rebased
  <2>3. \A i \in 1 .. Len(s) : u[i] = q[i]
    <3>1. \A i \in 1 .. Len(s) : s[i] = q[i]
      BY <1>1, PrefixDef
    <3> QED BY <2>2, <3>1
  <2>4. \A i \in 1 .. Len(q) - Len(s) : u[Len(s) + i] = q[Len(s) + i]
    <3>1. Len(r) - Len(d) = Len(q) - Len(s)
      BY <1>1, <1>3
    <3> QED BY <1>3, <2>2, <3>1
  <2>5. Len(u) = Len(q)
    BY <1>1, <1>3, <2>2
  <2>6. ASSUME NEW i \in 1 .. Len(q) PROVE u[i] = q[i]
    <3>1. CASE i <= Len(s)
      BY <1>1, <2>3, <3>1
    <3>2. CASE ~(i <= Len(s))
      <4>1. i - Len(s) \in 1 .. Len(q) - Len(s) /\ Len(s) + (i - Len(s)) = i
        BY <1>1, <3>2
      <4> QED BY <2>4, <4>1
    <3> QED BY <3>1, <3>2
  <2>7. u = q
    BY <1>1, <2>2, <2>5, <2>6, SameElems
  <2> QED BY <2>1, <2>7
<1>6. Rebase(s, d, s) = d
  <2>1. IsPrefix(s, s)
    BY PathFacts
  <2>2. PICK u : u = Rebase(s, d, s)
    OBVIOUS
  <2>3. /\ u \in Seq(Entries) /\ Len(u) = Len(d) + Len(s) - Len(s)
        /\ \A i \in 1 .. Len(d) : u[i] = d[i]
    <3>1. Rebased(s, d, s, u)
      BY <2>1, <2>2, RebaseElems
    <3> QED BY <3>1 DEF Rebased
  <2>4. Len(u) = Len(d)
    BY <1>1, <2>3
  <2> QED BY <1>1, <2>2, <2>3, <2>4
<1>7. ASSUME q # s
      PROVE  /\ q # <<>> /\ IsPrefix(s, Front(q)) /\ r # <<>>
             /\ Front(r) = Rebase(s, d, Front(q))
  <2>1. Len(q) > Len(s)
    <3>1. CASE Len(q) = Len(s)
      <4>1. \A i \in 1 .. Len(s) : s[i] = q[i]
        BY <1>1, PrefixDef
      <4> QED BY <1>1, <1>7, <3>1, <4>1
    <3> QED BY <1>1, <1>3, <3>1
  <2>2. q # <<>> /\ r # <<>>
    BY <1>1, <1>3, <2>1
  <2>3. IsPrefix(s, Front(q))
    BY <1>1, <1>7, <2>2, PrefixFront
  <2>4. /\ Front(q) \in Seq(Entries) /\ Len(Front(q)) = Len(q) - 1
        /\ \A i \in 1 .. Len(q) - 1 : Front(q)[i] = q[i]
    BY <1>1, <2>2, FrontFacts
  <2>5. /\ Front(r) \in Seq(Entries) /\ Len(Front(r)) = Len(r) - 1
        /\ \A i \in 1 .. Len(r) - 1 : Front(r)[i] = r[i]
    BY <1>3, <2>2, FrontFacts, Zenon
  <2>6. PICK u : u = Rebase(s, d, Front(q))
    OBVIOUS
  <2>7. /\ u \in Seq(Entries) /\ Len(u) = Len(d) + Len(Front(q)) - Len(s)
        /\ \A i \in 1 .. Len(d) : u[i] = d[i]
        /\ \A i \in 1 .. Len(Front(q)) - Len(s) : u[Len(d) + i] = Front(q)[Len(s) + i]
    <3>1. Front(q) \in Paths
      BY <2>4 DEF Paths
    <3>2. Rebased(s, d, Front(q), u)
      BY <2>3, <2>6, <3>1, RebaseElems
    <3> QED BY <3>2 DEF Rebased
  <2>8. PICK w \in Seq(Entries) : w = Front(r)
    BY <2>5
  <2>9. Len(w) = Len(u)
    BY <1>1, <1>3, <2>4, <2>5, <2>7, <2>8
  <2>10. ASSUME NEW i \in 1 .. Len(r) - 1 PROVE w[i] = u[i]
    <3>1. CASE i <= Len(d)
      BY <1>1, <1>3, <2>5, <2>7, <2>8, <3>1
    <3>2. CASE ~(i <= Len(d))
      <4>1. PICK k \in Int : k = i - Len(d)
        <5>1. Len(r) \in Nat
          BY <1>3
        <5>2. i - Len(d) \in Int
          BY <1>1, <5>1
        <5> QED BY <5>2, Zenon
      <4>2. k \in 1 .. Len(q) - Len(s) /\ k \in 1 .. (Len(q) - 1) - Len(s) /\ i = Len(d) + k
            /\ Len(s) + k \in 1 .. Len(q) - 1
        <5>1. Len(r) = Len(d) + Len(q) - Len(s)
          BY <1>3
        <5> QED BY <1>1, <3>2, <4>1, <5>1
      <4>3. w[i] = q[Len(s) + k]
        BY <1>3, <2>5, <2>8, <4>2
      <4>4. u[i] = q[Len(s) + k]
        BY <2>4, <2>7, <4>2
      <4> QED BY <4>3, <4>4
    <3> QED BY <3>1, <3>2
  <2>11. w = u
    <3>1. Len(w) = Len(r) - 1 /\ u \in Seq(Entries)
      BY <2>5, <2>7, <2>8
    <3>2. Len(w) \in Nat /\ \A i \in 1 .. Len(w) : w[i] = u[i]
      BY <2>8, <2>10, <3>1
    <3>3. PICK n \in Nat : n = Len(w)
      BY <3>2
    <3>4. Len(w) = n /\ Len(u) = n /\ \A i \in 1 .. n : w[i] = u[i]
      BY <2>9, <3>2, <3>3
    <3> QED BY <2>8, <3>1, <3>3, <3>4
  <2> QED BY <2>2, <2>3, <2>6, <2>8, <2>11
<1> QED
  BY <1>2, <1>3, <1>4, <1>5, <1>6, <1>7 DEF Paths

(* Of two prefixes of a path one is a prefix of the other. *)
LEMMA Comparable ==
    ASSUME NEW p \in Paths, NEW s \in Paths, NEW q \in Paths, IsPrefix(p, q), IsPrefix(s, q)
    PROVE  IsPrefix(p, s) \/ IsPrefix(s, p)
<1>1. p \in Seq(Entries) /\ s \in Seq(Entries) /\ q \in Seq(Entries) /\ Len(p) \in Nat /\ Len(s) \in Nat
  BY DEF Paths
<1>2. \A i \in 1 .. Len(p) : p[i] = q[i]
  BY <1>1, PrefixDef
<1>3. \A i \in 1 .. Len(s) : s[i] = q[i]
  BY <1>1, PrefixDef
<1>4. CASE Len(p) <= Len(s)
  <2>1. \A i \in 1 .. Len(p) : p[i] = s[i]
    BY <1>1, <1>2, <1>3, <1>4
  <2> QED BY <1>1, <1>4, <2>1, PrefixDef
<1>5. CASE Len(s) <= Len(p)
  <2>1. \A i \in 1 .. Len(s) : s[i] = p[i]
    BY <1>1, <1>2, <1>3, <1>5
  <2> QED BY <1>1, <1>5, <2>1, PrefixDef
<1> QED BY <1>1, <1>4, <1>5

(* Below is transitive. *)
LEMMA PathTrans ==
    ASSUME NEW p \in Paths, NEW q \in Paths, NEW s \in Paths, IsPrefix(p, q), IsPrefix(q, s)
    PROVE  IsPrefix(p, s)
  BY PrefixTrans DEF Paths

(* What is below p is p or has its directory below p. *)
LEMMA PathFront ==
    ASSUME NEW p \in Paths, NEW q \in Paths, q # <<>>
    PROVE  IsPrefix(p, q) <=> p = q \/ IsPrefix(p, Front(q))
  BY PrefixFront DEF Paths

(* What a renamed directory takes along. *)
LEMMA MovedFacts ==
    ASSUME NEW h, NEW t, NEW nodes, GoodTree(h, t, nodes), NEW s \in DOMAIN t, NEW d \in Paths,
           d \notin DOMAIN t, ~IsPrefix(s, d), NEW m, m = Moved(t, s, d)
    PROVE  /\ \A q \in DOMAIN t : ~IsPrefix(d, q)
           /\ DOMAIN m \subseteq Paths /\ IsFiniteSet(DOMAIN m)
           /\ \A q \in DOMAIN t : ~IsPrefix(s, q) => q \in DOMAIN m /\ m[q] = t[q]
           /\ \A o \in DOMAIN t : IsPrefix(s, o) =>
                 Rebase(s, d, o) \in DOMAIN m /\ m[Rebase(s, d, o)] = t[o]
           /\ \A q \in DOMAIN m :
                 /\ ~IsPrefix(s, q)
                 /\ \/ q \in DOMAIN t
                    \/ IsPrefix(d, q) /\ \E o \in DOMAIN t : IsPrefix(s, o) /\ q = Rebase(s, d, o)
<1>0. DOMAIN t \subseteq Paths /\ IsFiniteSet(DOMAIN t) /\ s \in Paths
  BY DEF GoodTree
<1>1. \A q \in DOMAIN t : ~IsPrefix(d, q)
  BY Closed
<1> DEFINE from == {q \in DOMAIN t : IsPrefix(s, q)}
           to == {Rebase(s, d, q) : q \in from}
           Old(q) == IF IsPrefix(d, q) THEN Rebase(d, s, q) ELSE q
<1>2. m = [q \in (DOMAIN t \ from) \cup to |-> t[Old(q)]]
  BY DEF Moved, Rebase
<1>3. \A o \in from : Rebase(s, d, o) \in Paths /\ IsPrefix(d, Rebase(s, d, o))
                      /\ Rebase(d, s, Rebase(s, d, o)) = o
  BY <1>0, RebaseFacts
<1>4. \A o \in from : Rebase(s, d, o) \in DOMAIN m /\ m[Rebase(s, d, o)] = t[o]
  BY <1>2, <1>3
<1>5. \A q \in DOMAIN t : ~IsPrefix(s, q) => q \in DOMAIN m /\ m[q] = t[q]
  BY <1>1, <1>2
<1>6. DOMAIN m = (DOMAIN t \ from) \cup to
  BY <1>2
<1>7. IsFiniteSet(DOMAIN m)
  <2>1. IsFiniteSet(from) /\ IsFiniteSet(DOMAIN t \ from)
    BY <1>0, FS_Subset
  <2>2. IsFiniteSet(to)
    <3> DEFINE F == [q \in from |-> Rebase(s, d, q)]
    <3>1. F \in Surjection(from, to)
      BY DEF Surjection
    <3> HIDE DEF from, to, F
    <3> QED BY <2>1, <3>1, FS_Surjection
  <2> HIDE DEF from, to
  <2>3. IsFiniteSet((DOMAIN t \ from) \cup to)
    BY <2>1, <2>2, FS_Union, Zenon
  <2> QED BY <1>6, <2>3
<1>8. DOMAIN m \subseteq Paths
  BY <1>0, <1>3, <1>6
<1>9. ASSUME NEW q \in DOMAIN m
      PROVE  /\ ~IsPrefix(s, q)
             /\ \/ q \in DOMAIN t
                \/ IsPrefix(d, q) /\ \E o \in DOMAIN t : IsPrefix(s, o) /\ q = Rebase(s, d, o)
  <2>1. CASE q \in DOMAIN t \ from
    BY <2>1
  <2>2. CASE q \in to
    <3>1. PICK o \in DOMAIN t : IsPrefix(s, o) /\ q = Rebase(s, d, o)
      BY <2>2
    <3>2. IsPrefix(d, q) /\ q \in Paths
      BY <1>3, <3>1
    <3>3. ~IsPrefix(s, q)
      BY <1>0, <1>1, <3>2, Comparable
    <3> QED BY <3>1, <3>2, <3>3
  <2> QED BY <1>6, <2>1, <2>2
<1> QED BY <1>1, <1>4, <1>5, <1>7, <1>8, <1>9

(* Moving a subtree to a free place outside it leaves a good tree. *)
LEMMA MovedTree ==
    ASSUME NEW h, NEW t, NEW nodes, GoodTree(h, t, nodes), NEW s \in DOMAIN t, NEW d \in Paths,
           d \notin DOMAIN t, ~IsPrefix(s, d), d # <<>>,
           Front(d) \in DOMAIN t, nodes[t[Front(d)]].kind = "dir", NEW m, m = Moved(t, s, d)
    PROVE  GoodTree(h, m, nodes) /\ d \in DOMAIN m
<1>0. DOMAIN t \subseteq Paths /\ s \in Paths
  BY DEF GoodTree
<1> DEFINE Moves(o, q) == IsPrefix(s, o) /\ q = Rebase(s, d, o)
<1>1. /\ DOMAIN m \subseteq Paths /\ IsFiniteSet(DOMAIN m)
      /\ \A q \in DOMAIN t : ~IsPrefix(s, q) => q \in DOMAIN m /\ m[q] = t[q]
      /\ \A o \in DOMAIN t : IsPrefix(s, o) =>
            Rebase(s, d, o) \in DOMAIN m /\ m[Rebase(s, d, o)] = t[o]
      /\ \A q \in DOMAIN m :
            ~IsPrefix(s, q) /\ (q \in DOMAIN t \/ \E o \in DOMAIN t : Moves(o, q))
  BY MovedFacts
<1>2. ASSUME NEW q \in DOMAIN m
      PROVE  \E o \in DOMAIN t : m[q] = t[o] /\ q = IF IsPrefix(s, o) THEN Rebase(s, d, o) ELSE o
  BY <1>1
<1>3. ASSUME NEW q \in DOMAIN m
      PROVE  m[q] \in DOMAIN nodes /\ m[q][1] = h
  BY <1>2 DEF GoodTree
<1>4. ASSUME NEW p \in DOMAIN m, NEW q \in DOMAIN m, m[p] = m[q]
      PROVE  p = q
  BY <1>2, <1>4 DEF GoodTree
<1>5. ASSUME NEW q \in DOMAIN m, q # <<>>
      PROVE  Front(q) \in DOMAIN m /\ nodes[m[Front(q)]].kind = "dir"
  <2>1. CASE q \in DOMAIN t
    <3>1. Front(q) \in DOMAIN t /\ nodes[t[Front(q)]].kind = "dir"
      BY <1>5, <2>1 DEF GoodTree
    <3>2. ~IsPrefix(s, Front(q))
      BY <1>0, <1>1, <1>5, <2>1, PathFront
    <3> QED BY <1>1, <3>1, <3>2
  <2>2. ASSUME NEW o \in DOMAIN t, Moves(o, q)
        PROVE  Front(q) \in DOMAIN m /\ nodes[m[Front(q)]].kind = "dir"
    <3>1. CASE o = s
      <4>1. q = d
        BY <1>0, <2>2, <3>1, RebaseFacts
      <4>2. ~IsPrefix(s, Front(d))
        BY <1>0, PathFront
      <4> QED BY <1>1, <4>1, <4>2
    <3>2. CASE o # s
      <4>1. o # <<>> /\ IsPrefix(s, Front(o)) /\ Front(q) = Rebase(s, d, Front(o))
        BY <1>0, <2>2, <3>2, RebaseFacts
      <4>2. Front(o) \in DOMAIN t /\ nodes[t[Front(o)]].kind = "dir"
        BY <4>1 DEF GoodTree
      <4> QED BY <1>1, <4>1, <4>2
    <3> QED BY <3>1, <3>2
  <2> QED BY <1>1, <2>1, <2>2
<1>6. d \in DOMAIN m
  <2>1. IsPrefix(s, s) /\ Rebase(s, d, s) = d
    BY <1>0, PathFacts, RebaseFacts
  <2> QED BY <1>1, <2>1
<1> QED
  BY <1>1, <1>3, <1>4, <1>5, <1>6 DEF GoodTree

-----------------------------------------------------------------------------
(* A step and the calls that do not take it. *)

Doms ==
    /\ DOMAIN todo = Calls /\ DOMAIN ans = Calls /\ DOMAIN req = Calls /\ DOMAIN file = Calls
    /\ DOMAIN size = Calls /\ DOMAIN got = Calls /\ DOMAIN home = Calls /\ DOMAIN changes = Calls

Keeps(x) ==
    /\ ans'[x] = ans[x] /\ todo'[x] = todo[x] /\ req'[x] = req[x] /\ file'[x] = file[x]
    /\ size'[x] = size[x] /\ got'[x] = got[x] /\ home'[x] = home[x]

(* What is at a path stays, and so do its contents, or also its mode. *)
SoftAt(g, p) ==
    /\ p \in DOMAIN tree'[g] <=> p \in DOMAIN tree[g]
    /\ p \in DOMAIN tree[g] =>
          /\ tree'[g][p] = tree[g][p]
          /\ node'[tree[g][p]].kind = node[tree[g][p]].kind
          /\ node'[tree[g][p]].data = node[tree[g][p]].data

SameAt(g, p) ==
    SoftAt(g, p) /\ (p \in DOMAIN tree[g] => node'[tree[g][p]].mode = node[tree[g][p]].mode)

Noted(d, h, P) ==
    \A x \in Calls : changes'[x] =
        IF x = d \/ ~Begun(x) THEN changes[x]
        ELSE changes[x] \cup {[by |-> d, host |-> h, path |-> p] : p \in P}

(* The call d changes nothing but what is at or below the paths P of the host
   h, and notes that; changePerm changes modes only. *)
Server(d, h, P) ==
    /\ Noted(d, h, P) /\ P \subseteq Paths /\ (P # {} => h \in Hosts)
    /\ Grown(node, node')
    /\ \A g \in Hosts, p \in Paths : SameAt(g, p) \/ (g = h /\ \E x \in P : IsPrefix(x, p))
    /\ req[d].op = "changePerm" => \A g \in Hosts, p \in Paths : SoftAt(g, p)

(* For the call x, what is not disturbed is as it was. *)
Watch(x) ==
    \A g \in Hosts, p \in Paths :
        \/ Disturbed(x, g, p)'
        \/ /\ ~Disturbed(x, g, p) /\ SoftAt(g, p)
           /\ req[x].op = "changePerm" => SameAt(g, p)

(* A request that notes what it changes leaves the rest alone, for every other
   call. *)
LEMMA Watched ==
    ASSUME NEW d \in Calls, NEW h, NEW P, Server(d, h, P), NEW x \in Calls, x # d, Begun(x), Begun(d),
           CallTyped(x), \A y \in Calls : Begun(y) => req'[y] = req[y]
    PROVE  Watch(x)
<1> SUFFICES ASSUME NEW g \in Hosts, NEW p \in Paths, ~Disturbed(x, g, p)'
             PROVE  /\ ~Disturbed(x, g, p) /\ SoftAt(g, p)
                    /\ req[x].op = "changePerm" => SameAt(g, p)
  BY DEF Watch
<1>1. changes'[x] = changes[x] \cup {[by |-> d, host |-> h, path |-> q] : q \in P}
  BY DEF Server, Noted
<1>2. req'[x] = req[x] /\ req'[d] = req[d]
  OBVIOUS
<1>3. ~Disturbed(x, g, p)
  <2>1. \A e \in changes[x] : e \in changes'[x] /\ req'[e.by] = req[e.by]
    BY <1>1 DEF CallTyped
  <2> QED BY <1>2, <2>1 DEF Disturbed
<1>4. ASSUME NEW q \in P, g = h, IsPrefix(q, p)
      PROVE  req[d].op = "changePerm" /\ req[x].op # "changePerm"
  <2> DEFINE e == [by |-> d, host |-> h, path |-> q]
  <2>1. e \in changes'[x] /\ e.host = g /\ IsPrefix(e.path, p) /\ e.by = d
    BY <1>1, <1>4
  <2> HIDE DEF e
  <2> QED BY <1>2, <2>1 DEF Disturbed
<1>5. SameAt(g, p) \/ (g = h /\ \E q \in P : IsPrefix(q, p))
  BY DEF Server
<1>6. req[d].op = "changePerm" => SoftAt(g, p)
  BY DEF Server
<1>7. SameAt(g, p) => SoftAt(g, p)
  BY DEF SameAt
<1> QED BY <1>3, <1>4, <1>5, <1>6, <1>7

(* The fields of a request. *)
LEMMA RequestFacts ==
    ASSUME NEW r \in Requests
    PROVE  /\ r.op \in Ops /\ r.path \in Paths /\ r.items \in Seq(Paths \ {<<>>})
           /\ r.data \in Contents /\ r.mode \in Modes /\ r.rec \in BOOLEAN
           /\ r.name \in Names \cup {<<>>}
           /\ \A i \in DOMAIN r.items : r.items[i] \in Paths /\ r.items[i] # <<>>
  BY RequestAssumption

(* What a call removed stays away unless others put it back. *)
LEMMA GoneStays ==
    ASSUME NEW x, NEW h \in Hosts, NEW p, Watch(x), ServerInv', Gone(x, h, p)
    PROVE  Gone(x, h, p)'
<1>1. \A q \in DOMAIN tree'[h] : q \in Paths
  BY DEF ServerInv, GoodTree
<1>2. \A q \in Paths : q \in DOMAIN tree'[h] /\ IsPrefix(p, q) => Disturbed(x, h, q)'
  BY DEF Watch, SoftAt, Gone
<1> QED BY <1>1, <1>2 DEF Gone

(* What a call may rely on while others work. *)
Relies(x) ==
    /\ Keeps(x) /\ Watch(x) /\ replaced \subseteq replaced' /\ ServerInv' /\ Grown(node, node')
    /\ CallTyped(x) /\ Begun(x) /\ x \in Calls /\ \A e \in changes'[x] : e.path \in Paths

(* What a call may rely on while it waits. *)
LEMMA ReliesFacts ==
    ASSUME NEW x, Relies(x)
    PROVE  /\ home[x] \in Hosts /\ home'[x] = home[x] /\ req'[x] = req[x] /\ req[x] \in Requests
           /\ todo'[x] = todo[x] /\ ans'[x] = ans[x] /\ file'[x] = file[x] /\ got'[x] = got[x]
           /\ size'[x] = size[x] /\ (x \notin replaced' => x \notin replaced)
           /\ Watch(x) /\ ServerInv'
  BY DEF Relies, Keeps, CallTyped, Begun

(* A step of others does not disturb a delete. *)
LEMMA DeleteStays ==
    ASSUME NEW x, Relies(x), DeleteInv(x)
    PROVE  DeleteInv(x)'
<1>1. \A i \in DOMAIN req[x].items : Gone(x, home[x], req[x].items[i]) => Gone(x, home[x], req[x].items[i])'
  BY ReliesFacts, GoneStays
<1>2. \A p : Ahead(x, p)' <=> Ahead(x, p)
  BY ReliesFacts DEF Ahead
<1> QED BY <1>1, <1>2, ReliesFacts DEF DeleteInv

(* Where an item is moved to, for the items above it too. *)
LEMMA DestFacts ==
    ASSUME NEW r \in Requests, NEW isDir \in BOOLEAN, NEW p \in Paths \ {<<>>}
    PROVE  /\ Dest(r, isDir, p) \in Paths
           /\ \A s \in Paths \ {<<>>} : IsPrefix(s, Dest(r, isDir, p)) => IsPrefix(s, Dest(r, isDir, s))
<1>1. r.path \in Seq(Entries) /\ r.path \in Paths
  BY RequestFacts DEF Paths
<1>2. ASSUME NEW q \in Paths \ {<<>>}, NEW d, d = Append(r.path, Last(q))
      PROVE  d \in Paths /\ d # <<>> /\ Front(d) = r.path /\ Last(d) = Last(q)
  <2>1. Last(q) \in Entries
    BY FrontFacts DEF Paths
  <2> QED BY <1>1, <1>2, <2>1, AppendFacts DEF Paths
<1>3. CASE ~isDir
  BY <1>1, <1>3 DEF Dest
<1>4. CASE isDir
  <2>1. PICK d : d = Append(r.path, Last(p)) /\ d = Dest(r, isDir, p)
    BY <1>4 DEF Dest
  <2>2. ASSUME NEW s \in Paths \ {<<>>}, IsPrefix(s, d)
        PROVE  IsPrefix(s, Dest(r, isDir, s))
    <3>1. PICK u : u = Append(r.path, Last(s)) /\ u = Dest(r, isDir, s)
      BY <1>4 DEF Dest
    <3>2. u \in Paths /\ u # <<>> /\ Front(u) = r.path
      BY <1>2, <3>1
    <3>3. d \in Paths /\ d # <<>> /\ Front(d) = r.path /\ Last(d) = Last(p)
      BY <1>2, <2>1
    <3>4. CASE s = d
      <4>1. u = s
        BY <2>1, <3>1, <3>3, <3>4
      <4> QED BY <3>1, <4>1, PathFacts
    <3>5. CASE s # d
      <4>1. IsPrefix(s, r.path)
        BY <2>2, <3>3, <3>5, PathFront
      <4> QED BY <3>1, <3>2, <4>1, PathFront
    <3> QED BY <3>4, <3>5
  <2> QED BY <1>2, <2>1, <2>2
<1> QED BY <1>3, <1>4

(* Nor what keeps a moved item away, *)
LEMMA HeldStays ==
    ASSUME NEW x, Relies(x), NEW isDir \in BOOLEAN, NEW p, Held(x, isDir, p)
    PROVE  Held(x, isDir, p)'
<1>1. PICK h \in Hosts, r \in Requests : h = home[x] /\ r = req[x]
  BY ReliesFacts
<1>2. home'[x] = h /\ req'[x] = r /\ Watch(x)
  BY <1>1, ReliesFacts
<1>3. ASSUME NEW q \in Paths \ {<<>>}, NEW d, d = Dest(r, isDir, q), IsPrefix(d, p)
      PROVE  Exists(h, d)' \/ Disturbed(x, h, d)'
  <2>1. Exists(h, d) \/ Disturbed(x, h, d)
    BY <1>1, <1>3 DEF Held
  <2>2. d \in Paths
    BY <1>3, DestFacts
  <2> QED BY <1>2, <2>1, <2>2 DEF Watch, SoftAt, Exists
<1>4. \A q \in Paths \ {<<>>} :
         IsPrefix(Dest(r, isDir, q), p) => Exists(h, Dest(r, isDir, q))' \/ Disturbed(x, h, Dest(r, isDir, q))'
  BY <1>3
<1> QED BY <1>1, <1>2, <1>4 DEF Held, Dest

(* nor a move, *)
LEMMA MoveStays ==
    ASSUME NEW x, Relies(x), MoveInv(x)
    PROVE  MoveInv(x)'
<1>1. CASE todo[x] = <<Req("lstat", req[x].path)>>
  BY <1>1, ReliesFacts DEF MoveInv
<1>2. ASSUME NEW isDir \in BOOLEAN, Moving(x, isDir)
      PROVE  Moving(x, isDir)'
  <2>1. \A i \in DOMAIN req[x].items : Gone(x, home[x], req[x].items[i]) => Gone(x, home[x], req[x].items[i])'
    BY ReliesFacts, GoneStays
  <2>2. \A p : Ahead(x, p)' <=> Ahead(x, p)
    BY ReliesFacts DEF Ahead
  <2>3. \A p : Held(x, isDir, p) => Held(x, isDir, p)'
    BY HeldStays
  <2> QED BY <1>2, <2>1, <2>2, <2>3, ReliesFacts DEF Moving, Dest
<1> QED BY <1>1, <1>2 DEF MoveInv

(* nor a rename, *)
LEMMA RenameStays ==
    ASSUME NEW x, Relies(x), RenameInv(x), req[x].op = "rename"
    PROVE  RenameInv(x)'
<1>1. req[x].path \in Paths /\ req[x].items[1] \in Paths /\ home[x] \in Hosts
  <2>1. req[x] \in Requests /\ home[x] \in Hosts
    BY ReliesFacts
  <2>2. Len(req[x].items) = 1 /\ req[x].items \in Seq(Paths \ {<<>>})
    BY <2>1, RequestAssumption
  <2>3. 1 \in DOMAIN req[x].items
    BY <2>2
  <2> QED BY <2>1, <2>3, RequestFacts
<1>2. \A p \in Paths :
         \/ Disturbed(x, home[x], p)'
         \/ ~Disturbed(x, home[x], p) /\ (p \in DOMAIN tree'[home[x]] <=> p \in DOMAIN tree[home[x]])
  BY <1>1, ReliesFacts DEF Watch, SoftAt
<1> QED BY <1>1, <1>2, ReliesFacts DEF RenameInv, Exists

(* nor createFolder, *)
LEMMA FolderStays ==
    ASSUME NEW x, Relies(x), FolderInv(x)
    PROVE  FolderInv(x)'
<1>1. req[x].path \in Paths /\ home[x] \in Hosts
  BY ReliesFacts, RequestFacts
<1>2. \/ Disturbed(x, home[x], req[x].path)'
      \/ ~Disturbed(x, home[x], req[x].path) /\ SoftAt(home[x], req[x].path)
  BY <1>1, ReliesFacts DEF Watch
<1> QED BY <1>2, ReliesFacts DEF FolderInv, IsDir, Exists, At, SoftAt

(* Where cp puts an item depends on the destination. *)
LEMMA TargetFacts ==
    ASSUME NEW h, NEW r \in Requests, NEW i \in DOMAIN r.items
    PROVE  /\ Dst(r) \in Paths /\ Target(h, r, i) \in Paths
           /\ IsPrefix(Dst(r), Target(h, r, i))
           /\ Append(Dst(r), Last(r.items[i])) \in Paths
           /\ Append(Dst(r), Last(r.items[i])) # <<>>
           /\ Front(Append(Dst(r), Last(r.items[i]))) = Dst(r)
<1>1. r.path \in Seq(Entries) /\ r.items[i] \in Seq(Entries) /\ r.items[i] # <<>>
      /\ r.name \in Names \cup {<<>>}
  BY RequestFacts DEF Paths
<1>2. ASSUME r.name # <<>> PROVE r.name \in Entries
  BY <1>1, <1>2 DEF Entries
<1>3. Dst(r) \in Seq(Entries)
  <2>1. CASE Dst(r) = r.path
    BY <1>1, <2>1
  <2>2. CASE Dst(r) = Append(r.path, r.name) /\ r.name # <<>>
    BY <1>1, <1>2, <2>2, AppendFacts
  <2> QED BY <2>1, <2>2 DEF Dst
<1>4. Last(r.items[i]) \in Entries
  BY <1>1, FrontFacts
<1> DEFINE u == Append(Dst(r), Last(r.items[i]))
<1>5. u \in Seq(Entries) /\ u # <<>> /\ Front(u) = Dst(r)
  BY <1>3, <1>4, AppendFacts
<1>6. Target(h, r, i) = u \/ Target(h, r, i) = Dst(r)
  BY DEF Target
<1> HIDE DEF u
<1>7. IsPrefix(Dst(r), u) /\ IsPrefix(Dst(r), Dst(r))
  BY <1>3, <1>5, PrefixFront, PrefixRefl
<1> QED BY <1>3, <1>5, <1>6, <1>7 DEF Paths, u

(* nor a copy, *)
LEMMA CopyStays ==
    ASSUME NEW x, Relies(x), CopyInv(x)
    PROVE  CopyInv(x)'
<1>0. PICK h \in Hosts, r \in Requests : h = home[x] /\ r = req[x]
  BY ReliesFacts
<1>1. home'[x] = h /\ req'[x] = r
  BY <1>0, ReliesFacts
<1>2. ASSUME x \notin replaced, ans[x] = "ok", NEW i \in DOMAIN r.items,
             NEW p, p = Target(h, r, i), NEW pp, pp = Target(h, r, i)'
      PROVE  pp \in DOMAIN tree'[h] \/ Disturbed(x, h, pp)'
  <2>1. p \in DOMAIN tree[h] \/ Disturbed(x, h, p)
    BY <1>0, <1>2 DEF CopyInv, Exists
  <2>2. Dst(r) \in Paths /\ p \in Paths /\ pp \in Paths /\ IsPrefix(Dst(r), pp)
    <3>1. pp = Append(Dst(r), Last(r.items[i])) \/ pp = Dst(r)
      BY <1>2 DEF Target, Dst
    <3>2. Dst(r) \in Paths /\ p \in Paths /\ Append(Dst(r), Last(r.items[i])) \in Paths
          /\ Append(Dst(r), Last(r.items[i])) # <<>>
          /\ Front(Append(Dst(r), Last(r.items[i]))) = Dst(r)
      BY <1>2, TargetFacts
    <3> QED BY <3>1, <3>2, PathFacts
  <2>3. CASE Disturbed(x, h, Dst(r))'
    <3>1. \A e \in changes'[x] : IsPrefix(e.path, Dst(r)) => IsPrefix(e.path, pp)
      BY <2>2, PathTrans DEF Relies
    <3> QED BY <2>3, <3>1 DEF Disturbed
  <2>4. CASE ~Disturbed(x, h, Dst(r))'
    <3>1. SoftAt(h, Dst(r))
      BY <2>2, <2>4, ReliesFacts DEF Watch
    <3>2. pp = p
      BY <1>2, <3>1 DEF Target, Dst, IsDir, Exists, At, SoftAt
    <3>3. Disturbed(x, h, p)' \/ (~Disturbed(x, h, p) /\ SoftAt(h, p))
      BY <2>2, ReliesFacts DEF Watch
    <3> QED BY <2>1, <3>2, <3>3 DEF SoftAt
  <2> QED BY <2>3, <2>4
<1>3. \A i \in DOMAIN r.items : x \notin replaced /\ ans[x] = "ok" =>
         Exists(h, Target(h, r, i))' \/ Disturbed(x, h, Target(h, r, i))'
  BY <1>2 DEF Exists
<1> QED BY <1>0, <1>1, <1>3, ReliesFacts DEF CopyInv

(* nor changePerm, *)
LEMMA ChmodStays ==
    ASSUME NEW x, Relies(x), ChmodInv(x), req[x].op = "changePerm"
    PROVE  ChmodInv(x)'
<1>0. PICK h \in Hosts, r \in Requests : h = home[x] /\ r = req[x]
  BY ReliesFacts
<1>1. home'[x] = h /\ req'[x] = r /\ todo'[x] = todo[x] /\ (x \notin replaced' => x \notin replaced)
  BY <1>0, ReliesFacts
<1>2. \A q \in Paths : Disturbed(x, h, q)' \/ (~Disturbed(x, h, q) /\ SameAt(h, q))
  BY <1>0, ReliesFacts DEF Watch
<1>3. \A q \in DOMAIN tree'[h] : q \in Paths
  BY ReliesFacts DEF ServerInv, GoodTree
<1>4. ASSUME NEW i \in DOMAIN r.items, x \notin replaced'
      PROVE  \/ \E j \in DOMAIN todo[x] : todo[x][j].do = "chmod" /\ todo[x][j].path = r.items[i]
             \/ r.items[i] \in DOMAIN tree'[h] \/ Disturbed(x, h, r.items[i])'
  <2>1. \/ \E j \in DOMAIN todo[x] : todo[x][j].do = "chmod" /\ todo[x][j].path = r.items[i]
        \/ r.items[i] \in DOMAIN tree[h] \/ Disturbed(x, h, r.items[i])
    BY <1>0, <1>1, <1>4 DEF ChmodInv, Exists
  <2>2. r.items[i] \in Paths
    BY RequestFacts
  <2> QED BY <1>2, <2>1, <2>2 DEF SameAt, SoftAt
<1>5. ASSUME NEW i \in DOMAIN r.items, x \notin replaced', NEW q \in DOMAIN tree'[h],
             IsPrefix(r.items[i], q), r.rec \/ q = r.items[i]
      PROVE  ModeSet(x, h, q)' \/ \E j \in DOMAIN todo[x] : Covers(r, todo[x][j], q)
  <2>1. CASE Disturbed(x, h, q)'
    BY <2>1 DEF ModeSet
  <2>2. CASE ~Disturbed(x, h, q)'
    <3>1. ~Disturbed(x, h, q) /\ SameAt(h, q) /\ q \in DOMAIN tree[h]
      BY <1>2, <1>3, <2>2 DEF SameAt, SoftAt
    <3>2. ModeSet(x, h, q) \/ \E j \in DOMAIN todo[x] : Covers(r, todo[x][j], q)
      BY <1>0, <1>1, <1>5, <3>1 DEF ChmodInv
    <3> QED BY <1>0, <1>1, <3>1, <3>2 DEF ModeSet, At, SameAt, SoftAt
  <2> QED BY <2>1, <2>2
<1>6. \A j \in DOMAIN todo'[x] :
         todo'[x][j].do \in IF r.rec THEN {"chmod", "lstat", "readdir"} ELSE {"chmod"}
  BY <1>0, <1>1 DEF ChmodInv
<1> QED BY <1>1, <1>4, <1>5, <1>6 DEF ChmodInv, Exists, Covers

(* Open files. *)
LEMMA InPlaceStays ==
    ASSUME NEW x, Watch(x), NEW f, OpenFile(f), InPlace(x, f)
    PROVE  InPlace(x, f)' /\ (Calm(x, f.host, f.path)' =>
              Calm(x, f.host, f.path) /\ node'[f.id].data = node[f.id].data)
<1>1. f.host \in Hosts /\ f.path \in Paths
  BY DEF OpenFile, Files
<1>2. \/ Disturbed(x, f.host, f.path)'
      \/ ~Disturbed(x, f.host, f.path) /\ SoftAt(f.host, f.path)
  BY <1>1 DEF Watch
<1> QED BY <1>2 DEF InPlace, Calm, SoftAt, Exists

(* nor the calls that read, *)
LEMMA ReadStays ==
    ASSUME NEW x, Relies(x), ReadInv(x), req[x].op \in Readers
    PROVE  ReadInv(x)'
<1>0. PICK h \in Hosts, r \in Requests : h = home[x] /\ r = req[x]
  BY ReliesFacts
<1>1. /\ home'[x] = h /\ req'[x] = r /\ todo'[x] = todo[x] /\ ans'[x] = ans[x] /\ file'[x] = file[x]
      /\ got'[x] = got[x] /\ size'[x] = size[x] /\ (x \notin replaced' => x \notin replaced) /\ Watch(x)
  BY <1>0, ReliesFacts
<1>2. ReadShape(x)'
  BY <1>0, <1>1 DEF ReadInv, ReadShape
<1>3. Reading(x)' <=> Reading(x)
  BY <1>1 DEF Reading
<1>4. ASSUME NEW i \in DOMAIN got[x]
      PROVE  /\ InPlace(x, got[x][i].f)'
             /\ i # Len(got[x]) \/ ~Reading(x) => ReadDone(x, got[x][i])'
  <2>1. OpenFile(got[x][i].f) /\ InPlace(x, got[x][i].f)
    BY DEF Relies, CallTyped, ReadInv
  <2>2. PICK g : g = got[x][i]
    OBVIOUS
  <2>3. InPlace(x, g.f)' /\ (Calm(x, g.f.host, g.f.path)' =>
              Calm(x, g.f.host, g.f.path) /\ node'[g.f.id].data = node[g.f.id].data)
    BY <1>1, <2>1, <2>2, InPlaceStays
  <2>4. ReadDone(x, g) => ReadDone(x, g)'
    BY <1>0, <1>1, <2>3 DEF ReadDone, SizeCounts
  <2>5. g = got'[x][i]
    BY <1>1, <2>2
  <2> QED BY <2>2, <2>3, <2>4, <2>5 DEF ReadInv
<1>5. Partial(x) => Partial(x)'
  <2> SUFFICES ASSUME Partial(x) PROVE Partial(x)'
    OBVIOUS
  <2>1. PICK f, g : f = file[x] /\ g = got[x][Len(got[x])]
    OBVIOUS
  <2>2. f = file'[x] /\ g = got'[x][Len(got'[x])]
    BY <1>1, <2>1
  <2>3. OpenFile(f) /\ got[x] # <<>> /\ got[x] \in Seq([f : Files, data : Contents])
    BY <2>1 DEF Relies, CallTyped, Partial
  <2>4. Len(got[x]) \in DOMAIN got[x]
    BY <2>3
  <2>5. InPlace(x, g.f) /\ g.f.host = f.host /\ g.f.id = f.id /\ g.f.path = f.path
    BY <2>1, <2>4 DEF ReadInv, Partial
  <2>6. InPlace(x, f)
    BY <2>5 DEF InPlace
  <2>7. Calm(x, f.host, f.path)' =>
              Calm(x, f.host, f.path) /\ node'[f.id].data = node[f.id].data
    BY <1>1, <2>3, <2>6, InPlaceStays
  <2>8. SizeCounts(x, f)' => SizeCounts(x, f)
    BY <1>0, <1>1 DEF SizeCounts
  <2> QED BY <1>1, <2>1, <2>2, <2>7, <2>8 DEF Partial
<1>6. ASSUME r.op = "download", x \notin replaced', Calm(x, h, r.path)',
             r.path \in DOMAIN tree[h], Len(node[tree[h][r.path]].data) = size[x]
      PROVE  r.path \in DOMAIN tree'[h] /\ Len(node'[tree'[h][r.path]].data) = size[x]
  <2>1. SoftAt(h, r.path)
    BY <1>1, <1>6, RequestFacts DEF Watch, Calm
  <2> QED BY <1>6, <2>1 DEF SoftAt
<1>7. Calm(x, h, r.path)' => Calm(x, h, r.path)
  BY <1>1, RequestFacts DEF Watch, Calm
<1>8. (req[x].op = "download" /\ ans[x] = "running" /\ todo[x][1].do = "open"
          /\ x \notin replaced /\ Calm(x, home[x], req[x].path)) =>
       Exists(home[x], req[x].path) /\ Len(At(home[x], req[x].path).data) = size[x]
  BY DEF ReadInv
<1>9. (req[x].op = "download" /\ ans[x] = "running" /\ todo[x][1].do = "open"
          /\ x \notin replaced /\ Calm(x, home[x], req[x].path))' =>
       (Exists(home[x], req[x].path) /\ Len(At(home[x], req[x].path).data) = size[x])'
  BY <1>0, <1>1, <1>6, <1>7, <1>8 DEF Exists, At
<1>10. Reading(x) => Partial(x)
  BY DEF ReadInv
<1>11. \A i \in DOMAIN got'[x] :
          /\ InPlace(x, got[x][i].f)'
          /\ (i # Len(got[x]) \/ ~Reading(x) => ReadDone(x, got[x][i]))'
  BY <1>1, <1>3, <1>4
<1> QED BY <1>2, <1>3, <1>5, <1>9, <1>10, <1>11 DEF ReadInv

(* Counters that were used up stay so, as far as others are concerned. *)
LEMMA CounterPath ==
    ASSUME NEW r \in Requests, r.op \in Uploads, NEW i \in 1 .. MaxSuffix
    PROVE  Append(Downloads, Counted(r.name, i)) \in Paths
<1>1. r.name \in Names
  BY RequestAssumption, RequestFacts
<1>2. Counted(r.name, i) \in Entries
  BY <1>1 DEF Entries
<1>3. Downloads \in Seq(Entries)
  BY RequestAssumption DEF Paths
<1> QED BY <1>2, <1>3, AppendFacts DEF Paths

(* nor that all counted names are taken, *)
LEMMA UsedUpStays ==
    ASSUME NEW x, NEW h \in Hosts, Watch(x), req[x] \in Requests, req'[x] = req[x], UsedUp(x, h)
    PROVE  UsedUp(x, h)'
<1>1. PICK r \in Requests : r = req[x]
  OBVIOUS
<1>2. r.op = "uploadToDownloads" /\ r.op \in Uploads
  BY <1>1 DEF UsedUp, Uploads
<1>3. ASSUME NEW i \in 1 .. MaxSuffix,
             NEW p, p = Append(Downloads, Counted(r.name, i))
      PROVE  Exists(h, p)' \/ Disturbed(x, h, p)'
  <2>1. p \in Paths
    BY <1>2, <1>3, CounterPath
  <2>2. Exists(h, p) \/ Disturbed(x, h, p)
    BY <1>1, <1>3 DEF UsedUp
  <2> QED BY <2>1, <2>2 DEF Watch, SoftAt, Exists
<1>4. \A i \in 1 .. MaxSuffix :
         Exists(h, Append(Downloads, Counted(r.name, i)))' \/ Disturbed(x, h, Append(Downloads, Counted(r.name, i)))'
  BY <1>3
<1> QED BY <1>1, <1>2, <1>4 DEF UsedUp

(* nor an upload or edit that has no file yet. *)
LEMMA UnopenedStays ==
    ASSUME NEW x, Relies(x), Unopened(x)
    PROVE  Unopened(x)'
<1>0. PICK h \in Hosts, r \in Requests : h = home[x] /\ r = req[x]
  BY ReliesFacts
<1>1. /\ home'[x] = h /\ req'[x] = r /\ todo'[x] = todo[x] /\ Watch(x)
      /\ (x \notin replaced' => x \notin replaced)
  BY <1>0, ReliesFacts
<1>2. ASSUME NEW q \in Paths, NotThere(x, q) PROVE NotThere(x, q)'
  <2>1. UsedUp(x, h) => UsedUp(x, h)'
    BY <1>0, <1>1, UsedUpStays
  <2> QED BY <1>0, <1>1, <1>2, <2>1 DEF NotThere, Watch, SoftAt, Exists
<1>3. ASSUME NEW n \in Entries, r.op \in Uploads,
             NEW q, q = Append(IF r.op = "upload" THEN r.path ELSE Downloads, n),
             todo[x] = <<Req("create", q)>>, NotThere(x, q)
      PROVE  NotThere(x, q)'
  <2>1. r.path \in Seq(Entries) /\ Downloads \in Seq(Entries)
    BY RequestFacts, RequestAssumption DEF Paths
  <2>2. q \in Paths
    BY <1>3, <2>1, AppendFacts DEF Paths
  <2> QED BY <1>2, <1>3, <2>2
<1> DEFINE dir == IF r.op = "upload" THEN r.path ELSE Downloads
<1>4. CASE /\ \E n \in Entries : todo[x] = <<Req("create", Append(dir, n))>>
           /\ r.op \in Uploads /\ NotThere(x, todo[x][1].path)
  <2>1. PICK n \in Entries : todo[x] = <<Req("create", Append(dir, n))>>
    BY <1>4
  <2>2. PICK q : q = Append(dir, n)
    OBVIOUS
  <2>3. todo[x] = <<Req("create", q)>> /\ todo[x][1].path = q
    BY <2>1, <2>2 DEF Req
  <2>4. NotThere(x, q)'
    BY <1>3, <1>4, <2>2, <2>3
  <2> QED BY <1>0, <1>1, <1>4, <2>3, <2>4 DEF Unopened
<1>5. CASE ~(/\ \E n \in Entries : todo[x] = <<Req("create", Append(dir, n))>>
             /\ r.op \in Uploads /\ NotThere(x, todo[x][1].path))
  BY <1>0, <1>1, <1>5 DEF Unopened
<1> QED BY <1>4, <1>5

-----------------------------------------------------------------------------
(* What every request leaves alone. *)

Acts(c) ==
    /\ Doms' /\ ans[c] = "running" /\ page = "up" /\ page' \in {"up", "crashed"}
    /\ \A x \in Calls : req'[x] = req[x] /\ home'[x] = home[x]
    /\ \A x \in Calls : x # c => Keeps(x)
    /\ replaced' = replaced /\ overlap' = overlap
    /\ ssh' = ssh /\ sftp' = sftp /\ pending' = pending /\ reconnects' = reconnects

(* A request of c leaves what the other calls keep alone. *)
LEMMA ServeActs ==
    ASSUME NEW c \in Calls, Serve(c), Doms
    PROVE  Acts(c)
<1> USE DEF Acts, Doms, Keeps, Continue, GiveUp, Changed, Ready, OnFile, pageVars, cliVars, srvVars,
            callVars, histVars
<1>1. CASE Fails(c)
  BY <1>1 DEF Fails
<1>2. CASE Panic(c)
  BY <1>2 DEF Panic
<1>3. CASE Lstat(c)
  BY <1>3 DEF Lstat
<1>4. CASE ReadDir(c)
  BY <1>4 DEF ReadDir
<1>5. CASE RealPath(c)
  BY <1>5 DEF RealPath
<1>6. CASE Mkdir(c)
  BY <1>6 DEF Mkdir
<1>7. CASE DoRemove(c)
  BY <1>7 DEF DoRemove
<1>8. CASE DoRename(c)
  BY <1>8 DEF DoRename
<1>9. CASE Chmod(c)
  BY <1>9 DEF Chmod
<1>10. CASE Open(c)
  BY <1>10 DEF Open
<1>11. CASE OpenToWrite(c)
  BY <1>11 DEF OpenToWrite
<1>12. CASE Write(c)
  BY <1>12 DEF Write
<1>13. CASE Read(c)
  BY <1>13 DEF Read
<1>14. CASE Close(c)
  BY <1>14 DEF Close
<1>15. CASE RunCp(c)
  BY <1>15 DEF RunCp
<1> QED
  BY <1>1, <1>2, <1>3, <1>4, <1>5, <1>6, <1>7, <1>8, <1>9, <1>10, <1>11, <1>12, <1>13, <1>14, <1>15
  DEF Serve

-----------------------------------------------------------------------------
(* What the requests do to the server. *)

(* The node that a call creates at a path is its own. *)
LEMMA IdFacts ==
    ASSUME NEW h, NEW c, NEW p, NEW q
    PROVE  <<h, c, p>>[1] = h /\ (<<h, c, p>> = <<h, c, q>> => p = q)
  OBVIOUS

(* No two paths have a node in common. *)
LEMMA OnePath ==
    ASSUME ServerInv, NEW g \in Hosts, NEW h \in Hosts, NEW p \in DOMAIN tree[g],
           NEW q \in DOMAIN tree[h], tree[g][p] = tree[h][q]
    PROVE  g = h /\ p = q
<1>1. tree[g][p][1] = g /\ tree[h][q][1] = h
  BY DEF ServerInv, GoodTree
<1> QED BY <1>1 DEF ServerInv, GoodTree

(* A call that runs has a next request, in its range. *)
LEMMA HeadFacts ==
    ASSUME NEW c, CallTyped(c), ans[c] = "running"
    PROVE  /\ todo[c] # <<>> /\ Head(todo[c]) = todo[c][1] /\ 1 \in DOMAIN todo[c]
           /\ Head(todo[c]) \in Todos /\ Path(c) \in Paths /\ Head(todo[c]).to \in Paths
           /\ Path(c) = todo[c][1].path /\ todo[c] \in Seq(Todos)
<1>1. todo[c] \in Seq(Todos) /\ todo[c] # <<>>
  BY DEF CallTyped
<1>2. Head(todo[c]) = todo[c][1] /\ 1 \in DOMAIN todo[c] /\ Head(todo[c]) \in Todos
  BY <1>1
<1> QED BY <1>1, <1>2 DEF Path, Todos

(* A link leads to a path. *)
LEMMA FollowFacts ==
    ASSUME ServerInv, NEW h \in Hosts, NEW p \in Paths
    PROVE  Follow(h, p) \in Paths
<1>1. CASE Exists(h, p) /\ At(h, p).kind = "link"
  <2>1. At(h, p) \in NodeRecs
    BY <1>1 DEF ServerInv, GoodTree, At, Exists
  <2> QED BY <1>1, <2>1 DEF Follow, NodeRecs
<1> QED BY <1>1 DEF Follow

(* The same node, unchanged, at the same path. *)
LEMMA SameWhere ==
    ASSUME NEW g, NEW p, p \in DOMAIN tree'[g] <=> p \in DOMAIN tree[g],
           p \in DOMAIN tree[g] =>
              tree'[g][p] = tree[g][p] /\ node'[tree[g][p]] = node[tree[g][p]]
    PROVE  SameAt(g, p) /\ SoftAt(g, p)
  BY DEF SameAt, SoftAt

(* A request that leaves the trees and nodes alone. *)
LEMMA Quiet ==
    ASSUME NEW d, NEW h, tree' = tree, node' = node, changes' = changes, ServerInv
    PROVE  ServerInv' /\ Server(d, h, {})
<1>1. ServerInv'
  BY DEF ServerInv
<1>2. Noted(d, h, {})
  BY DEF Noted
<1>3. \A g \in Hosts, p \in Paths : SameAt(g, p) /\ SoftAt(g, p)
  BY SameWhere
<1> QED BY <1>1, <1>2, <1>3 DEF Server, Grown

(* A new node at a new path. *)
Puts(h, p, id, n) ==
    tree' = [tree EXCEPT ![h] = With(@, p, id)] /\ node' = With(node, id, n)

WasPut(d, h, p, id, n) ==
    /\ ServerInv' /\ Server(d, h, {p})
    /\ p \in DOMAIN tree'[h] /\ tree'[h][p] = id
    /\ DOMAIN node' = DOMAIN node \cup {id} /\ node'[id] = n
    /\ \A m \in DOMAIN node : node'[m] = node[m]
    /\ \A g \in Hosts, q \in Paths : q \in DOMAIN tree[g] =>
          q \in DOMAIN tree'[g] /\ tree'[g][q] = tree[g][q]

(* A new node at a free place in a directory that is there. *)
LEMMA PutNew ==
    ASSUME ServerInv, NEW h \in Hosts, NEW p \in Paths, Creatable(h, p),
           NEW id, id \notin DOMAIN node, id[1] = h, NEW n \in NodeRecs, Puts(h, p, id, n),
           NEW d, Noted(d, h, {p}), req[d].op # "changePerm"
    PROVE  WasPut(d, h, p, id, n)
<1>0. tree' = [tree EXCEPT ![h] = With(@, p, id)] /\ node' = With(node, id, n)
  BY DEF Puts
<1>1. /\ DOMAIN node' = DOMAIN node \cup {id} /\ node'[id] = n
      /\ \A m \in DOMAIN node : node'[m] = node[m]
  BY <1>0 DEF With
<1>2. DOMAIN tree' = Hosts /\ \A g \in Hosts : g # h => tree'[g] = tree[g]
  BY <1>0 DEF ServerInv
<1>3. PICK u : u = tree'[h]
  OBVIOUS
<1>4. DOMAIN u = DOMAIN tree[h] \cup {p} /\ u[p] = id /\ \A q \in DOMAIN tree[h] : u[q] = tree[h][q]
  <2>1. u = With(tree[h], p, id)
    BY <1>0, <1>3 DEF ServerInv
  <2>2. p \notin DOMAIN tree[h]
    BY DEF Creatable, Exists
  <2> QED BY <2>1, <2>2 DEF With
<1>5. Grown(node, node')
  BY <1>1 DEF Grown
<1>6. GoodTree(h, u, node')
  <2>1. GoodTree(h, tree[h], node')
    BY <1>5, GrownTree DEF ServerInv
  <2>2. IsFiniteSet({p})
    BY FS_Singleton
  <2>3. /\ p # <<>> /\ Front(p) \in DOMAIN tree[h] /\ node'[tree[h][Front(p)]].kind = "dir"
        /\ p \notin DOMAIN tree[h] /\ \A q \in DOMAIN tree[h] : tree[h][q] # id
    BY <1>1 DEF Creatable, IsDir, Exists, At, ServerInv, GoodTree
  <2>4. PICK t, nodes : t = tree[h] /\ nodes = node'
    OBVIOUS
  <2>5. /\ GoodTree(h, t, nodes) /\ DOMAIN u = DOMAIN t \cup {p} /\ \A q \in DOMAIN t : u[q] = t[q]
        /\ p # <<>> /\ Front(p) \in DOMAIN t /\ nodes[t[Front(p)]].kind = "dir"
        /\ u[p] \in DOMAIN nodes /\ u[p][1] = h /\ \A q \in DOMAIN t : t[q] # u[p]
    BY <1>1, <1>4, <2>1, <2>3, <2>4
  <2>6. GoodTree(h, u, nodes)
    <3>1. PICK X : X = {p}
      OBVIOUS
    <3>2. IsFiniteSet(X) /\ X \subseteq Paths /\ DOMAIN u = DOMAIN t \cup X
      BY <2>2, <2>5, <3>1
    <3>3. \A q \in X \ DOMAIN t :
             /\ q # <<>> /\ Front(q) \in DOMAIN t /\ nodes[t[Front(q)]].kind = "dir"
             /\ u[q] \in DOMAIN nodes /\ u[q][1] = h
             /\ \A y \in DOMAIN t : t[y] # u[q]
             /\ \A y \in X \ DOMAIN t : u[y] = u[q] => y = q
      BY <2>5, <3>1
    <3> QED BY <2>5, <3>2, <3>3, Added
  <2> QED BY <2>4, <2>6
<1>7. ServerInv'
  <2>1. \A m \in DOMAIN node' : node'[m] \in NodeRecs
    BY <1>1 DEF ServerInv
  <2>2. \A g \in Hosts : g # h => GoodTree(g, tree[g], node')
    BY <1>5, GrownTree DEF ServerInv
  <2>3. \A g \in Hosts : GoodTree(g, tree'[g], node')
    BY <1>2, <1>3, <1>6, <2>2
  <2> QED BY <1>2, <2>1, <2>3 DEF ServerInv
<1>8. ASSUME NEW g \in Hosts, NEW q \in Paths
      PROVE  SameAt(g, q) \/ (g = h /\ \E x \in {p} : IsPrefix(x, q))
  <2>1. CASE g = h /\ q = p
    BY <2>1, PathFacts
  <2>2. CASE ~(g = h /\ q = p)
    <3>1. q \in DOMAIN tree'[g] <=> q \in DOMAIN tree[g]
      BY <1>2, <1>3, <1>4, <2>2
    <3>2. q \in DOMAIN tree[g] => tree'[g][q] = tree[g][q] /\ tree[g][q] \in DOMAIN node
      BY <1>2, <1>3, <1>4, <2>2 DEF ServerInv, GoodTree
    <3> QED BY <1>1, <3>1, <3>2, SameWhere
  <2> QED BY <2>1, <2>2
<1>9. Server(d, h, {p})
  BY <1>5, <1>8 DEF Server
<1>10. \A g \in Hosts, q \in Paths : q \in DOMAIN tree[g] =>
         q \in DOMAIN tree'[g] /\ tree'[g][q] = tree[g][q]
  BY <1>2, <1>3, <1>4
<1> QED BY <1>1, <1>3, <1>4, <1>7, <1>9, <1>10 DEF WasPut

(* A node is rewritten. *)
LEMMA Rewritten ==
    ASSUME ServerInv, NEW h \in Hosts, NEW id \in DOMAIN node, id[1] = h,
           NEW n \in NodeRecs, n.kind = node[id].kind,
           tree' = tree, node' = [node EXCEPT ![id] = n],
           NEW d, NEW P, P = {p \in DOMAIN tree[h] : tree[h][p] = id}, Noted(d, h, P),
           req[d].op = "changePerm" => n.data = node[id].data
    PROVE  ServerInv' /\ Server(d, h, P)
<1>1. /\ DOMAIN node' = DOMAIN node /\ node'[id] = n
      /\ \A m \in DOMAIN node : m # id => node'[m] = node[m]
  OBVIOUS
<1>2. Grown(node, node')
  BY <1>1 DEF Grown
<1>3. ServerInv'
  <2>1. \A g \in Hosts : GoodTree(g, tree'[g], node')
    BY <1>2, GrownTree DEF ServerInv
  <2> QED BY <1>1, <2>1 DEF ServerInv
<1>4. P \subseteq Paths
  BY DEF ServerInv, GoodTree
<1>5. ASSUME NEW g \in Hosts, NEW q \in Paths
      PROVE  SameAt(g, q) \/ (g = h /\ \E x \in P : IsPrefix(x, q))
  <2>1. CASE q \in DOMAIN tree[g] /\ tree[g][q] = id
    <3>1. g = h
      BY <2>1 DEF ServerInv, GoodTree
    <3> QED BY <2>1, <3>1, PathFacts
  <2>2. CASE ~(q \in DOMAIN tree[g] /\ tree[g][q] = id)
    <3>1. q \in DOMAIN tree[g] => tree[g][q] \in DOMAIN node
      BY DEF ServerInv, GoodTree
    <3> QED BY <1>1, <2>2, <3>1, SameWhere
  <2> QED BY <2>1, <2>2
<1>6. ASSUME req[d].op = "changePerm", NEW g \in Hosts, NEW q \in Paths
      PROVE  SoftAt(g, q)
  <2>1. q \in DOMAIN tree[g] => tree[g][q] \in DOMAIN node
    BY DEF ServerInv, GoodTree
  <2> QED BY <1>1, <1>6, <2>1 DEF SoftAt
<1> QED BY <1>2, <1>3, <1>4, <1>5, <1>6 DEF Server

(* Which call makes which request. *)
Role(op, f, do) ==
    \/ op = "list" /\ do = "readdir"
    \/ op = "rename" /\ do = "rename"
    \/ op = "move" /\ do \in {"lstat", "rename"}
    \/ op = "copy" /\ do = "cp"
    \/ op = "delete" /\ do \in {"lstat", "readdir", "remove", "rmdir"}
    \/ op = "createFolder" /\ do = "mkdir"
    \/ op = "changePerm" /\ do \in {"chmod", "lstat", "readdir"}
    \/ op = "download" /\ do = "lstat"
    \/ op \in Readers /\ do \in {"open", "read", "close"}
    \/ op = "edit" /\ f = NoFile /\ do = "truncate"
    \/ op \in Uploads /\ f = NoFile /\ do \in {"readdir", "create"}
    \/ op = "uploadToDownloads" /\ f = NoFile /\ do \in {"realpath", "mkdirall"}
    \/ op \in Writers /\ f # NoFile /\ do \in {"write", "close"}

(* Which operation makes which request, and whether its file is open then. *)
LEMMA Roles ==
    ASSUME NEW c, CallTyped(c), CallInv(c), ans[c] = "running"
    PROVE  Role(req[c].op, file[c], Head(todo[c]).do) /\ req[c] \in Requests
<1>1. 1 \in DOMAIN todo[c] /\ Head(todo[c]) = todo[c][1] /\ todo[c] \in Seq(Todos)
  BY HeadFacts
<1>2. PICK op, do : op = req[c].op /\ do = todo[c][1].do
  OBVIOUS
<1> SUFFICES Role(op, file[c], do)
  BY <1>1, <1>2 DEF CallTyped
<1>3. req[c] \in Requests /\ op \in Ops
  BY <1>2, RequestFacts DEF CallTyped
<1>4. Active(c)
  BY DEF Active
<1>5. \A a, p : <<Req(a, p)>>[1].do = a
  BY DEF Req
<1>6. CASE op \in {"list", "rename", "copy", "createFolder"}
  <2>1. \A s, p : <<RenameTo(s, p)>>[1].do = "rename"
    BY DEF RenameTo
  <2> QED BY <1>2, <1>4, <1>5, <1>6, <2>1 DEF CallInv, Role, RenameInv, CopyInv, FolderInv
<1>7. CASE op = "move"
  BY <1>1, <1>2, <1>4, <1>5, <1>7 DEF CallInv, Role, MoveInv, Moving
<1>8. CASE op \in {"delete", "changePerm"}
  BY <1>1, <1>2, <1>4, <1>8 DEF CallInv, Role, DeleteInv, ChmodInv
<1>9. CASE op \in Readers
  <2>1. ReadShape(c)
    BY <1>2, <1>4, <1>9 DEF CallInv, ReadInv
  <2>2. CASE op = "download" /\ todo[c] = <<Req("lstat", req[c].path)>>
    BY <1>1, <1>2, <1>5, <2>2 DEF Role, Readers, Writers, Uploads
  <2>3. CASE Paired(todo[c])
    BY <1>1, <1>2, <1>9, <2>3 DEF Role, Paired, Readers, Writers
  <2> QED BY <1>2, <2>1, <2>2, <2>3 DEF ReadShape
<1>10. CASE op \in Writers
  <2>1. WriteInv(c)
    BY <1>2, <1>4, <1>10 DEF CallInv
  <2>2. CASE file[c] # NoFile
    <3>1. do \in {"write", "close"}
      BY <1>1, <1>2, <2>1, <2>2 DEF WriteInv, Writing
    <3> QED BY <1>1, <1>2, <1>10, <2>2, <3>1 DEF Role, Readers, Writers, Uploads
  <2>3. CASE file[c] = NoFile
    <3>1. Unopened(c)
      BY <2>1, <2>3 DEF WriteInv
    <3>2. \A x, y, z : <<x, y, z>>[1] = x /\ <<x, y>>[1] = x
      OBVIOUS
    <3>3. \A a, p, y, z : <<Req(a, p), y, z>>[1].do = a /\ <<Req(a, p), y>>[1].do = a
      BY <3>2 DEF Req
    <3>4. \/ op = "edit" /\ do = "truncate"
          \/ op \in Uploads /\ do \in {"readdir", "create"}
          \/ op = "uploadToDownloads" /\ do \in {"realpath", "mkdirall"}
      BY <1>2, <1>5, <3>1, <3>3 DEF Unopened, Uploads
    <3> QED BY <1>1, <1>2, <2>3, <3>4 DEF Role, Readers, Writers, Uploads
  <2> QED BY <2>2, <2>3
<1> QED
  BY <1>3, <1>6, <1>7, <1>8, <1>9, <1>10 DEF Ops, Readers, Writers, Uploads

(* What a step of the call c starts from. *)
Sound(c) ==
    /\ Doms /\ ServerInv /\ ClientInv /\ c \in Calls
    /\ CallTyped(c) /\ OnHome(c) /\ Fresh(c) /\ CallInv(c)

(* Changed is Noted. *)
LEMMA NotedChanged ==
    ASSUME NEW c, NEW h, NEW P, Changed(c, h, P)
    PROVE  Noted(c, h, P)
  BY DEF Changed, Noted, Begun

(* What is known of a call whose next request goes to the SFTP client. *)
LEMMA ReadyFacts ==
    ASSUME NEW c, NEW do, Sound(c), Ready(c, do)
    PROVE  /\ sftp \in Hosts /\ ans[c] = "running" /\ Head(todo[c]).do = do
           /\ Path(c) \in Paths /\ Head(todo[c]).to \in Paths
           /\ Role(req[c].op, file[c], do) /\ req[c] \in Requests
<1>1. ans[c] = "running" /\ Head(todo[c]).do = do /\ sftp # Nil
  BY DEF Ready
<1>2. sftp \in Hosts
  BY <1>1 DEF Sound, ClientInv
<1>3. CallTyped(c) /\ CallInv(c)
  BY DEF Sound
<1> QED BY <1>1, <1>2, <1>3, HeadFacts, Roles

(* A new directory and a new file are nodes. *)
LEMMA DirNode ==
    Node("dir", <<>>, "default") \in NodeRecs /\ Node("file", <<>>, "default") \in NodeRecs
<1>1. <<>> \in Contents /\ "default" \in Modes
  BY RequestAssumption DEF Contents
<1> QED BY <1>1 DEF NodeRecs, Node

(* Mkdir makes a directory where nothing was, or MkdirAll finds one. *)
LEMMA MkdirEffect ==
    ASSUME NEW c, Sound(c), Mkdir(c), NEW p, p = Path(c), NEW h, h = sftp
    PROVE  \/ /\ Creatable(h, p) /\ ServerInv' /\ Server(c, h, {p})
              /\ IsDir(h, p)'
              /\ DOMAIN node' = DOMAIN node \cup {<<h, c, p>>}
              /\ \A m \in DOMAIN node : node'[m] = node[m]
              /\ \A g \in Hosts, q \in Paths : q \in DOMAIN tree[g] =>
                 q \in DOMAIN tree'[g] /\ tree'[g][q] = tree[g][q]
           \/ IsDir(h, p) /\ tree' = tree /\ node' = node /\ changes' = changes
<1>2. Ready(c, "mkdir") \/ Ready(c, "mkdirall")
  BY DEF Mkdir
<1>3. h \in Hosts /\ p \in Paths /\ req[c].op \in {"createFolder", "uploadToDownloads"}
      /\ (file[c] = NoFile \/ req[c].op = "createFolder")
  BY <1>2, ReadyFacts DEF Role, Readers, Uploads, Writers
<1>4. CASE /\ Creatable(h, p)
           /\ tree' = [tree EXCEPT ![h] = With(@, p, <<h, c, p>>)]
           /\ node' = With(node, <<h, c, p>>, Node("dir", <<>>, "default"))
           /\ Changed(c, h, {p})
  <2>1. PICK id : id = <<h, c, p>>
    OBVIOUS
  <2>2. id[1] = h
    BY <2>1, IdFacts
  <2>3. id \notin DOMAIN node
    <3> SUFFICES ASSUME <<h, c, p>> \in DOMAIN node PROVE FALSE
      BY <2>1
    <3>1. /\ ans[c] = "running" /\ 1 \in DOMAIN todo[c] /\ todo[c][1].do \in {"mkdir", "mkdirall"}
      BY <1>2, HeadFacts DEF Sound, Ready
    <3>2. Fresh(c)
      BY DEF Sound
    <3>3. req[c].op = "uploadToDownloads" => todo[c][1].do = "mkdirall"
      <4>1. Ready(c, "mkdir") => req[c].op = "createFolder"
        BY ReadyFacts DEF Role, Readers, Uploads, Writers
      <4>2. Ready(c, "mkdirall") => todo[c][1].do = "mkdirall"
        BY HeadFacts DEF Sound, Ready
      <4> QED BY <1>2, <4>1, <4>2
    <3>4. \/ ans[c] \in {"ok", "error"}
          \/ ans[c] = "running" /\ req[c].op \in Uploads /\ file[c] # NoFile
          \/ /\ req[c].op = "uploadToDownloads"
             /\ \A j \in DOMAIN todo[c] : todo[c][j].do \notin {"realpath", "mkdirall"}
      BY <1>3, <3>2 DEF Fresh
    <3> QED BY <1>3, <3>1, <3>3, <3>4 DEF Uploads
  <2>4. Node("dir", <<>>, "default") \in NodeRecs
    BY DirNode
  <2>5. Noted(c, h, {p})
    BY <1>4, NotedChanged
  <2>6. PICK n : n = Node("dir", <<>>, "default")
    OBVIOUS
  <2>7. n \in NodeRecs /\ n.kind = "dir"
    BY <2>4, <2>6 DEF Node
  <2>8. ServerInv /\ req[c].op # "changePerm"
    BY <1>3 DEF Sound
  <2>9. Puts(h, p, id, n)
    BY <1>4, <2>1, <2>6 DEF Puts
  <2>10. WasPut(c, h, p, id, n)
    <3>1. Creatable(h, p) /\ h \in Hosts /\ p \in Paths
      BY <1>3, <1>4
    <3> QED BY <2>2, <2>3, <2>5, <2>7, <2>8, <2>9, <3>1, PutNew
  <2>12. IsDir(h, p)'
    BY <2>7, <2>10 DEF IsDir, Exists, At, WasPut
  <2>13. DOMAIN node' = DOMAIN node \cup {<<h, c, p>>}
    BY <2>1, <2>10, Zenon DEF WasPut
  <2> QED BY <1>4, <2>10, <2>12, <2>13 DEF WasPut
<1>5. CASE IsDir(h, p) /\ UNCHANGED <<srvVars, changes>>
  BY <1>5 DEF srvVars
<1> QED BY <1>4, <1>5 DEF Mkdir

(* Remove takes away one path with nothing below it. *)
LEMMA RemoveEffect ==
    ASSUME NEW c, Sound(c), DoRemove(c), NEW p, p = Path(c), NEW h, h = sftp
    PROVE  /\ h \in Hosts /\ p \in DOMAIN tree[h] /\ ServerInv' /\ Server(c, h, {p}) /\ node' = node
           /\ \A q \in DOMAIN tree[h] : IsPrefix(p, q) => q = p
           /\ DOMAIN tree'[h] = DOMAIN tree[h] \ {p}
<1>1. Ready(c, "remove") \/ Ready(c, "rmdir")
  BY DEF DoRemove
<1>2. h \in Hosts /\ p \in Paths /\ req[c].op # "changePerm" /\ ServerInv
  BY <1>1, ReadyFacts DEF Role, Readers, Uploads, Writers, Sound
<1>3. GoodTree(h, tree[h], node)
  BY <1>2 DEF ServerInv
<1>4. p \in DOMAIN tree[h] /\ \A q \in DOMAIN tree[h] : q # <<>> => Front(q) # p
  <2>1. CASE Exists(h, p) /\ ~IsDir(h, p)
    BY <1>3, <2>1 DEF Exists, IsDir, At, GoodTree
  <2>2. CASE IsDir(h, p) /\ Children(h, p) = {}
    BY <2>2 DEF IsDir, Exists, Children
  <2> QED BY <2>1, <2>2 DEF DoRemove
<1>5. tree' = [tree EXCEPT ![h] = Without(@, p)] /\ node' = node /\ Noted(c, h, {p})
  BY NotedChanged DEF DoRemove
<1>6. DOMAIN tree' = Hosts /\ tree'[h] = Without(tree[h], p) /\ \A g \in Hosts : g # h => tree'[g] = tree[g]
  BY <1>2, <1>5 DEF ServerInv
<1>7. GoodTree(h, tree'[h], node)
  BY <1>3, <1>4, <1>6, Removed
<1>8. ServerInv'
  BY <1>2, <1>5, <1>6, <1>7 DEF ServerInv
<1>9. DOMAIN tree'[h] = DOMAIN tree[h] \ {p} /\ \A q \in DOMAIN tree[h] : q # p => tree'[h][q] = tree[h][q]
  BY <1>6 DEF Without
<1>10. ASSUME NEW g \in Hosts, NEW q \in Paths
       PROVE  SameAt(g, q) \/ (g = h /\ \E x \in {p} : IsPrefix(x, q))
  <2>1. CASE g = h /\ q = p
    BY <1>2, <2>1, PathFacts
  <2>2. CASE ~(g = h /\ q = p)
    BY <1>5, <1>6, <1>9, <2>2, SameWhere
  <2> QED BY <2>1, <2>2
<1>11. Server(c, h, {p})
  BY <1>2, <1>5, <1>10 DEF Server, Grown
<1>12. ASSUME NEW q \in DOMAIN tree[h], IsPrefix(p, q) PROVE q = p
  <2> SUFFICES ASSUME q # p PROVE FALSE
    OBVIOUS
  <2> DEFINE B == {n \in Nat : \E x \in DOMAIN tree[h] : x # p /\ IsPrefix(p, x) /\ Len(x) = n}
  <2>0. DOMAIN tree[h] \subseteq Paths
    BY <1>3 DEF GoodTree
  <2>1. Len(q) \in B
    BY <1>12, <2>0, PathFacts
  <2>2. PICK n \in B : \A m \in B : n <= m
    BY <2>1, LeastNat
  <2>3. PICK x \in DOMAIN tree[h] : x # p /\ IsPrefix(p, x) /\ Len(x) = n
    BY <2>2
  <2>4. x # <<>>
    <3> SUFFICES ASSUME x = <<>> PROVE FALSE
      OBVIOUS
    <3>1. Len(p) = 0
      BY <1>2, <2>3, PathFacts DEF IsPrefix
    <3> QED BY <1>2, <2>3, <3>1, PathFacts
  <2>5. Front(x) \in DOMAIN tree[h] /\ Front(x) # p /\ IsPrefix(p, Front(x))
    BY <1>2, <1>3, <1>4, <2>0, <2>3, <2>4, PathFront DEF GoodTree
  <2>6. Len(Front(x)) = n - 1 /\ n \in Nat /\ n > 0
    BY <2>0, <2>3, <2>4, PathFacts
  <2>7. n - 1 \in B
    BY <2>5, <2>6
  <2> QED BY <2>2, <2>6, <2>7
<1> QED BY <1>2, <1>4, <1>5, <1>8, <1>9, <1>11, <1>12

WasMoved(h, s, d) ==
    /\ h \in Hosts /\ s \in DOMAIN tree[h] /\ d \in Paths /\ ~IsPrefix(s, d)
    /\ d \in DOMAIN tree'[h] /\ ~Exists(h, d)
    /\ \A q \in DOMAIN tree'[h] : ~IsPrefix(s, q) /\ (q \in DOMAIN tree[h] \/ IsPrefix(d, q))
    /\ \A q \in DOMAIN tree[h] : ~IsPrefix(s, q) => q \in DOMAIN tree'[h]

(* Rename moves a subtree to a place that was free. *)
LEMMA RenameEffect ==
    ASSUME NEW c, Sound(c), DoRename(c), NEW s, s = Path(c), NEW d, d = Head(todo[c]).to,
           NEW h, h = sftp
    PROVE  WasMoved(h, s, d) /\ ServerInv' /\ Server(c, h, {s, d}) /\ node' = node
<1>1. Ready(c, "rename")
  BY DEF DoRename
<1>2. h \in Hosts /\ s \in Paths /\ d \in Paths /\ req[c].op # "changePerm" /\ ServerInv
  BY <1>1, ReadyFacts DEF Role, Readers, Uploads, Writers, Sound
<1>3. GoodTree(h, tree[h], node)
  BY <1>2 DEF ServerInv
<1>4. /\ s \in DOMAIN tree[h] /\ d \notin DOMAIN tree[h] /\ ~IsPrefix(s, d) /\ d # <<>>
      /\ Front(d) \in DOMAIN tree[h] /\ node[tree[h][Front(d)]].kind = "dir"
  BY DEF DoRename, Exists, Creatable, IsDir, At
<1>5. tree' = [tree EXCEPT ![h] = Moved(@, s, d)] /\ node' = node /\ Noted(c, h, {s, d})
  BY NotedChanged DEF DoRename
<1>6. PICK t, m : t = tree[h] /\ m = Moved(t, s, d)
  OBVIOUS
<1>7. DOMAIN tree' = Hosts /\ tree'[h] = m /\ \A g \in Hosts : g # h => tree'[g] = tree[g]
  BY <1>2, <1>5, <1>6 DEF ServerInv
<1>8. GoodTree(h, m, node) /\ d \in DOMAIN m
  BY <1>2, <1>3, <1>4, <1>6, MovedTree
<1>9. ServerInv'
  BY <1>2, <1>5, <1>7, <1>8 DEF ServerInv
<1>10. /\ \A q \in DOMAIN t : ~IsPrefix(s, q) => q \in DOMAIN m /\ m[q] = t[q]
       /\ \A q \in DOMAIN m : ~IsPrefix(s, q) /\ (q \in DOMAIN t \/ IsPrefix(d, q))
  BY <1>2, <1>3, <1>4, <1>6, MovedFacts
<1>11. ASSUME NEW g \in Hosts, NEW q \in Paths
       PROVE  SameAt(g, q) \/ (g = h /\ \E x \in {s, d} : IsPrefix(x, q))
  <2>1. CASE g = h /\ (IsPrefix(s, q) \/ IsPrefix(d, q))
    BY <2>1
  <2>2. CASE g # h
    BY <1>5, <1>7, <2>2, SameWhere
  <2>3. CASE g = h /\ ~IsPrefix(s, q) /\ ~IsPrefix(d, q)
    <3>1. q \in DOMAIN m <=> q \in DOMAIN t
      BY <1>10, <2>3
    <3>2. q \in DOMAIN t => m[q] = t[q]
      BY <1>10, <2>3
    <3> QED BY <1>5, <1>6, <1>7, <2>3, <3>1, <3>2, SameWhere
  <2> QED BY <2>1, <2>2, <2>3
<1>12. Server(c, h, {s, d})
  BY <1>2, <1>5, <1>11 DEF Server, Grown
<1> QED BY <1>2, <1>4, <1>5, <1>6, <1>7, <1>8, <1>9, <1>10, <1>12 DEF WasMoved, Exists

(* What is at a path, and nowhere else. *)
LEMMA NodeAt ==
    ASSUME ServerInv, NEW h \in Hosts, NEW p \in DOMAIN tree[h]
    PROVE  /\ p \in Paths /\ tree[h][p] \in DOMAIN node /\ tree[h][p][1] = h
           /\ node[tree[h][p]] \in NodeRecs
           /\ {q \in DOMAIN tree[h] : tree[h][q] = tree[h][p]} = {p}
<1>1. /\ p \in Paths /\ tree[h][p] \in DOMAIN node /\ tree[h][p][1] = h
      /\ node[tree[h][p]] \in NodeRecs
  BY DEF ServerInv, GoodTree
<1>2. \A q \in DOMAIN tree[h] : tree[h][q] = tree[h][p] => q = p
  BY DEF ServerInv, GoodTree
<1> QED BY <1>1, <1>2

WasChmod(h, p, mode) ==
    /\ h \in Hosts /\ p \in DOMAIN tree[h] /\ tree' = tree
    /\ node'[tree[h][p]].mode = mode
    /\ DOMAIN node' = DOMAIN node
    /\ \A m \in DOMAIN node : m # tree[h][p] => node'[m] = node[m]
    /\ \A m \in DOMAIN node : node'[m].kind = node[m].kind

(* Chmod sets the mode of what the path leads to. *)
LEMMA ChmodEffect ==
    ASSUME NEW c, Sound(c), Chmod(c), NEW h, h = sftp, NEW p, p = Follow(h, Path(c))
    PROVE  ServerInv' /\ Server(c, h, {p}) /\ WasChmod(h, p, req[c].mode)
<1>1. Ready(c, "chmod")
  BY DEF Chmod
<1>2. h \in Hosts /\ req[c] \in Requests /\ ServerInv
  BY <1>1, ReadyFacts DEF Sound
<1>3. p \in DOMAIN tree[h]
  BY DEF Chmod, Exists
<1>4. PICK id : id = tree[h][p]
  OBVIOUS
<1>5. /\ id \in DOMAIN node /\ id[1] = h /\ node[id] \in NodeRecs
      /\ {q \in DOMAIN tree[h] : tree[h][q] = id} = {p}
  BY <1>2, <1>3, <1>4, NodeAt
<1>6. PICK n : n = [node[id] EXCEPT !.mode = req[c].mode]
  OBVIOUS
<1>7. req[c].mode \in Modes
  BY <1>2, RequestFacts
<1>8. n \in NodeRecs /\ n.kind = node[id].kind /\ n.data = node[id].data /\ n.mode = req[c].mode
  BY <1>5, <1>6, <1>7 DEF NodeRecs
<1>9. tree' = tree /\ node' = [node EXCEPT ![id] = n] /\ Noted(c, h, {p})
  BY <1>4, <1>6, NotedChanged DEF Chmod
<1>10. ServerInv' /\ Server(c, h, {p})
  <2>1. PICK P : P = {p} /\ P = {q \in DOMAIN tree[h] : tree[h][q] = id}
    BY <1>5
  <2>2. Noted(c, h, P)
    BY <1>9, <2>1
  <2>3. ServerInv' /\ Server(c, h, P)
    BY <1>2, <1>5, <1>8, <1>9, <2>1, <2>2, Rewritten
  <2> QED BY <2>1, <2>3
<1> QED BY <1>2, <1>3, <1>4, <1>5, <1>8, <1>9, <1>10 DEF WasChmod

(* A unit written at the end of a file lengthens it by one. *)
LEMMA OverlayFacts ==
    ASSUME NEW d \in Contents, NEW i \in Nat \ {0}, NEW u \in Units \cup {0}
    PROVE  /\ Overlay(d, i, u) \in Contents
           /\ i = Len(d) + 1 =>
                 /\ Len(Overlay(d, i, u)) = i /\ Overlay(d, i, u)[i] = u
                 /\ \A j \in 1 .. Len(d) : Overlay(d, i, u)[j] = d[j]
<1>1. d \in Seq(Units \cup {0}) /\ Len(d) \in Nat
  BY DEF Contents
<1>2. PICK n \in Nat : n = IF i > Len(d) THEN i ELSE Len(d)
  BY <1>1
<1>3. Overlay(d, i, u) = [j \in 1 .. n |-> IF j = i THEN u ELSE IF j <= Len(d) THEN d[j] ELSE 0]
  BY <1>2 DEF Overlay
<1>4. \A j \in 1 .. n : (IF j = i THEN u ELSE IF j <= Len(d) THEN d[j] ELSE 0) \in Units \cup {0}
  BY <1>1
<1>5. Overlay(d, i, u) \in Seq(Units \cup {0}) /\ Len(Overlay(d, i, u)) = n
  BY <1>3, <1>4
<1>6. ASSUME i = Len(d) + 1
      PROVE  /\ n = i /\ Overlay(d, i, u)[i] = u
             /\ \A j \in 1 .. Len(d) : Overlay(d, i, u)[j] = d[j]
  BY <1>1, <1>2, <1>3, <1>6
<1> QED BY <1>5, <1>6 DEF Contents

(* Write changes the open file only, at its position. *)
LEMMA WriteEffect ==
    ASSUME NEW c, Sound(c), Write(c), NEW f, f = file[c],
           NEW P, P = {p \in DOMAIN tree[f.host] : tree[f.host][p] = f.id}
    PROVE  /\ ServerInv' /\ Server(c, f.host, P) /\ tree' = tree
           /\ req[c].op \in Writers /\ OpenFile(f) /\ f.pos \in Nat /\ f.pos + 1 \in DOMAIN req[c].data
           /\ node'[f.id].data = Overlay(node[f.id].data, f.pos + 1, req[c].data[f.pos + 1])
           /\ node[f.id].data \in Contents /\ req[c].data \in Contents
           /\ DOMAIN node' = DOMAIN node
           /\ \A m \in DOMAIN node : m # f.id => node'[m] = node[m]
<1>1. ans[c] = "running" /\ Head(todo[c]).do = "write"
  BY DEF Write, OnFile
<1>2. req[c].op \in Writers /\ f # NoFile /\ req[c] \in Requests /\ CallTyped(c) /\ CallInv(c) /\ ServerInv
  BY <1>1, Roles DEF Sound, Role, Readers, Writers, Uploads
<1>3. OpenFile(f) /\ f.host \in Hosts /\ f.id \in DOMAIN node /\ f.id[1] = f.host /\ f.pos \in Nat
      /\ node[f.id].kind = "file"
  BY <1>2 DEF CallTyped, OpenFile, Files
<1>4. node[f.id] \in NodeRecs /\ node[f.id].data \in Contents
  <2>1. node[f.id] \in NodeRecs
    BY <1>2, <1>3 DEF ServerInv
  <2> QED BY <1>3, <2>1 DEF NodeRecs
<1>5. req[c].data \in Contents /\ req[c].data \in Seq(Units \cup {0})
  BY <1>2, RequestFacts DEF Contents
<1>6. f.pos + 1 \in DOMAIN req[c].data
  <2>1. Writing(c)
    BY <1>1, <1>2 DEF CallInv, WriteInv, Active
  <2>2. 1 \in DOMAIN todo[c] /\ todo[c][1].do = "write"
    BY <1>1, <1>2, HeadFacts
  <2>3. PICK k \in Nat : k = Len(req[c].data)
    BY <1>5
  <2>4. 1 <= k - f.pos
    BY <2>1, <2>2, <2>3 DEF Writing
  <2>5. f.pos + 1 \in 1 .. k
    BY <1>3, <2>3, <2>4
  <2> QED BY <1>5, <2>3, <2>5
<1>7. PICK v : v = Overlay(node[f.id].data, f.pos + 1, req[c].data[f.pos + 1])
  OBVIOUS
<1>8. v \in Contents
  <2>1. f.pos + 1 \in Nat \ {0} /\ req[c].data[f.pos + 1] \in Units \cup {0}
    BY <1>3, <1>5, <1>6
  <2> QED BY <1>4, <1>7, <2>1, OverlayFacts
<1>9. PICK n : n = [node[f.id] EXCEPT !.data = v]
  OBVIOUS
<1>10. n \in NodeRecs /\ n.kind = node[f.id].kind /\ n.data = v
  <2>1. PICK r \in [kind : {"dir", "file"}, data : Contents, mode : Modes] : r = node[f.id]
    BY <1>3, <1>4 DEF NodeRecs
  <2>2. n = [r EXCEPT !.data = v]
    BY <1>9, <2>1
  <2>3. n \in [kind : {"dir", "file"}, data : Contents, mode : Modes] /\ n.kind = r.kind /\ n.data = v
    BY <1>8, <2>1, <2>2
  <2> QED BY <2>1, <2>3 DEF NodeRecs
<1>11. tree' = tree /\ node' = [node EXCEPT ![f.id] = n] /\ Noted(c, f.host, P)
  BY <1>7, <1>9, NotedChanged DEF Write
<1>12. req[c].op # "changePerm"
  BY <1>2 DEF Writers, Uploads
<1>13. ServerInv' /\ Server(c, f.host, P)
  <2>1. PICK h, id : h = f.host /\ id = f.id
    OBVIOUS
  <2>2. /\ h \in Hosts /\ id \in DOMAIN node /\ id[1] = h /\ n.kind = node[id].kind
        /\ node' = [node EXCEPT ![id] = n] /\ Noted(c, h, P)
        /\ P = {p \in DOMAIN tree[h] : tree[h][p] = id}
    BY <1>3, <1>10, <1>11, <2>1
  <2>3. ServerInv' /\ Server(c, h, P)
    <3>1. ServerInv /\ n \in NodeRecs /\ tree' = tree
      BY <1>2, <1>10, <1>11
    <3>2. req[c].op = "changePerm" => n.data = node[id].data
      BY <1>12
    <3> QED BY <2>2, <3>1, <3>2, Rewritten
  <2> QED BY <2>1, <2>3
<1> QED BY <1>2, <1>3, <1>4, <1>5, <1>6, <1>7, <1>10, <1>11, <1>13

(* What create finds in todo is the name that was chosen. *)
LEMMA CreateFacts ==
    ASSUME NEW c, Sound(c), Ready(c, "create")
    PROVE  /\ \E n \in Entries :
                 todo[c] = <<Req("create", Append(IF req[c].op = "upload" THEN req[c].path ELSE Downloads, n))>>
           /\ req[c].op \in Uploads /\ NotThere(c, todo[c][1].path)
           /\ req[c].op = "uploadToDownloads" => Path(c) # <<>> /\ Front(Path(c)) = Downloads
<1>1. /\ ans[c] = "running" /\ Head(todo[c]).do = "create" /\ file[c] = NoFile /\ req[c].op \in Uploads
      /\ CallInv(c) /\ CallTyped(c)
  BY ReadyFacts DEF Sound, Role, Readers, Uploads, Writers
<1>2. todo[c][1].do = "create" /\ Path(c) = todo[c][1].path
  BY <1>1, HeadFacts
<1>3. Unopened(c)
  BY <1>1 DEF CallInv, WriteInv, Active, Writers
<1>4. \A x, y, z : <<x, y, z>>[1] = x /\ <<x, y>>[1] = x /\ <<x>>[1] = x
  OBVIOUS
<1>5. \A a, p, y, z : /\ <<Req(a, p), y, z>>[1].do = a /\ <<Req(a, p), y>>[1].do = a
                      /\ <<Req(a, p)>>[1].do = a /\ <<Req(a, p)>>[1].path = p
  BY <1>4 DEF Req
<1>6. /\ \E n \in Entries :
            todo[c] = <<Req("create", Append(IF req[c].op = "upload" THEN req[c].path ELSE Downloads, n))>>
      /\ NotThere(c, todo[c][1].path)
  BY <1>1, <1>2, <1>3, <1>5 DEF Unopened
<1>7. ASSUME req[c].op = "uploadToDownloads"
      PROVE  Path(c) # <<>> /\ Front(Path(c)) = Downloads
  <2>1. PICK n \in Entries : todo[c] = <<Req("create", Append(Downloads, n))>>
    BY <1>6, <1>7
  <2>2. Path(c) = Append(Downloads, n)
    <3>1. PICK q : q = Append(Downloads, n)
      OBVIOUS
    <3>2. todo[c] = <<Req("create", q)>>
      BY <2>1, <3>1
    <3>3. todo[c][1].path = q
      BY <1>5, <3>2
    <3> QED BY <1>2, <3>1, <3>3
  <2>3. Downloads \in Seq(Entries)
    BY RequestAssumption DEF Paths
  <2> QED BY <2>2, <2>3, AppendFacts
<1> QED BY <1>1, <1>6, <1>7

Emptied(c, h, p) ==
    \/ /\ IsFile(h, p) /\ tree' = tree /\ DOMAIN node' = DOMAIN node
       /\ node'[tree[h][p]].kind = "file" /\ node'[tree[h][p]].data = <<>>
       /\ \A m \in DOMAIN node : m # tree[h][p] => node'[m] = node[m]
    \/ /\ Creatable(h, p) /\ req[c].op \in Uploads
       /\ \E id, n : n.kind = "file" /\ n.data = <<>> /\ id = <<h, c, p>> /\ id \notin DOMAIN node
                      /\ WasPut(c, h, p, id, n)

(* Opening to write leaves an empty file at the path: a new one or a truncated
   one. *)
LEMMA OpenEffect ==
    ASSUME NEW c, Sound(c), OpenToWrite(c), NEW h, h = sftp, NEW p, p = Follow(h, Path(c))
    PROVE  /\ h \in Hosts /\ p \in Paths /\ ServerInv' /\ Server(c, h, {p})
           /\ file[c] = NoFile /\ req[c].op \in Writers
           /\ (req[c].op = "edit" /\ Ready(c, "truncate")) \/ (req[c].op \in Uploads /\ Ready(c, "create"))
           /\ Emptied(c, h, p)
<1>1. Ready(c, "truncate") \/ Ready(c, "create")
  BY DEF OpenToWrite
<1>2. h \in Hosts /\ Path(c) \in Paths /\ ServerInv
  BY <1>1, ReadyFacts DEF Sound
<1>3. p \in Paths
  BY <1>2, FollowFacts
<1>4. /\ file[c] = NoFile /\ req[c].op \in Writers /\ req[c].op # "changePerm"
      /\ (req[c].op = "edit" /\ Ready(c, "truncate")) \/ (req[c].op \in Uploads /\ Ready(c, "create"))
  BY <1>1, ReadyFacts DEF Role, Readers, Uploads, Writers
<1>5. Noted(c, h, {p})
  BY NotedChanged DEF OpenToWrite
<1>6. CASE /\ IsFile(h, p)
           /\ node' = [node EXCEPT ![tree[h][p]] = Truncated(@)]
           /\ tree' = tree
  <2>1. PICK id : id = tree[h][p]
    OBVIOUS
  <2>2. /\ p \in DOMAIN tree[h] /\ id \in DOMAIN node /\ id[1] = h /\ node[id] \in NodeRecs
        /\ {q \in DOMAIN tree[h] : tree[h][q] = id} = {p} /\ node[id].kind = "file"
    BY <1>2, <1>6, <2>1, NodeAt DEF IsFile, Exists, At
  <2>3. PICK r \in [kind : {"dir", "file"}, data : Contents, mode : Modes] : r = node[id]
    BY <2>2 DEF NodeRecs
  <2>4. PICK n : n = Truncated(r)
    OBVIOUS
  <2>5. /\ n \in [kind : {"dir", "file"}, data : Contents, mode : Modes] /\ n.kind = r.kind
        /\ n.data = <<>>
    <3>1. PICK e \in Contents : e = <<>>
      <4>1. <<>> \in Contents
        BY DEF Contents
      <4> QED BY <4>1, Zenon
    <3>2. n = [r EXCEPT !.data = e]
      BY <2>4, <3>1 DEF Truncated
    <3>3. /\ n \in [kind : {"dir", "file"}, data : Contents, mode : Modes] /\ n.kind = r.kind
          /\ n.data = e
      BY <2>3, <3>1, <3>2
    <3> QED BY <3>1, <3>3
  <2>6. n \in NodeRecs /\ n.kind = node[id].kind
    BY <2>3, <2>5 DEF NodeRecs
  <2>7. node' = [node EXCEPT ![id] = n]
    BY <1>6, <2>1, <2>3, <2>4
  <2>8. PICK P : P = {p} /\ P = {q \in DOMAIN tree[h] : tree[h][q] = id}
    BY <2>2
  <2>9. Noted(c, h, P)
    BY <1>5, <2>8
  <2>10. ServerInv' /\ Server(c, h, P)
    <3>1. ServerInv /\ n \in NodeRecs /\ tree' = tree /\ h \in Hosts /\ id \in DOMAIN node /\ id[1] = h
      BY <1>2, <1>6, <2>2, <2>6
    <3>2. req[c].op = "changePerm" => n.data = node[id].data
      BY <1>4
    <3> QED BY <2>6, <2>7, <2>8, <2>9, <3>1, <3>2, Rewritten
  <2>11. Emptied(c, h, p)
    BY <1>6, <2>1, <2>2, <2>5, <2>6, <2>7 DEF Emptied
  <2> QED BY <1>2, <1>3, <1>4, <2>8, <2>10, <2>11
<1>7. CASE /\ Ready(c, "create") /\ Creatable(h, p)
           /\ tree' = [tree EXCEPT ![h] = With(@, p, <<h, c, p>>)]
           /\ node' = With(node, <<h, c, p>>, Node("file", <<>>, "default"))
  <2>1. PICK id : id = <<h, c, p>>
    OBVIOUS
  <2>2. id[1] = h
    BY <2>1, IdFacts
  <2>3. id \notin DOMAIN node
    <3> SUFFICES ASSUME <<h, c, p>> \in DOMAIN node PROVE FALSE
      BY <2>1
    <3>1. ans[c] = "running" /\ Fresh(c)
      BY <1>7 DEF Sound, Ready
    <3>2. \/ ans[c] \in {"ok", "error"}
          \/ ans[c] = "running" /\ req[c].op \in Uploads /\ file[c] # NoFile
          \/ req[c].op = "uploadToDownloads" /\ p = Downloads
      BY <1>2, <1>3, <3>1 DEF Fresh
    <3>3. req[c].op = "uploadToDownloads" /\ p = Downloads
      BY <1>4, <3>1, <3>2
    <3>4. Path(c) # <<>> /\ Front(Path(c)) = Downloads
      BY <1>7, <3>3, CreateFacts
    <3>5. Path(c) # p
      BY <1>2, <3>3, <3>4, PathFacts
    <3>6. Path(c) \in DOMAIN tree[h]
      BY <3>5 DEF Follow, Exists
    <3>7. Downloads \in DOMAIN tree[h]
      BY <1>2, <3>4, <3>6 DEF ServerInv, GoodTree
    <3> QED BY <1>7, <3>3, <3>7 DEF Creatable, Exists
  <2>4. PICK n : n = Node("file", <<>>, "default")
    OBVIOUS
  <2>5. n \in NodeRecs /\ n.kind = "file" /\ n.data = <<>>
    BY <2>4, DirNode DEF Node
  <2>6. ServerInv /\ req[c].op # "changePerm" /\ Creatable(h, p) /\ h \in Hosts /\ p \in Paths
    BY <1>2, <1>3, <1>4, <1>7
  <2>7. Puts(h, p, id, n)
    BY <1>7, <2>1, <2>4 DEF Puts
  <2>8. WasPut(c, h, p, id, n)
    BY <1>5, <2>2, <2>3, <2>5, <2>6, <2>7, PutNew
  <2>9. Emptied(c, h, p)
    <3>1. req[c].op \in Uploads
      BY <1>7, CreateFacts
    <3> QED BY <2>1, <2>3, <2>5, <2>6, <2>8, <3>1, Zenon DEF Emptied
  <2> QED BY <1>2, <1>3, <1>4, <2>8, <2>9 DEF WasPut
<1> QED BY <1>6, <1>7 DEF OpenToWrite

(* What cp has copied. *)
Copied(c, h, done) ==
    LET r == req[c]  to == {Target(h, r, i) : i \in done} IN
    /\ done \subseteq {i \in DOMAIN r.items : Copyable(h, r, i)}
    /\ ServerInv' /\ Server(c, h, to)
    /\ DOMAIN tree'[h] = DOMAIN tree[h] \cup to
    /\ \A q \in DOMAIN tree[h] : tree'[h][q] = tree[h][q]
    /\ \A q \in to : node'[tree'[h][q]].kind = "file"
    /\ DOMAIN node' = DOMAIN node \cup {tree'[h][q] : q \in to}
    /\ \A q \in to \ DOMAIN tree[h] : tree'[h][q] = <<h, c, q>>

(* cp copies some of the items, and answers with success only for all of them. *)
LEMMA CopyEffect ==
    ASSUME NEW c, Sound(c), RunCp(c)
    PROVE  /\ ssh \in Hosts /\ req[c] \in Requests /\ req[c].op = "copy"
           /\ \E done : Copied(c, ssh, done)
                 /\ IF done = DOMAIN req[c].items THEN Continue(c, <<>>) ELSE GiveUp(c)
<1> DEFINE h == ssh  r == req[c]
<1>1. ans[c] = "running" /\ Head(todo[c]).do = "cp"
  BY DEF RunCp, OnFile
<1>2. /\ req[c] \in Requests /\ req[c].op = "copy" /\ ServerInv /\ c \in Calls /\ Fresh(c) /\ ClientInv
  BY <1>1, Roles DEF Sound, Role, Readers, Writers, Uploads
<1>3. h \in Hosts
  BY <1>1, <1>2 DEF ClientInv, Running
<1>4. r \in Requests
  BY <1>2
<1>5. PICK done \in SUBSET {i \in DOMAIN r.items : Copyable(h, r, i)} :
         LET to == {Target(h, r, i) : i \in done}
             From(q) == At(h, Follow(h, r.items[CHOOSE i \in done : Target(h, r, i) = q])).data
         IN
         /\ tree' = [tree EXCEPT ![h] =
                       [q \in DOMAIN @ \cup to |-> IF q \in DOMAIN @ THEN @[q] ELSE <<h, c, q>>]]
         /\ node' = [n \in DOMAIN node \cup {tree'[h][q] : q \in to} |->
                       IF \E q \in to : tree'[h][q] = n
                       THEN Node("file", From(CHOOSE q \in to : tree'[h][q] = n), "default")
                       ELSE node[n]]
         /\ Changed(c, h, to)
         /\ IF done = DOMAIN r.items THEN Continue(c, <<>>) ELSE GiveUp(c)
  BY DEF RunCp
<1> HIDE DEF h, r
<1> DEFINE From(q) == At(h, Follow(h, r.items[CHOOSE i \in done : Target(h, r, i) = q])).data
<1>6. PICK to : to = {Target(h, r, i) : i \in done}
  OBVIOUS
<1>7. PICK ids : ids = [q \in to |-> <<h, c, q>>]
  OBVIOUS
<1>8. PICK t, u : t = tree[h] /\ u = tree'[h]
  OBVIOUS
<1>9. /\ tree' = [tree EXCEPT ![h] = [q \in DOMAIN t \cup to |-> IF q \in DOMAIN t THEN t[q] ELSE ids[q]]]
      /\ node' = [n \in DOMAIN node \cup {u[q] : q \in to} |->
                       IF \E q \in to : u[q] = n
                       THEN Node("file", From(CHOOSE q \in to : u[q] = n), "default")
                       ELSE node[n]]
      /\ Noted(c, h, to)
  <2>1. Noted(c, h, to)
    BY <1>5, <1>6, NotedChanged
  <2>2. node' = [n \in DOMAIN node \cup {u[q] : q \in to} |->
                       IF \E q \in to : u[q] = n
                       THEN Node("file", From(CHOOSE q \in to : u[q] = n), "default")
                       ELSE node[n]]
    BY <1>5, <1>6, <1>8
  <2>3. [q \in DOMAIN t \cup to |-> IF q \in DOMAIN t THEN t[q] ELSE ids[q]]
        = [q \in DOMAIN t \cup to |-> IF q \in DOMAIN t THEN t[q] ELSE <<h, c, q>>]
    BY <1>7
  <2>4. tree' = [tree EXCEPT ![h] = [q \in DOMAIN t \cup to |-> IF q \in DOMAIN t THEN t[q] ELSE <<h, c, q>>]]
    BY <1>5, <1>6, <1>8
  <2> QED BY <2>1, <2>2, <2>3, <2>4
<1>10. /\ DOMAIN tree' = Hosts /\ \A g \in Hosts : g # h => tree'[g] = tree[g]
       /\ DOMAIN u = DOMAIN t \cup to /\ \A q \in DOMAIN t : u[q] = t[q]
       /\ \A q \in to : q \notin DOMAIN t => u[q] = ids[q]
  BY <1>2, <1>3, <1>8, <1>9 DEF ServerInv
<1>11. GoodTree(h, t, node)
  BY <1>2, <1>3, <1>8 DEF ServerInv
<1>12. \A q \in to : ids[q][1] = h /\ \A p \in to : ids[p] = ids[q] => p = q
  <2>1. \A q \in to : ids[q] = <<h, c, q>>
    BY <1>7
  <2> QED BY <2>1, IdFacts
<1>13. /\ to \subseteq Paths
       /\ \A q \in to : (q \in DOMAIN t /\ node[t[q]].kind = "file") \/ (q \notin DOMAIN t /\ Creatable(h, q))
  <2>1. \A i \in done : Target(h, r, i) \in Paths
    BY <1>4, TargetFacts
  <2>2. \A i \in done : Creatable(h, Target(h, r, i)) \/ IsFile(h, Target(h, r, i))
    BY DEF Copyable
  <2> QED BY <1>6, <1>8, <2>1, <2>2 DEF Creatable, IsFile, Exists, At
<1>14. \A q \in to : ids[q] \notin DOMAIN node
  <2> SUFFICES ASSUME NEW q \in to, ids[q] \in DOMAIN node PROVE FALSE
    OBVIOUS
  <2>1. <<h, c, q>> \in DOMAIN node /\ q \in Paths
    BY <1>7, <1>13
  <2>2. ans[c] \in {"ok", "error"} \/ req[c].op \in Uploads \/ req[c].op = "uploadToDownloads"
    BY <1>2, <1>3, <2>1 DEF Fresh
  <2> QED BY <1>1, <1>2, <2>2 DEF Uploads
<1>15. \A q \in to : From(q) \in Contents
  <2> SUFFICES ASSUME NEW q \in to PROVE From(q) \in Contents
    OBVIOUS
  <2>1. PICK i : i = CHOOSE j \in done : Target(h, r, j) = q
    OBVIOUS
  <2>2. i \in done
    BY <1>6, <2>1
  <2>3. IsFile(h, Follow(h, r.items[i]))
    BY <2>2 DEF Copyable
  <2>4. PICK s : s = Follow(h, r.items[i])
    OBVIOUS
  <2>5. node[tree[h][s]] \in NodeRecs /\ node[tree[h][s]].kind = "file"
    BY <1>2, <1>3, <2>3, <2>4, NodeAt DEF IsFile, Exists, At
  <2>6. node[tree[h][s]].data \in Contents
    BY <2>5 DEF NodeRecs
  <2> QED BY <2>1, <2>4, <2>6 DEF At
<1> HIDE DEF From
<1>16. \A q \in to : node'[u[q]] \in NodeRecs /\ node'[u[q]].kind = "file"
  <2> SUFFICES ASSUME NEW q \in to PROVE node'[u[q]] \in NodeRecs /\ node'[u[q]].kind = "file"
    OBVIOUS
  <2>1. PICK x : x = CHOOSE y \in to : u[y] = u[q]
    OBVIOUS
  <2>2. x \in to
    BY <2>1
  <2>3. node'[u[q]] = Node("file", From(x), "default")
    BY <1>9, <2>1
  <2>4. "default" \in Modes /\ From(x) \in Contents
    BY <1>15, <2>2, RequestAssumption
  <2> QED BY <2>3, <2>4 DEF Node, NodeRecs
<1>17. DOMAIN node' = DOMAIN node \cup {u[q] : q \in to}
       /\ \A n \in DOMAIN node : (\A q \in to : u[q] # n) => node'[n] = node[n]
  BY <1>9
<1>18. Grown(node, node')
  <2>1. ASSUME NEW n \in DOMAIN node PROVE node'[n].kind = node[n].kind
    <3>1. CASE \E q \in to : u[q] = n
      <4>1. PICK q \in to : u[q] = n
        BY <3>1
      <4>2. q \in DOMAIN t
        BY <1>10, <1>14, <4>1
      <4> QED BY <1>10, <1>13, <1>16, <4>1, <4>2
    <3>2. CASE \A q \in to : u[q] # n
      BY <1>17, <3>2
    <3> QED BY <3>1, <3>2
  <2> QED BY <1>17, <2>1 DEF Grown
<1>19. \A n \in DOMAIN node' : node'[n] \in NodeRecs
  BY <1>2, <1>16, <1>17 DEF ServerInv
<1>20. IsFiniteSet(to)
  <2>1. IsFiniteSet(done)
    <3>1. r.items \in Seq(Paths \ {<<>>})
      BY <1>4, RequestFacts
    <3>2. DOMAIN r.items = 1 .. Len(r.items) /\ Len(r.items) \in Nat
      BY <3>1
    <3>3. IsFiniteSet(1 .. Len(r.items))
      BY <3>2, FS_Interval
    <3> QED BY <3>2, <3>3, FS_Subset
  <2> DEFINE F == [i \in done |-> Target(h, r, i)]
  <2>2. F \in Surjection(done, to)
    BY <1>6 DEF Surjection
  <2> HIDE DEF F
  <2> QED BY <2>1, <2>2, FS_Surjection
<1>21. GoodTree(h, u, node')
  <2>1. PICK nodes : nodes = node'
    OBVIOUS
  <2>2. GoodTree(h, t, nodes)
    BY <1>11, <1>18, <2>1, GrownTree
  <2>3. \A q \in to \ DOMAIN t :
           /\ q # <<>> /\ Front(q) \in DOMAIN t /\ nodes[t[Front(q)]].kind = "dir"
           /\ u[q] \in DOMAIN nodes /\ u[q][1] = h
           /\ \A p \in DOMAIN t : t[p] # u[q]
           /\ \A p \in to \ DOMAIN t : u[p] = u[q] => p = q
    <3> SUFFICES ASSUME NEW q \in to \ DOMAIN t
                 PROVE  /\ q # <<>> /\ Front(q) \in DOMAIN t /\ nodes[t[Front(q)]].kind = "dir"
                        /\ u[q] \in DOMAIN nodes /\ u[q][1] = h
                        /\ \A p \in DOMAIN t : t[p] # u[q]
                        /\ \A p \in to \ DOMAIN t : u[p] = u[q] => p = q
      OBVIOUS
    <3>1. q # <<>> /\ Front(q) \in DOMAIN t /\ node[t[Front(q)]].kind = "dir"
      BY <1>8, <1>13 DEF Creatable, IsDir, Exists, At
    <3>2. nodes[t[Front(q)]].kind = "dir"
      BY <1>11, <1>18, <2>1, <3>1 DEF Grown, GoodTree
    <3>3. u[q] \in DOMAIN nodes
      BY <1>17, <2>1
    <3>4. u[q] = ids[q] /\ \A p \in to \ DOMAIN t : u[p] = ids[p]
      BY <1>10
    <3>5. \A p \in DOMAIN t : t[p] \in DOMAIN node
      BY <1>11 DEF GoodTree
    <3> QED BY <1>12, <1>14, <3>1, <3>2, <3>3, <3>4, <3>5
  <2>4. GoodTree(h, u, nodes)
    BY <1>10, <1>13, <1>20, <2>2, <2>3, Added
  <2> QED BY <2>1, <2>4
<1>22. ServerInv'
  <2>1. \A g \in Hosts : g # h => GoodTree(g, tree[g], node')
    BY <1>2, <1>18, GrownTree DEF ServerInv
  <2>2. \A g \in Hosts : GoodTree(g, tree'[g], node')
    BY <1>8, <1>10, <1>21, <2>1
  <2> QED BY <1>10, <1>19, <2>2 DEF ServerInv
<1>23. ASSUME NEW g \in Hosts, NEW q \in Paths
       PROVE  SameAt(g, q) \/ (g = h /\ \E x \in to : IsPrefix(x, q))
  <2>1. CASE g = h /\ q \in to
    BY <2>1, PathFacts
  <2>2. CASE ~(g = h /\ q \in to)
    <3>1. q \in DOMAIN tree'[g] <=> q \in DOMAIN tree[g]
      BY <1>8, <1>10, <2>2
    <3>2. ASSUME q \in DOMAIN tree[g]
          PROVE  tree'[g][q] = tree[g][q] /\ node'[tree[g][q]] = node[tree[g][q]]
      <4>1. tree'[g][q] = tree[g][q]
        BY <1>8, <1>10, <3>2
      <4>2. tree[g][q] \in DOMAIN node
        BY <1>2, <3>2, NodeAt
      <4>3. \A x \in to : u[x] # tree[g][q]
        <5> SUFFICES ASSUME NEW x \in to, u[x] = tree[g][q] PROVE FALSE
          OBVIOUS
        <5>1. x \in DOMAIN t
          BY <1>10, <1>14, <4>2
        <5>2. tree[h][x] = tree[g][q]
          BY <1>8, <1>10, <5>1
        <5> QED BY <1>2, <1>3, <1>8, <2>2, <3>2, <5>1, <5>2, OnePath
      <4> QED BY <1>17, <4>1, <4>2, <4>3
    <3> QED BY <3>1, <3>2, SameWhere
  <2> QED BY <2>1, <2>2
<1>24. Server(c, h, to)
  <2>1. req[c].op # "changePerm"
    BY <1>2
  <2> QED BY <1>3, <1>9, <1>13, <1>18, <1>23, <2>1 DEF Server
<1>25. Copied(c, h, done)
  <2>1. \A q \in to \ DOMAIN tree[h] : tree'[h][q] = <<h, c, q>>
    <3>1. \A q \in to : ids[q] = <<h, c, q>>
      BY <1>7
    <3>2. \A q \in to \ DOMAIN tree[h] : q \in to /\ tree'[h][q] = ids[q]
      BY <1>8, <1>10
    <3> QED BY <3>1, <3>2, Zenon
  <2>2. /\ ServerInv' /\ Server(c, h, to)
        /\ DOMAIN tree'[h] = DOMAIN tree[h] \cup to
        /\ \A q \in DOMAIN tree[h] : tree'[h][q] = tree[h][q]
        /\ \A q \in to : node'[tree'[h][q]].kind = "file"
        /\ DOMAIN node' = DOMAIN node \cup {tree'[h][q] : q \in to}
    BY <1>8, <1>10, <1>16, <1>17, <1>22, <1>24
  <2>3. done \subseteq {i \in DOMAIN r.items : Copyable(h, r, i)}
    BY <1>5
  <2> QED BY <1>6, <2>1, <2>2, <2>3 DEF Copied, r
<1>26. IF done = DOMAIN req[c].items THEN Continue(c, <<>>) ELSE GiveUp(c)
  BY <1>5 DEF r
<1> QED BY <1>2, <1>3, <1>3, <1>25, <1>26, Zenon DEF h

(* Whatever a call does next: a sound server, changes that are noted, and no
   nodes but its own. *)
LEMMA ServeEffect ==
    ASSUME NEW c, Sound(c), Serve(c)
    PROVE  /\ ServerInv' /\ \E h, P : Server(c, h, P)
           /\ \A n \in DOMAIN node' : n \in DOMAIN node \/ n[2] = c
<1>0. ServerInv
  BY DEF Sound
<1>1. \A h, p : <<h, c, p>>[2] = c
  OBVIOUS
<1>2. CASE tree' = tree /\ node' = node /\ changes' = changes
  <2>1. ServerInv' /\ Server(c, sftp, {})
    BY <1>0, <1>2, Quiet
  <2> QED BY <1>2, <2>1
<1>3. CASE Fails(c) \/ Panic(c) \/ Lstat(c) \/ ReadDir(c) \/ RealPath(c) \/ Open(c) \/ Read(c) \/ Close(c)
  BY <1>2, <1>3 DEF Fails, Panic, Lstat, ReadDir, RealPath, Open, Read, Close, srvVars, histVars
<1>4. CASE Mkdir(c)
  <2>1. PICK p, h : p = Path(c) /\ h = sftp
    OBVIOUS
  <2>2. \/ /\ ServerInv' /\ Server(c, h, {p})
           /\ DOMAIN node' = DOMAIN node \cup {<<h, c, p>>}
        \/ tree' = tree /\ node' = node /\ changes' = changes
    BY <1>4, <2>1, MkdirEffect
  <2>3. CASE /\ ServerInv' /\ Server(c, h, {p})
             /\ DOMAIN node' = DOMAIN node \cup {<<h, c, p>>}
    BY <1>1, <2>3, Zenon
  <2> QED BY <1>2, <2>2, <2>3
<1>5. CASE DoRemove(c)
  <2>1. PICK p, h : p = Path(c) /\ h = sftp
    OBVIOUS
  <2>2. ServerInv' /\ Server(c, h, {p}) /\ node' = node
    BY <1>5, <2>1, RemoveEffect
  <2> QED BY <2>2
<1>6. CASE DoRename(c)
  <2>1. PICK s, d, h : s = Path(c) /\ d = Head(todo[c]).to /\ h = sftp
    OBVIOUS
  <2>2. ServerInv' /\ Server(c, h, {s, d}) /\ node' = node
    BY <1>6, <2>1, RenameEffect
  <2> QED BY <2>2
<1>7. CASE Chmod(c)
  <2>1. PICK h : h = sftp
    OBVIOUS
  <2>2. PICK p : p = Follow(h, Path(c))
    OBVIOUS
  <2>3. ServerInv' /\ Server(c, h, {p}) /\ DOMAIN node' = DOMAIN node
    BY <1>7, <2>1, <2>2, ChmodEffect DEF WasChmod
  <2> QED BY <2>3
<1>8. CASE OpenToWrite(c)
  <2>1. PICK h : h = sftp
    OBVIOUS
  <2>2. PICK p : p = Follow(h, Path(c))
    OBVIOUS
  <2>3. ServerInv' /\ Server(c, h, {p}) /\ Emptied(c, h, p)
    BY <1>8, <2>1, <2>2, OpenEffect
  <2>4. ASSUME NEW id, NEW n, id = <<h, c, p>>, WasPut(c, h, p, id, n)
        PROVE  \A m \in DOMAIN node' : m \in DOMAIN node \/ m[2] = c
    <3>1. id[2] = c
      BY <1>1, <2>4
    <3> QED BY <2>4, <3>1 DEF WasPut
  <2> QED BY <2>3, <2>4 DEF Emptied
<1>9. CASE Write(c)
  <2>1. PICK f : f = file[c]
    OBVIOUS
  <2>2. PICK P : P = {p \in DOMAIN tree[f.host] : tree[f.host][p] = f.id}
    OBVIOUS
  <2>3. ServerInv' /\ Server(c, f.host, P) /\ DOMAIN node' = DOMAIN node
    BY <1>9, <2>1, <2>2, WriteEffect
  <2> QED BY <2>3
<1>10. CASE RunCp(c)
  <2>1. PICK h, r : h = ssh /\ r = req[c]
    OBVIOUS
  <2>2. PICK done : Copied(c, h, done)
    BY <1>10, <2>1, CopyEffect
  <2>3. PICK to : to = {Target(h, r, i) : i \in done}
    OBVIOUS
  <2>4. /\ ServerInv' /\ Server(c, h, to)
        /\ DOMAIN node' = DOMAIN node \cup {tree'[h][q] : q \in to}
        /\ \A q \in to \ DOMAIN tree[h] : tree'[h][q] = <<h, c, q>>
        /\ \A q \in DOMAIN tree[h] : tree'[h][q] = tree[h][q]
    BY <2>1, <2>2, <2>3 DEF Copied
  <2>5. \A q \in to \ DOMAIN tree[h] : tree'[h][q][2] = c
    BY <1>1, <2>4
  <2>6. \A q \in DOMAIN tree[h] : tree'[h][q] \in DOMAIN node
    <3>1. h \in Hosts
      BY <1>10, <2>1, CopyEffect
    <3> QED BY <1>0, <2>4, <3>1, NodeAt
  <2>7. \A n \in DOMAIN node' : n \in DOMAIN node \/ n[2] = c
    BY <2>4, <2>5, <2>6
  <2> QED BY <2>4, <2>7
<1> QED
  BY <1>3, <1>4, <1>5, <1>6, <1>7, <1>8, <1>9, <1>10 DEF Serve

-----------------------------------------------------------------------------
(* Calls that wait. *)

(* A step of others does not disturb a call, given that what it wrote is kept
   or excused. *)
LEMMA CallStays ==
    ASSUME NEW x, Relies(x), CallInv(x),
           Active(x) /\ req[x].op \in Writers /\ file[x] # NoFile /\ (Kept(x) \/ ExcusedBy(x)) =>
              Kept(x)' \/ ExcusedBy(x)'
    PROVE  CallInv(x)'
<1> SUFFICES ASSUME Active(x) PROVE CallInv(x)'
  BY ReliesFacts DEF CallInv, Active
<1>1. /\ req'[x] = req[x] /\ todo'[x] = todo[x] /\ ans'[x] = ans[x] /\ file'[x] = file[x]
  BY ReliesFacts
<1>2. req[x].op = "list" /\ ans[x] = "running" => todo[x] = <<Req("readdir", req[x].path)>>
  BY DEF CallInv
<1>3. req[x].op = "rename" => RenameInv(x)'
  BY RenameStays DEF CallInv
<1>4. req[x].op = "move" => MoveInv(x)'
  BY MoveStays DEF CallInv
<1>5. req[x].op = "copy" => CopyInv(x)'
  BY CopyStays DEF CallInv
<1>6. req[x].op = "delete" => DeleteInv(x)'
  BY DeleteStays DEF CallInv
<1>7. req[x].op = "createFolder" => FolderInv(x)'
  BY FolderStays DEF CallInv
<1>8. req[x].op = "changePerm" => ChmodInv(x)'
  BY ChmodStays DEF CallInv
<1>9. req[x].op \in Readers => ReadInv(x)'
  BY ReadStays DEF CallInv
<1>10. ASSUME req[x].op \in Writers PROVE WriteInv(x)'
  <2>1. WriteInv(x)
    BY <1>10 DEF CallInv
  <2>2. CASE file[x] = NoFile
    BY <1>1, <2>1, <2>2, UnopenedStays DEF WriteInv
  <2>3. CASE file[x] # NoFile
    <3>1. Writing(x)'
      BY <1>1, <2>1, <2>3 DEF WriteInv, Writing
    <3> QED BY <1>1, <1>10, <2>1, <2>3, <3>1 DEF WriteInv
  <2> QED BY <2>2, <2>3
<1> QED
  BY <1>1, <1>2, <1>3, <1>4, <1>5, <1>6, <1>7, <1>8, <1>9, <1>10 DEF CallInv

-----------------------------------------------------------------------------
(* The steps of a call itself. *)

(* A step of a call changes neither its request, nor the clients, nor what
   others did to it. *)
LEMMA OwnFrame ==
    ASSUME NEW c, Sound(c), Serve(c)
    PROVE  /\ Acts(c) /\ ServerInv' /\ c \in Calls /\ ans[c] = "running" /\ Active(c) /\ Begun(c)
           /\ req'[c] = req[c] /\ home'[c] = home[c] /\ replaced' = replaced /\ changes'[c] = changes[c]
           /\ sftp' = sftp /\ ssh' = ssh
           /\ home[c] \in Hosts /\ req[c] \in Requests
           /\ \A g, p : Disturbed(c, g, p)' <=> Disturbed(c, g, p)
<1>1. Acts(c) /\ ServerInv' /\ c \in Calls
  BY ServeActs, ServeEffect DEF Sound
<1>2. changes'[c] = changes[c]
  BY <1>1, ServeEffect DEF Server, Noted
<1>3. req'[c] = req[c] /\ home'[c] = home[c] /\ replaced' = replaced /\ sftp' = sftp /\ ssh' = ssh
      /\ \A x \in Calls : req'[x] = req[x]
  BY <1>1 DEF Acts
<1>4. \A e \in changes[c] : e.by \in Calls
  BY DEF Sound, CallTyped
<1>5. ASSUME NEW g, NEW p PROVE Disturbed(c, g, p)' <=> Disturbed(c, g, p)
  BY <1>2, <1>3, <1>4 DEF Disturbed
<1>6. ans[c] = "running" /\ Active(c) /\ Begun(c) /\ home[c] \in Hosts /\ req[c] \in Requests
  BY <1>1 DEF Acts, Active, Begun, Sound, CallTyped
<1> QED BY <1>1, <1>2, <1>3, <1>5, <1>6

(* It fails, or the page crashes. *)
LEMMA OwnIdle ==
    ASSUME NEW c, Sound(c), Fails(c) \/ Panic(c)
    PROVE  CallInv(c)'
<1>0. Serve(c)
  BY DEF Serve
<1>1. /\ tree' = tree /\ node' = node /\ changes' = changes /\ req' = req /\ file' = file /\ size' = size
      /\ got' = got /\ home' = home /\ replaced' = replaced /\ overlap' = overlap
  BY DEF Fails, Panic, cliVars, srvVars, callVars, histVars
<1>2. CASE ans'[c] = "error"
  BY <1>2 DEF CallInv, Active
<1>3. CASE ans' = ans /\ todo' = todo
  <2>1. Keeps(c)
    BY <1>1, <1>3 DEF Keeps
  <2>2. Watch(c)
    <3>1. \A g \in Hosts, p \in Paths : SameAt(g, p) /\ SoftAt(g, p)
      BY <1>1, SameWhere
    <3>2. \A g, p : Disturbed(c, g, p)' <=> Disturbed(c, g, p)
      BY <1>0, OwnFrame
    <3> QED BY <3>1, <3>2 DEF Watch
  <2>3. Relies(c)
    <3>1. ServerInv' /\ Begun(c) /\ c \in Calls
      BY <1>0, OwnFrame
    <3>2. CallTyped(c)
      BY DEF Sound
    <3>3. Grown(node, node')
      BY <1>1 DEF Grown
    <3>4. \A e \in changes'[c] : e.path \in Paths
      BY <1>1, <3>2 DEF CallTyped
    <3> QED BY <1>1, <2>1, <2>2, <3>1, <3>2, <3>3, <3>4 DEF Relies
  <2>4. Kept(c) => Kept(c)'
    BY <1>1 DEF Kept, Exists
  <2>5. ExcusedBy(c) => ExcusedBy(c)'
    BY <1>1 DEF ExcusedBy, Excused, Raced, UsedUp, Disturbed, Exists
  <2>6. CallInv(c)
    BY DEF Sound
  <2> QED BY <2>3, <2>4, <2>5, <2>6, CallStays
<1>4. ans'[c] = "error" \/ (ans' = ans /\ todo' = todo)
  <2>1. CASE Panic(c)
    BY <2>1 DEF Panic, callVars
  <2>2. CASE Fails(c)
    BY <2>2 DEF Fails, GiveUp, Sound, Doms
  <2> QED BY <2>1, <2>2
<1> QED BY <1>2, <1>3, <1>4

(* The answer to the only request. *)
LEMMA OnlyOne ==
    ASSUME NEW c, Sound(c), NEW x, todo[c] = <<x>>, Continue(c, <<>>)
    PROVE  todo'[c] = <<>> /\ ans'[c] = "ok" /\ Head(todo[c]) = x
<1>1. Tail(<<x>>) = <<>> /\ Head(<<x>>) = x /\ <<>> \o <<>> = <<>>
  OBVIOUS
<1>2. c \in Calls /\ DOMAIN todo = Calls /\ DOMAIN ans = Calls
  BY DEF Sound, Doms
<1> QED BY <1>1, <1>2 DEF Continue

(* The step of a rename. *)
LEMMA RenameOwn ==
    ASSUME NEW c, Sound(c), DoRename(c), req[c].op = "rename"
    PROVE  RenameInv(c)'
<1>0. Serve(c)
  BY DEF Serve
<1>1. RenameInv(c) /\ CallInv(c) /\ OnHome(c)
  BY <1>0, OwnFrame DEF Sound, CallInv
<1>2. PICK s, d, h : s = req[c].items[1] /\ d = req[c].path /\ h = sftp
  OBVIOUS
<1>3. todo[c] = <<RenameTo(s, d)>>
  BY <1>0, <1>1, <1>2, OwnFrame DEF RenameInv
<1>4. todo'[c] = <<>> /\ ans'[c] = "ok" /\ Head(todo[c]) = RenameTo(s, d)
  BY <1>3, OnlyOne DEF DoRename
<1>5. Path(c) = s /\ Head(todo[c]).to = d
  BY <1>4 DEF Path, RenameTo
<1>6. /\ \A q \in DOMAIN tree'[h] : ~IsPrefix(s, q)
      /\ d \in DOMAIN tree'[h] /\ s \in DOMAIN tree[h] /\ h \in Hosts
  <2>1. WasMoved(h, s, d)
    BY <1>2, <1>5, RenameEffect
  <2> QED BY <2>1 DEF WasMoved
<1>7. s \notin DOMAIN tree'[h]
  <2>1. s \in Paths
    BY <1>6, NodeAt DEF Sound
  <2> QED BY <1>6, <2>1, PathFacts
<1>8. c \notin replaced => home[c] = h
  BY <1>0, <1>1, <1>2, OwnFrame DEF OnHome
<1>9. home'[c] = home[c] /\ req'[c] = req[c] /\ replaced' = replaced
  BY <1>0, OwnFrame
<1> QED BY <1>2, <1>4, <1>6, <1>7, <1>8, <1>9 DEF RenameInv, Exists

(* The step of createFolder. *)
LEMMA FolderOwn ==
    ASSUME NEW c, Sound(c), Mkdir(c), req[c].op = "createFolder"
    PROVE  FolderInv(c)'
<1>0. Serve(c)
  BY DEF Serve
<1>1. FolderInv(c) /\ CallInv(c) /\ OnHome(c)
  BY <1>0, OwnFrame DEF Sound, CallInv
<1>2. PICK p, h : p = req[c].path /\ h = sftp
  OBVIOUS
<1>3. todo[c] = <<Req("mkdir", p)>>
  BY <1>0, <1>1, <1>2, OwnFrame DEF FolderInv
<1>4. todo'[c] = <<>> /\ ans'[c] = "ok" /\ Head(todo[c]) = Req("mkdir", p)
  BY <1>3, OnlyOne DEF Mkdir
<1>5. Path(c) = p
  BY <1>4 DEF Path, Req
<1>6. IsDir(h, p)'
  <2>1. IsDir(h, p)' \/ (IsDir(h, p) /\ tree' = tree /\ node' = node)
    BY <1>2, <1>5, MkdirEffect
  <2> QED BY <2>1 DEF IsDir, Exists, At
<1>7. c \notin replaced => home[c] = h
  BY <1>0, <1>1, <1>2, OwnFrame DEF OnHome
<1>8. home'[c] = home[c] /\ req'[c] = req[c] /\ replaced' = replaced
  BY <1>0, OwnFrame
<1> QED BY <1>2, <1>4, <1>6, <1>7, <1>8 DEF FolderInv, IsDir, Exists, At

(* The step of a copy. *)
LEMMA CopyOwn ==
    ASSUME NEW c, Sound(c), RunCp(c)
    PROVE  ~Active(c)' \/ CopyInv(c)'
<1>0. Serve(c)
  BY DEF Serve
<1>1. PICK h, r : h = ssh /\ r = req[c]
  OBVIOUS
<1>2. h \in Hosts /\ r \in Requests /\ r.op = "copy"
  BY <1>1, CopyEffect
<1>3. PICK done : Copied(c, h, done) /\ IF done = DOMAIN r.items THEN Continue(c, <<>>) ELSE GiveUp(c)
  BY <1>1, CopyEffect
<1>4. CopyInv(c) /\ OnHome(c)
  BY <1>0, <1>1, <1>2, OwnFrame DEF Sound, CallInv
<1>5. CASE done # DOMAIN r.items
  <2>1. ans'[c] = "error"
    BY <1>0, <1>3, <1>5, OwnFrame DEF GiveUp, Sound, Doms
  <2> QED BY <2>1 DEF Active
<1>6. CASE done = DOMAIN r.items
  <2>1. PICK x : todo[c] = <<x>>
    BY <1>0, <1>4, OwnFrame DEF CopyInv
  <2>2. todo'[c] = <<>> /\ ans'[c] = "ok"
    BY <1>3, <1>6, <2>1, OnlyOne
  <2>3. c \notin replaced => home[c] = h
    BY <1>0, <1>1, <1>2, <1>4, OwnFrame DEF OnHome
  <2>4. home'[c] = home[c] /\ req'[c] = r /\ replaced' = replaced
    BY <1>0, <1>1, OwnFrame
  <2>5. PICK to : to = {Target(h, r, i) : i \in done}
    OBVIOUS
  <2>6. /\ DOMAIN tree'[h] = DOMAIN tree[h] \cup to
        /\ \A q \in DOMAIN tree[h] : tree'[h][q] = tree[h][q]
        /\ \A q \in to : node'[tree'[h][q]].kind = "file"
        /\ Server(c, h, to)
    BY <1>1, <1>3, <2>5 DEF Copied
  <2>7. ASSUME NEW i \in DOMAIN r.items, NEW pp, pp = Target(h, r, i)'
        PROVE  pp \in DOMAIN tree'[h]
    <3>1. Target(h, r, i) \in to
      BY <1>6, <2>5
    <3>2. CASE Dst(r) \in DOMAIN tree[h]
      <4>1. tree[h][Dst(r)] \in DOMAIN node
        BY <1>2, <3>2, NodeAt DEF Sound
      <4>2. node'[tree[h][Dst(r)]].kind = node[tree[h][Dst(r)]].kind
        BY <2>6, <4>1 DEF Server, Grown
      <4>3. pp = Target(h, r, i)
        <5>1. Dst(r) \in DOMAIN tree'[h] /\ tree'[h][Dst(r)] = tree[h][Dst(r)]
          BY <2>6, <3>2
        <5>2. Dst(r)' = Dst(r)
          BY DEF Dst
        <5>3. IsDir(h, Dst(r))' <=> IsDir(h, Dst(r))
          BY <3>2, <4>2, <5>1, <5>2 DEF IsDir, Exists, At
        <5> QED BY <2>7, <5>2, <5>3 DEF Target
      <4> QED BY <2>6, <3>1, <4>3
    <3>3. CASE Dst(r) \notin DOMAIN tree[h]
      <4>1. Target(h, r, i) = Dst(r)
        BY <3>3 DEF Target, IsDir, Exists
      <4>2. Dst(r) \in DOMAIN tree'[h] /\ node'[tree'[h][Dst(r)]].kind = "file"
        BY <2>6, <3>1, <4>1
      <4>3. pp = Dst(r)
        BY <2>7, <4>2 DEF Target, Dst, IsDir, Exists, At
      <4> QED BY <4>2, <4>3
    <3> QED BY <3>2, <3>3
  <2>8. \A i \in DOMAIN r.items : Exists(h, Target(h, r, i))'
    BY <2>7 DEF Exists
  <2> QED BY <2>2, <2>3, <2>4, <2>8 DEF CopyInv
<1> QED BY <1>5, <1>6

(* The requests t to come, after an answer that adds more to s. *)
Spliced(more, s, t) ==
    /\ t \in Seq(Todos) /\ Len(t) = Len(more) + Len(s) - 1
    /\ \A i \in DOMAIN more : i \in DOMAIN t /\ t[i] = more[i]
    /\ \A i \in DOMAIN s : i > 1 => Len(more) + i - 1 \in DOMAIN t /\ t[Len(more) + i - 1] = s[i]
    /\ \A j \in DOMAIN t :
          \/ j \in DOMAIN more /\ t[j] = more[j]
          \/ j > Len(more) /\ j - Len(more) + 1 \in DOMAIN s /\ t[j] = s[j - Len(more) + 1]

LEMMA ConcatTail ==
    ASSUME NEW more \in Seq(Todos), NEW s \in Seq(Todos), s # <<>>, NEW t, t = more \o Tail(s)
    PROVE  Spliced(more, s, t)
<1>1. Len(s) \in Nat /\ Len(s) > 0 /\ Len(more) \in Nat
  OBVIOUS
<1>2. PICK r \in Seq(Todos) :
         r = Tail(s) /\ Len(r) = Len(s) - 1 /\ \A i \in 1 .. Len(s) - 1 : r[i] = s[i + 1]
  <2>1. /\ Tail(s) \in Seq(Todos) /\ Len(Tail(s)) = Len(s) - 1
        /\ \A i \in 1 .. Len(s) - 1 : Tail(s)[i] = s[i + 1]
    BY <1>1
  <2> QED BY <2>1, Zenon
<1>3. PICK u \in Seq(Todos) :
         /\ u = more \o r /\ Len(u) = Len(more) + Len(r)
         /\ \A i \in 1 .. Len(more) : u[i] = more[i]
         /\ \A i \in 1 .. Len(r) : u[Len(more) + i] = r[i]
  <2>1. /\ more \o r \in Seq(Todos) /\ Len(more \o r) = Len(more) + Len(r)
        /\ \A i \in 1 .. Len(more) : (more \o r)[i] = more[i]
        /\ \A i \in 1 .. Len(r) : (more \o r)[Len(more) + i] = r[i]
    BY <1>2, Concat
  <2> QED BY <2>1, Zenon
<1>4. t = u
  BY <1>2, <1>3
<1>5. /\ DOMAIN s = 1 .. Len(s) /\ DOMAIN more = 1 .. Len(more) /\ DOMAIN u = 1 .. Len(u)
      /\ Len(u) = Len(more) + Len(s) - 1
  BY <1>1, <1>2, <1>3
<1>6. ASSUME NEW i \in DOMAIN s, i > 1
      PROVE  Len(more) + i - 1 \in DOMAIN u /\ u[Len(more) + i - 1] = s[i]
  <2>1. PICK k \in Nat : i = k + 1 /\ k \in 1 .. Len(s) - 1
    <3>1. i - 1 \in Nat /\ i = (i - 1) + 1 /\ i - 1 \in 1 .. Len(s) - 1
      <4>1. i \in 1 .. Len(s)
        BY <1>5
      <4> QED BY <1>1, <1>6, <4>1
    <3> QED BY <3>1, Zenon
  <2>2. u[Len(more) + k] = s[k + 1] /\ Len(more) + k \in DOMAIN u
    BY <1>1, <1>2, <1>3, <1>5, <2>1
  <2>3. Len(more) + i - 1 = Len(more) + k
    BY <1>1, <2>1
  <2> QED BY <2>1, <2>2, <2>3
<1>7. ASSUME NEW j \in DOMAIN u
      PROVE  \/ j \in DOMAIN more /\ u[j] = more[j]
             \/ j > Len(more) /\ j - Len(more) + 1 \in DOMAIN s /\ u[j] = s[j - Len(more) + 1]
  <2>1. CASE j <= Len(more)
    BY <1>1, <1>3, <1>5, <2>1
  <2>2. CASE ~(j <= Len(more))
    <3>1. PICK k \in Nat : k = j - Len(more) /\ k \in 1 .. Len(s) - 1 /\ j = Len(more) + k
      <4>1. j - Len(more) \in Nat /\ j - Len(more) \in 1 .. Len(s) - 1 /\ j = Len(more) + (j - Len(more))
        BY <1>1, <1>5, <2>2
      <4> QED BY <4>1, Zenon
    <3>2. u[j] = s[k + 1] /\ k + 1 \in DOMAIN s
      BY <1>1, <1>2, <1>3, <1>5, <3>1
    <3>3. j - Len(more) + 1 = k + 1 /\ j > Len(more)
      BY <1>1, <3>1
    <3> QED BY <3>2, <3>3
  <2> QED BY <2>1, <2>2
<1>8. \A i \in DOMAIN more : i \in DOMAIN u /\ u[i] = more[i]
  BY <1>1, <1>3, <1>5
<1> QED BY <1>3, <1>4, <1>5, <1>6, <1>7, <1>8 DEF Spliced

(* The requests left after a step: what it adds, then the old ones but the
   first. *)
LEMMA ContinueElems ==
    ASSUME NEW c, Sound(c), ans[c] = "running", NEW more \in Seq(Todos), Continue(c, more)
    PROVE  /\ Spliced(more, todo[c], todo'[c])
           /\ ans'[c] = IF todo'[c] = <<>> THEN "ok" ELSE "running"
<1>1. c \in Calls /\ DOMAIN todo = Calls /\ DOMAIN ans = Calls /\ todo[c] \in Seq(Todos) /\ todo[c] # <<>>
  BY DEF Sound, Doms, CallTyped
<1>2. PICK s, t : s = todo[c] /\ t = more \o Tail(s)
  OBVIOUS
<1>3. todo'[c] = t /\ ans'[c] = IF t = <<>> THEN "ok" ELSE "running"
  BY <1>1, <1>2 DEF Continue
<1>4. Spliced(more, s, t)
  <2>1. s \in Seq(Todos) /\ s # <<>>
    BY <1>1, <1>2
  <2> QED BY <1>2, <2>1, ConcatTail
<1> QED BY <1>2, <1>3, <1>4

(* SetToSeq lists the members of a finite set. *)
LEMMA SetToSeqFacts ==
    ASSUME NEW S, IsFiniteSet(S)
    PROVE  /\ SetToSeq(S) \in Seq(S)
           /\ \A x \in S : \E i \in DOMAIN SetToSeq(S) : SetToSeq(S)[i] = x
<1>1. PICK n \in Nat : n = Cardinality(S) /\ ExistsBijection(1 .. n, S)
  <2>1. Cardinality(S) \in Nat /\ ExistsBijection(1 .. Cardinality(S), S)
    BY FS_CardinalityType, Zenon
  <2> QED BY <2>1, Zenon
<1>2. PICK g \in [1 .. n -> S] : IsInjective(g)
  BY <1>1 DEF ExistsBijection, Bijection, Injection
<1>3. PICK f : f = SetToSeq(S)
  OBVIOUS
<1>4. f \in [1 .. n -> S] /\ IsInjective(f)
  BY <1>1, <1>2, <1>3, Zenon DEF SetToSeq
<1>5. f \in Injection(1 .. n, S)
  BY <1>4 DEF Injection
<1>6. Cardinality(1 .. n) = n
  BY <1>1, FS_Interval
<1>7. f \in Surjection(1 .. n, S)
  BY <1>1, <1>5, <1>6, FS_Injection, Zenon
<1>8. \A x \in S : \E i \in DOMAIN f : f[i] = x
  BY <1>4, <1>7 DEF Surjection
<1>9. f \in Seq(S)
  BY <1>4
<1> QED BY <1>3, <1>8, <1>9

(* The requests for what a directory holds. *)
ForEach(h, p, do, more) ==
    /\ more \in Seq(Todos) /\ \A i \in DOMAIN more : more[i].do = do
    /\ \A q \in Children(h, p) : \E i \in DOMAIN more : more[i].do = do /\ more[i].path = q

(* One request for every entry of a directory. *)
LEMMA TakenFacts ==
    ASSUME ServerInv, NEW h \in Hosts, NEW p \in Paths, NEW do \in Dos, NEW S,
           S = {Req(do, Append(p, n)) : n \in Taken(h, p)}
    PROVE  ForEach(h, p, do, SetToSeq(S))
<1>1. IsFiniteSet(DOMAIN tree[h]) /\ DOMAIN tree[h] \subseteq Paths
  BY DEF ServerInv, GoodTree
<1>2. IsFiniteSet(Children(h, p))
  BY <1>1, FS_Subset DEF Children
<1>3. \A q \in Children(h, p) : q \in Seq(Entries) /\ q # <<>> /\ Front(q) = p
  BY <1>1 DEF Children, Paths
<1>4. \A q \in Children(h, p) : Last(q) \in Entries /\ Append(p, Last(q)) = q
  BY <1>3, FrontFacts
<1> DEFINE C == Children(h, p)
           F == [q \in C |-> Req(do, Append(p, Last(q)))]
<1>5. F \in Surjection(C, S)
  <2>1. \A n \in Taken(h, p) : \E q \in C : Last(q) = n
    BY DEF Taken
  <2>2. \A q \in C : Last(q) \in Taken(h, p)
    BY DEF Taken
  <2>3. \A x \in S : \E q \in C : F[q] = x
    BY <2>1
  <2>4. \A q \in C : F[q] \in S
    BY <2>2
  <2>5. F \in [C -> S]
    <3> HIDE DEF C
    <3> QED BY <2>4
  <2> QED BY <2>3, <2>5 DEF Surjection
<1>6. IsFiniteSet(S)
  <2> HIDE DEF F, C
  <2> QED BY <1>2, <1>5, FS_Surjection DEF C
<1>7. \A q \in C : F[q] \in S /\ F[q].do = do /\ F[q].path = q
  BY <1>4, <1>5 DEF Surjection, Req
<1>8. ASSUME NEW x \in S PROVE x \in Todos /\ x.do = do
  <2>1. PICK q \in C : x = Req(do, Append(p, Last(q)))
    BY DEF Taken
  <2>2. Append(p, Last(q)) = q /\ q \in Paths
    BY <1>1, <1>4 DEF Children
  <2> QED BY <2>1, <2>2 DEF Req, Todos
<1> HIDE DEF F, C
<1>9. PICK f : f = SetToSeq(S)
  OBVIOUS
<1>10. f \in Seq(S) /\ \A x \in S : \E i \in DOMAIN f : f[i] = x
  BY <1>6, <1>9, SetToSeqFacts
<1>11. \A i \in DOMAIN f : f[i] \in S
  BY <1>10
<1>12. f \in Seq(Todos)
  BY <1>8, <1>10
<1>13. ASSUME NEW q \in C
       PROVE  \E i \in DOMAIN f : f[i].do = do /\ f[i].path = q
  <2>1. F[q] \in S /\ F[q].do = do /\ F[q].path = q
    BY <1>7
  <2> QED BY <1>10, <2>1
<1> QED BY <1>8, <1>9, <1>11, <1>12, <1>13 DEF C, ForEach

(* Requests that were ahead of a call are ahead or just made. *)
LEMMA AheadStays ==
    ASSUME NEW c, Sound(c), ans[c] = "running", NEW more \in Seq(Todos), Continue(c, more)
    PROVE  /\ \A q : Ahead(c, q) => Ahead(c, q)' \/ q = Path(c)
           /\ \A i \in DOMAIN more : Ahead(c, more[i].path)'
<1>1. Path(c) = todo[c][1].path
  BY HeadFacts DEF Sound
<1>2. PICK n \in Nat : n = Len(more)
  <2>1. Len(more) \in Nat
    OBVIOUS
  <2> QED BY <2>1, Zenon
<1>3. todo[c] \in Seq(Todos)
  BY DEF Sound, CallTyped
<1>4. \A i \in DOMAIN more : i \in DOMAIN todo'[c] /\ todo'[c][i] = more[i]
  BY ContinueElems DEF Spliced
<1>5. \A i \in DOMAIN todo[c] : i > 1 =>
         Len(more) + i - 1 \in DOMAIN todo'[c] /\ todo'[c][Len(more) + i - 1] = todo[c][i]
  BY ContinueElems DEF Spliced
<1>6. ASSUME NEW q, Ahead(c, q), q # Path(c) PROVE Ahead(c, q)'
  <2>1. PICK j \in DOMAIN todo[c] : todo[c][j].path = q
    BY <1>6 DEF Ahead
  <2>2. j > 1
    <3>1. j \in Nat /\ j >= 1 /\ j # 1
      BY <1>1, <1>3, <1>6, <2>1
    <3> QED BY <3>1
  <2> QED BY <1>5, <2>1, <2>2 DEF Ahead
<1> QED BY <1>4, <1>6 DEF Ahead

(* The steps of a delete: what it goes past is gone or has a request ahead. *)
LEMMA DeleteOwn ==
    ASSUME NEW c, Sound(c), req[c].op = "delete", Lstat(c) \/ ReadDir(c) \/ DoRemove(c)
    PROVE  DeleteInv(c)'
<1>0. Serve(c)
  BY DEF Serve
<1>1. PICK p, h, r, s : p = Path(c) /\ h = sftp /\ r = req[c] /\ s = home[c]
  OBVIOUS
<1>2. /\ ans[c] = "running" /\ req'[c] = r /\ home'[c] = s /\ replaced' = replaced
      /\ \A g, q : Disturbed(c, g, q)' <=> Disturbed(c, g, q)
  BY <1>0, <1>1, OwnFrame
<1>3. p \in Paths
  BY <1>1, <1>2, HeadFacts DEF Sound
<1>4. DeleteInv(c) /\ (c \notin replaced => s = h)
  BY <1>0, <1>1, OwnFrame DEF Sound, CallInv, OnHome
<1>5. PICK D : D = {"lstat", "readdir", "remove", "rmdir"}
  OBVIOUS
<1>6. ASSUME NEW more \in Seq(Todos), \A i \in DOMAIN more : more[i].do \in D, Continue(c, more)
      PROVE  \A j \in DOMAIN todo'[c] : todo'[c][j].do \in D
  <2>1. \A j \in DOMAIN todo[c] : todo[c][j].do \in D
    BY <1>4, <1>5 DEF DeleteInv
  <2>2. \A j \in DOMAIN todo'[c] :
                 \/ j \in DOMAIN more /\ todo'[c][j] = more[j]
                 \/ /\ j > Len(more) /\ j - Len(more) + 1 \in DOMAIN todo[c]
                    /\ todo'[c][j] = todo[c][j - Len(more) + 1]
    BY <1>2, <1>6, ContinueElems DEF Spliced
  <2> QED BY <1>6, <2>1, <2>2
<1>7. ASSUME NEW more \in Seq(Todos), \A i \in DOMAIN more : more[i].do \in D, Continue(c, more),
             NEW k \in DOMAIN more, more[k].path = p, tree' = tree
      PROVE  DeleteInv(c)'
  <2>1. \A q : Ahead(c, q) => Ahead(c, q)'
    BY <1>1, <1>2, <1>7, AheadStays
  <2>2. \A q : Gone(c, s, q) => Gone(c, s, q)'
    BY <1>2, <1>7 DEF Gone
  <2> QED BY <1>1, <1>2, <1>4, <1>5, <1>6, <1>7, <2>1, <2>2 DEF DeleteInv
<1>8. \A do \in D : Req(do, p) \in Todos /\ Req(do, p).do = do /\ Req(do, p).path = p
  BY <1>3, <1>5 DEF Req, Todos, Dos, OnClient
<1>9. CASE Lstat(c)
  <2>1. PICK do : do = IF IsDir(h, p) THEN "readdir" ELSE "remove"
    OBVIOUS
  <2>2. PICK x : x = Req(do, p)
    OBVIOUS
  <2>3. x \in Todos /\ x.do \in D /\ x.path = p
    BY <1>5, <1>8, <2>1, <2>2
  <2>4. PICK more : more = <<x>>
    OBVIOUS
  <2>5. Continue(c, more) /\ tree' = tree
    BY <1>1, <1>9, <2>1, <2>2, <2>4 DEF Lstat, AfterLstat, srvVars
  <2>6. more \in Seq(Todos) /\ 1 \in DOMAIN more /\ more[1] = x /\ \A i \in DOMAIN more : more[i] = x
    BY <2>3, <2>4
  <2> QED BY <1>7, <2>3, <2>5, <2>6
<1>10. CASE ReadDir(c)
  <2>1. PICK S, u : S = {Req("lstat", Append(p, n)) : n \in Taken(h, p)} /\ u = SetToSeq(S)
    OBVIOUS
  <2>2. PICK x : x = Req("rmdir", p)
    OBVIOUS
  <2>3. x \in Todos /\ x.do \in D /\ x.path = p
    BY <1>5, <1>8, <2>2
  <2>4. h \in Hosts
    BY <1>1, <1>10, ReadyFacts DEF ReadDir
  <2>5. u \in Seq(Todos) /\ \A i \in DOMAIN u : u[i].do = "lstat"
    <3>1. ServerInv /\ "lstat" \in Dos
      BY DEF Sound, Dos, OnClient
    <3>2. ForEach(h, p, "lstat", u)
      BY <1>3, <2>1, <2>4, <3>1, TakenFacts
    <3> QED BY <3>2 DEF ForEach
  <2>6. PICK more : more = u \o <<x>>
    OBVIOUS
  <2>7. Continue(c, more) /\ tree' = tree
    BY <1>1, <1>10, <2>1, <2>2, <2>6 DEF ReadDir, AfterReadDir, srvVars
  <2>8. /\ more \in Seq(Todos) /\ Len(more) = Len(u) + 1 /\ more[Len(u) + 1] = x
        /\ \A i \in 1 .. Len(u) : more[i] = u[i]
    <3>1. <<x>> \in Seq(Todos) /\ Len(<<x>>) = 1 /\ <<x>>[1] = x
      BY <2>3
    <3>2. PICK v \in Seq(Todos) : v = <<x>> /\ Len(v) = 1 /\ v[1] = x
      BY <3>1, Zenon
    <3> QED BY <2>5, <2>6, <3>2, Concat
  <2>9. Len(u) + 1 \in DOMAIN more
    BY <2>5, <2>8
  <2>10. \A i \in DOMAIN more : more[i].do \in D
    BY <1>5, <2>3, <2>5, <2>8
  <2> QED BY <1>7, <2>3, <2>7, <2>8, <2>9, <2>10
<1>11. CASE DoRemove(c)
  <2>1. PICK more : more = <<>>
    OBVIOUS
  <2>2. more \in Seq(Todos) /\ DOMAIN more = {}
    BY <2>1
  <2>3. Continue(c, more)
    BY <1>11, <2>1 DEF DoRemove
  <2>4. \A q : Ahead(c, q) => Ahead(c, q)' \/ q = p
    BY <1>1, <1>2, <2>2, <2>3, AheadStays
  <2>5. /\ \A q \in DOMAIN tree[h] : IsPrefix(p, q) => q = p
        /\ DOMAIN tree'[h] = DOMAIN tree[h] \ {p}
    BY <1>1, <1>11, RemoveEffect
  <2>6. c \notin replaced => Gone(c, s, p)' /\ \A q : Gone(c, s, q) => Gone(c, s, q)'
    BY <1>2, <1>4, <2>5 DEF Gone
  <2> QED BY <1>1, <1>2, <1>4, <1>5, <1>6, <2>2, <2>3, <2>4, <2>6 DEF DeleteInv
<1> QED BY <1>9, <1>10, <1>11

(* What move requests once it knows what the destination is. *)
LEMMA MoveItemsFacts ==
    ASSUME NEW r \in Requests, NEW isDir \in BOOLEAN, NEW more,
           more = [i \in DOMAIN r.items |-> RenameTo(r.items[i], Dest(r, isDir, r.items[i]))]
    PROVE  /\ more \in Seq(Todos) /\ DOMAIN more = DOMAIN r.items
           /\ \A i \in DOMAIN more : /\ more[i].do = "rename" /\ more[i].path = r.items[i]
                                     /\ more[i].path # <<>>
                                     /\ more[i].to = Dest(r, isDir, more[i].path)
<1>1. r.items \in Seq(Paths \ {<<>>})
  BY RequestFacts
<1>2. PICK n \in Nat : DOMAIN r.items = 1 .. n
  BY <1>1
<1>3. ASSUME NEW i \in 1 .. n
      PROVE  /\ more[i] \in Todos /\ more[i].do = "rename" /\ more[i].path = r.items[i]
             /\ more[i].path # <<>> /\ more[i].to = Dest(r, isDir, more[i].path)
  <2>1. PICK p \in Paths \ {<<>>} : p = r.items[i]
    BY <1>2, RequestFacts
  <2>2. PICK d \in Paths : d = Dest(r, isDir, p)
    BY DestFacts
  <2>3. more[i] = RenameTo(p, d)
    BY <1>2, <2>1, <2>2
  <2> QED BY <2>1, <2>2, <2>3 DEF RenameTo, Todos, Dos, OnClient
<1>4. DOMAIN more = 1 .. n
  BY <1>2
<1>5. more \in Seq(Todos)
  <2>1. more \in [1 .. n -> Todos]
    BY <1>2, <1>3
  <2> QED BY <2>1
<1> QED BY <1>2, <1>3, <1>4, <1>5

(* After the only request, only what the step adds is left. *)
LEMMA OneRequest ==
    ASSUME NEW c, Sound(c), ans[c] = "running", NEW x, todo[c] = <<x>>,
           NEW more \in Seq(Todos), Continue(c, more)
    PROVE  todo'[c] = more /\ Head(todo[c]) = x
<1>1. Tail(<<x>>) = <<>> /\ Head(<<x>>) = x
  OBVIOUS
<1>2. more \o <<>> = more
  OBVIOUS
<1>3. c \in Calls /\ DOMAIN todo = Calls
  BY DEF Sound, Doms
<1> QED BY <1>1, <1>2, <1>3 DEF Continue

(* The first step of a move settles where the items go. *)
LEMMA MoveLstat ==
    ASSUME NEW c, Sound(c), Lstat(c), req[c].op = "move"
    PROVE  MoveInv(c)'
<1>0. Serve(c)
  BY DEF Serve
<1>1. PICK p, h, r : p = Path(c) /\ h = sftp /\ r = req[c]
  OBVIOUS
<1>2. ans[c] = "running" /\ Active(c) /\ req'[c] = r /\ r \in Requests
  BY <1>0, <1>1, OwnFrame
<1>3. todo[c] = <<Req("lstat", r.path)>>
  <2>1. MoveInv(c)
    BY <1>2 DEF Sound, CallInv
  <2>2. ASSUME NEW isDir \in BOOLEAN, Moving(c, isDir) PROVE FALSE
    <3>1. todo[c][1].do = "lstat" /\ 1 \in DOMAIN todo[c]
      BY <1>2, HeadFacts DEF Lstat, Ready, Sound
    <3> QED BY <2>2, <3>1 DEF Moving
  <2> QED BY <1>1, <2>1, <2>2 DEF MoveInv
<1>4. PICK isDir \in BOOLEAN : isDir <=> IsDir(h, p)
  OBVIOUS
<1>5. PICK more : more = [i \in DOMAIN r.items |-> RenameTo(r.items[i], Dest(r, isDir, r.items[i]))]
  OBVIOUS
<1>6. Continue(c, more)
  <2>1. Continue(c, AfterLstat(r, p, IsDir(h, p)))
    BY <1>1 DEF Lstat
  <2>2. CASE isDir
    <3>1. IsDir(h, p) = TRUE
      BY <1>4, <2>2
    <3>2. Continue(c, MoveItems(r, TRUE))
      BY <1>1, <2>1, <3>1 DEF AfterLstat
    <3> QED BY <1>5, <2>2, <3>2 DEF MoveItems, Dest
  <2>3. CASE ~isDir
    <3>1. IsDir(h, p) = FALSE
      BY <1>4, <2>3
    <3>2. Continue(c, MoveItems(r, FALSE))
      BY <1>1, <2>1, <3>1 DEF AfterLstat
    <3> QED BY <1>5, <2>3, <3>2 DEF MoveItems, Dest
  <2> QED BY <2>2, <2>3
<1>7. /\ more \in Seq(Todos) /\ DOMAIN more = DOMAIN r.items
      /\ \A i \in DOMAIN more : /\ more[i].do = "rename" /\ more[i].path = r.items[i]
                                /\ more[i].path # <<>>
                                /\ more[i].to = Dest(r, isDir, more[i].path)
  BY <1>2, <1>5, MoveItemsFacts
<1>8. todo'[c] = more
  BY <1>2, <1>3, <1>6, <1>7, OneRequest
<1>9. Moving(c, isDir)'
  <2>1. \A i \in DOMAIN r.items : Ahead(c, r.items[i])'
    BY <1>7, <1>8 DEF Ahead
  <2> QED BY <1>2, <1>7, <1>8, <2>1 DEF Moving, Dest
<1> QED BY <1>9 DEF MoveInv

(* A rename of a move: its item is gone, and does not come back by a later
   one. *)
LEMMA MoveRename ==
    ASSUME NEW c, Sound(c), DoRename(c), req[c].op = "move"
    PROVE  MoveInv(c)'
<1>0. Serve(c)
  BY DEF Serve
<1>1. PICK p, d, h, r, g : p = Path(c) /\ d = Head(todo[c]).to /\ h = sftp /\ r = req[c] /\ g = home[c]
  OBVIOUS
<1>2. /\ ans[c] = "running" /\ Active(c) /\ req'[c] = r /\ r \in Requests /\ home'[c] = g
      /\ replaced' = replaced
      /\ \A x, q : Disturbed(c, x, q)' <=> Disturbed(c, x, q)
  BY <1>0, <1>1, OwnFrame
<1>3. todo[c][1].do = "rename" /\ 1 \in DOMAIN todo[c] /\ p = todo[c][1].path /\ d = todo[c][1].to
      /\ p \in Paths
  BY <1>1, <1>2, HeadFacts DEF DoRename, Ready, Sound
<1>4. PICK isDir \in BOOLEAN : Moving(c, isDir)
  <2>1. MoveInv(c)
    BY <1>1, <1>2 DEF Sound, CallInv
  <2>2. \A q : <<Req("lstat", q)>>[1].do = "lstat"
    BY DEF Req
  <2> QED BY <1>3, <2>1, <2>2 DEF MoveInv
<1>5. p \in Paths \ {<<>>} /\ d = Dest(r, isDir, p)
  BY <1>1, <1>3, <1>4 DEF Moving
<1>6. PICK more : more = <<>>
  OBVIOUS
<1>7. more \in Seq(Todos) /\ DOMAIN more = {} /\ Continue(c, more)
  BY <1>6 DEF DoRename
<1>8. \A q : Ahead(c, q) => Ahead(c, q)' \/ q = p
  BY <1>1, <1>2, <1>7, AheadStays
<1>9. \A j \in DOMAIN todo'[c] : /\ todo'[c][j].do = "rename" /\ todo'[c][j].path # <<>>
                                 /\ todo'[c][j].to = Dest(r, isDir, todo'[c][j].path)
  <2>1. \A j \in DOMAIN todo'[c] :
                 \/ j \in DOMAIN more /\ todo'[c][j] = more[j]
                 \/ /\ j > Len(more) /\ j - Len(more) + 1 \in DOMAIN todo[c]
                    /\ todo'[c][j] = todo[c][j - Len(more) + 1]
    <3>1. Sound(c) /\ ans[c] = "running" /\ more \in Seq(Todos) /\ Continue(c, more)
      BY <1>2, <1>7
    <3> QED BY <3>1, ContinueElems DEF Spliced
  <2>2. \A j \in DOMAIN todo'[c] : \E k \in DOMAIN todo[c] : todo'[c][j] = todo[c][k]
    BY <1>7, <2>1
  <2> QED BY <1>1, <1>4, <2>2 DEF Moving
<1>10. /\ h \in Hosts /\ p \in DOMAIN tree[h] /\ d \in Paths /\ ~IsPrefix(p, d) /\ ~Exists(h, d)
       /\ \A q \in DOMAIN tree'[h] : ~IsPrefix(p, q) /\ (q \in DOMAIN tree[h] \/ IsPrefix(d, q))
       /\ \A q \in DOMAIN tree[h] : ~IsPrefix(p, q) => q \in DOMAIN tree'[h]
  <2>1. p = Path(c) /\ Head(todo[c]).to = d /\ h = sftp
    BY <1>1
  <2>2. WasMoved(h, p, d)
    BY <2>1, RenameEffect
  <2> QED BY <2>2 DEF WasMoved
<1>11. DOMAIN tree'[h] \subseteq Paths /\ DOMAIN tree[h] \subseteq Paths
  BY <1>0, <1>10, OwnFrame DEF Sound, ServerInv, GoodTree
(* No destination is below the item that was renamed. *)
<1>12. ASSUME NEW q \in Paths \ {<<>>}, NEW e, e = Dest(r, isDir, q)
       PROVE  e \in Paths /\ ~IsPrefix(p, e) /\ (Exists(h, e) => Exists(h, e)')
  <2>1. e \in Paths /\ ~IsPrefix(p, e)
    BY <1>2, <1>5, <1>10, <1>12, DestFacts
  <2> QED BY <1>10, <2>1 DEF Exists
<1>13. ASSUME NEW q, Gone(c, h, q), q \in Paths \ {<<>>}, Held(c, isDir, q), g = h
       PROVE  Gone(c, h, q)' /\ Held(c, isDir, q)'
  <2>1. ASSUME NEW x \in DOMAIN tree'[h], IsPrefix(q, x), x \notin DOMAIN tree[h]
        PROVE  Disturbed(c, h, x)
    <3>1. x \in Paths /\ IsPrefix(d, x)
      BY <1>10, <1>11, <2>1
    <3>2. IsPrefix(q, d) \/ IsPrefix(d, q)
      BY <1>10, <1>13, <2>1, <3>1, Comparable
    <3>3. ~IsPrefix(q, d)
      BY <1>1, <1>2, <1>5, <1>13, DestFacts DEF Held
    <3>4. Disturbed(c, h, d)
      BY <1>1, <1>5, <1>10, <1>13, <3>2, <3>3 DEF Held
    <3>5. PICK e \in changes[c] :
             /\ e.host = h /\ IsPrefix(e.path, d)
             /\ req[e.by].op = "changePerm" => req[c].op = "changePerm"
      BY <3>4 DEF Disturbed
    <3>6. IsPrefix(e.path, x)
      <4>1. e.path \in Paths
        BY DEF Sound, CallTyped
      <4> QED BY <1>10, <3>1, <3>5, <4>1, PathTrans
    <3> QED BY <3>5, <3>6 DEF Disturbed
  <2>2. Gone(c, h, q)'
    BY <1>2, <1>13, <2>1 DEF Gone
  <2>3. ASSUME NEW y \in Paths \ {<<>>}, NEW e, e = Dest(r, isDir, y), IsPrefix(e, q)
        PROVE  Exists(h, e)' \/ Disturbed(c, h, e)'
    BY <1>1, <1>2, <1>12, <1>13, <2>3 DEF Held
  <2>4. \A y \in Paths \ {<<>>} : IsPrefix(Dest(r, isDir, y), q) =>
           Exists(h, Dest(r, isDir, y))' \/ Disturbed(c, h, Dest(r, isDir, y))'
    BY <2>3
  <2>5. ~IsPrefix(q, Dest(r, isDir, q))
    BY <1>1, <1>13 DEF Held
  <2> QED BY <1>1, <1>2, <1>13, <2>2, <2>4, <2>5 DEF Held, Dest
<1>14. ASSUME g = h
       PROVE  Gone(c, h, p)' /\ Held(c, isDir, p)'
  <2>1. Gone(c, h, p)'
    BY <1>10 DEF Gone
  <2>2. ASSUME NEW y \in Paths \ {<<>>}, NEW e, e = Dest(r, isDir, y), IsPrefix(e, p)
        PROVE  Exists(h, e)'
    <3>1. GoodTree(h, tree[h], node) /\ e \in Paths
      BY <1>10, <1>12, <2>2 DEF Sound, ServerInv
    <3>2. Exists(h, e)
      BY <1>10, <2>2, <3>1, Closed DEF Exists
    <3> QED BY <1>12, <2>2, <3>2
  <2>3. \A y \in Paths \ {<<>>} : IsPrefix(Dest(r, isDir, y), p) => Exists(h, Dest(r, isDir, y))'
    BY <2>2
  <2> QED BY <1>2, <1>5, <1>10, <1>14, <2>1, <2>3 DEF Held, Dest
<1>15. c \notin replaced => g = h
  BY <1>1, <1>2 DEF Sound, OnHome
<1>16. c \notin replaced =>
          \A i \in DOMAIN r.items :
              Ahead(c, r.items[i])' \/ (Gone(c, g, r.items[i])' /\ Held(c, isDir, r.items[i])')
  <2>1. \A i \in DOMAIN r.items : r.items[i] \in Paths \ {<<>>}
    BY <1>2, RequestFacts
  <2>2. c \notin replaced => \A i \in DOMAIN r.items :
              Ahead(c, r.items[i]) \/ (Gone(c, g, r.items[i]) /\ Held(c, isDir, r.items[i]))
    BY <1>1, <1>4 DEF Moving
  <2> QED BY <1>8, <1>13, <1>14, <1>15, <2>1, <2>2
<1>17. Moving(c, isDir)'
  BY <1>2, <1>9, <1>16 DEF Moving, Dest
<1> QED BY <1>17 DEF MoveInv

(* On the way to a path below a directory there is one of its entries. *)
LEMMA NextEntry ==
    ASSUME NEW x \in Paths, NEW q \in Paths, IsPrefix(x, q), x # q
    PROVE  \E y \in Paths \ {<<>>} : Front(y) = x /\ IsPrefix(y, q)
<1>1. PICK m \in Nat, n \in Nat : m = Len(x) /\ n = Len(q) /\ x \in Seq(Entries) /\ q \in Seq(Entries)
  BY DEF Paths
<1>2. m <= n /\ \A i \in 1 .. m : x[i] = q[i]
  BY <1>1, PrefixDef
<1>3. m # n
  BY <1>1, <1>2
<1>4. m + 1 \in 1 .. n
  BY <1>2, <1>3
<1>5. q[m + 1] \in Entries
  BY <1>1, <1>4
<1>6. PICK y : y = Append(x, q[m + 1])
  OBVIOUS
<1>7. /\ y \in Seq(Entries) /\ Len(y) = m + 1 /\ y[m + 1] = q[m + 1]
      /\ \A i \in 1 .. m : y[i] = x[i]
  BY <1>1, <1>5, <1>6, AppendElems
<1>8. y # <<>> /\ Front(y) = x
  BY <1>1, <1>5, <1>6, AppendFacts
<1>9. \A i \in 1 .. m + 1 : y[i] = q[i]
  BY <1>2, <1>7
<1>10. IsPrefix(y, q)
  <2>1. Len(y) <= Len(q)
    BY <1>1, <1>4, <1>7
  <2> QED BY <1>1, <1>7, <1>9, <2>1, PrefixDef
<1> QED BY <1>7, <1>8, <1>10 DEF Paths

(* The answers of changePerm: the head is done, or followed up by more. *)
LEMMA ChmodNext ==
    ASSUME NEW c, Sound(c), Serve(c), req[c].op = "changePerm", NEW more \in Seq(Todos), Continue(c, more),
           NEW h, h = sftp, NEW x, x = Head(todo[c]), NEW r, r = req[c],
           \A i \in DOMAIN more :
              more[i].do \in IF r.rec THEN {"chmod", "lstat", "readdir"} ELSE {"chmod"},
           tree' = tree,
           x.do = "chmod" => Exists(h, x.path),
           \A q \in DOMAIN tree[h] : ModeSet(c, h, q) => ModeSet(c, h, q)',
           \A q \in DOMAIN tree[h] : Covers(r, x, q) =>
              ModeSet(c, h, q)' \/ \E j \in DOMAIN more : Covers(r, more[j], q)
    PROVE  ChmodInv(c)'
<1>1. PICK g : g = home[c]
  OBVIOUS
<1>2. /\ ans[c] = "running" /\ Active(c) /\ req'[c] = r /\ home'[c] = g /\ replaced' = replaced
      /\ \A y, q : Disturbed(c, y, q)' <=> Disturbed(c, y, q)
  BY <1>1, OwnFrame
<1>3. ChmodInv(c) /\ (c \notin replaced => g = h)
  BY <1>1, <1>2 DEF Sound, CallInv, OnHome
<1>4. /\ \A i \in DOMAIN more : i \in DOMAIN todo'[c] /\ todo'[c][i] = more[i]
      /\ \A i \in DOMAIN todo[c] : i > 1 =>
                 Len(more) + i - 1 \in DOMAIN todo'[c] /\ todo'[c][Len(more) + i - 1] = todo[c][i]
      /\ \A j \in DOMAIN todo'[c] :
                 \/ j \in DOMAIN more /\ todo'[c][j] = more[j]
                 \/ /\ j > Len(more) /\ j - Len(more) + 1 \in DOMAIN todo[c]
                    /\ todo'[c][j] = todo[c][j - Len(more) + 1]
  BY <1>2, ContinueElems DEF Spliced
<1>5. todo[c] \in Seq(Todos) /\ x = todo[c][1]
  BY <1>2, HeadFacts DEF Sound
<1>6. \A j \in DOMAIN todo[c] : todo[c][j] = x \/ \E k \in DOMAIN todo'[c] : todo'[c][k] = todo[c][j]
  <2>1. \A j \in DOMAIN todo[c] : j = 1 \/ j > 1
    BY <1>5
  <2> QED BY <1>4, <1>5, <2>1
<1>7. \A j \in DOMAIN todo'[c] :
          todo'[c][j].do \in IF r.rec THEN {"chmod", "lstat", "readdir"} ELSE {"chmod"}
  BY <1>3, <1>4 DEF ChmodInv
<1>8. ASSUME c \notin replaced, NEW i \in DOMAIN r.items, NEW p, p = r.items[i]
      PROVE  /\ \/ \E j \in DOMAIN todo'[c] : todo'[c][j].do = "chmod" /\ todo'[c][j].path = p
                \/ Exists(g, p)' \/ Disturbed(c, g, p)'
             /\ \A q \in DOMAIN tree'[g] :
                    IsPrefix(p, q) /\ (r.rec \/ q = p) =>
                        \/ ModeSet(c, g, q)'
                        \/ \E j \in DOMAIN todo'[c] : Covers(r, todo'[c][j], q)
  <2>1. \/ \E j \in DOMAIN todo[c] : todo[c][j].do = "chmod" /\ todo[c][j].path = p
        \/ Exists(g, p) \/ Disturbed(c, g, p)
    BY <1>1, <1>3, <1>8 DEF ChmodInv
  <2>2. \/ \E j \in DOMAIN todo'[c] : todo'[c][j].do = "chmod" /\ todo'[c][j].path = p
        \/ Exists(g, p)' \/ Disturbed(c, g, p)'
    BY <1>2, <1>3, <1>6, <1>8, <2>1 DEF Exists
  <2>3. ASSUME NEW q \in DOMAIN tree[g], IsPrefix(p, q), r.rec \/ q = p
        PROVE  ModeSet(c, g, q)' \/ \E j \in DOMAIN todo'[c] : Covers(r, todo'[c][j], q)
    <3>1. ModeSet(c, g, q) \/ \E j \in DOMAIN todo[c] : Covers(r, todo[c][j], q)
      BY <1>1, <1>3, <1>8, <2>3 DEF ChmodInv
    <3>2. CASE ModeSet(c, g, q)
      BY <1>3, <1>8, <3>2
    <3>3. ASSUME NEW j \in DOMAIN todo[c], Covers(r, todo[c][j], q)
          PROVE  ModeSet(c, g, q)' \/ \E k \in DOMAIN todo'[c] : Covers(r, todo'[c][k], q)
      <4>1. CASE todo[c][j] = x
        BY <1>3, <1>4, <1>8, <3>3, <4>1
      <4>2. CASE \E k \in DOMAIN todo'[c] : todo'[c][k] = todo[c][j]
        BY <3>3, <4>2
      <4> QED BY <1>6, <4>1, <4>2
    <3> QED BY <3>1, <3>2, <3>3
  <2> QED BY <2>2, <2>3
<1> QED BY <1>1, <1>2, <1>7, <1>8 DEF ChmodInv

(* The steps of changePerm: every path below an item has its mode or a request
   ahead. *)
LEMMA ChmodOwn ==
    ASSUME NEW c, Sound(c), req[c].op = "changePerm", Lstat(c) \/ ReadDir(c) \/ Chmod(c)
    PROVE  ChmodInv(c)'
<1>0. Serve(c)
  BY DEF Serve
<1>1. PICK x, h, r : x = Head(todo[c]) /\ h = sftp /\ r = req[c]
  OBVIOUS
<1>2. PICK p : p = x.path
  OBVIOUS
<1>3. /\ ans[c] = "running" /\ Active(c) /\ r \in Requests /\ p \in Paths /\ p = Path(c)
      /\ \A y, q : Disturbed(c, y, q)' <=> Disturbed(c, y, q)
  BY <1>0, <1>1, <1>2, OwnFrame, HeadFacts DEF Sound, Path
<1>4. x.do \in IF r.rec THEN {"chmod", "lstat", "readdir"} ELSE {"chmod"}
  <2>1. x = todo[c][1] /\ 1 \in DOMAIN todo[c]
    BY <1>1, <1>3, HeadFacts DEF Sound
  <2>2. ChmodInv(c)
    BY <1>3 DEF Sound, CallInv
  <2> QED BY <1>1, <2>1, <2>2 DEF ChmodInv
<1>5. h \in Hosts /\ ServerInv /\ GoodTree(h, tree[h], node)
  BY <1>1, ReadyFacts DEF Lstat, ReadDir, Chmod, Sound, ServerInv
<1>6. ASSUME NEW m, m = <<>> PROVE m \in Seq(Todos) /\ DOMAIN m = {}
  BY <1>6
<1>7. ASSUME NEW do \in {"lstat", "readdir"}, NEW m, m = <<Req(do, p)>>
      PROVE  m \in Seq(Todos) /\ DOMAIN m = {1} /\ m[1].do = do /\ m[1].path = p
  <2>1. Req(do, p) \in Todos /\ Req(do, p).do = do /\ Req(do, p).path = p
    BY <1>3 DEF Req, Todos, Dos, OnClient
  <2> QED BY <1>7, <2>1
<1>8. CASE Chmod(c)
  <2>1. PICK f : f = Follow(h, p)
    OBVIOUS
  <2>2. /\ f \in DOMAIN tree[h] /\ tree' = tree /\ node'[tree[h][f]].mode = r.mode
        /\ \A m \in DOMAIN node : m # tree[h][f] => node'[m] = node[m]
        /\ \A m \in DOMAIN node : node'[m].kind = node[m].kind
    <3>1. h = sftp /\ f = Follow(h, Path(c))
      BY <1>1, <1>3, <2>1
    <3>2. WasChmod(h, f, r.mode)
      BY <1>1, <1>8, <3>1, ChmodEffect
    <3> QED BY <3>2 DEF WasChmod
  <2>3. x.do = "chmod"
    BY <1>1, <1>8 DEF Chmod, Ready
  <2>4. PICK more : more = IF r.rec THEN <<Req("lstat", p)>> ELSE <<>>
    OBVIOUS
  <2>5. Continue(c, more)
    BY <1>1, <1>3, <1>8, <2>4 DEF Chmod
  <2>6. /\ more \in Seq(Todos) /\ (r.rec => DOMAIN more = {1} /\ more[1].do = "lstat" /\ more[1].path = p)
        /\ ~r.rec => DOMAIN more = {}
    BY <1>6, <1>7, <2>4
  <2>7. Exists(h, p)
    BY <2>1, <2>2 DEF Follow, Exists
  <2>8. ASSUME NEW q \in DOMAIN tree[h] PROVE tree[h][q] \in DOMAIN node
    BY <1>5, NodeAt
  <2>9. \A q \in DOMAIN tree[h] : ModeSet(c, h, q) => ModeSet(c, h, q)'
    <3> SUFFICES ASSUME NEW q \in DOMAIN tree[h], ModeSet(c, h, q) PROVE ModeSet(c, h, q)'
      OBVIOUS
    <3>1. req'[c] = r
      BY <1>0, <1>1, OwnFrame
    <3>2. CASE tree[h][q] = tree[h][f]
      BY <2>2, <3>1, <3>2 DEF ModeSet, At
    <3>3. CASE tree[h][q] # tree[h][f]
      BY <1>1, <1>3, <2>2, <2>8, <3>1, <3>3 DEF ModeSet, At
    <3> QED BY <3>2, <3>3
  <2>10. \A q \in DOMAIN tree[h] : Covers(r, x, q) =>
              ModeSet(c, h, q)' \/ \E j \in DOMAIN more : Covers(r, more[j], q)
    <3> SUFFICES ASSUME NEW q \in DOMAIN tree[h], Covers(r, x, q)
                 PROVE ModeSet(c, h, q)' \/ \E j \in DOMAIN more : Covers(r, more[j], q)
      OBVIOUS
    <3>1. req'[c] = r
      BY <1>0, <1>1, OwnFrame
    <3>2. CASE q = p
      <4>1. CASE At(h, p).kind = "link"
        BY <2>2, <2>8, <3>2, <4>1 DEF ModeSet, At
      <4>2. CASE At(h, p).kind # "link"
        <5>1. f = p
          BY <2>1, <4>2 DEF Follow
        <5> QED BY <2>2, <3>1, <3>2, <5>1 DEF ModeSet, At
      <4> QED BY <4>1, <4>2
    <3>3. CASE q # p
      <4>1. r.rec /\ IsPrefix(p, q)
        BY <1>2, <2>3, <3>3 DEF Covers
      <4>2. Covers(r, more[1], q) /\ 1 \in DOMAIN more
        BY <2>6, <3>3, <4>1 DEF Covers
      <4> QED BY <4>2
    <3> QED BY <3>2, <3>3
  <2>11. \A i \in DOMAIN more :
              more[i].do \in IF r.rec THEN {"chmod", "lstat", "readdir"} ELSE {"chmod"}
    BY <2>6
  <2>12. x.do = "chmod" => Exists(h, x.path)
    BY <1>2, <2>7
  <2> QED BY <1>0, <1>1, <2>2, <2>5, <2>6, <2>9, <2>10, <2>11, <2>12, ChmodNext
<1>9. ASSUME tree' = tree, node' = node, NEW q PROVE ModeSet(c, h, q) => ModeSet(c, h, q)'
  <2>1. req'[c] = r
    BY <1>0, <1>1, OwnFrame
  <2> QED BY <1>1, <1>3, <1>9, <2>1 DEF ModeSet, At
<1>10. CASE Lstat(c)
  <2>1. x.do = "lstat" /\ r.rec /\ tree' = tree /\ node' = node
    BY <1>1, <1>4, <1>10 DEF Lstat, Ready, srvVars
  <2>2. PICK more : more = IF IsDir(h, p) THEN <<Req("readdir", p)>> ELSE <<>>
    OBVIOUS
  <2>3. Continue(c, more)
    BY <1>1, <1>3, <1>10, <2>2 DEF Lstat, AfterLstat
  <2>4. /\ ~IsDir(h, p) => DOMAIN more = {}
        /\ IsDir(h, p) => DOMAIN more = {1} /\ more[1].do = "readdir" /\ more[1].path = p
    BY <1>6, <1>7, <2>2
  <2>5. \A q \in DOMAIN tree[h] : Covers(r, x, q) => \E j \in DOMAIN more : Covers(r, more[j], q)
    <3> SUFFICES ASSUME NEW q \in DOMAIN tree[h], Covers(r, x, q)
                 PROVE \E j \in DOMAIN more : Covers(r, more[j], q)
      OBVIOUS
    <3>1. IsPrefix(p, q) /\ p # q
      BY <1>2, <2>1 DEF Covers
    <3>2. IsDir(h, p)
      BY <1>3, <1>5, <3>1, Closed DEF IsDir, Exists, At
    <3> QED BY <2>4, <3>1, <3>2 DEF Covers
  <2>6. \A i \in DOMAIN more :
              more[i].do \in IF r.rec THEN {"chmod", "lstat", "readdir"} ELSE {"chmod"}
    BY <2>1, <2>4
  <2>7. more \in Seq(Todos)
    BY <1>6, <1>7, <2>2
  <2> QED BY <1>0, <1>1, <1>9, <2>1, <2>3, <2>5, <2>6, <2>7, ChmodNext
<1>11. CASE ReadDir(c)
  <2>1. x.do = "readdir" /\ r.rec /\ tree' = tree /\ node' = node
    BY <1>1, <1>4, <1>11 DEF ReadDir, Ready, srvVars
  <2>2. PICK S, more : S = {Req("chmod", Append(p, n)) : n \in Taken(h, p)} /\ more = SetToSeq(S)
    OBVIOUS
  <2>3. Continue(c, more)
    BY <1>1, <1>3, <1>11, <2>2 DEF ReadDir, AfterReadDir
  <2>4. /\ more \in Seq(Todos) /\ \A i \in DOMAIN more : more[i].do = "chmod"
        /\ \A q \in Children(h, p) : \E i \in DOMAIN more : more[i].do = "chmod" /\ more[i].path = q
    <3>1. "chmod" \in Dos
      BY DEF Dos, OnClient
    <3>2. ForEach(h, p, "chmod", more)
      BY <1>3, <1>5, <2>2, <3>1, TakenFacts
    <3> QED BY <3>2 DEF ForEach
  <2>5. \A q \in DOMAIN tree[h] : Covers(r, x, q) => \E j \in DOMAIN more : Covers(r, more[j], q)
    <3> SUFFICES ASSUME NEW q \in DOMAIN tree[h], Covers(r, x, q)
                 PROVE \E j \in DOMAIN more : Covers(r, more[j], q)
      OBVIOUS
    <3>1. IsPrefix(p, q) /\ p # q /\ q \in Paths
      BY <1>2, <1>5, <2>1 DEF Covers, GoodTree
    <3>2. PICK y \in Paths \ {<<>>} : Front(y) = p /\ IsPrefix(y, q)
      BY <1>3, <3>1, NextEntry
    <3>3. y \in Children(h, p)
      BY <1>5, <3>2, Closed DEF Children
    <3> QED BY <2>1, <2>4, <3>2, <3>3 DEF Covers
  <2>6. \A i \in DOMAIN more :
              more[i].do \in IF r.rec THEN {"chmod", "lstat", "readdir"} ELSE {"chmod"}
    BY <2>1, <2>4
  <2> QED BY <1>0, <1>1, <1>9, <2>1, <2>3, <2>4, <2>5, <2>6, ChmodNext
<1> QED BY <1>8, <1>10, <1>11

(* The rest of the requests. *)
Popped(s, t) ==
    /\ t \in Seq(Todos) /\ Len(s) \in Nat \ {0} /\ Len(t) = Len(s) - 1
    /\ \A j \in DOMAIN t : j + 1 \in DOMAIN s /\ t[j] = s[j + 1]
    /\ \A i \in DOMAIN s : i > 1 => i - 1 \in DOMAIN t /\ t[i - 1] = s[i]

(* A step that adds no request. *)
LEMMA PoppedFacts ==
    ASSUME NEW c, Sound(c), ans[c] = "running", Continue(c, <<>>)
    PROVE  Popped(todo[c], todo'[c]) /\ ans'[c] = IF todo'[c] = <<>> THEN "ok" ELSE "running"
<1>1. PICK more : more = <<>>
  OBVIOUS
<1>2. more \in Seq(Todos) /\ Len(more) = 0 /\ DOMAIN more = {} /\ Continue(c, more)
  BY <1>1
<1>3. PICK s, t : s = todo[c] /\ t = todo'[c]
  OBVIOUS
<1>4. s \in Seq(Todos) /\ s # <<>>
  BY <1>3, HeadFacts DEF Sound
<1>5. /\ t \in Seq(Todos) /\ Len(t) = Len(more) + Len(s) - 1
      /\ \A i \in DOMAIN s : i > 1 => Len(more) + i - 1 \in DOMAIN t /\ t[Len(more) + i - 1] = s[i]
      /\ \A j \in DOMAIN t :
            \/ j \in DOMAIN more /\ t[j] = more[j]
            \/ /\ j > Len(more) /\ j - Len(more) + 1 \in DOMAIN s
               /\ t[j] = s[j - Len(more) + 1]
      /\ ans'[c] = IF todo'[c] = <<>> THEN "ok" ELSE "running"
  <2>1. Spliced(more, todo[c], todo'[c]) /\ ans'[c] = IF todo'[c] = <<>> THEN "ok" ELSE "running"
    BY <1>2, ContinueElems
  <2> QED BY <1>3, <2>1 DEF Spliced
<1>6. PICK n \in Nat : n = Len(s) /\ n # 0 /\ DOMAIN s = 1 .. n
  BY <1>4
<1>7. Len(t) = n - 1 /\ DOMAIN t = 1 .. n - 1
  BY <1>2, <1>5, <1>6
<1>8. ASSUME NEW j \in DOMAIN t PROVE j + 1 \in DOMAIN s /\ t[j] = s[j + 1]
  <2>1. j - 0 + 1 = j + 1
    BY <1>7
  <2> QED BY <1>2, <1>5, <2>1
<1>9. ASSUME NEW i \in DOMAIN s, i > 1 PROVE i - 1 \in DOMAIN t /\ t[i - 1] = s[i]
  <2>1. 0 + i - 1 = i - 1
    BY <1>6
  <2> QED BY <1>2, <1>5, <1>9, <2>1
<1> QED BY <1>3, <1>5, <1>6, <1>7, <1>8, <1>9 DEF Popped

(* Opens and reads stay paired as the requests are made. *)
LEMMA PairedRest ==
    ASSUME NEW s \in Seq(Todos), NEW t, Popped(s, t), Paired(s)
    PROVE  /\ Paired(t)
           /\ s[1].do = "open" => 1 \in DOMAIN t /\ t[1].do = "read" /\ t # <<>>
           /\ s[1].do # "open" /\ t # <<>> => t[1].do # "read"
<1>1. PICK n \in Nat : n = Len(s) /\ n # 0 /\ DOMAIN s = 1 .. n
  BY DEF Popped
<1>2. t \in Seq(Todos) /\ Len(t) = n - 1 /\ DOMAIN t = 1 .. n - 1
  BY <1>1 DEF Popped
<1>3. \A j \in 1 .. n - 1 : t[j] = s[j + 1] /\ j + 1 \in 1 .. n
  BY <1>1, <1>2 DEF Popped
<1>4. ASSUME NEW i \in DOMAIN t
      PROVE  /\ t[i].do \in {"open", "read", "close"}
             /\ t[i].do = "open" => i + 1 \in DOMAIN t /\ t[i + 1].do = "read"
             /\ t[i].do = "read" /\ i > 1 => t[i - 1].do = "open"
  <2>1. i \in 1 .. n - 1 /\ t[i] = s[i + 1] /\ i + 1 \in DOMAIN s
    BY <1>1, <1>2, <1>3
  <2>2. s[i + 1].do \in {"open", "read", "close"}
    BY <2>1 DEF Paired
  <2>3. ASSUME t[i].do = "open" PROVE i + 1 \in DOMAIN t /\ t[i + 1].do = "read"
    <3>1. i + 1 + 1 \in 1 .. n /\ s[i + 1 + 1].do = "read"
      BY <1>1, <2>1, <2>3 DEF Paired
    <3>2. i + 1 \in 1 .. n - 1
      BY <2>1, <3>1
    <3> QED BY <1>2, <1>3, <3>1, <3>2
  <2>4. ASSUME t[i].do = "read", i > 1 PROVE t[i - 1].do = "open"
    <3>1. PICK k \in DOMAIN s : k = i + 1 /\ k - 1 = i /\ k > 1
      BY <2>1
    <3>2. s[k - 1].do = "open"
      BY <2>1, <2>4, <3>1 DEF Paired
    <3>3. i - 1 \in 1 .. n - 1 /\ i - 1 + 1 = i
      BY <2>1, <2>4
    <3> QED BY <1>3, <3>1, <3>2, <3>3
  <2> QED BY <2>1, <2>2, <2>3, <2>4
<1>5. ASSUME s[1].do = "open" PROVE 1 \in DOMAIN t /\ t[1].do = "read" /\ t # <<>>
  <2>0. PICK k \in DOMAIN s : k = 1
    BY <1>1
  <2>1. k + 1 \in DOMAIN s /\ s[k + 1].do = "read"
    BY <1>5, <2>0 DEF Paired
  <2>2. 1 \in 1 .. n - 1
    BY <1>1, <2>0, <2>1
  <2> QED BY <1>2, <1>3, <2>0, <2>1, <2>2
<1>6. ASSUME s[1].do # "open", t # <<>> PROVE t[1].do # "read"
  <2>1. 1 \in 1 .. n - 1
    BY <1>2, <1>6
  <2>2. PICK k \in DOMAIN s : t[1] = s[k] /\ k > 1 /\ k - 1 = 1
    BY <1>1, <1>3, <2>1
  <2>3. s[k].do = "read" => s[k - 1].do = "open"
    BY <2>2 DEF Paired
  <2> QED BY <1>6, <2>2, <2>3
<1> QED BY <1>4, <1>5, <1>6 DEF Paired

(* Once it has looked at the file, a reader opens, reads and closes. *)
LEMMA ReadRest ==
    ASSUME NEW c, Sound(c), Serve(c), req[c].op \in Readers, Paired(todo[c]), Continue(c, <<>>)
    PROVE  /\ ReadShape(c)'
           /\ todo[c][1].do = "open" => Reading(c)'
           /\ todo[c][1].do # "open" => ~Reading(c)'
           /\ req[c].op = "download" => todo[c][1].path = req[c].path
           /\ ~(req[c].op = "download" /\ ans[c] = "running" /\ todo[c][1].do = "open")'
<1>1. PICK s, t, r : s = todo[c] /\ t = todo'[c] /\ r = req[c]
  OBVIOUS
<1>2. ans[c] = "running" /\ Active(c) /\ req'[c] = r
  BY <1>1, OwnFrame
<1>3. s \in Seq(Todos) /\ Popped(s, t) /\ Paired(s) /\ 1 \in DOMAIN s
      /\ ans'[c] = IF t = <<>> THEN "ok" ELSE "running"
  BY <1>1, <1>2, PoppedFacts, HeadFacts DEF Sound
<1>4. /\ Paired(t)
      /\ s[1].do = "open" => 1 \in DOMAIN t /\ t[1].do = "read" /\ t # <<>>
      /\ s[1].do # "open" /\ t # <<>> => t[1].do # "read"
  BY <1>3, PairedRest
<1>5. ASSUME r.op = "download"
      PROVE  /\ \A i \in DOMAIN s : s[i].path = r.path /\ (i > 1 => s[i].do # "open")
             /\ \A i \in DOMAIN t : t[i].path = r.path /\ t[i].do # "open"
  <2>1. ReadShape(c)
    BY <1>2 DEF Sound, CallInv, ReadInv
  <2>2. s # <<Req("lstat", r.path)>>
    <3>1. <<Req("lstat", r.path)>>[1].do = "lstat"
      BY DEF Req
    <3> QED BY <1>3, <3>1 DEF Paired
  <2>3. \A i \in DOMAIN s : s[i].path = r.path /\ (i > 1 => s[i].do # "open")
    BY <1>1, <1>5, <2>1, <2>2 DEF ReadShape
  <2>4. ASSUME NEW i \in DOMAIN t PROVE t[i].path = r.path /\ t[i].do # "open"
    <3>1. i + 1 \in DOMAIN s /\ t[i] = s[i + 1] /\ i + 1 > 1
      BY <1>3 DEF Popped
    <3> QED BY <2>3, <3>1
  <2> QED BY <2>3, <2>4
<1>6. t # <<>> => 1 \in DOMAIN t
  BY <1>3 DEF Popped
<1>7. ReadShape(c)'
  BY <1>1, <1>2, <1>4, <1>5 DEF ReadShape
<1>8. s[1].do = "open" => Reading(c)'
  BY <1>1, <1>3, <1>4 DEF Reading
<1>9. s[1].do # "open" => ~Reading(c)'
  BY <1>1, <1>3, <1>4 DEF Reading
<1>10. r.op = "download" => s[1].path = r.path
  BY <1>3, <1>5
<1>11. ~(req[c].op = "download" /\ ans[c] = "running" /\ todo[c][1].do = "open")'
  BY <1>1, <1>2, <1>3, <1>5, <1>6
<1> QED BY <1>1, <1>7, <1>8, <1>9, <1>10, <1>11

(* Nothing on the server changes, and what was read stays read. *)
LEMMA ReadFrame ==
    ASSUME NEW c, Sound(c), Serve(c), req[c].op \in Readers, tree' = tree, node' = node
    PROVE  /\ ReadInv(c) /\ ans[c] = "running" /\ c \in Calls
           /\ got[c] \in Seq([f : Files, data : Contents])
           /\ \A f : InPlace(c, f)' <=> InPlace(c, f)
           /\ \A f : SizeCounts(c, f)' <=> SizeCounts(c, f)
           /\ \A h, p : Calm(c, h, p)' <=> Calm(c, h, p)
           /\ \A g : ReadDone(c, g)' <=> ReadDone(c, g)
<1>1. /\ ans[c] = "running" /\ Active(c) /\ req'[c] = req[c] /\ replaced' = replaced /\ c \in Calls
      /\ \A y, q : Disturbed(c, y, q)' <=> Disturbed(c, y, q)
  BY OwnFrame
<1>2. ReadInv(c) /\ got[c] \in Seq([f : Files, data : Contents])
  BY <1>1 DEF Sound, CallInv, CallTyped
<1>3. \A f : InPlace(c, f)' <=> InPlace(c, f)
  BY <1>1 DEF InPlace, Calm, Exists
<1>4. \A f : SizeCounts(c, f)' <=> SizeCounts(c, f)
  BY <1>1 DEF SizeCounts
<1>5. \A h, p : Calm(c, h, p)' <=> Calm(c, h, p)
  BY <1>1 DEF Calm
<1>6. \A g : ReadDone(c, g)' <=> ReadDone(c, g)
  BY <1>1, <1>4, <1>5 DEF ReadDone
<1> QED BY <1>1, <1>2, <1>3, <1>4, <1>5, <1>6

(* A step of a reader between two files. *)
LEMMA ReadQuiet ==
    ASSUME NEW c, Sound(c), Serve(c), req[c].op \in Readers, tree' = tree, node' = node, got' = got,
           ~Reading(c), ~Reading(c)', ReadShape(c)',
           (req[c].op = "download" /\ ans[c] = "running" /\ todo[c][1].do = "open")' =>
               (c \notin replaced =>
                  /\ Exists(home[c], req[c].path)
                  /\ Len(At(home[c], req[c].path).data) = size'[c])
    PROVE  ReadInv(c)'
<1>1. /\ ReadInv(c)
      /\ \A f : InPlace(c, f)' <=> InPlace(c, f)
      /\ \A g : ReadDone(c, g)' <=> ReadDone(c, g)
  BY ReadFrame
<1>2. PICK u : u = got[c]
  OBVIOUS
<1>3. \A i \in DOMAIN u : InPlace(c, u[i].f) /\ ReadDone(c, u[i])
  BY <1>1, <1>2 DEF ReadInv
<1>4. \A i \in DOMAIN u : InPlace(c, u[i].f)' /\ ReadDone(c, u[i])'
  BY <1>1, <1>3
<1>5. u = got'[c] /\ req'[c] = req[c] /\ home'[c] = home[c] /\ replaced' = replaced
  BY <1>2, OwnFrame
<1>6. \A i \in DOMAIN got'[c] :
          /\ InPlace(c, got[c][i].f)'
          /\ (i # Len(got[c]) \/ ~Reading(c) => ReadDone(c, got[c][i]))'
  BY <1>4, <1>5
<1> QED BY <1>5, <1>6 DEF ReadInv, Exists, At

(* The Lstat of a download gives the size of the file at its path. *)
LEMMA ReadLstat ==
    ASSUME NEW c, Sound(c), Lstat(c), req[c].op = "download"
    PROVE  ~Active(c)' \/ ReadInv(c)'
<1>0. Serve(c) /\ req[c].op \in Readers
  BY DEF Serve, Readers
<1>1. PICK p, h, r : p = Path(c) /\ h = sftp /\ r = req[c]
  OBVIOUS
<1>2. /\ ans[c] = "running" /\ Active(c) /\ req'[c] = r /\ r \in Requests /\ replaced' = replaced
      /\ home'[c] = home[c] /\ c \in Calls
  BY <1>0, <1>1, OwnFrame
<1>3. todo[c][1].do = "lstat" /\ 1 \in DOMAIN todo[c] /\ p = todo[c][1].path /\ p \in Paths
  BY <1>1, <1>2, HeadFacts DEF Lstat, Ready, Sound
<1>4. todo[c] = <<Req("lstat", r.path)>>
  <2>1. ReadShape(c)
    BY <1>0, <1>2 DEF Sound, CallInv, ReadInv
  <2> QED BY <1>1, <1>3, <2>1 DEF ReadShape, Paired
<1>5. p = r.path
  <2>1. <<Req("lstat", r.path)>>[1].path = r.path
    BY DEF Req
  <2> QED BY <1>3, <1>4, <2>1
<1>6. CASE IsDir(h, p)
  <2>1. ans'[c] = "error"
    BY <1>1, <1>2, <1>6 DEF Lstat, GiveUp, Sound, Doms
  <2> QED BY <2>1 DEF Active
<1>7. CASE ~IsDir(h, p)
  <2>1. PICK more : more = <<Req("open", p), Req("read", p), Req("close", p)>>
    OBVIOUS
  <2>2. Continue(c, more)
    BY <1>1, <1>7, <2>1 DEF Lstat, AfterLstat
  <2>3. \A do \in {"open", "read", "close"} :
           Req(do, p) \in Todos /\ Req(do, p).do = do /\ Req(do, p).path = p
    BY <1>3 DEF Req, Todos, Dos, OnClient
  <2>4. /\ more \in Seq(Todos) /\ DOMAIN more = {1, 2, 3}
        /\ more[1].do = "open" /\ more[2].do = "read" /\ more[3].do = "close"
        /\ \A i \in DOMAIN more : more[i].path = p
    <3>1. PICK x, y, z : x = Req("open", p) /\ y = Req("read", p) /\ z = Req("close", p)
      OBVIOUS
    <3>2. more = <<x, y, z>>
      BY <2>1, <3>1
    <3>3. x \in Todos /\ y \in Todos /\ z \in Todos
      BY <2>3, <3>1
    <3>4. more \in Seq(Todos) /\ DOMAIN more = {1, 2, 3} /\ more[1] = x /\ more[2] = y /\ more[3] = z
      BY <3>2, <3>3
    <3> QED BY <2>3, <3>1, <3>4
  <2>5. todo'[c] = more
    BY <1>2, <1>4, <2>2, <2>4, OneRequest
  <2>6. ReadShape(c)'
    <3>1. Paired(more)
      BY <2>4 DEF Paired
    <3> QED BY <1>2, <1>5, <2>4, <2>5, <3>1 DEF ReadShape
  <2>7. ~Reading(c) /\ ~Reading(c)'
    BY <1>3, <2>4, <2>5 DEF Reading
  <2>8. p \in DOMAIN tree[h] /\ size'[c] = Len(node[tree[h][p]].data)
    BY <1>1, <1>2 DEF Lstat, Exists, SizeOf, At, Sound, Doms
  <2>9. c \notin replaced => home[c] = h
    BY <1>0, <1>1, <1>2 DEF Sound, OnHome
  <2>10. tree' = tree /\ node' = node /\ got' = got
    BY DEF Lstat, srvVars
  <2>11. c \notin replaced =>
            Exists(home[c], req[c].path) /\ Len(At(home[c], req[c].path).data) = size'[c]
    BY <1>1, <1>5, <2>8, <2>9 DEF Exists, At
  <2> QED BY <1>0, <2>6, <2>7, <2>10, <2>11, ReadQuiet
<1> QED BY <1>6, <1>7

(* After Lstat, the requests of a reader are pairs of open and read. *)
LEMMA ReadPaired ==
    ASSUME NEW c, Sound(c), Serve(c), req[c].op \in Readers, Head(todo[c]).do # "lstat"
    PROVE  Paired(todo[c])
<1>1. ans[c] = "running" /\ Active(c)
  BY OwnFrame
<1>2. todo[c][1].do # "lstat"
  BY <1>1, HeadFacts DEF Sound
<1>3. ReadShape(c)
  BY <1>1 DEF Sound, CallInv, ReadInv
<1>4. <<Req("lstat", req[c].path)>>[1].do = "lstat"
  BY DEF Req
<1> QED BY <1>2, <1>3, <1>4 DEF ReadShape

(* A reader closes its file. *)
LEMMA ReadClose ==
    ASSUME NEW c, Sound(c), Close(c), req[c].op \in Readers
    PROVE  ReadInv(c)'
<1>0. Serve(c) /\ Continue(c, <<>>) /\ Head(todo[c]).do = "close"
  BY DEF Serve, Close, OnFile
<1>1. Paired(todo[c]) /\ todo[c][1].do = "close"
  <2>1. ans[c] = "running"
    BY DEF Close, OnFile
  <2> QED BY <1>0, <2>1, ReadPaired, HeadFacts DEF Sound
<1>2. /\ ReadShape(c)' /\ ~Reading(c)'
      /\ ~(req[c].op = "download" /\ ans[c] = "running" /\ todo[c][1].do = "open")'
  BY <1>0, <1>1, ReadRest
<1>3. ~Reading(c) /\ tree' = tree /\ node' = node /\ got' = got
  BY <1>1 DEF Reading, Close, srvVars
<1> QED BY <1>0, <1>2, <1>3, ReadQuiet

(* A reader opens its next file, with nothing read yet. *)
LEMMA ReadOpen ==
    ASSUME NEW c, Sound(c), Open(c), req[c].op \in Readers
    PROVE  ReadInv(c)'
<1>0. Serve(c) /\ Continue(c, <<>>) /\ Head(todo[c]).do = "open" /\ tree' = tree /\ node' = node
  BY DEF Serve, Open, Ready, srvVars
<1>1. PICK x, h, r : x = Path(c) /\ h = sftp /\ r = req[c]
  OBVIOUS
<1>2. PICK p : p = Follow(h, x)
  OBVIOUS
<1>3. PICK f, g, u : f = Opened(x, p, tree[h][p]) /\ g = [f |-> f, data |-> <<>>] /\ u = got[c]
  OBVIOUS
<1>4. /\ ReadInv(c) /\ ans[c] = "running" /\ c \in Calls
      /\ u \in Seq([f : Files, data : Contents])
      /\ \A e : InPlace(c, e)' <=> InPlace(c, e)
      /\ \A e : SizeCounts(c, e)' <=> SizeCounts(c, e)
      /\ \A a, b : Calm(c, a, b)' <=> Calm(c, a, b)
      /\ \A e : ReadDone(c, e)' <=> ReadDone(c, e)
  BY <1>0, <1>3, ReadFrame
<1>5. todo[c][1].do = "open" /\ x = todo[c][1].path /\ Paired(todo[c])
  BY <1>0, <1>1, <1>4, ReadPaired, HeadFacts DEF Sound
<1>6. /\ ReadShape(c)' /\ Reading(c)' /\ (r.op = "download" => x = r.path)
      /\ ~(req[c].op = "download" /\ ans[c] = "running" /\ todo[c][1].do = "open")'
  BY <1>0, <1>1, <1>5, ReadRest
<1>7. p \in DOMAIN tree[h] /\ node[tree[h][p]].kind = "file" /\ h \in Hosts /\ x \in Paths
  BY <1>1, <1>2, ReadyFacts DEF Open, IsFile, Exists, At
<1>8. /\ f.host = h /\ f.id = tree[h][p] /\ f.asked = x /\ f.path = p /\ f.pos = 0
      /\ g.f = f /\ g.data = <<>> /\ f # NoFile
  <2>1. f = [host |-> h, id |-> tree[h][p], asked |-> x, path |-> p, pos |-> 0]
    BY <1>1, <1>3 DEF Opened
  <2>2. h # Nil
    BY <1>7, HostAssumption
  <2> QED BY <1>3, <2>1, <2>2 DEF NoFile
<1>9. file'[c] = f /\ got'[c] = Append(u, g)
  BY <1>1, <1>2, <1>3, <1>4 DEF Open, Sound, Doms
<1>10. PICK n \in Nat : n = Len(u) /\ DOMAIN u = 1 .. n
  BY <1>4
<1>11. PICK v : v = got'[c] /\ Len(v) = n + 1 /\ DOMAIN v = 1 .. n + 1 /\ v[n + 1] = g
                /\ \A i \in 1 .. n : v[i] = u[i]
  <2>1. PICK T : T = [f : Files, data : Contents] \cup {g}
    OBVIOUS
  <2>2. u \in Seq(T) /\ g \in T
    <3>1. [f : Files, data : Contents] \subseteq T /\ g \in T
      BY <2>1
    <3> QED BY <1>4, <3>1, WiderSeq
  <2>3. PICK v : v = Append(u, g)
    OBVIOUS
  <2>4. v \in Seq(T) /\ Len(v) = n + 1 /\ v[n + 1] = g /\ \A i \in 1 .. n : v[i] = u[i]
    BY <1>10, <2>2, <2>3, AppendElems
  <2>5. DOMAIN v = 1 .. n + 1
    BY <1>10, <2>4
  <2> QED BY <1>9, <2>3, <2>4, <2>5
<1>12. InPlace(c, f)
  BY <1>7, <1>8 DEF InPlace, Exists
<1>13. \A i \in 1 .. n : InPlace(c, u[i].f) /\ ReadDone(c, u[i])
  <2>1. ~Reading(c)
    BY <1>5 DEF Reading
  <2> QED BY <1>3, <1>4, <1>10, <2>1 DEF ReadInv
<1>14. /\ \A i \in 1 .. n + 1 : InPlace(c, v[i].f)'
       /\ \A i \in 1 .. n + 1 : i # n + 1 => ReadDone(c, v[i])'
  <2>1. \A i \in 1 .. n + 1 : i \in 1 .. n \/ i = n + 1
    OBVIOUS
  <2> QED BY <1>4, <1>8, <1>11, <1>12, <1>13, <2>1
<1>15. Calm(c, h, p) => 0 <= Len(node[tree[h][p]].data)
  <2>1. node[tree[h][p]] \in NodeRecs
    BY <1>7, NodeAt DEF Sound
  <2>2. node[tree[h][p]].data \in Contents
    BY <1>7, <2>1 DEF NodeRecs
  <2> QED BY <2>2 DEF Contents
<1>16. Calm(c, h, p) /\ SizeCounts(c, f) => Len(node[tree[h][p]].data) = size[c]
  <2> SUFFICES ASSUME Calm(c, h, p), SizeCounts(c, f)
               PROVE  Len(node[tree[h][p]].data) = size[c]
    OBVIOUS
  <2>1. r.op = "download" /\ c \notin replaced /\ x = p /\ p = r.path
    BY <1>1, <1>6, <1>8 DEF SizeCounts
  <2>2. home[c] = h
    BY <1>1, <1>4, <2>1 DEF Sound, OnHome
  <2> QED BY <1>1, <1>4, <1>5, <2>1, <2>2 DEF ReadInv, Exists, At
<1>17. Partial(c)'
  <2>1. got'[c] # <<>> /\ got'[c][Len(got'[c])] = g
    BY <1>9, <1>11
  <2>2. size'[c] = size[c]
    BY DEF Open
  <2>3. \A k \in 1 .. 0 : FALSE
    OBVIOUS
  <2>4. Len(g.data) = 0
    BY <1>8
  <2>5. SizeCounts(c, f)' => SizeCounts(c, f)
    BY <1>4
  <2>6. Calm(c, h, p)' => Calm(c, h, p)
    BY <1>4
  <2> QED BY <1>0, <1>8, <1>9, <1>15, <1>16, <2>1, <2>2, <2>3, <2>4, <2>5, <2>6 DEF Partial
<1>18. \A i \in DOMAIN got'[c] :
          /\ InPlace(c, got[c][i].f)'
          /\ (i # Len(got[c]) \/ ~Reading(c) => ReadDone(c, got[c][i]))'
  BY <1>6, <1>11, <1>14
<1> QED BY <1>6, <1>17, <1>18 DEF ReadInv

(* The contents of the last file that was opened are replaced by w. *)
Amended(u, v, n, w) ==
    /\ v # <<>> /\ Len(v) = n /\ DOMAIN v = 1 .. n
    /\ v[n].f = u[n].f /\ v[n].data = w
    /\ \A i \in 1 .. n : i # n => v[i] = u[i]

(* The last element of a sequence of contents, replaced. *)
LEMMA AmendedFacts ==
    ASSUME NEW R, NEW u \in Seq([f : R, data : Contents]), NEW n \in Nat, n > 0, n = Len(u), NEW w, NEW v,
           v = [u EXCEPT ![n].data = w]
    PROVE  Amended(u, v, n, w)
<1>1. PICK g : g = u[n] /\ g \in [f : R, data : Contents]
  <2>1. PICK T : T = [f : R, data : Contents]
    OBVIOUS
  <2>2. u \in Seq(T)
    BY <2>1
  <2>3. u[n] \in T
    BY <2>2
  <2> QED BY <2>1, <2>3
<1>2. PICK y : y = [g EXCEPT !.data = w]
  OBVIOUS
<1>3. y.f = g.f /\ y.data = w
  BY <1>1, <1>2
<1>4. DOMAIN u = 1 .. n
  OBVIOUS
<1>5. v = [i \in 1 .. n |-> IF i = n THEN y ELSE u[i]]
  BY <1>1, <1>2, <1>4
<1>6. DOMAIN v = 1 .. n /\ v[n] = y /\ \A i \in 1 .. n : i # n => v[i] = u[i]
  BY <1>5
<1>7. Len(v) = n /\ v # <<>>
  <2>1. v \in Seq({y} \cup {u[i] : i \in 1 .. n})
    BY <1>5
  <2> QED BY <1>6, <2>1
<1> QED BY <1>1, <1>3, <1>6, <1>7 DEF Amended

(* A read adds what is next in the file; the last one completes it. *)
LEMMA ReadRead ==
    ASSUME NEW c, Sound(c), Read(c), req[c].op \in Readers
    PROVE  ReadInv(c)'
<1>0. Serve(c) /\ Head(todo[c]).do = "read" /\ tree' = tree /\ node' = node
  BY DEF Serve, Read, OnFile, srvVars
<1>1. PICK f, u, r : f = file[c] /\ u = got[c] /\ r = req[c]
  OBVIOUS
<1>2. /\ ReadInv(c) /\ ans[c] = "running" /\ c \in Calls
      /\ u \in Seq([f : Files, data : Contents])
      /\ \A e : InPlace(c, e)' <=> InPlace(c, e)
      /\ \A e : SizeCounts(c, e)' <=> SizeCounts(c, e)
      /\ \A a, b : Calm(c, a, b)' <=> Calm(c, a, b)
      /\ \A e : ReadDone(c, e)' <=> ReadDone(c, e)
  BY <1>0, <1>1, ReadFrame
<1>3. todo[c][1].do = "read" /\ Paired(todo[c]) /\ Reading(c)
  BY <1>0, <1>2, ReadPaired, HeadFacts DEF Sound, Reading
<1>4. Partial(c)
  BY <1>2, <1>3 DEF ReadInv
<1>5. PICK n \in Nat : n = Len(u) /\ n > 0 /\ DOMAIN u = 1 .. n
  BY <1>1, <1>2, <1>4 DEF Partial
<1>6. PICK g \in [f : Files, data : Contents] : g = u[n]
  <2>1. PICK T : T = [f : Files, data : Contents]
    OBVIOUS
  <2>2. u \in Seq(T)
    BY <1>2, <2>1
  <2>3. u[n] \in T
    BY <1>5, <2>2
  <2> QED BY <2>1, <2>3
<1>7. /\ f # NoFile /\ g.f.host = f.host /\ g.f.id = f.id /\ g.f.asked = f.asked /\ g.f.path = f.path
      /\ Calm(c, f.host, f.path) =>
            /\ Len(g.data) = f.pos /\ f.pos <= Len(node[f.id].data)
            /\ \A k \in 1 .. f.pos : g.data[k] = node[f.id].data[k]
            /\ SizeCounts(c, f) => Len(node[f.id].data) = size[c]
  BY <1>1, <1>4, <1>5, <1>6 DEF Partial
<1>8. OpenFile(f)
  BY <1>1, <1>7 DEF Sound, CallTyped
<1>9. PICK data \in Contents : data = node[f.id].data
  <2>1. f.id \in DOMAIN node /\ node[f.id].kind = "file"
    BY <1>8 DEF OpenFile, Files
  <2>2. node[f.id] \in NodeRecs
    BY <2>1 DEF Sound, ServerInv
  <2>3. node[f.id].data \in Contents
    BY <2>1, <2>2 DEF NodeRecs
  <2> QED BY <2>3, Zenon
<1>10. data \in Seq(Units \cup {0}) /\ Len(data) \in Nat /\ g.data \in Seq(Units \cup {0}) /\ Len(g.data) \in Nat
       /\ f.pos \in Nat
  BY <1>6, <1>8, <1>9 DEF Contents, OpenFile, Files
<1>11. \A i \in 1 .. n : InPlace(c, u[i].f) /\ (i # n => ReadDone(c, u[i]))
  BY <1>1, <1>2, <1>5 DEF ReadInv
<1>12. ASSUME NEW v, v = got'[c], DOMAIN v = 1 .. n, v[n].f = g.f, \A i \in 1 .. n : i # n => v[i] = u[i]
       PROVE  /\ \A i \in 1 .. n : InPlace(c, v[i].f)'
              /\ \A i \in 1 .. n : i # n => ReadDone(c, v[i])'
  <2>1. \A i \in 1 .. n : InPlace(c, v[i].f)
    BY <1>6, <1>11, <1>12
  <2>2. \A i \in 1 .. n : i # n => ReadDone(c, v[i])
    BY <1>11, <1>12
  <2> QED BY <1>2, <2>1, <2>2
<1>13. CASE /\ f.pos < Len(data)
            /\ got' = [got EXCEPT ![c][n].data = Append(@, data[f.pos + 1])]
            /\ file' = [file EXCEPT ![c].pos = @ + 1]
            /\ UNCHANGED <<todo, ans>>
  <2>1. PICK w : w = Append(g.data, data[f.pos + 1])
    OBVIOUS
  <2>2. got' = [got EXCEPT ![c][n].data = w]
    BY <1>1, <1>6, <1>13, <2>1
  <2>3. PICK v : /\ v = got'[c] /\ v # <<>> /\ Len(v) = n /\ DOMAIN v = 1 .. n
                 /\ v[n].f = g.f /\ v[n].data = w
                 /\ \A i \in 1 .. n : i # n => v[i] = u[i]
    <3>1. PICK v : v = [u EXCEPT ![n].data = w]
      OBVIOUS
    <3>2. v = got'[c]
      BY <1>1, <1>2, <2>2, <3>1 DEF Sound, Doms
    <3>3. /\ v # <<>> /\ Len(v) = n /\ DOMAIN v = 1 .. n
          /\ v[n].f = g.f /\ v[n].data = w
          /\ \A i \in 1 .. n : i # n => v[i] = u[i]
      <4>1. Amended(u, v, n, w)
        BY <1>2, <1>5, <3>1, AmendedFacts
      <4> QED BY <1>6, <4>1 DEF Amended
    <3> QED BY <3>2, <3>3, Zenon
  <2>4. /\ \A i \in 1 .. n : InPlace(c, v[i].f)'
        /\ \A i \in 1 .. n : i # n => ReadDone(c, v[i])'
    BY <1>12, <2>3
  <2>5. PICK e : e = file'[c]
    OBVIOUS
  <2>6. e.host = f.host /\ e.id = f.id /\ e.asked = f.asked /\ e.path = f.path /\ e.pos = f.pos + 1 /\ e # NoFile
    <3>1. f \in Files
      BY <1>8 DEF OpenFile
    <3>2. e = [f EXCEPT !.pos = @ + 1]
      BY <1>1, <1>2, <1>13, <2>5 DEF Sound, Doms
    <3>3. e.host = f.host /\ e.id = f.id /\ e.asked = f.asked /\ e.path = f.path /\ e.pos = f.pos + 1
      BY <3>1, <3>2 DEF Files
    <3>4. f.host # Nil
      BY <3>1, HostAssumption DEF Files
    <3> QED BY <3>3, <3>4 DEF NoFile
  <2>7. data[f.pos + 1] \in Units \cup {0}
    BY <1>10, <1>13
  <2>8. /\ Len(w) = Len(g.data) + 1 /\ w[Len(g.data) + 1] = data[f.pos + 1]
        /\ \A i \in 1 .. Len(g.data) : w[i] = g.data[i]
    BY <1>10, <2>1, <2>7, AppendElems
  <2>9. Calm(c, f.host, f.path) =>
          /\ Len(w) = e.pos /\ e.pos <= Len(data)
          /\ \A k \in 1 .. e.pos : w[k] = data[k]
          /\ SizeCounts(c, f) => Len(data) = size[c]
    <3> SUFFICES ASSUME Calm(c, f.host, f.path)
                 PROVE  /\ Len(w) = e.pos /\ e.pos <= Len(data)
                        /\ \A k \in 1 .. e.pos : w[k] = data[k]
                        /\ SizeCounts(c, f) => Len(data) = size[c]
      OBVIOUS
    <3>1. Len(g.data) = f.pos /\ \A k \in 1 .. f.pos : g.data[k] = data[k]
      BY <1>7, <1>9
    <3>2. \A k \in 1 .. e.pos : k \in 1 .. f.pos \/ k = f.pos + 1
      BY <1>10, <2>6
    <3>3. \A k \in 1 .. e.pos : w[k] = data[k]
      BY <1>10, <2>6, <2>8, <3>1, <3>2
    <3> QED BY <1>7, <1>9, <1>10, <1>13, <2>6, <2>8, <3>1, <3>3
  <2>10. SizeCounts(c, e) <=> SizeCounts(c, f)
    BY <2>6 DEF SizeCounts
  <2>11. Partial(c)'
    <3>1. size'[c] = size[c]
      BY DEF Read
    <3>2. Calm(c, f.host, f.path)' <=> Calm(c, f.host, f.path)
      BY <1>2
    <3>3. SizeCounts(c, e)' <=> SizeCounts(c, e)
      BY <1>2
    <3> QED BY <1>0, <1>7, <1>9, <2>3, <2>5, <2>6, <2>9, <2>10, <3>1, <3>2, <3>3 DEF Partial
  <2>12. ReadShape(c)' /\ Reading(c)' /\ ~(todo[c][1].do = "open")'
    <3>1. req'[c] = req[c]
      BY <1>0, OwnFrame
    <3> QED BY <1>2, <1>3, <1>13, <3>1 DEF ReadInv, ReadShape, Reading
  <2>13. \A i \in DOMAIN got'[c] :
            /\ InPlace(c, got[c][i].f)'
            /\ (i # Len(got[c]) \/ ~Reading(c) => ReadDone(c, got[c][i]))'
    BY <2>3, <2>4, <2>12
  <2> QED BY <2>11, <2>12, <2>13 DEF ReadInv
<1>14. CASE /\ f.pos >= Len(data)
            /\ got' = [got EXCEPT ![c][n].data = IF r.op = "download" THEN Fit(@, size[c]) ELSE @]
            /\ Continue(c, <<>>)
            /\ UNCHANGED file
  <2>1. PICK w : w = IF r.op = "download" THEN Fit(g.data, size[c]) ELSE g.data
    OBVIOUS
  <2>2. got' = [got EXCEPT ![c][n].data = w]
    BY <1>1, <1>6, <1>14, <2>1
  <2>3. PICK v : /\ v = got'[c] /\ v # <<>> /\ Len(v) = n /\ DOMAIN v = 1 .. n
                 /\ v[n].f = g.f /\ v[n].data = w
                 /\ \A i \in 1 .. n : i # n => v[i] = u[i]
    <3>1. PICK v : v = [u EXCEPT ![n].data = w]
      OBVIOUS
    <3>2. v = got'[c]
      BY <1>1, <1>2, <2>2, <3>1 DEF Sound, Doms
    <3>3. /\ v # <<>> /\ Len(v) = n /\ DOMAIN v = 1 .. n
          /\ v[n].f = g.f /\ v[n].data = w
          /\ \A i \in 1 .. n : i # n => v[i] = u[i]
      <4>1. Amended(u, v, n, w)
        BY <1>2, <1>5, <3>1, AmendedFacts
      <4> QED BY <1>6, <4>1 DEF Amended
    <3> QED BY <3>2, <3>3, Zenon
  <2>4. /\ \A i \in 1 .. n : InPlace(c, v[i].f)'
        /\ \A i \in 1 .. n : i # n => ReadDone(c, v[i])'
    BY <1>12, <2>3
  <2>5. Calm(c, f.host, f.path) => g.data = data
    <3> SUFFICES ASSUME Calm(c, f.host, f.path) PROVE g.data = data
      OBVIOUS
    <3>1. Len(g.data) = f.pos /\ f.pos <= Len(data) /\ \A k \in 1 .. f.pos : g.data[k] = data[k]
      BY <1>7, <1>9
    <3>2. Len(g.data) = Len(data)
      BY <1>10, <1>14, <3>1
    <3> QED BY <1>10, <3>1, <3>2
  <2>6. ASSUME Calm(c, f.host, f.path), r.op = "download" => SizeCounts(c, f) PROVE w = data
    <3>1. CASE r.op = "download"
      <4>1. Len(data) = size[c]
        BY <1>7, <1>9, <2>6, <3>1
      <4>2. Fit(data, Len(data)) = data
        BY <1>10 DEF Fit
      <4> QED BY <2>1, <2>5, <2>6, <3>1, <4>1, <4>2
    <3>2. CASE r.op # "download"
      BY <2>1, <2>5, <2>6, <3>2
    <3> QED BY <3>1, <3>2
  <2>7. ReadDone(c, v[n])
    BY <1>1, <1>7, <1>9, <2>3, <2>6 DEF ReadDone, SizeCounts
  <2>8. ReadDone(c, v[n])'
    BY <1>2, <2>7
  <2>9. /\ ReadShape(c)' /\ ~Reading(c)'
        /\ ~(req[c].op = "download" /\ ans[c] = "running" /\ todo[c][1].do = "open")'
    BY <1>0, <1>3, <1>14, ReadRest
  <2>10. \A i \in 1 .. n : ReadDone(c, v[i])'
    BY <2>4, <2>8
  <2>11. \A i \in DOMAIN got'[c] :
            /\ InPlace(c, got[c][i].f)'
            /\ (i # Len(got[c]) \/ ~Reading(c) => ReadDone(c, got[c][i]))'
    BY <2>3, <2>4, <2>10
  <2> QED BY <2>9, <2>11 DEF ReadInv
<1> QED BY <1>1, <1>5, <1>9, <1>13, <1>14 DEF Read

-----------------------------------------------------------------------------
(* Writers: before the file is open. *)

(* The name that an upload takes is free, or all counted names are taken. *)
LEMMA FreeNameFacts ==
    ASSUME NEW name \in Names, NEW taken, NEW n, n = FreeName(name, taken)
    PROVE  /\ n \in Entries
           /\ n \notin taken \/ \A i \in 1 .. MaxSuffix : Counted(name, i) \in taken
<1>1. PICK free : free = {i \in 1 .. MaxSuffix : Counted(name, i) \notin taken}
  OBVIOUS
<1>2. CASE name \notin taken \/ free = {}
  <2>1. n = name
    BY <1>1, <1>2 DEF FreeName
  <2> QED BY <1>1, <1>2, <2>1 DEF Entries
<1>3. CASE ~(name \notin taken \/ free = {})
  <2>1. \E i \in free : \A j \in free : i <= j
    <3>1. free \subseteq Nat
      BY <1>1, SuffixAssumption
    <3> QED BY <1>3, <3>1, LeastNat
  <2>2. PICK k : k = CHOOSE i \in free : \A j \in free : i <= j
    OBVIOUS
  <2>3. k \in free
    BY <2>1, <2>2
  <2>4. n = Counted(name, k)
    BY <1>1, <1>3, <2>2 DEF FreeName
  <2>5. k \in 1 .. MaxSuffix /\ Counted(name, k) \notin taken
    BY <1>1, <2>3
  <2> QED BY <2>4, <2>5 DEF Entries
<1> QED BY <1>2, <1>3

(* What may be left of a list of one, two or three. *)
LEMMA Lists ==
    ASSUME NEW x, NEW y, NEW z
    PROVE  /\ Head(<<x>>) = x /\ Head(<<x, y>>) = x /\ Head(<<x, y, z>>) = x
           /\ Tail(<<x, y>>) = <<y>> /\ Tail(<<x, y, z>>) = <<y, z>>
           /\ <<y>> # <<>> /\ <<y, z>> # <<>>
  OBVIOUS

(* Which step an upload that has yet to open its file takes. *)
LEMMA UnopenedFacts ==
    ASSUME NEW c, Sound(c), ans[c] = "running", req[c].op \in Writers, file[c] = NoFile,
           NEW x, x = Head(todo[c])
    PROVE  /\ Unopened(c)
           /\ x.do = "realpath" =>
                 /\ req[c].op = "uploadToDownloads"
                 /\ Tail(todo[c]) = <<Req("mkdirall", Downloads), Req("readdir", Downloads)>>
           /\ x.do = "mkdirall" =>
                 /\ req[c].op = "uploadToDownloads" /\ x.path = Downloads
                 /\ Tail(todo[c]) = <<Req("readdir", Downloads)>>
           /\ x.do = "readdir" =>
                 /\ req[c].op \in Uploads /\ todo[c] = <<x>>
                 /\ x.path = IF req[c].op = "upload" THEN req[c].path ELSE Downloads
           /\ x.do \in {"truncate", "create"} => todo[c] = <<x>>
<1>1. Unopened(c)
  BY DEF Sound, CallInv, Active, WriteInv
<1>2. PICK r, s : r = req[c] /\ s = todo[c]
  OBVIOUS
<1>3. PICK rp, mk, rd, tr, ru :
         /\ rp = Req("realpath", <<>>) /\ mk = Req("mkdirall", Downloads) /\ rd = Req("readdir", Downloads)
         /\ tr = Req("truncate", r.path) /\ ru = Req("readdir", r.path)
  OBVIOUS
<1>4. /\ rp.do = "realpath" /\ mk.do = "mkdirall" /\ rd.do = "readdir" /\ tr.do = "truncate"
      /\ ru.do = "readdir" /\ rd.path = Downloads /\ ru.path = r.path /\ mk.path = Downloads
  BY <1>3 DEF Req
<1>5. /\ Head(<<rp, mk, rd>>) = rp /\ Tail(<<rp, mk, rd>>) = <<mk, rd>>
      /\ Head(<<mk, rd>>) = mk /\ Tail(<<mk, rd>>) = <<rd>> /\ Head(<<rd>>) = rd
      /\ Head(<<tr>>) = tr /\ Head(<<ru>>) = ru
  BY Lists
<1>6. \A q : Head(<<Req("create", q)>>) = Req("create", q) /\ Req("create", q).do = "create"
  BY Lists DEF Req
<1>7. \/ r.op = "edit" /\ s = <<tr>>
      \/ r.op = "upload" /\ s = <<ru>>
      \/ r.op = "uploadToDownloads" /\ (s = <<rp, mk, rd>> \/ s = <<mk, rd>> \/ s = <<rd>>)
      \/ \E q : s = <<Req("create", q)>>
  BY <1>1, <1>2, <1>3 DEF Unopened
<1>8. CASE r.op = "edit" /\ s = <<tr>>
  BY <1>1, <1>2, <1>4, <1>5, <1>8
<1>9. CASE r.op = "upload" /\ s = <<ru>>
  BY <1>1, <1>2, <1>4, <1>5, <1>9 DEF Uploads
<1>10. CASE r.op = "uploadToDownloads" /\ s = <<rp, mk, rd>>
  BY <1>1, <1>2, <1>3, <1>4, <1>5, <1>10
<1>11. CASE r.op = "uploadToDownloads" /\ s = <<mk, rd>>
  BY <1>1, <1>2, <1>3, <1>4, <1>5, <1>11
<1>12. CASE r.op = "uploadToDownloads" /\ s = <<rd>>
  BY <1>1, <1>2, <1>3, <1>4, <1>5, <1>12 DEF Uploads
<1>13. CASE \E q : s = <<Req("create", q)>>
  BY <1>1, <1>2, <1>6, <1>13
<1> QED BY <1>7, <1>8, <1>9, <1>10, <1>11, <1>12, <1>13

(* RealPath and MkdirAll of an upload. *)
LEMMA WritePrepare ==
    ASSUME NEW c, Sound(c), req[c].op \in Writers, RealPath(c) \/ Mkdir(c)
    PROVE  WriteInv(c)'
<1>0. Serve(c) /\ Continue(c, <<>>) /\ file' = file
  BY DEF Serve, RealPath, Mkdir
<1>1. PICK x, r : x = Head(todo[c]) /\ r = req[c]
  OBVIOUS
<1>2. ans[c] = "running" /\ c \in Calls /\ req'[c] = r
  BY <1>0, <1>1, OwnFrame
<1>3. x.do \in {"realpath", "mkdir", "mkdirall"} /\ Role(r.op, file[c], x.do)
  BY <1>1, ReadyFacts DEF RealPath, Mkdir, Ready
<1>4. file[c] = NoFile /\ x.do \in {"realpath", "mkdirall"}
  BY <1>1, <1>3 DEF Role, Readers, Writers, Uploads
<1>5. todo'[c] = <<>> \o Tail(todo[c]) /\ ans'[c] = IF todo'[c] = <<>> THEN "ok" ELSE "running"
  BY <1>0, <1>2 DEF Continue, Sound, Doms
<1>6. PICK mk, rd : mk = Req("mkdirall", Downloads) /\ rd = Req("readdir", Downloads)
  OBVIOUS
<1>7. r.op = "uploadToDownloads" /\ (Tail(todo[c]) = <<mk, rd>> \/ Tail(todo[c]) = <<rd>>)
  BY <1>1, <1>2, <1>4, <1>6, UnopenedFacts
<1>8. <<>> \o <<mk, rd>> = <<mk, rd>> /\ <<>> \o <<rd>> = <<rd>>
  OBVIOUS
<1>9. <<mk, rd>> # <<>> /\ <<rd>> # <<>>
  OBVIOUS
<1>10. (todo'[c] = <<mk, rd>> \/ todo'[c] = <<rd>>) /\ ans'[c] = "running"
  BY <1>5, <1>7, <1>8, <1>9
<1>11. Unopened(c)'
  BY <1>2, <1>6, <1>7, <1>10 DEF Unopened
<1> QED BY <1>0, <1>4, <1>10, <1>11 DEF WriteInv

(* The entries of a directory. *)
LEMMA TakenName ==
    ASSUME ServerInv, NEW h \in Hosts, NEW p \in Paths, NEW n \in Entries
    PROVE  n \in Taken(h, p) <=> Append(p, n) \in DOMAIN tree[h]
<1>1. PICK q : q = Append(p, n)
  OBVIOUS
<1>2. q # <<>> /\ Front(q) = p /\ Last(q) = n
  BY <1>1, AppendFacts DEF Paths
<1>3. ASSUME q \in DOMAIN tree[h] PROVE n \in Taken(h, p)
  BY <1>2, <1>3 DEF Taken, Children
<1>4. ASSUME n \in Taken(h, p) PROVE q \in DOMAIN tree[h]
  <2>1. PICK y \in Children(h, p) : Last(y) = n
    BY <1>4 DEF Taken
  <2>2. y \in DOMAIN tree[h] /\ y # <<>> /\ Front(y) = p
    BY DEF Children
  <2>3. y \in Seq(Entries)
    BY <2>2, NodeAt DEF Paths
  <2>4. Append(Front(y), Last(y)) = y
    BY <2>2, <2>3, FrontFacts
  <2> QED BY <1>1, <2>1, <2>2, <2>4
<1> QED BY <1>1, <1>3, <1>4

(* The ReadDir of an upload finds a name. *)
LEMMA WriteReadDir ==
    ASSUME NEW c, Sound(c), req[c].op \in Writers, ReadDir(c)
    PROVE  ~Active(c)' \/ WriteInv(c)'
<1>0. Serve(c) /\ file' = file /\ tree' = tree /\ node' = node
  BY DEF Serve, ReadDir, srvVars
<1>1. PICK x, r, h, g : x = Head(todo[c]) /\ r = req[c] /\ h = sftp /\ g = home[c]
  OBVIOUS
<1>2. /\ ans[c] = "running" /\ c \in Calls /\ req'[c] = r /\ r \in Requests /\ home'[c] = g
      /\ replaced' = replaced
      /\ \A y, q : Disturbed(c, y, q)' <=> Disturbed(c, y, q)
  BY <1>0, <1>1, OwnFrame
<1>3. x.do = "readdir" /\ Role(r.op, file[c], x.do) /\ h \in Hosts
  BY <1>1, ReadyFacts DEF ReadDir, Ready
<1>4. file[c] = NoFile
  BY <1>1, <1>3 DEF Role, Readers, Writers, Uploads
<1>5. PICK p : p = IF r.op = "upload" THEN r.path ELSE Downloads
  OBVIOUS
<1>6. r.op \in Uploads /\ todo[c] = <<x>> /\ x.path = p
  BY <1>1, <1>2, <1>3, <1>4, <1>5, UnopenedFacts
<1>7. Path(c) = p /\ p \in Paths
  BY <1>1, <1>2, <1>6, HeadFacts DEF Path, Sound
<1>8. ServerInv
  BY DEF Sound
<1>9. r.name \in Names /\ r.name \in Entries
  BY <1>2, <1>6, RequestFacts, RequestAssumption DEF Entries
<1>10. PICK taken : taken = Taken(h, p)
  OBVIOUS
<1>11. CASE r.op = "upload" /\ r.name \in taken
  <2>1. ans'[c] = "error"
    BY <1>1, <1>2, <1>7, <1>10, <1>11 DEF ReadDir, GiveUp, Sound, Doms
  <2> QED BY <2>1 DEF Active
<1>12. CASE ~(r.op = "upload" /\ r.name \in taken)
  <2>1. PICK n : n = IF r.op = "upload" THEN r.name ELSE FreeName(r.name, taken)
    OBVIOUS
  <2>2. PICK q, y, more : q = Append(p, n) /\ y = Req("create", q) /\ more = <<y>>
    OBVIOUS
  <2>3. Continue(c, more)
    BY <1>1, <1>6, <1>7, <1>10, <1>12, <2>1, <2>2 DEF ReadDir, AfterReadDir, Uploads
  <2>4. /\ n \in Entries
        /\ n \notin taken \/ (r.op = "uploadToDownloads" /\ \A i \in 1 .. MaxSuffix : Counted(r.name, i) \in taken)
    BY <1>6, <1>9, <1>12, <2>1, FreeNameFacts DEF Uploads
  <2>5. q \in Paths
    BY <1>7, <2>2, <2>4, AppendFacts DEF Paths
  <2>6. more \in Seq(Todos)
    <3>1. y \in Todos
      BY <2>2, <2>5 DEF Req, Todos, Dos, OnClient
    <3> QED BY <2>2, <3>1
  <2>7. todo'[c] = more
    BY <1>2, <1>6, <2>3, <2>6, OneRequest
  <2>8. ans'[c] = "running"
    <3>1. ans'[c] = IF todo'[c] = <<>> THEN "ok" ELSE "running"
      BY <1>2, <2>3, <2>6, ContinueElems
    <3> QED BY <2>2, <2>7, <3>1
  <2>9. CASE n \notin taken
    <3>1. q \notin DOMAIN tree[h]
      BY <1>3, <1>7, <1>8, <1>10, <2>2, <2>4, <2>9, TakenName
    <3> QED
      <4>1. c \notin replaced => g = h
        BY <1>1, <1>2, <1>6 DEF Sound, OnHome, Uploads
      <4>2. NotThere(c, q)'
        BY <1>0, <1>2, <3>1, <4>1 DEF NotThere, Exists
      <4>3. todo'[c][1].path = q
        BY <2>2, <2>7 DEF Req
      <4>4. Unopened(c)'
        BY <1>2, <1>5, <1>6, <2>2, <2>4, <2>7, <4>2, <4>3 DEF Unopened
      <4> QED BY <1>0, <1>4, <2>8, <4>4 DEF WriteInv
  <2>10. CASE r.op = "uploadToDownloads" /\ \A i \in 1 .. MaxSuffix : Counted(r.name, i) \in taken
    <3>1. p = Downloads
      BY <1>5, <2>10
    <3>2. ASSUME NEW i \in 1 .. MaxSuffix
          PROVE  Append(Downloads, Counted(r.name, i)) \in DOMAIN tree[h]
      <4>1. Counted(r.name, i) \in Entries
        BY <1>9 DEF Entries
      <4> QED BY <1>3, <1>7, <1>8, <1>10, <2>10, <3>1, <4>1, TakenName
    <3>3. UsedUp(c, h)'
      BY <1>0, <1>2, <2>10, <3>2 DEF UsedUp, Exists
    <3>4. c \notin replaced => g = h
      BY <1>1, <1>2, <1>6 DEF Sound, OnHome, Uploads
    <3>5. NotThere(c, q)'
      BY <1>2, <3>3, <3>4 DEF NotThere
    <3>6. todo'[c][1].path = q
      BY <2>2, <2>7 DEF Req
    <3>7. Unopened(c)'
      BY <1>2, <1>5, <1>6, <2>2, <2>4, <2>7, <3>5, <3>6 DEF Unopened
    <3> QED BY <1>0, <1>4, <2>8, <3>7 DEF WriteInv
  <2> QED BY <2>4, <2>9, <2>10
<1> QED BY <1>11, <1>12

(* The file is opened and then written. *)
LEMMA WritesFacts ==
    ASSUME NEW r \in Requests, NEW p \in Paths, NEW w, w = Writes(r, p), NEW n, n = Len(r.data)
    PROVE  /\ w \in Seq(Todos) /\ n \in Nat /\ Len(w) = n + (IF r.op = "edit" THEN 0 ELSE 1)
           /\ \A i \in DOMAIN w : w[i].do = IF i <= n THEN "write" ELSE "close"
<1>1. r.data \in Seq(Units \cup {0})
  BY RequestFacts DEF Contents
<1>2. n \in Nat /\ DOMAIN r.data = 1 .. n
  BY <1>1
<1>3. PICK x, y : x = Req("write", p) /\ y = Req("close", p)
  OBVIOUS
<1>4. x \in Todos /\ y \in Todos /\ x.do = "write" /\ y.do = "close"
  BY <1>3 DEF Req, Todos, Dos
<1>5. PICK a : a = [i \in 1 .. n |-> x]
  OBVIOUS
<1>6. a \in Seq(Todos) /\ Len(a) = n /\ \A i \in 1 .. n : a[i] = x
  BY <1>2, <1>4, <1>5
<1>7. CASE r.op = "edit"
  <2>1. w = a \o <<>>
    BY <1>2, <1>3, <1>5, <1>7 DEF Writes
  <2>2. w = a
    BY <1>6, <2>1
  <2>3. \A i \in DOMAIN w : w[i].do = "write" /\ i <= n
    BY <1>2, <1>4, <1>6, <2>2
  <2> QED BY <1>2, <1>6, <1>7, <2>2, <2>3
<1>8. CASE r.op # "edit"
  <2>0. <<y>> \in Seq(Todos) /\ Len(<<y>>) = 1 /\ <<y>>[1] = y
    BY <1>4
  <2>1. PICK b : b = <<y>> /\ b \in Seq(Todos) /\ Len(b) = 1 /\ b[1] = y
    BY <2>0, Zenon
  <2>2. w = a \o b
    BY <1>2, <1>3, <1>5, <1>8, <2>1 DEF Writes
  <2>3. /\ a \o b \in Seq(Todos) /\ Len(a \o b) = Len(a) + Len(b)
        /\ \A i \in 1 .. Len(a) : (a \o b)[i] = a[i]
        /\ \A i \in 1 .. Len(b) : (a \o b)[Len(a) + i] = b[i]
    BY <1>6, <2>1, Concat
  <2>4. w \in Seq(Todos) /\ Len(w) = n + 1 /\ \A i \in 1 .. n : w[i] = x
    BY <1>6, <2>1, <2>2, <2>3
  <2>5. w[n + 1] = y
    <3>1. 1 \in 1 .. Len(b)
      BY <2>1
    <3>2. (a \o b)[Len(a) + 1] = b[1]
      BY <2>3, <3>1
    <3> QED BY <1>6, <2>1, <2>2, <3>2
  <2>6. ASSUME NEW i \in DOMAIN w PROVE w[i].do = IF i <= n THEN "write" ELSE "close"
    <3>1. i \in 1 .. n \/ i = n + 1
      BY <1>2, <2>4
    <3> QED BY <1>2, <1>4, <2>4, <2>5, <3>1
  <2> QED BY <1>2, <1>8, <2>4, <2>6
<1> QED BY <1>7, <1>8

(* What an open file for writing is. *)
JustOpened(c, h, p, f) ==
    /\ file'[c] = f /\ f.host = h /\ f.path = p /\ f.asked = Path(c) /\ f.pos = 0 /\ f # NoFile
    /\ f.id = tree'[h][p] /\ p \in DOMAIN tree'[h] /\ f.id \in DOMAIN node' /\ node'[f.id].kind = "file"
    /\ node'[f.id].data = <<>> /\ f \in [host : Hosts, id : DOMAIN node', asked : Paths, path : Paths, pos : Nat]
    /\ f.id[1] = h

(* The file that an upload or edit opened. *)
LEMMA OpenedFacts ==
    ASSUME NEW c, Sound(c), OpenToWrite(c), NEW h, h = sftp, NEW p, p = Follow(h, Path(c)), NEW f, f = file'[c]
    PROVE  JustOpened(c, h, p, f)
<1>0. Serve(c)
  BY DEF Serve
<1>1. h \in Hosts /\ p \in Paths /\ ServerInv' /\ Emptied(c, h, p) /\ ServerInv
  BY OpenEffect DEF Sound
<1>2. c \in Calls /\ ans[c] = "running" /\ Path(c) \in Paths
  BY <1>0, OwnFrame, HeadFacts DEF Sound
<1>3. f = [host |-> h, id |-> tree'[h][p], asked |-> Path(c), path |-> p, pos |-> 0]
  BY <1>2 DEF OpenToWrite, Opened, Sound, Doms
<1>4. p \in DOMAIN tree'[h] /\ node'[tree'[h][p]].kind = "file" /\ node'[tree'[h][p]].data = <<>>
  <2>1. CASE IsFile(h, p) /\ tree' = tree /\ node'[tree[h][p]].kind = "file" /\ node'[tree[h][p]].data = <<>>
    BY <2>1 DEF IsFile, Exists
  <2>2. ASSUME NEW id, NEW n, n.kind = "file", n.data = <<>>, WasPut(c, h, p, id, n)
        PROVE  p \in DOMAIN tree'[h] /\ node'[tree'[h][p]].kind = "file" /\ node'[tree'[h][p]].data = <<>>
    BY <2>2 DEF WasPut
  <2> QED BY <1>1, <2>1, <2>2 DEF Emptied
<1>5. tree'[h][p] \in DOMAIN node' /\ tree'[h][p][1] = h
  BY <1>1, <1>4 DEF ServerInv, GoodTree
<1>6. h # Nil
  BY <1>1, HostAssumption
<1>7. f # NoFile
  BY <1>3, <1>6 DEF NoFile
<1> QED BY <1>1, <1>2, <1>3, <1>4, <1>5, <1>7 DEF JustOpened

(* The file just opened is empty and in its place. *)
LEMMA WriteOpen ==
    ASSUME NEW c, Sound(c), OpenToWrite(c)
    PROVE  WriteInv(c)'
<1>0. Serve(c)
  BY DEF Serve
<1>1. PICK h, r, f, x : h = sftp /\ r = req[c] /\ f = file'[c] /\ x = Head(todo[c])
  OBVIOUS
<1>2. PICK p : p = Follow(h, Path(c))
  OBVIOUS
<1>3. JustOpened(c, h, p, f)
  BY <1>1, <1>2, OpenedFacts
<1>4. /\ ans[c] = "running" /\ c \in Calls /\ req'[c] = r /\ r \in Requests
  BY <1>0, <1>1, OwnFrame
<1>5. p \in Paths /\ file[c] = NoFile /\ r.op \in Writers /\ x.do \in {"truncate", "create"}
  <2>1. x.do \in {"truncate", "create"}
    BY <1>1 DEF OpenToWrite, Ready
  <2>2. p \in Paths /\ file[c] = NoFile /\ r.op \in Writers
    BY <1>1, <1>2, OpenEffect
  <2> QED BY <2>1, <2>2
<1>6. todo[c] = <<x>>
  BY <1>1, <1>4, <1>5, UnopenedFacts
<1>7. PICK w, n : w = Writes(r, p) /\ n = Len(r.data)
  OBVIOUS
<1>8. /\ w \in Seq(Todos) /\ n \in Nat /\ Len(w) = n + (IF r.op = "edit" THEN 0 ELSE 1)
      /\ \A i \in DOMAIN w : w[i].do = IF i <= n THEN "write" ELSE "close"
  <2>1. r \in Requests /\ p \in Paths
    BY <1>4, <1>5
  <2> QED BY <1>7, <2>1, WritesFacts
<1>9. Continue(c, w)
  BY <1>1, <1>2, <1>7 DEF OpenToWrite
<1>10. todo'[c] = w
  BY <1>4, <1>6, <1>8, <1>9, OneRequest
<1>11. ans'[c] = IF todo'[c] = <<>> THEN "ok" ELSE "running"
  BY <1>4, <1>8, <1>9, ContinueElems
<1>12. f.pos = 0 /\ f = file'[c] /\ f # NoFile /\ f.host = h /\ f.path = p /\ f.id = tree'[h][p]
       /\ p \in DOMAIN tree'[h] /\ node'[f.id].data = <<>>
  BY <1>3 DEF JustOpened
<1>13. Writing(c)'
  <2>1. n - 0 = n
    BY <1>8
  <2>2. ans'[c] = "ok" => n = 0
    BY <1>8, <1>10, <1>11
  <2>3. PICK left : left = Len(req'[c].data) - file'[c].pos
    OBVIOUS
  <2>4. left = n
    BY <1>4, <1>7, <1>12, <2>1, <2>3
  <2>5. left >= 0 /\ (ans'[c] = "ok" => left = 0)
    BY <1>8, <2>2, <2>4
  <2>6. Len(todo'[c]) = left + (IF req'[c].op = "edit" THEN 0 ELSE 1)
    BY <1>4, <1>8, <1>10, <2>4
  <2>7. \A i \in DOMAIN todo'[c] : todo'[c][i].do = IF i <= left THEN "write" ELSE "close"
    BY <1>8, <1>10, <2>4
  <2> QED BY <2>3, <2>5, <2>6, <2>7 DEF Writing
<1>14. Kept(c)'
  <2>1. Len(<<>>) = 0 /\ \A i \in 1 .. 0 : FALSE
    OBVIOUS
  <2> QED BY <1>12, <2>1 DEF Kept, Exists
<1> QED BY <1>12, <1>13, <1>14 DEF WriteInv

(* The whole invariant. *)
IInv ==
    /\ Doms /\ ServerInv /\ ClientInv
    /\ \A c \in Calls : CallTyped(c) /\ OnHome(c) /\ Fresh(c) /\ CallInv(c)
    /\ OverlapInv /\ CrossInv

(* The invariant, for one call. *)
LEMMA AllSound ==
    ASSUME IInv, NEW c \in Calls
    PROVE  Sound(c)
  BY DEF IInv, Sound

(* An upload removes nothing, and keeps the file that it has opened. *)
LEMMA UploadActs ==
    ASSUME NEW c, Sound(c), Serve(c), req[c].op \in Uploads
    PROVE  /\ \/ Fails(c) \/ Panic(c) \/ ReadDir(c) \/ RealPath(c) \/ Close(c)
              \/ Mkdir(c) /\ file[c] = NoFile
              \/ OpenToWrite(c) /\ file[c] = NoFile
              \/ Write(c) /\ file[c] # NoFile
<1>1. PICK op, f, do : op = req[c].op /\ f = file[c] /\ do = Head(todo[c]).do
  OBVIOUS
<1>2. Role(op, f, do)
  BY <1>1, OwnFrame, Roles DEF Sound
<1>3. do \in {"readdir", "create", "realpath", "mkdirall", "write", "close"}
      /\ (f = NoFile <=> do \notin {"write", "close"})
  BY <1>1, <1>2 DEF Role, Uploads, Writers, Readers
<1>4. CASE do = "readdir"
  BY <1>1, <1>3, <1>4 DEF Serve, Lstat, RealPath, Mkdir, DoRemove, DoRename, Chmod, Open, OpenToWrite,
     Write, Read, Close, RunCp, Ready, OnFile
<1>5. CASE do = "create"
  BY <1>1, <1>3, <1>5 DEF Serve, Lstat, ReadDir, RealPath, Mkdir, DoRemove, DoRename, Chmod, Open,
     Write, Read, Close, RunCp, Ready, OnFile
<1>6. CASE do = "realpath"
  BY <1>1, <1>3, <1>6 DEF Serve, Lstat, ReadDir, Mkdir, DoRemove, DoRename, Chmod, Open, OpenToWrite,
     Write, Read, Close, RunCp, Ready, OnFile
<1>7. CASE do = "mkdirall"
  BY <1>1, <1>3, <1>7 DEF Serve, Lstat, ReadDir, RealPath, DoRemove, DoRename, Chmod, Open, OpenToWrite,
     Write, Read, Close, RunCp, Ready, OnFile
<1>8. CASE do = "write"
  BY <1>1, <1>3, <1>8 DEF Serve, Lstat, ReadDir, RealPath, Mkdir, DoRemove, DoRename, Chmod, Open,
     OpenToWrite, Read, Close, RunCp, Ready, OnFile
<1>9. CASE do = "close"
  BY <1>1, <1>3, <1>9 DEF Serve, Lstat, ReadDir, RealPath, Mkdir, DoRemove, DoRename, Chmod, Open,
     OpenToWrite, Write, Read, RunCp, Ready, OnFile
<1> QED BY <1>3, <1>4, <1>5, <1>6, <1>7, <1>8, <1>9

(* Write moves the position by one unit. *)
LEMMA FileMoves ==
    ASSUME NEW c, Sound(c), Write(c), NEW f, f = file[c], f # NoFile
    PROVE  /\ f \in Files /\ file'[c] \in Files /\ file'[c] # NoFile
           /\ file'[c].host = f.host /\ file'[c].id = f.id /\ file'[c].asked = f.asked
           /\ file'[c].path = f.path /\ file'[c].pos = f.pos + 1 /\ f.pos \in Nat
<1>1. c \in Calls /\ DOMAIN file = Calls /\ f \in Files
  BY DEF Sound, Doms, CallTyped, OpenFile
<1>2. PICK g : g = [f EXCEPT !.pos = @ + 1]
  OBVIOUS
<1>3. file'[c] = g
  BY <1>1, <1>2 DEF Write
<1>4. g \in Files /\ g.host = f.host /\ g.id = f.id /\ g.asked = f.asked /\ g.path = f.path
      /\ g.pos = f.pos + 1 /\ f.pos \in Nat
  BY <1>1, <1>2 DEF Files
<1>5. g.host # Nil
  BY <1>4, HostAssumption DEF Files
<1>6. g # NoFile
  BY <1>5 DEF NoFile
<1> QED BY <1>1, <1>3, <1>4, <1>6

(* An upload removes nothing and keeps the name of its file. *)
LEMMA UploadOwn ==
    ASSUME NEW c, Sound(c), Serve(c), req[c].op \in Uploads
    PROVE  /\ \A g \in Hosts : \A p \in DOMAIN tree[g] : p \in DOMAIN tree'[g]
           /\ file[c] # NoFile => file'[c] # NoFile /\ file'[c].asked = file[c].asked
<1>0. ServerInv /\ c \in Calls /\ DOMAIN file = Calls
  BY DEF Sound, Doms
<1>1. CASE Fails(c) \/ Panic(c) \/ ReadDir(c) \/ RealPath(c) \/ Close(c)
  BY <1>1 DEF Fails, Panic, ReadDir, RealPath, Close, srvVars, callVars
<1>2. CASE Mkdir(c) /\ file[c] = NoFile
  <2>1. PICK h, p : h = sftp /\ p = Path(c)
    OBVIOUS
  <2>2. \/ \A g \in Hosts, q \in Paths : q \in DOMAIN tree[g] => q \in DOMAIN tree'[g]
        \/ tree' = tree
    BY <1>2, <2>1, MkdirEffect
  <2> QED BY <1>0, <1>2, <2>2 DEF ServerInv, GoodTree
<1>3. CASE OpenToWrite(c) /\ file[c] = NoFile
  <2>1. PICK h : h = sftp
    OBVIOUS
  <2>2. PICK p : p = Follow(h, Path(c))
    OBVIOUS
  <2>3. Emptied(c, h, p)
    BY <1>3, <2>1, <2>2, OpenEffect
  <2>4. \/ \A g \in Hosts, q \in Paths : q \in DOMAIN tree[g] => q \in DOMAIN tree'[g]
        \/ tree' = tree
    <3>1. ASSUME NEW id, NEW n, WasPut(c, h, p, id, n)
          PROVE  \A g \in Hosts, q \in Paths : q \in DOMAIN tree[g] => q \in DOMAIN tree'[g]
      BY <3>1 DEF WasPut
    <3> QED BY <2>3, <3>1 DEF Emptied
  <2> QED BY <1>0, <1>3, <2>4 DEF ServerInv, GoodTree
<1>4. CASE Write(c) /\ file[c] # NoFile
  <2>1. tree' = tree
    BY <1>4 DEF Write
  <2>2. file'[c] # NoFile /\ file'[c].asked = file[c].asked
    BY <1>4, FileMoves
  <2> QED BY <2>1, <2>2
<1> QED BY <1>1, <1>2, <1>3, <1>4, UploadActs

(* What excused an upload still does. *)
Endures(y) ==
    \A h \in Hosts : (Raced(y, h) => Raced(y, h)') /\ (UsedUp(y, h) => UsedUp(y, h)')

(* What excuses a call survives the steps of others, *)
LEMMA WatchEndures ==
    ASSUME NEW y, Watch(y), Keeps(y), CallTyped(y), Begun(y)
    PROVE  Endures(y)
<1>1. req[y] \in Requests /\ req'[y] = req[y] /\ file'[y] = file[y]
  BY DEF CallTyped, Begun, Keeps
<1>2. ASSUME NEW h \in Hosts, Raced(y, h) PROVE Raced(y, h)'
  <2>1. PICK p : p = file[y].asked
    OBVIOUS
  <2>2. file[y] # NoFile /\ Disturbed(y, h, p)
    BY <1>2, <2>1 DEF Raced
  <2>3. p \in Paths
    BY <2>1, <2>2 DEF CallTyped, OpenFile, Files
  <2>4. Disturbed(y, h, p)'
    BY <1>2, <2>2, <2>3 DEF Watch
  <2> QED BY <1>1, <2>1, <2>2, <2>4 DEF Raced
<1>3. ASSUME NEW h \in Hosts, UsedUp(y, h) PROVE UsedUp(y, h)'
  BY <1>1, <1>3, UsedUpStays
<1> QED BY <1>2, <1>3 DEF Endures

(* and those of the upload itself. *)
LEMMA OwnEndures ==
    ASSUME NEW c, Sound(c), Serve(c), req[c].op \in Uploads
    PROVE  Endures(c)
<1>1. /\ \A g \in Hosts : \A p \in DOMAIN tree[g] : p \in DOMAIN tree'[g]
      /\ file[c] # NoFile => file'[c] # NoFile /\ file'[c].asked = file[c].asked
  BY UploadOwn
<1>2. req'[c] = req[c] /\ \A g, p : Disturbed(c, g, p)' <=> Disturbed(c, g, p)
  BY OwnFrame
<1>3. ASSUME NEW h \in Hosts, Raced(c, h) PROVE Raced(c, h)'
  <2>1. PICK p : p = file[c].asked
    OBVIOUS
  <2>2. file[c] # NoFile /\ Disturbed(c, h, p)
    BY <1>3, <2>1 DEF Raced
  <2>3. file'[c] # NoFile /\ file'[c].asked = p /\ Disturbed(c, h, p)'
    BY <1>1, <1>2, <2>1, <2>2
  <2> QED BY <2>3 DEF Raced
<1>4. ASSUME NEW h \in Hosts, UsedUp(c, h) PROVE UsedUp(c, h)'
  <2>1. ASSUME NEW i \in 1 .. MaxSuffix, NEW p, p = Append(Downloads, Counted(req[c].name, i))
        PROVE  Exists(h, p)' \/ Disturbed(c, h, p)'
    <3>1. Exists(h, p) \/ Disturbed(c, h, p)
      BY <1>4, <2>1 DEF UsedUp
    <3> QED BY <1>1, <1>2, <1>4, <3>1 DEF Exists
  <2>2. req'[c].op = "uploadToDownloads"
    BY <1>2, <1>4 DEF UsedUp
  <2> QED BY <1>2, <2>1, <2>2 DEF UsedUp
<1> QED BY <1>3, <1>4 DEF Endures

(* The past is not rewritten. *)
Steady ==
    /\ \A y \in Calls : Begun(y) =>
          /\ req'[y] = req[y] /\ changes[y] \subseteq changes'[y]
          /\ req[y].op \in Uploads => Endures(y)
    /\ overlap \subseteq overlap' /\ replaced \subseteq replaced'

(* A request of c, for another call. *)
LEMMA ServeWatch ==
    ASSUME IInv, NEW c \in Calls, Serve(c), NEW x \in Calls, x # c, Begun(x)
    PROVE  Watch(x) /\ Keeps(x)
<1>1. Sound(c) /\ CallTyped(x)
  BY AllSound DEF IInv
<1>2. Acts(c) /\ Begun(c)
  BY <1>1, OwnFrame
<1>3. PICK h, P : Server(c, h, P)
  BY <1>1, ServeEffect
<1>4. \A y \in Calls : Begun(y) => req'[y] = req[y]
  BY <1>2 DEF Acts
<1> QED BY <1>1, <1>2, <1>3, <1>4, Watched DEF Acts

(* No request takes an excuse back. *)
LEMMA ServeSteady ==
    ASSUME IInv, NEW c \in Calls, Serve(c)
    PROVE  Steady
<1>1. Sound(c)
  BY AllSound
<1>2. Acts(c)
  BY <1>1, OwnFrame
<1>3. PICK h, P : Server(c, h, P)
  BY <1>1, ServeEffect
<1>4. ASSUME NEW y \in Calls, Begun(y)
      PROVE  req'[y] = req[y] /\ changes[y] \subseteq changes'[y] /\ (req[y].op \in Uploads => Endures(y))
  <2>1. req'[y] = req[y]
    BY <1>2 DEF Acts
  <2>2. changes[y] \subseteq changes'[y]
    BY <1>3 DEF Server, Noted
  <2>3. ASSUME req[y].op \in Uploads PROVE Endures(y)
    <3>1. CASE y = c
      BY <1>1, <2>3, <3>1, OwnEndures
    <3>2. CASE y # c
      BY <1>4, <3>2, ServeWatch, WatchEndures DEF IInv
    <3> QED BY <3>1, <3>2
  <2> QED BY <2>1, <2>2, <2>3
<1> QED BY <1>2, <1>4 DEF Acts, Steady

(* An excuse stays an excuse. *)
LEMMA ExcusedStays ==
    ASSUME Steady, NEW x \in Calls, CallTyped(x), NEW e \in changes[x], Excused(x, e)
    PROVE  e \in changes'[x] /\ Excused(x, e)'
<1>1. PICK y, h : y = e.by /\ h = e.host
  OBVIOUS
<1>2. y \in Calls /\ Begun(y) /\ h \in Hosts /\ Begun(x)
  BY <1>1 DEF CallTyped
<1>3. req'[y] = req[y] /\ changes[x] \subseteq changes'[x]
  BY <1>2 DEF Steady
<1>4. CASE req[y].op \notin Uploads \cup {"changePerm"}
  BY <1>1, <1>3, <1>4 DEF Excused
<1>5. CASE req[y].op \in Uploads /\ (<<x, y>> \in overlap \/ y \in replaced)
  BY <1>1, <1>3, <1>5 DEF Excused, Steady
<1>6. CASE req[y].op \in Uploads /\ (Raced(y, h) \/ UsedUp(y, h))
  <2>1. Raced(y, h)' \/ UsedUp(y, h)'
    BY <1>2, <1>6 DEF Steady, Endures
  <2> QED BY <1>1, <1>3, <1>6, <2>1 DEF Excused
<1> QED BY <1>1, <1>3, <1>4, <1>5, <1>6 DEF Excused

(* A call stays excused. *)
LEMMA ExcusedByStays ==
    ASSUME Steady, NEW x \in Calls, CallTyped(x), ExcusedBy(x),
           file'[x].host = file[x].host, file'[x].path = file[x].path
    PROVE  ExcusedBy(x)'
<1>1. PICK e \in changes[x] : e.host = file[x].host /\ IsPrefix(e.path, file[x].path) /\ Excused(x, e)
  BY DEF ExcusedBy
<1>2. e \in changes'[x] /\ Excused(x, e)'
  BY <1>1, ExcusedStays
<1> QED BY <1>1, <1>2 DEF ExcusedBy

(* The open file of a writer. *)
LEMMA WriterFacts ==
    ASSUME NEW c, Sound(c), Active(c), req[c].op \in Writers, file[c] # NoFile
    PROVE  Writing(c) /\ (Kept(c) \/ ExcusedBy(c))
  BY DEF Sound, CallInv, WriteInv

(* Writes come before the close, one for each unit. *)
LEMMA WritingRest ==
    ASSUME NEW c, Sound(c), Serve(c), req[c].op \in Writers, file[c] # NoFile, Continue(c, <<>>),
           NEW k \in {0, 1}, file[c].pos \in Nat, file'[c].pos = file[c].pos + k,
           Head(todo[c]).do = IF k = 1 THEN "write" ELSE "close"
    PROVE  Writing(c)'
<1>1. PICK r, s, t, pos : r = req[c] /\ s = todo[c] /\ t = todo'[c] /\ pos = file[c].pos
  OBVIOUS
<1>2. PICK n : n = Len(r.data)
  OBVIOUS
<1>3. PICK left : left = n - pos
  OBVIOUS
<1>4. PICK m : m = IF r.op = "edit" THEN 0 ELSE 1
  OBVIOUS
<1>5. ans[c] = "running" /\ Active(c) /\ r \in Requests /\ req'[c] = r
  BY <1>1, OwnFrame
<1>6. n \in Nat /\ pos \in Nat /\ m \in {0, 1} /\ left \in Int
  BY <1>1, <1>2, <1>3, <1>4, <1>5, RequestFacts DEF Contents
<1>7. /\ left >= 0 /\ Len(s) = left + m
      /\ \A i \in DOMAIN s : s[i].do = IF i <= left THEN "write" ELSE "close"
  BY <1>1, <1>2, <1>3, <1>4, <1>5, WriterFacts DEF Writing
<1>8. Popped(s, t) /\ ans'[c] = IF t = <<>> THEN "ok" ELSE "running"
  BY <1>1, <1>5, PoppedFacts
<1>9. s \in Seq(Todos) /\ 1 \in DOMAIN s /\ Head(s) = s[1]
  BY <1>1, <1>5, HeadFacts DEF Sound
<1>10. s[1].do = (IF 1 <= left THEN "write" ELSE "close") /\ s[1].do = IF k = 1 THEN "write" ELSE "close"
  BY <1>1, <1>7, <1>9
<1>11. left >= k /\ (k = 0 => left = 0)
  BY <1>6, <1>7, <1>10
<1>12. t \in Seq(Todos) /\ Len(t) = Len(s) - 1
  BY <1>8 DEF Popped
<1>13. \A j \in DOMAIN t : t[j].do = IF j <= left - k THEN "write" ELSE "close"
  <2> SUFFICES ASSUME NEW j \in DOMAIN t
               PROVE  t[j].do = IF j <= left - k THEN "write" ELSE "close"
    OBVIOUS
  <2>1. j \in Nat /\ j >= 1
    BY <1>12
  <2>2. PICK i : i = j + 1 /\ i \in DOMAIN s /\ t[j] = s[i]
    BY <1>8 DEF Popped
  <2>3. s[i].do = IF i <= left THEN "write" ELSE "close"
    BY <1>7, <2>2
  <2> QED BY <1>6, <1>11, <2>1, <2>2, <2>3
<1>14. (t = <<>> => left - k = 0) /\ (t # <<>> => Len(t) = left - k + m)
  <2>1. t = <<>> => Len(t) = 0
    OBVIOUS
  <2>2. k = 0 => m = 1
    BY <1>7, <1>9, <1>11, <1>6
  <2> QED
    BY <1>6, <1>7, <1>11, <1>12, <2>1, <2>2
<1>15. PICK l : l = Len(req'[c].data) - file'[c].pos
  OBVIOUS
<1>16. l = left - k
  <2>1. Len(req'[c].data) = n /\ file'[c].pos = pos + k
    BY <1>1, <1>2, <1>5
  <2>2. l = n - (pos + k)
    BY <1>15, <2>1
  <2> QED BY <1>3, <1>6, <2>2
<1>17. l >= 0 /\ (ans'[c] = "ok" => l = 0)
  BY <1>6, <1>8, <1>11, <1>14, <1>16
<1>18. ans'[c] = "running" => Len(t) = l + (IF req'[c].op = "edit" THEN 0 ELSE 1)
  BY <1>4, <1>5, <1>8, <1>14, <1>16
<1>19. \A j \in DOMAIN t : t[j].do = IF j <= l THEN "write" ELSE "close"
  BY <1>13, <1>16
<1> QED BY <1>1, <1>15, <1>17, <1>18, <1>19 DEF Writing

(* An upload closes its file. *)
LEMMA WriteClose ==
    ASSUME IInv, NEW c \in Calls, Close(c), req[c].op \in Writers
    PROVE  WriteInv(c)'
<1>0. Serve(c) /\ Sound(c)
  BY AllSound DEF Serve
<1>1. ans[c] = "running" /\ Active(c) /\ req'[c] = req[c] /\ Head(todo[c]).do = "close"
  BY <1>0, OwnFrame DEF Close, OnFile
<1>2. file[c] # NoFile
  <2>1. PICK op, f, do : op = req[c].op /\ f = file[c] /\ do = Head(todo[c]).do
    OBVIOUS
  <2>2. Role(op, f, do)
    BY <1>0, <1>1, <2>1, Roles DEF Sound
  <2> QED BY <1>1, <2>1, <2>2 DEF Role, Writers, Uploads, Readers
<1>3. file' = file /\ tree' = tree /\ node' = node /\ Continue(c, <<>>)
  BY DEF Close, srvVars
<1>4. file[c].pos \in Nat
  BY <1>0, <1>2 DEF Sound, CallTyped, OpenFile, Files
<1>5. file'[c].pos = file[c].pos + 0
  BY <1>3, <1>4
<1>6. Head(todo[c]).do = IF 0 = 1 THEN "write" ELSE "close"
  BY <1>1
<1>7. Writing(c)'
  BY <1>0, <1>1, <1>2, <1>3, <1>4, <1>5, <1>6, WritingRest
<1>8. Kept(c) => Kept(c)'
  BY <1>1, <1>3 DEF Kept, Exists
<1>9. ExcusedBy(c) => ExcusedBy(c)'
  BY <1>0, <1>3, ServeSteady, ExcusedByStays DEF IInv
<1> QED BY <1>0, <1>1, <1>2, <1>3, <1>7, <1>8, <1>9, WriterFacts DEF WriteInv

(* A write adds the next unit of the data to what the file holds. *)
LEMMA WriteWrite ==
    ASSUME IInv, NEW c \in Calls, Write(c)
    PROVE  WriteInv(c)' /\ req[c].op \in Writers
<1>0. Serve(c) /\ Sound(c)
  BY AllSound DEF Serve
<1>1. PICK f, g, r : f = file[c] /\ g = file'[c] /\ r = req[c]
  OBVIOUS
<1>2. PICK P : P = {p \in DOMAIN tree[f.host] : tree[f.host][p] = f.id}
  OBVIOUS
<1>3. /\ tree' = tree /\ r.op \in Writers /\ OpenFile(f) /\ f.pos \in Nat /\ f.pos + 1 \in DOMAIN r.data
      /\ node'[f.id].data = Overlay(node[f.id].data, f.pos + 1, r.data[f.pos + 1])
      /\ node[f.id].data \in Contents /\ r.data \in Contents
  BY <1>0, <1>1, <1>2, WriteEffect
<1>4. f # NoFile
  <2>1. f.host # Nil
    BY <1>3, HostAssumption DEF OpenFile, Files
  <2> QED BY <2>1 DEF NoFile
<1>5. /\ g # NoFile /\ g.host = f.host /\ g.id = f.id /\ g.path = f.path /\ g.pos = f.pos + 1
  BY <1>0, <1>1, <1>4, FileMoves
<1>6. ans[c] = "running" /\ Active(c) /\ req'[c] = r /\ Head(todo[c]).do = "write" /\ Continue(c, <<>>)
  BY <1>0, <1>1, OwnFrame DEF Write, OnFile
<1>7. Writing(c)'
  <2>1. 1 \in {0, 1} /\ Head(todo[c]).do = IF 1 = 1 THEN "write" ELSE "close"
    BY <1>6
  <2> QED BY <1>0, <1>1, <1>3, <1>4, <1>5, <1>6, <2>1, WritingRest
<1>8. ASSUME Kept(c) PROVE Kept(c)'
  <2>1. PICK d, i, u, w : d = node[f.id].data /\ i = f.pos + 1 /\ u = r.data[f.pos + 1] /\ w = Overlay(d, i, u)
    OBVIOUS
  <2>2. /\ Exists(f.host, f.path) /\ tree[f.host][f.path] = f.id
        /\ Len(d) = f.pos /\ \A j \in 1 .. f.pos : d[j] = r.data[j]
    BY <1>1, <1>8, <2>1 DEF Kept
  <2>3. i \in Nat \ {0} /\ u \in Units \cup {0} /\ d \in Contents
    BY <1>3, <2>1 DEF Contents
  <2>4. /\ Len(w) = i /\ w[i] = u /\ \A j \in 1 .. Len(d) : w[j] = d[j]
    BY <2>1, <2>2, <2>3, OverlayFacts
  <2>5. node'[f.id].data = w
    BY <1>3, <2>1
  <2>6. \A j \in 1 .. i : j \in 1 .. f.pos \/ j = i
    BY <1>3, <2>1
  <2>7. \A j \in 1 .. i : w[j] = r.data[j]
    BY <2>1, <2>2, <2>4, <2>6
  <2>8. g.path \in DOMAIN tree'[g.host] /\ tree'[g.host][g.path] = g.id
    BY <1>3, <1>5, <2>2 DEF Exists
  <2>9. node'[g.id].data = w /\ g.pos = i /\ Len(w) = g.pos
    BY <1>5, <2>1, <2>4, <2>5
  <2>10. \A j \in 1 .. g.pos : node'[g.id].data[j] = req'[c].data[j]
    BY <1>6, <2>7, <2>9
  <2> QED BY <1>1, <2>8, <2>9, <2>10 DEF Kept, Exists
<1>9. ExcusedBy(c) => ExcusedBy(c)'
  BY <1>0, <1>1, <1>5, ServeSteady, ExcusedByStays DEF IInv
<1> QED BY <1>0, <1>1, <1>3, <1>4, <1>5, <1>6, <1>7, <1>8, <1>9, WriterFacts DEF WriteInv

(* A step of c that is noted at the path of x's file, and that may be blamed. *)
LEMMA Blamed ==
    ASSUME NEW c \in Calls, NEW x \in Calls, x # c, Begun(x), NEW h, NEW P, Server(c, h, P), Keeps(x),
           NEW p \in P, h = file[x].host, IsPrefix(p, file[x].path),
           NEW e, e = [by |-> c, host |-> h, path |-> p], Excused(x, e)'
    PROVE  ExcusedBy(x)'
<1>1. e \in changes'[x]
  BY DEF Server, Noted
<1>2. e.host = file'[x].host /\ IsPrefix(e.path, file'[x].path)
  BY DEF Keeps
<1> QED BY <1>1, <1>2 DEF ExcusedBy

(* What is kept stays, if nothing at its path changed. *)
LEMMA KeptIf ==
    ASSUME NEW x, Keeps(x), Kept(x), SoftAt(file[x].host, file[x].path)
    PROVE  Kept(x)'
<1>1. PICK f, r : f = file[x] /\ r = req[x] /\ file'[x] = f /\ req'[x] = r
  BY DEF Keeps
<1>2. /\ f.path \in DOMAIN tree[f.host] /\ tree[f.host][f.path] = f.id
      /\ Len(node[f.id].data) = f.pos /\ \A i \in 1 .. f.pos : node[f.id].data[i] = r.data[i]
  BY <1>1 DEF Kept, Exists
<1>3. f.path \in DOMAIN tree'[f.host] /\ tree'[f.host][f.path] = f.id
      /\ node'[f.id].data = node[f.id].data
  BY <1>1, <1>2 DEF SoftAt
<1> QED BY <1>1, <1>2, <1>3 DEF Kept, Exists

(* Only a call that names the file, or an upload whose name was taken, empties
   a file that is there. *)
LEMMA Truncates ==
    ASSUME IInv, NEW c \in Calls, OpenToWrite(c), req[c].op \in Uploads,
           NEW h, h = sftp, NEW p, p = Follow(h, Path(c)), IsFile(h, p)
    PROVE  c \in replaced' \/ Raced(c, h)' \/ UsedUp(c, h)'
<1>0. Serve(c) /\ Sound(c)
  BY AllSound DEF Serve
<1>1. PICK f, q : f = file'[c] /\ q = Path(c)
  OBVIOUS
<1>2. ans[c] = "running" /\ replaced' = replaced /\ \A g, y : Disturbed(c, g, y)' <=> Disturbed(c, g, y)
  BY <1>0, OwnFrame
<1>3. h \in Hosts /\ Ready(c, "create")
  BY <1>0, OpenEffect DEF Uploads
<1>4. NotThere(c, todo[c][1].path) /\ todo[c][1].path = q
  BY <1>0, <1>1, <1>2, <1>3, CreateFacts, HeadFacts DEF Sound
<1>5. SUFFICES ASSUME c \notin replaced PROVE Raced(c, h)' \/ UsedUp(c, h)'
  BY <1>2
<1>6. home[c] = h
  BY <1>0, <1>2, <1>5 DEF Sound, OnHome, Uploads
<1>7. ~Exists(h, q) \/ Disturbed(c, h, q) \/ UsedUp(c, h)
  BY <1>4, <1>5, <1>6 DEF NotThere
<1>8. Exists(h, q)
  BY <1>1 DEF Follow, IsFile
<1>9. CASE Disturbed(c, h, q)
  <2>1. JustOpened(c, h, p, f)
    BY <1>0, <1>1, OpenedFacts
  <2>2. file'[c] # NoFile /\ file'[c].asked = q
    BY <1>1, <2>1 DEF JustOpened
  <2> QED BY <1>2, <1>9, <2>2 DEF Raced
<1>10. CASE UsedUp(c, h)
  BY <1>0, <1>3, <1>10, OwnEndures DEF Endures
<1> QED BY <1>7, <1>8, <1>9, <1>10

(* An upload that truncates the file of another call is an excuse for that
   call. *)
LEMMA TruncateBlamed ==
    ASSUME IInv, NEW c \in Calls, OpenToWrite(c), req[c].op \in Uploads,
           NEW h, h = sftp, NEW p, p = Follow(h, Path(c)), IsFile(h, p),
           NEW x \in Calls, x # c, Begun(x), Kept(x), file[x] # NoFile, tree[h][p] = file[x].id
    PROVE  ExcusedBy(x)'
<1>0. Serve(c) /\ Sound(c)
  BY AllSound DEF Serve
<1>1. PICK f : f = file[x]
  OBVIOUS
<1>2. h \in Hosts /\ p \in Paths /\ Server(c, h, {p})
  BY <1>0, OpenEffect
<1>3. f.host \in Hosts /\ f.path \in DOMAIN tree[f.host] /\ tree[f.host][f.path] = f.id
  BY <1>1 DEF IInv, CallTyped, OpenFile, Files, Kept, Exists
<1>4. f.host = h /\ f.path = p
  BY <1>1, <1>2, <1>3, OnePath DEF IInv, IsFile, Exists
<1>5. c \in replaced' \/ Raced(c, h)' \/ UsedUp(c, h)'
  BY Truncates
<1>6. req'[c] = req[c]
  BY <1>0, OwnFrame
<1>7. PICK e : e = [by |-> c, host |-> h, path |-> p]
  OBVIOUS
<1>8. e.by = c /\ e.host = h
  BY <1>7
<1>9. Excused(x, e)'
  BY <1>5, <1>6, <1>8 DEF Excused
<1>10. Keeps(x)
  BY <1>0, ServeWatch
<1>11. IsPrefix(p, p)
  BY <1>2, PathFacts
<1>12. p \in {p}
  OBVIOUS
<1> QED BY <1>1, <1>2, <1>4, <1>7, <1>9, <1>10, <1>11, <1>12, Blamed

(* So is an upload that writes into it. *)
LEMMA WriteBlamed ==
    ASSUME IInv, NEW c \in Calls, Write(c), req[c].op \in Uploads,
           NEW x \in Calls, x # c, Active(x), req[x].op \in Writers, Kept(x), file[x] # NoFile,
           file[c].id = file[x].id
    PROVE  ExcusedBy(x)'
<1>0. Serve(c) /\ Sound(c)
  BY AllSound DEF Serve
<1>1. PICK f, g : f = file[x] /\ g = file[c]
  OBVIOUS
<1>2. PICK P : P = {p \in DOMAIN tree[g.host] : tree[g.host][p] = g.id}
  OBVIOUS
<1>3. Server(c, g.host, P) /\ OpenFile(g)
  BY <1>0, <1>1, <1>2, WriteEffect
<1>4. OpenFile(f) /\ f.path \in DOMAIN tree[f.host] /\ tree[f.host][f.path] = f.id /\ Begun(x)
  BY <1>1 DEF IInv, CallTyped, Kept, Exists, Active, Begun
<1>5. f.host = g.host /\ f.path \in P /\ f.path \in Paths /\ g # NoFile
  <2>1. f.host = g.host /\ f.path \in Paths /\ g.host # Nil
    BY <1>1, <1>3, <1>4, HostAssumption DEF OpenFile, Files
  <2> QED BY <1>1, <1>2, <1>4, <2>1 DEF NoFile
<1>6. Keeps(x) /\ Steady /\ Acts(c) /\ ans[c] = "running" /\ req'[c] = req[c]
  BY <1>0, <1>4, ServeWatch, ServeSteady, OwnFrame
<1>7. CASE <<x, c>> \in overlap \/ c \in replaced
  <2>1. PICK h, p, e : h = g.host /\ p = f.path /\ e = [by |-> c, host |-> h, path |-> p]
    OBVIOUS
  <2>2. e.by = c
    BY <2>1
  <2>3. <<x, c>> \in overlap' \/ c \in replaced'
    BY <1>6, <1>7 DEF Acts
  <2>4. Excused(x, e)'
    BY <1>6, <2>2, <2>3 DEF Excused
  <2>5. IsPrefix(p, f.path)
    BY <1>5, <2>1, PathFacts
  <2> QED BY <1>1, <1>3, <1>4, <1>5, <1>6, <2>1, <2>4, <2>5, Blamed
<1>8. CASE ~(<<x, c>> \in overlap \/ c \in replaced)
  <2>1. ans[x] = "ok"
    BY <1>6, <1>8 DEF IInv, OverlapInv, Running, Active
  <2>2. Clobbers(x, c)
    BY <1>1, <1>5, <1>6, <1>8, <2>1 DEF Clobbers
  <2>3. ExcusedBy(x)
    BY <2>2 DEF IInv, CrossInv
  <2> QED BY <1>6, <2>3, ExcusedByStays DEF IInv, Keeps
<1> QED BY <1>7, <1>8

(* What a call has written is kept or excused after every step of others. *)
LEMMA OthersKept ==
    ASSUME IInv, NEW c \in Calls, Serve(c), NEW x \in Calls, x # c, Active(x),
           req[x].op \in Writers, file[x] # NoFile, Kept(x) \/ ExcusedBy(x)
    PROVE  Kept(x)' \/ ExcusedBy(x)'
<1>0. Sound(c) /\ Begun(x) /\ Begun(c)
  BY AllSound, OwnFrame DEF Active, Begun
<1>1. PICK f : f = file[x]
  OBVIOUS
<1>2. Keeps(x) /\ Steady /\ req'[c] = req[c] /\ ServerInv
  BY <1>0, ServeWatch, ServeSteady, OwnFrame DEF IInv
<1>3. CASE ExcusedBy(x)
  BY <1>2, <1>3, ExcusedByStays DEF IInv, Keeps
<1>4. SUFFICES ASSUME Kept(x) PROVE Kept(x)' \/ ExcusedBy(x)'
  BY <1>3
<1>5. f.host \in Hosts /\ f.path \in Paths /\ f.id \in DOMAIN node
      /\ f.path \in DOMAIN tree[f.host] /\ tree[f.host][f.path] = f.id
  BY <1>1, <1>4 DEF IInv, CallTyped, OpenFile, Files, Kept, Exists
<1>6. PICK h, P : Server(c, h, P)
  BY <1>0, ServeEffect
<1>7. SoftAt(f.host, f.path) => Kept(x)'
  BY <1>1, <1>2, <1>4, KeptIf
<1>8. CASE req[c].op \notin Uploads \cup {"changePerm"}
  <2>1. CASE SameAt(f.host, f.path)
    BY <1>7, <2>1 DEF SameAt
  <2>2. CASE ~SameAt(f.host, f.path)
    <3>1. PICK y \in P : f.host = h /\ IsPrefix(y, f.path)
      BY <1>5, <1>6, <2>2 DEF Server
    <3>2. PICK e : e = [by |-> c, host |-> h, path |-> y]
      OBVIOUS
    <3>3. e.by = c
      BY <3>2
    <3>4. Excused(x, e)'
      BY <1>2, <1>8, <3>3 DEF Excused
    <3> QED BY <1>0, <1>1, <1>2, <1>6, <3>1, <3>2, <3>4, Blamed
  <2> QED BY <2>1, <2>2
<1>9. CASE req[c].op = "changePerm"
  BY <1>5, <1>6, <1>7, <1>9 DEF Server
<1>10. CASE req[c].op \in Uploads
  <2>1. CASE Fails(c) \/ Panic(c) \/ ReadDir(c) \/ RealPath(c) \/ Close(c)
    <3>1. tree' = tree /\ node' = node
      BY <2>1 DEF Fails, Panic, ReadDir, RealPath, Close, srvVars
    <3> QED BY <1>7, <3>1 DEF SoftAt
  <2>2. CASE Mkdir(c)
    <3>1. PICK g, p : g = sftp /\ p = Path(c)
      OBVIOUS
    <3>2. \/ /\ \A m \in DOMAIN node : node'[m] = node[m]
             /\ \A k \in Hosts, q \in Paths : q \in DOMAIN tree[k] =>
                   q \in DOMAIN tree'[k] /\ tree'[k][q] = tree[k][q]
          \/ tree' = tree /\ node' = node
      BY <1>0, <2>2, <3>1, MkdirEffect
    <3> QED BY <1>5, <1>7, <3>2 DEF SoftAt
  <2>3. CASE OpenToWrite(c)
    <3>1. PICK g : g = sftp
      OBVIOUS
    <3>2. PICK p : p = Follow(g, Path(c))
      OBVIOUS
    <3>3. Emptied(c, g, p) /\ g \in Hosts /\ p \in Paths
      BY <1>0, <2>3, <3>1, <3>2, OpenEffect
    <3>4. CASE /\ IsFile(g, p) /\ tree' = tree /\ DOMAIN node' = DOMAIN node
               /\ \A m \in DOMAIN node : m # tree[g][p] => node'[m] = node[m]
      <4>1. CASE f.id = tree[g][p]
        BY <1>0, <1>1, <1>4, <1>10, <2>3, <3>1, <3>2, <3>4, <4>1, TruncateBlamed
      <4>2. CASE f.id # tree[g][p]
        BY <1>5, <1>7, <3>4, <4>2 DEF SoftAt
      <4> QED BY <4>1, <4>2
    <3>5. ASSUME NEW id, NEW n, WasPut(c, g, p, id, n) PROVE Kept(x)'
      BY <1>5, <1>7, <3>5 DEF WasPut, SoftAt
    <3> QED BY <3>3, <3>4, <3>5 DEF Emptied
  <2>4. CASE Write(c)
    <3>1. PICK g : g = file[c]
      OBVIOUS
    <3>2. tree' = tree /\ \A m \in DOMAIN node : m # g.id => node'[m] = node[m]
      BY <1>0, <2>4, <3>1, WriteEffect
    <3>3. CASE f.id = g.id
      BY <1>1, <1>4, <1>10, <2>4, <3>1, <3>3, WriteBlamed
    <3>4. CASE f.id # g.id
      BY <1>5, <1>7, <3>2, <3>4 DEF SoftAt
    <3> QED BY <3>3, <3>4
  <2> QED BY <1>0, <1>10, <2>1, <2>2, <2>3, <2>4, UploadActs
<1> QED BY <1>8, <1>9, <1>10

(* Two calls that run overlap. *)
LEMMA ServeOverlap ==
    ASSUME IInv, NEW c \in Calls, Serve(c)
    PROVE  OverlapInv'
<1>1. Acts(c)
  BY AllSound, OwnFrame
<1>2. \A x \in Calls : ans'[x] = "running" => ans[x] = "running"
  BY <1>1 DEF Acts, Keeps
<1>3. Running' \subseteq Running
  BY <1>2 DEF Running
<1> QED BY <1>1, <1>3 DEF Acts, IInv, OverlapInv

(* A later upload that opens the file of an earlier one is an excuse for it. *)
LEMMA ServeCross ==
    ASSUME IInv, NEW c \in Calls, Serve(c)
    PROVE  CrossInv'
<1>0. Sound(c) /\ Acts(c) /\ Steady /\ ans[c] = "running"
  BY AllSound, OwnFrame, ServeSteady
<1> SUFFICES ASSUME NEW a \in Calls, NEW b \in Calls, Clobbers(a, b)' PROVE ExcusedBy(a)'
  BY DEF CrossInv
<1>1. /\ ans'[a] = "ok" /\ req[a].op \in Writers /\ ans'[b] = "running" /\ req[b].op \in Uploads
      /\ a # b /\ <<a, b>> \notin overlap /\ b \notin replaced
      /\ file'[b] # NoFile /\ file'[b].id = file'[a].id
  BY <1>0 DEF Clobbers, Acts
<1>2. a # c
  <2> SUFFICES ASSUME a = c PROVE FALSE
    OBVIOUS
  <2>1. ans[b] = "running" /\ ans[a] = "running"
    BY <1>0, <1>1 DEF Acts, Keeps
  <2> QED BY <1>1, <2>1 DEF IInv, OverlapInv, Running
<1>3. Keeps(a) /\ ans[a] = "ok" /\ file'[a] = file[a] /\ Active(a) /\ Begun(a)
  BY <1>0, <1>1, <1>2 DEF Acts, Keeps, Active, Begun
<1>4. ExcusedBy(a) => ExcusedBy(a)'
  BY <1>0, <1>3, ExcusedByStays DEF IInv
<1>5. Clobbers(a, b) => ExcusedBy(a)'
  BY <1>4 DEF IInv, CrossInv
<1>6. CASE b # c
  <2>1. file'[b] = file[b] /\ ans[b] = "running"
    BY <1>0, <1>1, <1>6 DEF Acts, Keeps
  <2>2. Clobbers(a, b)
    BY <1>1, <1>3, <2>1 DEF Clobbers
  <2> QED BY <1>5, <2>2
<1>7. CASE b = c /\ file[c] # NoFile
  <2>1. file'[c].id = file[c].id
    <3>1. CASE Fails(c) \/ Panic(c) \/ ReadDir(c) \/ RealPath(c) \/ Close(c)
      BY <3>1 DEF Fails, Panic, ReadDir, RealPath, Close, callVars
    <3>2. CASE Write(c)
      BY <1>0, <1>7, <3>2, FileMoves
    <3> QED BY <1>0, <1>1, <1>7, <3>1, <3>2, UploadActs
  <2>2. Clobbers(a, b)
    BY <1>0, <1>1, <1>3, <1>7, <2>1 DEF Clobbers
  <2> QED BY <1>5, <2>2
<1>8. CASE b = c /\ file[c] = NoFile
  <2>1. OpenToWrite(c)
    <3>1. CASE Fails(c) \/ Panic(c) \/ ReadDir(c) \/ RealPath(c) \/ Close(c) \/ Mkdir(c)
      BY <1>1, <1>8, <3>1 DEF Fails, Panic, ReadDir, RealPath, Close, Mkdir, callVars
    <3> QED BY <1>0, <1>1, <1>8, <3>1, UploadActs
  <2>2. file[a] # NoFile /\ (Kept(a) \/ ExcusedBy(a))
    BY <1>1, <1>3 DEF IInv, CallInv, WriteInv
  <2>3. PICK h, f, i : h = sftp /\ f = file'[c] /\ i = file[a].id
    OBVIOUS
  <2>4. PICK p : p = Follow(h, Path(c))
    OBVIOUS
  <2>5. f.id = tree'[h][p]
    BY <1>0, <2>1, <2>3, <2>4, OpenedFacts DEF JustOpened
  <2>6. f.id = i /\ i \in DOMAIN node
    BY <1>1, <1>3, <1>8, <2>2, <2>3 DEF IInv, CallTyped, OpenFile, Files
  <2>7. Emptied(c, h, p)
    BY <1>0, <2>1, <2>3, <2>4, OpenEffect
  <2>8. CASE IsFile(h, p) /\ tree' = tree
    <3>1. tree[h][p] = i
      BY <2>5, <2>6, <2>8
    <3> QED BY <1>1, <1>2, <1>3, <1>4, <1>8, <2>1, <2>2, <2>3, <2>4, <2>8, <3>1, TruncateBlamed
  <2>9. ASSUME NEW id, NEW n, id \notin DOMAIN node, WasPut(c, h, p, id, n) PROVE FALSE
    BY <2>5, <2>6, <2>9 DEF WasPut
  <2> QED BY <2>7, <2>8, <2>9 DEF Emptied
<1> QED BY <1>6, <1>7, <1>8

(* A step of c that keeps the invariant of its own operation. *)
LEMMA ReadDirList ==
    ASSUME NEW c, Sound(c), ReadDir(c), req[c].op = "list"
    PROVE  ans'[c] # "running"
<1>1. PICK p, taken, r, x : p = Path(c) /\ taken = Taken(sftp, p) /\ r = req[c] /\ x = Req("readdir", r.path)
  OBVIOUS
<1>2. AfterReadDir(r, p, taken) = <<>>
  BY <1>1 DEF AfterReadDir
<1>3. Continue(c, <<>>)
  BY <1>1, <1>2 DEF ReadDir
<1>4. todo[c] = <<x>>
  BY <1>1 DEF ReadDir, Ready, Sound, CallInv, Active
<1> QED BY <1>3, <1>4, OnlyOne

(* Every step of a call keeps its part of the invariant. *)
LEMMA OwnCall ==
    ASSUME IInv, NEW c \in Calls, Serve(c)
    PROVE  CallInv(c)'
<1>0. Sound(c) /\ req'[c] = req[c] /\ ans[c] = "running"
  BY AllSound, OwnFrame
<1>1. PICK op, f, do : op = req[c].op /\ f = file[c] /\ do = Head(todo[c]).do
  OBVIOUS
<1>2. Role(op, f, do)
  BY <1>0, <1>1, Roles DEF Sound
<1>3. CASE Fails(c) \/ Panic(c)
  BY <1>0, <1>3, OwnIdle
<1>4. CASE Lstat(c)
  <2>1. op \in {"move", "delete", "changePerm", "download"}
    BY <1>1, <1>2, <1>4 DEF Role, Lstat, Ready
  <2>2. op = "move" => MoveInv(c)'
    BY <1>0, <1>1, <1>4, MoveLstat
  <2>3. op = "delete" => DeleteInv(c)'
    BY <1>0, <1>1, <1>4, DeleteOwn
  <2>4. op = "changePerm" => ChmodInv(c)'
    BY <1>0, <1>1, <1>4, ChmodOwn
  <2>5. op = "download" => ~Active(c)' \/ ReadInv(c)'
    BY <1>0, <1>1, <1>4, ReadLstat
  <2> QED BY <1>0, <1>1, <2>1, <2>2, <2>3, <2>4, <2>5 DEF CallInv, Readers, Writers, Uploads
<1>5. CASE ReadDir(c)
  <2>1. op \in {"list", "delete", "changePerm"} \cup Uploads
    BY <1>1, <1>2, <1>5 DEF Role, ReadDir, Ready
  <2>2. op = "list" => ans'[c] # "running"
    BY <1>0, <1>1, <1>5, ReadDirList
  <2>3. op = "delete" => DeleteInv(c)'
    BY <1>0, <1>1, <1>5, DeleteOwn
  <2>4. op = "changePerm" => ChmodInv(c)'
    BY <1>0, <1>1, <1>5, ChmodOwn
  <2>5. op \in Uploads => ~Active(c)' \/ WriteInv(c)'
    BY <1>0, <1>1, <1>5, WriteReadDir DEF Writers
  <2> QED BY <1>0, <1>1, <2>1, <2>2, <2>3, <2>4, <2>5 DEF CallInv, Readers, Writers, Uploads
<1>6. CASE RealPath(c) \/ Mkdir(c)
  <2>1. op \in {"createFolder", "uploadToDownloads"} /\ (RealPath(c) => op # "createFolder")
    BY <1>1, <1>2, <1>6 DEF Role, RealPath, Mkdir, Ready
  <2>2. op = "createFolder" => FolderInv(c)'
    BY <1>0, <1>1, <1>6, <2>1, FolderOwn
  <2>3. op = "uploadToDownloads" => WriteInv(c)'
    BY <1>0, <1>1, <1>6, WritePrepare DEF Writers, Uploads
  <2> QED BY <1>0, <1>1, <2>1, <2>2, <2>3 DEF CallInv, Readers, Writers, Uploads
<1>7. CASE DoRemove(c)
  <2>1. op = "delete"
    BY <1>1, <1>2, <1>7 DEF Role, DoRemove, Ready
  <2>2. DeleteInv(c)'
    BY <1>0, <1>1, <1>7, <2>1, DeleteOwn
  <2> QED BY <1>0, <1>1, <2>1, <2>2 DEF CallInv, Readers, Writers, Uploads
<1>8. CASE DoRename(c)
  <2>1. op \in {"rename", "move"}
    BY <1>1, <1>2, <1>8 DEF Role, DoRename, Ready
  <2>2. (op = "rename" => RenameInv(c)') /\ (op = "move" => MoveInv(c)')
    BY <1>0, <1>1, <1>8, RenameOwn, MoveRename
  <2> QED BY <1>0, <1>1, <2>1, <2>2 DEF CallInv, Readers, Writers, Uploads
<1>9. CASE Chmod(c)
  <2>1. op = "changePerm"
    BY <1>1, <1>2, <1>9 DEF Role, Chmod, Ready
  <2>2. ChmodInv(c)'
    BY <1>0, <1>1, <1>9, <2>1, ChmodOwn
  <2> QED BY <1>0, <1>1, <2>1, <2>2 DEF CallInv, Readers, Writers, Uploads
<1>10. CASE Open(c) \/ Read(c)
  <2>1. op \in Readers
    BY <1>1, <1>2, <1>10 DEF Role, Open, Read, Ready, OnFile
  <2>2. ReadInv(c)'
    BY <1>0, <1>1, <1>10, <2>1, ReadOpen, ReadRead
  <2> QED BY <1>0, <1>1, <2>1, <2>2 DEF CallInv, Readers, Writers, Uploads
<1>11. CASE Close(c)
  <2>1. op \in Readers \cup Writers
    BY <1>1, <1>2, <1>11 DEF Role, Close, OnFile
  <2>2. op \in Readers => ReadInv(c)'
    BY <1>0, <1>1, <1>11, ReadClose
  <2>3. op \in Writers => WriteInv(c)'
    BY <1>0, <1>1, <1>11, WriteClose
  <2> QED BY <1>0, <1>1, <2>1, <2>2, <2>3 DEF CallInv, Readers, Writers, Uploads
<1>12. CASE OpenToWrite(c)
  <2>1. op \in Writers
    BY <1>1, <1>2, <1>12 DEF Role, OpenToWrite, Ready, Writers
  <2>2. WriteInv(c)'
    BY <1>0, <1>12, WriteOpen
  <2> QED BY <1>0, <1>1, <2>1, <2>2 DEF CallInv, Readers, Writers, Uploads
<1>13. CASE Write(c)
  <2>1. op \in Writers /\ WriteInv(c)'
    BY <1>1, <1>13, WriteWrite
  <2> QED BY <1>0, <1>1, <2>1 DEF CallInv, Readers, Writers, Uploads
<1>14. CASE RunCp(c)
  <2>1. op = "copy"
    BY <1>1, <1>2, <1>14 DEF Role, RunCp, OnFile
  <2>2. ~Active(c)' \/ CopyInv(c)'
    BY <1>0, <1>14, CopyOwn
  <2> QED BY <1>0, <1>1, <2>1, <2>2 DEF CallInv, Readers, Writers, Uploads
<1> QED BY <1>3, <1>4, <1>5, <1>6, <1>7, <1>8, <1>9, <1>10, <1>11, <1>12, <1>13, <1>14 DEF Serve

(* The others rely on what the step promises. *)
LEMMA OthersCall ==
    ASSUME IInv, NEW c \in Calls, Serve(c), NEW x \in Calls, x # c
    PROVE  CallInv(x)'
<1>0. Sound(c) /\ Acts(c) /\ ServerInv' /\ CallTyped(x) /\ CallInv(x)
  BY AllSound, OwnFrame DEF IInv
<1>1. CASE ~Begun(x)
  <2>1. ~Active(x)'
    BY <1>0, <1>1 DEF Acts, Keeps, Active, Begun
  <2> QED BY <2>1 DEF CallInv
<1>2. CASE Begun(x)
  <2>1. PICK h, P : Server(c, h, P)
    BY <1>0, ServeEffect
  <2>2. Watch(x) /\ Keeps(x)
    BY <1>2, ServeWatch
  <2>3. \A e \in changes'[x] : e.path \in Paths
    <3>1. \A e \in changes[x] : e.path \in Paths
      BY <1>0 DEF CallTyped
    <3>2. P \subseteq Paths
      BY <2>1 DEF Server
    <3>3. changes'[x] = changes[x] \cup {[by |-> c, host |-> h, path |-> p] : p \in P}
      BY <1>2, <2>1 DEF Server, Noted
    <3> QED BY <3>1, <3>2, <3>3
  <2>4. Relies(x)
    BY <1>0, <1>2, <2>1, <2>2, <2>3 DEF Relies, Acts, Server
  <2>5. Active(x) /\ req[x].op \in Writers /\ file[x] # NoFile /\ (Kept(x) \/ ExcusedBy(x)) =>
              Kept(x)' \/ ExcusedBy(x)'
    BY OthersKept
  <2> QED BY <1>0, <2>4, <2>5, CallStays
<1> QED BY <1>1, <1>2

-----------------------------------------------------------------------------
(* The ranges of what a call keeps, after a step of its own. *)

(* The fields of a request to the server. *)
LEMMA ReqFacts ==
    ASSUME NEW do \in Dos, NEW p \in Paths, NEW x, x = Req(do, p)
    PROVE  x \in Todos /\ x.do = do /\ x.path = p /\ <<x>> \in Seq(Todos)
<1>1. x \in Todos /\ x.do = do /\ x.path = p
  BY DEF Req, Todos
<1> QED BY <1>1

(* The requests there are. *)
LEMMA DosFacts ==
    {"lstat", "readdir", "rename", "mkdir", "mkdirall", "realpath", "chmod", "remove", "rmdir",
     "open", "truncate", "create", "read", "write", "close", "cp"} \subseteq Dos
  BY DEF Dos, OnClient

(* No requests. *)
LEMMA EmptyTodo == <<>> \in Seq(Todos)
  OBVIOUS

(* Where a call goes on: with requests, with an error, or not yet. *)
Goes(c) ==
    \/ \E more \in Seq(Todos) : Continue(c, more)
    \/ GiveUp(c)
    \/ todo' = todo /\ ans' = ans

(* After Lstat the call goes on with well-formed requests or gives up, *)
LEMMA LstatGoes ==
    ASSUME NEW c, Sound(c), Lstat(c)
    PROVE  Goes(c)
<1>0. Serve(c)
  BY DEF Serve
<1>1. PICK p, h, r : p = Path(c) /\ h = sftp /\ r = req[c]
  OBVIOUS
<1>2. r \in Requests /\ p \in Paths /\ Role(r.op, file[c], "lstat")
  BY <1>1, ReadyFacts DEF Lstat
<1>3. r.op \in {"move", "delete", "changePerm", "download"}
  BY <1>2 DEF Role
<1>4. PICK isDir \in BOOLEAN : isDir <=> IsDir(h, p)
  OBVIOUS
<1>5. SUFFICES ASSUME ~GiveUp(c) PROVE \E more \in Seq(Todos) : Continue(c, more)
  BY DEF Goes
<1>6. PICK more : more = AfterLstat(r, p, IsDir(h, p))
  OBVIOUS
<1>7. Continue(c, more)
  BY <1>1, <1>5, <1>6 DEF Lstat
<1>8. more \in Seq(Todos)
  <2>1. CASE r.op = "delete"
    <3>1. PICK do : do = IF IsDir(h, p) THEN "readdir" ELSE "remove"
      OBVIOUS
    <3>2. more = <<Req(do, p)>> /\ do \in Dos
      BY <1>6, <2>1, <3>1, DosFacts DEF AfterLstat
    <3> QED BY <1>2, <3>2, ReqFacts
  <2>2. CASE r.op = "changePerm"
    <3>1. more = <<Req("readdir", p)>> \/ more = <<>>
      BY <1>6, <2>2 DEF AfterLstat
    <3>2. <<Req("readdir", p)>> \in Seq(Todos)
      BY <1>2, DosFacts, ReqFacts
    <3> QED BY <3>1, <3>2, EmptyTodo
  <2>3. CASE r.op = "move"
    <3>1. more = [i \in DOMAIN r.items |-> RenameTo(r.items[i], Dest(r, isDir, r.items[i]))]
      <4>1. CASE isDir
        BY <1>4, <1>6, <2>3, <4>1 DEF AfterLstat, MoveItems, Dest
      <4>2. CASE ~isDir
        BY <1>4, <1>6, <2>3, <4>2 DEF AfterLstat, MoveItems, Dest
      <4> QED BY <4>1, <4>2
    <3> QED BY <1>2, <3>1, MoveItemsFacts
  <2>4. CASE r.op = "download"
    <3>1. PICK x, y, z : x = Req("open", p) /\ y = Req("read", p) /\ z = Req("close", p)
      OBVIOUS
    <3>2. more = <<x, y, z>>
      BY <1>6, <2>4, <3>1 DEF AfterLstat
    <3>3. x \in Todos /\ y \in Todos /\ z \in Todos
      BY <1>2, <3>1, DosFacts, ReqFacts
    <3> QED BY <3>2, <3>3
  <2> QED BY <1>3, <2>1, <2>2, <2>3, <2>4
<1> QED BY <1>7, <1>8

(* after ReadDir too, *)
LEMMA ReadDirGoes ==
    ASSUME NEW c, Sound(c), ReadDir(c)
    PROVE  Goes(c)
<1>0. Serve(c) /\ ServerInv
  BY DEF Serve, Sound
<1>1. PICK p, h, r : p = Path(c) /\ h = sftp /\ r = req[c]
  OBVIOUS
<1>2. r \in Requests /\ p \in Paths /\ Role(r.op, file[c], "readdir") /\ h \in Hosts
  BY <1>1, ReadyFacts DEF ReadDir
<1>3. r.op \in {"list", "delete", "changePerm"} \cup Uploads
  BY <1>2 DEF Role
<1>5. SUFFICES ASSUME ~GiveUp(c) PROVE \E more \in Seq(Todos) : Continue(c, more)
  BY DEF Goes
<1>6. PICK taken : taken = Taken(h, p)
  OBVIOUS
<1>7. PICK more : more = AfterReadDir(r, p, taken)
  OBVIOUS
<1>8. Continue(c, more)
  BY <1>1, <1>5, <1>6, <1>7 DEF ReadDir
<1>9. more \in Seq(Todos)
  <2>1. CASE r.op = "list"
    BY <1>7, <2>1 DEF AfterReadDir
  <2>2. CASE r.op = "delete"
    <3>1. PICK S, u, v : S = {Req("lstat", Append(p, n)) : n \in taken} /\ u = SetToSeq(S) /\ v = <<Req("rmdir", p)>>
      OBVIOUS
    <3>2. more = u \o v
      BY <1>7, <2>2, <3>1 DEF AfterReadDir
    <3>3. ForEach(h, p, "lstat", u)
      BY <1>0, <1>2, <1>6, <3>1, TakenFacts, DosFacts
    <3>4. v \in Seq(Todos)
      BY <1>2, <3>1, DosFacts, ReqFacts
    <3> QED BY <3>2, <3>3, <3>4 DEF ForEach
  <2>3. CASE r.op = "changePerm"
    <3>1. PICK S : S = {Req("chmod", Append(p, n)) : n \in taken}
      OBVIOUS
    <3>2. more = SetToSeq(S)
      BY <1>7, <2>3, <3>1 DEF AfterReadDir
    <3>3. ForEach(h, p, "chmod", more)
      BY <1>0, <1>2, <1>6, <3>1, <3>2, TakenFacts, DosFacts
    <3> QED BY <3>3 DEF ForEach
  <2>4. CASE r.op \in Uploads
    <3>1. PICK n : n = IF r.op = "upload" THEN r.name ELSE FreeName(r.name, taken)
      OBVIOUS
    <3>2. PICK q : q = Append(p, n)
      OBVIOUS
    <3>3. more = <<Req("create", q)>>
      BY <1>7, <2>4, <3>1, <3>2 DEF AfterReadDir, Uploads
    <3>4. r.name \in Names
      BY <1>2, <2>4, RequestFacts, RequestAssumption
    <3>5. n \in Entries
      BY <3>1, <3>4, FreeNameFacts DEF Entries
    <3>6. q \in Paths
      BY <1>2, <3>2, <3>5, AppendFacts DEF Paths
    <3> QED BY <3>3, <3>6, DosFacts, ReqFacts
  <2> QED BY <1>3, <2>1, <2>2, <2>3, <2>4
<1> QED BY <1>8, <1>9

(* and after every request. *)
LEMMA ServeGoes ==
    ASSUME NEW c, Sound(c), Serve(c)
    PROVE  Goes(c)
<1>1. CASE Fails(c) \/ Panic(c)
  BY <1>1 DEF Goes, Fails, Panic, callVars
<1>2. CASE Continue(c, <<>>)
  BY <1>2, EmptyTodo DEF Goes
<1>3. CASE RealPath(c) \/ Mkdir(c) \/ DoRemove(c) \/ DoRename(c) \/ Open(c) \/ Write(c) \/ Close(c)
  BY <1>2, <1>3 DEF RealPath, Mkdir, DoRemove, DoRename, Open, Write, Close
<1>4. CASE Read(c)
  BY <1>2, <1>4 DEF Read, Goes
<1>5. CASE RunCp(c)
  BY <1>2, <1>5, CopyEffect DEF Goes
<1>6. CASE Chmod(c)
  <2>1. PICK p : p = Path(c)
    OBVIOUS
  <2>2. p \in Paths
    BY <1>6, <2>1, ReadyFacts DEF Chmod
  <2>3. <<Req("lstat", p)>> \in Seq(Todos)
    BY <2>2, DosFacts, ReqFacts
  <2>4. Continue(c, <<Req("lstat", p)>>) \/ Continue(c, <<>>)
    BY <1>6, <2>1 DEF Chmod
  <2> QED BY <1>2, <2>3, <2>4 DEF Goes
<1>7. CASE OpenToWrite(c)
  <2>1. PICK r, h : r = req[c] /\ h = sftp
    OBVIOUS
  <2>2. PICK p : p = Follow(h, Path(c))
    OBVIOUS
  <2>3. PICK w : w = Writes(r, p)
    OBVIOUS
  <2>4. p \in Paths /\ r \in Requests
    BY <1>7, <2>1, <2>2, OpenEffect, OwnFrame
  <2>5. w \in Seq(Todos)
    BY <2>3, <2>4, WritesFacts
  <2>6. Continue(c, w)
    BY <1>7, <2>1, <2>2, <2>3 DEF OpenToWrite
  <2> QED BY <2>5, <2>6 DEF Goes
<1> QED BY <1>1, <1>3, <1>4, <1>5, <1>6, <1>7, LstatGoes, ReadDirGoes DEF Serve

(* A call answers exactly when it has no request left. *)
LEMMA OwnTodo ==
    ASSUME NEW c, Sound(c), Serve(c)
    PROVE  /\ todo'[c] \in Seq(Todos) /\ (todo'[c] # <<>> <=> ans'[c] = "running")
           /\ ans'[c] \in {"running", "ok", "error"}
<1>0. ans[c] = "running" /\ c \in Calls /\ todo[c] \in Seq(Todos) /\ todo[c] # <<>>
      /\ DOMAIN todo = Calls /\ DOMAIN ans = Calls
  BY OwnFrame DEF Sound, CallTyped, Doms
<1>1. ASSUME NEW more \in Seq(Todos), Continue(c, more)
      PROVE  /\ todo'[c] \in Seq(Todos) /\ (todo'[c] # <<>> <=> ans'[c] = "running")
             /\ ans'[c] \in {"running", "ok", "error"}
  BY <1>0, <1>1, ContinueElems DEF Spliced
<1>2. CASE GiveUp(c)
  BY <1>0, <1>2 DEF GiveUp
<1>3. CASE todo' = todo /\ ans' = ans
  BY <1>0, <1>3
<1> QED BY <1>1, <1>2, <1>3, ServeGoes DEF Goes

(* Open files stay open files when nodes are added, *)
LEMMA FilesGrow ==
    ASSUME Grown(node, node')
    PROVE  Files \subseteq Files' /\ \A f : OpenFile(f) => OpenFile(f)'
<1>1. Files \subseteq Files'
  BY DEF Grown, Files
<1>2. ASSUME NEW f, OpenFile(f) PROVE OpenFile(f)'
  <2>1. f.id \in DOMAIN node
    BY <1>2 DEF OpenFile, Files
  <2> QED BY <1>1, <1>2, <2>1 DEF OpenFile, Grown
<1> QED BY <1>1, <1>2

(* What a call has read. *)
Got(u) ==
    u \in Seq([f : Files, data : Contents]) /\ \A i \in DOMAIN u : OpenFile(u[i].f)

(* and contents that were read stay contents. *)
LEMMA GotGrows ==
    ASSUME NEW u, Got(u), Grown(node, node')
    PROVE  Got(u)'
<1>1. PICK F, G, T : F = Files /\ G = Files' /\ T = [f : F, data : Contents]
  OBVIOUS
<1>2. PICK U : U = [f : G, data : Contents]
  OBVIOUS
<1>3. F \subseteq G /\ \A f : OpenFile(f) => OpenFile(f)'
  BY <1>1, FilesGrow
<1>4. T \subseteq U
  BY <1>1, <1>2, <1>3
<1>5. u \in Seq(T)
  BY <1>1 DEF Got
<1>6. u \in Seq(U)
  BY <1>4, <1>5
<1>7. u \in Seq([f : G, data : Contents])
  BY <1>2, <1>6
<1> QED BY <1>1, <1>3, <1>7 DEF Got

(* No request takes a node away or changes its kind. *)
LEMMA ServeGrown ==
    ASSUME NEW c, Sound(c), Serve(c)
    PROVE  Grown(node, node')
<1>1. PICK h, P : Server(c, h, P)
  BY ServeEffect
<1> QED BY <1>1 DEF Server

(* The file that was opened for reading, and the contents that begin. *)
LEMMA OpenReads ==
    ASSUME NEW c, Sound(c), Open(c), NEW f, f = file'[c], NEW v, v = got'[c]
    PROVE  OpenFile(f) /\ Got(v)
<1>1. PICK x, h : x = Path(c) /\ h = sftp
  OBVIOUS
<1>2. PICK p : p = Follow(h, x)
  OBVIOUS
<1>3. c \in Calls /\ DOMAIN file = Calls /\ DOMAIN got = Calls /\ ServerInv
  BY DEF Sound, Doms
<1>4. f = Opened(x, p, tree[h][p]) /\ v = Append(got[c], [f |-> f, data |-> <<>>])
  BY <1>1, <1>2, <1>3 DEF Open
<1>5. p \in DOMAIN tree[h] /\ node[tree[h][p]].kind = "file" /\ h \in Hosts /\ x \in Paths
  BY <1>1, <1>2, ReadyFacts DEF Open, IsFile, Exists, At
<1>6. tree[h][p] \in DOMAIN node /\ tree[h][p][1] = h /\ p \in Paths
  BY <1>3, <1>5, NodeAt
<1>7. f = [host |-> h, id |-> tree[h][p], asked |-> x, path |-> p, pos |-> 0]
  BY <1>1, <1>4 DEF Opened
<1>8. OpenFile(f)
  BY <1>5, <1>6, <1>7 DEF OpenFile, Files
<1>9. PICK u, g, T : u = got[c] /\ g = [f |-> f, data |-> <<>>] /\ T = [f : Files, data : Contents]
  OBVIOUS
<1>10. g \in T /\ g.f = f
  BY <1>8, <1>9 DEF OpenFile, Contents
<1>11. u \in Seq(T) /\ \A i \in DOMAIN u : OpenFile(u[i].f)
  BY <1>9 DEF Sound, CallTyped
<1>12. v = Append(u, g)
  BY <1>4, <1>9
<1>13. v \in Seq(T) /\ Len(v) = Len(u) + 1 /\ v[Len(u) + 1] = g /\ \A i \in 1 .. Len(u) : v[i] = u[i]
  BY <1>10, <1>11, <1>12, AppendElems
<1>14. ASSUME NEW i \in DOMAIN v PROVE OpenFile(v[i].f)
  <2>1. i \in DOMAIN u \/ i = Len(u) + 1
    BY <1>11, <1>13
  <2> QED BY <1>8, <1>10, <1>11, <1>13, <2>1
<1> QED BY <1>8, <1>9, <1>13, <1>14 DEF Got

(* Contents cut or filled up to a length are contents. *)
LEMMA FitFacts ==
    ASSUME NEW d \in Contents, NEW n \in Nat
    PROVE  Fit(d, n) \in Contents
  BY DEF Fit, Contents

(* The file and the contents after a read. *)
LEMMA ReadReads ==
    ASSUME NEW c, Sound(c), Read(c), NEW e, e = file'[c], NEW v, v = got'[c]
    PROVE  OpenFile(e) /\ Got(v)
<1>0. Serve(c) /\ Head(todo[c]).do = "read" /\ tree' = tree /\ node' = node
  BY DEF Serve, Read, OnFile, srvVars
<1>1. PICK f, u, r : f = file[c] /\ u = got[c] /\ r = req[c]
  OBVIOUS
<1>2. ans[c] = "running" /\ c \in Calls /\ DOMAIN file = Calls /\ DOMAIN got = Calls
  BY <1>0, OwnFrame DEF Sound, Doms
<1>3. r.op \in Readers
  <2>1. PICK op, do : op = r.op /\ do = Head(todo[c]).do
    OBVIOUS
  <2>2. Role(op, f, do)
    BY <1>1, <1>2, <2>1, Roles DEF Sound
  <2> QED BY <1>0, <2>1, <2>2 DEF Role
<1>4. Partial(c)
  <2>1. ReadInv(c)
    BY <1>0, <1>1, <1>3, ReadFrame
  <2>2. Reading(c)
    BY <1>0, <1>2, HeadFacts DEF Sound, Reading
  <2> QED BY <2>1, <2>2 DEF ReadInv
<1>5. f # NoFile /\ u # <<>>
  BY <1>1, <1>4 DEF Partial
<1>6. OpenFile(f) /\ size[c] \in Nat /\ Got(u)
  BY <1>1, <1>5 DEF Sound, CallTyped, Got
<1>7. PICK T : T = [f : Files, data : Contents]
  OBVIOUS
<1>8. u \in Seq(T)
  BY <1>6, <1>7 DEF Got
<1>9. PICK n \in Nat : n = Len(u) /\ n > 0 /\ DOMAIN u = 1 .. n
  BY <1>5, <1>8
<1>10. u[n] \in T /\ OpenFile(u[n].f)
  BY <1>6, <1>8, <1>9 DEF Got
<1>11. PICK d \in Contents : d = u[n].data
  <2>1. u[n].data \in Contents
    BY <1>7, <1>10
  <2> QED BY <2>1, Zenon
<1>12. node[f.id].data \in Contents /\ f.pos \in Nat
  <2>1. f.id \in DOMAIN node /\ node[f.id].kind = "file" /\ f.pos \in Nat
    BY <1>6 DEF OpenFile, Files
  <2>2. node[f.id] \in NodeRecs
    BY <2>1 DEF Sound, ServerInv
  <2> QED BY <2>1, <2>2 DEF NodeRecs
<1>13. PICK data : data = node[f.id].data
  OBVIOUS
<1>14. ASSUME NEW w \in Contents, got' = [got EXCEPT ![c][n].data = w]
       PROVE  Got(v)
  <2>1. v = [u EXCEPT ![n].data = w]
    BY <1>1, <1>2, <1>14
  <2>2. Amended(u, v, n, w)
    <3>1. u \in Seq([f : Files, data : Contents])
      BY <1>7, <1>8
    <3> QED BY <1>9, <2>1, <3>1, AmendedFacts
  <2>3. DOMAIN v = 1 .. n /\ v[n].f = u[n].f /\ \A i \in 1 .. n : i # n => v[i] = u[i]
    BY <2>2 DEF Amended
  <2>4. PICK y : y = [u[n] EXCEPT !.data = w]
    OBVIOUS
  <2>5. y \in T
    BY <1>7, <1>10, <2>4
  <2>6. v = [i \in 1 .. n |-> IF i = n THEN y ELSE u[i]]
    BY <1>9, <2>1, <2>4
  <2>7. v \in Seq(T)
    <3>1. \A i \in 1 .. n : u[i] \in T
      BY <1>8, <1>9
    <3> QED BY <2>5, <2>6, <3>1
  <2>8. \A i \in DOMAIN v : OpenFile(v[i].f)
    BY <1>6, <1>9, <1>10, <2>3 DEF Got
  <2> QED BY <1>7, <2>7, <2>8 DEF Got
<1>15. CASE /\ f.pos < Len(data)
            /\ got' = [got EXCEPT ![c][n].data = Append(@, data[f.pos + 1])]
            /\ file' = [file EXCEPT ![c].pos = @ + 1]
  <2>1. PICK w : w = Append(d, data[f.pos + 1])
    OBVIOUS
  <2>2. w \in Contents
    <3>1. data[f.pos + 1] \in Units \cup {0}
      BY <1>12, <1>13, <1>15 DEF Contents
    <3> QED BY <2>1, <3>1 DEF Contents
  <2>3. got' = [got EXCEPT ![c][n].data = w]
    BY <1>1, <1>11, <1>15, <2>1
  <2>4. e = [f EXCEPT !.pos = @ + 1]
    BY <1>1, <1>2, <1>15
  <2>5. OpenFile(e)
    BY <1>6, <2>4 DEF OpenFile, Files
  <2> QED BY <1>14, <2>2, <2>3, <2>5
<1>16. CASE /\ got' = [got EXCEPT ![c][n].data = IF r.op = "download" THEN Fit(@, size[c]) ELSE @]
            /\ file' = file
  <2>1. PICK w : w = IF r.op = "download" THEN Fit(d, size[c]) ELSE d
    OBVIOUS
  <2>2. w \in Contents
    BY <1>6, <2>1, FitFacts
  <2>3. got' = [got EXCEPT ![c][n].data = w]
    BY <1>1, <1>11, <1>16, <2>1
  <2> QED BY <1>1, <1>6, <1>14, <1>16, <2>2, <2>3
<1> QED BY <1>1, <1>9, <1>13, <1>15, <1>16 DEF Read

(* The files, contents and size that a call keeps stay in their ranges. *)
LEMMA OwnFiles ==
    ASSUME NEW c, Sound(c), Serve(c), NEW f, f = file'[c], NEW v, v = got'[c]
    PROVE  (f = NoFile \/ OpenFile(f)') /\ Got(v)' /\ size'[c] \in Nat
<1>0. Grown(node, node') /\ c \in Calls /\ DOMAIN size = Calls /\ size[c] \in Nat /\ Got(got[c])
      /\ (file[c] = NoFile \/ OpenFile(file[c])) /\ ServerInv
  BY ServeGrown DEF Sound, Doms, CallTyped, Got
<1>1. (f = NoFile \/ OpenFile(f)) => (f = NoFile \/ OpenFile(f)')
  BY <1>0, FilesGrow
<1>2. Got(v) => Got(v)'
  BY <1>0, GotGrows
<1>3. CASE Fails(c) \/ Panic(c) \/ ReadDir(c) \/ RealPath(c) \/ Mkdir(c) \/ DoRemove(c) \/ DoRename(c)
           \/ Chmod(c) \/ Close(c) \/ RunCp(c)
  <2>1. file' = file /\ got' = got /\ size' = size
    BY <1>3 DEF Fails, Panic, ReadDir, RealPath, Mkdir, DoRemove, DoRename, Chmod, Close, RunCp, callVars
  <2> QED BY <1>0, <1>1, <1>2, <2>1
<1>4. CASE Lstat(c)
  <2>1. file' = file /\ got' = got
    BY <1>4 DEF Lstat
  <2>2. PICK p, h : p = Path(c) /\ h = sftp
    OBVIOUS
  <2>3. size'[c] = Len(node[tree[h][p]].data) /\ p \in DOMAIN tree[h] /\ h \in Hosts
    BY <1>0, <1>4, <2>2, ReadyFacts DEF Lstat, Exists, SizeOf, At
  <2>4. node[tree[h][p]] \in NodeRecs
    BY <1>0, <2>3, NodeAt
  <2>5. node[tree[h][p]].data \in Contents \/ node[tree[h][p]].data \in Paths
    BY <2>4 DEF NodeRecs
  <2>6. Len(node[tree[h][p]].data) \in Nat
    BY <2>5 DEF Contents, Paths
  <2> QED BY <1>0, <1>1, <1>2, <2>1, <2>3, <2>6
<1>5. CASE Open(c) \/ Read(c)
  <2>1. size' = size
    BY <1>5 DEF Open, Read
  <2>2. OpenFile(f) /\ Got(v)
    BY <1>5, OpenReads, ReadReads
  <2> QED BY <1>0, <1>1, <1>2, <2>1, <2>2
<1>6. CASE OpenToWrite(c)
  <2>1. got' = got /\ size' = size
    BY <1>6 DEF OpenToWrite
  <2>2. PICK h : h = sftp
    OBVIOUS
  <2>3. PICK p : p = Follow(h, Path(c))
    OBVIOUS
  <2>4. JustOpened(c, h, p, f)
    BY <1>6, <2>2, <2>3, OpenedFacts
  <2>5. OpenFile(f)'
    BY <2>4 DEF JustOpened, OpenFile, Files
  <2> QED BY <1>0, <1>2, <2>1, <2>5
<1>7. CASE Write(c)
  <2>1. got' = got /\ size' = size
    BY <1>7 DEF Write
  <2>2. PICK g : g = file[c]
    OBVIOUS
  <2>3. OpenFile(g)
    BY <1>7, <2>2, WriteEffect
  <2>4. g # NoFile
    <3>1. g.host # Nil
      BY <2>3, HostAssumption DEF OpenFile, Files
    <3> QED BY <3>1 DEF NoFile
  <2>5. f \in Files /\ f.id = g.id /\ f.host = g.host
    <3>1. c \in Calls /\ DOMAIN file = Calls /\ g \in Files
      BY <2>3 DEF Sound, Doms, OpenFile
    <3>2. f = [g EXCEPT !.pos = @ + 1]
      BY <1>7, <2>2, <3>1 DEF Write
    <3> QED BY <3>1, <3>2 DEF Files
  <2>6. OpenFile(f)
    BY <2>3, <2>5 DEF OpenFile
  <2> QED BY <1>0, <1>1, <1>2, <2>1, <2>6
<1> QED BY <1>3, <1>4, <1>5, <1>6, <1>7 DEF Serve

(* What others changed is noted with a call that has begun. *)
LEMMA TypedFrom ==
    ASSUME NEW x, NEW a, a = ans'[x], NEW r, r = req'[x], NEW t, t = todo'[x], NEW f, f = file'[x],
           NEW u, u = got'[x], NEW E, E = changes'[x], NEW g, g = home'[x],
           a \in Answers, a # "idle" => r \in Requests,
           t \in Seq(Todos), t # <<>> <=> a = "running",
           f = NoFile \/ OpenFile(f)', size'[x] \in Nat, Got(u)',
           a \notin {"idle", "silent"} => g \in Hosts,
           a \in {"idle", "silent"} => f = NoFile /\ u = <<>> /\ E = {},
           \A e \in E : e \in [by : Calls, host : Hosts, path : Paths] /\ Begun(e.by)' /\ e.by # x
    PROVE  CallTyped(x)'
<1>1. u \in Seq([f : Files', data : Contents]) /\ \A i \in DOMAIN u : OpenFile(u[i].f)'
  BY DEF Got
<1> QED BY <1>1 DEF CallTyped, Begun

(* Every call keeps its ranges when one makes a request, *)
LEMMA ServeTyped ==
    ASSUME IInv, NEW c \in Calls, Serve(c), NEW x \in Calls
    PROVE  CallTyped(x)'
<1>0. /\ Sound(c) /\ Acts(c) /\ Grown(node, node') /\ Begun(c)
      /\ todo'[c] \in Seq(Todos) /\ (todo'[c] # <<>> <=> ans'[c] = "running")
      /\ ans'[c] \in {"running", "ok", "error"}
  BY AllSound, OwnFrame, ServeGrown, OwnTodo
<1>1. \A y \in Calls : Begun(y) => Begun(y)'
  BY <1>0 DEF Acts, Keeps, Begun
<1>2. CallTyped(x)
  BY DEF IInv
<1>3. PICK f, u, E : f = file'[x] /\ u = got'[x] /\ E = changes'[x]
  OBVIOUS
<1>4. req'[x] = req[x] /\ home'[x] = home[x]
  BY <1>0 DEF Acts
<1>5. CASE x = c
  <2>1. (f = NoFile \/ OpenFile(f)') /\ Got(u)' /\ size'[x] \in Nat
    BY <1>0, <1>3, <1>5, OwnFiles
  <2>2. changes'[x] = changes[x]
    BY <1>0, <1>5, OwnFrame
  <2>3. \A e \in E : e \in [by : Calls, host : Hosts, path : Paths] /\ Begun(e.by)' /\ e.by # x
    BY <1>1, <1>2, <1>3, <2>2 DEF CallTyped
  <2>4. ans'[x] \in Answers /\ ans'[x] \notin {"idle", "silent"}
    BY <1>0, <1>5 DEF Answers
  <2>5. req[x] \in Requests /\ home[x] \in Hosts
    BY <1>0, <1>5, OwnFrame
  <2> QED BY <1>0, <1>3, <1>4, <1>5, <2>1, <2>3, <2>4, <2>5, TypedFrom
<1>6. CASE x # c
  <2>1. Keeps(x)
    BY <1>0, <1>6 DEF Acts
  <2>2. (f = NoFile \/ OpenFile(f)') /\ Got(u)' /\ size'[x] \in Nat
    <3>1. (f = NoFile \/ OpenFile(f)) /\ Got(u) /\ size'[x] \in Nat
      BY <1>2, <1>3, <2>1 DEF CallTyped, Keeps, Got
    <3> QED BY <1>0, <3>1, FilesGrow, GotGrows
  <2>3. PICK h, P : Server(c, h, P)
    BY <1>0, ServeEffect
  <2>4. \A e \in E : e \in [by : Calls, host : Hosts, path : Paths] /\ Begun(e.by)' /\ e.by # x
    <3> SUFFICES ASSUME NEW e \in E
                 PROVE  e \in [by : Calls, host : Hosts, path : Paths] /\ Begun(e.by)' /\ e.by # x
      OBVIOUS
    <3>1. CASE e \in changes[x]
      BY <1>1, <1>2, <3>1 DEF CallTyped
    <3>2. CASE e \notin changes[x]
      <4>1. PICK p \in P : e = [by |-> c, host |-> h, path |-> p]
        BY <1>3, <2>3, <3>2 DEF Server, Noted
      <4>2. h \in Hosts /\ p \in Paths
        BY <2>3 DEF Server
      <4>3. e \in [by : Calls, host : Hosts, path : Paths] /\ e.by = c
        BY <4>1, <4>2
      <4> QED BY <1>0, <1>1, <1>6, <4>3
    <3> QED BY <3>1, <3>2
  <2>5. ~Begun(x) => changes'[x] = changes[x]
    BY <2>3 DEF Server, Noted
  <2>6. ans'[x] \in Answers /\ (ans'[x] # "idle" => req'[x] \in Requests)
        /\ todo'[x] \in Seq(Todos) /\ (todo'[x] # <<>> <=> ans'[x] = "running")
        /\ (ans'[x] \notin {"idle", "silent"} => home'[x] \in Hosts)
        /\ (ans'[x] \in {"idle", "silent"} => f = NoFile /\ u = <<>> /\ E = {})
    BY <1>2, <1>3, <2>1, <2>5 DEF CallTyped, Keeps, Begun
  <2> QED BY <1>3, <2>2, <2>4, <2>6, TypedFrom
<1> QED BY <1>5, <1>6

(* and the client that it began on, *)
LEMMA ServeHome ==
    ASSUME IInv, NEW c \in Calls, Serve(c), NEW x \in Calls
    PROVE  OnHome(x)'
<1>0. Acts(c)
  BY AllSound, OwnFrame
<1>1. ans'[x] = "running" => ans[x] = "running"
  BY <1>0 DEF Acts, Keeps
<1>2. OnHome(x)
  BY DEF IInv
<1> QED BY <1>0, <1>1, <1>2 DEF OnHome, Acts

(* (the ReadDir of an upload leads to one create) *)
LEMMA UploadCreates ==
    ASSUME NEW c, Sound(c), ReadDir(c), req[c].op \in Uploads, ~GiveUp(c)
    PROVE  \E q \in Paths : Continue(c, <<Req("create", q)>>)
<1>1. PICK p, h, r : p = Path(c) /\ h = sftp /\ r = req[c]
  OBVIOUS
<1>2. r \in Requests /\ p \in Paths
  BY <1>1, ReadyFacts DEF ReadDir
<1>3. PICK taken : taken = Taken(h, p)
  OBVIOUS
<1>4. Continue(c, AfterReadDir(r, p, taken))
  BY <1>1, <1>3 DEF ReadDir
<1>5. PICK n : n = IF r.op = "upload" THEN r.name ELSE FreeName(r.name, taken)
  OBVIOUS
<1>6. PICK q : q = Append(p, n)
  OBVIOUS
<1>7. AfterReadDir(r, p, taken) = <<Req("create", q)>>
  BY <1>1, <1>5, <1>6 DEF AfterReadDir, Uploads
<1>8. r.name \in Names
  BY <1>1, <1>2, RequestFacts, RequestAssumption
<1>9. n \in Entries
  BY <1>5, <1>8, FreeNameFacts DEF Entries
<1>10. q \in Paths
  BY <1>2, <1>6, <1>9, AppendFacts DEF Paths
<1> QED BY <1>4, <1>7, <1>10

(* An upload creates its directory before its file. *)
LEMMA FreshUpload ==
    ASSUME IInv, NEW c \in Calls, Serve(c), req[c].op \in Uploads
    PROVE  Fresh(c)'
<1>0. /\ Sound(c) /\ req'[c] = req[c] /\ ans'[c] \in {"running", "ok", "error"} /\ Fresh(c)
      /\ ans[c] = "running" /\ DOMAIN ans = Calls /\ DOMAIN todo = Calls
      /\ (file[c] # NoFile => file'[c] # NoFile)
  BY AllSound, OwnFrame, OwnTodo, UploadOwn DEF IInv, Doms
<1>1. SUFFICES ASSUME NEW h \in Hosts, NEW p \in Paths, <<h, c, p>> \in DOMAIN node',
                      ans'[c] = "running", file'[c] = NoFile
               PROVE  /\ req[c].op = "uploadToDownloads" /\ p = Downloads
                      /\ \A j \in DOMAIN todo'[c] : todo'[c][j].do \notin {"realpath", "mkdirall"}
  BY <1>0 DEF Fresh
<1>2. file[c] = NoFile
  BY <1>0, <1>1
<1>3. <<h, c, p>> \in DOMAIN node =>
         /\ req[c].op = "uploadToDownloads" /\ p = Downloads
         /\ \A j \in DOMAIN todo[c] : todo[c][j].do \notin {"realpath", "mkdirall"}
  BY <1>0, <1>2 DEF Fresh
<1>4. ~OpenToWrite(c)
  <2> SUFFICES ASSUME OpenToWrite(c) PROVE FALSE
    OBVIOUS
  <2>1. PICK k, f : k = sftp /\ f = file'[c]
    OBVIOUS
  <2>2. PICK q : q = Follow(k, Path(c))
    OBVIOUS
  <2>3. JustOpened(c, k, q, f)
    BY <1>0, <2>1, <2>2, OpenedFacts
  <2> QED BY <1>1, <2>1, <2>3 DEF JustOpened
<1>5. PICK x, r : x = Head(todo[c]) /\ r = req[c]
  OBVIOUS
<1>6. CASE Fails(c) \/ Panic(c)
  <2>1. todo' = todo /\ node' = node
    BY <1>0, <1>1, <1>6 DEF Fails, Panic, GiveUp, callVars, srvVars
  <2> QED BY <1>1, <1>3, <2>1
<1>7. x = todo[c][1] /\ 1 \in DOMAIN todo[c] /\ r.op \in Writers /\ r \in Requests
  BY <1>0, <1>5, HeadFacts, OwnFrame DEF Sound, Writers
<1>8. CASE RealPath(c)
  <2>1. node' = node /\ x.do = "realpath"
    BY <1>5, <1>8 DEF RealPath, Ready, srvVars
  <2> QED BY <1>1, <1>3, <1>7, <2>1
<1>9. CASE Close(c)
  <2>1. PICK op, f, do : op = r.op /\ f = file[c] /\ do = x.do
    OBVIOUS
  <2>2. Role(op, f, do) /\ do = "close"
    BY <1>0, <1>5, <1>9, <2>1, Roles DEF Sound, Close, OnFile
  <2> QED BY <1>2, <1>7, <2>1, <2>2 DEF Role, Readers, Writers, Uploads
<1>10. CASE Mkdir(c)
  <2>1. x.do = "mkdirall"
    <3>1. PICK op, f, do : op = r.op /\ f = file[c] /\ do = x.do
      OBVIOUS
    <3>2. Role(op, f, do) /\ do \in {"mkdir", "mkdirall"}
      BY <1>0, <1>5, <1>10, <3>1, Roles DEF Sound, Mkdir, Ready
    <3> QED BY <1>5, <3>1, <3>2 DEF Role, Readers, Writers, Uploads
  <2>2. <<h, c, p>> \notin DOMAIN node
    BY <1>3, <1>7, <2>1
  <2>3. PICK g, q : g = sftp /\ q = Path(c)
    OBVIOUS
  <2>4. DOMAIN node' = DOMAIN node \cup {<<g, c, q>>} \/ node' = node
    BY <1>0, <1>10, <2>3, MkdirEffect
  <2>5. <<h, c, p>> = <<g, c, q>>
    BY <1>1, <2>2, <2>4
  <2>6. p = q
    BY <2>5
  <2>7. /\ r.op = "uploadToDownloads" /\ x.path = Downloads
        /\ Tail(todo[c]) = <<Req("readdir", Downloads)>>
    BY <1>0, <1>2, <1>5, <1>7, <2>1, UnopenedFacts
  <2>8. q = Downloads
    BY <1>5, <2>3, <2>7 DEF Path
  <2>9. todo'[c] = <<Req("readdir", Downloads)>>
    <3>1. PICK y : y = Req("readdir", Downloads)
      OBVIOUS
    <3>2. y \in Todos
      BY <3>1, RequestAssumption, DosFacts, ReqFacts
    <3>3. todo'[c] = <<>> \o <<y>>
      BY <1>0, <1>10, <2>7, <3>1 DEF Mkdir, Continue
    <3> QED BY <3>1, <3>2, <3>3
  <2>10. \A j \in DOMAIN todo'[c] : todo'[c][j].do = "readdir"
    BY <2>9 DEF Req
  <2> QED BY <1>5, <2>6, <2>7, <2>8, <2>10
<1>11. CASE ReadDir(c)
  <2>1. node' = node /\ x.do = "readdir"
    BY <1>5, <1>11 DEF ReadDir, Ready, srvVars
  <2>2. todo[c] = <<x>>
    BY <1>0, <1>2, <1>5, <1>7, <2>1, UnopenedFacts
  <2>3. ~GiveUp(c)
    BY <1>0, <1>1 DEF GiveUp
  <2>4. PICK q \in Paths : Continue(c, <<Req("create", q)>>)
    BY <1>0, <1>11, <2>3, UploadCreates
  <2>5. PICK more : more = <<Req("create", q)>>
    OBVIOUS
  <2>6. more \in Seq(Todos)
    BY <2>5, DosFacts, ReqFacts
  <2>7. todo'[c] = more
    BY <1>0, <2>2, <2>4, <2>5, <2>6, OneRequest
  <2>8. \A j \in DOMAIN todo'[c] : todo'[c][j].do = "create"
    BY <2>5, <2>7 DEF Req
  <2> QED BY <1>1, <1>3, <2>1, <2>8
<1> QED BY <1>0, <1>2, <1>4, <1>6, <1>8, <1>9, <1>10, <1>11, UploadActs

(* and the nodes it has yet to create are new, *)
LEMMA FreshOther ==
    ASSUME IInv, NEW c \in Calls, Serve(c), req[c].op \notin Uploads
    PROVE  Fresh(c)'
<1>0. /\ Sound(c) /\ req'[c] = req[c] /\ ans'[c] \in {"running", "ok", "error"} /\ Fresh(c)
      /\ ans[c] = "running" /\ DOMAIN ans = Calls /\ Active(c)
  BY AllSound, OwnFrame, OwnTodo DEF IInv, Doms
<1>1. SUFFICES ASSUME NEW h \in Hosts, NEW p \in Paths, <<h, c, p>> \in DOMAIN node'
               PROVE  ans'[c] \in {"ok", "error"}
  BY DEF Fresh
<1>2. <<h, c, p>> \notin DOMAIN node
  BY <1>0 DEF Fresh, Uploads
<1>3. CASE Fails(c) \/ Panic(c) \/ Lstat(c) \/ ReadDir(c) \/ RealPath(c) \/ DoRemove(c) \/ DoRename(c)
           \/ Open(c) \/ Read(c) \/ Close(c)
  <2>1. node' = node
    BY <1>3 DEF Fails, Panic, Lstat, ReadDir, RealPath, DoRemove, DoRename, Open, Read, Close, srvVars
  <2> QED BY <1>1, <1>2, <2>1
<1>4. CASE Chmod(c)
  <2>1. DOMAIN node' = DOMAIN node
    BY <1>4 DEF Chmod
  <2> QED BY <1>1, <1>2, <2>1
<1>5. CASE Write(c)
  <2>1. DOMAIN node' = DOMAIN node
    BY <1>5 DEF Write
  <2> QED BY <1>1, <1>2, <2>1
<1>6. CASE OpenToWrite(c)
  <2>1. PICK g : g = sftp
    OBVIOUS
  <2>2. PICK q : q = Follow(g, Path(c))
    OBVIOUS
  <2>3. DOMAIN node' = DOMAIN node
    BY <1>0, <1>6, <2>1, <2>2, OpenEffect DEF Emptied
  <2> QED BY <1>1, <1>2, <2>3
<1>7. CASE Mkdir(c)
  <2>1. PICK op, f, do : op = req[c].op /\ f = file[c] /\ do = Head(todo[c]).do
    OBVIOUS
  <2>2. Role(op, f, do) /\ do \in {"mkdir", "mkdirall"}
    BY <1>0, <1>7, <2>1, Roles DEF Sound, Mkdir, Ready
  <2>3. op = "createFolder"
    BY <2>1, <2>2 DEF Role, Readers, Writers, Uploads
  <2>4. FolderInv(c)
    BY <1>0, <2>1, <2>3 DEF Sound, CallInv
  <2>5. PICK x : x = Req("mkdir", req[c].path)
    OBVIOUS
  <2>6. todo[c] = <<x>>
    BY <1>0, <2>4, <2>5 DEF FolderInv
  <2>7. Continue(c, <<>>)
    BY <1>7 DEF Mkdir
  <2>8. ans'[c] = "ok"
    BY <1>0, <2>6, <2>7, OnlyOne
  <2> QED BY <2>8
<1>8. CASE RunCp(c)
  <2>1. req[c].op = "copy" /\ (Continue(c, <<>>) \/ GiveUp(c))
    BY <1>0, <1>8, CopyEffect
  <2>2. PICK x : x = Req("cp", req[c].path)
    OBVIOUS
  <2>3. todo[c] = <<x>>
    BY <1>0, <2>1, <2>2 DEF Sound, CallInv, CopyInv
  <2>4. CASE Continue(c, <<>>)
    BY <1>0, <2>3, <2>4, OnlyOne
  <2>5. CASE GiveUp(c)
    BY <1>0, <2>5 DEF GiveUp
  <2> QED BY <2>1, <2>4, <2>5
<1> QED BY <1>3, <1>4, <1>5, <1>6, <1>7, <1>8 DEF Serve

(* for every call. *)
LEMMA ServeFresh ==
    ASSUME IInv, NEW c \in Calls, Serve(c), NEW x \in Calls
    PROVE  Fresh(x)'
<1>1. CASE x = c
  BY <1>1, FreshUpload, FreshOther
<1>2. CASE x # c
  <2>1. Acts(c) /\ Sound(c)
    BY AllSound, OwnFrame
  <2>2. Keeps(x) /\ Fresh(x)
    BY <1>2, <2>1 DEF Acts, IInv
  <2>3. ASSUME NEW h, NEW p, <<h, x, p>> \in DOMAIN node' PROVE <<h, x, p>> \in DOMAIN node
    <3>0. PICK n : n = <<h, x, p>>
      OBVIOUS
    <3>1. n = <<h, x, p>> /\ n[2] = x
      BY <3>0
    <3>2. n \in DOMAIN node \/ n[2] = c
      BY <2>1, <2>3, <3>1, ServeEffect
    <3> QED BY <1>2, <3>1, <3>2
  <2> QED BY <2>2, <2>3 DEF Fresh, Keeps
<1> QED BY <1>1, <1>2

(* A request keeps the invariant. *)
LEMMA ServeStep ==
    ASSUME IInv, NEW c \in Calls, Serve(c)
    PROVE  IInv'
<1>1. Acts(c) /\ ServerInv' /\ Sound(c)
  BY AllSound, OwnFrame
<1>2. Doms'
  BY <1>1 DEF Acts
<1>3. ClientInv'
  <2>1. \A x \in Calls : ans'[x] = "running" => ans[x] = "running"
    BY <1>1 DEF Acts, Keeps
  <2>2. Running' \subseteq Running
    BY <2>1 DEF Running
  <2> QED BY <1>1, <2>2 DEF Acts, Sound, ClientInv
<1>4. ASSUME NEW x \in Calls PROVE CallTyped(x)' /\ OnHome(x)' /\ Fresh(x)' /\ CallInv(x)'
  <2>1. CallInv(x)'
    BY OwnCall, OthersCall
  <2> QED BY <2>1, ServeTyped, ServeHome, ServeFresh
<1>5. OverlapInv' /\ CrossInv'
  BY ServeOverlap, ServeCross
<1> QED BY <1>1, <1>2, <1>3, <1>4, <1>5 DEF IInv

-----------------------------------------------------------------------------
(* Steps that leave the servers alone. *)

Calmly ==
    /\ tree' = tree /\ node' = node /\ changes' = changes
    /\ replaced \subseteq replaced' /\ overlap \subseteq overlap'
    /\ \A y \in Calls : Begun(y) => Keeps(y)

(* A step that leaves the servers alone disturbs no call, *)
LEMMA CalmWatch ==
    ASSUME IInv, Calmly, NEW x \in Calls, Begun(x)
    PROVE  Watch(x) /\ Keeps(x)
<1>1. CallTyped(x) /\ Keeps(x)
  BY DEF IInv, Calmly
<1>2. \A e \in changes[x] : req'[e.by] = req[e.by]
  BY <1>1 DEF CallTyped, Calmly, Keeps
<1>3. \A g, p : Disturbed(x, g, p)' <=> Disturbed(x, g, p)
  BY <1>1, <1>2 DEF Disturbed, Calmly, Keeps
<1>4. \A g, p : SoftAt(g, p) /\ SameAt(g, p)
  BY SameWhere DEF Calmly
<1> QED BY <1>1, <1>3, <1>4 DEF Watch

(* takes no excuse back, *)
LEMMA CalmSteady ==
    ASSUME IInv, Calmly
    PROVE  Steady
<1>1. ASSUME NEW y \in Calls, Begun(y)
      PROVE  req'[y] = req[y] /\ changes[y] \subseteq changes'[y] /\ Endures(y)
  <2>1. Watch(y) /\ Keeps(y) /\ CallTyped(y)
    BY <1>1, CalmWatch DEF IInv
  <2>2. Endures(y)
    BY <1>1, <2>1, WatchEndures
  <2> QED BY <2>1, <2>2 DEF Keeps, Calmly
<1> QED BY <1>1 DEF Steady, Calmly

(* keeps the trees, *)
LEMMA CalmServer ==
    ASSUME IInv, Calmly
    PROVE  ServerInv' /\ Grown(node, node')
<1>1. ServerInv'
  BY DEF IInv, Calmly, ServerInv
<1> QED BY <1>1 DEF Grown, Calmly

(* every call that it leaves alone, *)
LEMMA CalmCall ==
    ASSUME IInv, Calmly, NEW x \in Calls, Keeps(x)
    PROVE  CallTyped(x)' /\ Fresh(x)' /\ CallInv(x)'
<1>0. CallTyped(x) /\ Fresh(x) /\ CallInv(x) /\ ServerInv' /\ Grown(node, node')
  BY CalmServer DEF IInv
<1>1. CallTyped(x)'
  <2>1. PICK f, u, E : f = file'[x] /\ u = got'[x] /\ E = changes'[x]
    OBVIOUS
  <2>2. (f = NoFile \/ OpenFile(f)') /\ Got(u)' /\ size'[x] \in Nat
    <3>1. (f = NoFile \/ OpenFile(f)) /\ Got(u) /\ size'[x] \in Nat
      BY <1>0, <2>1 DEF CallTyped, Keeps, Got
    <3> QED BY <1>0, <3>1, FilesGrow, GotGrows
  <2>3. \A e \in E : e \in [by : Calls, host : Hosts, path : Paths] /\ Begun(e.by)' /\ e.by # x
    <3>1. \A y \in Calls : Begun(y) => Begun(y)'
      BY DEF Calmly, Keeps, Begun
    <3> QED BY <1>0, <2>1, <3>1 DEF CallTyped, Calmly
  <2>4. ans'[x] \in Answers /\ (ans'[x] # "idle" => req'[x] \in Requests)
        /\ todo'[x] \in Seq(Todos) /\ (todo'[x] # <<>> <=> ans'[x] = "running")
        /\ (ans'[x] \notin {"idle", "silent"} => home'[x] \in Hosts)
        /\ (ans'[x] \in {"idle", "silent"} => f = NoFile /\ u = <<>> /\ E = {})
    BY <1>0, <2>1 DEF CallTyped, Keeps, Begun, Calmly
  <2> QED BY <2>1, <2>2, <2>3, <2>4, TypedFrom
<1>2. Fresh(x)'
  BY <1>0 DEF Fresh, Keeps, Calmly
<1>3. CASE ~Begun(x)
  <2>1. ~Active(x)'
    BY <1>3 DEF Keeps, Active, Begun
  <2> QED BY <1>1, <1>2, <2>1 DEF CallInv
<1>4. CASE Begun(x)
  <2>1. Watch(x) /\ Steady
    BY <1>4, CalmWatch, CalmSteady
  <2>2. \A e \in changes'[x] : e.path \in Paths
    BY <1>0 DEF Calmly, CallTyped
  <2>3. Relies(x)
    BY <1>0, <1>4, <2>1, <2>2 DEF Relies, Calmly
  <2>4. Kept(x) /\ file[x] # NoFile => Kept(x)'
    BY DEF Kept, Keeps, Calmly, Exists
  <2>5. ExcusedBy(x) => ExcusedBy(x)'
    BY <1>0, <2>1, ExcusedByStays DEF Keeps
  <2>6. CallInv(x)'
    BY <1>0, <2>3, <2>4, <2>5, CallStays
  <2> QED BY <1>1, <1>2, <2>6
<1> QED BY <1>3, <1>4

(* and the excuses between them. *)
LEMMA CalmCross ==
    ASSUME IInv, Calmly, NEW a \in Calls, NEW b \in Calls, Keeps(a), Keeps(b), Clobbers(a, b)'
    PROVE  ExcusedBy(a)'
<1>1. Clobbers(a, b)
  BY DEF Clobbers, Keeps, Calmly
<1>2. ExcusedBy(a) /\ CallTyped(a)
  BY <1>1 DEF IInv, CrossInv
<1> QED BY <1>2, CalmSteady, ExcusedByStays DEF Keeps

(* Steps of the clients, and steps of others. *)
LEMMA CalmStep ==
    ASSUME IInv, Calmly, Doms', \A x \in Calls : Keeps(x), ClientInv', \A x \in Calls : OnHome(x)'
    PROVE  IInv'
<1>1. ServerInv' /\ \A x \in Calls : CallTyped(x)' /\ Fresh(x)' /\ CallInv(x)'
  BY CalmServer, CalmCall
<1>2. OverlapInv'
  <2>1. Running' = Running
    BY DEF Running, Keeps
  <2> QED BY <2>1 DEF IInv, OverlapInv, Calmly
<1>3. CrossInv'
  BY CalmCross DEF CrossInv
<1> QED BY <1>1, <1>2, <1>3 DEF IInv

(* A new connection. *)
LEMMA ReconnectStep ==
    ASSUME IInv, NEW h \in Hosts, Reconnect(h)
    PROVE  IInv'
<1>1. /\ todo' = todo /\ file' = file /\ size' = size /\ got' = got /\ ans' = ans /\ req' = req
      /\ home' = home /\ overlap' = overlap /\ changes' = changes /\ tree' = tree /\ node' = node
      /\ page' = page /\ sftp' = sftp /\ ssh' = h /\ pending' = TRUE /\ reconnects' = reconnects + 1
      /\ replaced' = replaced \cup Running /\ reconnects < MaxReconnects
  BY DEF Reconnect, srvVars, callVars
<1>2. Calmly /\ \A x \in Calls : Keeps(x)
  BY <1>1 DEF Calmly, Keeps
<1>3. Doms'
  BY <1>1 DEF IInv, Doms
<1>4. ClientInv'
  BY <1>1, ReconnectAssumption DEF IInv, ClientInv
<1>5. \A x \in Calls : OnHome(x)'
  BY <1>1 DEF OnHome, Running
<1> QED BY <1>2, <1>3, <1>4, <1>5, CalmStep

(* The new connection's SFTP client. *)
LEMMA InitSftpStep ==
    ASSUME IInv, InitSftp
    PROVE  IInv'
<1>1. /\ todo' = todo /\ file' = file /\ size' = size /\ got' = got /\ ans' = ans /\ req' = req
      /\ home' = home /\ overlap' = overlap /\ changes' = changes /\ tree' = tree /\ node' = node
      /\ page' = page /\ ssh' = ssh /\ pending' = FALSE /\ reconnects' = reconnects
      /\ replaced' = replaced \cup Running /\ sftp' \in {ssh, Nil}
  BY DEF InitSftp, srvVars, callVars
<1>2. Calmly /\ \A x \in Calls : Keeps(x)
  BY <1>1 DEF Calmly, Keeps
<1>3. Doms'
  BY <1>1 DEF IInv, Doms
<1>4. ClientInv'
  <2>1. Running' = Running
    BY <1>1 DEF Running
  <2> QED BY <1>1, <2>1 DEF IInv, ClientInv
<1>5. \A x \in Calls : OnHome(x)'
  BY <1>1 DEF OnHome, Running
<1> QED BY <1>2, <1>3, <1>4, <1>5, CalmStep

(* Nothing happens. *)
LEMMA StutterStep ==
    ASSUME IInv, UNCHANGED vars
    PROVE  IInv'
<1>1. /\ todo' = todo /\ file' = file /\ size' = size /\ got' = got /\ ans' = ans /\ req' = req
      /\ home' = home /\ overlap' = overlap /\ changes' = changes /\ tree' = tree /\ node' = node
      /\ page' = page /\ ssh' = ssh /\ pending' = pending /\ reconnects' = reconnects
      /\ replaced' = replaced /\ sftp' = sftp
  BY DEF vars, pageVars, cliVars, srvVars, callVars, histVars
<1>2. Calmly /\ \A x \in Calls : Keeps(x)
  BY <1>1 DEF Calmly, Keeps
<1>3. Doms'
  BY <1>1 DEF IInv, Doms
<1>4. ClientInv'
  <2>1. Running' = Running
    BY <1>1 DEF Running
  <2> QED BY <1>1, <2>1 DEF IInv, ClientInv
<1>5. \A x \in Calls : OnHome(x)'
  BY <1>1 DEF IInv, OnHome
<1> QED BY <1>2, <1>3, <1>4, <1>5, CalmStep

-----------------------------------------------------------------------------
(* A call begins. *)

(* The requests of downloadMultiple come in threes. *)
Third(n, j, k) ==
    /\ k \in 1 .. 3 /\ ((j - 1) \div 3) + 1 \in 1 .. n
    /\ k = 1 => j + 1 \in 1 .. 3 * n /\ ((j + 1 - 1) % 3) + 1 = 2
    /\ k = 2 => j - 1 \in 1 .. 3 * n /\ ((j - 1 - 1) % 3) + 1 = 1
    /\ j = 1 => k = 1

(* The k-th of three. *)
LEMMA Threes ==
    ASSUME NEW n \in Nat, NEW j \in 1 .. 3 * n, NEW k, k = ((j - 1) % 3) + 1
    PROVE  Third(n, j, k)
  BY DEF Third

(* downloadMultiple opens and reads one item after the other. *)
LEMMA MultipleFacts ==
    ASSUME NEW r \in Requests, NEW s, s = DownloadMultiple(r)
    PROVE  s \in Seq(Todos) /\ Paired(s) /\ (1 \in DOMAIN s => s[1].do = "open")
<1>1. PICK n : n = Len(r.items)
  OBVIOUS
<1>2. n \in Nat /\ \A i \in 1 .. n : r.items[i] \in Paths
  BY <1>1, RequestFacts
<1>3. PICK w : w = <<"open", "read", "close">>
  OBVIOUS
<1>4. w[1] = "open" /\ w[2] = "read" /\ w[3] = "close"
  BY <1>3
<1>5. \A k \in 1 .. 3 : w[k] \in Dos
  <2>1. \A k \in 1 .. 3 : k = 1 \/ k = 2 \/ k = 3
    OBVIOUS
  <2> QED BY <1>4, <2>1, DosFacts
<1>6. s = [j \in 1 .. 3 * n |-> Req(w[((j - 1) % 3) + 1], r.items[((j - 1) \div 3) + 1])]
  BY <1>1, <1>3 DEF DownloadMultiple
<1>7. ASSUME NEW j \in 1 .. 3 * n, NEW k, k = ((j - 1) % 3) + 1
      PROVE  s[j] \in Todos /\ s[j].do = w[k] /\ k \in 1 .. 3
  <2>1. PICK i : i = ((j - 1) \div 3) + 1
    OBVIOUS
  <2>2. k \in 1 .. 3 /\ i \in 1 .. n
    <3>1. Third(n, j, k)
      BY <1>2, <1>7, Threes
    <3> QED BY <2>1, <3>1 DEF Third
  <2>3. s[j] = Req(w[k], r.items[i])
    BY <1>6, <1>7, <2>1
  <2> QED BY <1>2, <1>5, <2>2, <2>3, ReqFacts
<1>8. DOMAIN s = 1 .. 3 * n /\ s \in Seq(Todos)
  <2>1. PICK m \in Nat : m = 3 * n
    BY <1>2
  <2>2. \A j \in 1 .. m : s[j] \in Todos
    BY <1>7, <2>1
  <2>3. PICK f : f = [j \in 1 .. m |-> s[j]]
    OBVIOUS
  <2>4. f = s
    BY <1>6, <2>1, <2>3
  <2>5. f \in Seq(Todos) /\ DOMAIN f = 1 .. m
    BY <2>2, <2>3
  <2> QED BY <2>1, <2>4, <2>5
<1>9. ASSUME NEW j \in DOMAIN s
      PROVE  /\ s[j].do \in {"open", "read", "close"}
             /\ s[j].do = "open" => j + 1 \in DOMAIN s /\ s[j + 1].do = "read"
             /\ s[j].do = "read" /\ j > 1 => s[j - 1].do = "open"
             /\ j = 1 => s[j].do = "open"
  <2>1. PICK k : k = ((j - 1) % 3) + 1
    OBVIOUS
  <2>2. /\ k \in 1 .. 3
        /\ k = 1 => j + 1 \in 1 .. 3 * n /\ ((j + 1 - 1) % 3) + 1 = 2
        /\ k = 2 => j - 1 \in 1 .. 3 * n /\ ((j - 1 - 1) % 3) + 1 = 1
        /\ j = 1 => k = 1
    <3>1. j \in 1 .. 3 * n /\ n \in Nat
      BY <1>2, <1>8
    <3>2. Third(n, j, k)
      BY <2>1, <3>1, Threes
    <3> QED BY <3>2 DEF Third
  <2>3. s[j].do = w[k]
    BY <1>7, <1>8, <2>1
  <2>4. k = 1 \/ k = 2 \/ k = 3
    BY <2>2
  <2>5. CASE k = 1
    <3>1. PICK i : i = j + 1
      OBVIOUS
    <3>2. i \in 1 .. 3 * n /\ ((i - 1) % 3) + 1 = 2
      BY <1>2, <1>8, <2>2, <2>5, <3>1
    <3>3. s[i].do = "read"
      BY <1>4, <1>7, <3>2
    <3> QED BY <1>4, <1>8, <2>3, <2>5, <3>1, <3>2, <3>3
  <2>6. CASE k = 2
    <3>1. PICK i : i = j - 1
      OBVIOUS
    <3>2. i \in 1 .. 3 * n /\ ((i - 1) % 3) + 1 = 1
      BY <2>2, <2>6, <3>1
    <3>3. s[i].do = "open"
      BY <1>4, <1>7, <3>2
    <3> QED BY <1>4, <2>2, <2>3, <2>6, <3>1, <3>3
  <2>7. CASE k = 3
    BY <1>4, <2>2, <2>3, <2>7
  <2> QED BY <2>4, <2>5, <2>6, <2>7
<1>10. Paired(s)
  BY <1>9 DEF Paired
<1> QED BY <1>8, <1>9, <1>10

(* The first requests of every operation. *)
LEMMA ProgramFacts ==
    ASSUME NEW r \in Requests, NEW s, s = Program(r)
    PROVE  /\ s \in Seq(Todos) /\ (r.op \in Writers => s # <<>>)
<1>1. r.op \in Ops /\ r.path \in Paths /\ <<>> \in Paths /\ Downloads \in Paths
  BY RequestFacts, RequestAssumption DEF Paths
<1>2. ASSUME NEW do \in Dos, NEW p \in Paths, s = <<Req(do, p)>> PROVE s \in Seq(Todos) /\ s # <<>>
  <2>1. <<Req(do, p)>> \in Seq(Todos) /\ <<Req(do, p)>> # <<>>
    BY <1>2, ReqFacts
  <2> QED BY <1>2, <2>1
<1>3. CASE r.op \in {"list", "upload"}
  BY <1>1, <1>2, <1>3, DosFacts DEF Program, List, Upload
<1>4. CASE r.op = "rename"
  <2>1. 1 \in DOMAIN r.items
    BY <1>4, RequestFacts, RequestAssumption
  <2>2. PICK x : x = RenameTo(r.items[1], r.path)
    OBVIOUS
  <2>3. x \in Todos
    BY <1>1, <2>1, <2>2, RequestFacts, DosFacts DEF RenameTo, Todos
  <2>4. s = <<x>>
    BY <1>4, <2>2 DEF Program, Rename
  <2> QED BY <1>4, <2>3, <2>4 DEF Writers, Uploads
<1>5. CASE r.op \in {"move", "download"}
  BY <1>1, <1>2, <1>5, DosFacts DEF Program, Move, Download
<1>6. CASE r.op = "copy"
  BY <1>1, <1>2, <1>6, DosFacts DEF Program, Copy
<1>7. CASE r.op = "edit"
  BY <1>1, <1>2, <1>7, DosFacts DEF Program, Edit
<1>8. CASE r.op = "createFolder"
  BY <1>1, <1>2, <1>8, DosFacts DEF Program, CreateFolder
<1>9. ASSUME NEW do \in Dos, s = [i \in DOMAIN r.items |-> Req(do, r.items[i])] PROVE s \in Seq(Todos)
  <2>1. PICK n \in Nat : DOMAIN r.items = 1 .. n
    BY RequestFacts
  <2>2. \A i \in 1 .. n : Req(do, r.items[i]) \in Todos
    BY <1>9, <2>1, RequestFacts, ReqFacts
  <2> QED BY <1>9, <2>1, <2>2
<1>10. CASE r.op = "delete"
  BY <1>9, <1>10, DosFacts DEF Program, Delete, Writers, Uploads
<1>11. CASE r.op = "changePerm"
  BY <1>9, <1>11, DosFacts DEF Program, ChangePerm, Writers, Uploads
<1>12. CASE r.op = "getContent"
  <2>1. PICK x, y : x = Req("open", r.path) /\ y = Req("read", r.path)
    OBVIOUS
  <2>2. x \in Todos /\ y \in Todos
    BY <1>1, <2>1, DosFacts, ReqFacts
  <2>3. s = <<x, y>>
    BY <1>12, <2>1 DEF Program, GetContent
  <2> QED BY <1>12, <2>2, <2>3 DEF Writers, Uploads
<1>13. CASE r.op = "uploadToDownloads"
  <2>1. PICK x, y, z : x = Req("realpath", <<>>) /\ y = Req("mkdirall", Downloads) /\ z = Req("readdir", Downloads)
    OBVIOUS
  <2>2. x \in Todos /\ y \in Todos /\ z \in Todos
    BY <1>1, <2>1, DosFacts, ReqFacts
  <2>3. s = <<x, y, z>>
    BY <1>13, <2>1 DEF Program, UploadToDownloads
  <2> QED BY <2>2, <2>3
<1>14. CASE r.op = "downloadMultiple"
  BY <1>14, MultipleFacts DEF Program, Writers, Uploads
<1> QED BY <1>1, <1>3, <1>4, <1>5, <1>6, <1>7, <1>8, <1>10, <1>11, <1>12, <1>13, <1>14 DEF Ops

(* What the step leaves of the call that begins. *)
Begins(c, r, s) ==
    /\ ans[c] = "idle" /\ req'[c] = r /\ file'[c] = NoFile /\ got'[c] = <<>>
    /\ size'[c] \in Nat /\ changes'[c] = {} /\ replaced' = replaced
    /\ ssh' = ssh /\ sftp' = sftp
    /\ \/ sftp = Nil /\ ans'[c] = "silent" /\ todo'[c] = <<>> /\ overlap' = overlap
       \/ /\ sftp \in Hosts /\ ssh \in Hosts /\ todo'[c] = s
          /\ ans'[c] = (IF s = <<>> THEN "ok" ELSE "running")
          /\ home'[c] = (IF r.op = "copy" THEN ssh ELSE sftp)
          /\ overlap' = overlap \cup (Running \X {c}) \cup ({c} \X Running)

(* A call from the page sets what it keeps and nothing else. *)
LEMMA CallBegins ==
    ASSUME IInv, NEW c \in Calls, NEW r \in Requests, Call(c, r), NEW s, s = Program(r)
    PROVE  Begins(c, r, s) /\ Calmly /\ Doms' /\ \A x \in Calls : x # c => Keeps(x)
<1>1. /\ DOMAIN todo = Calls /\ DOMAIN ans = Calls /\ DOMAIN req = Calls /\ DOMAIN file = Calls
      /\ DOMAIN size = Calls /\ DOMAIN got = Calls /\ DOMAIN home = Calls /\ DOMAIN changes = Calls
  BY DEF IInv, Doms
<1>2. /\ ans[c] = "idle" /\ req' = [req EXCEPT ![c] = r]
      /\ tree' = tree /\ node' = node /\ file' = file /\ size' = size /\ got' = got
      /\ replaced' = replaced /\ changes' = changes /\ ssh' = ssh /\ sftp' = sftp
  BY DEF Call, srvVars, pageVars, cliVars
<1>3. file[c] = NoFile /\ got[c] = <<>> /\ changes[c] = {} /\ size[c] \in Nat /\ todo[c] = <<>>
  BY <1>2 DEF IInv, CallTyped, Begun
<1>4. sftp # Nil => sftp \in Hosts /\ ssh \in Hosts
  BY DEF IInv, ClientInv
<1>5. CASE sftp = Nil
  <2>1. ans' = [ans EXCEPT ![c] = "silent"] /\ todo' = todo /\ home' = home /\ overlap' = overlap
    BY <1>5 DEF Call
  <2>2. Begins(c, r, s)
    BY <1>1, <1>2, <1>3, <1>5, <2>1 DEF Begins
  <2>3. Doms' /\ \A x \in Calls : x # c => Keeps(x)
    BY <1>1, <1>2, <2>1 DEF Doms, Keeps
  <2>4. Calmly
    BY <1>2, <2>1, <2>3 DEF Calmly, Begun
  <2> QED BY <2>2, <2>3, <2>4
<1>6. CASE sftp # Nil
  <2>1. /\ ans' = [ans EXCEPT ![c] = IF s = <<>> THEN "ok" ELSE "running"]
        /\ todo' = [todo EXCEPT ![c] = s]
        /\ home' = [home EXCEPT ![c] = IF r.op = "copy" THEN ssh ELSE sftp]
        /\ overlap' = overlap \cup (Running \X {c}) \cup ({c} \X Running)
    BY <1>6 DEF Call
  <2>2. Begins(c, r, s)
    BY <1>1, <1>2, <1>3, <1>4, <1>6, <2>1 DEF Begins
  <2>3. Doms' /\ \A x \in Calls : x # c => Keeps(x)
    BY <1>1, <1>2, <2>1 DEF Doms, Keeps
  <2>4. Calmly
    BY <1>2, <2>1, <2>3 DEF Calmly, Begun
  <2> QED BY <2>2, <2>3, <2>4
<1> QED BY <1>5, <1>6

(* A call begins in its ranges, on the clients there are. *)
LEMMA BeginTyped ==
    ASSUME IInv, NEW c \in Calls, NEW r \in Requests, NEW s, s = Program(r), Begins(c, r, s)
    PROVE  CallTyped(c)' /\ OnHome(c)'
<1>1. PICK f, u, E : f = file'[c] /\ u = got'[c] /\ E = changes'[c]
  OBVIOUS
<1>2. f = NoFile /\ u = <<>> /\ E = {} /\ size'[c] \in Nat /\ req'[c] = r
  BY <1>1 DEF Begins
<1>3. Got(u)'
  BY <1>2 DEF Got
<1>4. s \in Seq(Todos)
  BY ProgramFacts
<1>5. /\ ans'[c] \in Answers /\ todo'[c] \in Seq(Todos) /\ (todo'[c] # <<>> <=> ans'[c] = "running")
      /\ (ans'[c] \notin {"idle", "silent"} => home'[c] \in Hosts)
  BY <1>4, EmptyTodo DEF Begins, Answers
<1>6. CallTyped(c)'
  BY <1>1, <1>2, <1>3, <1>5, TypedFrom
<1>7. OnHome(c)'
  BY <1>2 DEF Begins, OnHome
<1> QED BY <1>6, <1>7

(* A reader begins, *)
LEMMA BeginRead ==
    ASSUME NEW c, NEW r \in Requests, NEW s, s = Program(r), Begins(c, r, s), todo'[c] = s,
           r.op \in Readers
    PROVE  ReadInv(c)'
<1>1. got'[c] = <<>> /\ req'[c] = r
  BY DEF Begins
<1>2. ASSUME ReadShape(c)', 1 \in DOMAIN s => s[1].do # "read" /\ (r.op = "download" => s[1].do # "open"),
             s # <<>> => 1 \in DOMAIN s, ans'[c] = "running" => s # <<>>
      PROVE  ReadInv(c)'
  <2>1. ~Reading(c)'
    BY <1>2 DEF Reading
  <2>2. ~(req[c].op = "download" /\ ans[c] = "running" /\ todo[c][1].do = "open")'
    BY <1>1, <1>2
  <2>3. DOMAIN got'[c] = {}
    BY <1>1
  <2> QED BY <1>2, <2>1, <2>2, <2>3 DEF ReadInv
<1>3. (s # <<>> => 1 \in DOMAIN s) /\ (ans'[c] = "running" => s # <<>>)
  <2>1. s \in Seq(Todos)
    BY ProgramFacts
  <2> QED BY <2>1 DEF Begins
<1>4. CASE r.op = "download"
  <2>1. PICK x : x = Req("lstat", r.path) /\ s = <<x>>
    BY <1>4 DEF Program, Download
  <2>2. s[1].do = "lstat"
    BY <2>1 DEF Req
  <2>3. ReadShape(c)'
    BY <1>1, <1>4, <2>1 DEF ReadShape
  <2> QED BY <1>2, <1>3, <2>2, <2>3
<1>5. CASE r.op = "getContent"
  <2>1. PICK x, y : x = Req("open", r.path) /\ y = Req("read", r.path)
    OBVIOUS
  <2>2. s = <<x, y>>
    BY <1>5, <2>1 DEF Program, GetContent
  <2>3. x.do = "open" /\ y.do = "read"
    BY <2>1 DEF Req
  <2>4. DOMAIN s = {1, 2} /\ s[1] = x /\ s[2] = y
    BY <2>2
  <2>5. Paired(s)
    BY <2>3, <2>4 DEF Paired
  <2>6. ReadShape(c)'
    BY <1>1, <1>5, <2>5 DEF ReadShape
  <2> QED BY <1>2, <1>3, <1>5, <2>3, <2>4, <2>6
<1>6. CASE r.op = "downloadMultiple"
  <2>1. s = DownloadMultiple(r)
    BY <1>6 DEF Program
  <2>2. Paired(s) /\ (1 \in DOMAIN s => s[1].do = "open")
    BY <2>1, MultipleFacts
  <2>3. ReadShape(c)'
    BY <1>1, <1>6, <2>2 DEF ReadShape
  <2> QED BY <1>2, <1>3, <1>6, <2>2, <2>3
<1> QED BY <1>4, <1>5, <1>6 DEF Readers

(* a delete and a changePerm, *)
LEMMA BeginItems ==
    ASSUME NEW c, NEW r \in Requests, NEW s, s = Program(r), Begins(c, r, s), todo'[c] = s
    PROVE  /\ r.op = "delete" => DeleteInv(c)'
           /\ r.op = "changePerm" => ChmodInv(c)'
<1>1. req'[c] = r
  BY DEF Begins
<1>2. CASE r.op = "delete"
  <2>1. s = [i \in DOMAIN r.items |-> Req("lstat", r.items[i])]
    BY <1>2 DEF Program, Delete
  <2>2. \A i \in DOMAIN r.items : s[i].do = "lstat" /\ s[i].path = r.items[i]
    BY <2>1 DEF Req
  <2>3. DOMAIN s = DOMAIN r.items
    BY <2>1
  <2>4. \A i \in DOMAIN r.items : Ahead(c, r.items[i])'
    BY <2>2, <2>3 DEF Ahead
  <2> QED BY <1>1, <1>2, <2>2, <2>3, <2>4 DEF DeleteInv
<1>3. CASE r.op = "changePerm"
  <2>1. s = [i \in DOMAIN r.items |-> Req("chmod", r.items[i])]
    BY <1>3 DEF Program, ChangePerm
  <2>2. \A i \in DOMAIN r.items : s[i].do = "chmod" /\ s[i].path = r.items[i]
    BY <2>1 DEF Req
  <2>3. DOMAIN s = DOMAIN r.items
    BY <2>1
  <2>4. \A j \in DOMAIN s : s[j].do \in IF r.rec THEN {"chmod", "lstat", "readdir"} ELSE {"chmod"}
    BY <2>2, <2>3
  <2>5. \A i \in DOMAIN r.items : \A q :
          IsPrefix(r.items[i], q) /\ (r.rec \/ q = r.items[i]) => Covers(r, s[i], q)
    BY <2>2 DEF Covers
  <2> QED BY <1>1, <1>3, <2>2, <2>3, <2>4, <2>5 DEF ChmodInv
<1> QED BY <1>2, <1>3

(* and every other operation. *)
LEMMA BeginCall ==
    ASSUME IInv, NEW c \in Calls, NEW r \in Requests, NEW s, s = Program(r), Begins(c, r, s)
    PROVE  CallInv(c)'
<1>1. SUFFICES ASSUME Active(c)' PROVE CallInv(c)'
  BY DEF CallInv
<1>2. /\ req'[c] = r /\ file'[c] = NoFile /\ todo'[c] = s
      /\ ans'[c] = IF s = <<>> THEN "ok" ELSE "running"
  BY <1>1 DEF Begins, Active
<1>3. r.op \in Ops
  BY RequestFacts
<1>4. CASE r.op \in {"list", "rename", "move", "copy", "createFolder"}
  <2>1. r.op = "list" => s = <<Req("readdir", r.path)>>
    BY DEF Program, List
  <2>2. r.op = "rename" => s = <<RenameTo(r.items[1], r.path)>>
    BY DEF Program, Rename
  <2>3. r.op = "move" => s = <<Req("lstat", r.path)>>
    BY DEF Program, Move
  <2>4. r.op = "copy" => s = <<Req("cp", r.path)>>
    BY DEF Program, Copy
  <2>5. r.op = "createFolder" => s = <<Req("mkdir", r.path)>>
    BY DEF Program, CreateFolder
  <2>6. \A x : <<x>> # <<>>
    OBVIOUS
  <2>7. ans'[c] = "running"
    BY <1>2, <1>4, <2>1, <2>2, <2>3, <2>4, <2>5, <2>6
  <2>8. r.op = "rename" => RenameInv(c)'
    BY <1>2, <2>2, <2>7 DEF RenameInv
  <2>9. r.op = "move" => MoveInv(c)'
    BY <1>2, <2>3 DEF MoveInv
  <2>10. r.op = "copy" => CopyInv(c)'
    BY <1>2, <2>4, <2>7 DEF CopyInv
  <2>11. r.op = "createFolder" => FolderInv(c)'
    BY <1>2, <2>5, <2>7 DEF FolderInv
  <2> QED BY <1>2, <1>4, <2>1, <2>8, <2>9, <2>10, <2>11 DEF CallInv, Readers, Writers, Uploads
<1>5. CASE r.op \in {"delete", "changePerm"}
  <2>1. (r.op = "delete" => DeleteInv(c)') /\ (r.op = "changePerm" => ChmodInv(c)')
    BY <1>2, BeginItems
  <2> QED BY <1>2, <1>5, <2>1 DEF CallInv, Readers, Writers, Uploads
<1>6. CASE r.op \in Readers
  <2>1. ReadInv(c)'
    BY <1>2, <1>6, BeginRead
  <2> QED BY <1>2, <1>6, <2>1 DEF CallInv, Readers, Writers, Uploads
<1>7. CASE r.op \in Writers
  <2>1. ans'[c] = "running"
    BY <1>2, <1>7, ProgramFacts
  <2>2. r.op = "edit" => s = <<Req("truncate", r.path)>>
    BY DEF Program, Edit
  <2>3. r.op = "upload" => s = <<Req("readdir", r.path)>>
    BY DEF Program, Upload
  <2>4. r.op = "uploadToDownloads" =>
           s = <<Req("realpath", <<>>), Req("mkdirall", Downloads), Req("readdir", Downloads)>>
    BY DEF Program, UploadToDownloads
  <2>5. Unopened(c)'
    BY <1>2, <1>7, <2>2, <2>3, <2>4 DEF Unopened, Writers, Uploads
  <2>6. WriteInv(c)'
    BY <1>2, <2>1, <2>5 DEF WriteInv
  <2> QED BY <1>2, <1>7, <2>6 DEF CallInv, Readers, Writers, Uploads
<1> QED BY <1>3, <1>4, <1>5, <1>6, <1>7 DEF Ops, Readers, Writers, Uploads

(* A call from the page. *)
LEMMA CallStep ==
    ASSUME IInv, NEW c \in Calls, NEW r \in Requests, Call(c, r)
    PROVE  IInv'
<1>1. PICK s : s = Program(r)
  OBVIOUS
<1>2. Begins(c, r, s) /\ Calmly /\ Doms' /\ \A x \in Calls : x # c => Keeps(x)
  BY <1>1, CallBegins
<1>3. ServerInv'
  BY <1>2, CalmServer
<1>4. page' = page /\ pending' = pending /\ reconnects' = reconnects /\ ssh' = ssh /\ sftp' = sftp
  BY DEF Call, pageVars, cliVars
<1>5. \A x \in Calls : x # c => ans'[x] = ans[x]
  BY <1>2 DEF Keeps
<1>6. Running' \subseteq Running \cup {c}
  BY <1>5 DEF Running
<1>7. ClientInv'
  <2>1. Running' # {} => ssh \in Hosts
    <3>1. CASE c \in Running'
      BY <1>2, <3>1 DEF Begins, Running
    <3>2. CASE c \notin Running'
      BY <1>6, <3>2 DEF IInv, ClientInv
    <3> QED BY <3>1, <3>2
  <2> QED BY <1>4, <2>1 DEF IInv, ClientInv
<1>8. ASSUME NEW x \in Calls PROVE CallTyped(x)' /\ OnHome(x)' /\ Fresh(x)' /\ CallInv(x)'
  <2>1. CASE x = c
    <3>1. CallTyped(x)' /\ OnHome(x)' /\ CallInv(x)'
      BY <1>1, <1>2, <2>1, BeginTyped, BeginCall
    <3>2. Fresh(x)'
      <4>1. Fresh(c) /\ ans[c] = "idle" /\ node' = node
        BY <1>2 DEF IInv, Begins, Calmly
      <4>2. \A h \in Hosts, p \in Paths : <<h, c, p>> \notin DOMAIN node
        BY <4>1 DEF Fresh
      <4> QED BY <2>1, <4>1, <4>2 DEF Fresh
    <3> QED BY <3>1, <3>2
  <2>2. CASE x # c
    <3>1. Keeps(x)
      BY <1>2, <2>2
    <3>2. CallTyped(x)' /\ Fresh(x)' /\ CallInv(x)'
      BY <1>2, <3>1, CalmCall
    <3>3. OnHome(x)'
      BY <1>2, <1>4, <3>1 DEF IInv, OnHome, Keeps, Begins
    <3> QED BY <3>2, <3>3
  <2> QED BY <2>1, <2>2
<1>9. OverlapInv'
  <2> SUFFICES ASSUME NEW a \in Running', NEW b \in Running', a # b PROVE <<a, b>> \in overlap'
    BY DEF OverlapInv
  <2>1. a \in Calls /\ b \in Calls
    BY DEF Running
  <2>2. CASE a # c /\ b # c
    <3>1. a \in Running /\ b \in Running
      BY <1>6, <2>2
    <3> QED BY <1>2, <3>1 DEF IInv, OverlapInv, Calmly
  <2>3. CASE a = c \/ b = c
    <3>1. c \in Running' /\ ans'[c] = "running"
      BY <2>3 DEF Running
    <3>2. overlap' = overlap \cup (Running \X {c}) \cup ({c} \X Running)
      BY <1>2, <3>1 DEF Begins
    <3>3. (a = c /\ b \in Running) \/ (b = c /\ a \in Running)
      BY <1>6, <2>3
    <3> QED BY <3>2, <3>3
  <2> QED BY <2>2, <2>3
<1>10. CrossInv'
  <2> SUFFICES ASSUME NEW a \in Calls, NEW b \in Calls, Clobbers(a, b)' PROVE ExcusedBy(a)'
    BY DEF CrossInv
  <2>1. b # c
    BY <1>2 DEF Clobbers, Begins
  <2>2. a # c
    <3> SUFFICES ASSUME a = c PROVE FALSE
      OBVIOUS
    <3>1. ans'[c] = "ok" /\ r.op \in Writers
      BY <1>2 DEF Clobbers, Begins
    <3>2. s # <<>>
      BY <1>1, <3>1, ProgramFacts
    <3> QED BY <1>2, <3>1, <3>2 DEF Begins
  <2> QED BY <1>2, <2>1, <2>2, CalmCross
<1> QED BY <1>2, <1>3, <1>7, <1>8, <1>9, <1>10 DEF IInv

-----------------------------------------------------------------------------
(* The invariant. *)

(* The trees at the start. *)
LEMMA InitServer ==
    ASSUME Init
    PROVE  ServerInv
<1>1. DOMAIN tree = Hosts /\ DOMAIN node = Hosts \X DOMAIN Nodes
  BY DEF Init
<1>2. ASSUME NEW n \in DOMAIN node PROVE node[n] \in NodeRecs
  <2>1. n \in Hosts \X DOMAIN Nodes /\ node[n] = Nodes[n[2]]
    BY <1>1, <1>2 DEF Init
  <2>2. n[2] \in DOMAIN Nodes
    BY <2>1
  <2> QED BY <2>1, <2>2, NodeAssumption DEF NodeRecs
<1>3. ASSUME NEW h \in Hosts PROVE GoodTree(h, tree[h], node)
  <2>1. PICK t : t = tree[h]
    OBVIOUS
  <2>2. t = [p \in DOMAIN Tree |-> <<h, Tree[p]>>]
    BY <2>1 DEF Init
  <2>3. DOMAIN t = DOMAIN Tree /\ \A p \in DOMAIN Tree : t[p] = <<h, Tree[p]>>
    BY <2>2
  <2>4. IsFiniteSet(DOMAIN t) /\ DOMAIN t \subseteq Paths
    BY <2>3, TreeAssumption
  <2>5. \A n \in DOMAIN Nodes : <<h, n>> \in DOMAIN node /\ node[<<h, n>>] = Nodes[n]
    BY DEF Init
  <2>6. ASSUME NEW p \in DOMAIN t
        PROVE  /\ t[p] \in DOMAIN node /\ t[p][1] = h
               /\ p # <<>> => Front(p) \in DOMAIN t /\ node[t[Front(p)]].kind = "dir"
               /\ \A q \in DOMAIN t : t[p] = t[q] => p = q
    <3>1. Tree[p] \in DOMAIN Nodes /\ t[p] = <<h, Tree[p]>>
      BY <2>3, TreeAssumption
    <3>2. t[p] \in DOMAIN node /\ t[p][1] = h
      BY <2>5, <3>1
    <3>3. ASSUME p # <<>> PROVE Front(p) \in DOMAIN t /\ node[t[Front(p)]].kind = "dir"
      <4>1. PICK q : q = Front(p)
        OBVIOUS
      <4>2. q \in DOMAIN Tree /\ Nodes[Tree[q]].kind = "dir" /\ Tree[q] \in DOMAIN Nodes
        BY <2>3, <3>3, <4>1, TreeAssumption
      <4>3. t[q] = <<h, Tree[q]>>
        BY <2>3, <4>2
      <4> QED BY <2>3, <2>5, <4>1, <4>2, <4>3
    <3>4. ASSUME NEW q \in DOMAIN t, t[p] = t[q] PROVE p = q
      <4>1. <<h, Tree[p]>> = <<h, Tree[q]>>
        BY <2>3, <3>1, <3>4
      <4>2. Tree[p] = Tree[q]
        BY <4>1
      <4> QED BY <2>3, <4>2, TreeAssumption
    <3> QED BY <3>2, <3>3, <3>4
  <2> QED BY <2>1, <2>4, <2>6 DEF GoodTree
<1> QED BY <1>1, <1>2, <1>3 DEF ServerInv

(* The invariant holds at the start, *)
LEMMA InitInv ==
    ASSUME Init
    PROVE  IInv
<1>1. Doms
  BY DEF Init, Doms
<1>2. Running = {}
  BY DEF Init, Running
<1>3. ClientInv
  <2>1. page = "up" /\ reconnects = 0 /\ pending = FALSE /\ ssh \in Start /\ sftp = ssh
    BY DEF Init
  <2>2. ssh \in Hosts \cup {Nil} /\ (ssh # Nil => ssh \in Hosts)
    BY <2>1, HostAssumption
  <2>3. reconnects \in 0 .. MaxReconnects
    BY <2>1, ReconnectAssumption
  <2>4. pending \in BOOLEAN
    BY <2>1, Zenon
  <2> QED BY <1>2, <2>1, <2>2, <2>3, <2>4 DEF ClientInv
<1>4. ASSUME NEW c \in Calls PROVE CallTyped(c) /\ OnHome(c) /\ Fresh(c) /\ CallInv(c)
  <2>1. /\ ans[c] = "idle" /\ todo[c] = <<>> /\ file[c] = NoFile /\ size[c] = 0 /\ got[c] = <<>>
        /\ changes[c] = {}
    BY DEF Init
  <2>2. CallTyped(c)
    BY <2>1, EmptyTodo DEF CallTyped, Begun, Answers
  <2>3. Fresh(c)
    <3> SUFFICES ASSUME NEW h, NEW p, <<h, c, p>> \in DOMAIN node PROVE FALSE
      BY DEF Fresh
    <3>1. <<h, c, p>> \in Hosts \X DOMAIN Nodes
      BY DEF Init
    <3>2. PICK a \in Hosts, b \in DOMAIN Nodes : <<h, c, p>> = <<a, b>>
      BY <3>1
    <3>3. Len(<<h, c, p>>) = 3 /\ Len(<<a, b>>) = 2
      OBVIOUS
    <3> QED BY <3>2, <3>3
  <2> QED BY <2>1, <2>2, <2>3 DEF OnHome, CallInv, Active
<1>5. OverlapInv /\ CrossInv
  BY <1>2 DEF OverlapInv, CrossInv, Clobbers, Init
<1> QED BY <1>1, <1>3, <1>4, <1>5, InitServer DEF IInv

(* and after every step. *)
LEMMA NextInv ==
    ASSUME IInv, [Next]_vars
    PROVE  IInv'
<1>1. CASE \E h \in Hosts : Reconnect(h)
  BY <1>1, ReconnectStep
<1>2. CASE InitSftp
  BY <1>2, InitSftpStep
<1>3. CASE \E c \in Calls : \E r \in Requests : Call(c, r)
  BY <1>3, CallStep
<1>4. CASE \E c \in Calls : Serve(c)
  BY <1>4, ServeStep
<1>5. CASE UNCHANGED vars
  BY <1>5, StutterStep
<1> QED BY <1>1, <1>2, <1>3, <1>4, <1>5 DEF Next, Serve

(* The invariant is one of the specification: what every operation still has to
   do and what it has done fit together, whatever the others do. *)
THEOREM Invariant == Spec => []IInv
  BY InitInv, NextInv, PTL DEF Spec

-----------------------------------------------------------------------------
(* What the answers mean. *)

(* A call that answered with success has no request left. *)
LEMMA Answered ==
    ASSUME IInv, NEW c \in Calls, ans[c] = "ok"
    PROVE  todo[c] = <<>> /\ req[c] \in Requests /\ CallTyped(c) /\ CallInv(c) /\ Active(c)
  BY DEF IInv, CallTyped, Active

(* A writer that has written everything has stored its data, or is excused. *)
LEMMA StoredFollows ==
    ASSUME IInv
    PROVE  OkMeansStored
<1> SUFFICES ASSUME NEW c \in Calls, ans[c] = "ok", req[c].op \in Uploads \cup {"edit"}, NEW f, f = file[c]
             PROVE  \/ /\ Exists(f.host, f.path) /\ tree[f.host][f.path] = f.id
                       /\ node[f.id].data = req[c].data
                    \/ \E e \in changes[c] :
                          e.host = f.host /\ IsPrefix(e.path, f.path) /\ Excused(c, e)
  BY DEF OkMeansStored
<1>1. WriteInv(c) /\ CallTyped(c) /\ req[c] \in Requests
  BY Answered DEF CallInv, Writers
<1>2. f # NoFile /\ Writing(c) /\ (Kept(c) \/ ExcusedBy(c))
  BY <1>1 DEF WriteInv
<1>3. CASE ExcusedBy(c)
  BY <1>3 DEF ExcusedBy
<1>4. CASE Kept(c)
  <2>1. PICK d, w : d = node[f.id].data /\ w = req[c].data
    OBVIOUS
  <2>2. OpenFile(f)
    BY <1>1, <1>2 DEF CallTyped
  <2>3. f.id \in DOMAIN node /\ node[f.id].kind = "file" /\ f.pos \in Nat
    BY <2>2 DEF OpenFile, Files
  <2>4. node[f.id] \in NodeRecs
    BY <2>3 DEF IInv, ServerInv
  <2>5. d \in Contents /\ w \in Contents
    BY <1>1, <2>1, <2>3, <2>4, RequestFacts DEF NodeRecs
  <2>6. Len(w) - f.pos = 0
    BY <1>2, <2>1 DEF Writing
  <2>7. Len(w) = f.pos /\ Len(d) = f.pos
    BY <1>4, <2>1, <2>3, <2>5, <2>6 DEF Kept, Contents
  <2>8. \A i \in 1 .. f.pos : d[i] = w[i]
    BY <1>4, <2>1 DEF Kept
  <2>9. d = w
    BY <2>5, <2>7, <2>8 DEF Contents
  <2> QED BY <1>4, <2>1, <2>9 DEF Kept
<1> QED BY <1>2, <1>3, <1>4

(* An operation with no request left has done what it was asked for. *)
LEMMA DoneFollows ==
    ASSUME IInv
    PROVE  OkMeansDone
<1> SUFFICES ASSUME NEW c \in Calls, ans[c] = "ok", c \notin replaced, NEW h, h = home[c]
             PROVE  Effect(c, h)
  BY DEF OkMeansDone
<1>1. PICK r : r = req[c]
  OBVIOUS
<1>2. todo[c] = <<>> /\ r \in Requests /\ CallInv(c) /\ Active(c) /\ r.op \in Ops
  BY <1>1, Answered, RequestFacts
<1>3. DOMAIN todo[c] = {}
  BY <1>2
<1>4. \A p : ~Ahead(c, p)
  BY <1>3 DEF Ahead
<1>5. CASE r.op \in {"delete", "move"}
  <2>1. \A i \in DOMAIN r.items : Gone(c, h, r.items[i])
    <3>1. CASE r.op = "delete"
      BY <1>1, <1>2, <1>4, <3>1 DEF CallInv, DeleteInv
    <3>2. CASE r.op = "move"
      <4>1. MoveInv(c)
        BY <1>1, <1>2, <3>2 DEF CallInv
      <4>2. \A x : <<x>> # <<>>
        OBVIOUS
      <4>3. PICK isDir \in BOOLEAN : Moving(c, isDir)
        BY <1>2, <4>1, <4>2 DEF MoveInv
      <4> QED BY <1>1, <1>4, <4>3 DEF Moving
    <3> QED BY <1>5, <3>1, <3>2
  <2> QED BY <1>1, <1>5, <2>1 DEF Effect, Gone
<1>6. CASE r.op = "rename"
  <2>1. RenameInv(c)
    BY <1>1, <1>2, <1>6 DEF CallInv
  <2> QED BY <1>1, <1>6, <2>1 DEF Effect, RenameInv
<1>7. CASE r.op = "changePerm"
  <2>1. ChmodInv(c)
    BY <1>1, <1>2, <1>7 DEF CallInv
  <2>2. ASSUME NEW i \in DOMAIN r.items, NEW p, p = r.items[i]
        PROVE  /\ Exists(h, p) \/ Disturbed(c, h, p)
               /\ \A q \in DOMAIN tree[h] : IsPrefix(p, q) /\ (r.rec \/ q = p) => ModeSet(c, h, q)
    BY <1>1, <1>3, <2>1, <2>2 DEF ChmodInv
  <2>3. ASSUME NEW i \in DOMAIN r.items, NEW p, p = r.items[i],
               NEW q \in IF r.rec THEN {x \in DOMAIN tree[h] : IsPrefix(p, x)}
                         ELSE {x \in DOMAIN tree[h] : IsPrefix(p, x)} \cap {p}
        PROVE  At(h, q).kind = "link" \/ At(h, q).mode = r.mode \/ Disturbed(c, h, q)
    <3>1. q \in DOMAIN tree[h] /\ IsPrefix(p, q) /\ (r.rec \/ q = p)
      <4>1. CASE r.rec
        BY <2>3, <4>1
      <4>2. CASE ~r.rec
        BY <2>3, <4>2
      <4> QED BY <4>1, <4>2
    <3> QED BY <1>1, <2>2, <2>3, <3>1 DEF ModeSet
  <2> QED BY <1>1, <1>7, <2>2, <2>3 DEF Effect
<1>8. CASE r.op = "createFolder"
  <2>1. FolderInv(c)
    BY <1>1, <1>2, <1>8 DEF CallInv
  <2> QED BY <1>1, <1>8, <2>1 DEF Effect, FolderInv
<1>9. CASE r.op = "copy"
  <2>1. CopyInv(c)
    BY <1>1, <1>2, <1>9 DEF CallInv
  <2> QED BY <1>1, <1>9, <2>1 DEF Effect, CopyInv
<1>10. CASE r.op \notin {"delete", "move", "rename", "changePerm", "createFolder", "copy"}
  BY <1>1, <1>10 DEF Effect
<1> QED BY <1>5, <1>6, <1>7, <1>8, <1>9, <1>10

-----------------------------------------------------------------------------
(* Only a call that reads has contents; and the ranges that are left. *)

GotInv == \A c \in Calls : got[c] # <<>> => req[c].op \in Readers

Ranges ==
    /\ req \in [Calls -> Requests \cup {NoRequest}]
    /\ ans \in [Calls -> Answers] /\ size \in [Calls -> Nat]

(* The remaining ranges, after a request *)
LEMMA ServeRanges ==
    ASSUME IInv, Ranges, GotInv, NEW c \in Calls, Serve(c)
    PROVE  Ranges' /\ GotInv'
<1>0. Sound(c) /\ Acts(c) /\ ans[c] = "running"
  BY AllSound, OwnFrame
<1>1. req' = req
  BY DEF Serve, Fails, Panic, Lstat, ReadDir, RealPath, Mkdir, DoRemove, DoRename, Chmod, Open,
     OpenToWrite,
         Write, Read, Close, RunCp
<1>2. ans' \in [Calls -> Answers]
  <2>1. ASSUME NEW more, Continue(c, more) PROVE ans' \in [Calls -> Answers]
    BY <2>1 DEF Continue, Ranges, Answers
  <2>2. CASE GiveUp(c)
    BY <2>2 DEF GiveUp, Ranges, Answers
  <2>3. CASE ans' = ans
    BY <2>3 DEF Ranges
  <2> QED BY <1>0, <2>1, <2>2, <2>3, ServeGoes DEF Goes
<1>3. size' \in [Calls -> Nat]
  <2>1. CASE Lstat(c)
    <3>1. PICK n : n = SizeOf(At(sftp, Path(c)))
      OBVIOUS
    <3>2. size' = [size EXCEPT ![c] = n]
      BY <2>1, <3>1 DEF Lstat
    <3>3. size'[c] \in Nat
      BY <1>0, OwnFiles
    <3>4. n \in Nat
      BY <3>2, <3>3 DEF Ranges
    <3> QED BY <3>2, <3>4 DEF Ranges
  <2>2. CASE ~Lstat(c)
    <3>1. size' = size
      BY <2>2 DEF Serve, Fails, Panic, ReadDir, RealPath, Mkdir, DoRemove, DoRename, Chmod, Open,
         OpenToWrite,
                  Write, Read, Close, RunCp, callVars
    <3> QED BY <3>1 DEF Ranges
  <2> QED BY <2>1, <2>2
<1>4. ASSUME NEW x \in Calls, got'[x] # <<>> PROVE req'[x].op \in Readers
  <2>1. CASE got'[x] = got[x]
    BY <1>1, <1>4, <2>1 DEF GotInv
  <2>2. CASE got'[x] # got[x]
    <3>1. x = c
      BY <1>0, <2>2 DEF Acts, Keeps
    <3>2. Open(c) \/ Read(c)
      BY <2>2 DEF Serve, Fails, Panic, Lstat, ReadDir, RealPath, Mkdir, DoRemove, DoRename, Chmod,
         OpenToWrite,
                  Write, Close, RunCp, callVars
    <3>3. PICK op, f, do : op = req[c].op /\ f = file[c] /\ do = Head(todo[c]).do
      OBVIOUS
    <3>4. Role(op, f, do) /\ do \in {"open", "read"}
      BY <1>0, <3>2, <3>3, Roles DEF Sound, Open, Read, Ready, OnFile
    <3>5. op \in Readers
      BY <3>4 DEF Role
    <3> QED BY <1>1, <3>1, <3>3, <3>5
  <2> QED BY <2>1, <2>2
<1> QED BY <1>1, <1>2, <1>3, <1>4 DEF Ranges, GotInv

(* and after every step. *)
LEMMA RangesInv ==
    ASSUME IInv, Ranges, GotInv, [Next]_vars
    PROVE  Ranges' /\ GotInv'
<1>1. CASE (\E h \in Hosts : Reconnect(h)) \/ InitSftp \/ UNCHANGED vars
  <2>1. req' = req /\ ans' = ans /\ size' = size /\ got' = got
    BY <1>1 DEF Reconnect, InitSftp, callVars, vars
  <2> QED BY <2>1 DEF Ranges, GotInv
<1>2. ASSUME NEW c \in Calls, NEW r \in Requests, Call(c, r) PROVE Ranges' /\ GotInv'
  <2>1. req' = [req EXCEPT ![c] = r] /\ size' = size /\ got' = got /\ ans[c] = "idle"
    BY <1>2 DEF Call
  <2>2. ans' \in [Calls -> Answers]
    <3>1. CASE sftp = Nil
      BY <1>2, <3>1 DEF Call, Ranges, Answers
    <3>2. CASE sftp # Nil
      BY <1>2, <3>2 DEF Call, Ranges, Answers
    <3> QED BY <3>1, <3>2
  <2>3. got[c] = <<>>
    BY <2>1 DEF IInv, CallTyped, Begun
  <2>4. req' \in [Calls -> Requests \cup {NoRequest}]
    BY <2>1 DEF Ranges
  <2>5. GotInv'
    BY <2>1, <2>3 DEF GotInv, Ranges
  <2> QED BY <2>1, <2>2, <2>4, <2>5 DEF Ranges
<1>3. CASE \E c \in Calls : Serve(c)
  BY <1>3, ServeRanges
<1> QED BY <1>1, <1>2, <1>3 DEF Next, Serve

(* The type invariant, from the ranges and the invariant. *)
LEMMA TypeFollows ==
    ASSUME IInv, Ranges
    PROVE  TypeOK
<1>1. /\ page \in {"up", "crashed"}
      /\ ssh \in Hosts \cup {Nil} /\ sftp \in Hosts \cup {Nil}
      /\ reconnects \in 0 .. MaxReconnects /\ pending \in BOOLEAN
  BY DEF IInv, ClientInv
<1>2. \A h \in Hosts : \A p \in DOMAIN tree[h] :
          tree[h][p] \in DOMAIN node /\ (p # <<>> => IsDir(h, Front(p)))
  BY DEF IInv, ServerInv, GoodTree, IsDir, Exists, At
<1>3. ASSUME NEW c \in Calls
      PROVE  (todo[c] # <<>> <=> ans[c] = "running") /\ (file[c] = NoFile \/ file[c].id \in DOMAIN node)
  BY DEF IInv, CallTyped, OpenFile, Files
<1>4. \A c \in Calls : (todo[c] # <<>>) = (ans[c] = "running")
  BY <1>3, Zenon
<1> QED BY <1>1, <1>2, <1>3, <1>4 DEF TypeOK, Ranges

(* Contents whose file was read to the end are those of the file. *)
LEMMA ExactFollows ==
    ASSUME IInv, GotInv
    PROVE  ReadsExact
<1> SUFFICES ASSUME NEW c \in Calls, ans[c] = "ok", NEW i \in DOMAIN got[c], NEW g, g = got[c][i]
             PROVE  \/ g.data = node[g.f.id].data
                    \/ Disturbed(c, g.f.host, g.f.path)
                    \/ req[c].op = "download" /\ (g.f.asked # g.f.path \/ c \in replaced)
  BY DEF ReadsExact
<1>1. req[c].op \in Readers
  BY DEF GotInv
<1>2. ReadInv(c)
  BY <1>1, Answered DEF CallInv
<1>3. ReadDone(c, g)
  BY <1>2 DEF ReadInv, Reading
<1> QED BY <1>3 DEF ReadDone, Calm, SizeCounts

(* Before the first call nothing was asked, answered or read. *)
LEMMA InitRanges ==
    ASSUME Init
    PROVE  IInv /\ Ranges /\ GotInv
<1>1. /\ req = [c \in Calls |-> NoRequest] /\ ans = [c \in Calls |-> "idle"]
      /\ size = [c \in Calls |-> 0] /\ got = [c \in Calls |-> <<>>]
  BY DEF Init
<1>2. "idle" \in Answers
  BY DEF Answers
<1>3. Ranges
  BY <1>1, <1>2 DEF Ranges
<1>4. GotInv
  BY <1>1 DEF GotInv
<1> QED BY <1>3, <1>4, InitInv

(* The variables keep their ranges, and a call has requests to make exactly until
   it calls back: whatever lstat, readdir and open answer (browser.go). *)
THEOREM TypeCorrect == Spec => []TypeOK
<1>1. Init => IInv /\ Ranges /\ GotInv
  BY InitRanges
<1>2. IInv /\ Ranges /\ GotInv /\ [Next]_vars => (IInv /\ Ranges /\ GotInv)'
  BY NextInv, RangesInv
<1>3. IInv /\ Ranges /\ GotInv => TypeOK
  BY TypeFollows
<1> QED BY <1>1, <1>2, <1>3, PTL DEF Spec

(* Every file that getContent, download and downloadMultiple deliver is the file
   as it is, unless others changed it or the size Lstat gave was of something
   else: however the reads interleave with other calls and with reconnects. *)
THEOREM ReadsExactHolds == Spec => []ReadsExact
<1>1. Init => IInv /\ Ranges /\ GotInv
  BY InitRanges
<1>2. IInv /\ Ranges /\ GotInv /\ [Next]_vars => (IInv /\ Ranges /\ GotInv)'
  BY NextInv, RangesInv
<1>3. IInv /\ Ranges /\ GotInv => ReadsExact
  BY ExactFollows
<1> QED BY <1>1, <1>2, <1>3, PTL DEF Spec

(* An upload or edit that answered with success is stored, with exactly the data
   that was sent, and later uploads do not overwrite it but in the two cases
   Excused names. *)
THEOREM OkMeansStoredHolds == Spec => []OkMeansStored
<1>1. IInv => OkMeansStored
  BY StoredFollows
<1> QED BY <1>1, Invariant, PTL

(* delete, move, rename, changePerm, createFolder and copy that answered with
   success have done all they were asked for, apart from what others changed and
   unless a client was replaced. *)
THEOREM OkMeansDoneHolds == Spec => []OkMeansDone
<1>1. IInv => OkMeansDone
  BY DoneFollows
<1> QED BY <1>1, Invariant, PTL
=============================================================================
