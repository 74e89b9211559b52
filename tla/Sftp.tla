-------------------------------- MODULE Sftp --------------------------------
(***************************************************************************)
(* The file browser of the page (web/browser.go): thirteen calls, each a   *)
(* goroutine that makes one SFTP request after another and then calls      *)
(* back.                                                                   *)
(*                                                                         *)
(* Between two requests other calls run, and a reconnect may replace the   *)
(* global sftpClient, which every request reads anew: the rest of a call   *)
(* then goes to another host.  Only open files stay where they were        *)
(* opened.  Any request may fail.                                          *)
(*                                                                         *)
(* A call is the sequence `todo` of the requests it has yet to make; the   *)
(* answers to lstat, readdir and open extend it.  The server is external.  *)
(***************************************************************************)
EXTENDS Integers, SequencesExt

CONSTANTS Calls,          \* the calls of the page, numbered as they are made
          Requests,       \* what a call may ask for
          Hosts,          \* the servers
          Tree, Nodes,    \* the files of each server at first: path -> node
          Names,          \* the names in requests and in the files at first
          Units,          \* what files consist of
          Modes,          \* permissions
          Downloads,      \* ~/Downloads
          MaxSuffix,      \* 9999 in the code
          Start,          \* the host the page is connected to at first, or Nil
          MaxReconnects   \* bound: reconnects after that

Nil == "nil"

(* A name with a counter, and the paths.  Files are put together from units,
   0 where nothing was written. *)
Counted(name, i) == Append(name, i)
Entries == Names \cup {Counted(n, i) : n \in Names, i \in 1 .. MaxSuffix}
Paths == Seq(Entries)
Contents == Seq(Units \cup {0})

Ops == {"list", "rename", "move", "copy", "delete", "edit", "getContent", "createFolder",
        "changePerm", "upload", "uploadToDownloads", "download", "downloadMultiple"}
Uploads == {"upload", "uploadToDownloads"}

ASSUME CallAssumption == Calls \subseteq Nat
ASSUME SuffixAssumption == MaxSuffix \in Nat \ {0}
ASSUME ReconnectAssumption == MaxReconnects \in Nat
ASSUME HostAssumption == Nil \notin Hosts /\ Start \subseteq Hosts \cup {Nil}
ASSUME RequestAssumption ==
    /\ Requests \subseteq [op : Ops, path : Paths, items : Seq(Paths \ {<<>>}), name : Names \cup {<<>>},
                           data : Contents, mode : Modes, rec : BOOLEAN]
    /\ \A r \in Requests : r.op = "rename" => Len(r.items) = 1
    /\ \A r \in Requests : r.op \in Uploads => r.name # <<>>
    /\ Downloads \in Paths /\ "default" \in Modes
ASSUME NodeAssumption ==
    \A n \in DOMAIN Nodes :
        Nodes[n] \in IF Nodes[n].kind = "link"
                     THEN [kind : {"link"}, data : Paths, mode : Modes]
                     ELSE [kind : {"dir", "file"}, data : Contents, mode : Modes]
ASSUME TreeAssumption ==
    /\ IsFiniteSet(DOMAIN Tree) /\ DOMAIN Tree \subseteq Paths
    /\ \A p \in DOMAIN Tree :
          /\ Tree[p] \in DOMAIN Nodes
          /\ p # <<>> => Front(p) \in DOMAIN Tree /\ Nodes[Tree[Front(p)]].kind = "dir"
          /\ \A q \in DOMAIN Tree : Tree[p] = Tree[q] => p = q

VARIABLES
    page,       \* "up", or "crashed" by a nil pointer
    ssh, sftp,  \* the hosts of sshClient and sftpClient
    pending,    \* whether initSftp has yet to follow
    reconnects, \* how many there were
    tree,       \* per host, the node at each path
    node,       \* the nodes: kind, data, mode
    req,        \* what each call asks for
    todo,       \* its requests to come
    file,       \* its open file: the host, the node and the position
    size,       \* what Lstat said, of a download
    got,        \* the contents it has read
    ans,        \* what the callback was given
    home,       \* history: the host the call began on
    replaced,   \* history: the calls during which a client was replaced
    overlap,    \* history: which calls ran at the same time
    changes     \* history: what others changed since a call began

cliVars  == <<ssh, sftp, pending, reconnects>>
pageVars == <<page, cliVars>>
srvVars  == <<tree, node>>
callVars == <<todo, file, size, got, ans>>
histVars == <<home, replaced, overlap, changes>>
vars == <<pageVars, srvVars, req, callVars, histVars>>

Answers == {"idle", "running", "ok", "error", "silent"}
NoRequest == [op |-> "none", data |-> <<>>]
NoFile == [host |-> Nil, id |-> Nil, asked |-> <<>>, path |-> <<>>, pos |-> 0]

-----------------------------------------------------------------------------
(* The server. *)

Exists(h, p)   == p \in DOMAIN tree[h]
At(h, p)       == node[tree[h][p]]
IsDir(h, p)    == Exists(h, p) /\ At(h, p).kind = "dir"
IsFile(h, p)   == Exists(h, p) /\ At(h, p).kind = "file"
Children(h, p) == {q \in DOMAIN tree[h] : q # <<>> /\ Front(q) = p}
Creatable(h, p) == p # <<>> /\ IsDir(h, Front(p)) /\ ~Exists(h, p)

(* Where open ends: a link is followed once; a link to a link does not open. *)
Follow(h, p) == IF Exists(h, p) /\ At(h, p).kind = "link" THEN At(h, p).data ELSE p

(* Nodes are named by the host and the call and path that made them. *)
Node(kind, data, mode) == [kind |-> kind, data |-> data, mode |-> mode]
With(f, x, y) == [z \in DOMAIN f \cup {x} |-> IF z = x THEN y ELSE f[z]]
Without(f, x) == [z \in DOMAIN f \ {x} |-> f[z]]

Moved(t, s, d) ==
    LET Old(q) == IF IsPrefix(d, q) THEN s \o SubSeq(q, Len(d) + 1, Len(q)) ELSE q
        from == {q \in DOMAIN t : IsPrefix(s, q)}
        to == {d \o SubSeq(q, Len(s) + 1, Len(q)) : q \in from}
    IN [q \in (DOMAIN t \ from) \cup to |-> t[Old(q)]]

(* The data with the unit u at position i. *)
Overlay(d, i, u) ==
    [j \in 1 .. (IF i > Len(d) THEN i ELSE Len(d)) |->
        IF j = i THEN u ELSE IF j <= Len(d) THEN d[j] ELSE 0]

(* What os.FileInfo says of the size: of a link, the length of its target. *)
SizeOf(n) == Len(n.data)

-----------------------------------------------------------------------------
(* What each call requests first. *)

Req(do, p) == [do |-> do, path |-> p, to |-> p]

RenameTo(s, d) == [do |-> "rename", path |-> s, to |-> d]

List(r) == <<Req("readdir", r.path)>>
Rename(r) == <<RenameTo(r.items[1], r.path)>>
Move(r) == <<Req("lstat", r.path)>>
Copy(r) == <<Req("cp", r.path)>>
Delete(r) == [i \in DOMAIN r.items |-> Req("lstat", r.items[i])]
Edit(r) == <<Req("truncate", r.path)>>
GetContent(r) == <<Req("open", r.path), Req("read", r.path)>>
CreateFolder(r) == <<Req("mkdir", r.path)>>
ChangePerm(r) == [i \in DOMAIN r.items |-> Req("chmod", r.items[i])]
Upload(r) == <<Req("readdir", r.path)>>
UploadToDownloads(r) ==
    <<Req("realpath", <<>>), Req("mkdirall", Downloads), Req("readdir", Downloads)>>
Download(r) == <<Req("lstat", r.path)>>
DownloadMultiple(r) ==
    [j \in 1 .. 3 * Len(r.items) |->
        Req(<<"open", "read", "close">>[((j - 1) % 3) + 1], r.items[((j - 1) \div 3) + 1])]

Program(r) ==
    CASE r.op = "list" -> List(r)
      [] r.op = "rename" -> Rename(r)
      [] r.op = "move" -> Move(r)
      [] r.op = "copy" -> Copy(r)
      [] r.op = "delete" -> Delete(r)
      [] r.op = "edit" -> Edit(r)
      [] r.op = "getContent" -> GetContent(r)
      [] r.op = "createFolder" -> CreateFolder(r)
      [] r.op = "changePerm" -> ChangePerm(r)
      [] r.op = "upload" -> Upload(r)
      [] r.op = "uploadToDownloads" -> UploadToDownloads(r)
      [] r.op = "download" -> Download(r)
      [] r.op = "downloadMultiple" -> DownloadMultiple(r)

-----------------------------------------------------------------------------
(* The ranges of the variables; a call has requests to make until it answers. *)
TypeOK ==
    /\ page \in {"up", "crashed"}
    /\ ssh \in Hosts \cup {Nil} /\ sftp \in Hosts \cup {Nil}
    /\ reconnects \in 0 .. MaxReconnects /\ pending \in BOOLEAN
    /\ \A h \in Hosts : \A p \in DOMAIN tree[h] :
          /\ tree[h][p] \in DOMAIN node
          /\ p # <<>> => IsDir(h, Front(p))
    /\ req \in [Calls -> Requests \cup {NoRequest}]
    /\ ans \in [Calls -> Answers]
    /\ \A c \in Calls : (todo[c] # <<>>) = (ans[c] = "running")
    /\ \A c \in Calls : file[c] = NoFile \/ file[c].id \in DOMAIN node
    /\ size \in [Calls -> Nat]

Init ==
    /\ page = "up" /\ reconnects = 0 /\ pending = FALSE
    /\ ssh \in Start /\ sftp = ssh
    /\ tree = [h \in Hosts |-> [p \in DOMAIN Tree |-> <<h, Tree[p]>>]]
    /\ node = [i \in Hosts \X DOMAIN Nodes |-> Nodes[i[2]]]
    /\ req = [c \in Calls |-> NoRequest]
    /\ todo = [c \in Calls |-> <<>>]
    /\ file = [c \in Calls |-> NoFile]
    /\ size = [c \in Calls |-> 0]
    /\ got = [c \in Calls |-> <<>>]
    /\ ans = [c \in Calls |-> "idle"]
    /\ home = [c \in Calls |-> Nil]
    /\ replaced = {} /\ overlap = {}
    /\ changes = [c \in Calls |-> {}]

Running == {c \in Calls : ans[c] = "running"}

-----------------------------------------------------------------------------
(* The clients. *)

(* A connection: initConnection sets sshClient ... *)
Reconnect(h) ==
    /\ page = "up" /\ reconnects < MaxReconnects /\ ~pending
    /\ ssh' = h /\ pending' = TRUE
    /\ reconnects' = reconnects + 1
    /\ replaced' = replaced \cup Running
    /\ UNCHANGED <<page, sftp, srvVars, req, callVars, home, overlap, changes>>

(* ... and initSftp sftpClient, to nil when NewClient fails. *)
InitSftp ==
    /\ page = "up" /\ pending
    /\ sftp' \in {ssh, Nil} /\ pending' = FALSE
    /\ replaced' = replaced \cup Running
    /\ UNCHANGED <<page, ssh, reconnects, srvVars, req, callVars, home, overlap, changes>>

(* The page makes a call; without a client it returns and never calls back, and
   with no items there is nothing to request. *)
Call(c, r) ==
    /\ page = "up" /\ ans[c] = "idle"
    /\ \A d \in Calls : d < c => ans[d] # "idle"
    /\ req' = [req EXCEPT ![c] = r]
    /\ IF sftp = Nil
       THEN /\ ans' = [ans EXCEPT ![c] = "silent"]
            /\ UNCHANGED <<todo, home, overlap>>
       ELSE /\ ans' = [ans EXCEPT ![c] = IF Program(r) = <<>> THEN "ok" ELSE "running"]
            /\ todo' = [todo EXCEPT ![c] = Program(r)]
            /\ home' = [home EXCEPT ![c] = IF r.op = "copy" THEN ssh ELSE sftp]
            /\ overlap' = overlap \cup (Running \X {c}) \cup ({c} \X Running)
    /\ UNCHANGED <<pageVars, srvVars, file, size, got, replaced, changes>>

-----------------------------------------------------------------------------
(* The requests.  Every one runs on the client of the moment. *)

Ready(c, do) ==
    page = "up" /\ ans[c] = "running" /\ Head(todo[c]).do = do /\ sftp # Nil

Path(c) == Head(todo[c]).path

(* The answer came: the call goes on with `more`, or calls back. *)
Continue(c, more) ==
    LET rest == more \o Tail(todo[c]) IN
    /\ todo' = [todo EXCEPT ![c] = rest]
    /\ ans' = [ans EXCEPT ![c] = IF rest = <<>> THEN "ok" ELSE @]

(* The error is reported and the call returns. *)
GiveUp(c) ==
    /\ todo' = [todo EXCEPT ![c] = <<>>]
    /\ ans' = [ans EXCEPT ![c] = "error"]

(* The paths that a step of c changes, noted for the calls that have begun. *)
Changed(c, h, paths) ==
    changes' = [d \in Calls |->
        IF d = c \/ ans[d] \in {"idle", "silent"} THEN changes[d]
        ELSE changes[d] \cup {[by |-> c, host |-> h, path |-> p] : p \in paths}]

(* Mutant: an error is logged and the callback forgotten. *)
FailsSilently(c) ==
    /\ page = "up" /\ ans[c] = "running" /\ Head(todo[c]).do # "close"
    /\ todo' = [todo EXCEPT ![c] = <<>>]
    /\ ans' = [ans EXCEPT ![c] = "silent"]
    /\ UNCHANGED <<pageVars, srvVars, req, file, size, got, histVars>>

(* A request fails, and the call answers with an error; only move goes on and
   uses the missing answer.  Errors of Close are ignored. *)
Fails(c) ==
    /\ page = "up" /\ ans[c] = "running" /\ Head(todo[c]).do # "close"
    /\ IF req[c].op = "move" /\ Head(todo[c]).do = "lstat"
       THEN page' = "crashed" /\ UNCHANGED <<todo, ans>>
       ELSE GiveUp(c) /\ UNCHANGED page
    /\ UNCHANGED <<cliVars, srvVars, req, file, size, got, histVars>>

(* Requests that go to the client, and not to an open file. *)
OnClient == {"lstat", "readdir", "rename", "mkdir", "mkdirall", "realpath", "chmod",
             "remove", "rmdir", "open", "truncate", "create"}

(* A client that has become nil since the call checked it. *)
Panic(c) ==
    /\ page = "up" /\ ans[c] = "running" /\ sftp = Nil
    /\ Head(todo[c]).do \in OnClient
    /\ page' = "crashed"
    /\ UNCHANGED <<cliVars, srvVars, req, callVars, histVars>>

(* move renames every item to dst, or into it when it is a directory. *)
MoveItems(r, isDir) ==
    [i \in DOMAIN r.items |->
        RenameTo(r.items[i], IF isDir THEN Append(r.path, Last(r.items[i])) ELSE r.path)]

AfterLstat(r, p, isDir) ==
    CASE r.op = "delete"     -> <<Req(IF isDir THEN "readdir" ELSE "remove", p)>>
      [] r.op = "changePerm" -> IF isDir THEN <<Req("readdir", p)>> ELSE <<>>
      [] r.op = "move"       -> MoveItems(r, isDir)
      [] r.op = "download"   -> <<Req("open", p), Req("read", p), Req("close", p)>>

Lstat(c) ==
    LET p == Path(c) IN
    /\ Ready(c, "lstat") /\ Exists(sftp, p)
    /\ IF req[c].op = "download" /\ IsDir(sftp, p)
       THEN GiveUp(c)
       ELSE Continue(c, AfterLstat(req[c], p, IsDir(sftp, p)))
    /\ size' = [size EXCEPT ![c] = SizeOf(At(sftp, p))]
    /\ UNCHANGED <<pageVars, srvVars, req, file, got, histVars>>

(* isUnique. *)
Taken(h, dir) == {Last(q) : q \in Children(h, dir)}

(* Mutant: the name is taken whatever the directory holds. *)
FreeNameAny(name, taken) == name

(* The first free name with a counter; uploadToDownloads keeps a taken name
   when all counters are used. *)
FreeName(name, taken) ==
    LET free == {i \in 1 .. MaxSuffix : Counted(name, i) \notin taken} IN
    IF name \notin taken \/ free = {} THEN name
    ELSE Counted(name, CHOOSE i \in free : \A j \in free : i <= j)

(* Mutant: chmod handles the directory and leaves its files. *)
AfterReadDirFlat(r, p, taken) ==
    CASE r.op = "list"   -> <<>>
      [] r.op = "delete" -> SetToSeq({Req("lstat", Append(p, n)) : n \in taken})
                              \o <<Req("rmdir", p)>>
      [] r.op = "changePerm" -> <<>>
      [] r.op = "upload" -> <<Req("create", Append(p, r.name))>>
      [] r.op = "uploadToDownloads" -> <<Req("create", Append(p, FreeName(r.name, taken)))>>

AfterReadDir(r, p, taken) ==
    CASE r.op = "list"   -> <<>>
      [] r.op = "delete" -> SetToSeq({Req("lstat", Append(p, n)) : n \in taken})
                              \o <<Req("rmdir", p)>>
      [] r.op = "changePerm" -> SetToSeq({Req("chmod", Append(p, n)) : n \in taken})
      [] r.op = "upload" -> <<Req("create", Append(p, r.name))>>
      [] r.op = "uploadToDownloads" -> <<Req("create", Append(p, FreeName(r.name, taken)))>>

(* upload looks for a free name, too, and loses it: a taken name is an error. *)
ReadDir(c) ==
    LET p == Path(c)  taken == Taken(sftp, p) IN
    /\ Ready(c, "readdir") /\ IsDir(sftp, p)
    /\ IF req[c].op = "upload" /\ req[c].name \in taken
       THEN GiveUp(c)
       ELSE Continue(c, AfterReadDir(req[c], p, taken))
    /\ UNCHANGED <<pageVars, srvVars, req, file, size, got, histVars>>

RealPath(c) ==
    /\ Ready(c, "realpath")
    /\ Continue(c, <<>>)
    /\ UNCHANGED <<pageVars, srvVars, req, file, size, got, histVars>>

(* Mkdir, and MkdirAll, which is content with what there is. *)
Mkdir(c) ==
    LET p == Path(c) IN
    /\ Ready(c, "mkdir") \/ Ready(c, "mkdirall")
    /\ \/ /\ Creatable(sftp, p)
          /\ tree' = [tree EXCEPT ![sftp] = With(@, p, <<sftp, c, p>>)]
          /\ node' = With(node, <<sftp, c, p>>, Node("dir", <<>>, "default"))
          /\ Changed(c, sftp, {p})
       \/ /\ Ready(c, "mkdirall") /\ IsDir(sftp, p)
          /\ UNCHANGED <<srvVars, changes>>
    /\ Continue(c, <<>>)
    /\ UNCHANGED <<pageVars, req, file, size, got, home, replaced, overlap>>

(* Remove of a file, RemoveDirectory of an empty directory. *)
DoRemove(c) ==
    LET p == Path(c) IN
    /\ \/ Ready(c, "remove") /\ Exists(sftp, p) /\ ~IsDir(sftp, p)
       \/ Ready(c, "rmdir") /\ IsDir(sftp, p) /\ Children(sftp, p) = {}
    /\ tree' = [tree EXCEPT ![sftp] = Without(@, p)]
    /\ Changed(c, sftp, {p})
    /\ Continue(c, <<>>)
    /\ UNCHANGED <<pageVars, node, req, file, size, got, home, replaced, overlap>>

(* The server renames to a free path only. *)
DoRename(c) ==
    LET s == Path(c)  d == Head(todo[c]).to IN
    /\ Ready(c, "rename") /\ Exists(sftp, s) /\ Creatable(sftp, d) /\ ~IsPrefix(s, d)
    /\ tree' = [tree EXCEPT ![sftp] = Moved(@, s, d)]
    /\ Changed(c, sftp, {s, d})
    /\ Continue(c, <<>>)
    /\ UNCHANGED <<pageVars, node, req, file, size, got, home, replaced, overlap>>

(* chmod, which goes on with the files of a directory. *)
Chmod(c) ==
    LET p == Path(c) IN
    /\ Ready(c, "chmod") /\ Exists(sftp, Follow(sftp, p))
    /\ node' = [node EXCEPT ![tree[sftp][Follow(sftp, p)]].mode = req[c].mode]
    /\ Changed(c, sftp, {Follow(sftp, p)})
    /\ Continue(c, IF req[c].rec THEN <<Req("lstat", p)>> ELSE <<>>)
    /\ UNCHANGED <<pageVars, tree, req, file, size, got, home, replaced, overlap>>

(* The client's File for the path p, which was asked for by another name if
   that is a link. *)
Opened(asked, p, id) == [host |-> sftp, id |-> id, asked |-> asked, path |-> p, pos |-> 0]

(* Open for reading. *)
Open(c) ==
    LET p == Follow(sftp, Path(c)) IN
    /\ Ready(c, "open") /\ IsFile(sftp, p)
    /\ LET f == Opened(Path(c), p, tree[sftp][p]) IN
       /\ file' = [file EXCEPT ![c] = f]
       /\ got' = [got EXCEPT ![c] = Append(@, [f |-> f, data |-> <<>>])]
    /\ Continue(c, <<>>)
    /\ UNCHANGED <<pageVars, srvVars, req, size, histVars>>

(* Writing the data, and Close unless it is edit. *)
Writes(r, p) ==
    [i \in DOMAIN r.data |-> Req("write", p)]
        \o (IF r.op = "edit" THEN <<>> ELSE <<Req("close", p)>>)

Truncated(n) == [n EXCEPT !.data = <<>>]

(* OpenFile with O_TRUNC of edit, and Create of the uploads, which truncates a
   file that is there. *)
OpenToWrite(c) ==
    LET p == Follow(sftp, Path(c)) IN
    /\ Ready(c, "truncate") \/ Ready(c, "create")
    /\ \/ /\ IsFile(sftp, p)
          /\ node' = [node EXCEPT ![tree[sftp][p]] = Truncated(@)]
          /\ UNCHANGED tree
       \/ /\ Ready(c, "create") /\ Creatable(sftp, p)
          /\ tree' = [tree EXCEPT ![sftp] = With(@, p, <<sftp, c, p>>)]
          /\ node' = With(node, <<sftp, c, p>>, Node("file", <<>>, "default"))
    /\ file' = [file EXCEPT ![c] = Opened(Path(c), p, tree'[sftp][p])]
    /\ Changed(c, sftp, {p})
    /\ Continue(c, Writes(req[c], p))
    /\ UNCHANGED <<pageVars, req, size, got, home, replaced, overlap>>

(* The requests on an open file go to its own client. *)
OnFile(c, do) == page = "up" /\ ans[c] = "running" /\ Head(todo[c]).do = do

Write(c) ==
    LET f == file[c] IN
    /\ OnFile(c, "write")
    /\ node' = [node EXCEPT ![f.id].data = Overlay(@, f.pos + 1, req[c].data[f.pos + 1])]
    /\ file' = [file EXCEPT ![c].pos = @ + 1]
    /\ Changed(c, f.host, {p \in DOMAIN tree[f.host] : tree[f.host][p] = f.id})
    /\ Continue(c, <<>>)
    /\ UNCHANGED <<pageVars, tree, req, size, got, home, replaced, overlap>>

(* The buffer that download made from the size Lstat gave. *)
Fit(data, n) == [i \in 1 .. n |-> IF i <= Len(data) THEN data[i] ELSE 0]

(* Mutant: one Read in place of ReadAll. *)
ReadOnce(c) ==
    LET f == file[c]  data == node[f.id].data  last == Len(got[c]) IN
    /\ OnFile(c, "read")
    /\ got' = [got EXCEPT ![c][last].data = SubSeq(data, 1, 1)]
    /\ Continue(c, <<>>)
    /\ UNCHANGED <<pageVars, srvVars, req, file, size, histVars>>

(* ReadAll: a unit at a time, up to the end of the file. *)
Read(c) ==
    LET f == file[c]  data == node[f.id].data  last == Len(got[c]) IN
    /\ OnFile(c, "read")
    /\ \/ /\ f.pos < Len(data)
          /\ got' = [got EXCEPT ![c][last].data = Append(@, data[f.pos + 1])]
          /\ file' = [file EXCEPT ![c].pos = @ + 1]
          /\ UNCHANGED <<todo, ans>>
       \/ /\ f.pos >= Len(data)
          /\ got' = [got EXCEPT ![c][last].data =
                        IF req[c].op = "download" THEN Fit(@, size[c]) ELSE @]
          /\ Continue(c, <<>>)
          /\ UNCHANGED file
    /\ UNCHANGED <<pageVars, srvVars, req, size, histVars>>

Close(c) ==
    /\ OnFile(c, "close")
    /\ Continue(c, <<>>)
    /\ UNCHANGED <<pageVars, srvVars, req, file, size, got, histVars>>

-----------------------------------------------------------------------------
(* copy runs cp on the host of sshClient. *)

Dst(r) == IF r.name # <<>> /\ Len(r.items) = 1 THEN Append(r.path, r.name) ELSE r.path

Target(h, r, i) == IF IsDir(h, Dst(r)) THEN Append(Dst(r), Last(r.items[i])) ELSE Dst(r)

Copyable(h, r, i) ==
    LET s == Follow(h, r.items[i])  d == Target(h, r, i) IN
    IsFile(h, s) /\ s # d /\ (Creatable(h, d) \/ IsFile(h, d))

(* Some of the items are copied, onto files that are there as well; the exit
   status is 0 only when all are. *)
RunCp(c) ==
    LET r == req[c] IN
    /\ OnFile(c, "cp")
    /\ \E done \in SUBSET {i \in DOMAIN r.items : Copyable(ssh, r, i)} :
       LET to == {Target(ssh, r, i) : i \in done}
           From(q) == At(ssh, Follow(ssh,
                         r.items[CHOOSE i \in done : Target(ssh, r, i) = q])).data
       IN
       /\ tree' = [tree EXCEPT ![ssh] =
                     [q \in DOMAIN @ \cup to |-> IF q \in DOMAIN @ THEN @[q] ELSE <<ssh, c, q>>]]
       /\ node' = [n \in DOMAIN node \cup {tree'[ssh][q] : q \in to} |->
                     IF \E q \in to : tree'[ssh][q] = n
                     THEN Node("file", From(CHOOSE q \in to : tree'[ssh][q] = n), "default")
                     ELSE node[n]]
       /\ Changed(c, ssh, to)
       /\ IF done = DOMAIN r.items THEN Continue(c, <<>>) ELSE GiveUp(c)
    /\ UNCHANGED <<pageVars, req, file, size, got, home, replaced, overlap>>

-----------------------------------------------------------------------------
Serve(c) ==
    \/ Fails(c) \/ Panic(c)
    \/ Lstat(c) \/ ReadDir(c) \/ RealPath(c) \/ Mkdir(c) \/ DoRemove(c) \/ DoRename(c)
    \/ Chmod(c) \/ Open(c) \/ OpenToWrite(c) \/ Write(c) \/ Read(c) \/ Close(c) \/ RunCp(c)

Next ==
    \/ \E h \in Hosts : Reconnect(h)
    \/ InitSftp
    \/ \E c \in Calls :
          \/ \E r \in Requests : Call(c, r)
          \/ Fails(c) \/ Panic(c)
          \/ Lstat(c) \/ ReadDir(c) \/ RealPath(c) \/ Mkdir(c) \/ DoRemove(c) \/ DoRename(c)
          \/ Chmod(c) \/ Open(c) \/ OpenToWrite(c) \/ Write(c) \/ Read(c) \/ Close(c)
          \/ RunCp(c)

Spec == Init /\ [][Next]_vars

(* Requests are answered, if only with an error; the user may do nothing. *)
FairSpec == Spec /\ WF_vars(\E c \in Calls : Serve(c))

-----------------------------------------------------------------------------
(* Another call has changed the path, or a directory on it, since c began;
   permissions matter to changePerm only. *)
Disturbed(c, h, p) ==
    \E e \in changes[c] :
        /\ e.host = h /\ IsPrefix(e.path, p)
        /\ req[e.by].op = "changePerm" => req[c].op = "changePerm"

(* Others changed the path that the call had found free. *)
Raced(c, h) == file[c] # NoFile /\ Disturbed(c, h, file[c].asked)

(* All counters are taken, or were until others changed it. *)
UsedUp(c, h) ==
    /\ req[c].op = "uploadToDownloads"
    /\ \A i \in 1 .. MaxSuffix :
          LET p == Append(Downloads, Counted(req[c].name, i)) IN
          Exists(h, p) \/ Disturbed(c, h, p)

(* A call that others may blame: it names the file itself, it ran at the same
   time, or the name that it had found was not free. *)
Excused(c, e) ==
    \/ req[e.by].op \notin Uploads \cup {"changePerm"}
    \/ req[e.by].op \in Uploads /\ (<<c, e.by>> \in overlap \/ e.by \in replaced)
    \/ req[e.by].op \in Uploads /\ (Raced(e.by, e.host) \/ UsedUp(e.by, e.host))

(* An upload or edit that answered with success is stored: the file it opened
   is at its path on that host, with exactly the data that was sent, even if
   the client was replaced meanwhile.  Uploads that come later find another
   name (the comment at browser.go:540). *)
OkMeansStored ==
    \A c \in Calls :
        ans[c] = "ok" /\ req[c].op \in Uploads \cup {"edit"} =>
            LET f == file[c] IN
            \/ /\ Exists(f.host, f.path) /\ tree[f.host][f.path] = f.id
               /\ node[f.id].data = req[c].data
            \/ \E e \in changes[c] :
                  e.host = f.host /\ IsPrefix(e.path, f.path) /\ Excused(c, e)

(* What a call is to bring about on the host h. *)
Effect(c, h) ==
    LET r == req[c]
        OK(p, b) == b \/ Disturbed(c, h, p)
        Below(p) == {q \in DOMAIN tree[h] : IsPrefix(p, q)}
    IN CASE r.op \in {"delete", "move"} ->
                \A i \in DOMAIN r.items : \A q \in Below(r.items[i]) : Disturbed(c, h, q)
         [] r.op = "rename" -> OK(r.items[1], ~Exists(h, r.items[1])) /\ OK(r.path, Exists(h, r.path))
         [] r.op = "changePerm" ->
                \A i \in DOMAIN r.items :
                    /\ OK(r.items[i], Exists(h, r.items[i]))
                    /\ \A q \in IF r.rec THEN Below(r.items[i])
                                ELSE Below(r.items[i]) \cap {r.items[i]} :
                          At(h, q).kind = "link" \/ OK(q, At(h, q).mode = r.mode)
         [] r.op = "createFolder" -> OK(r.path, IsDir(h, r.path))
         [] r.op = "copy" ->
                \A i \in DOMAIN r.items : OK(Target(h, r, i), Exists(h, Target(h, r, i)))
         [] OTHER -> TRUE

(* A call of several requests that answered with success has done all of what
   it was asked for on the host it began on, apart from what other calls
   changed meanwhile or later and unless a client was replaced while it ran:
   nothing is left under deleted paths, and all below a directory has the
   mode. *)
OkMeansDone ==
    \A c \in Calls : ans[c] = "ok" /\ c \notin replaced => Effect(c, home[c])

(* A file that was read and delivered is the file as it is, unless others
   changed it; download also needs the size of the file it read, which Lstat
   does not give for a link or for another host. *)
ReadsExact ==
    \A c \in Calls :
        ans[c] = "ok" =>
            \A i \in DOMAIN got[c] :
                LET g == got[c][i] IN
                \/ g.data = node[g.f.id].data
                \/ Disturbed(c, g.f.host, g.f.path)
                \/ req[c].op = "download" /\ (g.f.asked # g.f.path \/ c \in replaced)

(* Calls that found a client and did not call back. *)
Silent == {c \in Calls : ans[c] = "silent" /\ home[c] # Nil}

(* Every call that found a client calls back, however its requests interleave
   with those of others and with reconnects, unless the page has crashed: the
   recursions end and no error path forgets the callback. *)
CallsAnswered ==
    Running # {} ~> (page = "crashed" \/ (Running = {} /\ Silent = {}))
=============================================================================
