------------------------------- MODULE MCSftp -------------------------------
(* Values for TLC: a home with a file, a link to it, and Downloads with a file
   of the same name; one or two requests of every kind. *)
EXTENDS Sftp

A == <<"a">>
MCDownloads == <<<<"d">>>>
FileA == <<A>>
LinkL == <<<<"l">>>>
DownA == <<<<"d">>, A>>
DownB == <<<<"d">>, <<"b">>>>

MCTree == (<<>> :> "root") @@ (FileA :> "f") @@ (LinkL :> "l")
            @@ (MCDownloads :> "d") @@ (DownA :> "g")
MCNodes == [root |-> Node("dir", <<>>, "old"), f |-> Node("file", <<1, 2>>, "old"),
            l |-> Node("link", FileA, "old"), d |-> Node("dir", <<>>, "old"),
            g |-> Node("file", <<3>>, "old")]

MCNames == {A, <<"b">>, <<"d">>, <<"l">>}

Ask(op, path, items) ==
    [op |-> op, path |-> path, items |-> items, name |-> <<>>, data |-> <<>>,
     mode |-> "new", rec |-> TRUE]

MCRequests ==
    {Ask("list", <<>>, <<>>), Ask("rename", DownB, <<FileA>>),
     Ask("move", MCDownloads, <<FileA, LinkL>>),
     [Ask("copy", MCDownloads, <<FileA>>) EXCEPT !.name = <<"b">>],
     Ask("delete", <<>>, <<MCDownloads>>), Ask("getContent", FileA, <<>>),
     Ask("createFolder", DownB, <<>>), Ask("changePerm", <<>>, <<MCDownloads>>),
     [Ask("edit", FileA, <<>>) EXCEPT !.data = <<4>>],
     [Ask("upload", MCDownloads, <<>>) EXCEPT !.name = <<"b">>, !.data = <<5>>],
     [Ask("uploadToDownloads", <<>>, <<>>) EXCEPT !.name = A, !.data = <<7>>],
     Ask("download", LinkL, <<>>),
     Ask("downloadMultiple", <<>>, <<FileA, DownA>>)}
=============================================================================
