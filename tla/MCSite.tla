------------------------------- MODULE MCSite -------------------------------
(* Values for TLC. *)
EXTENDS Site

MCSizes == <<2, 3, 2>>

MCSpecs == {FromTo(a, b) : a \in 0 .. 3, b \in 0 .. 3} \cup {From(a) : a \in 0 .. 3}
            \cup {Suffix(a) : a \in -1 .. 4} \cup {Blank, Junk}

RangeAsks ==
    {[r |-> [Plain EXCEPT !.range = h], f |-> [size |-> n, mtime |-> 0]] :
        h \in UNION {[1 .. k -> MCSpecs] : k \in 0 .. 2}, n \in 0 .. 3}

(* Ranges that If-Range may switch off. *)
IfRangeAsks ==
    {[r |-> [Plain EXCEPT !.method = m, !.range = <<s>>, !.ifRange = d],
      f |-> [size |-> 2, mtime |-> t]] :
        m \in {"GET", "HEAD", "POST"}, s \in MCSpecs, d \in {None, Bad, Tag, 0, 1},
        t \in 0 .. 2}

Tags == {<<>>, <<"star">>, <<"tag">>, <<"tag", "comma", "tag">>, <<"tag", "comma">>, <<"comma", "tag">>,
         <<"space", "star">>, <<"tag", "space", "comma", "space", "tag">>, <<"junk">>, <<"tag", "star">>}
Dates == {None, Bad, 0, 1}

CondAsks ==
    {[r |-> [Plain EXCEPT !.method = m, !.im = i, !.inm = n, !.ius = u, !.ims = s],
      f |-> [size |-> 1, mtime |-> t]] :
        m \in {"GET", "HEAD", "POST"}, i \in {<<>>, <<"star">>, <<"tag">>}, n \in Tags,
        u \in Dates, s \in Dates, t \in 0 .. 4}

MCAsks == RangeAsks \cup IfRangeAsks \cup CondAsks

MCFiles == {<<"f">>, <<"d", "f">>, <<"index.html">>, <<"d", "index.html">>}

MCLinks ==
    {URL(n, s) : n \in UNION {[1 .. k -> {"d", "f", "index.html"}] : k \in 0 .. 2},
                 s \in BOOLEAN}

MCPages == {Home, IndexURL, "/connect?host=h"}
=============================================================================
