----------------------------- MODULE FileServer -----------------------------
(***************************************************************************)
(* How the proxy answers a request for a file (proxy/fileserver.go): the   *)
(* preconditions, the ranges, and what serveContent then sends.  Pure      *)
(* operators, with the definitions of RFC 7232 and 7233 they follow.       *)
(*                                                                         *)
(* Instants count half seconds and dates in headers whole ones.  A body is *)
(* the sequence of the offsets of its bytes in the file.  The server never *)
(* sets an ETag, so no entity tag of a request matches.                    *)
(***************************************************************************)
EXTENDS Integers, SequencesExt

(* A header that is absent, that does not parse, or that is an entity tag. *)
None == -1
Bad  == -2
Tag  == -3

Sec(t) == t \div 2
IsZeroTime(t) == t = 0

(* setLastModified. *)
LastModified(t) == IF IsZeroTime(t) THEN None ELSE Sec(t)

Safe(r) == r.method \in {"GET", "HEAD"}

-----------------------------------------------------------------------------
(* Preconditions.  If-Match and If-None-Match are sequences of "star", "comma",
   "tag", "space" and "junk", empty when absent. *)
Tokens == {"star", "comma", "tag", "space", "junk"}

(* checkIfMatch stops at the first thing that is not a tag. *)
CheckIfMatch(h) ==
    IF h = <<>> THEN "none"
    ELSE IF \E i \in DOMAIN h :
               h[i] = "star" /\ \A j \in 1 .. i - 1 : h[j] \in {"comma", "space", "tag"}
    THEN "true" ELSE "false"

(* Mutant: the fractions of a second are not allowed for. *)
UnmodifiedExact(mtime, date) == mtime <= 2 * date

(* Not modified since the date, which has no fractions of a second. *)
Unmodified(mtime, date) == mtime < 2 * (date + 1)

CheckIfUnmodifiedSince(r, mtime) ==
    IF r.ius \in {None, Bad} \/ IsZeroTime(mtime) THEN "none"
    ELSE IF Unmodified(mtime, r.ius) THEN "true" ELSE "false"

(* checkIfNoneMatch, from the token i on: a comma is skipped together with
   the test for the end, so a header that ends with one is read past its end,
   which panics. *)
CheckIfNoneMatch(h) ==
    LET ends == {i \in DOMAIN h : h[i] # "space"}
        n == IF ends = {} THEN 0 ELSE Max(ends)
        Skip(i) == Min({j \in i .. n : h[j] # "space"})
        f[i \in 1 .. n + 1] ==
            IF i > n THEN "true"
            ELSE LET j == Skip(i)
                     k == IF h[j] = "comma" THEN j + 1 ELSE j
                 IN  IF k > n THEN "panic"
                     ELSE IF h[k] = "star" THEN "false"
                     ELSE IF h[Skip(k)] = "tag" THEN f[Skip(k) + 1] ELSE "true"
    IN  IF h = <<>> THEN "none" ELSE f[1]

CheckIfModifiedSince(r, mtime) ==
    IF ~Safe(r) \/ r.ims \in {None, Bad} \/ IsZeroTime(mtime) THEN "none"
    ELSE IF Unmodified(mtime, r.ims) THEN "false" ELSE "true"

(* Mutant: a date of the last seconds will do. *)
CheckIfRangeSince(r, mtime) ==
    IF ~Safe(r) \/ r.ifRange = None THEN "none"
    ELSE IF r.ifRange \in {Tag, Bad} \/ Sec(mtime) < r.ifRange THEN "false" ELSE "true"

(* Entity tags never match; a date must be that of the file. *)
CheckIfRange(r, mtime) ==
    IF ~Safe(r) \/ r.ifRange = None THEN "none"
    ELSE IF r.ifRange \in {Tag, Bad} \/ Sec(mtime) # r.ifRange THEN "false" ELSE "true"

(* The connection is closed by a panic of the handler. *)
Aborted == 1

(* The status that ends the request, or 0 to go on. *)
CheckPreconditions(r, mtime) ==
    LET im == CheckIfMatch(r.im)
        first == IF im = "none" THEN CheckIfUnmodifiedSince(r, mtime) ELSE im
        inm == CheckIfNoneMatch(r.inm)
    IN  CASE first = "false" -> 412
          [] first # "false" /\ inm = "panic" -> Aborted
          [] first # "false" /\ inm = "false" -> IF Safe(r) THEN 304 ELSE 412
          [] first # "false" /\ inm = "none" ->
                IF CheckIfModifiedSince(r, mtime) = "false" THEN 304 ELSE 0
          [] first # "false" /\ inm = "true" -> 0

(* The Range header that remains. *)
RangeHeader(r, mtime) ==
    IF r.range # <<>> /\ CheckIfRange(r, mtime) = "false" THEN <<>> ELSE r.range

-----------------------------------------------------------------------------
(* Ranges.  The header is a sequence of specs, empty when absent: "a-b", "a-",
   "-a" (a may be signed), "" and anything else. *)

FromTo(a, b) == [k |-> "from-to", a |-> a, b |-> b]
From(a)      == [k |-> "from", a |-> a, b |-> 0]
Suffix(a)    == [k |-> "suffix", a |-> a, b |-> 0]
Blank        == [k |-> "blank", a |-> 0, b |-> 0]
Junk         == [k |-> "junk", a |-> 0, b |-> 0]

Specs == [k : {"from-to", "from", "suffix", "blank", "junk"}, a : Int, b : Int]

(* "POST" stands for all other methods. *)
Requests ==
    [method : {"GET", "HEAD", "POST"}, im : Seq(Tokens), inm : Seq(Tokens),
     ius : Nat \cup {None, Bad}, ims : Nat \cup {None, Bad},
     range : Seq(Specs), ifRange : Nat \cup {None, Bad, Tag}]
FileInfos == [size : Nat, mtime : Nat]

Smaller(a, b) == IF a < b THEN a ELSE b

(* Mutant: the end of a range is clipped to the size. *)
RangeOfClipped(s, size) ==
    CASE s.k = "suffix" -> [start |-> size - Smaller(s.a, size), length |-> Smaller(s.a, size)]
      [] s.k = "from" -> [start |-> s.a, length |-> size - s.a]
      [] s.k = "from-to" -> [start |-> s.a, length |-> Smaller(s.b, size) - s.a + 1]

(* The httpRange of a spec; -a counts from the end. *)
RangeOf(s, size) ==
    CASE s.k = "suffix" -> [start |-> size - Smaller(s.a, size), length |-> Smaller(s.a, size)]
      [] s.k = "from" -> [start |-> s.a, length |-> size - s.a]
      [] s.k = "from-to" -> [start |-> s.a, length |-> Smaller(s.b, size - 1) - s.a + 1]

Beyond(s, size) == s.k \in {"from", "from-to"} /\ s.a >= size

(* A spec is looked at only as far as it matters: one that begins beyond the
   end is skipped before its end is parsed. *)
Invalid(s, size) == s.k = "junk" \/ (s.k = "from-to" /\ ~Beyond(s, size) /\ s.a > s.b)

(* The loop of parseRange: the ranges of the first i specs. *)
ParseRange(h, size) ==
    LET kept[i \in 0 .. Len(h)] ==
            IF i = 0 THEN <<>>
            ELSE IF h[i].k = "blank" \/ Beyond(h[i], size) THEN kept[i - 1]
            ELSE Append(kept[i - 1], RangeOf(h[i], size))
    IN  IF \E i \in DOMAIN h : Invalid(h[i], size) THEN [err |-> "invalid", ranges |-> <<>>]
        ELSE IF kept[Len(h)] = <<>> /\ \E i \in DOMAIN h : Beyond(h[i], size)
        THEN [err |-> "noOverlap", ranges |-> <<>>]
        ELSE [err |-> "", ranges |-> kept[Len(h)]]

SumRangesSize(ranges) ==
    LET sum[i \in 0 .. Len(ranges)] == IF i = 0 THEN 0 ELSE sum[i - 1] + ranges[i].length
    IN  sum[Len(ranges)]

-----------------------------------------------------------------------------
(* What is sent. *)

Bytes(start, n) == [i \in 1 .. n |-> start + i - 1]
Whole(f) == Bytes(0, f.size)

Reply(code, body) == [code |-> code, body |-> body]

(* net/http refuses a Write beyond the declared Content-Length. *)
Sent(r, code, declared, body) ==
    Reply(code, IF r.method = "HEAD" \/ Len(body) > declared THEN <<>> ELSE body)

(* A single range: serveContent reads on to the end of the file. *)
OneRange(r, f, ra) ==
    Sent(r, 206, ra.length, Bytes(ra.start, IF ra.start > f.size THEN 0 ELSE f.size - ra.start))

(* Several ranges; what the parts' headers take is not counted. *)
Parts(ranges) ==
    FlattenSeq([i \in DOMAIN ranges |-> Bytes(ranges[i].start, ranges[i].length)])

ServeRanges(r, f) ==
    LET p == ParseRange(RangeHeader(r, f.mtime), f.size)
        ranges == IF SumRangesSize(p.ranges) > f.size THEN <<>> ELSE p.ranges
    IN  CASE p.err # "" -> Reply(416, <<>>)
          [] p.err = "" /\ Len(ranges) = 1 -> OneRange(r, f, ranges[1])
          [] p.err = "" /\ Len(ranges) > 1 -> Sent(r, 206, SumRangesSize(ranges), Parts(ranges))
          [] p.err = "" /\ ranges = <<>> -> Sent(r, 200, f.size, Whole(f))

ServeContent(r, f) ==
    LET done == CheckPreconditions(r, f.mtime) IN
    IF done # 0 THEN Reply(done, <<>>) ELSE ServeRanges(r, f)

-----------------------------------------------------------------------------
(* Where a path leads, for the paths that exist: a path is a sequence of names
   and whether it ends with a slash; `files` are those of the site. *)

URL(names, slash) == [names |-> names, slash |-> slash]

(* Mutant: the redirect of a file with a slash is relative to the file. *)
BackToFileBelow(names) == Append(names, Last(names))

(* "../" and the base of the path. *)
BackToFile(names) == names

(* spaFileServer and, for a real file, serveFile: the page, the file or the
   URL of a redirect.  Directories never get to serveFile, and index.html is
   answered from memory. *)
Route(files, u) ==
    IF u.names \in {<<>>, <<"index.html">>} \/ u.names \notin files
    THEN [kind |-> "page", to |-> u]
    ELSE IF Last(u.names) = "index.html" /\ ~u.slash
    THEN [kind |-> "redirect", to |-> URL(Front(u.names), TRUE)]
    ELSE IF u.slash
    THEN [kind |-> "redirect", to |-> URL(BackToFile(u.names), FALSE)]
    ELSE [kind |-> "file", to |-> u]

-----------------------------------------------------------------------------
(* The reference: RFC 7232, section 6, for headers of the form it gives. *)

Members(h) == {i \in DOMAIN h : h[i] \notin {"space", "comma"}}

WellFormed(h) ==
    \/ h = <<>>
    \/ \E i \in Members(h) : h[i] = "star" /\ \A j \in DOMAIN h \ {i} : h[j] = "space"
    \/ /\ Members(h) # {} /\ \A i \in Members(h) : h[i] = "tag"
       /\ \A i, j \in Members(h) : i < j => \E k \in i .. j : h[k] = "comma"

Star(h) == \E i \in Members(h) : h[i] = "star"

RefPreconditions(r, mtime) ==
    LET known == ~IsZeroTime(mtime)
        changed(date) == Sec(mtime) > date
    IN  IF \/ r.im # <<>> /\ ~Star(r.im)
           \/ r.im = <<>> /\ known /\ r.ius >= 0 /\ changed(r.ius)
        THEN 412
        ELSE IF r.inm # <<>> /\ Star(r.inm) THEN (IF Safe(r) THEN 304 ELSE 412)
        ELSE IF r.inm = <<>> /\ Safe(r) /\ known /\ r.ims >= 0 /\ ~changed(r.ims) THEN 304
        ELSE 0

(* RFC 7233, section 2.1: the offsets that a spec asks for, and the bytes. *)
RefOffsets(s, size) ==
    {i \in 0 .. size - 1 :
        CASE s.k = "from-to" -> s.a <= i /\ i <= s.b
          [] s.k = "from" -> s.a <= i
          [] s.k = "suffix" -> size - s.a <= i
          [] OTHER -> FALSE}

RefBytes(s, size) ==
    LET S == RefOffsets(s, size) IN IF S = {} THEN <<>> ELSE Bytes(Min(S), Cardinality(S))
=============================================================================
