-------------------------------- MODULE Site --------------------------------
(***************************************************************************)
(* The static site through its releases: the files on disk, the branded    *)
(* index.html that the proxy keeps in memory (proxy/static.go), a browser  *)
(* whose service worker fetches the page and then main.wasm                *)
(* (web/html/sw.js, index.html), and a client that stores, resumes and     *)
(* revalidates a copy of a file by the rules of FileServer.                *)
(*                                                                         *)
(* `who` tells which of them acts in a behaviour: they share only what     *)
(* they read.                                                              *)
(***************************************************************************)
EXTENDS FileServer

CONSTANTS Pages,      \* the URLs, with their queries, a user opens the page at
          Sizes,      \* the size of the file in each release
          Asks,       \* requests and files for serveContent
          Links,      \* URLs of the site
          Files,      \* its files
          MaxNow,     \* bound: the clock
          MaxEvents   \* bound: how often a page is opened or the site, the
                      \* network or the session changes

Releases == DOMAIN Sizes
Index == "index.html"
Wasm  == "main.wasm"
Home  == "/"
IndexURL == "/index.html"
Keys  == Pages \cup {Wasm}      \* what the service worker stores under

ASSUME PagesAssumption == {Home, IndexURL} \subseteq Pages /\ Wasm \notin Pages
ASSUME SizesAssumption == Sizes \in Seq(Nat) /\ Sizes # <<>>
ASSUME BoundAssumption == MaxNow \in Nat /\ MaxEvents \in Nat

(* Paths are names one below the other, and a directory is not a file. *)
ASSUME FilesAssumption ==
    /\ Files \subseteq Seq(STRING)
    /\ \A f \in Files : f # <<>> /\ Front(f) \notin Files
(* Headers as their parsers see them. *)
ASSUME AsksAssumption == Asks \subseteq [r : Requests, f : FileInfos]
ASSUME LinksAssumption == Links \subseteq [names : Seq(STRING), slash : BOOLEAN]

VARIABLES
    who,      \* "page", "client" or "ask"
    now,      \* the clock, in half seconds
    events,   \* how much of MaxEvents is used up
    disk,     \* the files: release, time of modification, whether it is there
    branded,  \* the release of brandedFiles["/index.html"], 0 for none
    online,   \* whether the browser has a network
    session,  \* whether it has a valid cookie
    cache,    \* what the service worker has stored, for each URL
    puts,     \* the calls of cache.put, which nobody awaits
    page,     \* the page being loaded
    copy,     \* the client's copy: the release of each byte, Last-Modified
    ask,      \* the request of "ask"
    link,     \* its URL
    latest,   \* history: the URL of the last page to be stored, "/" before
    tainted,  \* history: whether a load was cut short or disturbed, or came
              \* before the puts of another were done, or a put failed
    gap,      \* history: whether main.wasm was asked for and missing
    coarse    \* history: whether a release was no second newer than the last

srvVars  == <<disk, branded>>
netVars  == <<online, session>>
shellVars == <<cache, puts, latest, tainted, gap>>
pageVars == <<shellVars, page>>
askVars  == <<ask, link>>
vars == <<who, now, events, srvVars, netVars, pageVars, copy, askVars, coarse>>

Content(kind, ver) == [kind |-> kind, ver |-> ver]
Nothing == Content("none", 0)
Contents == [kind : {"none", "html", "wasm", "login", "error"}, ver : Releases \cup {0}]

Loading == page.pc \in {"index", "wasm", "checked"}

(* The ranges of the variables; a page that has loaded has both its parts. *)
TypeOK ==
    /\ who \in {"page", "client", "ask"} /\ now \in 0 .. MaxNow /\ events \in 0 .. MaxEvents
    /\ disk \in [{Index, Wasm} -> [ver : Releases, mtime : 0 .. MaxNow, there : BOOLEAN]]
    /\ branded \in Releases \cup {0}
    /\ online \in BOOLEAN /\ session \in BOOLEAN
    /\ cache \in [Keys -> Contents]
    /\ puts \subseteq [key : Keys, content : Contents]
    /\ latest \in Pages
    /\ page.pc \in {"blank", "index", "wasm", "checked", "loaded", "broken"}
    /\ page.pc = "loaded" => {page.index, page.wasm} \subseteq Releases
    /\ Range(copy.bytes) \subseteq Releases
    /\ tainted \in BOOLEAN /\ gap \in BOOLEAN /\ coarse \in BOOLEAN

EmptyPage == [pc |-> "blank", url |-> Home, from |-> Home, index |-> 0, wasm |-> 0,
              calm |-> TRUE]

(* A request without conditions. *)
Plain == [method |-> "GET", im |-> <<>>, ius |-> None, inm |-> <<>>, ims |-> None,
          range |-> <<>>, ifRange |-> None]

NoAsk == [r |-> Plain, f |-> [size |-> 0, mtime |-> 0]]
NoLink == [from |-> URL(<<>>, TRUE), at |-> URL(<<>>, TRUE), hops |-> 0]

Init ==
    /\ who \in {"page", "client", "ask"} /\ now = 0 /\ events = 0
    /\ disk = [n \in {Index, Wasm} |-> [ver |-> 1, mtime |-> 0, there |-> TRUE]]
    /\ branded = 1
    /\ online = TRUE /\ session = TRUE
    /\ cache = [k \in Keys |-> Nothing] /\ puts = {}
    /\ page = EmptyPage /\ latest = Home
    /\ copy = [bytes |-> <<>>, lm |-> None, of |-> 0, done |-> FALSE]
    /\ ask = NoAsk /\ link = NoLink
    /\ tainted = FALSE /\ gap = FALSE /\ coarse = FALSE

-----------------------------------------------------------------------------
(* The site changes. *)

Tick ==
    /\ who = "client" /\ now < MaxNow
    /\ now' = now + 1
    /\ UNCHANGED <<who, events, srvVars, netVars, pageVars, copy, askVars, coarse>>

Event == events < MaxEvents /\ events' = events + 1
Disturb == Event /\ page' = [page EXCEPT !.calm = FALSE]

(* One file is replaced; its time of modification may be any, as archives
   and image layers keep it. *)
Replace(n, t) ==
    /\ who # "ask" /\ disk[n].ver + 1 \in Releases
    /\ t <= now
    /\ disk' = [disk EXCEPT ![n] = [ver |-> @.ver + 1, mtime |-> t, there |-> TRUE]]
    /\ coarse' = (coarse \/ (n = Wasm /\ Sec(t) <= Sec(disk[n].mtime)))
    /\ Disturb
    /\ UNCHANGED <<who, now, branded, netVars, shellVars, copy, askVars>>

(* A file is away while it is being replaced. *)
TakeAway(n) ==
    /\ who = "page" /\ disk[n].there
    /\ disk' = [disk EXCEPT ![n].there = FALSE]
    /\ Disturb
    /\ UNCHANGED <<who, now, branded, netVars, shellVars, copy, askVars, coarse>>

(* loadBranding reads index.html when the proxy starts, and only then. *)
LoadBranding == IF disk[Index].there THEN disk[Index].ver ELSE 0

Restart ==
    /\ who = "page"
    /\ branded' = LoadBranding
    /\ Disturb
    /\ UNCHANGED <<who, now, disk, netVars, shellVars, copy, askVars, coarse>>

(* A new container: all files and the process at once. *)
Redeploy ==
    /\ who = "page" /\ disk[Index].ver = disk[Wasm].ver
    /\ disk[Index].ver + 1 \in Releases
    /\ disk' = [n \in {Index, Wasm} |-> [disk[n] EXCEPT !.ver = @ + 1, !.there = TRUE]]
    /\ branded' = disk[Index].ver + 1
    /\ Disturb
    /\ UNCHANGED <<who, now, netVars, shellVars, copy, askVars, coarse>>

Network ==
    /\ who = "page" /\ online' = ~online
    /\ Disturb
    /\ UNCHANGED <<who, now, srvVars, session, shellVars, copy, askVars, coarse>>

(* The session expires, or the user logs in. *)
Session ==
    /\ who = "page" /\ session' = ~session
    /\ Event
    /\ UNCHANGED <<who, now, srvVars, online, pageVars, copy, askVars, coarse>>

-----------------------------------------------------------------------------
(* The service worker. *)

(* Mutant: the cache is asked before the network. *)
CacheFirst(k) == online /\ cache[k] = Nothing

(* serveFromCache: fetch, and the cache only when that fails. *)
NetworkFirst(k) == online

(* What answers a navigation then: the entry of its own URL, or else of
   /index.html, or else of /. *)
Match(u) ==
    IF cache[u] # Nothing THEN u
    ELSE IF cache[IndexURL] # Nothing THEN IndexURL ELSE Home

Response(ok, content) == [ok |-> ok, content |-> content]

(* Mutant: everything is stored. *)
CacheableAny(resp) == TRUE

(* cachePut: no redirect, no error. *)
Cacheable(resp) == resp.ok

(* The put is begun, and the response returned without waiting for it. *)
CachePut(k, resp) ==
    puts' = IF Cacheable(resp) THEN puts \cup {[key |-> k, content |-> resp.content]} ELSE puts

(* It replaces what was stored under the URL ... *)
PutDone(p) ==
    /\ who = "page" /\ p \in puts
    /\ cache' = [cache EXCEPT ![p.key] = p.content]
    /\ puts' = puts \ {p}
    /\ UNCHANGED <<who, now, events, srvVars, netVars, page, latest, tainted, gap, copy, askVars, coarse>>

(* ... or fails, which nobody learns. *)
PutFails(p) ==
    /\ who = "page" /\ p \in puts
    /\ puts' = puts \ {p}
    /\ tainted' = TRUE
    /\ UNCHANGED <<who, now, events, srvVars, netVars, cache, page, latest, gap, copy, askVars, coarse>>

(* spaFileServer for a navigation: the branded page, or the file. *)
ServeIndex ==
    IF ~session THEN Response(FALSE, Content("login", 0))
    ELSE IF branded # 0 THEN Response(TRUE, Content("html", branded))
    ELSE IF disk[Index].there THEN Response(TRUE, Content("html", disk[Index].ver))
    ELSE Response(FALSE, Content("error", 0))

(* The same for main.wasm when it is not there; the gate refuses what is not a
   navigation. *)
ServeFallback == IF session THEN ServeIndex ELSE Response(FALSE, Content("error", 0))

(* What the proxy serves is of one release. *)
Consistent == branded = disk[Wasm].ver /\ disk[Wasm].there

(* The user opens the page at some URL. *)
Load(u) ==
    /\ who = "page" /\ ~Loading /\ Event
    /\ page' = [EmptyPage EXCEPT !.pc = "index", !.url = u, !.calm = Consistent \/ ~online]
    /\ tainted' = (tainted \/ puts # {})
    /\ UNCHANGED <<who, now, srvVars, netVars, cache, puts, latest, gap, copy, askVars, coarse>>

(* index.html from the disk, and not from memory, is at / only. *)
ToHome == session /\ branded = 0 /\ disk[Index].there /\ page.url = IndexURL

RedirectHome ==
    /\ who = "page" /\ page.pc = "index" /\ online /\ ToHome
    /\ page' = [page EXCEPT !.url = Home]
    /\ UNCHANGED <<who, now, events, srvVars, netVars, shellVars, copy, askVars, coarse>>

(* The browser gets the page, or the login page, or nothing. *)
Arrive(content, k) ==
    page' = [page EXCEPT !.pc = IF content.kind = "html" THEN "wasm" ELSE "broken",
                         !.index = content.ver, !.from = k]

FetchIndex ==
    /\ who = "page" /\ page.pc = "index"
    /\ IF NetworkFirst(page.url)
       THEN /\ ~ToHome
            /\ CachePut(page.url, ServeIndex)
            /\ Arrive(ServeIndex.content, page.url)
            /\ latest' = IF Cacheable(ServeIndex) THEN page.url ELSE latest
       ELSE /\ Arrive(cache[Match(page.url)], Match(page.url))
            /\ UNCHANGED <<puts, latest>>
    /\ tainted' = (tainted \/ ~page.calm)
    /\ UNCHANGED <<who, now, events, srvVars, netVars, cache, gap, copy, askVars, coarse>>

Finish(content) ==
    /\ page' = [page EXCEPT !.pc = IF content.kind = "wasm" THEN "loaded" ELSE "broken",
                            !.wasm = content.ver]
    /\ tainted' = (tainted \/ ~page.calm \/ content.kind # "wasm")

(* The request for main.wasm.  spaFileServer opens the file to see whether it
   is there, and serves the page when it is not. *)
FetchWasm ==
    /\ who = "page" /\ page.pc = "wasm" /\ NetworkFirst(Wasm)
    /\ IF session /\ disk[Wasm].there
       THEN page' = [page EXCEPT !.pc = "checked"] /\ UNCHANGED <<puts, tainted, gap>>
       ELSE /\ CachePut(Wasm, ServeFallback)
            /\ Finish(ServeFallback.content)
            /\ gap' = (gap \/ session)
    /\ UNCHANGED <<who, now, events, srvVars, netVars, cache, latest, copy, askVars, coarse>>

(* It then opens the file again. *)
ServeWasm ==
    LET resp == IF disk[Wasm].there THEN Response(TRUE, Content("wasm", disk[Wasm].ver))
                ELSE Response(FALSE, Content("error", 0))
    IN
    /\ who = "page" /\ page.pc = "checked" /\ online
    /\ CachePut(Wasm, resp)
    /\ Finish(resp.content)
    /\ UNCHANGED <<who, now, events, srvVars, netVars, cache, latest, gap, copy, askVars, coarse>>

(* The fetch fails, and the cache is asked. *)
WasmFromCache ==
    /\ who = "page"
    /\ (page.pc = "wasm" /\ ~NetworkFirst(Wasm)) \/ (page.pc = "checked" /\ ~online)
    /\ Finish(cache[Wasm])
    /\ UNCHANGED <<who, now, events, srvVars, netVars, cache, puts, latest, gap, copy, askVars, coarse>>

(* The page is closed before it has its binary. *)
Leave ==
    /\ who = "page" /\ page.pc \in {"wasm", "checked"}
    /\ page' = EmptyPage /\ tainted' = TRUE
    /\ UNCHANGED <<who, now, events, srvVars, netVars, cache, puts, latest, gap, copy, askVars, coarse>>

-----------------------------------------------------------------------------
(* A client with a copy of main.wasm. *)

(* The answer to a request is put behind the bytes that are kept; any number
   of its bytes arrive before the connection breaks. *)
Ask(r) ==
    LET f == [size |-> Sizes[disk[Wasm].ver], mtime |-> disk[Wasm].mtime]
        resp == ServeContent(r, f)
        kept == IF resp.code = 200 THEN <<>> ELSE copy.bytes
    IN
    /\ \E n \in 0 .. Len(resp.body) :
          copy' = [bytes |-> kept \o [i \in 1 .. n |-> disk[Wasm].ver],
                   lm |-> LastModified(f.mtime), of |-> disk[Wasm].ver,
                   done |-> n = Len(resp.body) /\ resp.code \in {200, 206, 304}]
    /\ UNCHANGED <<who, now, events, srvVars, netVars, pageVars, askVars, coarse>>

Get == who = "client" /\ copy.bytes = <<>> /\ Ask(Plain)

(* The rest of a copy that was cut off, if the file is still the same. *)
Resume ==
    /\ who = "client" /\ copy.bytes # <<>> /\ ~copy.done /\ copy.lm # None
    /\ Ask([Plain EXCEPT !.range = <<From(Len(copy.bytes))>>, !.ifRange = copy.lm])

Revalidate ==
    /\ who = "client" /\ copy.done /\ copy.lm # None
    /\ Ask([Plain EXCEPT !.ims = copy.lm])

-----------------------------------------------------------------------------
(* A single request. *)

Try ==
    /\ who = "ask" /\ ask = NoAsk /\ link = NoLink
    /\ ask' \in Asks
    /\ UNCHANGED <<who, now, events, srvVars, netVars, pageVars, copy, link, coarse>>

Click(u) ==
    /\ who = "ask" /\ ask = NoAsk /\ link = NoLink
    /\ link' = [from |-> u, at |-> u, hops |-> 0]
    /\ UNCHANGED <<who, now, events, srvVars, netVars, pageVars, copy, ask, coarse>>

Redirected ==
    /\ who = "ask" /\ Route(Files, link.at).kind = "redirect"
    /\ link' = [link EXCEPT !.at = Route(Files, @).to, !.hops = @ + 1]
    /\ UNCHANGED <<who, now, events, srvVars, netVars, pageVars, copy, ask, coarse>>

-----------------------------------------------------------------------------
Next ==
    \/ Tick \/ Restart \/ Redeploy \/ Network \/ Session
    \/ \E n \in {Index, Wasm} : TakeAway(n) \/ \E t \in 0 .. MaxNow : Replace(n, t)
    \/ \E p \in puts : PutDone(p) \/ PutFails(p)
    \/ \E u \in Pages : Load(u)
    \/ RedirectHome \/ FetchIndex \/ FetchWasm \/ ServeWasm \/ WasmFromCache \/ Leave
    \/ Get \/ Resume \/ Revalidate
    \/ Try
    \/ \E u \in Links : Click(u)
    \/ Redirected

Spec == Init /\ [][Next]_vars

-----------------------------------------------------------------------------
(* A stored copy, resumed with If-Range and revalidated with
   If-Modified-Since across releases, never mixes two of them, and is what
   the server had when it last answered; unless a release was less than a
   second newer than the one before, which dates cannot tell apart. *)
CopyExact ==
    ~coarse => /\ Range(copy.bytes) \subseteq {copy.of}
               /\ copy.done => Len(copy.bytes) = Sizes[copy.of]

(* "index.html and main.wasm can never drift out of sync after a redeploy"
   (sw.js): they do not when nothing changed at the server or the network
   while the page loaded and the proxy itself served one release; or, from
   the cache alone, when the entry that answers is the page stored last, no
   earlier load was disturbed or cut short, and every put was done before the
   next load and none failed.  (The cache keeps a page for each URL and one
   main.wasm for all: a page that was stored before a redeploy under another
   URL than the last is run with the newer binary.) *)
NoDrift ==
    page.pc = "loaded" /\ page.calm /\ (online \/ (~tainted /\ page.from = latest))
        => page.index = page.wasm

(* cachePut "never stores auth redirects or error responses": a cached
   main.wasm is one, unless the file was asked for while it was missing, when
   the proxy answers with the page and status 200. *)
CacheClean ==
    /\ \A u \in Pages : cache[u].kind \in {"none", "html"}
    /\ cache[Wasm].kind \in {"none", "wasm"} \/ gap

(* parseRange and serveContent send what RFC 7233 says a Range header asks
   for: with 206 the bytes of all satisfiable specs, in their order, except
   that one range that ends before the file does comes without its bytes;
   with 416 nothing could be satisfied or the header was invalid; with 200
   the whole file.  (A HEAD gets no body, and a signed suffix, which parseRange
   accepts, asks for nothing that the RFC knows.  The header counts only when
   If-Range lets it.) *)
RangesPerRFC ==
    LET size == ask.f.size
        h == RangeHeader(ask.r, ask.f.mtime)
        resp == ServeRanges(ask.r, ask.f)
        asked == FlattenSeq([i \in DOMAIN h |-> RefBytes(h[i], size)])
        satisfiable == {i \in DOMAIN h : RefOffsets(h[i], size) # {}}
        signed == \E i \in DOMAIN h : h[i].a < 0
    IN  ask.r.method # "HEAD" /\ ~signed =>
        CASE resp.code = 206 ->
                \/ resp.body = asked
                \/ Cardinality(satisfiable) = 1 /\ Last(asked) < size - 1 /\ resp.body = <<>>
          [] resp.code = 416 ->
                satisfiable = {} \/ \E i \in DOMAIN h : Invalid(h[i], size)
          [] resp.code = 200 ->
                resp.body = Bytes(0, size) /\ (satisfiable = {} \/ Len(asked) > size)

(* "This function carefully follows RFC 7232 section 6": checkPreconditions
   decides as it says for all well-formed headers, but for an If-None-Match
   that ends with a comma, which panics. *)
PreconditionsPerRFC ==
    LET r == ask.r IN
    WellFormed(r.im) /\ WellFormed(r.inm) =>
        \/ CheckPreconditions(r, ask.f.mtime) = RefPreconditions(r, ask.f.mtime)
        \/ r.inm # <<>> /\ \E i \in DOMAIN r.inm :
              r.inm[i] = "comma" /\ \A j \in i + 1 .. Len(r.inm) : r.inm[j] = "space"

(* The redirects of serveFile and the routes of spaFileServer never send a
   browser in circles: two redirects at most, and every file is reached, with
   a slash or without, but the index.html of a directory, which like all else
   ends at the page. *)
LinksLand ==
    /\ link.hops <= 2
    /\ Route(Files, link.at).kind # "redirect" =>
          IF link.from.names \in Files /\ Last(link.from.names) # "index.html"
          THEN Route(Files, link.at) = [kind |-> "file", to |-> URL(link.from.names, FALSE)]
          ELSE Route(Files, link.at).kind = "page"
=============================================================================
