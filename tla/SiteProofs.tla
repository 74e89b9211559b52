----------------------------- MODULE SiteProofs -----------------------------
(***************************************************************************)
(* Proofs about Site for any releases, files, links and clock: what the    *)
(* service worker caches, when the page and its binary are of one release, *)
(* where links end, and what a resumed or revalidated copy holds.          *)
(***************************************************************************)
EXTENDS Site, FiniteSetTheorems, WellFoundedInduction, TLAPS

LEMMA ReleaseNumbers ==
    /\ Releases = 1 .. Len(Sizes) /\ Len(Sizes) \in Nat /\ 1 \in Releases
    /\ \A v \in Releases : v \in Nat /\ v > 0 /\ Sizes[v] \in Nat
<1>1. Sizes \in Seq(Nat) /\ Sizes # <<>>
  BY SizesAssumption
<1>2. Len(Sizes) \in Nat /\ Len(Sizes) # 0 /\ DOMAIN Sizes = 1 .. Len(Sizes)
  BY <1>1
<1> QED
  BY <1>1, <1>2 DEF Releases

-----------------------------------------------------------------------------
(* The ranges of what the server and the page keep. *)

(* A page or a binary that was cached or loaded is of some release. *)
Versioned(content) == content.kind \in {"html", "wasm"} => content.ver \in Releases

ServerTyped ==
    /\ who \in {"page", "client", "ask"} /\ now \in 0 .. MaxNow /\ events \in 0 .. MaxEvents
    /\ disk \in [{Index, Wasm} -> [ver : Releases, mtime : 0 .. MaxNow, there : BOOLEAN]]
    /\ branded \in Releases \cup {0}
    /\ online \in BOOLEAN /\ session \in BOOLEAN
    /\ tainted \in BOOLEAN /\ gap \in BOOLEAN /\ coarse \in BOOLEAN

PageRecords ==
    [pc : {"blank", "index", "wasm", "checked", "loaded", "broken"}, url : Pages, from : Pages,
     index : Releases \cup {0}, wasm : Releases \cup {0}, calm : BOOLEAN]

PageTyped ==
    /\ cache \in [Keys -> Contents] /\ \A k \in Keys : Versioned(cache[k])
    /\ puts \subseteq [key : Keys, content : Contents] /\ \A p \in puts : Versioned(p.content)
    /\ latest \in Pages
    /\ page \in PageRecords
    /\ page.pc \in {"wasm", "checked", "loaded"} => page.index \in Releases
    /\ page.pc = "loaded" => page.wasm \in Releases

(* What is on its way into the cache is as clean as what is there. *)
PutsClean ==
    \A p \in puts : IF p.key = Wasm THEN p.content.kind = "wasm" \/ gap
                    ELSE p.content.kind = "html"

(* c is what the cache has for k once the puts are done. *)
Due(k, c) ==
    IF \E p \in puts : p.key = k THEN \E p \in puts : p.key = k /\ p.content = c
    ELSE cache[k] = c

OnePut == \A p, q \in puts : p.key = q.key => p = q

(* The page stored last and the binary are then of one release, if both are
   there. *)
Synced ==
    \A c, d \in Contents : Due(latest, c) /\ Due(Wasm, d) =>
        (c.kind = "html" /\ d.kind = "wasm" => c.ver = d.ver)

Halfway == page.pc \in {"wasm", "checked"}

(* The page of an undisturbed load that has come to its half is the one that
   is stored, or is on its way there, under the URL stored last; or, offline,
   the one under the URL that answered. *)
HalfStored ==
    LET html == Content("html", page.index) IN
    IF online
    THEN /\ \A p \in puts : p.key = latest /\ p.content = html
         /\ puts = {} => cache[latest] = html
    ELSE puts = {} /\ cache[page.from] = html

(* A load that nothing disturbed finds the server as it was when it began.
   Until a load is disturbed, and while puts are done in time, a load begins
   with all puts done, the page is stored as HalfStored says, and the cache
   gets in step but for the time in which a load has fetched one of its two
   parts. *)
LoadInv ==
    /\ Loading /\ page.calm /\ online => Consistent
    /\ Halfway /\ page.calm /\ online => page.index = branded
    /\ ~tainted => OnePut
    /\ ~tainted /\ page.pc = "index" => puts = {}
    /\ ~tainted /\ Halfway /\ page.calm => HalfStored
    /\ ~tainted /\ ~(Halfway /\ (online \/ ~page.calm)) => Synced
    /\ NoDrift

PageState == PageTyped /\ CacheClean /\ PutsClean /\ LoadInv

-----------------------------------------------------------------------------
(* Where a link has got to: the redirect of a file asked for with a slash,
   that of an index.html to its directory, or the second after the first. *)

URLs == [names : Seq(STRING), slash : BOOLEAN]

AfterHops(l) ==
    \/ l.hops = 0 /\ l.at = l.from
    \/ /\ l.hops = 1 /\ l.from.slash /\ l.from.names \in Files
       /\ l.at = URL(l.from.names, FALSE)
    \/ /\ l.hops \in {1, 2} /\ l.from.names \in Files /\ Last(l.from.names) = "index.html"
       /\ l.at = URL(Front(l.from.names), TRUE)

LinkInv ==
    /\ link \in [from : URLs, at : URLs, hops : Nat]
    /\ AfterHops(link)

-----------------------------------------------------------------------------
(* A copy is of the release that was last served, whose date tells it from
   every later one. *)

CopyTyped ==
    /\ copy \in [bytes : Seq(Releases), lm : Nat \cup {None}, of : Releases \cup {0},
                 done : BOOLEAN]
    /\ copy.of = 0 => copy.bytes = <<>> /\ ~copy.done
    /\ who # "client" => copy.of = 0

Dated(c, d) ==
    c.of # 0 =>
        /\ c.of <= d.ver
        /\ c.of = d.ver => c.lm = LastModified(d.mtime)
        /\ c.of < d.ver => c.lm < Sec(d.mtime)

Exact(c) ==
    /\ \A i \in 1 .. Len(c.bytes) : c.bytes[i] = c.of
    /\ c.done => Len(c.bytes) = Sizes[c.of]

CopyInv == CopyTyped /\ (~coarse => Dated(copy, disk[Wasm]) /\ Exact(copy))

-----------------------------------------------------------------------------
(* Types of the server. *)

LEMMA ServerTypedInit == Init => ServerTyped
<1> SUFFICES ASSUME Init PROVE ServerTyped
  OBVIOUS
<1>1. disk \in [{Index, Wasm} -> [ver : Releases, mtime : 0 .. MaxNow, there : BOOLEAN]]
  BY ReleaseNumbers, BoundAssumption DEF Init
<1>2. now \in 0 .. MaxNow /\ events \in 0 .. MaxEvents /\ branded \in Releases \cup {0}
  BY ReleaseNumbers, BoundAssumption DEF Init
<1> QED
  BY <1>1, <1>2 DEF Init, ServerTyped

LEMMA ServerTypedStep == ServerTyped /\ [Next]_vars => ServerTyped'
<1> SUFFICES ASSUME ServerTyped, [Next]_vars PROVE ServerTyped'
  OBVIOUS
<1> USE DEF ServerTyped
<1>1. CASE UNCHANGED vars
  BY <1>1 DEF vars, srvVars, netVars, pageVars, shellVars
<1>2. CASE Tick
  BY <1>2, BoundAssumption DEF Tick, srvVars, netVars, pageVars, shellVars
<1>3. CASE Restart
  BY <1>3, BoundAssumption DEF Restart, LoadBranding, netVars, shellVars, Disturb, Event, Index
<1>4. CASE Redeploy
  <2>1. events' \in 0 .. MaxEvents
    BY <1>4, BoundAssumption DEF Redeploy, Disturb, Event
  <2>2. /\ branded' \in Releases
        /\ disk' \in [{Index, Wasm} -> [ver : Releases, mtime : 0 .. MaxNow, there : BOOLEAN]]
    BY <1>4 DEF Redeploy
  <2> QED BY <1>4, <2>1, <2>2 DEF Redeploy, netVars, shellVars
<1>5. CASE Network
  BY <1>5, BoundAssumption DEF Network, srvVars, shellVars, Disturb, Event
<1>6. CASE Session
  BY <1>6, BoundAssumption DEF Session, Event, srvVars, pageVars, shellVars
<1>7. ASSUME NEW n \in {Index, Wasm}, TakeAway(n) PROVE ServerTyped'
  <2>1. events' \in 0 .. MaxEvents
    BY <1>7, BoundAssumption DEF TakeAway, Disturb, Event
  <2>2. disk' \in [{Index, Wasm} -> [ver : Releases, mtime : 0 .. MaxNow, there : BOOLEAN]]
    BY <1>7 DEF TakeAway
  <2> QED BY <1>7, <2>1, <2>2 DEF TakeAway, netVars, shellVars
<1>8. ASSUME NEW n \in {Index, Wasm}, NEW t \in 0 .. MaxNow, Replace(n, t) PROVE ServerTyped'
  BY <1>8, BoundAssumption DEF Replace, netVars, shellVars, Disturb, Event
<1>9. ASSUME NEW u, Load(u) PROVE ServerTyped'
  <2>1. tainted' \in BOOLEAN
    BY <1>9 DEF Load
  <2> QED BY <1>9, <2>1, BoundAssumption DEF Load, Event, srvVars, netVars
<1>10. CASE FetchIndex
  <2>1. tainted' \in BOOLEAN
    BY <1>10 DEF FetchIndex
  <2> QED BY <1>10, <2>1 DEF FetchIndex, srvVars, netVars
<1>11. CASE FetchWasm
  <2>1. tainted' \in BOOLEAN /\ gap' \in BOOLEAN
    BY <1>11 DEF FetchWasm, Finish
  <2> QED BY <1>11, <2>1 DEF FetchWasm, srvVars, netVars
<1>12. CASE ServeWasm
  <2>1. tainted' \in BOOLEAN
    BY <1>12 DEF ServeWasm, Finish
  <2> QED BY <1>12, <2>1 DEF ServeWasm, srvVars, netVars
<1>13. CASE WasmFromCache
  <2>1. tainted' \in BOOLEAN
    BY <1>13 DEF WasmFromCache, Finish
  <2> QED BY <1>13, <2>1 DEF WasmFromCache, srvVars, netVars
<1>14. CASE Leave
  BY <1>14 DEF Leave, srvVars, netVars
<1>15. ASSUME NEW r, Ask(r) PROVE ServerTyped'
  BY <1>15 DEF Ask, srvVars, netVars, pageVars, shellVars
<1>16. CASE Try
  BY <1>16 DEF Try, srvVars, netVars, pageVars, shellVars
<1>17. ASSUME NEW u, Click(u) PROVE ServerTyped'
  BY <1>17 DEF Click, srvVars, netVars, pageVars, shellVars
<1>18. CASE Redirected
  BY <1>18 DEF Redirected, srvVars, netVars, pageVars, shellVars
<1>19. ASSUME NEW p, PutDone(p) \/ PutFails(p) PROVE ServerTyped'
  BY <1>19 DEF PutDone, PutFails, srvVars, netVars
<1>20. CASE RedirectHome
  BY <1>20 DEF RedirectHome, srvVars, netVars, shellVars
<1> HIDE DEF ServerTyped
<1> QED
  BY <1>1, <1>2, <1>3, <1>4, <1>5, <1>6, <1>7, <1>8, <1>9, <1>10, <1>11, <1>12, <1>13,
     <1>14, <1>15, <1>16, <1>17, <1>18, <1>19, <1>20 DEF Next, Get, Resume, Revalidate

-----------------------------------------------------------------------------
(* What the server answers. *)

LEMMA ServedIndex ==
    ServerTyped =>
        /\ ServeIndex.content \in Contents /\ Versioned(ServeIndex.content)
        /\ ServeIndex.ok <=> ServeIndex.content.kind = "html"
        /\ ServeIndex.content.kind # "wasm"
        /\ ServeIndex.content.kind = "html" /\ branded # 0 => ServeIndex.content.ver = branded
  BY ReleaseNumbers DEF ServerTyped, ServeIndex, Response, Content, Contents, Versioned, Index

LEMMA ServedFallback ==
    ServerTyped =>
        /\ ServeFallback.content \in Contents /\ Versioned(ServeFallback.content)
        /\ ServeFallback.content.kind # "wasm"
        /\ ServeFallback.ok <=> session /\ ServeFallback.content.kind = "html"
  BY ServedIndex DEF ServeFallback, Response, Content, Contents, Versioned

-----------------------------------------------------------------------------
(* The page and the cache.  What the steps of others do to them is nothing, or
   to disturb the load. *)

LEMMA Quiet ==
    ASSUME PageState, UNCHANGED <<shellVars, page, disk, branded, online>>
    PROVE  PageState'
<1> USE DEF shellVars
<1>1. PageTyped' /\ CacheClean' /\ PutsClean'
  BY DEF PageState, PageTyped, Versioned, CacheClean, PutsClean
<1>2. (OnePut <=> OnePut') /\ (HalfStored <=> HalfStored') /\ (Synced <=> Synced')
  BY DEF OnePut, HalfStored, Synced, Due
<1>3. LoadInv'
  BY <1>2 DEF PageState, LoadInv, NoDrift, Halfway, Loading, Consistent
<1> QED
  BY <1>1, <1>3 DEF PageState

LEMMA Disturbed ==
    ASSUME PageState, Disturb, UNCHANGED shellVars
    PROVE  PageState'
<1> USE DEF PageState, shellVars
<1>1. /\ page' \in PageRecords
      /\ page'.calm = FALSE /\ page'.pc = page.pc
      /\ page'.index = page.index /\ page'.wasm = page.wasm
  BY DEF Disturb, PageTyped, PageRecords
<1>2. PageTyped'
  BY <1>1 DEF Versioned, PageTyped
<1>3. CacheClean' /\ PutsClean'
  BY DEF CacheClean, PutsClean
<1>4. (OnePut <=> OnePut') /\ (Synced <=> Synced')
  BY DEF OnePut, Synced, Due
<1>5. LoadInv'
  BY <1>1, <1>4 DEF LoadInv, NoDrift, Halfway
<1> QED
  BY <1>2, <1>3, <1>5

LEMMA PageInit == Init => PageState
<1> SUFFICES ASSUME Init PROVE PageState
  OBVIOUS
<1>1. /\ cache \in [Keys -> Contents] /\ \A k \in Keys : cache[k] = Nothing
      /\ Nothing.kind = "none" /\ puts = {}
  BY DEF Init, Nothing, Content, Contents
<1>2. page \in PageRecords /\ page.pc = "blank" /\ latest \in Pages
  BY PagesAssumption DEF Init, EmptyPage, PageRecords
<1>3. PageTyped /\ CacheClean /\ PutsClean
  BY <1>1, <1>2 DEF PageTyped, CacheClean, PutsClean, Versioned, Keys
<1>4. Synced /\ OnePut
  BY <1>1, <1>2 DEF Synced, Due, OnePut, Keys
<1>5. LoadInv
  BY <1>1, <1>2, <1>4 DEF LoadInv, NoDrift, Halfway, Loading
<1> QED
  BY <1>3, <1>5 DEF PageState

LEMMA LoadStep ==
    ASSUME PageState, NEW u \in Pages, Load(u) PROVE PageState'
<1> USE DEF PageState
<1>1. /\ page'.pc = "index" /\ page'.index = 0 /\ page'.wasm = 0
      /\ page'.calm = (Consistent \/ ~online)
      /\ page' \in PageRecords
  BY PagesAssumption DEF Load, EmptyPage, PageRecords
<1>2. /\ UNCHANGED <<cache, puts, latest, gap, disk, branded, online>> /\ ~Loading
      /\ tainted' = (tainted \/ puts # {})
  BY DEF Load, srvVars, netVars
<1>3. PageTyped'
  BY <1>1, <1>2 DEF PageTyped, Versioned
<1>4. CacheClean' /\ PutsClean'
  BY <1>2 DEF CacheClean, PutsClean
<1>5. (OnePut <=> OnePut') /\ (Synced <=> Synced')
  BY <1>2 DEF OnePut, Synced, Due
<1>6. LoadInv'
  BY <1>1, <1>2, <1>5 DEF LoadInv, NoDrift, Halfway, Loading, Consistent
<1> QED
  BY <1>3, <1>4, <1>6

LEMMA RedirectStep ==
    ASSUME PageState, RedirectHome PROVE PageState'
<1> USE DEF PageState
<1>1. /\ page.pc = "index" /\ page'.pc = "index" /\ page'.calm = page.calm
      /\ page' \in PageRecords
  BY PagesAssumption DEF RedirectHome, PageTyped, PageRecords
<1>2. UNCHANGED <<cache, puts, latest, tainted, gap, disk, branded, online>>
  BY DEF RedirectHome, shellVars, srvVars, netVars
<1>3. PageTyped'
  BY <1>1, <1>2 DEF PageTyped, Versioned
<1>4. CacheClean' /\ PutsClean'
  BY <1>2 DEF CacheClean, PutsClean
<1>5. (OnePut <=> OnePut') /\ (Synced <=> Synced')
  BY <1>2 DEF OnePut, Synced, Due
<1>6. LoadInv'
  BY <1>1, <1>2, <1>5 DEF LoadInv, NoDrift, Halfway, Loading, Consistent
<1> QED
  BY <1>3, <1>4, <1>6

(* A put that is done gives the cache what was due to it anyway. *)
LEMMA PutDoneStep ==
    ASSUME PageState, NEW p \in puts, PutDone(p) PROVE PageState'
<1> USE DEF PageState
<1>1. /\ cache' = [cache EXCEPT ![p.key] = p.content] /\ puts' = puts \ {p}
      /\ UNCHANGED <<page, latest, tainted, gap, disk, branded, online>>
      /\ p.key \in Keys /\ p.content \in Contents /\ cache \in [Keys -> Contents]
  BY DEF PutDone, PageTyped, srvVars, netVars
<1>2. \A k \in Keys : cache'[k] = IF k = p.key THEN p.content ELSE cache[k]
  BY <1>1
<1>3. PageTyped'
  BY <1>1, <1>2 DEF PageTyped, Versioned
<1>4. CacheClean' /\ PutsClean'
  BY <1>1, <1>2, PagesAssumption DEF CacheClean, PutsClean, Keys
<1>5. OnePut => OnePut' /\ \A k \in Keys, c \in Contents : Due(k, c)' => Due(k, c)
  BY <1>1, <1>2 DEF OnePut, Due
<1>6. OnePut /\ Synced => Synced'
  <2>1. latest \in Keys /\ Wasm \in Keys
    BY DEF PageTyped, Keys
  <2> QED
    BY <1>1, <1>5, <2>1 DEF Synced
<1>7. OnePut /\ HalfStored => HalfStored'
  <2> SUFFICES ASSUME OnePut, HalfStored PROVE HalfStored'
    OBVIOUS
  <2>1. online /\ p.key = latest /\ p.content = Content("html", page.index)
    BY DEF HalfStored
  <2>2. puts' = {}
    BY <1>1, <2>1 DEF OnePut, HalfStored
  <2>3. cache'[latest] = Content("html", page.index)
    BY <1>1, <1>2, <2>1
  <2> QED
    BY <1>1, <2>1, <2>2, <2>3 DEF HalfStored
<1>8. LoadInv'
  BY <1>1, <1>5, <1>6, <1>7 DEF LoadInv, NoDrift, Halfway, Loading, Consistent
<1> QED
  BY <1>3, <1>4, <1>8

LEMMA PutFailsStep ==
    ASSUME PageState, NEW p \in puts, PutFails(p) PROVE PageState'
<1> USE DEF PageState
<1>1. /\ puts' = puts \ {p} /\ tainted' = TRUE
      /\ UNCHANGED <<cache, page, latest, gap, disk, branded, online>>
  BY DEF PutFails, srvVars, netVars
<1>2. PageTyped' /\ CacheClean' /\ PutsClean'
  BY <1>1 DEF PageTyped, Versioned, CacheClean, PutsClean
<1>3. LoadInv'
  BY <1>1 DEF LoadInv, NoDrift, Halfway, Loading, Consistent
<1> QED
  BY <1>2, <1>3

LEMMA FetchIndexStep ==
    ASSUME ServerTyped, PageState, FetchIndex PROVE PageState'
<1> USE DEF PageState
<1> DEFINE k == IF online THEN page.url ELSE Match(page.url)
           got == IF online THEN ServeIndex.content ELSE cache[k]
           put == online /\ got.kind = "html"
<1>1. page' = [page EXCEPT !.pc = IF got.kind = "html" THEN "wasm" ELSE "broken",
                           !.index = got.ver, !.from = k]
  BY DEF FetchIndex, NetworkFirst, Arrive
<1>2. /\ page.pc = "index" /\ tainted' = (tainted \/ ~page.calm)
      /\ UNCHANGED <<disk, branded, online, gap, cache>>
  BY DEF FetchIndex, srvVars, netVars
<1>k. k \in Pages /\ page.url \in Pages /\ page \in PageRecords
  BY PagesAssumption DEF Match, PageTyped, PageRecords
<1>3. /\ got \in Contents /\ Versioned(got) /\ got.kind # "wasm"
      /\ online => (ServeIndex.ok <=> got.kind = "html")
      /\ online /\ got.kind = "html" /\ branded # 0 => got.ver = branded
      /\ ~online => got = cache[k]
  <2>1. CASE online
    BY <2>1, ServedIndex
  <2>2. CASE ~online
    <3>1. k \in Keys
      BY <1>k DEF Keys
    <3> QED BY <3>1, <2>2, <1>k DEF PageTyped, CacheClean
  <2> QED BY <2>1, <2>2 DEF ServerTyped
<1>4. /\ puts' = IF put THEN puts \cup {[key |-> k, content |-> got]} ELSE puts
      /\ latest' = IF put THEN k ELSE latest
  <2>1. CASE online
    BY <2>1, <1>3 DEF FetchIndex, NetworkFirst, CachePut, Cacheable
  <2>2. CASE ~online
    BY <2>2 DEF FetchIndex, NetworkFirst
  <2> QED BY <2>1, <2>2 DEF ServerTyped
<1> HIDE DEF k, got
<1>5. /\ page'.pc = (IF got.kind = "html" THEN "wasm" ELSE "broken")
      /\ page'.index = got.ver /\ page'.calm = page.calm /\ page'.from = k
      /\ page' \in PageRecords
  BY <1>1, <1>3, <1>k DEF PageRecords, Contents
<1>6. PageTyped'
  BY <1>2, <1>3, <1>4, <1>5, <1>k DEF PageTyped, Versioned, Keys
<1>7. CacheClean' /\ PutsClean'
  BY <1>2, <1>4, <1>k, PagesAssumption DEF CacheClean, PutsClean
<1>8. got.kind = "html" => got = Content("html", got.ver)
  BY <1>3 DEF Contents, Content
<1>9. page.calm /\ online => branded # 0
  BY <1>2, ReleaseNumbers DEF LoadInv, Loading, Consistent, ServerTyped, Index, Wasm
<1>10. ~tainted' => ~tainted /\ page.calm /\ puts = {} /\ Synced
  BY <1>2 DEF LoadInv, Halfway
<1>11. LoadInv'
  <2>1. (Loading /\ page.calm /\ online => Consistent)'
    BY <1>2, <1>5 DEF LoadInv, Loading, Consistent
  <2>2. (Halfway /\ page.calm /\ online => page.index = branded)'
    BY <1>2, <1>3, <1>5, <1>9 DEF Halfway
  <2>3. ~tainted' => OnePut'
    BY <1>4, <1>10 DEF OnePut
  <2>4. page'.pc # "index"
    BY <1>5
  <2>5. ~tainted' /\ Halfway' => HalfStored'
    <3> SUFFICES ASSUME ~tainted', Halfway' PROVE HalfStored'
      OBVIOUS
    <3>1. got = Content("html", page'.index) /\ got.kind = "html"
      BY <1>5, <1>8 DEF Halfway
    <3>2. CASE online
      <4>1. /\ puts' = {[key |-> k, content |-> got]} /\ latest' = k /\ online'
        BY <3>1, <3>2, <1>2, <1>4, <1>10
      <4>2. puts' # {} /\ \A p \in puts' : p.key = latest' /\ p.content = got
        BY <4>1
      <4> QED BY <3>1, <4>1, <4>2 DEF HalfStored
    <3>3. CASE ~online
      BY <3>1, <3>3, <1>2, <1>3, <1>4, <1>5, <1>10 DEF HalfStored
    <3> QED BY <3>2, <3>3
  <2>6. (~tainted /\ ~(Halfway /\ (online \/ ~page.calm)) => Synced)'
    <3> SUFFICES ASSUME ~tainted', ~(Halfway /\ (online \/ ~page.calm))' PROVE Synced'
      OBVIOUS
    <3>1. ~put
      BY <1>2, <1>5 DEF Halfway
    <3> QED
      BY <3>1, <1>2, <1>4, <1>10 DEF Synced, Due
  <2>7. NoDrift'
    BY <1>5 DEF NoDrift
  <2> QED
    BY <2>1, <2>2, <2>3, <2>4, <2>5, <2>6, <2>7 DEF LoadInv
<1> QED
  BY <1>6, <1>7, <1>11

(* The load ends with some content for main.wasm, from the server, when a put
   of it may begin, or from the cache. *)
LEMMA Finished ==
    ASSUME ServerTyped, PageState, Halfway,
           NEW content \in Contents, Versioned(content), Finish(content),
           UNCHANGED <<disk, branded, online, cache, latest>>, gap => gap',
           NEW put \in BOOLEAN,
           puts' = IF put THEN puts \cup {[key |-> Wasm, content |-> content]} ELSE puts,
           put => content.kind = "wasm" \/ gap',
           content.kind = "wasm" =>
              IF online THEN content.ver = disk[Wasm].ver /\ put
              ELSE content = cache[Wasm] /\ ~put
    PROVE  PageState'
<1> USE DEF PageState
<1>1. /\ page' = [page EXCEPT !.pc = IF content.kind = "wasm" THEN "loaded" ELSE "broken",
                              !.wasm = content.ver]
      /\ tainted' = (tainted \/ ~page.calm \/ content.kind # "wasm")
  BY DEF Finish
<1>2. /\ page'.pc = (IF content.kind = "wasm" THEN "loaded" ELSE "broken")
      /\ page'.wasm = content.ver /\ page'.index = page.index /\ page'.calm = page.calm
      /\ page'.from = page.from /\ page' \in PageRecords
  BY <1>1 DEF PageTyped, PageRecords, Contents
<1>3. PageTyped'
  BY <1>2 DEF PageTyped, Versioned, Halfway, Keys
<1>4. CacheClean' /\ PutsClean'
  BY DEF CacheClean, PutsClean
<1>5. page.calm /\ online => page.index = disk[Wasm].ver
  BY DEF LoadInv, Halfway, Loading, Consistent
<1>6. ~tainted' => /\ ~tainted /\ page.calm /\ content.kind = "wasm" /\ HalfStored /\ OnePut
                   /\ ~online => Synced
  BY <1>1 DEF LoadInv
<1>7. latest # Wasm /\ latest \in Pages
  BY PagesAssumption DEF PageTyped
<1>8. LET html == Content("html", page.index) IN
      html.kind = "html" /\ html.ver = page.index
  BY DEF Content
<1>9. ~tainted' => OnePut' /\ Synced'
  <2> SUFFICES ASSUME ~tainted' PROVE OnePut' /\ Synced'
    OBVIOUS
  <2>1. CASE online
    <3>1. put /\ puts' = puts \cup {[key |-> Wasm, content |-> content]}
      BY <1>6, <2>1
    <3>2. \A p \in puts : p.key = latest
      BY <1>6, <2>1 DEF HalfStored
    <3>3. OnePut'
      BY <3>1, <3>2, <1>6, <1>7 DEF OnePut
    <3>4. \A d \in Contents : Due(Wasm, d)' => d = content
      <4> DEFINE q == [key |-> Wasm, content |-> content]
      <4>1. q \in puts' /\ q.key = Wasm
        BY <3>1
      <4>2. \A p \in puts' : p.key = Wasm => p.content = content
        BY <3>1, <3>2, <1>7
      <4> HIDE DEF q
      <4> QED BY <4>1, <4>2 DEF Due
    <3>5. \A c \in Contents : Due(latest, c)' => c = Content("html", page.index)
      BY <3>1, <3>2, <1>6, <1>7, <2>1 DEF Due, HalfStored
    <3> QED
      BY <3>3, <3>4, <3>5, <1>5, <1>6, <1>8, <2>1 DEF Synced
  <2>2. CASE ~online
    <3>1. puts' = puts
      BY <1>6, <2>2
    <3> QED
      BY <3>1, <1>6, <2>2 DEF OnePut, Synced, Due
  <2> QED BY <2>1, <2>2 DEF ServerTyped
<1>10. NoDrift'
  <2> SUFFICES ASSUME content.kind = "wasm", page.calm,
                      online \/ (~tainted' /\ page.from = latest)
               PROVE  page.index = content.ver
    BY <1>2 DEF NoDrift
  <2>1. CASE online
    BY <2>1, <1>5
  <2>2. CASE ~online
    <3>1. cache[latest] = Content("html", page.index) /\ puts = {} /\ content = cache[Wasm]
      BY <2>2, <1>6 DEF HalfStored
    <3>2. Due(latest, cache[latest]) /\ Due(Wasm, cache[Wasm])
      BY <3>1 DEF Due
    <3>3. cache[latest] \in Contents /\ cache[Wasm] \in Contents
      BY <1>7 DEF PageTyped, Keys
    <3> QED
      BY <3>1, <3>2, <3>3, <2>2, <1>6, <1>8 DEF Synced
  <2> QED BY <2>1, <2>2 DEF ServerTyped
<1>11. ~Halfway' /\ ~Loading' /\ page'.pc # "index"
  BY <1>2 DEF Halfway, Loading
<1>12. LoadInv'
  BY <1>9, <1>10, <1>11 DEF LoadInv
<1> QED
  BY <1>3, <1>4, <1>12

LEMMA FetchWasmStep ==
    ASSUME ServerTyped, PageState, FetchWasm PROVE PageState'
<1>1. /\ page.pc = "wasm" /\ online
      /\ UNCHANGED <<disk, branded, online, cache, latest>>
  BY DEF FetchWasm, NetworkFirst, srvVars, netVars
<1>2. CASE session /\ disk[Wasm].there
  <2>1. page' = [page EXCEPT !.pc = "checked"] /\ UNCHANGED <<puts, tainted, gap>>
    BY <1>2 DEF FetchWasm
  <2>2. /\ page'.pc = "checked" /\ page'.index = page.index /\ page'.wasm = page.wasm
        /\ page'.calm = page.calm /\ page' \in PageRecords
    BY <2>1 DEF PageState, PageTyped, PageRecords
  <2>3. PageTyped'
    BY <1>1, <2>1, <2>2 DEF PageState, PageTyped, Versioned
  <2>4. CacheClean' /\ PutsClean'
    BY <1>1, <2>1 DEF PageState, CacheClean, PutsClean
  <2>5. (OnePut <=> OnePut') /\ (HalfStored => HalfStored')
    BY <1>1, <2>1, <2>2 DEF OnePut, HalfStored
  <2>6. LoadInv'
    BY <1>1, <2>1, <2>2, <2>5 DEF PageState, LoadInv, NoDrift, Halfway, Loading, Consistent
  <2> QED
    BY <2>3, <2>4, <2>6 DEF PageState
<1>3. CASE ~(session /\ disk[Wasm].there)
  <2> DEFINE content == ServeFallback.content
             put == session /\ content.kind = "html"
  <2>1. /\ puts' = IF ServeFallback.ok THEN puts \cup {[key |-> Wasm, content |-> content]}
                   ELSE puts
        /\ Finish(content) /\ gap' = (gap \/ session)
    BY <1>3 DEF FetchWasm, CachePut, Cacheable
  <2>2. /\ content \in Contents /\ Versioned(content) /\ content.kind # "wasm"
        /\ ServeFallback.ok <=> put
    BY ServedFallback
  <2> HIDE DEF content
  <2>3. /\ put \in BOOLEAN /\ put => gap'
        /\ puts' = IF put THEN puts \cup {[key |-> Wasm, content |-> content]} ELSE puts
    BY <2>1, <2>2 DEF ServerTyped
  <2>4. gap => gap'
    BY <2>1
  <2>5. Halfway
    BY <1>1 DEF Halfway
  <2> HIDE DEF put
  <2> QED
    BY <1>1, <2>1, <2>2, <2>3, <2>4, <2>5, Finished
<1> QED
  BY <1>2, <1>3

LEMMA ServeWasmStep ==
    ASSUME ServerTyped, PageState, ServeWasm PROVE PageState'
<1> DEFINE content == IF disk[Wasm].there THEN Content("wasm", disk[Wasm].ver)
                      ELSE Content("error", 0)
           put == disk[Wasm].there
<1>1. /\ page.pc = "checked" /\ online
      /\ UNCHANGED <<disk, branded, online, cache, latest, gap>>
  BY DEF ServeWasm, srvVars, netVars
<1>2. /\ puts' = IF put THEN puts \cup {[key |-> Wasm, content |-> content]} ELSE puts
      /\ Finish(content)
  BY DEF ServeWasm, CachePut, Cacheable, Response
<1>3. /\ content \in Contents /\ Versioned(content)
      /\ content.kind = (IF put THEN "wasm" ELSE "error")
      /\ put => content.ver = disk[Wasm].ver
      /\ put \in BOOLEAN
  BY DEF ServerTyped, Contents, Content, Versioned
<1> HIDE DEF content, put
<1>4. Halfway
  BY <1>1 DEF Halfway
<1>5. /\ gap => gap'
      /\ put => content.kind = "wasm" \/ gap'
      /\ content.kind = "wasm" =>
            IF online THEN content.ver = disk[Wasm].ver /\ put
            ELSE content = cache[Wasm] /\ ~put
  BY <1>1, <1>3
<1> QED
  BY <1>1, <1>2, <1>3, <1>4, <1>5, Finished

LEMMA WasmFromCacheStep ==
    ASSUME ServerTyped, PageState, WasmFromCache PROVE PageState'
<1>1. /\ ~online /\ Halfway /\ Finish(cache[Wasm])
      /\ UNCHANGED <<disk, branded, online, cache, puts, latest, gap>>
  BY DEF WasmFromCache, NetworkFirst, Halfway, srvVars, netVars
<1>2. cache[Wasm] \in Contents /\ Versioned(cache[Wasm])
  BY DEF PageState, PageTyped, Keys
<1>3. FALSE \in BOOLEAN
  OBVIOUS
<1> QED
  BY <1>1, <1>2, <1>3, Finished

LEMMA LeaveStep ==
    ASSUME PageState, Leave PROVE PageState'
<1>1. /\ page'.pc = "blank" /\ page'.index = 0 /\ page'.wasm = 0 /\ tainted'
      /\ page' \in PageRecords
      /\ UNCHANGED <<cache, puts, latest, gap>>
  BY PagesAssumption DEF Leave, EmptyPage, PageRecords
<1>2. PageTyped'
  BY <1>1 DEF PageState, PageTyped, Versioned
<1>3. CacheClean' /\ PutsClean'
  BY <1>1 DEF PageState, CacheClean, PutsClean
<1>4. LoadInv'
  BY <1>1 DEF LoadInv, NoDrift, Halfway, Loading
<1> QED
  BY <1>2, <1>3, <1>4 DEF PageState

LEMMA PageStep == ServerTyped /\ PageState /\ [Next]_vars => PageState'
<1> SUFFICES ASSUME ServerTyped, PageState, [Next]_vars PROVE PageState'
  OBVIOUS
<1>1. CASE UNCHANGED vars
  BY <1>1, Quiet DEF vars, srvVars, netVars, pageVars
<1>2. CASE Tick \/ Session \/ (\E r : Ask(r)) \/ Try \/ (\E u : Click(u)) \/ Redirected
  <2>1. UNCHANGED <<shellVars, page, disk, branded, online>>
    BY <1>2 DEF Tick, Session, Ask, Try, Click, Redirected, srvVars, netVars, pageVars
  <2> QED
    BY <2>1, Quiet
<1>3. CASE Restart \/ Redeploy \/ Network \/ (\E n : TakeAway(n)) \/ (\E n, t : Replace(n, t))
  <2>1. Disturb /\ UNCHANGED shellVars
    BY <1>3 DEF Restart, Redeploy, Network, TakeAway, Replace
  <2> QED
    BY <2>1, Disturbed
<1> QED
  BY <1>1, <1>2, <1>3, LoadStep, RedirectStep, PutDoneStep, PutFailsStep, FetchIndexStep,
     FetchWasmStep, ServeWasmStep, WasmFromCacheStep, LeaveStep DEF Next, Get, Resume, Revalidate

(* cachePut never stores a login page, a redirect or an error, and what it
   stores for main.wasm is one unless the file was asked for while it was
   away: whatever the releases, restarts, sessions and networks. *)
THEOREM CacheCleanHolds == Spec => []CacheClean
<1>1. PageState => CacheClean
  BY DEF PageState
<1> QED
  BY <1>1, ServerTypedInit, PageInit, ServerTypedStep, PageStep, PTL DEF Spec

(* sw.js: index.html and main.wasm of a loaded page are of one release, for
   any number of releases and of URLs, when the load was not disturbed; or,
   from the cache, when the entry that answers is the page stored last, no
   load before was disturbed, and all puts were done in time. *)
THEOREM NoDriftHolds == Spec => []NoDrift
<1>1. PageState => NoDrift
  BY DEF PageState, LoadInv
<1> QED
  BY <1>1, ServerTypedInit, PageInit, ServerTypedStep, PageStep, PTL DEF Spec

-----------------------------------------------------------------------------
(* Links. *)

LEMMA RouteFacts ==
    ASSUME NEW u \in URLs
    PROVE  /\ Route(Files, u).kind \in {"page", "file", "redirect"}
           /\ u.names \notin Files => Route(Files, u).kind = "page"
           /\ u.names \in Files /\ ~u.slash /\ Last(u.names) # "index.html" =>
                 Route(Files, u) = [kind |-> "file", to |-> u]
           /\ Route(Files, u).kind = "file" => u.names \in Files /\ Last(u.names) # "index.html"
           /\ Route(Files, u).kind = "redirect" =>
                 /\ u.names \in Files
                 /\ \/ /\ Last(u.names) = "index.html" /\ ~u.slash
                       /\ Route(Files, u).to = URL(Front(u.names), TRUE)
                    \/ u.slash /\ Route(Files, u).to = URL(u.names, FALSE)
           /\ Route(Files, u).kind = "page" =>
                 u.names \notin Files \/ Last(u.names) = "index.html"
<1>1. Last(<<"index.html">>) = "index.html"
  BY DEF Last
<1>2. <<>> \notin Files
  BY FilesAssumption
<1> QED
  BY <1>1, <1>2 DEF Route, URL, URLs, BackToFile

LEMMA URLType == \A names \in Seq(STRING), slash \in BOOLEAN : URL(names, slash) \in URLs
  BY DEF URL, URLs

LEMMA LinkInit == Init => LinkInv
<1>1. <<>> \in Seq(STRING)
  OBVIOUS
<1> QED
  BY <1>1 DEF Init, LinkInv, NoLink, URL, URLs, AfterHops

LEMMA FrontIsPath == \A f \in Files : Front(f) \in Seq(STRING)
<1> SUFFICES ASSUME NEW f \in Files PROVE Front(f) \in Seq(STRING)
  OBVIOUS
<1>1. f \in Seq(STRING) /\ f # <<>>
  BY FilesAssumption
<1>2. Len(f) \in Nat /\ Len(f) > 0
  BY <1>1
<1> QED
  BY <1>1, <1>2 DEF Front

LEMMA LinkStep == LinkInv /\ [Next]_vars => LinkInv'
<1> SUFFICES ASSUME LinkInv, [Next]_vars PROVE LinkInv'
  OBVIOUS
<1>1. ASSUME link' = link PROVE LinkInv'
  BY <1>1 DEF LinkInv
<1>2. ASSUME NEW u \in Links, Click(u) PROVE LinkInv'
  <2>1. u \in URLs
    BY LinksAssumption DEF URLs
  <2> QED
    BY <1>2, <2>1 DEF Click, LinkInv, AfterHops
<1>3. CASE Redirected
  <2> DEFINE to == Route(Files, link.at).to
  <2>1. link' = [link EXCEPT !.at = to, !.hops = @ + 1]
    BY <1>3 DEF Redirected
  <2>2. link.from \in URLs /\ link.at \in URLs /\ link.hops \in Nat
    BY DEF LinkInv
  <2>3. /\ link.at.names \in Files
        /\ \/ /\ Last(link.at.names) = "index.html" /\ ~link.at.slash
              /\ to = URL(Front(link.at.names), TRUE)
           \/ link.at.slash /\ to = URL(link.at.names, FALSE)
    BY <1>3, <2>2, RouteFacts DEF Redirected
  <2>4. to \in URLs
    <3>1. link.at.names \in Seq(STRING) /\ Front(link.at.names) \in Seq(STRING)
      BY <2>3, FrontIsPath, FilesAssumption
    <3> QED
      BY <2>3, <3>1, URLType
  <2> HIDE DEF to
  <2>5. /\ link'.at = to /\ link'.hops = link.hops + 1 /\ link'.from = link.from
        /\ link' \in [from : URLs, at : URLs, hops : Nat]
    <3>1. \A l \in [from : URLs, at : URLs, hops : Nat], v \in URLs, h \in Nat :
             LET next == [l EXCEPT !.at = v, !.hops = h] IN
             /\ next.at = v /\ next.hops = h /\ next.from = l.from
             /\ next \in [from : URLs, at : URLs, hops : Nat]
      OBVIOUS
    <3>2. link.hops + 1 \in Nat /\ link \in [from : URLs, at : URLs, hops : Nat]
      BY <2>2 DEF LinkInv
    <3> QED
      BY <2>1, <2>4, <3>1, <3>2
  <2>6. AfterHops(link')
    <3>1. CASE link.hops = 0 /\ link.at = link.from
      <4>1. link'.hops = 1
        BY <2>5, <3>1
      <4> QED
        BY <2>3, <2>5, <3>1, <4>1 DEF AfterHops
    <3>2. CASE /\ link.hops = 1 /\ link.from.slash /\ link.from.names \in Files
               /\ link.at = URL(link.from.names, FALSE)
      BY <2>3, <2>5, <3>2 DEF AfterHops, URL
    <3>3. CASE link.from.names \in Files /\ link.at = URL(Front(link.from.names), TRUE)
      BY <2>3, <3>3, FilesAssumption DEF URL
    <3> QED
      BY <3>1, <3>2, <3>3 DEF LinkInv, AfterHops
  <2> QED
    BY <2>5, <2>6 DEF LinkInv
<1>4. CASE UNCHANGED vars
  BY <1>1, <1>4 DEF vars, askVars
<1>5. ASSUME NEW r, Ask(r) PROVE LinkInv'
  BY <1>1, <1>5 DEF Ask, askVars
<1>6. CASE Try
  BY <1>1, <1>6 DEF Try
<1>7. CASE \/ Tick \/ Restart \/ Redeploy \/ Network \/ Session
           \/ (\E n : TakeAway(n)) \/ (\E n, t : Replace(n, t))
           \/ (\E u : Load(u)) \/ RedirectHome \/ (\E p : PutDone(p) \/ PutFails(p))
           \/ FetchIndex \/ FetchWasm \/ ServeWasm \/ WasmFromCache \/ Leave
  BY <1>1, <1>7 DEF Tick, Restart, Redeploy, Network, Session, TakeAway, Replace, Load,
     RedirectHome, PutDone, PutFails, FetchIndex, FetchWasm, ServeWasm, WasmFromCache, Leave, askVars
<1> QED
  BY <1>2, <1>3, <1>4, <1>5, <1>6, <1>7 DEF Next, Get, Resume, Revalidate

(* The relative redirects of serveFile, followed through spaFileServer, end
   after two at most, at the file that was meant or at the page, for any tree
   of files in which no directory is itself a file. *)
THEOREM LinksLandHolds == Spec => []LinksLand
<1>1. LinkInv => LinksLand
  <2> SUFFICES ASSUME LinkInv PROVE LinksLand
    OBVIOUS
  <2>1. link.from \in URLs /\ link.at \in URLs /\ link.hops \in Nat
    BY DEF LinkInv
  <2>2. link.hops <= 2
    <3>1. link.hops \in {0, 1, 2}
      BY DEF LinkInv, AfterHops
    <3> QED
      BY <3>1
  <2>3. ASSUME Route(Files, link.at).kind # "redirect",
               link.from.names \in Files, Last(link.from.names) # "index.html"
        PROVE  Route(Files, link.at) = [kind |-> "file", to |-> URL(link.from.names, FALSE)]
    <3>1. link.at.names = link.from.names
      BY <2>3 DEF LinkInv, AfterHops, URL
    <3>2. Route(Files, link.at).kind = "file" 
      BY <2>1, <2>3, <3>1, RouteFacts
    <3>3. ~link.at.slash
      BY <2>1, <3>2 DEF Route
    <3>4. link.at = URL(link.from.names, FALSE)
      BY <2>1, <3>1, <3>3 DEF URL, URLs
    <3> QED
      BY <2>1, <2>3, <3>1, <3>3, <3>4, RouteFacts
  <2>4. ASSUME Route(Files, link.at).kind # "redirect",
               ~(link.from.names \in Files /\ Last(link.from.names) # "index.html")
        PROVE  Route(Files, link.at).kind = "page"
    <3>1. \/ link.at.names = link.from.names
          \/ link.from.names \in Files /\ link.at.names = Front(link.from.names)
      BY DEF LinkInv, AfterHops, URL
    <3>2. link.at.names \notin Files \/ Last(link.at.names) = "index.html"
      BY <2>4, <3>1, FilesAssumption
    <3> QED
      BY <2>1, <2>4, <3>2, RouteFacts
  <2> QED
    BY <2>2, <2>3, <2>4 DEF LinksLand
<1> QED
  BY <1>1, LinkInit, LinkStep, PTL DEF Spec

-----------------------------------------------------------------------------
(* Induction, and loops written as recursive functions. *)

LEMMA LeastNat ==
    ASSUME NEW T, T \subseteq Nat, T # {}
    PROVE  \E x \in T : \A y \in T : x <= y
<1>1. \E x \in T : \A y \in T : <<y, x>> \notin OpToRel(<, Nat)
    BY NatLessThanWellFounded, WFMin
<1>2. \A x, y \in Nat : <<y, x>> \notin OpToRel(<, Nat) => x <= y
    BY DEF OpToRel
<1> QED BY <1>1, <1>2

LEMMA Induction ==
    ASSUME NEW n \in Nat, NEW T, 0 \in T,
           \A i \in 1 .. n : i - 1 \in T => i \in T
    PROVE  \A i \in 0 .. n : i \in T
<1> DEFINE B == {i \in 0 .. n : i \notin T}
<1> SUFFICES ASSUME B # {} PROVE FALSE
    OBVIOUS
<1>1. B \subseteq Nat
    OBVIOUS
<1>2. PICK m \in B : \A i \in B : m <= i
    BY <1>1, LeastNat
<1>3. m \in 1 .. n /\ m - 1 \in 0 .. n /\ m - 1 \notin B
    BY <1>2
<1> QED BY <1>2, <1>3

(* A loop: the value after i rounds. *)
Iterates(g, n, s, step) == g[0] = s /\ \A i \in 1 .. n : g[i] = step[i][g[i - 1]]

LEMMA Iteration ==
    ASSUME NEW n \in Nat, NEW S, NEW s \in S, NEW step \in [1 .. n -> [S -> S]]
    PROVE  \E g \in [0 .. n -> S] : Iterates(g, n, s, step)
<1> DEFINE Good(m, g) == g[0] = s /\ \A i \in 1 .. m : g[i] = step[i][g[i - 1]]
           T == {m \in 0 .. n : \E g \in [0 .. m -> S] : Good(m, g)}
<1>1. 0 \in T
  <2>1. [i \in 0 .. 0 |-> s] \in [0 .. 0 -> S] /\ Good(0, [i \in 0 .. 0 |-> s])
      OBVIOUS
  <2>2. 0 \in 0 .. n
      OBVIOUS
  <2> HIDE DEF Good
  <2> QED BY <2>1, <2>2
<1>2. ASSUME NEW m \in 1 .. n, m - 1 \in T PROVE m \in T
  <2>1. PICK g \in [0 .. m - 1 -> S] : Good(m - 1, g)
      BY <1>2
  <2> DEFINE h == [i \in 0 .. m |-> IF i < m THEN g[i] ELSE step[m][g[m - 1]]]
  <2>a. step[m] \in [S -> S] /\ m - 1 \in 0 .. m - 1
      OBVIOUS
  <2>b. step[m][g[m - 1]] \in S
      BY <2>a
  <2>2. h \in [0 .. m -> S]
      BY <2>b
  <2>3. h[0] = g[0] /\ h[m] = step[m][g[m - 1]] /\ \A i \in 0 .. m - 1 : h[i] = g[i]
      OBVIOUS
  <2> HIDE DEF h
  <2>4. h[0] = s
      BY <2>1, <2>3
  <2>5. ASSUME NEW i \in 1 .. m PROVE h[i] = step[i][h[i - 1]]
    <3>1. CASE i = m
        BY <3>1, <2>3
    <3>2. CASE i # m
      <4>1. i \in 1 .. m - 1 /\ i \in 0 .. m - 1 /\ i - 1 \in 0 .. m - 1
          BY <3>2
      <4> QED BY <4>1, <2>1, <2>3
    <3> QED BY <3>1, <3>2
  <2>6. Good(m, h)
      BY <2>4, <2>5
  <2>7. m \in 0 .. n
      OBVIOUS
  <2> HIDE DEF Good
  <2> QED BY <2>2, <2>6, <2>7
<1>3. n \in T
  <2>1. n \in 0 .. n
      OBVIOUS
  <2> HIDE DEF T
  <2>2. \A i \in 0 .. n : i \in T
      BY <1>1, <1>2, Induction, Zenon
  <2> QED BY <2>1, <2>2, Zenon
<1>4. PICK g \in [0 .. n -> S] : Good(n, g)
  BY <1>3
<1>5. Iterates(g, n, s, step)
  BY <1>4 DEF Iterates
<1> QED BY <1>5

LEMMA MinFacts ==
    ASSUME NEW S, S \subseteq Nat, S # {}
    PROVE  Min(S) \in S /\ \A y \in S : Min(S) <= y
  BY LeastNat DEF Min

LEMMA MaxFacts ==
    ASSUME NEW n \in Nat, NEW S, S \subseteq 0 .. n, S # {}
    PROVE  Max(S) \in S /\ \A y \in S : y <= Max(S)
<1> DEFINE T == {n - y : y \in S}
<1>1. T \subseteq Nat /\ T # {}
  <2>1. \A y \in S : y \in Int /\ n - y \in Nat
    OBVIOUS
  <2>2. PICK y \in S : TRUE
    OBVIOUS
  <2>3. n - y \in T
    BY <2>2
  <2> QED
    BY <2>1, <2>3
<1>2. PICK t \in T : \A u \in T : t <= u
  <2> HIDE DEF T
  <2> QED BY <1>1, LeastNat
<1>3. PICK x \in S : t = n - x
  BY <1>2
<1>4. \A y \in S : n - y \in T
  OBVIOUS
<1>5. \A y \in S : y <= x
  BY <1>2, <1>3, <1>4
<1> QED
  BY <1>3, <1>5 DEF Max

(* A recursive function whose value at i is that at a greater index, or known. *)
Resolves(g, n, go, next, val) ==
    \A i \in 1 .. n + 1 : g[i] = IF i \in go THEN g[next[i]] ELSE val[i]

LEMMA Descent ==
    ASSUME NEW n \in Nat, NEW S, NEW val \in [1 .. n + 1 -> S],
           NEW go, NEW next, \A i \in go : next[i] \in i + 1 .. n + 1
    PROVE  \E g \in [1 .. n + 1 -> S] : Resolves(g, n, go, next, val)
<1> DEFINE Good(m, g) == \A i \in n + 1 - m .. n + 1 : g[i] = IF i \in go THEN g[next[i]] ELSE val[i]
           T == {m \in 0 .. n : \E g \in [n + 1 - m .. n + 1 -> S] : Good(m, g)}
<1>1. 0 \in T
  <2> DEFINE g == [i \in n + 1 - 0 .. n + 1 |-> val[n + 1]]
  <2>1. g \in [n + 1 - 0 .. n + 1 -> S] /\ \A i \in n + 1 - 0 .. n + 1 : i = n + 1 /\ g[i] = val[i]
      OBVIOUS
  <2>2. n + 1 \notin go
      OBVIOUS
  <2>3. Good(0, g)
      BY <2>1, <2>2, Zenon
  <2>4. 0 \in 0 .. n
      OBVIOUS
  <2> HIDE DEF Good, g
  <2> QED BY <2>1, <2>3, <2>4
<1>2. ASSUME NEW m \in 1 .. n, m - 1 \in T PROVE m \in T
  <2> DEFINE a == n + 1 - m
  <2>1. PICK g \in [n + 1 - (m - 1) .. n + 1 -> S] : Good(m - 1, g)
      BY <1>2
  <2>2. /\ a \in 1 .. n /\ n + 1 - (m - 1) = a + 1 /\ m \in 0 .. n
        /\ \A i \in a .. n + 1 : i = a \/ i \in a + 1 .. n + 1
        /\ \A i \in a + 1 .. n + 1 : i # a /\ i \in a .. n + 1
      OBVIOUS
  <2>0. g \in [a + 1 .. n + 1 -> S]
      BY <2>1, <2>2
  <2> HIDE DEF a
  <2> DEFINE h == [i \in a .. n + 1 |->
                     IF i # a THEN g[i] ELSE IF a \in go THEN g[next[a]] ELSE val[a]]
  <2>3. ASSUME a \in go PROVE next[a] \in a + 1 .. n + 1
      BY <2>3
  <2>4. val[a] \in S
      BY <2>2
  <2>5. h \in [a .. n + 1 -> S]
    <3>1. (IF a \in go THEN g[next[a]] ELSE val[a]) \in S
        BY <2>0, <2>3, <2>4
    <3>2. \A i \in a .. n + 1 : i # a => g[i] \in S
        BY <2>0, <2>2
    <3> HIDE DEF Good
    <3> QED BY <3>1, <3>2
  <2>6. h[a] = (IF a \in go THEN g[next[a]] ELSE val[a]) /\ \A i \in a + 1 .. n + 1 : h[i] = g[i]
      BY <2>2
  <2> HIDE DEF h
  <2>7. ASSUME NEW i \in a .. n + 1 PROVE h[i] = IF i \in go THEN h[next[i]] ELSE val[i]
    <3>1. CASE i = a
        BY <3>1, <2>3, <2>6
    <3>2. CASE i \in a + 1 .. n + 1
      <4>1. g[i] = IF i \in go THEN g[next[i]] ELSE val[i]
          BY <2>1, <2>2, <3>2
      <4>2. i \in go => next[i] \in a + 1 .. n + 1
          BY <3>2, <2>2
      <4> QED BY <2>6, <3>2, <4>1, <4>2
    <3> QED BY <2>2, <3>1, <3>2
  <2>8. Good(m, h)
      BY <2>7 DEF a
  <2>9. h \in [n + 1 - m .. n + 1 -> S]
      BY <2>5 DEF a
  <2> HIDE DEF Good
  <2> QED BY <2>2, <2>8, <2>9
<1>3. n \in T
  <2>1. n \in 0 .. n
      OBVIOUS
  <2> HIDE DEF T
  <2>2. \A i \in 0 .. n : i \in T
      BY <1>1, <1>2, Induction, Zenon
  <2> QED BY <2>1, <2>2, Zenon
<1>4. n + 1 - n = 1
  OBVIOUS
<1> QED BY <1>3, <1>4 DEF Resolves

LEMMA DescentType ==
    ASSUME NEW n \in Nat, NEW S, NEW val, NEW g,
           NEW go, NEW next, \A i \in go : next[i] \in i + 1 .. n + 1,
           \A i \in (1 .. n + 1) \ go : val[i] \in S,
           Resolves(g, n, go, next, val)
    PROVE  \A i \in 1 .. n + 1 : g[i] \in S
<1> DEFINE B == {i \in 0 .. n + 1 : i >= 1 /\ g[i] \notin S}
<1>1. SUFFICES ASSUME B # {} PROVE FALSE
  OBVIOUS
<1>2. B \subseteq 0 .. n + 1 /\ n + 1 \in Nat
  OBVIOUS
<1>3. Max(B) \in B /\ \A y \in B : y <= Max(B)
  <2> HIDE DEF B
  <2> QED BY <1>1, <1>2, MaxFacts
<1>4. PICK m \in B : \A y \in B : y <= m
  BY <1>3
<1>5. m \in 1 .. n + 1 /\ g[m] \notin S
  BY <1>4
<1>6. m \in go /\ g[m] = g[next[m]]
  BY <1>5 DEF Resolves
<1>7. next[m] \in m + 1 .. n + 1
  BY <1>6
<1>8. next[m] \in B
  BY <1>5, <1>6, <1>7
<1> QED
  BY <1>4, <1>5, <1>7, <1>8

-----------------------------------------------------------------------------
(* The preconditions. *)

(* The parts of CheckIfNoneMatch. *)
LastToken(h) ==
    IF {i \in DOMAIN h : h[i] # "space"} = {} THEN 0 ELSE Max({i \in DOMAIN h : h[i] # "space"})
SkipBlanks(h, i) == Min({j \in i .. LastToken(h) : h[j] # "space"})
SkipComma(h, i) == LET j == SkipBlanks(h, i) IN IF h[j] = "comma" THEN j + 1 ELSE j
ReadTag(h, i) == SkipBlanks(h, SkipComma(h, i))
NoneMatchAt(h, g, i) ==
    IF i > LastToken(h) THEN "true"
    ELSE IF SkipComma(h, i) > LastToken(h) THEN "panic"
    ELSE IF h[SkipComma(h, i)] = "star" THEN "false"
    ELSE IF h[ReadTag(h, i)] = "tag" THEN g[ReadTag(h, i) + 1] ELSE "true"
NoneMatchFrom(h) == CHOOSE g : g = [i \in 1 .. LastToken(h) + 1 |-> NoneMatchAt(h, g, i)]

LEMMA NoneMatchDef ==
    ASSUME NEW h, h # <<>>
    PROVE  CheckIfNoneMatch(h) = NoneMatchFrom(h)[1]
  BY Zenon DEF CheckIfNoneMatch, NoneMatchFrom, NoneMatchAt, LastToken, SkipBlanks, SkipComma,
               ReadTag

LEMMA TokensRead ==
    ASSUME NEW h \in Seq(Tokens)
    PROVE  /\ LastToken(h) \in 0 .. Len(h)
           /\ \A i \in DOMAIN h : h[i] # "space" => i <= LastToken(h)
           /\ LastToken(h) > 0 => h[LastToken(h)] # "space"
           /\ \A i \in 1 .. LastToken(h) :
                 /\ SkipBlanks(h, i) \in i .. LastToken(h)
                 /\ h[SkipBlanks(h, i)] # "space"
                 /\ SkipComma(h, i) \in i .. LastToken(h) + 1
                 /\ SkipComma(h, i) > LastToken(h) => h[LastToken(h)] = "comma"
                 /\ SkipComma(h, i) <= LastToken(h) => ReadTag(h, i) \in i .. LastToken(h)
<1> DEFINE E == {i \in DOMAIN h : h[i] # "space"}
           n == LastToken(h)
<1>1. DOMAIN h = 1 .. Len(h) /\ Len(h) \in Nat
  OBVIOUS
<1>0. E \subseteq 0 .. Len(h) /\ (\A i \in E : i > 0 /\ h[i] # "space")
  BY <1>1
<1>a. \A i \in DOMAIN h : h[i] # "space" => i \in E
  OBVIOUS
<1>b. n = IF E = {} THEN 0 ELSE Max(E)
  BY DEF LastToken
<1> HIDE DEF E, n
<1>2. E # {} => n \in E /\ \A y \in E : y <= n
  BY <1>0, <1>1, <1>b, MaxFacts
<1>4. n \in 0 .. Len(h) /\ (n > 0 => h[n] # "space")
  <2>1. CASE E = {}
    BY <1>1, <1>b, <2>1
  <2>2. CASE E # {}
    BY <1>0, <1>1, <1>2, <2>2
  <2> QED
    BY <2>1, <2>2
<1>5. \A i \in DOMAIN h : h[i] # "space" => i <= n
  BY <1>2, <1>a
<1>6. ASSUME NEW i \in 1 .. n
      PROVE  SkipBlanks(h, i) \in i .. n /\ h[SkipBlanks(h, i)] # "space"
  <2> DEFINE S == {j \in i .. n : h[j] # "space"}
  <2>1. i \in Nat /\ n \in Nat /\ n \in i .. n /\ h[n] # "space"
    BY <1>1, <1>4
  <2>2. S \subseteq Nat /\ n \in S
    BY <2>1
  <2>3. SkipBlanks(h, i) = Min(S)
    BY DEF SkipBlanks, n
  <2>4. Min(S) \in S
    <3> HIDE DEF S
    <3> QED
      BY <2>2, MinFacts
  <2> QED
    BY <2>3, <2>4
<1>7. ASSUME NEW i \in 1 .. n
      PROVE  /\ SkipComma(h, i) \in i .. n + 1
             /\ SkipComma(h, i) > n => h[n] = "comma"
             /\ SkipComma(h, i) <= n => ReadTag(h, i) \in i .. n
  <2> DEFINE j == SkipBlanks(h, i)
             c == SkipComma(h, i)
  <2>0. n \in Nat
    BY <1>1, <1>4
  <2>1. j \in i .. n
    BY <1>6
  <2>2. c = IF h[j] = "comma" THEN j + 1 ELSE j
    BY DEF SkipComma
  <2> HIDE DEF j, c
  <2>3. c \in i .. n + 1
    BY <2>0, <2>1, <2>2
  <2>4. c > n => h[n] = "comma"
    <3>1. c > n => c = j + 1 /\ j = n
      BY <2>0, <2>1, <2>2
    <3> QED
      BY <2>0, <2>1, <2>2, <3>1
  <2>5. ASSUME c <= n PROVE ReadTag(h, i) \in i .. n
    <3>1. c \in 1 .. n
      BY <2>0, <2>3, <2>5
    <3>2. SkipBlanks(h, c) \in c .. n
      BY <1>6, <3>1
    <3>3. ReadTag(h, i) = SkipBlanks(h, c)
      BY DEF ReadTag, c
    <3> QED
      BY <2>0, <2>3, <3>2, <3>3
  <2> QED
    BY <2>3, <2>4, <2>5 DEF c
<1> QED
  BY <1>4, <1>5, <1>6, <1>7 DEF n

(* The recursion of CheckIfNoneMatch as one of Descent. *)
TagAt(h) == {i \in 1 .. LastToken(h) :
               /\ SkipComma(h, i) <= LastToken(h) /\ h[SkipComma(h, i)] # "star"
               /\ h[ReadTag(h, i)] = "tag"}
AfterTag(h) == [i \in 1 .. LastToken(h) + 1 |-> ReadTag(h, i) + 1]
Stops(h) == [i \in 1 .. LastToken(h) + 1 |->
               IF i > LastToken(h) THEN "true"
               ELSE IF SkipComma(h, i) > LastToken(h) THEN "panic"
               ELSE IF h[SkipComma(h, i)] = "star" THEN "false" ELSE "true"]

LEMMA NoneMatchSplit ==
    ASSUME NEW h \in Seq(Tokens), NEW g, NEW i \in 1 .. LastToken(h) + 1
    PROVE  NoneMatchAt(h, g, i) =
              IF i \in TagAt(h) THEN g[AfterTag(h)[i]] ELSE Stops(h)[i]
<1> DEFINE n == LastToken(h)
           c == SkipComma(h, i)
           t == ReadTag(h, i)
<1>1. n \in Nat /\ i \in Nat
  BY TokensRead
<1>2. AfterTag(h)[i] = t + 1
  BY DEF AfterTag
<1>3. Stops(h)[i] = IF i > n THEN "true" ELSE IF c > n THEN "panic"
                    ELSE IF h[c] = "star" THEN "false" ELSE "true"
  BY DEF Stops
<1>4. i \in TagAt(h) <=> ~(i > n) /\ ~(c > n) /\ h[c] # "star" /\ h[t] = "tag"
  <2>1. CASE i > n
    BY <1>1, <2>1 DEF TagAt
  <2>2. CASE ~(i > n)
    <3>1. i \in 1 .. n /\ c \in Int
      BY <1>1, <2>2, TokensRead
    <3> QED
      BY <1>1, <2>2, <3>1 DEF TagAt
  <2> QED
    BY <2>1, <2>2
<1>5. NoneMatchAt(h, g, i) = IF i > n THEN "true" ELSE IF c > n THEN "panic"
                             ELSE IF h[c] = "star" THEN "false"
                             ELSE IF h[t] = "tag" THEN g[t + 1] ELSE "true"
  BY Zenon DEF NoneMatchAt
<1> HIDE DEF n, c, t
<1> QED
  BY <1>2, <1>3, <1>4, <1>5, Zenon

LEMMA TagsForward ==
    ASSUME NEW h \in Seq(Tokens)
    PROVE  \A i \in TagAt(h) : AfterTag(h)[i] \in i + 1 .. LastToken(h) + 1
<1> DEFINE n == LastToken(h)
<1>1. n \in Nat
  BY TokensRead
<1>2. SUFFICES ASSUME NEW i \in TagAt(h) PROVE AfterTag(h)[i] \in i + 1 .. n + 1
  OBVIOUS
<1>3. i \in 1 .. n /\ SkipComma(h, i) <= n
  BY DEF TagAt
<1>4. ReadTag(h, i) \in i .. n
  BY <1>3, TokensRead
<1>5. AfterTag(h)[i] = ReadTag(h, i) + 1
  BY <1>1, <1>3 DEF AfterTag
<1> HIDE DEF n
<1> QED
  BY <1>1, <1>3, <1>4, <1>5

LEMMA NoneMatchFixed ==
    ASSUME NEW h \in Seq(Tokens)
    PROVE  Resolves(NoneMatchFrom(h), LastToken(h), TagAt(h), AfterTag(h), Stops(h))
<1> DEFINE n == LastToken(h)
           Fixed(g) == g = [i \in 1 .. n + 1 |-> NoneMatchAt(h, g, i)]
<1>1. n \in Nat
  BY TokensRead
<1>2. \A i \in TagAt(h) : AfterTag(h)[i] \in i + 1 .. n + 1
  BY TagsForward
<1>3. Stops(h) \in [1 .. n + 1 -> {"true", "panic", "false"}]
  BY DEF Stops
<1>4. PICK g \in [1 .. n + 1 -> {"true", "panic", "false"}] :
         Resolves(g, n, TagAt(h), AfterTag(h), Stops(h))
  <2> HIDE DEF n
  <2> QED
    BY <1>1, <1>2, <1>3, Descent
<1>5. Fixed(g)
  <2>1. \A i \in 1 .. n + 1 : g[i] = NoneMatchAt(h, g, i)
    BY <1>4, NoneMatchSplit DEF Resolves
  <2> QED
    BY <1>4, <2>1
<1>6. Fixed(NoneMatchFrom(h))
  <2>1. \E x : Fixed(x)
    BY <1>5
  <2>2. NoneMatchFrom(h) = CHOOSE x : Fixed(x)
    BY DEF NoneMatchFrom
  <2> HIDE DEF Fixed
  <2> QED
    BY <2>1, <2>2
<1> DEFINE f == NoneMatchFrom(h)
<1>7. \A i \in 1 .. n + 1 : f[i] = NoneMatchAt(h, f, i)
  <2> HIDE DEF f
  <2>1. f = [i \in 1 .. n + 1 |-> NoneMatchAt(h, f, i)]
    BY <1>6 DEF f
  <2> QED
    BY <2>1
<1> HIDE DEF f
<1>8. \A i \in 1 .. n + 1 : f[i] = IF i \in TagAt(h) THEN f[AfterTag(h)[i]] ELSE Stops(h)[i]
  BY <1>7, NoneMatchSplit
<1> QED
  BY <1>8, Zenon DEF Resolves, f

(* A list without "*" never matches; it panics only if it ends with a comma. *)
LEMMA NoneMatchTags ==
    ASSUME NEW h \in Seq(Tokens), h # <<>>, \A i \in DOMAIN h : h[i] # "star"
    PROVE  \/ CheckIfNoneMatch(h) = "true"
           \/ /\ CheckIfNoneMatch(h) = "panic"
              /\ \E i \in DOMAIN h :
                    h[i] = "comma" /\ \A j \in i + 1 .. Len(h) : h[j] = "space"
<1> DEFINE n == LastToken(h)
           V == {v \in {"true", "panic"} : v = "panic" => n \in DOMAIN h /\ h[n] = "comma"}
<1>1. n \in Nat /\ n <= Len(h) /\ DOMAIN h = 1 .. Len(h) /\ Len(h) \in Nat
  BY TokensRead
<1>2. \A i \in TagAt(h) : AfterTag(h)[i] \in i + 1 .. n + 1
  BY TagsForward
<1>3. ASSUME NEW i \in 1 .. n + 1 PROVE Stops(h)[i] \in V
  <2> DEFINE c == SkipComma(h, i)
  <2>1. Stops(h)[i] = IF i > n THEN "true" ELSE IF c > n THEN "panic"
                      ELSE IF h[c] = "star" THEN "false" ELSE "true"
    BY DEF Stops
  <2>2. CASE i > n
    BY <2>1, <2>2
  <2>3. CASE ~(i > n)
    <3>1. i \in 1 .. n
      BY <1>1, <2>3
    <3>2. c \in i .. n + 1 /\ (c > n => h[n] = "comma")
      BY <3>1, TokensRead
    <3> HIDE DEF c, n
    <3>3. n \in DOMAIN h /\ (~(c > n) => c \in DOMAIN h)
      BY <1>1, <3>1, <3>2
    <3>4. ~(c > n) => h[c] # "star"
      BY <3>3
    <3> QED
      BY <2>1, <2>3, <3>2, <3>3, <3>4
  <2> QED
    BY <2>2, <2>3
<1>4. Resolves(NoneMatchFrom(h), n, TagAt(h), AfterTag(h), Stops(h))
  BY NoneMatchFixed
<1>5. \A i \in 1 .. n + 1 : NoneMatchFrom(h)[i] \in V
  <2> HIDE DEF n, V
  <2> QED
    BY <1>1, <1>2, <1>3, <1>4, DescentType
<1>6. NoneMatchFrom(h)[1] \in V
  <2>1. 1 \in 1 .. n + 1
    BY <1>1
  <2> HIDE DEF V
  <2> QED
    BY <1>5, <2>1
<1>7. CheckIfNoneMatch(h) \in V
  BY <1>6, NoneMatchDef
<1>8. ASSUME n \in DOMAIN h, h[n] = "comma"
      PROVE  \E i \in DOMAIN h : h[i] = "comma" /\ \A j \in i + 1 .. Len(h) : h[j] = "space"
  <2>1. ASSUME NEW j \in n + 1 .. Len(h) PROVE h[j] = "space"
    <3>1. j \in DOMAIN h /\ ~(j <= n)
      BY <1>1, <2>1
    <3> QED
      BY <3>1, TokensRead
  <2> HIDE DEF n
  <2> QED
    BY <1>8, <2>1
<1> HIDE DEF n
<1> QED
  BY <1>7, <1>8

(* "*" matches everything. *)
LEMMA NoneMatchStar ==
    ASSUME NEW h \in Seq(Tokens), NEW s \in DOMAIN h,
           h[s] = "star", \A j \in DOMAIN h \ {s} : h[j] = "space"
    PROVE  CheckIfNoneMatch(h) = "false"
<1> DEFINE n == LastToken(h)
<1>1. n \in 0 .. Len(h) /\ DOMAIN h = 1 .. Len(h) /\ Len(h) \in Nat
  BY TokensRead
<1>2. s <= n
  BY TokensRead
<1>3. n \in DOMAIN h /\ h[n] # "space"
  <2>1. n > 0
    BY <1>1, <1>2
  <2> QED
    BY <1>1, <2>1, TokensRead
<1>4. n = s
  BY <1>3
<1>5. 1 \in 1 .. n
  BY <1>1, <1>3
<1>6. SkipBlanks(h, 1) = s
  <2>1. SkipBlanks(h, 1) \in 1 .. n /\ h[SkipBlanks(h, 1)] # "space"
    BY <1>5, TokensRead
  <2>2. SkipBlanks(h, 1) \in DOMAIN h
    BY <1>1, <2>1
  <2> QED
    BY <2>1, <2>2
<1>7. SkipComma(h, 1) = s
  BY <1>6 DEF SkipComma
<1>8. 1 \notin TagAt(h)
  BY <1>7 DEF TagAt
<1>9. 1 \in 1 .. n + 1 /\ ~(1 > n) /\ ~(s > n)
  BY <1>1, <1>4, <1>5
<1>10. Stops(h)[1] = "false"
  BY <1>7, <1>9 DEF Stops
<1>11. NoneMatchFrom(h)[1] = "false"
  BY <1>8, <1>9, <1>10, NoneMatchFixed DEF Resolves
<1>12. h # <<>>
  BY <1>1
<1> QED
  BY <1>11, <1>12, NoneMatchDef

(* The two forms of a header that is there. *)
LEMMA Forms ==
    ASSUME NEW h \in Seq(Tokens), h # <<>>, WellFormed(h)
    PROVE  IF Star(h)
           THEN \E s \in DOMAIN h : h[s] = "star" /\ \A j \in DOMAIN h \ {s} : h[j] = "space"
           ELSE \A i \in DOMAIN h : h[i] # "star"
  BY DEF WellFormed, Star, Members

LEMMA MatchPerRFC ==
    ASSUME NEW h \in Seq(Tokens), h # <<>>, WellFormed(h)
    PROVE  CheckIfMatch(h) = IF Star(h) THEN "true" ELSE "false"
<1>1. CASE Star(h)
  <2>1. PICK s \in DOMAIN h : h[s] = "star" /\ \A j \in DOMAIN h \ {s} : h[j] = "space"
    BY <1>1, Forms
  <2>2. DOMAIN h = 1 .. Len(h)
    OBVIOUS
  <2>3. \A j \in 1 .. s - 1 : j \in DOMAIN h \ {s}
    BY <2>2
  <2> QED
    BY <1>1, <2>1, <2>3 DEF CheckIfMatch
<1>2. CASE ~Star(h)
  BY <1>2, Forms DEF CheckIfMatch
<1> QED
  BY <1>1, <1>2

LEMMA DatePerRFC ==
    ASSUME NEW t \in Nat, NEW d \in Nat
    PROVE  Unmodified(t, d) <=> ~(Sec(t) > d)
  BY DEF Unmodified, Sec

LEMMA PreconditionsDecide ==
    ASSUME NEW r \in Requests, NEW mtime \in Nat, WellFormed(r.im), WellFormed(r.inm)
    PROVE  \/ CheckPreconditions(r, mtime) = RefPreconditions(r, mtime)
           \/ r.inm # <<>> /\ \E i \in DOMAIN r.inm :
                 r.inm[i] = "comma" /\ \A j \in i + 1 .. Len(r.inm) : r.inm[j] = "space"
<1> DEFINE im == CheckIfMatch(r.im)
           first == IF im = "none" THEN CheckIfUnmodifiedSince(r, mtime) ELSE im
           inm == CheckIfNoneMatch(r.inm)
           refused == \/ r.im # <<>> /\ ~Star(r.im)
                      \/ r.im = <<>> /\ ~IsZeroTime(mtime) /\ r.ius >= 0 /\ Sec(mtime) > r.ius
           fresh == Safe(r) /\ ~IsZeroTime(mtime) /\ r.ims >= 0 /\ ~(Sec(mtime) > r.ims)
           trailing == \E i \in DOMAIN r.inm :
                 r.inm[i] = "comma" /\ \A j \in i + 1 .. Len(r.inm) : r.inm[j] = "space"
<1>1. /\ r.im \in Seq(Tokens) /\ r.inm \in Seq(Tokens)
      /\ r.ius \in Nat \cup {None, Bad} /\ r.ims \in Nat \cup {None, Bad}
  BY DEF Requests
<1>2. \A d \in Nat \cup {None, Bad} : d >= 0 <=> d \notin {None, Bad}
  BY DEF None, Bad
<1>3. \A d \in Nat \cup {None, Bad} :
         d \notin {None, Bad} => (Unmodified(mtime, d) <=> ~(Sec(mtime) > d))
  BY DatePerRFC
<1>4. (first = "false") <=> refused
  <2>1. CASE r.im = <<>>
    <3>1. im = "none"
      BY <2>1 DEF CheckIfMatch
    <3>2. CheckIfUnmodifiedSince(r, mtime) = "false" <=>
             ~IsZeroTime(mtime) /\ r.ius >= 0 /\ Sec(mtime) > r.ius
      <4>1. CASE r.ius \in {None, Bad}
        BY <1>1, <1>2, <4>1 DEF CheckIfUnmodifiedSince
      <4>2. CASE r.ius \notin {None, Bad}
        BY <1>1, <1>2, <1>3, <4>2, Zenon DEF CheckIfUnmodifiedSince
      <4> QED
        BY <4>1, <4>2
    <3> QED
      BY <2>1, <3>1, <3>2
  <2>2. CASE r.im # <<>>
    <3>1. im = IF Star(r.im) THEN "true" ELSE "false"
      BY <1>1, <2>2, MatchPerRFC
    <3> QED
      BY <2>2, <3>1
  <2> QED
    BY <2>1, <2>2
<1>5. CheckIfModifiedSince(r, mtime) = "false" <=> fresh
  <2>1. CASE r.ims \in {None, Bad}
    BY <1>1, <1>2, <2>1 DEF CheckIfModifiedSince
  <2>2. CASE r.ims \notin {None, Bad}
    BY <1>1, <1>2, <1>3, <2>2, Zenon DEF CheckIfModifiedSince
  <2> QED
    BY <2>1, <2>2
<1>6. /\ r.inm = <<>> => inm = "none"
      /\ r.inm # <<>> /\ Star(r.inm) => inm = "false"
      /\ r.inm # <<>> /\ ~Star(r.inm) => inm = "true" \/ trailing
  <2>1. ASSUME r.inm = <<>> PROVE inm = "none"
    BY <2>1 DEF CheckIfNoneMatch
  <2>2. ASSUME r.inm # <<>>, Star(r.inm) PROVE inm = "false"
    BY <1>1, <2>2, Forms, NoneMatchStar
  <2>3. ASSUME r.inm # <<>>, ~Star(r.inm) PROVE inm = "true" \/ trailing
    BY <1>1, <2>3, Forms, NoneMatchTags
  <2> QED
    BY <2>1, <2>2, <2>3
<1>7. CheckPreconditions(r, mtime) =
        CASE first = "false" -> 412
          [] first # "false" /\ inm = "panic" -> Aborted
          [] first # "false" /\ inm = "false" -> IF Safe(r) THEN 304 ELSE 412
          [] first # "false" /\ inm = "none" ->
                IF CheckIfModifiedSince(r, mtime) = "false" THEN 304 ELSE 0
          [] first # "false" /\ inm = "true" -> 0
  BY Zenon DEF CheckPreconditions
<1>8. RefPreconditions(r, mtime) =
        IF refused THEN 412
        ELSE IF r.inm # <<>> /\ Star(r.inm) THEN (IF Safe(r) THEN 304 ELSE 412)
        ELSE IF r.inm = <<>> /\ fresh THEN 304
        ELSE 0
  BY Zenon DEF RefPreconditions
<1> HIDE DEF im, first, inm, refused, fresh, trailing
<1>9. CASE refused
  BY <1>4, <1>7, <1>8, <1>9
<1>10. CASE ~refused /\ r.inm = <<>>
  BY <1>4, <1>5, <1>6, <1>7, <1>8, <1>10
<1>11. CASE ~refused /\ r.inm # <<>> /\ Star(r.inm)
  BY <1>4, <1>6, <1>7, <1>8, <1>11
<1>12. CASE ~refused /\ r.inm # <<>> /\ ~Star(r.inm)
  BY <1>4, <1>6, <1>7, <1>8, <1>12 DEF trailing
<1> QED
  BY <1>9, <1>10, <1>11, <1>12

-----------------------------------------------------------------------------
(* The ranges. *)

(* FlattenSeq as an iteration over the prefixes. *)
FlattenRun(s, g) == g = [i \in 1 .. Len(s) |-> IF i = 1 THEN s[i] ELSE g[i - 1] \o s[i]]

LEMMA FlattenDef ==
    ASSUME NEW s, Len(s) # 0
    PROVE  FlattenSeq(s) = (CHOOSE g : FlattenRun(s, g))[Len(s)]
  BY Zenon DEF FlattenSeq, FlattenRun

LEMMA FlattenPrefixes ==
    ASSUME NEW S, NEW s \in Seq(Seq(S))
    PROVE  \E F \in [0 .. Len(s) -> Seq(S)] :
              /\ F[0] = <<>> /\ FlattenSeq(s) = F[Len(s)]
              /\ \A i \in 1 .. Len(s) : F[i] = F[i - 1] \o s[i]
<1> DEFINE n == Len(s)
           step == [i \in 1 .. n |-> [q \in Seq(S) |-> q \o s[i]]]
<1>1. n \in Nat /\ \A i \in 1 .. n : s[i] \in Seq(S)
  OBVIOUS
<1>2. step \in [1 .. n -> [Seq(S) -> Seq(S)]] /\ <<>> \in Seq(S)
  OBVIOUS
<1>3. \A i \in 1 .. n, q \in Seq(S) : step[i][q] = q \o s[i]
  OBVIOUS
<1> HIDE DEF n, step
<1>4. PICK F \in [0 .. n -> Seq(S)] : Iterates(F, n, <<>>, step)
  BY <1>1, <1>2, Iteration, Zenon
<1>5. \A i \in 1 .. n : i - 1 \in 0 .. n /\ F[i] = F[i - 1] \o s[i]
  <2>1. \A i \in 1 .. n : i - 1 \in 0 .. n
    BY <1>1
  <2>2. \A i \in 1 .. n : F[i - 1] \in Seq(S)
    BY <1>4, <2>1
  <2> QED
    BY <1>3, <1>4, <2>1, <2>2 DEF Iterates
<1>a. F[0] = <<>>
  BY <1>4 DEF Iterates
<1>6. CASE n = 0
  <2>1. s = <<>>
    BY <1>6 DEF n
  <2>2. FlattenSeq(s) = <<>>
    BY <1>6, <2>1 DEF FlattenSeq, n
  <2> QED
    BY <1>4, <1>a, <1>5, <1>6, <2>2 DEF n
<1>7. CASE n # 0
  <2> DEFINE g == [i \in 1 .. n |-> F[i]]
             f == CHOOSE x : FlattenRun(s, x)
  <2>1. FlattenRun(s, g)
    <3>1. ASSUME NEW i \in 1 .. n PROVE g[i] = IF i = 1 THEN s[i] ELSE g[i - 1] \o s[i]
      <4>1. CASE i = 1
        <5>0. i - 1 = 0
          BY <4>1
        <5>1. F[i] = <<>> \o s[i] /\ s[i] \in Seq(S)
          BY <1>1, <1>a, <1>5, <5>0
        <5> QED
          BY <4>1, <5>1
      <4>2. CASE i # 1
        <5>1. i - 1 \in 1 .. n
          BY <1>1, <4>2
        <5> QED
          BY <1>5, <4>2, <5>1
      <4> QED
        BY <4>1, <4>2
    <3> QED
      BY <3>1 DEF FlattenRun, n
  <2>2. FlattenRun(s, f)
    <3> HIDE DEF g
    <3> QED
      BY <2>1
  <2>3. FlattenSeq(s) = f[n]
    BY <1>7, FlattenDef DEF n
  <2> HIDE DEF f
  <2>4. \A i \in 1 .. n : f[i] = IF i = 1 THEN s[i] ELSE f[i - 1] \o s[i]
    BY <2>2 DEF FlattenRun, n
  <2> DEFINE T == {i \in 0 .. n : i = 0 \/ f[i] = F[i]}
  <2>5. 0 \in T
    BY <1>1
  <2>6. ASSUME NEW i \in 1 .. n, i - 1 \in T PROVE i \in T
    <3>1. CASE i = 1
      <4>0. i - 1 = 0
        BY <3>1
      <4>1. F[i] = <<>> \o s[i] /\ s[i] \in Seq(S)
        BY <1>1, <1>a, <1>5, <4>0
      <4>2. f[i] = F[i]
        BY <2>4, <3>1, <4>1
      <4> QED
        BY <1>1, <4>2
    <3>2. CASE i # 1
      <4>1. f[i - 1] = F[i - 1]
        BY <1>1, <2>6, <3>2
      <4>2. f[i] = F[i]
        BY <1>5, <2>4, <3>2, <4>1
      <4> QED
        BY <1>1, <4>2
    <3> QED
      BY <3>1, <3>2
  <2>7. \A i \in 0 .. n : i \in T
    <3> HIDE DEF T
    <3> QED
      BY <1>1, <2>5, <2>6, Induction
  <2>8. f[n] = F[n]
    BY <1>1, <1>7, <2>7
  <2> QED
    BY <1>4, <1>a, <1>5, <2>3, <2>8 DEF n
<1> QED
  BY <1>6, <1>7

LEMMA FlattenAppend ==
    ASSUME NEW S, NEW s \in Seq(Seq(S)), NEW x \in Seq(S)
    PROVE  FlattenSeq(s) \in Seq(S) /\ FlattenSeq(Append(s, x)) = FlattenSeq(s) \o x
<1> DEFINE n == Len(s)
           t == Append(s, x)
<1>1. n \in Nat /\ t \in Seq(Seq(S)) /\ Len(t) = n + 1 /\ t[n + 1] = x
      /\ \A i \in 1 .. n : t[i] = s[i]
  OBVIOUS
<1> HIDE DEF n, t
<1>2. PICK F \in [0 .. n -> Seq(S)] :
         /\ F[0] = <<>> /\ FlattenSeq(s) = F[n]
         /\ \A i \in 1 .. n : F[i] = F[i - 1] \o s[i]
  BY FlattenPrefixes DEF n
<1>3. PICK G \in [0 .. n + 1 -> Seq(S)] :
         /\ G[0] = <<>> /\ FlattenSeq(t) = G[n + 1]
         /\ \A i \in 1 .. n + 1 : G[i] = G[i - 1] \o t[i]
  <2>1. \E G \in [0 .. Len(t) -> Seq(S)] :
         /\ G[0] = <<>> /\ FlattenSeq(t) = G[Len(t)]
         /\ \A i \in 1 .. Len(t) : G[i] = G[i - 1] \o t[i]
    BY <1>1, FlattenPrefixes
  <2> QED
    BY <1>1, <2>1, Zenon
<1> DEFINE T == {i \in 0 .. n : G[i] = F[i]}
<1>4. 0 \in T
  BY <1>1, <1>2, <1>3
<1>5. ASSUME NEW i \in 1 .. n, i - 1 \in T PROVE i \in T
  <2>1. i \in 1 .. n + 1 /\ i \in 0 .. n
    BY <1>1
  <2>2. G[i - 1] = F[i - 1]
    BY <1>5
  <2>3. G[i] = F[i]
    BY <1>1, <1>2, <1>3, <2>1, <2>2
  <2> QED
    BY <2>1, <2>3
<1>6. \A i \in 0 .. n : i \in T
  <2> HIDE DEF T
  <2> QED
    BY <1>1, <1>4, <1>5, Induction
<1>7. n \in 0 .. n /\ n + 1 \in 1 .. n + 1 /\ (n + 1) - 1 = n
  BY <1>1
<1>8. G[n] = F[n]
  BY <1>6, <1>7
<1>9. G[n + 1] = G[n] \o x
  BY <1>1, <1>3, <1>7
<1> QED
  BY <1>2, <1>3, <1>7, <1>8, <1>9 DEF t

LEMMA FlattenEmpty == FlattenSeq(<<>>) = <<>>
  BY DEF FlattenSeq

(* sumRangesSize as an iteration. *)
SumRun(ranges, g) ==
    g = [i \in 0 .. Len(ranges) |-> IF i = 0 THEN 0 ELSE g[i - 1] + ranges[i].length]

LEMMA SumDef ==
    ASSUME NEW ranges
    PROVE  SumRangesSize(ranges) = (CHOOSE g : SumRun(ranges, g))[Len(ranges)]
  BY Zenon DEF SumRangesSize, SumRun

HttpRanges == [start : Nat, length : Nat]

LEMMA SumPrefixes ==
    ASSUME NEW ranges \in Seq(HttpRanges)
    PROVE  \E F \in [0 .. Len(ranges) -> Nat] :
              /\ F[0] = 0 /\ SumRangesSize(ranges) = F[Len(ranges)]
              /\ \A i \in 1 .. Len(ranges) : F[i] = F[i - 1] + ranges[i].length
<1> DEFINE n == Len(ranges)
           step == [i \in 1 .. n |-> [q \in Nat |-> q + ranges[i].length]]
           f == CHOOSE x : SumRun(ranges, x)
<1>1. n \in Nat /\ \A i \in 1 .. n : ranges[i].length \in Nat
  <2>1. \A i \in 1 .. n : ranges[i] \in HttpRanges
    OBVIOUS
  <2> QED
    BY <2>1 DEF HttpRanges
<1>2. step \in [1 .. n -> [Nat -> Nat]] /\ 0 \in Nat
  BY <1>1
<1>3. \A i \in 1 .. n, q \in Nat : step[i][q] = q + ranges[i].length
  OBVIOUS
<1> HIDE DEF n, step
<1>4. PICK F \in [0 .. n -> Nat] : Iterates(F, n, 0, step)
  BY <1>1, <1>2, Iteration, Zenon
<1>5. \A i \in 1 .. n : i - 1 \in 0 .. n /\ i \in 0 .. n /\ i # 0
  BY <1>1
<1>6. \A i \in 1 .. n : F[i] = F[i - 1] + ranges[i].length
  BY <1>3, <1>4, <1>5 DEF Iterates
<1>7. F[0] = 0
  BY <1>4 DEF Iterates
<1>8. SumRun(ranges, F)
  <2>1. \A i \in 0 .. n : i # 0 => i \in 1 .. n
    BY <1>1
  <2>2. \A i \in 0 .. n : F[i] = IF i = 0 THEN 0 ELSE F[i - 1] + ranges[i].length
    BY <1>6, <1>7, <2>1, Zenon
  <2> QED
    BY <1>4, <2>2 DEF SumRun, n
<1>9. SumRun(ranges, f)
  BY <1>8
<1>10. SumRangesSize(ranges) = f[n]
  BY SumDef DEF n
<1> HIDE DEF f
<1>11. \A i \in 0 .. n : f[i] = IF i = 0 THEN 0 ELSE f[i - 1] + ranges[i].length
  BY <1>9 DEF SumRun, n
<1> DEFINE T == {i \in 0 .. n : f[i] = F[i]}
<1>12. 0 \in T
  <2>1. 0 \in 0 .. n
    BY <1>1
  <2> QED
    BY <1>7, <1>11, <2>1
<1>13. ASSUME NEW i \in 1 .. n, i - 1 \in T PROVE i \in T
  <2>1. f[i - 1] = F[i - 1]
    BY <1>13
  <2>2. f[i] = f[i - 1] + ranges[i].length
    BY <1>5, <1>11
  <2> QED
    BY <1>5, <1>6, <2>1, <2>2, Zenon
<1>14. n \in T
  <2>1. n \in 0 .. n
    BY <1>1
  <2> HIDE DEF T
  <2>2. \A i \in 0 .. n : i \in T
    BY <1>1, <1>12, <1>13, Induction, Zenon
  <2> QED
    BY <2>1, <2>2, Zenon
<1> QED
  BY <1>4, <1>6, <1>7, <1>10, <1>14 DEF n

LEMMA SumAppend ==
    ASSUME NEW ranges \in Seq(HttpRanges), NEW ra \in HttpRanges
    PROVE  /\ SumRangesSize(ranges) \in Nat
           /\ SumRangesSize(Append(ranges, ra)) = SumRangesSize(ranges) + ra.length
<1> DEFINE n == Len(ranges)
           t == Append(ranges, ra)
<1>1. n \in Nat /\ t \in Seq(HttpRanges) /\ Len(t) = n + 1 /\ t[n + 1] = ra
      /\ \A i \in 1 .. n : t[i] = ranges[i]
  OBVIOUS
<1> HIDE DEF n, t
<1>2. PICK F \in [0 .. n -> Nat] :
         /\ F[0] = 0 /\ SumRangesSize(ranges) = F[n]
         /\ \A i \in 1 .. n : F[i] = F[i - 1] + ranges[i].length
  BY SumPrefixes DEF n
<1>3. PICK G \in [0 .. n + 1 -> Nat] :
         /\ G[0] = 0 /\ SumRangesSize(t) = G[n + 1]
         /\ \A i \in 1 .. n + 1 : G[i] = G[i - 1] + t[i].length
  <2>1. \E G \in [0 .. Len(t) -> Nat] :
         /\ G[0] = 0 /\ SumRangesSize(t) = G[Len(t)]
         /\ \A i \in 1 .. Len(t) : G[i] = G[i - 1] + t[i].length
    BY <1>1, SumPrefixes
  <2> QED
    BY <1>1, <2>1, Zenon
<1> DEFINE T == {i \in 0 .. n : G[i] = F[i]}
<1>4. 0 \in T
  BY <1>1, <1>2, <1>3
<1>5. ASSUME NEW i \in 1 .. n, i - 1 \in T PROVE i \in T
  <2>1. i \in 1 .. n + 1 /\ i \in 0 .. n
    BY <1>1
  <2>2. G[i - 1] = F[i - 1]
    BY <1>5
  <2>3. t[i].length = ranges[i].length
    BY <1>1
  <2>4. G[i] = F[i]
    BY <1>2, <1>3, <2>1, <2>2, <2>3, Zenon
  <2> QED
    BY <2>1, <2>4
<1>6. \A i \in 0 .. n : i \in T
  <2> HIDE DEF T
  <2> QED
    BY <1>1, <1>4, <1>5, Induction, Zenon
<1>7. n \in 0 .. n /\ n + 1 \in 1 .. n + 1 /\ (n + 1) - 1 = n
  BY <1>1
<1>8. G[n] = F[n]
  BY <1>6, <1>7
<1>9. G[n + 1] = G[n] + ra.length
  BY <1>1, <1>3, <1>7
<1> QED
  BY <1>2, <1>3, <1>7, <1>8, <1>9 DEF t

LEMMA SumEmpty == SumRangesSize(<<>>) = 0
<1>1. <<>> \in Seq(HttpRanges) /\ Len(<<>>) = 0
  OBVIOUS
<1> QED
  BY <1>1, SumPrefixes

-----------------------------------------------------------------------------
(* The loop of parseRange. *)

Skipped(s, size) == s.k = "blank" \/ Beyond(s, size)
KeptRun(h, size, g) ==
    g = [i \in 0 .. Len(h) |->
           IF i = 0 THEN <<>>
           ELSE IF Skipped(h[i], size) THEN g[i - 1] ELSE Append(g[i - 1], RangeOf(h[i], size))]
Kept(h, size) == CHOOSE g : KeptRun(h, size, g)

LEMMA ParseDef ==
    ASSUME NEW h, NEW size
    PROVE  ParseRange(h, size) =
              IF \E i \in DOMAIN h : Invalid(h[i], size) THEN [err |-> "invalid", ranges |-> <<>>]
              ELSE IF Kept(h, size)[Len(h)] = <<>> /\ \E i \in DOMAIN h : Beyond(h[i], size)
              THEN [err |-> "noOverlap", ranges |-> <<>>]
              ELSE [err |-> "", ranges |-> Kept(h, size)[Len(h)]]
  BY Zenon DEF ParseRange, Kept, KeptRun, Skipped

LEMMA KeptRound ==
    ASSUME NEW h \in Seq(Specs), NEW size
    PROVE  /\ Kept(h, size)[0] = <<>>
           /\ \A i \in 1 .. Len(h) :
                 Kept(h, size)[i] = IF Skipped(h[i], size) THEN Kept(h, size)[i - 1]
                                    ELSE Append(Kept(h, size)[i - 1], RangeOf(h[i], size))
<1> DEFINE n == Len(h)
           R == {RangeOf(h[i], size) : i \in 1 .. n}
           step == [i \in 1 .. n |-> [q \in Seq(R) |->
                      IF Skipped(h[i], size) THEN q ELSE Append(q, RangeOf(h[i], size))]]
           f == Kept(h, size)
<1>1. n \in Nat /\ \A i \in 1 .. n : RangeOf(h[i], size) \in R
  OBVIOUS
<1> HIDE DEF R
<1>2. step \in [1 .. n -> [Seq(R) -> Seq(R)]] /\ <<>> \in Seq(R)
  BY <1>1
<1>3. \A i \in 1 .. n, q \in Seq(R) :
         step[i][q] = IF Skipped(h[i], size) THEN q ELSE Append(q, RangeOf(h[i], size))
  OBVIOUS
<1> HIDE DEF n, step
<1>4. PICK F \in [0 .. n -> Seq(R)] : Iterates(F, n, <<>>, step)
  BY <1>1, <1>2, Iteration, Zenon
<1>5. \A i \in 1 .. n : i - 1 \in 0 .. n /\ i \in 0 .. n /\ i # 0
  BY <1>1
<1>6. KeptRun(h, size, F)
  <2>1. \A i \in 0 .. n : i # 0 => i \in 1 .. n /\ F[i - 1] \in Seq(R)
    BY <1>1, <1>4
  <2>2. \A i \in 0 .. n :
           F[i] = IF i = 0 THEN <<>>
                  ELSE IF Skipped(h[i], size) THEN F[i - 1]
                  ELSE Append(F[i - 1], RangeOf(h[i], size))
    BY <1>3, <1>4, <2>1, Zenon DEF Iterates
  <2>3. F = [i \in 0 .. n |-> F[i]]
    BY <1>4
  <2> QED
    BY <2>2, <2>3 DEF KeptRun, n
<1>7. KeptRun(h, size, f)
  BY <1>6 DEF Kept
<1> HIDE DEF f
<1>8. \A i \in 0 .. n :
         f[i] = IF i = 0 THEN <<>>
                ELSE IF Skipped(h[i], size) THEN f[i - 1]
                ELSE Append(f[i - 1], RangeOf(h[i], size))
  BY <1>7 DEF KeptRun, n
<1>9. f[0] = <<>>
  <2>1. 0 \in 0 .. n
    BY <1>1
  <2> QED
    BY <1>8, <2>1
<1> QED
  BY <1>5, <1>8, <1>9, Zenon DEF f, n

LEMMA BytesAre ==
    ASSUME NEW start \in Nat, NEW n \in Nat
    PROVE  /\ Bytes(start, n) \in Seq(Nat) /\ Len(Bytes(start, n)) = n
           /\ \A i \in 1 .. n : Bytes(start, n)[i] = start + i - 1
           /\ n = 0 => Bytes(start, n) = <<>>
           /\ n > 0 => Last(Bytes(start, n)) = start + n - 1
<1>1. Bytes(start, n) \in Seq(Nat) /\ Len(Bytes(start, n)) = n
  BY DEF Bytes
<1>2. \A i \in 1 .. n : Bytes(start, n)[i] = start + i - 1
  BY DEF Bytes
<1>3. n = 0 => Bytes(start, n) = <<>>
  BY <1>1
<1>4. n > 0 => Last(Bytes(start, n)) = start + n - 1
  BY <1>1, <1>2 DEF Last
<1> QED
  BY <1>1, <1>2, <1>3, <1>4

(* The bytes of an interval of offsets. *)
LEMMA IntervalBytes ==
    ASSUME NEW s, NEW size, NEW start \in Nat, NEW n \in Nat,
           RefOffsets(s, size) = start .. start + n - 1
    PROVE  /\ RefBytes(s, size) = Bytes(start, n)
           /\ RefOffsets(s, size) = {} <=> n = 0
<1> DEFINE S == start .. start + n - 1
<1>1. RefBytes(s, size) = IF S = {} THEN <<>> ELSE Bytes(Min(S), Cardinality(S))
  BY DEF RefBytes
<1>2. S = {} <=> n = 0
  <2>1. n # 0 => start \in S
    OBVIOUS
  <2>2. n = 0 => S = {}
    OBVIOUS
  <2> QED
    BY <2>1, <2>2
<1>3. CASE n = 0
  BY <1>1, <1>2, <1>3, BytesAre
<1>4. CASE n # 0
  <2>1. start \in Int /\ start + n - 1 \in Int /\ ~(start > start + n - 1)
        /\ (start + n - 1) - start + 1 = n
    BY <1>4
  <2>2. Cardinality(S) = n
    <3>1. Cardinality(S) = IF start > start + n - 1 THEN 0 ELSE (start + n - 1) - start + 1
      BY <2>1, FS_Interval
    <3> QED
      BY <2>1, <3>1
  <2>3. S \subseteq Nat /\ start \in S /\ \A y \in S : start <= y
    BY <1>4
  <2>4. Min(S) = start
    <3> HIDE DEF S
    <3>1. Min(S) \in S /\ Min(S) <= start
      BY <2>3, MinFacts
    <3>2. start <= Min(S) /\ Min(S) \in Nat
      BY <2>3, <3>1
    <3> QED
      BY <3>1, <3>2
  <2> QED
    BY <1>1, <1>2, <1>4, <2>2, <2>4
<1> QED
  BY <1>2, <1>3, <1>4

(* What parseRange makes of a spec is what the RFC says it asks for. *)
LEMMA SpecPerRFC ==
    ASSUME NEW s \in Specs, NEW size \in Nat, s.a >= 0, ~Invalid(s, size), ~Skipped(s, size)
    PROVE  LET ra == RangeOf(s, size) IN
           /\ ra \in HttpRanges /\ ra.start + ra.length <= size
           /\ ra.start + ra.length < size => ra.length > 0
           /\ RefOffsets(s, size) = ra.start .. ra.start + ra.length - 1
<1>1. s.a \in Nat /\ s.b \in Int /\ s.k \in {"from-to", "from", "suffix"}
  BY DEF Specs, Invalid, Skipped
<1>2. ASSUME NEW start \in Nat, NEW n \in Nat, RangeOf(s, size) = [start |-> start, length |-> n],
             start + n <= size, start + n < size => n > 0,
             RefOffsets(s, size) = start .. start + n - 1
      PROVE  LET ra == RangeOf(s, size) IN
             /\ ra \in HttpRanges /\ ra.start + ra.length <= size
             /\ ra.start + ra.length < size => ra.length > 0
             /\ RefOffsets(s, size) = ra.start .. ra.start + ra.length - 1
  <2>1. RangeOf(s, size).start = start /\ RangeOf(s, size).length = n
    BY <1>2
  <2>2. RangeOf(s, size) \in HttpRanges
    BY <1>2 DEF HttpRanges
  <2> QED
    BY <1>2, <2>1, <2>2
<1>3. CASE s.k = "from-to"
  <2> DEFINE e == Smaller(s.b, size - 1)
  <2>1. s.a < size /\ s.a <= s.b
    BY <1>1, <1>3 DEF Invalid, Skipped, Beyond
  <2>2. e \in Nat /\ s.a <= e /\ e < size /\ (e = s.b \/ (e = size - 1 /\ e <= s.b))
    BY <1>1, <2>1 DEF Smaller
  <2>3. RangeOf(s, size) = [start |-> s.a, length |-> e - s.a + 1]
    BY <1>3 DEF RangeOf
  <2>4. RefOffsets(s, size) = {i \in 0 .. size - 1 : s.a <= i /\ i <= s.b}
    BY <1>3 DEF RefOffsets
  <2> HIDE DEF e
  <2>5. e - s.a + 1 \in Nat /\ e - s.a + 1 > 0 /\ s.a + (e - s.a + 1) <= size
        /\ s.a + (e - s.a + 1) - 1 = e
    BY <1>1, <2>2
  <2>6. RefOffsets(s, size) = s.a .. e
    BY <1>1, <2>1, <2>2, <2>4
  <2>7. RefOffsets(s, size) = s.a .. s.a + (e - s.a + 1) - 1
    BY <2>5, <2>6
  <2> QED
    BY <1>1, <1>2, <2>3, <2>5, <2>7
<1>4. CASE s.k = "from"
  <2>1. s.a < size
    BY <1>1, <1>4 DEF Skipped, Beyond
  <2>2. RangeOf(s, size) = [start |-> s.a, length |-> size - s.a]
    BY <1>4 DEF RangeOf
  <2>3. RefOffsets(s, size) = {i \in 0 .. size - 1 : s.a <= i}
    BY <1>4 DEF RefOffsets
  <2>4. size - s.a \in Nat /\ size - s.a > 0 /\ s.a + (size - s.a) <= size
    BY <1>1, <2>1
  <2>5. RefOffsets(s, size) = s.a .. s.a + (size - s.a) - 1
    BY <1>1, <2>1, <2>3
  <2> QED
    BY <1>1, <1>2, <2>2, <2>4, <2>5
<1>5. CASE s.k = "suffix"
  <2> DEFINE n == Smaller(s.a, size)
  <2>1. n \in Nat /\ n <= size /\ (n = s.a \/ (n = size /\ n <= s.a))
    BY <1>1 DEF Smaller
  <2>2. RangeOf(s, size) = [start |-> size - n, length |-> n]
    BY <1>5 DEF RangeOf
  <2>3. RefOffsets(s, size) = {i \in 0 .. size - 1 : size - s.a <= i}
    BY <1>5 DEF RefOffsets
  <2> HIDE DEF n
  <2>4. size - n \in Nat /\ (size - n) + n <= size /\ ~((size - n) + n < size)
    BY <2>1
  <2>5. RefOffsets(s, size) = size - n .. (size - n) + n - 1
    BY <1>1, <2>1, <2>3
  <2> QED
    BY <1>2, <2>1, <2>2, <2>4, <2>5
<1> QED
  BY <1>1, <1>3, <1>4, <1>5

LEMMA SkippedPerRFC ==
    ASSUME NEW s \in Specs, NEW size \in Nat, Skipped(s, size)
    PROVE  RefOffsets(s, size) = {} /\ RefBytes(s, size) = <<>>
<1>1. s.a \in Int
  BY DEF Specs
<1>2. RefOffsets(s, size) = {}
  <2>1. CASE s.k = "blank"
    BY <2>1 DEF RefOffsets
  <2>2. CASE s.k = "from" /\ s.a >= size
    BY <1>1, <2>2 DEF RefOffsets
  <2>3. CASE s.k = "from-to" /\ s.a >= size
    BY <1>1, <2>3 DEF RefOffsets
  <2> QED
    BY <2>1, <2>2, <2>3 DEF Skipped, Beyond
<1> QED
  BY <1>2 DEF RefBytes

LEMMA PartsAppend ==
    ASSUME NEW ranges \in Seq(HttpRanges), NEW ra \in HttpRanges
    PROVE  /\ Parts(ranges) \in Seq(Nat)
           /\ Parts(Append(ranges, ra)) = Parts(ranges) \o Bytes(ra.start, ra.length)
<1> DEFINE B(rs) == [i \in DOMAIN rs |-> Bytes(rs[i].start, rs[i].length)]
<1>0. \A x \in HttpRanges : x.start \in Nat /\ x.length \in Nat
  BY DEF HttpRanges
<1>1. \A x \in HttpRanges : Bytes(x.start, x.length) \in Seq(Nat)
  BY <1>0, BytesAre
<1>2. B(ranges) \in Seq(Seq(Nat))
  <2>1. \A i \in DOMAIN ranges : ranges[i] \in HttpRanges
    OBVIOUS
  <2>2. \A i \in DOMAIN ranges : Bytes(ranges[i].start, ranges[i].length) \in Seq(Nat)
    BY <1>1, <2>1
  <2>3. DOMAIN ranges = 1 .. Len(ranges) /\ Len(ranges) \in Nat
    OBVIOUS
  <2> QED
    BY <2>2, <2>3
<1>3. B(Append(ranges, ra)) = Append(B(ranges), Bytes(ra.start, ra.length))
  <2> DEFINE n == Len(ranges)
             t == Append(ranges, ra)
             u == Append(B(ranges), Bytes(ra.start, ra.length))
  <2>1. /\ n \in Nat /\ DOMAIN ranges = 1 .. n /\ DOMAIN t = 1 .. n + 1
        /\ t[n + 1] = ra /\ \A i \in 1 .. n : t[i] = ranges[i]
    OBVIOUS
  <2>2. Len(B(ranges)) = n /\ \A i \in 1 .. n : B(ranges)[i] = Bytes(ranges[i].start, ranges[i].length)
    BY <2>1
  <2> DEFINE b == B(ranges)
             v == Bytes(ra.start, ra.length)
  <2>3. b \in Seq(Seq(Nat)) /\ v \in Seq(Nat) /\ Len(b) = n
    BY <1>1, <1>2, <2>2
  <2> HIDE DEF b, v
  <2>4. LET w == Append(b, v) IN
        /\ w \in Seq(Seq(Nat)) /\ DOMAIN w = 1 .. n + 1
        /\ w[n + 1] = v /\ \A i \in 1 .. n : w[i] = b[i]
    BY <2>1, <2>3
  <2>5. /\ DOMAIN u = 1 .. n + 1 /\ u = [i \in 1 .. n + 1 |-> u[i]] /\ u[n + 1] = v
        /\ \A i \in 1 .. n : u[i] = B(ranges)[i]
    BY <2>4 DEF b, v
  <2>6. \A i \in 1 .. n + 1 : i \in 1 .. n \/ i = n + 1
    BY <2>1
  <2> HIDE DEF u, t, n
  <2>7. \A i \in 1 .. n + 1 : Bytes(t[i].start, t[i].length) = u[i]
    BY <2>1, <2>2, <2>5, <2>6, Zenon DEF v
  <2>8. B(t) = [i \in 1 .. n + 1 |-> Bytes(t[i].start, t[i].length)]
    BY <2>1, Zenon
  <2>9. B(t) = u
    BY <2>5, <2>7, <2>8
  <2> QED
    BY <2>9, Zenon DEF t, u
<1>4. Parts(ranges) = FlattenSeq(B(ranges)) /\ Parts(Append(ranges, ra)) = FlattenSeq(B(Append(ranges, ra)))
  BY Zenon DEF Parts
<1> DEFINE b == B(ranges)
           v == Bytes(ra.start, ra.length)
<1>5. b \in Seq(Seq(Nat)) /\ v \in Seq(Nat)
  BY <1>1, <1>2
<1> HIDE DEF b, v
<1>6. FlattenSeq(b) \in Seq(Nat) /\ FlattenSeq(Append(b, v)) = FlattenSeq(b) \o v
  BY <1>5, FlattenAppend
<1> QED
  BY <1>3, <1>4, <1>6, Zenon DEF b, v

(* The ranges after i specs, against what the RFC asks for. *)
KeptSoFar(h, size, G, i) ==
    LET ranges == Kept(h, size)[i] IN
    /\ ranges \in Seq(HttpRanges)
    /\ Parts(ranges) = G[i] /\ SumRangesSize(ranges) = Len(G[i])
    /\ ranges = <<>> => \A j \in 1 .. i : Skipped(h[j], size)
    /\ Len(ranges) = 1 => \E j \in 1 .. i :
          /\ ~Skipped(h[j], size) /\ ranges[1] = RangeOf(h[j], size)
          /\ \A l \in (1 .. i) \ {j} : Skipped(h[l], size)

LEMMA KeptSkip ==
    ASSUME NEW h \in Seq(Specs), NEW size \in Nat, NEW G, NEW i \in 1 .. Len(h),
           KeptSoFar(h, size, G, i - 1), Skipped(h[i], size),
           G[i - 1] \in Seq(Nat), G[i] = G[i - 1] \o RefBytes(h[i], size)
    PROVE  KeptSoFar(h, size, G, i)
<1>1. i \in Nat /\ i - 1 \in Nat /\ (\A j \in 1 .. i : j = i \/ j \in 1 .. i - 1)
      /\ \A j \in 1 .. i - 1 : j # i /\ j \in 1 .. i
  OBVIOUS
<1>2. Kept(h, size)[i] = Kept(h, size)[i - 1]
  BY KeptRound
<1>3. G[i] = G[i - 1]
  <2>1. h[i] \in Specs
    OBVIOUS
  <2>2. RefBytes(h[i], size) = <<>>
    BY <2>1, SkippedPerRFC
  <2> QED
    BY <2>2
<1>4. PICK ranges : ranges = Kept(h, size)[i - 1]
  OBVIOUS
<1>5. /\ ranges \in Seq(HttpRanges)
      /\ Parts(ranges) = G[i] /\ SumRangesSize(ranges) = Len(G[i])
      /\ ranges = <<>> => \A j \in 1 .. i - 1 : Skipped(h[j], size)
      /\ Len(ranges) = 1 => \E j \in 1 .. i - 1 :
            /\ ~Skipped(h[j], size) /\ ranges[1] = RangeOf(h[j], size)
            /\ \A l \in (1 .. i - 1) \ {j} : Skipped(h[l], size)
  BY <1>3, <1>4, Zenon DEF KeptSoFar
<1>6. ranges = <<>> => \A j \in 1 .. i : Skipped(h[j], size)
  BY <1>1, <1>5, Zenon
<1>7. ASSUME Len(ranges) = 1
      PROVE  \E j \in 1 .. i :
                /\ ~Skipped(h[j], size) /\ ranges[1] = RangeOf(h[j], size)
                /\ \A l \in (1 .. i) \ {j} : Skipped(h[l], size)
  <2>1. PICK j \in 1 .. i - 1 :
            /\ ~Skipped(h[j], size) /\ ranges[1] = RangeOf(h[j], size)
            /\ \A l \in (1 .. i - 1) \ {j} : Skipped(h[l], size)
    BY <1>5, <1>7, Zenon
  <2>2. j \in 1 .. i
    BY <1>1, <2>1, Zenon
  <2>3. \A l \in (1 .. i) \ {j} : Skipped(h[l], size)
    <3>1. \A l \in (1 .. i) \ {j} : l = i \/ l \in (1 .. i - 1) \ {j}
      BY <1>1, Zenon
    <3> QED
      BY <2>1, <3>1, Zenon
  <2> QED
    BY <2>1, <2>2, <2>3, Zenon
<1> QED
  BY <1>2, <1>4, <1>5, <1>6, <1>7, Zenon DEF KeptSoFar

LEMMA KeptTake ==
    ASSUME NEW h \in Seq(Specs), NEW size \in Nat, NEW G, NEW i \in 1 .. Len(h),
           KeptSoFar(h, size, G, i - 1), ~Skipped(h[i], size), ~Invalid(h[i], size),
           h[i].a >= 0,
           G[i - 1] \in Seq(Nat), G[i] = G[i - 1] \o RefBytes(h[i], size)
    PROVE  KeptSoFar(h, size, G, i)
<1>1. i \in Nat /\ i - 1 \in Nat /\ i \in 1 .. i /\ (\A j \in 1 .. i : j = i \/ j \in 1 .. i - 1)
  OBVIOUS
<1>2. PICK ra : ra = RangeOf(h[i], size)
  OBVIOUS
<1>3. PICK old : old = Kept(h, size)[i - 1]
  OBVIOUS
<1>4. Kept(h, size)[i] = Append(old, ra)
  BY <1>2, <1>3, KeptRound
<1>5. ra \in HttpRanges /\ RefOffsets(h[i], size) = ra.start .. ra.start + ra.length - 1
  <2>1. h[i] \in Specs
    OBVIOUS
  <2> QED
    BY <1>2, <2>1, SpecPerRFC
<1>6. ra.start \in Nat /\ ra.length \in Nat
  BY <1>5 DEF HttpRanges
<1>7. RefBytes(h[i], size) = Bytes(ra.start, ra.length)
  BY <1>5, <1>6, IntervalBytes
<1>8. /\ old \in Seq(HttpRanges)
      /\ Parts(old) = G[i - 1] /\ SumRangesSize(old) = Len(G[i - 1])
      /\ old = <<>> => \A j \in 1 .. i - 1 : Skipped(h[j], size)
  BY <1>3, Zenon DEF KeptSoFar
<1>9. PICK new : new = Append(old, ra)
  OBVIOUS
<1>10. new \in Seq(HttpRanges) /\ new # <<>>
       /\ (Len(new) = 1 => old = <<>> /\ new[1] = ra)
  <2>1. \A s \in Seq(HttpRanges), x \in HttpRanges :
           /\ Append(s, x) \in Seq(HttpRanges) /\ Append(s, x) # <<>>
           /\ Len(Append(s, x)) = 1 => s = <<>> /\ Append(s, x)[1] = x
    <3> SUFFICES ASSUME NEW s \in Seq(HttpRanges), NEW x \in HttpRanges
                 PROVE  /\ Append(s, x) \in Seq(HttpRanges) /\ Append(s, x) # <<>>
                        /\ Len(Append(s, x)) = 1 => s = <<>> /\ Append(s, x)[1] = x
      OBVIOUS
    <3>1. /\ Append(s, x) \in Seq(HttpRanges) /\ Len(Append(s, x)) = Len(s) + 1
          /\ Append(s, x)[Len(s) + 1] = x /\ Len(s) \in Nat
      OBVIOUS
    <3>2. Append(s, x) # <<>>
      BY <3>1
    <3>3. ASSUME Len(Append(s, x)) = 1 PROVE s = <<>> /\ Append(s, x)[1] = x
      <4>1. Len(s) = 0
        BY <3>1, <3>3
      <4> QED
        BY <3>1, <4>1
    <3> QED
      BY <3>1, <3>2, <3>3
  <2> QED
    BY <1>5, <1>8, <1>9, <2>1, Zenon
<1>11. Parts(new) = G[i]
  <2>1. Parts(new) = Parts(old) \o Bytes(ra.start, ra.length)
    BY <1>5, <1>8, <1>9, PartsAppend, Zenon
  <2> QED
    BY <1>7, <1>8, <2>1, Zenon
<1>12. SumRangesSize(new) = Len(G[i])
  <2>1. SumRangesSize(new) = SumRangesSize(old) + ra.length
    BY <1>5, <1>8, <1>9, SumAppend, Zenon
  <2>2. Bytes(ra.start, ra.length) \in Seq(Nat) /\ Len(Bytes(ra.start, ra.length)) = ra.length
    BY <1>6, BytesAre
  <2>3. G[i] = G[i - 1] \o Bytes(ra.start, ra.length)
    BY <1>7
  <2>4. Len(G[i]) = Len(G[i - 1]) + ra.length
    <3>1. \A s, t \in Seq(Nat) : Len(s \o t) = Len(s) + Len(t)
      OBVIOUS
    <3> QED
      BY <2>2, <2>3, <3>1, Zenon
  <2> QED
    BY <1>8, <2>1, <2>4
<1>13. ASSUME Len(new) = 1
       PROVE  \E j \in 1 .. i :
                 /\ ~Skipped(h[j], size) /\ new[1] = RangeOf(h[j], size)
                 /\ \A l \in (1 .. i) \ {j} : Skipped(h[l], size)
  <2>1. \A l \in (1 .. i) \ {i} : Skipped(h[l], size)
    BY <1>1, <1>8, <1>10, <1>13, Zenon
  <2> QED
    BY <1>1, <1>2, <1>10, <1>13, <2>1, Zenon
<1> QED
  BY <1>4, <1>9, <1>10, <1>11, <1>12, <1>13, Zenon DEF KeptSoFar

LEMMA NoParts == Parts(<<>>) = <<>>
<1>1. [i \in DOMAIN <<>> |-> Bytes(<<>>[i].start, <<>>[i].length)] = <<>>
  OBVIOUS
<1> QED
  BY <1>1, FlattenEmpty, Zenon DEF Parts

LEMMA KeptPerRFC ==
    ASSUME NEW h \in Seq(Specs), NEW size \in Nat,
           \A i \in DOMAIN h : h[i].a >= 0 /\ ~Invalid(h[i], size)
    PROVE  \E G : /\ KeptSoFar(h, size, G, Len(h))
                  /\ G[Len(h)] = FlattenSeq([i \in DOMAIN h |-> RefBytes(h[i], size)])
                  /\ G[Len(h)] \in Seq(Nat)
<1> DEFINE n == Len(h)
           A == [i \in DOMAIN h |-> RefBytes(h[i], size)]
<1>1. n \in Nat /\ DOMAIN h = 1 .. n /\ \A i \in 1 .. n : h[i] \in Specs
  OBVIOUS
<1>2. ASSUME NEW i \in 1 .. n PROVE RefBytes(h[i], size) \in Seq(Nat)
  <2>1. CASE Skipped(h[i], size)
    <3>1. RefBytes(h[i], size) = <<>>
      BY <1>1, <2>1, SkippedPerRFC
    <3> QED
      BY <3>1
  <2>2. CASE ~Skipped(h[i], size)
    <3>1. PICK ra : ra = RangeOf(h[i], size)
      OBVIOUS
    <3>2. ra \in HttpRanges /\ RefOffsets(h[i], size) = ra.start .. ra.start + ra.length - 1
      BY <1>1, <2>2, <3>1, SpecPerRFC
    <3>3. ra.start \in Nat /\ ra.length \in Nat
      BY <3>2 DEF HttpRanges
    <3>4. RefBytes(h[i], size) = Bytes(ra.start, ra.length)
      BY <3>2, <3>3, IntervalBytes
    <3> QED
      BY <3>3, <3>4, BytesAre
  <2> QED
    BY <2>1, <2>2
<1>3. A \in Seq(Seq(Nat)) /\ Len(A) = n /\ \A i \in 1 .. n : A[i] = RefBytes(h[i], size)
  BY <1>1, <1>2
<1> HIDE DEF A
<1>4. PICK G \in [0 .. n -> Seq(Nat)] :
         /\ G[0] = <<>> /\ FlattenSeq(A) = G[n]
         /\ \A i \in 1 .. n : G[i] = G[i - 1] \o A[i]
  <2>1. \E G \in [0 .. Len(A) -> Seq(Nat)] :
         /\ G[0] = <<>> /\ FlattenSeq(A) = G[Len(A)]
         /\ \A i \in 1 .. Len(A) : G[i] = G[i - 1] \o A[i]
    BY <1>3, FlattenPrefixes
  <2> QED
    BY <1>3, <2>1, Zenon
<1> DEFINE T == {i \in 0 .. n : KeptSoFar(h, size, G, i)}
<1>5. 0 \in T
  <2>1. Kept(h, size)[0] = <<>>
    BY KeptRound
  <2>2. Parts(<<>>) = <<>>
    BY NoParts
  <2>3. SumRangesSize(<<>>) = Len(<<>>)
    BY SumEmpty
  <2>4. <<>> \in Seq(HttpRanges) /\ Len(<<>>) # 1 /\ 0 \in 0 .. n /\ \A j \in 1 .. 0 : FALSE
    BY <1>1
  <2>5. KeptSoFar(h, size, G, 0)
    BY <1>4, <2>1, <2>2, <2>3, <2>4, Zenon DEF KeptSoFar
  <2> QED
    BY <2>4, <2>5
<1>6. ASSUME NEW i \in 1 .. n, i - 1 \in T PROVE i \in T
  <2>1. KeptSoFar(h, size, G, i - 1) /\ i - 1 \in 0 .. n /\ i \in 0 .. n
    BY <1>1, <1>6
  <2>2. G[i - 1] \in Seq(Nat) /\ G[i] = G[i - 1] \o RefBytes(h[i], size)
    BY <1>3, <1>4, <2>1
  <2>3. KeptSoFar(h, size, G, i)
    <3>1. CASE Skipped(h[i], size)
      BY <2>1, <2>2, <3>1, KeptSkip, Zenon
    <3>2. CASE ~Skipped(h[i], size)
      <4>1. ~Invalid(h[i], size) /\ h[i].a >= 0
        BY <1>1
      <4> QED
        BY <2>1, <2>2, <3>2, <4>1, KeptTake, Zenon
    <3> QED
      BY <3>1, <3>2
  <2> QED
    BY <2>1, <2>3
<1>7. n \in T /\ n \in 0 .. n
  <2>1. n \in 0 .. n
    BY <1>1
  <2> HIDE DEF T
  <2>2. \A i \in 0 .. n : i \in T
    BY <1>1, <1>5, <1>6, Induction, Zenon
  <2> QED
    BY <2>1, <2>2, Zenon
<1>8. KeptSoFar(h, size, G, n)
  BY <1>7
<1>9. G[n] \in Seq(Nat)
  BY <1>4, <1>7
<1> QED
  BY <1>4, <1>8, <1>9, Zenon DEF n, A

-----------------------------------------------------------------------------
(* What serveContent answers to the requests of a client with a copy. *)

LEMMA NoPreconditions ==
    ASSUME NEW r, NEW mtime, r.im = <<>>, r.inm = <<>>, r.ius = None
    PROVE  CheckPreconditions(r, mtime) =
              IF CheckIfModifiedSince(r, mtime) = "false" THEN 304 ELSE 0
<1>1. CheckIfMatch(r.im) = "none"
  BY DEF CheckIfMatch
<1>2. CheckIfUnmodifiedSince(r, mtime) = "none"
  BY DEF CheckIfUnmodifiedSince
<1>3. CheckIfNoneMatch(r.inm) = "none"
  BY DEF CheckIfNoneMatch
<1> QED
  BY <1>1, <1>2, <1>3 DEF CheckPreconditions

LEMMA ParseNone ==
    ASSUME NEW size
    PROVE  ParseRange(<<>>, size) = [err |-> "", ranges |-> <<>>]
<1>1. DOMAIN <<>> = {} /\ Len(<<>>) = 0 /\ <<>> \in Seq(Specs)
  OBVIOUS
<1>2. Kept(<<>>, size)[0] = <<>>
  BY <1>1, KeptRound
<1> QED
  BY <1>1, <1>2, ParseDef, Zenon

LEMMA ParseFrom ==
    ASSUME NEW a \in Nat, NEW size \in Nat
    PROVE  LET p == ParseRange(<<From(a)>>, size) IN
           IF a >= size THEN p.err = "noOverlap"
           ELSE p = [err |-> "", ranges |-> <<[start |-> a, length |-> size - a]>>]
<1> DEFINE h == <<From(a)>>
<1>1. DOMAIN h = {1} /\ h[1] = From(a) /\ Len(h) = 1
  OBVIOUS
<1>2. h \in Seq(Specs)
  BY DEF From, Specs
<1> HIDE DEF h
<1>3. \A i \in DOMAIN h : ~Invalid(h[i], size)
  BY <1>1 DEF Invalid, From
<1>4. Beyond(h[1], size) <=> a >= size
  BY <1>1 DEF Beyond, From
<1>5. Skipped(h[1], size) <=> a >= size
  BY <1>1, <1>4 DEF Skipped, From
<1>6. RangeOf(h[1], size) = [start |-> a, length |-> size - a]
  BY <1>1 DEF RangeOf, From
<1>7. Kept(h, size)[1] = IF a >= size THEN <<>> ELSE <<[start |-> a, length |-> size - a]>>
  <2>1. 1 \in 1 .. Len(h) /\ 1 - 1 = 0
    BY <1>1
  <2>2. Kept(h, size)[1] = IF a >= size THEN <<>> ELSE Append(<<>>, RangeOf(h[1], size))
    <3>1. Kept(h, size)[0] = <<>>
      BY <1>2, KeptRound, Zenon
    <3>2. Kept(h, size)[1] = IF Skipped(h[1], size) THEN Kept(h, size)[1 - 1]
                             ELSE Append(Kept(h, size)[1 - 1], RangeOf(h[1], size))
      BY <1>2, <2>1, KeptRound, Zenon
    <3> QED
      BY <1>5, <2>1, <3>1, <3>2, Zenon
  <2>3. \A x : Append(<<>>, x) = <<x>>
    OBVIOUS
  <2> QED
    BY <1>6, <2>2, <2>3, Zenon
<1>8. CASE a >= size
  <2>1. ParseRange(h, size) = [err |-> "noOverlap", ranges |-> <<>>]
    BY <1>1, <1>3, <1>4, <1>7, <1>8, ParseDef, Zenon
  <2> QED
    BY <1>8, <2>1 DEF h
<1>9. CASE ~(a >= size)
  <2>1. ParseRange(h, size) = [err |-> "", ranges |-> Kept(h, size)[1]]
    BY <1>1, <1>3, <1>4, <1>9, ParseDef, Zenon
  <2> QED
    BY <1>7, <1>9, <2>1 DEF h
<1> QED
  BY <1>8, <1>9

LEMMA EmptyLength ==
    /\ ~(Len(<<>>) = 1) /\ ~(Len(<<>>) > 1)
    /\ \A s : Len(s) = 1 => ~(Len(s) > 1) /\ s # <<>>
  OBVIOUS

LEMMA ServedRanges ==
    ASSUME NEW r, NEW f, NEW p, NEW ranges, 
           p = ParseRange(RangeHeader(r, f.mtime), f.size), p.err = "",
           ranges = IF SumRangesSize(p.ranges) > f.size THEN <<>> ELSE p.ranges
    PROVE  /\ ranges = <<>> => ServeRanges(r, f) = Sent(r, 200, f.size, Whole(f))
           /\ Len(ranges) = 1 => ServeRanges(r, f) = OneRange(r, f, ranges[1])
<1>1. ServeRanges(r, f) =
        CASE p.err # "" -> Reply(416, <<>>)
          [] p.err = "" /\ Len(ranges) = 1 -> OneRange(r, f, ranges[1])
          [] p.err = "" /\ Len(ranges) > 1 -> Sent(r, 206, SumRangesSize(ranges), Parts(ranges))
          [] p.err = "" /\ ranges = <<>> -> Sent(r, 200, f.size, Whole(f))
  BY Zenon DEF ServeRanges
<1>3. ASSUME ranges = <<>> PROVE ServeRanges(r, f) = Sent(r, 200, f.size, Whole(f))
  <2>1. ~(Len(ranges) = 1) /\ ~(Len(ranges) > 1)
    BY <1>3, EmptyLength, Zenon
  <2> QED 
    BY <1>1, <1>3, <2>1, Zenon
<1>4. ASSUME Len(ranges) = 1 PROVE ServeRanges(r, f) = OneRange(r, f, ranges[1])
  <2>1. ~(Len(ranges) > 1) /\ ranges # <<>>
    BY <1>4, EmptyLength, Zenon
  <2> QED 
    BY <1>1, <1>4, <2>1, Zenon
<1> QED
  BY <1>3, <1>4

LEMMA ServedWhole ==
    ASSUME NEW r, NEW f, NEW p,
           p = ParseRange(RangeHeader(r, f.mtime), f.size), p.err = "",
           SumRangesSize(p.ranges) > f.size \/ p.ranges = <<>>
    PROVE  ServeRanges(r, f) = Sent(r, 200, f.size, Whole(f))
<1>1. (IF SumRangesSize(p.ranges) > f.size THEN <<>> ELSE p.ranges) = <<>>
  BY Zenon
<1> QED
  BY <1>1, ServedRanges, ZenonT(40)

LEMMA ServedOne ==
    ASSUME NEW r, NEW f, NEW p, NEW ra,
           p = ParseRange(RangeHeader(r, f.mtime), f.size), p.err = "",
           ~(SumRangesSize(p.ranges) > f.size), p.ranges = <<ra>>
    PROVE  ServeRanges(r, f) = OneRange(r, f, ra)
<1>1. (IF SumRangesSize(p.ranges) > f.size THEN <<>> ELSE p.ranges) = p.ranges
  BY Zenon
<1>2. Len(<<ra>>) = 1 /\ <<ra>>[1] = ra
  OBVIOUS
<1>3. Len(p.ranges) = 1 => ServeRanges(r, f) = OneRange(r, f, p.ranges[1])
  BY <1>1, ServedRanges, ZenonT(40)
<1> QED
  BY <1>2, <1>3, Zenon

LEMMA ManyLength ==
    ASSUME NEW s \in Seq(HttpRanges), Len(s) > 1
    PROVE  Len(s) # 1 /\ s # <<>>
<1>1. PICK n \in Nat : n = Len(s)
  OBVIOUS
<1>2. n # 1
  BY <1>1
<1>3. s # <<>>
  OBVIOUS
<1> QED
  BY <1>1, <1>2, <1>3, Zenon

LEMMA ServedMany ==
    ASSUME NEW r, NEW f, NEW p,
           p = ParseRange(RangeHeader(r, f.mtime), f.size), p.err = "",
           ~(SumRangesSize(p.ranges) > f.size), p.ranges \in Seq(HttpRanges), Len(p.ranges) > 1
    PROVE  ServeRanges(r, f) = Sent(r, 206, SumRangesSize(p.ranges), Parts(p.ranges))
<1>1. PICK ranges : ranges = p.ranges
  OBVIOUS
<1>2. ranges = IF SumRangesSize(p.ranges) > f.size THEN <<>> ELSE p.ranges
  BY <1>1, Zenon
<1>3. ServeRanges(r, f) =
        CASE p.err # "" -> Reply(416, <<>>)
          [] p.err = "" /\ Len(ranges) = 1 -> OneRange(r, f, ranges[1])
          [] p.err = "" /\ Len(ranges) > 1 -> Sent(r, 206, SumRangesSize(ranges), Parts(ranges))
          [] p.err = "" /\ ranges = <<>> -> Sent(r, 200, f.size, Whole(f))
  BY <1>2, Zenon DEF ServeRanges
<1>4. Len(ranges) > 1 /\ Len(ranges) # 1 /\ ranges # <<>>
  BY <1>1, ManyLength, Zenon
<1> QED
  BY <1>1, <1>3, <1>4, Zenon

LEMMA ServedError ==
    ASSUME NEW r, NEW f, ParseRange(RangeHeader(r, f.mtime), f.size).err # ""
    PROVE  ServeRanges(r, f) = Reply(416, <<>>)
  BY Zenon DEF ServeRanges

(* serveContent sends what the RFC says that the header asks for. *)
RangesServed(r, f, h) ==
    LET resp == ServeRanges(r, f)
        asked == FlattenSeq([i \in DOMAIN h |-> RefBytes(h[i], f.size)])
        satisfiable == {i \in DOMAIN h : RefOffsets(h[i], f.size) # {}}
    IN  CASE resp.code = 206 ->
                \/ resp.body = asked
                \/ Cardinality(satisfiable) = 1 /\ Last(asked) < f.size - 1 /\ resp.body = <<>>
          [] resp.code = 416 ->
                satisfiable = {} \/ \E i \in DOMAIN h : Invalid(h[i], f.size)
          [] resp.code = 200 ->
                resp.body = Bytes(0, f.size) /\ (satisfiable = {} \/ Len(asked) > f.size)

LEMMA ReplyFields == \A c, b : Reply(c, b).code = c /\ Reply(c, b).body = b
  BY DEF Reply

LEMMA RangesDecide ==
    ASSUME NEW r \in Requests, NEW f \in FileInfos, r.method # "HEAD",
           NEW h, h = RangeHeader(r, f.mtime), \A i \in DOMAIN h : ~(h[i].a < 0)
    PROVE  RangesServed(r, f, h)
<1> DEFINE size == f.size
           p == ParseRange(h, size)
           ranges == Kept(h, size)[Len(h)]
           resp == ServeRanges(r, f)
           asked == FlattenSeq([i \in DOMAIN h |-> RefBytes(h[i], size)])
           satisfiable == {i \in DOMAIN h : RefOffsets(h[i], size) # {}}
<1>1. h \in Seq(Specs) /\ size \in Nat /\ DOMAIN h = 1 .. Len(h)
  <2>1. r.range \in Seq(Specs) /\ <<>> \in Seq(Specs)
    BY DEF Requests
  <2>2. h \in Seq(Specs)
    BY <2>1 DEF RangeHeader
  <2> QED
    BY <2>2 DEF FileInfos
<1>2. \A i \in DOMAIN h : h[i] \in Specs /\ h[i].a >= 0
  <2>1. \A i \in DOMAIN h : h[i] \in Specs
    BY <1>1
  <2>2. \A i \in DOMAIN h : h[i].a \in Int
    BY <2>1 DEF Specs
  <2> QED
    BY <2>1, <2>2
<1>3. resp = Reply(416, <<>>) /\ (satisfiable = {} \/ \E i \in DOMAIN h : Invalid(h[i], size))
         => RangesServed(r, f, h)
  <2> SUFFICES ASSUME resp = Reply(416, <<>>),
                      satisfiable = {} \/ \E i \in DOMAIN h : Invalid(h[i], size)
               PROVE  RangesServed(r, f, h)
    OBVIOUS
  <2>1. resp.code = 416 /\ resp.code # 206 /\ resp.code # 200
    BY ReplyFields
  <2> QED
    BY <2>1, Zenon DEF RangesServed
<1>4. resp = Reply(200, Bytes(0, size)) /\ (satisfiable = {} \/ Len(asked) > size)
         => RangesServed(r, f, h)
  <2> SUFFICES ASSUME resp = Reply(200, Bytes(0, size)), satisfiable = {} \/ Len(asked) > size
               PROVE  RangesServed(r, f, h)
    OBVIOUS
  <2>1. resp.code = 200 /\ resp.code # 206 /\ resp.code # 416 /\ resp.body = Bytes(0, size)
    BY ReplyFields
  <2> QED
    BY <2>1, Zenon DEF RangesServed
<1>5. ASSUME NEW b, resp = Reply(206, b),
             \/ b = asked
             \/ Cardinality(satisfiable) = 1 /\ Last(asked) < size - 1 /\ b = <<>>
      PROVE  RangesServed(r, f, h)
  <2>1. resp.code = 206 /\ resp.code # 416 /\ resp.code # 200 /\ resp.body = b
    BY <1>5, ReplyFields
  <2> QED
    BY <1>5, <2>1, Zenon DEF RangesServed
<1>6. p = ParseRange(RangeHeader(r, f.mtime), f.size)
  OBVIOUS
<1> HIDE DEF p, resp, asked, satisfiable, ranges, size
<1>7. CASE \E i \in DOMAIN h : Invalid(h[i], size)
  <2>1. p = [err |-> "invalid", ranges |-> <<>>]
    BY <1>7, ParseDef, Zenon DEF p
  <2>2. p.err # ""
    BY <2>1
  <2>3. resp = Reply(416, <<>>)
    BY <1>6, <2>2, ServedError, Zenon DEF resp
  <2> QED
    BY <1>3, <1>7, <2>3
<1>8. CASE \A i \in DOMAIN h : ~Invalid(h[i], size)
  <2>1. PICK G : KeptSoFar(h, size, G, Len(h)) /\ G[Len(h)] = asked /\ G[Len(h)] \in Seq(Nat)
    BY <1>1, <1>2, <1>8, KeptPerRFC, Zenon DEF asked
  <2>2. /\ ranges \in Seq(HttpRanges) /\ asked \in Seq(Nat)
        /\ Parts(ranges) = asked /\ SumRangesSize(ranges) = Len(asked)
        /\ ranges = <<>> => \A j \in DOMAIN h : Skipped(h[j], size)
        /\ Len(ranges) = 1 => \E j \in DOMAIN h :
              /\ ~Skipped(h[j], size) /\ ranges[1] = RangeOf(h[j], size)
              /\ \A l \in DOMAIN h \ {j} : Skipped(h[l], size)
    BY <1>1, <2>1, Zenon DEF KeptSoFar, ranges
  <2>3. \A j \in DOMAIN h : Skipped(h[j], size) => j \notin satisfiable
    BY <1>1, <1>2, SkippedPerRFC DEF satisfiable
  <2>4. ranges = <<>> => satisfiable = {}
    BY <2>2, <2>3 DEF satisfiable
  <2>5. CASE ranges = <<>> /\ \E i \in DOMAIN h : Beyond(h[i], size)
    <3>1. p = [err |-> "noOverlap", ranges |-> <<>>]
      BY <1>8, <2>5, ParseDef, Zenon DEF p, ranges
    <3>2. p.err # ""
      BY <3>1
    <3>3. resp = Reply(416, <<>>)
      BY <1>6, <3>2, ServedError, Zenon DEF resp, size
    <3> QED
      BY <1>3, <2>4, <2>5, <3>3
  <2>6. CASE ~(ranges = <<>> /\ \E i \in DOMAIN h : Beyond(h[i], size))
    <3>1. p = [err |-> "", ranges |-> ranges]
      BY <1>8, <2>6, ParseDef, Zenon DEF p, ranges
    <3>2. p.err = "" /\ p.ranges = ranges
      <4>1. \A x : LET q == [err |-> "", ranges |-> x] IN q.err = "" /\ q.ranges = x
        OBVIOUS
      <4> QED
        BY <3>1, <4>1, Zenon
    <3>3. Sent(r, 200, f.size, Whole(f)) = Reply(200, Bytes(0, size))
      <4>1. Len(Bytes(0, size)) = size /\ 0 \in Nat
        BY <1>1, BytesAre
      <4>2. ~(Len(Bytes(0, size)) > size)
        BY <1>1, <4>1
      <4> QED
        BY <4>2, Zenon DEF Sent, Whole, size
    <3>4. CASE SumRangesSize(ranges) > size
      <4>1. resp = Reply(200, Bytes(0, size))
        BY <1>6, <3>2, <3>3, <3>4, ServedWhole, Zenon DEF resp, size
      <4>2. Len(asked) > size
        BY <2>2, <3>4, Zenon
      <4> QED
        BY <1>4, <4>1, <4>2
    <3>5. CASE ranges = <<>>
      <4>1. resp = Reply(200, Bytes(0, size))
        BY <1>6, <3>2, <3>3, <3>5, ServedWhole, Zenon DEF resp, size
      <4> QED
        BY <1>4, <2>4, <3>5, <4>1
    <3>6. CASE ~(SumRangesSize(ranges) > size) /\ Len(ranges) = 1
      <4>1. PICK j \in DOMAIN h :
              /\ ~Skipped(h[j], size) /\ ranges[1] = RangeOf(h[j], size)
              /\ \A l \in DOMAIN h \ {j} : Skipped(h[l], size)
        BY <2>2, <3>6, Zenon
      <4>2. PICK ra : ra = ranges[1]
        OBVIOUS
      <4>3. /\ ra \in HttpRanges /\ ra.start + ra.length <= size
            /\ ra.start + ra.length < size => ra.length > 0
            /\ RefOffsets(h[j], size) = ra.start .. ra.start + ra.length - 1
        BY <1>1, <1>2, <1>8, <4>1, <4>2, SpecPerRFC
      <4>4. ra.start \in Nat /\ ra.length \in Nat
        BY <4>3 DEF HttpRanges
      <4>5. ranges = <<ra>>
        BY <2>2, <3>6, <4>2
      <4>6. resp = OneRange(r, f, ra)
        BY <1>6, <3>2, <3>6, <4>5, ServedOne, Zenon DEF resp, size
      <4>7. asked = Bytes(ra.start, ra.length)
        <5>1. <<>> \in Seq(HttpRanges) /\ Append(<<>>, ra) = <<ra>>
          OBVIOUS
        <5>2. Parts(<<>>) = <<>>
          BY NoParts
        <5>3. Parts(<<ra>>) = Parts(<<>>) \o Bytes(ra.start, ra.length)
          BY <4>3, <5>1, PartsAppend, Zenon
        <5>4. Bytes(ra.start, ra.length) \in Seq(Nat)
          BY <4>4, BytesAre
        <5>5. \A s \in Seq(Nat) : <<>> \o s = s
          OBVIOUS
        <5> QED
          BY <2>2, <4>5, <5>2, <5>3, <5>4, <5>5, Zenon
      <4>8. PICK n \in Nat : n = size - ra.start
        BY <1>1, <4>3, <4>4
      <4>9. OneRange(r, f, ra) =
               Reply(206, IF n > ra.length THEN <<>> ELSE Bytes(ra.start, n))
        <5>1. ~(ra.start > f.size) /\ f.size - ra.start = n
          BY <1>1, <4>3, <4>4, <4>8 DEF size
        <5>2. Len(Bytes(ra.start, n)) = n
          BY <4>4, BytesAre
        <5> QED
          BY <5>1, <5>2, Zenon DEF OneRange, Sent
      <4>10. CASE n > ra.length
        <5>1. ra.start + ra.length < size /\ ra.length > 0
          BY <1>1, <4>3, <4>4, <4>8, <4>10
        <5>2. Last(asked) = ra.start + ra.length - 1
          BY <4>4, <4>7, <5>1, BytesAre
        <5>3. Last(asked) < size - 1
          BY <1>1, <4>4, <5>1, <5>2
        <5>4. j \in satisfiable
          <6>1. ra.start \in RefOffsets(h[j], size)
            BY <4>3, <4>4, <5>1
          <6> QED
            BY <6>1 DEF satisfiable
        <5>5. satisfiable = {j}
          <6>1. satisfiable \subseteq DOMAIN h
            BY DEF satisfiable
          <6> QED
            BY <2>3, <4>1, <5>4, <6>1, Zenon
        <5>6. Cardinality(satisfiable) = 1
          BY <5>5, FS_Singleton
        <5>7. resp = Reply(206, <<>>)
          BY <4>6, <4>9, <4>10, Zenon
        <5> QED
          BY <1>5, <5>3, <5>6, <5>7
      <4>11. CASE ~(n > ra.length)
        <5>1. n = ra.length
          BY <1>1, <4>3, <4>4, <4>8, <4>11
        <5>2. resp = Reply(206, asked)
          BY <4>6, <4>7, <4>9, <4>11, <5>1, Zenon
        <5> QED
          BY <1>5, <5>2
      <4> QED
        BY <4>10, <4>11
    <3>7. CASE ~(SumRangesSize(ranges) > size) /\ Len(ranges) > 1
      <4>1. resp = Sent(r, 206, SumRangesSize(ranges), Parts(ranges))
        BY <1>6, <2>2, <3>2, <3>7, ServedMany, Zenon DEF resp, size
      <4>2. ~(Len(asked) > Len(asked))
        BY <2>2
      <4>3. resp = Reply(206, asked)
        BY <2>2, <4>1, <4>2, Zenon DEF Sent
      <4> QED
        BY <1>5, <4>3
    <3>8. ranges = <<>> \/ Len(ranges) = 1 \/ Len(ranges) > 1
      <4>1. \A s \in Seq(HttpRanges) : Len(s) \in Nat /\ (Len(s) = 0 => s = <<>>)
        OBVIOUS
      <4>2. Len(ranges) \in Nat /\ (Len(ranges) = 0 => ranges = <<>>)
        BY <2>2, <4>1, Zenon
      <4>3. \A k \in Nat : k = 0 \/ k = 1 \/ k > 1
        OBVIOUS
      <4> QED
        BY <4>2, <4>3, Zenon
    <3> QED
      BY <3>4, <3>5, <3>6, <3>7, <3>8
  <2> QED
    BY <2>5, <2>6
<1> QED
  BY <1>7, <1>8

LEMMA WholeAnswer ==
    ASSUME NEW r, NEW f, r.method = "GET", f.size \in Nat, RangeHeader(r, f.mtime) = <<>>
    PROVE  ServeRanges(r, f) = Reply(200, Bytes(0, f.size))
<1>1. ParseRange(RangeHeader(r, f.mtime), f.size) = [err |-> "", ranges |-> <<>>]
  BY ParseNone
<1>2. Len(Bytes(0, f.size)) = f.size
  BY DEF Bytes
<1>3. Sent(r, 200, f.size, Whole(f)) = Reply(200, Bytes(0, f.size))
  BY <1>2 DEF Sent, Whole
<1>4. ServeRanges(r, f) = Sent(r, 200, f.size, Whole(f))
  <2>1. [err |-> "", ranges |-> <<>>].err = "" /\ [err |-> "", ranges |-> <<>>].ranges = <<>>
    OBVIOUS
  <2> QED
    BY <1>1, <2>1, ServedWhole, Zenon
<1> QED
  BY <1>3, <1>4

(* What may come for the rest of a file from byte a on. *)
RestOf(a, size) ==
    {Reply(200, Bytes(0, size)), Reply(416, <<>>)}
        \cup (IF a < size THEN {Reply(206, Bytes(a, size - a))} ELSE {})

LEMMA RestAnswer ==
    ASSUME NEW r, NEW f, NEW a \in Nat, r.method = "GET", f.size \in Nat,
           RangeHeader(r, f.mtime) = <<From(a)>>
    PROVE  ServeRanges(r, f) \in RestOf(a, f.size)
<1> DEFINE p == ParseRange(<<From(a)>>, f.size)
           ra == [start |-> a, length |-> f.size - a]
<1>1. Len(Bytes(0, f.size)) = f.size
  BY DEF Bytes
<1>2. Sent(r, 200, f.size, Whole(f)) = Reply(200, Bytes(0, f.size))
  BY <1>1 DEF Sent, Whole
<1>3. CASE a >= f.size
  <2>1. p.err = "noOverlap"
    BY <1>3, ParseFrom
  <2>2. ServeRanges(r, f) = Reply(416, <<>>)
    BY <2>1 DEF ServeRanges
  <2> QED
    BY <2>2 DEF RestOf
<1>4. CASE ~(a >= f.size)
  <2>1. p = [err |-> "", ranges |-> <<ra>>]
    BY <1>4, ParseFrom
  <2>2. a < f.size /\ f.size - a \in Nat /\ ~(a > f.size)
    BY <1>4
  <2>3. Len(Bytes(a, f.size - a)) = f.size - a
    BY <2>2 DEF Bytes
  <2>4. OneRange(r, f, ra) = Reply(206, Bytes(a, f.size - a))
    BY <2>2, <2>3 DEF OneRange, Sent
  <2> HIDE DEF p, ra
  <2>5. p.err = "" /\ p.ranges = <<ra>>
    <3>1. \A x : LET q == [err |-> "", ranges |-> x] IN q.err = "" /\ q.ranges = x
      OBVIOUS
    <3> QED
      BY <2>1, <3>1, Zenon
  <2>6. CASE SumRangesSize(p.ranges) > f.size
    <3>1. ServeRanges(r, f) = Sent(r, 200, f.size, Whole(f))
      BY <2>5, <2>6, ServedWhole, Zenon DEF p
    <3> QED
      BY <1>2, <3>1 DEF RestOf
  <2>7. CASE ~(SumRangesSize(p.ranges) > f.size)
    <3>1. ServeRanges(r, f) = OneRange(r, f, ra)
      BY <2>5, <2>7, ServedOne, Zenon DEF p
    <3> QED
      BY <2>2, <2>4, <3>1 DEF RestOf
  <2> QED
    BY <2>6, <2>7
<1> QED
  BY <1>3, <1>4

LEMMA PlainAnswer ==
    ASSUME NEW f, f.size \in Nat
    PROVE  ServeContent(Plain, f) = Reply(200, Bytes(0, f.size))
<1>1. CheckPreconditions(Plain, f.mtime) = 0
  BY NoPreconditions DEF Plain, CheckIfModifiedSince
<1>2. RangeHeader(Plain, f.mtime) = <<>> /\ Plain.method = "GET"
  BY DEF Plain, RangeHeader
<1> QED
  BY <1>1, <1>2, WholeAnswer DEF ServeContent

(* If-Range: the rest comes only if the date is that of the file. *)
LEMMA ResumeAnswer ==
    ASSUME NEW f, f.size \in Nat, f.mtime \in Nat, NEW a \in Nat, NEW lm \in Nat
    PROVE  LET resp == ServeContent([Plain EXCEPT !.range = <<From(a)>>, !.ifRange = lm], f) IN
           /\ resp \in RestOf(a, f.size)
           /\ Sec(f.mtime) # lm => resp = Reply(200, Bytes(0, f.size))
<1> DEFINE r == [Plain EXCEPT !.range = <<From(a)>>, !.ifRange = lm]
<1>1. /\ r.method = "GET" /\ r.im = <<>> /\ r.inm = <<>> /\ r.ius = None /\ r.ims = None
      /\ r.range = <<From(a)>> /\ r.ifRange = lm
  BY DEF Plain
<1> HIDE DEF r
<1>2. CheckPreconditions(r, f.mtime) = 0
  BY <1>1, NoPreconditions DEF CheckIfModifiedSince
<1>3. ServeContent(r, f) = ServeRanges(r, f)
  BY <1>2 DEF ServeContent
<1>4. CheckIfRange(r, f.mtime) = IF Sec(f.mtime) # lm THEN "false" ELSE "true"
  BY <1>1 DEF CheckIfRange, Safe, None, Tag, Bad
<1>5. RangeHeader(r, f.mtime) = IF Sec(f.mtime) # lm THEN <<>> ELSE <<From(a)>>
  BY <1>1, <1>4 DEF RangeHeader
<1>6. CASE Sec(f.mtime) # lm
  <2>1. ServeContent(r, f) = Reply(200, Bytes(0, f.size))
    BY <1>1, <1>3, <1>5, <1>6, WholeAnswer
  <2> QED
    BY <1>6, <2>1 DEF r, RestOf
<1>7. CASE Sec(f.mtime) = lm
  <2>1. ServeContent(r, f) \in RestOf(a, f.size)
    BY <1>1, <1>3, <1>5, <1>7, RestAnswer
  <2> QED
    BY <1>7, <2>1 DEF r
<1> QED
  BY <1>6, <1>7

(* If-Modified-Since: 304 only if the file is not newer. *)
LEMMA RevalidateAnswer ==
    ASSUME NEW f, f.size \in Nat, f.mtime \in Nat, NEW lm \in Nat
    PROVE  LET resp == ServeContent([Plain EXCEPT !.ims = lm], f) IN
           \/ resp = Reply(200, Bytes(0, f.size))
           \/ resp = Reply(304, <<>>) /\ f.mtime < 2 * (lm + 1)
<1> DEFINE r == [Plain EXCEPT !.ims = lm]
<1>1. /\ r.method = "GET" /\ r.im = <<>> /\ r.inm = <<>> /\ r.ius = None /\ r.ims = lm
      /\ r.range = <<>>
  BY DEF Plain
<1> HIDE DEF r
<1>2. RangeHeader(r, f.mtime) = <<>>
  BY <1>1 DEF RangeHeader
<1>3. CASE CheckIfModifiedSince(r, f.mtime) = "false"
  <2>1. f.mtime < 2 * (lm + 1)
    BY <1>1, <1>3 DEF CheckIfModifiedSince, Unmodified
  <2>2. ServeContent(r, f) = Reply(304, <<>>)
    BY <1>1, <1>3, NoPreconditions DEF ServeContent
  <2> QED
    BY <2>1, <2>2 DEF r
<1>4. CASE CheckIfModifiedSince(r, f.mtime) # "false"
  <2>1. ServeContent(r, f) = ServeRanges(r, f)
    BY <1>1, <1>4, NoPreconditions DEF ServeContent
  <2> QED
    BY <1>1, <1>2, <2>1, WholeAnswer DEF r
<1> QED
  BY <1>3, <1>4

-----------------------------------------------------------------------------
(* The copy. *)

LEMMA SecFacts ==
    \A t \in Nat : /\ Sec(t) \in Nat /\ 2 * Sec(t) <= t
                   /\ LastModified(t) \in Nat \cup {None} /\ LastModified(t) <= Sec(t)
  BY DEF Sec, LastModified, IsZeroTime, None

LEMMA PutBehind ==
    ASSUME NEW s \in Seq(Releases), NEW v \in Releases, NEW n \in Nat
    PROVE  LET b == s \o [i \in 1 .. n |-> v] IN
           /\ b \in Seq(Releases) /\ Len(b) = Len(s) + n
           /\ (\A i \in 1 .. Len(s) : s[i] = v) => \A i \in 1 .. Len(b) : b[i] = v
<1> DEFINE more == [i \in 1 .. n |-> v]
<1>1. more \in Seq(Releases) /\ Len(more) = n /\ \A i \in 1 .. n : more[i] = v
  OBVIOUS
<1> HIDE DEF more
<1>2. s \o more \in Seq(Releases) /\ Len(s \o more) = Len(s) + n
  BY <1>1
<1>3. ASSUME \A i \in 1 .. Len(s) : s[i] = v, NEW i \in 1 .. Len(s) + n
      PROVE  (s \o more)[i] = v
  <2>1. CASE i <= Len(s)
    BY <1>1, <1>3, <2>1
  <2>2. CASE i > Len(s)
    <3>1. i - Len(s) \in 1 .. n /\ (s \o more)[i] = more[i - Len(s)]
      BY <1>1, <2>2
    <3> QED
      BY <1>1, <3>1
  <2>3. i <= Len(s) \/ i > Len(s)
    OBVIOUS
  <2> QED
    BY <2>1, <2>2, <2>3, Zenon
<1> QED
  BY <1>2, <1>3 DEF more

(* The lengths of what may be sent. *)
LEMMA BytesLength == \A start \in Nat, n \in Nat : Len(Bytes(start, n)) = n
  BY DEF Bytes

(* A request is answered with the whole file; or, if the copy is of what is on
   disk, with the rest of it, with "not modified" when it is complete, or with
   a refusal. *)
Served(resp, size, c, d, surely) ==
    \/ resp = Reply(200, Bytes(0, size))
    \/ /\ surely => c.of = d.ver
       /\ \/ resp = Reply(416, <<>>)
          \/ resp = Reply(304, <<>>) /\ c.done
          \/ /\ Len(c.bytes) < size
             /\ resp = Reply(206, Bytes(Len(c.bytes), size - Len(c.bytes)))

LEMMA AskStep ==
    ASSUME ServerTyped, CopyInv, who = "client", NEW r, Ask(r),
           Served(ServeContent(r, [size |-> Sizes[disk[Wasm].ver], mtime |-> disk[Wasm].mtime]),
                  Sizes[disk[Wasm].ver], copy, disk[Wasm], ~coarse)
    PROVE  CopyInv'
<1> DEFINE f == [size |-> Sizes[disk[Wasm].ver], mtime |-> disk[Wasm].mtime]
           resp == ServeContent(r, f)
           kept == IF resp.code = 200 THEN <<>> ELSE copy.bytes
           ver == disk[Wasm].ver
           size == Sizes[ver]
<1>1. PICK n \in 0 .. Len(resp.body) :
         copy' = [bytes |-> kept \o [i \in 1 .. n |-> ver],
                  lm |-> LastModified(f.mtime), of |-> ver,
                  done |-> n = Len(resp.body) /\ resp.code \in {200, 206, 304}]
  BY DEF Ask
<1>2. UNCHANGED <<who, disk, coarse>>
  BY DEF Ask, srvVars
<1>3. ver \in Releases /\ ver \in Nat /\ ver # 0 /\ size \in Nat /\ disk[Wasm].mtime \in Nat
  BY ReleaseNumbers, BoundAssumption DEF ServerTyped
<1>4. copy.bytes \in Seq(Releases) /\ Len(copy.bytes) \in Nat
  BY DEF CopyInv, CopyTyped
<1>5. Served(resp, size, copy, disk[Wasm], ~coarse)
  OBVIOUS
<1>6. LastModified(f.mtime) \in Nat \cup {None} /\ f.mtime = disk[Wasm].mtime
  BY <1>3, SecFacts
<1> HIDE DEF f, resp, ver, size
<1>7. /\ Len(resp.body) \in Nat /\ kept \in Seq(Releases)
      /\ ~coarse => \A i \in 1 .. Len(kept) : kept[i] = ver
      /\ ~coarse /\ resp.code \in {200, 206, 304} => Len(kept) + Len(resp.body) = size
  <2>1. CASE resp = Reply(200, Bytes(0, size))
    <3>1. resp.code = 200 /\ Len(resp.body) = size
      BY <1>3, <2>1, BytesLength DEF Reply
    <3>2. kept = <<>>
      BY <3>1
    <3> QED
      BY <1>3, <3>1, <3>2
  <2>2. CASE resp # Reply(200, Bytes(0, size))
    <3>1. /\ ~coarse => copy.of = ver
          /\ \/ resp = Reply(416, <<>>)
             \/ resp = Reply(304, <<>>) /\ copy.done
             \/ /\ Len(copy.bytes) < size
                /\ resp = Reply(206, Bytes(Len(copy.bytes), size - Len(copy.bytes)))
      BY <1>5, <2>2 DEF Served, ver
    <3>2. ~coarse => /\ \A i \in 1 .. Len(copy.bytes) : copy.bytes[i] = ver
                     /\ copy.done => Len(copy.bytes) = size
      BY <3>1 DEF CopyInv, Exact, size
    <3>3. CASE resp = Reply(416, <<>>)
      <4>1. resp.code = 416 /\ Len(resp.body) = 0
        BY <3>3 DEF Reply
      <4>2. kept = copy.bytes
        BY <4>1
      <4> QED
        BY <1>4, <3>2, <4>1, <4>2
    <3>4. CASE resp = Reply(304, <<>>) /\ copy.done
      <4>1. resp.code = 304 /\ Len(resp.body) = 0
        BY <3>4 DEF Reply
      <4>2. kept = copy.bytes
        BY <4>1
      <4>3. ~coarse => Len(copy.bytes) = size
        BY <3>2, <3>4
      <4> QED
        BY <1>3, <1>4, <3>2, <4>1, <4>2, <4>3
    <3>5. CASE /\ Len(copy.bytes) < size
               /\ resp = Reply(206, Bytes(Len(copy.bytes), size - Len(copy.bytes)))
      <4>1. resp.code = 206 /\ resp.body = Bytes(Len(copy.bytes), size - Len(copy.bytes))
        BY <3>5 DEF Reply
      <4>2. size - Len(copy.bytes) \in Nat
        BY <1>3, <1>4, <3>5
      <4>3. Len(resp.body) = size - Len(copy.bytes)
        BY <1>4, <4>1, <4>2, BytesLength
      <4>4. kept = copy.bytes
        BY <4>1
      <4> QED
        BY <1>3, <1>4, <3>2, <4>2, <4>3, <4>4
    <3> QED
      BY <3>1, <3>3, <3>4, <3>5
  <2> QED
    BY <2>1, <2>2
<1> HIDE DEF kept
<1>8. n \in Nat /\ Len(kept) \in Nat
  BY <1>7
<1> DEFINE bytes == kept \o [i \in 1 .. n |-> ver]
<1>9. /\ bytes \in Seq(Releases) /\ Len(bytes) = Len(kept) + n
      /\ ~coarse => \A i \in 1 .. Len(bytes) : bytes[i] = ver
  BY <1>3, <1>7, <1>8, PutBehind
<1> HIDE DEF bytes
<1>10. /\ copy'.bytes = bytes /\ copy'.lm = LastModified(f.mtime) /\ copy'.of = ver
       /\ copy'.done = (n = Len(resp.body) /\ resp.code \in {200, 206, 304})
       /\ copy' \in [bytes : Seq(Releases), lm : Nat \cup {None}, of : Releases \cup {0},
                     done : BOOLEAN]
  BY <1>1, <1>3, <1>6, <1>9 DEF bytes
<1>11. CopyTyped'
  BY <1>2, <1>3, <1>10 DEF CopyTyped
<1>12. Dated(copy', disk'[Wasm])
  <2>1. disk'[Wasm].ver = ver /\ disk'[Wasm].mtime = f.mtime
    BY <1>2, <1>6 DEF ver
  <2> QED
    BY <1>3, <1>10, <2>1 DEF Dated
<1>13. ~coarse => Exact(copy')
  <2>1. ~coarse /\ copy'.done => Len(bytes) = size
    BY <1>7, <1>9, <1>10
  <2> QED
    BY <1>9, <1>10, <2>1 DEF Exact, size
<1> QED
  BY <1>2, <1>11, <1>12, <1>13 DEF CopyInv

LEMMA GetStep ==
    ASSUME ServerTyped, CopyInv, Get PROVE CopyInv'
<1> DEFINE f == [size |-> Sizes[disk[Wasm].ver], mtime |-> disk[Wasm].mtime]
<1>1. f.size = Sizes[disk[Wasm].ver] /\ f.size \in Nat
  BY ReleaseNumbers DEF ServerTyped
<1>2. ServeContent(Plain, f) = Reply(200, Bytes(0, f.size))
  BY <1>1, PlainAnswer
<1>3. Served(ServeContent(Plain, f), Sizes[disk[Wasm].ver], copy, disk[Wasm], ~coarse)
  BY <1>1, <1>2 DEF Served
<1> QED
  BY <1>3, AskStep DEF Get

(* A copy whose date is not before that of the file is of what is on disk. *)
LEMMA SameDate ==
    ASSUME ServerTyped, CopyInv, ~coarse, copy.of # 0,
           copy.lm \in Nat, disk[Wasm].mtime < 2 * (copy.lm + 1)
    PROVE  copy.of = disk[Wasm].ver
<1>1. disk[Wasm].mtime \in Nat /\ disk[Wasm].ver \in Nat /\ copy.of \in Nat
  BY ReleaseNumbers, BoundAssumption DEF ServerTyped, CopyInv, CopyTyped
<1>2. copy.of <= disk[Wasm].ver /\ (copy.of < disk[Wasm].ver => copy.lm < Sec(disk[Wasm].mtime))
  BY DEF CopyInv, Dated
<1>3. \A t, l \in Nat : t < 2 * (l + 1) => ~(l < Sec(t))
  BY DEF Sec
<1> QED
  BY <1>1, <1>2, <1>3

LEMMA ResumeStep ==
    ASSUME ServerTyped, CopyInv, Resume PROVE CopyInv'
<1> DEFINE f == [size |-> Sizes[disk[Wasm].ver], mtime |-> disk[Wasm].mtime]
           a == Len(copy.bytes)
           r == [Plain EXCEPT !.range = <<From(a)>>, !.ifRange = copy.lm]
<1>1. /\ f.size = Sizes[disk[Wasm].ver] /\ f.size \in Nat
      /\ f.mtime = disk[Wasm].mtime /\ f.mtime \in Nat
  BY ReleaseNumbers, BoundAssumption DEF ServerTyped
<1>2. a \in Nat /\ copy.lm \in Nat /\ copy.of # 0
  BY DEF Resume, CopyInv, CopyTyped, None
<1>3. /\ ServeContent(r, f) \in RestOf(a, f.size)
      /\ Sec(f.mtime) # copy.lm => ServeContent(r, f) = Reply(200, Bytes(0, f.size))
  BY <1>1, <1>2, ResumeAnswer, ZenonT(60)
<1>4. ~coarse /\ Sec(f.mtime) = copy.lm => copy.of = disk[Wasm].ver
  <2>1. \A t \in Nat : t < 2 * (Sec(t) + 1)
    BY DEF Sec
  <2> QED
    BY <1>1, <1>2, <2>1, SameDate
<1>5. Served(ServeContent(r, f), Sizes[disk[Wasm].ver], copy, disk[Wasm], ~coarse)
  BY <1>1, <1>3, <1>4 DEF Served, RestOf
<1> QED
  BY <1>5, AskStep DEF Resume

LEMMA RevalidateStep ==
    ASSUME ServerTyped, CopyInv, Revalidate PROVE CopyInv'
<1> DEFINE f == [size |-> Sizes[disk[Wasm].ver], mtime |-> disk[Wasm].mtime]
           r == [Plain EXCEPT !.ims = copy.lm]
<1>1. /\ f.size = Sizes[disk[Wasm].ver] /\ f.size \in Nat
      /\ f.mtime = disk[Wasm].mtime /\ f.mtime \in Nat
  BY ReleaseNumbers, BoundAssumption DEF ServerTyped
<1>2. copy.lm \in Nat /\ copy.of # 0 /\ copy.done
  BY DEF Revalidate, CopyInv, CopyTyped, None
<1>3. \/ ServeContent(r, f) = Reply(200, Bytes(0, f.size))
      \/ ServeContent(r, f) = Reply(304, <<>>) /\ f.mtime < 2 * (copy.lm + 1)
  BY <1>1, <1>2, RevalidateAnswer
<1>4. ~coarse /\ f.mtime < 2 * (copy.lm + 1) => copy.of = disk[Wasm].ver
  BY <1>1, <1>2, SameDate
<1>5. Served(ServeContent(r, f), Sizes[disk[Wasm].ver], copy, disk[Wasm], ~coarse)
  BY <1>1, <1>2, <1>3, <1>4 DEF Served
<1> QED
  BY <1>5, AskStep DEF Revalidate

(* The site changes under a copy that stays as it is. *)
LEMMA CopyKept ==
    ASSUME CopyInv, UNCHANGED <<who, copy>>, coarse => coarse',
           ~coarse' => Dated(copy, disk'[Wasm])
    PROVE  CopyInv'
  BY DEF CopyInv, CopyTyped, Exact, Dated

LEMMA ReplaceStep ==
    ASSUME ServerTyped, CopyInv, NEW n \in {Index, Wasm}, NEW t \in 0 .. MaxNow, Replace(n, t)
    PROVE  CopyInv'
<1>1. /\ disk' = [disk EXCEPT ![n] = [ver |-> disk[n].ver + 1, mtime |-> t, there |-> TRUE]]
      /\ coarse' = (coarse \/ (n = Wasm /\ Sec(t) <= Sec(disk[n].mtime)))
      /\ UNCHANGED <<who, copy>>
  BY DEF Replace
<1>2. CASE n = Index
  <2>1. disk'[Wasm] = disk[Wasm] /\ coarse' = coarse
    BY <1>1, <1>2 DEF ServerTyped, Index, Wasm
  <2> QED
    BY <1>1, <2>1, CopyKept DEF CopyInv, ServerTyped
<1>3. CASE n = Wasm
  <2> DEFINE d == disk[Wasm]
  <2>1. disk'[Wasm].ver = d.ver + 1 /\ disk'[Wasm].mtime = t
    BY <1>1, <1>3 DEF ServerTyped
  <2>2. d.ver \in Nat /\ d.mtime \in Nat /\ t \in Nat
    BY ReleaseNumbers, BoundAssumption DEF ServerTyped
  <2>3. coarse => coarse'
    BY <1>1
  <2>4. ASSUME ~coarse', copy.of # 0
        PROVE  copy.of <= d.ver /\ copy.lm < Sec(t)
    <3>1. ~coarse /\ ~(Sec(t) <= Sec(d.mtime))
      BY <1>1, <1>3, <2>4
    <3>2. Dated(copy, d)
      BY <3>1 DEF CopyInv
    <3>3. copy.of \in Nat /\ copy.lm \in Int
      BY ReleaseNumbers DEF CopyInv, CopyTyped, None
    <3>4. Sec(t) \in Nat /\ Sec(d.mtime) \in Nat /\ LastModified(d.mtime) <= Sec(d.mtime)
      BY <2>2, SecFacts
    <3>5. copy.of <= d.ver /\ copy.lm <= Sec(d.mtime)
      <4>1. CASE copy.of = d.ver
        BY <2>2, <2>4, <3>2, <3>4, <4>1 DEF Dated
      <4>2. CASE copy.of < d.ver
        BY <2>2, <2>4, <3>2, <3>3, <3>4, <4>2 DEF Dated
      <4> QED
        BY <2>2, <2>4, <3>2, <3>3, <4>1, <4>2 DEF Dated
    <3> QED
      BY <3>1, <3>3, <3>4, <3>5
  <2>5. copy.of \in Nat
    BY ReleaseNumbers DEF CopyInv, CopyTyped
  <2> HIDE DEF d
  <2>6. ~coarse' => Dated(copy, disk'[Wasm])
    BY <2>1, <2>2, <2>4, <2>5 DEF Dated
  <2> QED
    BY <1>1, <2>3, <2>6, CopyKept
<1> QED
  BY <1>2, <1>3

LEMMA CopyInit == Init => CopyInv
<1> SUFFICES ASSUME Init PROVE CopyInv
  OBVIOUS
<1>1. /\ copy.bytes = <<>> /\ copy.lm = None /\ copy.of = 0 /\ copy.done = FALSE
      /\ copy \in [bytes : Seq(Releases), lm : Nat \cup {None}, of : Releases \cup {0},
                   done : BOOLEAN]
  BY DEF Init
<1> QED
  BY <1>1 DEF CopyInv, CopyTyped, Dated, Exact

LEMMA CopyStep == ServerTyped /\ CopyInv /\ [Next]_vars => CopyInv'
<1> SUFFICES ASSUME ServerTyped, CopyInv, [Next]_vars PROVE CopyInv'
  OBVIOUS
<1>1. ASSUME UNCHANGED <<who, copy, coarse>>, disk'[Wasm] = disk[Wasm] PROVE CopyInv'
  BY <1>1, CopyKept DEF CopyInv
<1>2. CASE UNCHANGED vars
  BY <1>1, <1>2 DEF vars, srvVars
<1>3. CASE \/ Tick \/ Restart \/ Network \/ Session
           \/ (\E u : Load(u)) \/ RedirectHome \/ (\E p : PutDone(p) \/ PutFails(p))
           \/ FetchIndex \/ FetchWasm \/ ServeWasm \/ WasmFromCache \/ Leave
           \/ Try \/ (\E u : Click(u)) \/ Redirected
  <2>1. UNCHANGED <<who, copy, coarse, disk>>
    BY <1>3 DEF Tick, Restart, Network, Session, Load, RedirectHome, PutDone,
       PutFails, FetchIndex, FetchWasm, ServeWasm, WasmFromCache, Leave, Try, Click, Redirected, srvVars
  <2> QED
    BY <1>1, <2>1
<1>4. CASE Redeploy \/ \E n : TakeAway(n)
  <2>1. UNCHANGED <<who, copy, coarse>> /\ who = "page"
    BY <1>4 DEF Redeploy, TakeAway
  <2>2. copy.of = 0
    BY <2>1 DEF CopyInv, CopyTyped
  <2> QED
    BY <2>1, <2>2, CopyKept DEF Dated
<1> QED
  BY <1>2, <1>3, <1>4, ReplaceStep, GetStep, ResumeStep, RevalidateStep DEF Next

(* serveContent: a copy that a client resumes with If-Range and revalidates
   with If-Modified-Since holds bytes of one release only, and is all of it
   when the client takes it to be complete, for any number, sizes and dates of
   releases of which none is less than a second newer than the one before. *)
THEOREM CopyExactHolds == Spec => []CopyExact
<1>1. CopyInv => CopyExact
  <2> SUFFICES ASSUME CopyInv, ~coarse PROVE
         Range(copy.bytes) \subseteq {copy.of} /\ (copy.done => Len(copy.bytes) = Sizes[copy.of])
    BY DEF CopyExact
  <2>1. DOMAIN copy.bytes = 1 .. Len(copy.bytes)
    BY DEF CopyInv, CopyTyped
  <2> QED
    BY <2>1 DEF CopyInv, Exact, Range
<1> QED
  BY <1>1, ServerTypedInit, CopyInit, ServerTypedStep, CopyStep, PTL DEF Spec

(* Every variable keeps its range; a page that has loaded has both its parts. *)
THEOREM TypeCorrect == Spec => []TypeOK
<1>1. ServerTyped /\ PageState /\ CopyInv => TypeOK
  <2> SUFFICES ASSUME ServerTyped, PageState, CopyInv PROVE TypeOK
    OBVIOUS
  <2>1. Range(copy.bytes) \subseteq Releases
    BY DEF CopyInv, CopyTyped, Range
  <2>2. page.pc \in {"blank", "index", "wasm", "checked", "loaded", "broken"}
    BY DEF PageState, PageTyped, PageRecords
  <2>3. page.pc = "loaded" => {page.index, page.wasm} \subseteq Releases
    BY DEF PageState, PageTyped
  <2> QED
    BY <2>1, <2>2, <2>3 DEF TypeOK, ServerTyped, PageState, PageTyped
<1> QED
  BY <1>1, ServerTypedInit, PageInit, CopyInit, ServerTypedStep, PageStep, CopyStep, PTL DEF Spec

-----------------------------------------------------------------------------
(* Requests on their own. *)

AskTyped == ask \in Asks \cup {NoAsk}

LEMMA AskInit == Init => AskTyped
  BY DEF Init, AskTyped

LEMMA AskKept == AskTyped /\ [Next]_vars => AskTyped'
<1> SUFFICES ASSUME AskTyped, [Next]_vars PROVE AskTyped'
  OBVIOUS
<1>1. CASE UNCHANGED askVars
  BY <1>1 DEF AskTyped, askVars
<1>2. CASE Try
  BY <1>2 DEF AskTyped, Try
<1>3. CASE \E u \in Links : Click(u)
  BY <1>3 DEF AskTyped, Click
<1>4. CASE Redirected
  BY <1>4 DEF AskTyped, Redirected
<1> QED
  <2>1. ASSUME \/ Tick \/ Restart \/ Redeploy \/ Network \/ Session
               \/ \E n \in {Index, Wasm} : TakeAway(n) \/ \E t \in 0 .. MaxNow : Replace(n, t)
        PROVE  UNCHANGED askVars
    BY <2>1 DEF Tick, Restart, Redeploy, Network, Session, TakeAway, Replace
  <2>2. ASSUME \/ (\E u : Load(u)) \/ RedirectHome \/ (\E p : PutDone(p) \/ PutFails(p))
               \/ FetchIndex \/ FetchWasm \/ ServeWasm \/ WasmFromCache \/ Leave
        PROVE  UNCHANGED askVars
    BY <2>2 DEF Load, RedirectHome, PutDone, PutFails, FetchIndex, FetchWasm, ServeWasm,
       WasmFromCache, Leave
  <2>3. ASSUME Get \/ Resume \/ Revalidate PROVE UNCHANGED askVars
    BY <2>3, Zenon DEF Get, Resume, Revalidate, Ask
  <2>4. ASSUME UNCHANGED vars PROVE UNCHANGED askVars
    BY <2>4 DEF vars
  <2> QED
    BY <1>1, <1>2, <1>3, <1>4, <2>1, <2>2, <2>3, <2>4 DEF Next

LEMMA AskFields == AskTyped => ask.r \in Requests /\ ask.f \in FileInfos
<1>1. NoAsk.r \in Requests /\ NoAsk.f \in FileInfos
  <2>1. NoAsk.r = Plain /\ NoAsk.f = [size |-> 0, mtime |-> 0]
    BY DEF NoAsk
  <2>2. Plain \in Requests
    <3>1. <<>> \in Seq(Tokens) /\ <<>> \in Seq(Specs)
      OBVIOUS
    <3>2. None \in Nat \cup {None, Bad} /\ None \in Nat \cup {None, Bad, Tag}
      OBVIOUS
    <3> QED
      BY <3>1, <3>2 DEF Plain, Requests
  <2> QED
    BY <2>1, <2>2 DEF FileInfos
<1>2. \A a \in Asks : a.r \in Requests /\ a.f \in FileInfos
  BY AsksAssumption
<1> QED
  BY <1>1, <1>2 DEF AskTyped

(* PreconditionsPerRFC holds for all requests: checkPreconditions decides as
   RFC 7232 says whatever well-formed headers and dates come, for headers of
   any length, but for an If-None-Match that ends with a comma. *)
THEOREM PreconditionsPerRFCHolds == Spec => []PreconditionsPerRFC
<1>1. AskTyped => PreconditionsPerRFC
  <2> SUFFICES ASSUME AskTyped PROVE PreconditionsPerRFC
    OBVIOUS
  <2>1. ask.r \in Requests /\ ask.f.mtime \in Nat
    BY AskFields DEF FileInfos
  <2> QED
    BY <2>1, PreconditionsDecide, Zenon DEF PreconditionsPerRFC
<1> QED
  BY <1>1, AskInit, AskKept, PTL DEF Spec

(* RangesPerRFC holds for all Range headers, however many specs they have, and
   all sizes: what serveContent sends is what RFC 7233 says they ask for. *)
THEOREM RangesPerRFCHolds == Spec => []RangesPerRFC
<1>1. AskTyped => RangesPerRFC
  <2> SUFFICES ASSUME AskTyped PROVE RangesPerRFC
    OBVIOUS
  <2>1. ask.r \in Requests /\ ask.f \in FileInfos
    BY AskFields
  <2> DEFINE h == RangeHeader(ask.r, ask.f.mtime)
  <2>2. SUFFICES ASSUME ask.r.method # "HEAD", ~(\E i \in DOMAIN h : h[i].a < 0)
                 PROVE  RangesServed(ask.r, ask.f, h)
    BY Zenon DEF RangesPerRFC, RangesServed
  <2> QED
    BY <2>1, <2>2, RangesDecide, Zenon
<1> QED
  BY <1>1, AskInit, AskKept, PTL DEF Spec
=============================================================================
