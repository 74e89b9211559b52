# A TLA+ model of the browser SSH client and its proxy

The repository is an SSH/SFTP client that runs in a browser page (`web/`, Go
compiled to WebAssembly, with `web/html/index.html` around it) and a Go proxy
(`proxy/`) that serves the page behind a one-time-code login and relays its
websockets to TCP targets. This directory holds TLA+ modules translated from that
source, TLC configurations that check them on small instances, and TLAPS proofs.

## 1. The system

| Part | Source | State it keeps | Operations |
|---|---|---|---|
| Multiplexed dialing, client | `web/mux.go`, `con` in `web/main.go` | `muxSess`, `muxMu` | `dialMuxed`, `muxSession`, `openMuxStream`, fallback `conLegacy` |
| Multiplexed dialing, proxy | `proxy/mux.go` | one yamux session per websocket, one handler per stream | `handleMuxWss`, `handleMuxStream` |
| Login gate | `proxy/auth.go` | `gateEnabled`, `signKey`, `loginByIP` | `initAuth`, `handleLogin`, `handleLogout`, `authMiddleware` |
| Connect form and host-key prompt | `web/main.go`, `index.html` | `sshCon`, `sshClient`, `fpAccepted`; the dialog, `__pendingHost/Key`, `__sshConnected`; `knownHosts`, `alwaysAcceptHostKey` in localStorage | `connectNow`, `initConnection`, `showFingerprint`/`showServerKey`, `acceptFP`, `fpRemember`, `fpAlways`, `connected`, `showErr`, `showReconnect` |
| Reverse forwarding | `web/reverse.go` | `revFwds`, each with target and gate | `reverseForward`, `stopReverseForward`, accept loops |
| Websocket relay and shutdown | `proxy/main.go` | `activeWebsocks`; per relay two sockets, two copiers, a ping goroutine | `handleWss`, `ping`, the drain loop of `main` |
| Obfuscation | `proxy/obfs.go`, `web/obfs.go` | per end: `once`, `hsErr`, two keystreams | `handshake`, `Read`, `Write` |
| Source limiter, byte limiter, target list | `proxy/main.go` | `sourceRates`, `blacklisted*`, per connection one limiter and two writers | `getIPAdress`, `isAllowedTarger`, `newLimters`, `limitedWriter.Write` |
| Admin API | `proxy/admin.go` | `freeLimit`, `maxBurst`, `maxLimitedRate` | `setRate`; two setters of lists that no route leads to |
| File server | `proxy/fileserver.go`, `static.go`, `page.go` | `brandedFiles` | preconditions, ranges, redirects, fallback to the page |
| SFTP browser | `web/browser.go` | `sftpClient` | list, rename, move, copy, delete, edit, read, mkdir, chmod, two uploads, two downloads |
| Service worker | `web/html/sw.js` | its cache | `serveFromCache`, `cachePut` |
| Page | `index.html` | panels, history, predictive echo | presentation |

Interactions. `initConnection` and every accepted reverse connection call `con`, each
from its own goroutine; `con` dials a stream on the one shared session, whose websocket
carries the obfuscation layer, whose requests pass the login gate. The page calls into Go
synchronously on the browser's event loop, and Go calls back into the page; both sides
keep the connection of "the" attempt in globals. On the proxy each websocket has a
handler goroutine and each handler two copiers; `main` sees them only as a counter.

What is hard here: dialers that share a session any of them may close; a login that is
checked, sleeps and then records; attempts that overwrite each other's globals; a
callback that blocks the event loop its own answer needs; a table that outlives the
client it describes; copiers that release each other by closing sockets; a lazy
handshake two goroutines may start; file operations of many requests on a client that is
replaced under them; a map written under a read lock; a page and a binary that are
fetched one after the other while releases change. `PROJECT.json` lists these hazards at their lines,
with the properties that cover them.

## 2. Modules

Every module is one component: the state as variables, one action per handler or per
step between two blocking points, and mutants (definitions marked *Mutant*) used to
show that each property can fail. `MC*` modules only name model values. Each module has a
type invariant `TypeOK` (`RelayTypeOK` in WsRelay), which documents its variables; the runs `mux`, `reverse_gate` and
`relay` check it, and the proofs of section 4 establish it for every module.

**MuxDial** - *dialing*. A dialer is one call of `con`; `pc` is where it stands, `try`
which of the two `openMuxStream` calls runs. A stream is a pair of dialer and try, with
the client's end (`cst`), the proxy's handler (`prx`) and the status byte in flight
(`sent`). Sessions are numbered; `live` are those the client has not closed, `wire`
those whose websocket works, `served` those the proxy accepts streams from. `muxMu` is
held from the check for an open session to the end of the websocket dial, as in
`muxSession`. `CloseShared` is the error path of `dialMuxed`: it closes whatever
`muxSess` is *then*. The proxy may refuse a session (its source limiter) and a stream,
the target may be refused, be slow, or answer after the session is gone. A handler leaves
when one of its two copiers does. A target that neither reads nor sends nor closes leaves
both waiting for it (`prx` is "stuck"), where the end of the stream or of the session wakes
neither; only the target can, by reading, sending or closing.

**AuthGate** - *the gate*. A discrete clock `now`; a client is a browser with one cookie
and at most one login in flight. `PostAdmitted` is `handleLogin` up to its sleep,
`Verify` and `RecordFailure`/`RecordSuccess` what follows it: other requests run in
between. `Failed`, `Expired`, `Locked` are `recordLogin` and `loginLocked` on one
record. `Start` is `initAuth` for every combination of environment variables; `Stop`
loses the records and the requests but not the browsers' cookies. Signatures and codes
are ideal.

**Connect** - *opening an SSH session*. An attempt is one goroutine of
`initConnection`. Where the code has a connection or a channel, the model has the
attempt that made it: `sshCon`, `fpAccepted` and `sshClient` are globals that name an
attempt, `waitCh[a]` is the channel `a` waits on, `streams[a]` the transport its output
readers were given. `HostKey` is `showFingerprint` calling `showServerKey`; the answers
are the dialog's buttons, the timer of a trusted key, and dismissal. `rt` is the Go
runtime: a send with no receiver blocks it and the page for good, a `Close` of nil ends
it. An attempt may start while another runs, because any keyup in the form enables the
button; `overlapped` remembers that one did, and the properties that need attempts one
after the other say so.

**ReverseForward** - *remote ports*. A call of `reverseForward` that found no entry
asks the client it read from `sshClient` (`client[c]`) to listen, and when the server
grants the port becomes the owner of a listener and an entry. `gen` counts SSH clients and
`alive` are those whose connection works: `Connected` replaces `sshClient` and closes
nothing, so several may. Each client can have a port once (`Granted`), another client the
same port at its own host. `loop[c]` is the client on which call `c` listens. The table is
never cleared, as in the code; `taken` remembers the calls whose entry a listener of
another client replaced while they listened.

**WsRelay** - *the relay and the drain*. A copier is blocked in a read or in a write;
closing a socket or losing its peer fails both. `UpEnds` closes the target's
connection, `DownEnds` the websocket, exactly as the two goroutines do; the handler
waits for both. `Hijack` and `Enter` are separate: between them a connection is known
neither to `Shutdown` nor to `activeWebsocks`. Why a connection is refused is a choice.
Multiplexed sessions are not here: `handleMuxWss` never touches the counter, so the
drain neither waits for them nor promises them anything.

**Obfs** - *the obfuscated connection*. The wire carries units of 16 bytes, so that a
seed (one unit) and a key (two) are taken for one another when the ends are configured
differently. A masked unit records secret, keystream and position. `buffered` chooses
between a transport whose writes return at once and one whose writes wait for the
reader (`net.Pipe`, as in the repository's test).

**Pipe** - *what Obfs promises*. A net.Conn as its user sees it: a queue in each
direction and no handshake. `ImplementsPipe` of Obfs is the refinement: the payload units
on the wire, those behind what is left of a handshake (`HsLeft`), are the queue. Ends
configured differently are promised nothing.

**Limits** - *who may connect, and how fast*. A handler goes through `getIPAdress`
(`Lookup`, `Insert`, `Inserted`, `Allow`, interleaved with other handlers because a read
lock excludes none of them) and `isAllowedTarger` to its relay, where each direction is a
`limitedWriter` on one shared `rate.Limiter`. Two accesses of the map of which one writes
may end the process (`MapAccess`). `leaked` counts the read locks `isAllowedTarger` keeps,
which only a writer of the list would wait for, and no routed handler is one.
`SetRate` changes the limits under running connections. The header of the connection
and its dial, which lie between the checks and the relay, are those of WsRelay.

**Sftp** - *the file browser*. A call is the sequence `todo` of requests it has yet to make
and the answers extend it: `Program` gives the first requests of each of the thirteen
functions, `AfterLstat` and `AfterReadDir` the loops and recursions. Each request reads
`sftpClient` anew, so `Reconnect` and `InitSftp` in between send the rest elsewhere, or to
nil; files that are open stay with their host. The servers are external: a tree of paths
to nodes per host, links followed once, names as sequences so that a counted name is
another name. Any request may fail. `changes` records, for each call, what others changed
since it began; the properties and the proofs read off it what a call may be held to.

**FileServer** - *one request for a file*, as operators: `CheckPreconditions`,
`ParseRange`, `ServeContent` and `Route` from the code, and beside them the definitions of
RFC 7232 and 7233 they are compared with. Instants are half seconds, dates whole ones.
`Sent` has the rule of net/http that a write longer than the declared length is refused.

**Site** - *the static site through releases*. The files on disk, the page in memory, a
browser with its service worker, and a client that keeps a copy. `who` picks one of the
three users per behaviour: the page, the client, or a single request; they share only
what they read. The cache has an entry for each URL the page was opened at
and one for `main.wasm`. `cachePut` only begins a put (`puts`): it is done (`PutDone`) or
fails (`PutFails`) later, and nobody waits. Without a network `Match` asks for the URL
itself, then for `/index.html`, then for `/`, as `serveFromCache` does. `latest` is the URL
stored last; `tainted`, `gap` and `coarse` remember the circumstances the properties
exempt.

The modules meet at named places: the transport of a Connect attempt, and the target
side of an accepted reverse connection, are dialers of MuxDial; the SSH client
`Connected` creates in ReverseForward, and `Reconnect` in Sftp, is the one `AuthOk` makes
in Connect; a relay that Limits admits is one WsRelay runs; the session that Site loses is
the cookie of AuthGate.

## 3. Runs

| Run | Instance | Shows |
|---|---|---|
| `mux` | 2 dialers, 1 broken websocket, fair | one usable session at a time; a retry is on a newer session than the failure; every dial returns; every handler ends after its stream or session, unless its target neither reads nor sends nor closes |
| `auth` | 2 browsers of one address, 2 secrets, the 2nd failure locks for 2 instants, 6 instants | records consistent, guesses bounded, lockouts never shortened; whoever passes has a fresh login under the secret in force |
| `connect` | 3 attempts one after the other or 2 that overlap, 2 hosts, 2 keys, good and unparsable credentials | a changed key is stored only when displayed, whatever overlaps; without overlap the answer reaches who asked, nothing blocks, panics or stays open, and a session shown as live is open |
| `reverse_gate` | 3 calls, 2 ports, 2 targets, 2 SSH clients, which may work at the same time | every listener reachable, gates and targets obeyed, unless a listener of the other client took the entry |
| `relay` | 2 relays, fair | exit after the counted relays; nothing left open; a relay ends when a side is gone, with one exception stated in the property |
| `obfs` | 2 messages each way, 9 configurations, buffered or not, fair | reads return what was written; keystream units used once; handshakes complete; closing releases all; the connection implements Pipe |
| `limits` | 3 connections of one source, rate and burst 1, one that carries 4 bytes each way | a source gets its burst and rate, once more per handler that raced the first insert; refusals are deserved; bytes are throttled whatever the admin sets |
| `sftp` | 2 calls of any of 13 kinds, 2 hosts, 1 reconnect, fair | success means stored, done and read exactly, up to what others changed meanwhile; every call is answered |
| `site` | 3 releases, 3 URLs of the page, 5 events, 5 half seconds; about 11 700 requests, 26 URLs | a resumed copy is of one release; page and binary match and the cache holds what it should, in the cases the properties state; ranges and preconditions are those of the RFCs; redirects end |

Bounds. Two dialers are enough for every race on `muxSess`: one closes or replaces what
the other uses; each makes two attempts, so up to four sessions exist, and the theorems
cover any number. `MaxFaults`
bounds broken websockets, not dials that fail. Two clients of one address give the
check-sleep-record race, and with `MaxFails = 2` a failure before, at and after the
limit; the clock runs past one full lockout. Two attempts overlap in Connect, three
follow each other so that the third meets what two left behind. Two SSH clients are the
least for stale entries and for two that work at once, three calls the least for a race and a re-add. A relay depends
on others only through the counter, so two suffice. Two keys and the empty one give all mismatches. In
Limits three handlers let two race and a third meet the result; `Chunks` holds one size
that is below some bursts and above others. Its parts share only the clock, so `Next`
keeps them apart: no handler starts after data has flowed (`NoData`), and data flows and
limits change while the others have not started (`Alone`). In Sftp calls are numbered in
the order they are made, two are the least that interleave, and `MaxSuffix` (9999 in the
code) is 1, so that running out of names happens. In Site three releases let a copy or a
cache be two behind; the ranges are all pairs of specs over files of 0 to 3 bytes; the
clock ticks only where times matter. `MaxEvents` counts loads and changes of the site, the
network and the session: five are enough to load two URLs at two releases, lose the
network and load again. The three URLs are the two that `serveFromCache` names and one
more. Symmetry is used only for invariants and action
properties.

Deadlock is checked where the system cannot stop. It is not for WsRelay (the proxy
exits), Obfs (both ends may fall silent), Limits and Sftp (the process or page may crash,
and connections and calls need not come), and Site (a request ends with its answer).

Fairness. MuxDial: some goroutine runs as long as one can; the dial of the proxy has a
30 s timeout, a websocket open resolves, yamux keepalives notice a dead websocket. A
handler whose copier has ended leaves; a target need not read, send or close.
WsRelay: the handler's goroutines run, its dial has a timeout, the header a 2 s
deadline, pings to a browser that vanished fail in the end, and a browser takes what
the proxy sends, because its socket is read regardless of the page. Nothing is assumed
of a target: it may leave a write pending for ever. Obfs: goroutines inside a handshake
run; nobody has to make a first call or to close. Sftp: a request is answered or fails, as SFTP requests
do when their connection ends. No fairness is given to users, peers, faults or the
clock.

### What the code does against its own words

| Run | Observation |
|---|---|
| `mux_gone` | "retrying once with a fresh session if the current one has gone away": the clean-up after any failed first attempt closes whatever session is shared by then. In the run the websocket dial of one dialer fails, a second dialer opens a session, and the first closes it |
| `connect_blocks` | a second attempt replaces the accept channel; the answer to the first blocks the page |
| `reverse_stale` | after a reconnect, adding a known port reports ok and nobody listens |

### What the properties exempt

Some properties hold only with exceptions, which are behaviours of the code worth
knowing; each is a disjunct of the property.

- `HandlersEnd`: a handler of the proxy outlives its stream and its session as long as
  its target neither reads nor sends nor closes, because nothing closes the target's
  connection before one of the two copiers has ended.
- `ListenerReachable`, `GateObeyed`: attempts that overlap can leave two SSH clients at
  work. Of two adds of one port that each of them answers, the later takes the entry; the
  loop of the other is in no table any more, and goes on forwarding after a stop.
- `LiveIsOpen`: a shell that ends while SFTP is being set up is reported dead first and
  connected afterwards.
- `SourceBudget`: each handler that looks for a source's limiter before another's insert
  is done replaces it by a full one. The same race may end the process.
- `Throttled`: chunks larger than the burst are written without waiting, because the
  error of `WaitN` is only logged. (`io.Copy` writes 32 KiB, the burst is 64 KiB unless
  the admin lowers it.)
- `OkMeansStored`: two uploads at the same time may choose one name; with all counters
  taken `uploadToDownloads` overwrites. An upload that comes later may also be led to the
  file of an earlier one when a third call, while it runs, puts a link to that file
  at the name it had found free (`Raced`), or when counted names that were all taken are
  freed meanwhile (`UsedUp`). `upload` never gets that far: the name it finds is shadowed
  (`web/browser.go:478`), so a taken name is an error.
- `CallsAnswered`: `move` to a path that cannot be examined uses a nil pointer, and so does
  any request after a reconnect whose SFTP setup failed.
- `ReadsExact`: a download of a link has the size of the link.
- `RangesPerRFC`: a single range that ends before the file does is announced with its
  length and comes without a body, because `serveContent` writes all the rest at once.
- `PreconditionsPerRFC`: an `If-None-Match` that ends with a comma panics.
- `CopyExact`: releases less than a second apart have the same date.
- `NoDrift`: page and binary are of one release if nothing changed while they were
  fetched and the proxy was restarted with its files; offline, if no load before was
  disturbed or cut short, every put was done before the next load and none failed, and the
  entry that answers is the page stored last. The last condition matters: with a page
  loaded at `/connect?host=h`, a redeploy, and a load of `/`, opening
  `/connect?host=h` offline runs the old page with the new binary, although all
  loads were undisturbed. `CacheClean`: a missing `main.wasm` is answered with the page
  and stored.
- `LinksLand`: the `index.html` of a directory cannot be fetched.

The header comment of `proxy/auth.go:8-9` says that without its variables the site is
served openly; `Fatal` of AuthGate has what `initAuth` does, which is to refuse to start
unless `AUTH_DISABLED` is set.

## 4. Proofs

Proved for every value of the constants, from the assumptions the modules name: numbers
are naturals, "none" is not a member, handlers and browsers are finitely many, there is a
largest chunk, in a tree of files no directory is itself a file, headers are sequences of
the tokens that their parsers tell apart, and the trees that the SFTP browser meets are
finite, without hard links, and asked about in requests of the shapes that the page makes.
The URLs of the page are not that of `main.wasm`, and `/` and `/index.html` are among
them. Each proof module states its inductive invariant. TLC checked it before it was proved,
but for the one of Sftp, which quantifies over all paths.

- **MuxDialProofs**: `TypeOK`, `OneLiveSession`, `RetryIsFresh`. `OneLiveSession` is not
  inductive alone: the invariant adds that a dialer opening a websocket holds `muxMu`
  while nothing is live, that `muxSess` is nil or the newest number, and that the
  session of a failed first try is no longer live. Only the newest session can be live,
  so a retry gets a newer one.
- **AuthGateProofs**: `TypeOK`, `LockRecord`, `LockNeverShortened`, `SessionBacked`,
  `GuessBudget`. The invariant adds that every cookie comes from a recorded login and that
  an enabled gate has a key. `LockNeverShortened` follows because a failure recorded late
  sets a deadline no earlier than the one in force. For `GuessBudget`, `wrong` counts all
  wrong codes up to each instant, and `Covered` weighs what an address has used of its
  budget against the requests that were admitted and not yet recorded.
- **ConnectProofs**: `TypeOK`, `TrustChangeIsShown`, `ConsentGiven`,
  `BlocksOnlyIfOverlapped`, `OpenConnIsGlobal`, `LiveIsOpen`. `DialogInv` holds always: what
  `__pendingHost/Key` name is on display in the dialog or stored already. `Sequential` holds until an attempt
  overlaps another: at most one attempt is between its start and its end, and the globals,
  its channel and the dialog are its own or left by ended ones.
- **ReverseForwardProofs**: `TypeOK`, `ListenerReachable`, `GateObeyed`. The invariant
  adds that an entry belongs to a finished call for its port whose listener works as long
  as its client does, that a client has one listener per port, that a loop's client
  number is at most the current one, and that the gate of an entry agrees with the
  history of stops.
- **ObfsProofs**: `TypeOK`, `KeystreamUsedOnce`, `StreamIntact`, and `ImplementsPipe`, the
  refinement. `HsInv` says how far each end is: what it has written is nothing, or its
  opening and all its messages so far. From it the units on the wire are determined by
  two counters (`StreamInv`), the positions of each keystream that were used are those
  before its counter (`PadInv`), and the payload on the wire is what was written and not
  yet read (`QueueInv`), so that every step is a step of Pipe or leaves its queues alone.
- **HandlerProofs**, what a handler of the proxy goes through: of Limits `TypeOK`,
  `SourceBudget`, `RefusedOnlyWhenSpent`, `Throttled`, of WsRelay `RelayTypeOK`,
  `DrainedBeforeExit`, `NothingLeaks`. `SrcInv`
  keeps an account per source: tokens given out, by the bursts of the limiters that racing
  handlers inserted and by the rate, are tokens left or admissions (`admitted` counts them
  up to each instant). `ByteInv` does so per connection: what was paid for, what is
  reserved and what is left never exceed burst and rate since the limiter was made, in
  whichever order the two directions reserve and wait. `RelayInv` adds that
  `activeWebsocks` is the cardinality of the handlers between their first and last
  statement, that handlers held at the interrupt are counted or done, and that nothing
  exists before the relay starts.
- **SiteProofs**: `TypeOK`, `CacheClean`, `NoDrift`, `CopyExact`, `LinksLand`,
  `PreconditionsPerRFC`, `RangesPerRFC`. `LoadInv` says
  that an undisturbed load finds the server as it was when it began and, until a load is
  disturbed or a put fails or is late, that a load begins with no put under way, that the
  page it shows is the one stored or being stored under `latest`, and that what the cache
  is due to hold (`Due`) under `latest` and for `main.wasm` is of one release except while
  only one of the two has been fetched (`Synced`). `CopyInv` says that a copy is of the release last served, and
  that its date is that of this release and before that of every later one; what
  `serveContent` answers to a plain, a resuming and a revalidating request is computed by
  lemmas about `CheckPreconditions`, `ParseRange` and `ServeRanges`. `AfterHops` lists
  where a link can be. The two comparisons with the RFCs are statements about every
  header. The loops of `checkIfNoneMatch` and `parseRange`, and the concatenation they are
  compared with, are recursive functions; the proof first shows that such a function
  exists (`Iteration`, `Descent`), so that it satisfies its equation, and each fact about a
  loop is proved by taking the least index at which it would fail.
- **SftpProofs**: `TypeOK`, `ReadsExact`, `OkMeansStored`, `OkMeansDone`, for any number of
  calls on trees of any depth. `ServerInv`: the trees are well formed. `ClientInv`: the
  clients. Of each call, `CallTyped`: its ranges; `OnHome`: it uses the client it began on
  unless that was replaced; `Fresh`: it creates a node at most once for a path; `CallInv`:
  by operation, which requests are ahead of it and what is true already of the items
  behind it. A recursive delete, for example, has for every item either a request ahead
  or nothing left below it, and changePerm has for every path below an item the mode, or a
  request ahead that covers it; so neither needs an induction over the tree. All of that
  holds apart from what `changes` says others did. A step of a call is followed through
  its request; for every other call it is enough that what it changed is on record for
  them (`Watch`) and that it touched nothing they keep (`Relies`). `OkMeansStored` needs
  two more parts, because it excuses only some changes: an excuse, once given, lasts (`Steady`), and an upload that has
  opened the file of an earlier one is excused by then (`CrossInv`, `OverlapInv`). The
  attempt to prove it found that it was false as first stated, in the two cases that
  section 3 names with `Raced` and `UsedUp`, which need three calls and which the run
  with two does not reach.

Checked by TLC only: liveness (`DialTerminates`, `HandlersEnd`, `RelayEnds`,
`HandshakeCompletes`, `CloseReleases`, `CallsAnswered`), which the prover
does not reach. Every invariant and every other action property of a passing run is proved.

## 5. Not modelled, and the plan

To model, if more is wanted: a specification of "a dial returns a working transport or an
error" that MuxDial implements, under Connect and ReverseForward; predictive echo, the one
part of the terminal page that keeps state of its own beyond presentation.

Left out: cryptography (ideal here), the bytes of websocket and yamux frames (so the
interleaving of pings with other frames), templates and layout, vendored libraries, and
the WebAuthn signer, which encodes the answer of one browser call and keeps no state.
The browser's own HTTP cache is left out: a fetch asks the server or fails. Of the file
server, directory listings and `ServeFile` are not reachable through
`spaFileServer`.
