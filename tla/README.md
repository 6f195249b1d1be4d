# http-mcp in TLA+

TLA+ models of the concurrent and failure-prone parts of http-mcp, TLC runs that
check them on small instances, and TLAPS proofs of the properties that matter
most for every instance. `PROJECT.json` lists the components, the runs, the
mutants, the findings, the hazards and the theorems, and maps every definition
to the lines it models. Paths below are relative to the repository (`src/`).

## 1. The system

http-mcp makes protocol calls on behalf of agents and leaves a record of them. It
is a set of small Go programs.

| component | state | operations | talks to |
|---|---|---|---|
| channel broker (`cmd/channel`) | one held WebSocket; `pending` (id → response channel), `subs`, counters | `POST /command`, `GET /events`, `/await`, `/health`; `read`, `fanout`, `shutdown` | wsx below; HTTP callers above |
| WebSocket client (`internal/wsx`) | socket, write lock, deadline | `Dial`, `SetDeadline`, `WriteText`, `ReadText` (pongs inline), `Close` | broker (held socket), `bidi_command` (one socket per call) |
| session store (`internal/session`) | map of sessions, one supervisor goroutine each | `Add`, `Get`, `List`, `Delete`, `probe`, `mark`, `reap`, `OnDeath` | WebDriver hub over httpx |
| wire (`cmd/wire`) | replay counter, append-only replay file | proxy handler, `observe`, `replayLog.write`, ledger POST | upstream hub, collector |
| MCP server (`cmd/mcp`) | the JSON-RPC line under way | `handle`, `callTool`, `become`, `bidiCommand`, `discover` | stdin/stdout, targets, an optional witness |
| spec harvester (`cmd/harvest`) | snapshot files under `specs/` | `harvestAppium`, `harvestWdio`, `get`, `writeSnapshot` | npm, GitHub; the probers, through the files |
| route probe (`internal/probe`, `cmd/probe`) | the union of the routes, verdicts | `Run`, `unionRoutes`, `probeRoute` | the snapshots, a hub |
| session CLI (`cmd/session`) | the handle of one session | a chain of calls | a hub, adb, an inspector |
| contract (`contract/...`) | trace counter | `Compatible`, `Emit`, `Read`, `Coherent` | a library for producers and readers of traces |
| httpx, auth, eight, host | none | a request, a lookup, command lines | |

What is hard in them:

* **Concurrency.** In the broker every request is a goroutine; the reader, the
  handlers and `shutdown` share two maps of channels, and a mistake is a crossed
  response, a lost one, a leak, a blocked reader or a panic. In wsx writers, the
  reader's pong and the close frame share a socket. In the store, `Delete` races
  with a probe under way. In the wire, handlers take numbers and write lines in
  different orders.
* **Failure.** The browser may answer late, twice, out of order, not at all, or
  hang up; a write may block, fail or expire in mid-frame; a witness may make a
  call and then not answer; a proxied body may break; the wire may be restarted
  on the file it wrote before, and that file may not take a line; a harvest may be
  killed in the middle of a snapshot that a probe is about to read; the answer that
  a session was created, or ended, may be lost.
* **Time.** Command timeouts race late responses, deadlines race frames, ticks
  race cancellation, keep-warm probes race the provider's idle timer.

What makes each correct: the broker gives every caller the response to its own
command or an honest error, always in the end, and every subscriber the frames in
order; the socket carries whole frames; an entry of the store has exactly one
watcher and leaves in one way; a call through the wire leaves one honest line that
its ledger row can be joined to; the MCP server answers each line once, its
outcomes tell the truth and its compositions use their own results; `specs/` only
grows, with whole snapshots; a verdict of a probe is true of the hub; a session that
was asked for to outlive the program does, and no other.

## 2. The models

One action models one atomic step of a goroutine: what runs under a mutex, one
channel operation, one atomic counter, one call on the socket. Text, formatting,
headers and JSON are left out; a frame, a session or a call is a model value.
Operators called "Mutant of ..." are plausible bugs, substituted for the
definition they follow to show that a property can fail.

**ChannelHub** (`cmd/channel/main.go`). `pc[c]` follows a `/command` handler through
`handleCommand`: idle → register → write → count → echo → wait → done, with the
detours unregister (write failed) and expire (timer); the write to the browser and
the count of the command are two steps. `rpc` follows `read`: read → take → send, or
read → count → fan, and shutdown. `spc[s]` follows `/events` and `/await`: live →
write (to the client, which may never take it) → live or leave → done. `pending` and
`subs` are the maps, `resp` and `buf` the buffered channels (capacity 1 and
`SubCap`), `closed` the closed ones. A frame is `[id, body]`. Taking the channel out
of the map (under the lock) and sending on it (outside it) are two steps, as are the
timer firing and the delete that follows. `log`, `since` and `lost` are history:
every frame fanned out, where each subscriber came in, and what found its channel
full. The browser is the environment. `Health` is what `handleHealth` counts.

**CommandService** is the promise of `/command` alone, and **ChannelService** the
refinement mapping from ChannelHub to it: a request is idle, open or done, is
answered once, gets only the browser's answer to that very command, and after
"write failed" the browser never answers it.

**WsConn** (`internal/wsx/wsx.go`) has one connection with either of its users: the
broker's held one (many writers, no deadline, nobody closes it) or `bidi_command`'s
(a deadline for the whole exchange, one write, reads, a deferred Close). `Init`
chooses which. `write` is lock, head, tail, unlock: a frame goes out in two pieces,
so that a full buffer, a deadline or a failure can fall between them. The handshake
is proven by the last `Sec-WebSocket-Accept` header, and clears its deadline. The
peer may read or not, send any frame, or leave. **WsFrame** has the headers that
`WriteText` and `writeControl` write and `readFrame` reads, byte by byte.

**SessionStore** (`internal/session/store.go`). `sup[o]` follows the supervisor of an
object given to `Add`: select → probe → mark or reap → report. Two objects may have
one id: a session tracked again. `Delete` drops the entry under the lock and cancels
after it; `reap` goes by id, as in the code. A probe of a live session may fail.

**WireProxy** (`cmd/wire/main.go`). A call goes idle → upstream → copy → record →
write → post → ended. The number is taken before the lock, the line written under
it. `net/http/httputil`'s reverse proxy is external: it answers 502 without
`observe` when the upstream is unreachable, and after it when the upstream switched
protocols (`observeSwitch`: the body that `observe` puts in cannot be written to),
and it panics past the rest of the handler when the body copy breaks. A write to the
file may fail and leave nothing, or a part of a line without its newline, to which
the next one is stuck. `Restart` starts the process again on the same file; each
process has its own choice of `-replay` and `-witness`. `run` on a row is history:
it tells the equal numbers of two processes apart.

**McpServer** (`cmd/mcp/main.go`). The loop over the lines of one of several
sessions; `tools/call` runs its steps one after the other (`become`; a plain call
has one). `prior` is become's map from index and id to result; a step's template
asks for all of a result, for a field it has or for one it has not, and `Resolved`
is what `resolveTpl` makes of it: the value, null for the missing field, or the
literal when nothing has the key or the result is plain text. `http_request` asks
the witness first when one is configured; one that is not heard may have made the
call or not, and recorded it or not, before the direct call is made. `bidi_command`
dials, writes, skips frames until its own, and closes; `discover` asks its sources
one by one, `heldChannels` among them, where `heard` is the code's variable
`witness`: its answer has no section of its own and goes into the entry of each
broker. Targets, witness, channel and sources fail at every point they can.

**Harvest** (`cmd/harvest/main.go`). `hpc` follows one run: meta (npmLatest) → stat →
source (get, with `attempt`) → write → fill, for Appium and then for each protocol. A
file is absent, open, whole or damaged; opening and filling it are two steps, so that a
kill, a full disk or a reader can come between them. Runs follow each other on the same
files. **SpecShelf** is the promise: snapshots are only added, and are whole but for
one per kill or failing write; Harvest implements it by a refinement mapping in which
an open file is not there yet.

**SpecProbe** composes the harvester with a prober that reads its files: `Run` of
`internal/probe`, or `probeSpecs` of `cmd/mcp`. They differ in what they select and in
how they judge an answer (`probeRoute`, `probeContentType`). The hub's answers are a
constant; of each it is told whether it succeeds, is JSON, which error it names, and
whether it does so behind the 500 bytes that `probeRoute` reads (`far`).

**SessionChain** (`cmd/session/main.go`). `pc` is the next link of the chain; the flags
are chosen by `Init`. A call may be refused, lost on its way, or carried out without its
answer; a call under a blank handle, or to a session that is gone, fails. The hub ends a
session that dies or, unless it was created with `newCommandTimeout` 0, idles. `broken`
is history: the links that failed.

**KeepWarm** has the timing of one supervisor of the store, on a clock that advances by
one unit only when nothing is due: the ticker and its one waiting tick, the probe with
its timeout, the provider's idle timer.

The MC modules give the instances; the Proofs modules hold theorems only.

## 3. The runs

| run | instance | what it checks |
|---|---|---|
| `hub` | any 2 requests of 2 commands, 1 stream, 1 await; 1 event; 2 frames from the browser; channels of 2 | NoCrossedResponse, OneRoute, ReaderNeverStalls, EchoedOnce, HealthHonest, ChansOpen, NoLeak, FramesAccounted, AwaitFirstMatch, CommandAnswered, HangUpNoticed, SubscribersReleased, and the refinement ImplementsCommandService |
| `await_idless` | the same | violated: AwaitIdless |
| `store_supervision` | 3 objects, two with one id | EntrySupervised, OneExit, SupervisionEnds |
| `store_own_lifecycle` | the same | violated: OwnLifecycle |
| `ws_sharing` | 2 writers, reader, closer, buffer of 1 piece, 2 frames in | FramesIntact, ReaderFaithful, HeldUntilPeerEnds, CallReturns, HeldWritesReturn |
| `wire_restarts` | 2 proxied calls, 1 local, 1 restart, 1 failing write, all flags | JoinsWithinRun, OneHonestLine |
| `wire_join` | the same, no failing write | violated: LedgerJoins |
| `mcp_session` | 3 sessions: lines of every kind; a composition of 7 steps; 2 calls of 2 and 6 steps; 2 broker ports | AnswersInOrder, OutcomesHonest, SocketPerCall, TemplatesOfThisCall, DiscoverComplete |
| `specs_pipeline` | Appium with 2 versions, 2 protocols with 1, 4 routes, 2 attempts, 1 fault | Accounted, NoHalfSnapshot, UnionComplete, VerdictsTrue, ProgramsEnd, and the refinement ImplementsSpecShelf |
| `probe_unknown` | the same, with a filter that selects every file | violated: ExistsIsHandled |
| `session_chain` | all flags | TypeOK, HandleThreads, LeftAliveOpenly, NoSessionOutstays |
| `keep_warm` | the code's times in units of 5 s: 60, 15 and 20 s, 90 s idle | NeverIdlesOut, DeathNoticed |

The type invariants are proved (section 4) rather than checked here, but for the
session program's, which also bounds the calls a chain makes, and is checked too.

**Bounds.** Two requests at a time are enough to cross responses and to reuse an id,
to lose an echo on either side of a match in a channel of two, and for any pair of
the three kinds of handler to race each other and the reader; two frames answer a
command twice or late, or stray in between. The hub's safety properties are proved
for any number of each, so that the instance has to be large only for its liveness
and its mutants. Two writers, a pong and a close frame cover every pair that can
compete for the write lock, and a buffer of one piece makes every frame block in its
middle. In the store two objects under one id give the stale supervisor its victim,
and the third shows that sessions of their own are untouched. In the wire one
restart makes numbers repeat, and with one torn line there is a line before it and
one stuck to it. In `mcp_session` an id is given twice, an index and an id are
named, and a second call names an id of the first. In `specs_pipeline` one version
more than the first makes old and new snapshots stand side by side, two attempts (5
in the code) have a first and a last, one fault spoils one file beside whole ones,
and the answers of the hub are one of each kind that the probers tell apart.
`MaxFrames`, `MaxRequests`, `MaxIn`, `MaxSkips`, `MaxRestarts`, `MaxFaults` and
`LastVersion` bound the environment only. What the bounds leave open for the proved
properties is closed by section 4. Symmetry is used for the wire's calls only, in
runs without liveness.

**Deadlock** is checked in every run; each model has a `Terminated` step for the
states in which the program is really finished.

**Fairness.** Go's scheduler runs every goroutine that can run (WF on the steps of
handlers, reader and supervisors); timers, tickers and deadlines fire (WF on
Timeout, Deadline, Tick, Expire); the probe's client has a timeout (WF on its
outcome). Go's `select` chooses at random among ready cases, so a cancelled context
is not passed over for ever (SF on Stop); a `sync.Mutex` hands over to a waiter that
starves (SF on Lock). Nothing is assumed of the browser, the peer, the remote
session, or callers arriving or leaving, nor that a write of ChannelHub returns, on
the held socket or to the client of a stream or an `/await`: neither has a deadline.
So CommandAnswered begins after the write, and SubscribersReleased is about
subscribers whose client does not hold their handler in a write for ever.
HeldWritesReturn states the condition under which a write on the held socket
returns: the peer never stops reading for good. The probers' and the session
program's clients have timeouts, so their next step comes (WF on ProbeStep and
Link); a hub ends sessions that idle (WF on SessionIdlesOut). The harvester uses
`http.Get`, which has no timeout: WF on HarvestStep assumes that each request
returns, and the harvester's half of ProgramsEnd shows no more than that there are
only finitely many of them. KeepWarm needs no fairness: its bounds are safety
properties of the clock.

**Findings**, each with a run whose counterexample shows it:

* `store_own_lifecycle`: `reap` goes by id, so a supervisor that was cancelled while
  its probe was under way drops, and reports dead, the session tracked since under
  the same id; the comments have each supervisor "owning its lifecycle alone".
* `wire_join`: after a restart the numbers begin again in the same file, and the
  ledger's join key names two lines.
* `await_idless`: `handleAwait` promises "an id-less frame" (`cmd/channel/main.go:265`);
  the echo of a command has an id, is fanned out too, and can be what it returns.
  AwaitFirstMatch, which holds, is about the first match of whatever is fanned out.
* `probe_unknown`: `probeSpecs` calls every JSON answer existing, an "unknown command"
  included, which its comment (`cmd/mcp/main.go:621`) excepts and `probeRoute` calls
  absent. VerdictsTrue holds `probeSpecs` only to its "absent".

Observations that follow from the models, without a run of their own:

* A proxied call whose response body breaks leaves neither line nor row (Aborted), against
  "logs one line per call" (`cmd/wire/main.go:3`) and "every act leaves a trace" (line
  140). OneHonestLine states it as it is.
* When the upstream switches protocols the client gets a 502 and the line says 101; when
  it is unreachable the line has no status.
* When a witness made the call but its answer is late, lost or of another shape, the call
  is made again, whether the witness has recorded it or not; the comment speaks of an
  unreachable witness only. OutcomesHonest says that this is the only way to a second call.
* `discover` reports the witness inside the entries of brokers only
  (`cmd/mcp/main.go:536`): without a broker that answers, a live witness is not told of.
* A witnessed call returns plain text, a direct one a JSON object: a template such as
  `${0.result.status}` resolves without a witness and stays literal with one.
* A template whose last field is missing becomes null, not "the template literal" of the
  comment (`cmd/mcp/main.go:198`).
* `probeRoute` reads 500 bytes of a body: an error that a hub names behind a long message is
  not seen, and the route of a handler that answered is called absent.
* "Any broken link fails the chain" (`cmd/session/main.go:5`) holds of the status and the
  creation only: a chain all of whose later links break, the DELETE among them, exits with
  0 (lines 190-213 and 228-230). HandleThreads has what holds.
* An answer to the creation without a `sessionId` leaves the handle blank (line 162), and the
  chain goes on with it.
* Keep-warm needs more than a "heartbeat shorter than the provider's idle timeout"
  (`store.go:29`): a late probe after an early one is a heartbeat and a timeout apart.
  With 60, 20 and 90 s there are 10 s left; NeverIdlesOut fails at 80 s.
* A session whose creation is answered too late is nobody's: `cmd/session` ends, and
  with `-keep` or an inspector it was created never to idle out. NoSessionOutstays is
  about the command lines without them.
* `/health` reports the literal `alive: true`, also after `shutdown`. HealthHonest
  covers the counts beside it.

## 4. The proofs

TLAPS checks them for every value of the constants, from the assumptions named in
the modules: the sets of requests are disjoint, `None` is not a request, channel
capacities are positive.

* **HubTypeCorrect** (ChannelHubProofs): types, and the capacities of all channels.
* **HubNeverCrossesResponses, HubKeepsOneRoute, HubNeverPanics, HubReaderNeverStalls,
  HubNeverLeaks** (ChannelHubProofs). None of these is inductive alone. The invariant
  adds why they hold: ids are handed out once (IdsDistinct); the map and the browser
  know a command by its own id (EntriesGenuine); so do all frames under way, on the
  wire, in the reader's hand or in a channel (FramesGenuine); a response channel is in
  at most one of map, hand, buffer and closed (OnePlace), in at least one while its
  handler waits (Reachable); subscribers in the map are open and live (SubsOpen).
* **HubAccountsForFrames, HubAwaitsFirstMatch** (ChannelHubProofs). Each subscriber has an
  account: what it has seen, taken or not, is increasing and nothing is missing before
  it (NoGap), nor at all while it is in the map (Complete); `fanout` is the only step
  that touches an account, and taking a frame from the channel changes nothing in it.
  NoGap is what is left after shutdown, when the map is empty and the channels are not.
  An `/await` that has not answered has skipped no match (AwaitInv), so the match it
  answers with is the first one seen.
* **HubEchoesOnce, HubHealthHonest** (ChannelHubProofs). A frame of the log with an id is
  the echo of a command whose caller has got past its write, and no two are the same
  (EchoInv); events come without an id. For the counts, finitely many requests have begun
  at any moment, of whatever set of requests; the map injects into the handlers at work, and
  `commands` is short of what was written by just those between their write and their count.
* **HubImplementsCommandService** (ChannelHubProofs): every step of the broker is
  one of the command service or a stutter, from that invariant and one more fact, that
  a command whose write failed was never sent.
* **StoreTypeCorrect, StoreEntriesSupervised, StoreOneExit,
  StoreSupervisorsHaveEntries** (SessionStoreProofs). EntrySupervised needs that an
  object is deleted only after it was added, and that deleted means being cancelled or
  cancelled. The last two are about objects that share their id with no other, for the
  reason that `store_own_lifecycle` shows.
* **WsFramesIntact, WsHeldUntilPeerEnds** (WsConnProofs). Who is in the middle of a
  frame holds the lock (Holder); the wire ends in half a frame only while its writer is
  about to push the rest, or when nothing can follow because the peer is gone or the
  deadline has passed (HalfFrame); failures last (Failing).
* **WsReaderFaithful** (WsConnProofs), on top of that invariant. While the peer is there
  and no pong has failed, the heads of pongs on the wire answer just the pings read so
  far, in order, but for the one whose pong has yet to begin (PongInv): this one is the
  frame read last, so that its pong, when it goes out, comes after all the others.
* **KeepWarmDeathNoticed, KeepWarmNeverIdlesOut** (KeepWarmProofs). Two invariants bound
  what a clock has run up at each point of the loop: while the supervisor waits, the clock
  and the time until the next tick make at most the longer of interval and timeout, plus
  the lag or the last probe; during a probe, that plus what the probe has spent. WatchInv
  is about the clock of a session that ended, and is proved for all positive intervals and
  timeouts; WarmInv, about the time since the hub heard of the session, rests on
  TunablesAssumption too.
* **SpecsTypeCorrect, HarvestAccounted, HarvestNoHalfSnapshot, HarvestImplementsShelf,
  ProbeUnionComplete** (HarvestProofs). Every target that a run has behind it is settled, and
  stays so (SettledInv); a run that ends has all of them behind it.
  A file is open only while the run that writes it is at `fill` and goes for just that
  file, and damaged only after a fault; whole files stay whole; a prober's base is read,
  in the listing it works on, or in a directory it has yet to list.
* **ProbeVerdictsTrue** (HarvestProofs). While the routes are fired, those that have no
  verdict are the ones nobody claimed and the ones still to fire; each verdict is the
  judgement on its route's answer (VerdictInv). What the judgement says of the route is
  for hubs that answer as W3C asks (Conforming), and less of `probeSpecs` than of `Run`.
* **WireTypeCorrect, WireOneHonestLine, WireJoinsWithinRun** (WireProxyProofs). Within one
  process a number belongs to one call, taken before the lock, so it has at most one line
  and one row of that run, however the handlers overtake each other at the lock and at the
  ledger. A failing write costs at most two calls their line: the torn one and the one
  stuck to it. So the calls that lost their line, and one more while a torn line waits for
  its neighbour, are at most twice the faults (LostInv); the rows that join no line map
  one-to-one into these calls.
* **McpTypeCorrect** (McpServerProofs): the types, which depend on the point the program
  is at: `at` is a line and `step` one of its steps where they are used, and a step that
  is through has its outcome.
* **McpSocketPerCall, McpAnswersInOrder** (McpServerProofs). The socket is open exactly
  in `send` and `consume` (SocketInv). The responses so far are those of the lines
  before the one under way, which is owed one if it runs steps (AnswerInv).
* **McpOutcomesHonest** (McpServerProofs). No call is made ahead of its step; when a call
  is to be made directly, its target has had it from the witness at most once, and not at
  all without one; a command that waits for its frame was sent once at most (FireInv). Each
  outcome then adds its call to a bounded number of earlier ones.
* **McpTemplatesOfThisCall** (McpServerProofs). `prior` has exactly the keys of the
  steps so far, each with the last step that has it and whether its result is an object
  (PriorInv); so the argument that `Resolved` gives is the one that the results so far
  mean, and so are those of the calls made for this line, still as `prior` grows, since a
  call names only steps before its own (CallsRight).
* **McpDiscoverComplete** (McpServerProofs). `todo` is the end of the list of sources,
  and of what is before it each source spoke, was silent, or is the tree of a broker
  whose health was silent (SurveyInv); the witness is asked first, so every broker that
  answers is entered with what is known of it. No source is in the list twice, and each broker's
  tree follows its health, for any number of ports.
* **ChainTypeCorrect, ChainHandleThreads, ChainLeftAliveOpenly** (SessionChainProofs). A
  chain that is at a link has made no more calls than the links before it can make, the
  first two of them and thus a handle among them (PlaceInv); whatever it may leave
  behind was created not to idle out, and it keeps what an inspector is attached to
  (KeepInv). That `Goto` never skips back is what PlaceInv rests on. Until it ends nothing
  has broken that decides how it ends, and nothing was told.
* **TextHeaderRoundTrip, ControlHeaderRoundTrip** (WsConnProofs, about the definitions of
  WsFrame): `readFrame` recovers length and opcode from every header that the writers
  produce, up to 2^63 - 1.

Where an argument needs the first or last position of a kind (`Max` of the steps a key
names, the next link of the chain), it comes from the least element of a nonempty set of
numbers (WFMin of WellFoundedInduction); no proof needs an induction over data.

With these, every safety property that a passing run checks is a theorem too. Only
model-checked are the liveness properties CommandAnswered, HangUpNoticed,
SubscribersReleased, SupervisionEnds, CallReturns, HeldWritesReturn, ProgramsEnd and
NoSessionOutstays (fairness and ENABLED are out of the prover's reach), and the four
violations, which are counterexamples.

## 5. Not modelled

* The texts of requests, receipts (`witnessWriter`) and reports, redaction, URL forms,
  masking: no state, no interleaving. `extractRoutes` is a pure function of a source
  text; what it finds is the constant `Claims`.
* `contract`: constants and pure functions, and the trace library, which no program of
  the repository uses.
* `cmd/eight`, `cmd/probe`'s and `cmd/channel`'s flag handling, `internal/host`: no state.
* A `become` inside a `become`: it would be the same loop with a `prior` of its own.
* The fields of a session are, once it is added, changed only under the store's lock, so
  the store's model has the map and not the fields.

## 6. Plan

Done, in this order: ChannelHub with its abstract service and proofs, SessionStore,
WireProxy, McpServer, WsConn and WsFrame; then Harvest and SpecShelf, SpecProbe, KeepWarm
and SessionChain, `discover` and the templates of `become`, and the wire's failing file;
then the proofs of the MCP server, the reader, the probers' verdicts and the chain.
Left:

1. Proofs of safety facts that the liveness properties rest on and that need no
   fairness, such as what bounds the steps of a run: ProgramsEnd and CallReturns.
2. The broker's receipts, if they get state; `contract/trace`, if a program uses it.
