# A TLA+ model of alkasir

alkasir is a censorship-circumvention client with a central server. The client
starts *transport* processes (obfs3, obfs4, shadowsocks), tests whether the
network can be reached through one of them, and hands the browser a PAC file that
sends blocked hosts through it. It fetches lists of blocked hosts and new binaries
from the central server, and sends suggestions of blocked hosts with measurements
to it; the server measures the same hosts, compares, and publishes.

This directory models both sides: the client's connections, settings, updates and
suggestions, the transport programs beside it, and central from a suggestion to a
published host. The modules are checked with TLC on small instances; the main
invariants of the connection manager, the update checker, the transport services
and the analysis are proved with TLAPS for every value of the constants.
`PROJECT.json` maps every definition to the lines it models.

## Inventory

| Component | Code (under `src/`) | State | Operations | Model |
|---|---|---|---|---|
| connection manager | `pkg/service/connectionmanager.go` | current list and index, last event per connection, listeners, reconnect timer, test flag, default transport | select loop, `connect`, `testConn`, `UpdateConnections`, stop | `ConnectionManager` |
| transport services | `pkg/service/service.go`, `misc.go` | `ManagedServices`; per service `running`, `quit`, `removeOnStop`, child process | `NewService`, `Start`, `Stop`, `Remove`, `StopAll` | `TransportService` |
| transport processes | `pkg/service/server`, `pkg/transport` | options, lines printed, tracked connections | check, parse, listen, serve, end at a closed stdin, report traffic | `Handshake`, `Traffic` |
| obfs4 process | `pkg/obfs4proxy` | listeners, handlers, termination monitor | set-up of both roles, accept, drain, exit | `ProxyProcess` |
| shadowsocks programs | `pkg/transport/shadowsocks`, `cmd/shadowsocks-local`, `cmd/shadowsocks-server` | failure counters; port table | handshake, request, server choice; listeners, reload | `SocksLocal`, `PortListeners` |
| PAC generator | `pkg/pac/pac.go` | blocked method, host lists | listener, `SetBlockedMethod`, `UpdateBlockedList` | `ConnectionManager`, `ClientSettings` |
| update checker and upgraders | `pkg/client/updatechecker.go`, `upgradeblocklist.go`, `upgradebin.go` | active flag, retries, country | tick, force, response, retry | `UpdateChecker` |
| client settings, REST API, life cycle | `pkg/client/internal/config`, `pkg/client/api.go`, `client.go` | settings in memory and in `settings.json`, host lists | `Update`, `Write`, `Read`, migrations, connection calls, exit | `ClientSettings` |
| client HTTP server | `pkg/client/http.go` | single-use keys, cookies | start, `Authenticate`, `Cleanup`, tray menu | `ClientAccess` |
| suggestions and sessions | `pkg/central/client`, `pkg/central/api.go`, `pkg/central/db/sessionstoken.go` | suggestions and samples; tokens | create, submit, send, `SuggestionToken`, `StoreSample`, expire, restart | `Suggestions` |
| measurements and analysis | `pkg/central/measurements.go`, `pkg/central/analysis`, `pkg/central/db/postgres.go` | request queue, samples, watermark, stages, published hosts | queue, measure, scan, fetch, analyse, publish | `Analysis`, `Publication`, `Score` |
| export API | `pkg/central/export-api.go`, `pkg/shared/jwtmw`, `pkg/central/db` | credentials, tokens, pages | login, refresh, pages | `ExportApi` |
| public address | `pkg/shared/publicip.go` | address, service index, waiting callers | ask, retry, refresh | `PublicIP` |
| upgrades | `pkg/upgradebin`, `pkg/nexus`, `cmd/alkasir-admin`, `pkg/client/upgradebin.go` | jobs, patches, `upgrades` rows, the binary on disk | make patches, insert, publish, check, apply | `PatchFactory`, `BinaryUpgrade` |

How they interact. The manager goroutine receives everything on unbuffered
channels: events from `connect` and `testConn` goroutines, ticks, fired timers,
results of verification tests, new listeners. It forwards each event to every
listener in turn and waits for each. `testConn` holds the read lock
`defaultTransportM` for the whole test *and while it sends its events*; `connect`
takes the write lock to install its transport; the upgraders take the read lock to
make a request. An upgrader, on an Up event, forces its checker, which sends
requests back to it. `connect` starts a transport process, reads its lines, and
removes the service of the previous attempt; `exit` writes the settings, stops the
manager and then all services. REST calls change the settings, then write the
file, and tell the manager and PAC. `SubmitSuggestion` asks central for a token
and leaves a background sender; central's handler blocks on the queue of
measurement requests; workers store central's samples; the scan hands sessions
with such a sample to fetchers, analyzers and publishers; clients read the hosts
they publish with the next block list update. An administrator's patches become
rows that central offers to clients, which patch their own binary.

What is hard here: every hand-over is a rendezvous between goroutines that also
wait for each other; flags (`connectionTestRunning`, `running`, `active`, the
counters of shadowsocks) are read in one goroutine and changed from another;
timers are replaced while they fire; copies of the settings and of suggestions are
used after the original has changed; the file and the watermark are written apart
from the work they stand for; answers get lost; processes die in the middle.
`hazards` in `PROJECT.json` lists the places, line by line.

## Modules

### The client's connections

**`ConnectionManager`** numbers the connect goroutines of a behaviour
(`Attempt`); an attempt owns at most one service, so a service is named by its
attempt. `cpc[a]` and `tpc[t]` are the control points of the connect and testConn
goroutines; a goroutine about to send event S is at the point named S, and
`EventAt`/`AfterEvent` tabulate the straight-line part of `connect`. Tester `a` is
the first probe of attempt `a`; a `Verifier` is a test started by the ticker.
Every case of the select statement is an action that needs `Selecting`;
`Receive` is everything the manager does with an event up to the loop over the
listeners, and the loop is `todo`/`emit`, one action per delivery. A writer that
waits for `defaultTransportM` (`cpc = "locking"`) keeps new readers out, as Go's
RWMutex does. PAC receives an event in one step and handles it in another
(`pacEvent`).

Abstractions: stopping a service is one step (`TransportService` has the detail);
a test through any socks5 service that was ever started may pass or fail, because
a removed process may still answer for a while; a forced update is instantaneous
(`UpdateChecker` has the detail); no timer delay is assumed; a listener is given
the event itself, not the history slice that the manager goes on appending to
(from 21 events on the two can differ, see the hazards). Nothing happens after
`stopCh` or a panic. `reported`, `verifyFailed` and `overlap` are history
variables, written but never read by the actions.

**`ConnectionStatus`** is the abstract specification: attempts one after the other,
each up at most once and ended once, until two verification tests overlap.

**`UpdateChecker`** is one checker (`kpc`) and its client (`cpc`). A retry
goroutine blocked on `forceRequestC` is counted in `forced`. `active` is written
without synchronisation: `seen` says that the checker has received something from
the upgrader since, and until then a tick may see the old value. The result of an
update is a choice. The binary upgrader is the case of one country.

**`TransportService`** has one goroutine per service, `Remover` processes that
call `Remove`, and `stopAll`. Only `stopAll` keeps the list's lock over several
steps. `running`, `quit` and `removeOnStop` are unsynchronised: a sender that
finds `quit` nil is stuck for ever, one that meets a closed channel panics, and a
stale `removeOnStop` is a choice. The deferred calls run in Go's order: `quit` is
closed before `running` is cleared. The child process is external: it may die at
any time and, once its stdin is closed, ends.

### The programs beside the client

**`Handshake`** is one transport process from `RunService` on and its parent's reading
of its lines: every combination of options the checks tell apart, the three
transports, the helper of obfs4, a process that dies at any point, and a client that
dies during the handshake. An error text that `formatline` rejects is a panic.
**`Traffic`** has the tracked connections, the monitor that posts them every second,
and posts that overtake each other; the counters wrap as `uint64` does (a small
modulus). **`ProxyProcess`** is the obfs4 process in both roles: a handler blocks
until the termination monitor receives its count, a signal that finds nobody waiting
is dropped. The parent's end is noticed at stdin, by `prctl` (one SIGTERM, which may
be dropped), by polling, or on Windows not at all. **`SocksLocal`** is the SOCKS end
of shadowsocks: the unsynchronised counters are a read and a later write, so
increments get lost, and what a browser sends is a record of what the code tests.
**`PortListeners`** is the server: a reload goes by a table in which listeners enter
themselves later.

### The client's data

**`ClientSettings`** holds `currentConfig`, `settings.json` and the copies Run, the
manager and PAC work with. `Write` is three steps (marshal and truncate, write, done),
so the client may die with a torn file, and a write that fails after the truncation
leaves one while the client goes on. `Init` chooses a file of an older, of this or of
a later version, with any of its connections disabled or with none at all, and a start
may be unable to read the file; both a torn and an unreadable file make it begin with
the template. The migrations of `updates.go` are one function from a version to the
next, which leaves later versions as they are. Update takes the write lock and `Write`
the read lock, hence two Writes overlap. `Run` takes a copy of the settings before it
starts the services; Go's slices make a change in place visible through the copy and
an append not necessarily so.

**`Suggestions`** is a suggestion's way from `CreateSuggestion` to central's table:
`SubmitSuggestion` with its background sender, each working on copies, requests
and answers that are lost, central's tokens, their expiry in two critical
sections, and a restart that reloads them from the table as the query gives them.

**`ClientAccess`** (single-use keys), **`PublicIP`** (an answer is an IPv4 or an IPv6
address, and `To4` makes nil of the latter) and **`BinaryUpgrade`** (an administrator,
central and one client whose binary on disk and running version differ after an
upgrade) complete the client.

### Central

**`Analysis`** composes the request queue, the measurement workers, the samples
table, the scan with its watermark, the three stages and `PublishHost`. A row takes
its ID when it is inserted and is seen when it is committed, so rows appear out of
order. A crash loses everything but committed rows and the persisted watermark; a start
that cannot read the watermark scans from 0. A database error is possible wherever the
code handles one, and also where it does not: a row that does not scan is passed over,
and a result that breaks off is taken for complete (`GetSamplesPartial`). Clients in
`Careless` may store an HTTPHeader sample that is not what the stages parse (`"junk"`),
because `StoreSample` takes any JSON. **`Score`** has the score
in integers. **`Publication`** is the abstract specification: a host is published
only for a session whose evidence is complete, and neither is withdrawn.
`Analysis` implements it with `evidence` the sessions that have a token row and
both measurements visible, and `published` the hosts with a row (`KeepsPromise`).

**`ExportApi`** has login, refresh and the pages of a table that grows while it is
read, with any rows that do not scan, queries that fail and results that break off;
**`PatchFactory`** creators, workers and closer of the patch maker.

`MCProcesses` and `MCServices` put small components that share no state into one
run: `unit` chooses one per behaviour, so that their state spaces add up instead of
multiplying. `MCConnectionManager`, `MCClientSettings` and `MCAnalysis` hold
symmetry sets, the hosts of sessions and a constraint `Slice` each. `...Proofs` hold the
theorems. Definitions marked "fault variant" are deliberate mistakes: each property
is violated when a definition is replaced by one of them.

## Runs

| Run | Instance | Checks |
|---|---|---|
| `cm_rotate` | 2 connections, 2 attempts, 1 verification | `TypeOK`, `OneChain` |
| `cm_overlap` | 1 connection, 1 upgrader, 2 attempts, 2 verifications | `FlagGuards`, `PacNeverStale` |
| `cm_liveness` | 1 connection, no upgrader, fairness | `Reconnects`, `VerdictAndInstall`, `VerifiesAgain` |
| `uc_safety` | 3 country codes, 3 changes, 2 failures, fairness | `TypeOK`, `RetryPending`, `CountryServed`, `Returns` |
| `ts_stop` | 2 services, 2 Remove calls, StopAll, fairness | `TypeOK`, `DelistedWasStopped`, `PanicNeedsRivals`, `RemoveTakesEffect` |
| `settings` | 2 concurrent REST calls, 2 starts, files of five versions, a connection of each origin | `SettingsReady`, `ManagerInSync`, `PacInSync`, `FileCurrent`, `SetupSurvives` |
| `suggestions` | 1 suggestion submitted twice, 1 fault, 1 restart, fairness | `NoSampleLost`, `SessionRooted`, `SenderDelivers` |
| `analysis` | 2 sessions of one host, queue of 1, 2 publishers, 1 fault, 1 careless client, fairness | `FewDuplicates`, `NothingSkipped`, `KeepsPromise`, `RipeIsPublished`, `TokenAnswered` |
| `processes` | 2 connections, 2 servers, 2 ports, 2 reloads, fairness per program | `HandshakeSound`, `DrainsFirst`, `ReachableServes`, `PortsSettle`, `ProcessesEnd`, `TrafficSettles` |
| `services` | 2 keys, 3 address services, pages of 2 of 4 rows, 2 artifacts, 3 releases | `OneUse`, `PagesComplete`, `LoginFades`, `FirstAddress`, `AllPatched`, `NeverBackwards` |
| `cm_lockup` | 1 connection, 1 upgrader | `NoWaitCycle`, violated |
| `sess_restart` | 1 suggestion, 1 restart | `SessionsSurvive`, violated |

What they show.

* Connections. Outside overlapping verification tests the manager never loses its
  connection and never runs two, through failures, empty lists and new listeners.
  PAC never keeps a connection that has ended. The test flag works until the first
  failed verification, and only until then. A failed update is retried. No process
  that was started is dropped from the list without having been told to end.
* Settings. Whatever file is found and whatever calls follow, the settings are current
  with an address and a key, or those of a later version as found; a connection stays
  enabled unless the start found none and no migration adds one, or a disabled one
  replaced the last (`bare`); the manager and PAC hold what the settings say, but
  for a call that comes before `Run` has used its copy; the file catches up with
  memory when no call is under way; a country that was acknowledged survives every
  restart, unless the last Write failed or died after it had truncated the file, or a
  start could not read the file.
* Suggestions. A measured sample is in the client's store or in central's table,
  whatever gets lost and however often a suggestion is submitted; the sender
  delivers everything unless its time is over or its session is gone.
* Analysis. Central implements `Publication`. Below the watermark only rows are
  skipped that were not yet visible, or that a result of the database left out without
  an error. Without a fault, a session that is complete when its sample is scanned is
  published, unless its client also stored one that cannot be parsed. A host gets at
  most one row per publisher. A full queue delays the answer to a token but does not
  prevent it.
* Programs. A serving transport is one the client believes in, and closing its stdin
  or ending its parent ends it and its helper, unless it still waits for the helper's
  answer; so does an obfs4 process that watches its stdin, while one that relies on
  `prctl`, or on nothing, may miss its parent's end (`ProxyEnds`); draining cuts no
  counted connection; a request fails only when every server has refused it; a reload
  leaves the configured ports; the client ends up showing the connections that are
  open. `HandshakeSound`, `PortsSettle` and `DrainsFirst` state the exceptions the
  code has.
* Services. A key is good for one request; every caller gets an address, or nil once
  the services have failed or one has answered an IPv6 address; an export has no gap
  and no row twice, but its end may be missing although it looks complete: when a row
  that does not scan, a failed query or a broken result costs a page its link; a login
  fades; all patches are made; the binary on disk is a release and never older.

Bounds. Two attempts are enough for every interaction of two consecutive
connections, which is all the state the manager keeps; two verifications are the
least that can overlap. Two connections are needed for rotation, one for the rest.
`cm_overlap` adds the constraint `Slice`: an upgrader that listens, and
verifications that overlap, are explored one at a time, each with everything else
the manager does. Three countries include the unset one and a change between two
set ones. `Slice` of `settings`: the connections of the first file are all enabled or all
disabled, and a typed-in string has both flags or neither; the calls make the mixtures.
Two REST calls are the least that interleave between `Update` and
`Write`, two starts the least that read what a run left; the connections are one
of each kind the migrations tell apart. A suggestion's state is its own, so one
suggestion with two submissions has every overlap. Two sessions of one host make
publishers meet; a queue of one is full with the second request; `Slice` of `analysis`
calls the session that comes first `t1`, and lets it send junk while it is alone and
nothing has failed, so that junk and faults are looked at one at a time; further faults
only repeat the loss of the same state, and the proofs cover any number of them.
Pages of two rows out of four have a full page, a last page and a row inserted
between. Three releases are needed for two upgrades without a restart.

Deadlock checking is off: a behaviour legitimately ends when the client is stopped
or has panicked, when all work is done, or at a bound. Connections are
interchangeable in `cm_rotate`, REST calls in `settings`; both check invariants
only.

Fairness. Goroutines that can go on do go on; Go's timers fire; an HTTP request
ends because its client has a timeout.

* `ConnectionManager`, `TransportService`: weak fairness per goroutine. None for
  `Service.Start`, which has no timeout, for ticks, connection events, settings,
  `exit`, or for whether `Remove` and `StopAll` are called. `cm_liveness` has no
  upgrader: with one, the deadlock of `cm_lockup` refutes every liveness property.
* `UpdateChecker`: a forced request has strong fairness, because `select` chooses at
  random among ready cases and so does not prefer ticks for ever.
* `Analysis`: weak fairness of all of central's goroutines together: while one can
  go on, one does. None for clients, and none for faults.
* `Suggestions`: the measurements and each background sender, which has a ticker.
* `Handshake`, `ProxyProcess`: the process and the reader of its lines go on; the
  termination monitor serves, among other senders, the one that tells of the
  parent's end (strong fairness, as for `select`). The helper's answer is not
  assumed.
* `Traffic`: the monitor ticks and a post arrives, in any order.
* `PublicIP`: a service answers or fails. `PatchFactory`: one of its goroutines goes
  on while one can.

## Proofs

For every value of the constants TLAPS proves, as theorems of the specifications, all
invariants of the passing runs, and their two action properties (`NeverBackwards`,
and `KeepsPromise`, a refinement); and a second refinement, `StatusHolds`:

| Module | Theorems |
|---|---|
| `ConnectionManagerProofs` | `TypeCorrect`, `OneChainHolds`, `PacNeverStaleHolds`, `FlagGuardsHolds`, `StatusHolds`, `EndIsEnd` |
| `UpdateCheckerProofs` | `TypeCorrect`, `RetryPendingHolds`, `CountryServedHolds` |
| `TransportServiceProofs` | `TypeCorrect`, `DelistedWasStoppedHolds`, `PanicNeedsRivalsHolds` |
| `ClientSettingsProofs` | `SettingsReadyHolds`, `FileCurrentHolds`, `ManagerInSyncHolds`, `PacInSyncHolds`, `SetupSurvivesHolds` |
| `SuggestionsProofs` | `NoSampleLostHolds`, `SessionRootedHolds` |
| `AnalysisProofs` | `NothingSkippedHolds`, `FewDuplicatesHolds`, `KeepsPromiseHolds`, `AlwaysPublishes` |
| `ProcessesProofs` | `HandshakeSoundHolds`, `DrainsFirstHolds`, `ReachableServesHolds`, `PortsSettleHolds` |
| `ServicesProofs` | `OneUseHolds`, `LoginFadesHolds`, `PagesCompleteHolds`, `NeverBackwardsHolds`, `NilAfterAllHolds`, `DoneIsCompleteHolds` |

The assumptions about constants:

* `Conn` is not empty, `NoTransport` is a subset of it, PAC is not an upgrader, and
  bounds are natural numbers; `Unset` is a country; central's queue has a slot and its
  publishers are finitely many.
* `ConnAssumption`: the connections the migrations add and withdraw (`updates.go`)
  are different ones (the user may type in any); some of the first list stay and the
  last list is not empty. `SettingsBounds`: the REST callers are not the upgrader, the
  start or the exit.
* `ServicesAssumption`: times and page lengths are natural; the list of address
  services in `publicip.go` is a literal with entries; there is a first release, and
  garbage is none; there is a worker (`makepatch.go:55`).
* `ProcessesAssumption`: the number of shadowsocks servers is natural.

`OneChain` is not inductive. That an Ended event schedules the *only* reconnect
needs to know that its sender speaks for the live attempt. `IInv` therefore adds
how far an attempt can be (`Stages`), that the manager's memory of a connection is
about an attempt that was up if it says Up (`CurrentsMatch`), that a verification
test is about such an attempt (`VerifierAbout`) and, without overlap, that there
is one such test whose subject is up until it reports Ended itself
(`OneVerifier`). `PacNeverStale` adds which services run (`ServiceRuns`) and what
PAC may hold while the end of its connection is on its way or being handled
(`PacFollows`). `FlagGuards` rests on an invariant of its own, `FlagInv`. Each is
proved action by action; a frame lemma disposes of the parts whose variables an
action leaves alone.

`StatusHolds` maps the variables of `ConnectionStatus` to `started`, `reported` and
`overlap`. It rests on `IInv`, on `Decided` (an attempt that was made decides the fate
of the connection or has ended), and on a classification of the steps (`StatusSteps`):
silent, beginning an attempt, or reporting. No run lists it; TLC finds it true on the
instances of `cm_rotate` and `cm_overlap`. `EndIsEnd` gives the condition under which
"Nothing more can happen" after Ended is true.

`UpdateChecker` needs the budget of retries (`Budget`) and where an update is
noted (`Noted`). `TransportService` needs the stage of a service's goroutine, what a
pending `Remove` or `stopAll` call says about its service, and who the stopper
was.

The invariant of `Analysis` has four parts. `NothingSkipped` speaks of the persisted
watermark; `Watermark` says the same of the position of the scan, with what the
scan still has in its batch, that the one follows the other, and that rows are left out
by the database only once a fault has been counted. `FewDuplicates`
counts rows; `Bounded` counts them together with the publishers that have asked and
not yet inserted, of whom a publisher is one at most. `Grounded` says that what a
stage knows about a session is in the table, which never shrinks; with it each step
of central is a step of `Publication` or leaves its variables alone. `Types` gives
the provers the types. That `samplesAnalyzer`'s comparison with 0.5 never rejects a
session, and may be left out of the stage, is the theorem `AlwaysPublishes` about
`Score`.

`ClientSettings`: what a start reads decides everything, so `SettingsInv` says which
settings any file may hold: `Loadable` (up to version 6 each has what its migration
wrote). A start has them, or the template, and what `UpgradeConfig` makes of either is
current, with a connection enabled when they were `Fresh` (the last migration still
has something to add, or one is enabled) and `bare` noted when not. `SettingsInv` also
says that nobody is inside `Write` before the client serves, and that whoever is
inside `WriteFile` has marshalled the settings of now: without the last one, two
overlapping writes could leave an older file. The copies need what the snapshot of
`Run` holds before it is used (`ManagerInv`, `PacInv`), and `SetupInv` that an
acknowledged set-up is on disk or the file is torn.

`Suggestions`: `FlowInv` adds that every token the client knows, in its store or in a
sender's copy, has its row; so an Ok of central means the right session.

`ProcessesProofs`: the counter of the monitor is the number of handlers it has counted
(`DrainInv`); the servers a request has tried, skipped or still has to try are all of
them (`ServersInv`); what the client believes goes with the lines printed and not yet
read (`HandshakeInv`); a port of the table is bound or its listener is on its way
(`PortsInv`).

`ServicesProofs`: a key that is gone without having been shown is past its time
(`KeyInv`); a token remembers its login and cannot outlive it (`LoginInv`); central
has no row of anything but a release, and a check finds something newer than what runs
(`UpgradeInv`, from which `NeverBackwards` follows step by step); an export has
everything readable down to the link it follows next, and down to its last row
whatever failed (`PagesInv`), which rests on lemmas on a page: it descends, and has
all rows between its ends. `NilAfterAll` and `DoneIsComplete` are the safety halves of
`FirstAddress` and `AllPatched`: until there is an address, every service before the
one being asked has failed, and an address that is not IPv4 leaves a mark
(`AddressInv`); a patch that is to be made is ahead of its creator, in the queue, at a
worker or done, and the queue is closed after the creators, the run after the workers
(`PatchInv`).

Each invariant was checked by TLC on the instance of its run before it was proved.

Only model-checked: liveness (`Reconnects`, `VerdictAndInstall`, `VerifiesAgain`,
`Returns`, `RemoveTakesEffect`, `SenderDelivers`, `RipeIsPublished`,
`TokenAnswered`, `ProcessesEnd`, `TrafficSettles`, and that `FirstAddress` and
`AllPatched` come about), because the prover does not handle fairness; and the
violations, which are finite witnesses.

## Disagreements

Two runs each exhibit a behaviour that contradicts a statement of the repository
(`findings` quotes it):

| Run | What happens |
|---|---|
| `cm_lockup` | the manager sends to an upgrader, which waits for the lock a connect goroutine wants to write, which waits for a test, which sends to the manager |
| `sess_restart` | central reloads its sessions from JSON text, and the URL it compares with is in quotes: it refuses the samples of every session older than its start |

Seven more properties state what a comment of the source says and the code does not
do. They are kept in the modules and belong to no run; a `.cfg` that names one of
them alone, with the constants of the run in the last column, shows the behaviour.

| Property | The source says | What happens | Constants of |
|---|---|---|---|
| `NothingAfterEnded` | `connectionmanager.go:63` "Nothing more can happen" | a failed verification reports twice, tests overlap, and events follow Ended | `cm_overlap` without upgrader |
| `UpMeansTested` | `connectionmanager.go:53` "Connected and tested" | the first probe runs before its transport is installed and tests the previous one | `cm_liveness` |
| `NewErrorReported` | `connectionmanager.go:60` "One of the previous steps failed" | a transport without a command: nil dereference before the error check | `cm_liveness`, `NoTransport = {c1}` |
| `UpdatesOnUp` | `upgradeblocklist.go:32` "Update when the transport connection comes up" | upgrader and checker send to each other | `uc_safety` (`FairSpec`) |
| `StopAllEnds` | `misc.go:115` "StopAll stops all services, blocks until everything is shut down" | `stopAll` waits under a read lock for a goroutine that needs the write lock | `ts_stop` (`FairSpec`) |
| `OneEnabled` | `api.go:230` "one connection must be enabled" | a disabled connection may replace the last enabled one, and a file of this or a later version may have none: the manager panics at its next start | `settings` |
| `PrctlWorks` | `termmon.go:119` "Platform specific code that should always work" | the one SIGTERM arrives during the set-up or between the two waits and is dropped | `processes` |

## Not modelled

* Text and byte formats: the PAC script, connection strings, URL validation, browser
  codes, the CONNECT and SOCKS4a messages of the outgoing proxies, tokens' encoding,
  binary diffs. The models use the values they stand for, or their success or failure
  as a choice.
* The network: what a DNS or HTTP measurement finds, GeoIP and whois lookups, bytes
  copied by proxies. DNS samples are stored and never analysed.
* Calls that only read and format: status, versions, log export, `UpdateHostlist`
  and related hosts (its answer is any list in `ClientSettings`), tables printed by
  the administration tool.
* Constant tables and wrappers: error lists, country codes, translations,
  middlewares that count requests, static files, the small servers under `cmd`.
* Signal handlers, the tray icon and log rotation of the client; the browser
  extension, which is not part of the Go program; the build script.
* The event history slice that the manager shares with its listeners: it matters
  from the 21st event of a connection on, out of reach of the runs.

## Plan

Left to do: type invariants of `ClientSettings` and `Suggestions` as theorems of their
own; that the version of the settings file never goes back; the event history with a
smaller limit.
