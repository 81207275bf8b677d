# NyaRelay in TLA+

NyaRelay forwards TCP and UDP traffic through chains of nodes.  A *controller*
keeps nodes, tunnels and forwards in a SQLite database, compiles a signed
configuration with a lease for every node and pushes it over a WebSocket.  A
*node* runs an agent, which receives configurations, and a relay service, which
listens, dials the next stage and copies data.  A separate updater process
replaces the node's binary after an administrator approved it.

This directory holds TLA+ modules translated from the Go source, TLC
configurations that check them on small instances, and proofs checked by TLAPS
that hold for every value of the constants.  `PROJECT.json` lists the
components, the runs, the line ranges each definition stands for, the hazards
and the theorems.

## Parts of the system

| Part | Source (`src/internal/`) | State | Operations | Module |
|---|---|---|---|---|
| Relay runtime | `node/relay/service.go` | configuration, revision, listeners, cancel functions, expiry goroutines | `Apply` (start, reload, renew, fail and restore), `expireConfig` | `RelayService` |
| Relay connections | `node/relay/service.go`, `udp.go`, `tls.go` | connection slots, handlers, sockets | accept, hello, dial, pipe, UDP stream, blame of candidates | `RelayConnections` |
| UDP entry sessions | `node/relay/udp_runtime.go`, `udp.go` | session table, queues, transports and their readers | submit, run, retry, read loop, `closeAll`, runtime watcher | `UDPEntrySession` |
| Candidate selectors, UDP affinity | `node/relay/selector.go`, `udp_sessions.go` | cursor, failures and cooldowns, affinity table | order, success, failure, bind, unbind, collect, reset | `CandidateSelector` |
| Node agent | `node/node.go`, `client.go` | current revision, cache file, control connection | bootstrap, apply, cache, heartbeat, update command, metrics report | `ConfigDistribution`, `NodeUpdate`, `History` |
| Node binary update | `node/update.go`, `controller/server.go`, `store.go` | update columns, request and status files, installed binary | approve, send, write request, run updater, restart, report | `NodeUpdate` |
| Compile and push | `controller/server.go` | what each handler has read | four reads, scope per node and role, sign, send; revocation | `ConfigDistribution`, `RouteScope` |
| Node hub | `controller/nodehub/hub.go`, `server.go` | sockets with write mutexes, status column | register, replace, unregister, send, close | `NodeHub` (`ConfigDistribution` has one socket) |
| Tunnels, forwards, ports | `controller/server.go`, `store/store.go` | tunnels with stages, forwards, `port_allocations`, revoked nodes | prepare, save, delete, enable, revoke | `PortAllocation`, `PortLedger` |
| Store | `controller/store/` | the database | the transactions above | in the modules that use it |
| Authentication | `controller/auth/`, `store/session.go`, `server.go` | limiter, users with TOTP columns, sessions | setup, login, enrolment, logout | `AdminAuth` |
| Metrics and retention | `node/metrics/`, `node.go`, `server.go` | counters, rows, settings in memory and in the database, cleanup timer | count, report, insert, change settings, prune | `History` |
| Input validation | `shared/validate/` | none that changes | one rule: a node is in one stage | `RouteScope` (`Apart`) |
| Signing, wire formats, installer, web | `shared/`, `controller/` | none that changes | — | not modelled |

How they interact:

* An administrator's request runs in an HTTP handler of its own.  It reads the
  database, commits a transaction that also increments `config_revision`, then
  compiles and pushes for every node.  The reads of a compilation are four
  queries outside any transaction.
* The agent's control loop reads configurations from the socket one at a time.
  It refuses an older revision, calls `Service.Apply` and writes the cache file.
  After a restart it asks over HTTP and falls back to the cache.
* `Apply` holds `Service.mu`.  It cancels the runtime's context, closes the
  listeners and starts the next runtime, but does not wait for the handlers and
  UDP sessions of the old one.  They live on beside their successors until they
  see their context.
* Handlers of both runtimes share `Service.config`, the selectors, the affinity
  table, the UDP session table and the connection slots.
* Every control connection has a handler in the controller.  A new connection of
  a node replaces the one in the hub's table and closes it; the old handler
  notices later and cleans up after itself.  Registration and revocation exclude
  each other by `nodeSocketMu`, sends and closes by a mutex of the socket.
* One goroutine prunes the history.  Requests that change its settings wake it
  through a channel of one token.
* Agent and updater share two files only.  systemd starts the updater as long
  as the request file exists.

What is hard here, and what makes each part correct:

* **Relay runtime.**  A goroutine whose timer has fired waits for the mutex
  while renewals, failed applies and restores go on.  Correct when a running
  lease always has one goroutine to end it, an expired lease ends, and the
  listeners are those of the revision that runs.
* **Relay connections.**  A handler looks its forward up twice, in a
  configuration that may be replaced in between, while tunnel and secret are its
  listener's.  Correct when slots and sockets are given back on every path, no
  dial leaves the authenticated tunnel but for what a renewal changed between the
  two lookups, only candidates that failed or were given up are blamed and
  handlers of a stopped runtime end.
* **UDP entry sessions.**  Listener, session, reader, watcher and `closeAll`
  meet in one table.  Correct when a client has one live session, no socket
  stays open that nobody is about to close, the byte count is exact, sessions of
  a stopped runtime end, and a datagram that was partly sent is not sent again.
* **Selectors.**  Dials of old and new runtimes report into shared state.
  Correct when an order has each available candidate once, cooldowns do not add
  up and the affinity table keeps its limit.
* **Configuration.**  Handlers race from commit to socket; either side may
  crash.  Correct when the node never rolls back, ends up on the newest revision,
  and stops for good once revoked.
* **Ports.**  Two handlers choose ports from reads made before their
  transactions.  Correct when no port has two owners, none leaks, and a stage or
  forward holds its port on the nodes where it listens.  The code keeps the last
  for forwards as long as the entry of their tunnel stays where it is.
* **Update.**  Files, rows and binaries change in separate steps, each of which
  can be the last one before a crash.  Correct when only approved versions are
  installed, never an older one, and success is only recorded of what happened.
* **Node hub.**  Handlers of two connections of one node and administrators meet
  over three kinds of mutex.  Correct when pushes go to the connection the node
  listens to, a revoked node has none, a connected node ends up online, and
  nobody waits for ever.
* **Scoping.**  Every node gets its own part of a tunnel.  Correct when the parts
  fit together, so that whoever may be dialled accepts, and keys stay with the
  node they are for.
* **History.**  Settings change between the loop's reads of them.  Correct when no
  wake-up is lost, no row goes early, expired rows go, and nothing is counted
  twice.
* **Authentication.**  Requests check and act in separate steps.  Correct when one
  setup succeeds, an enabled second factor is one its owner has proved, and a
  block holds until its end.

## The modules

In every module a variable is a field, table or file of the program, and an
action is a critical section, a transaction, a query, a file operation or a
network call, together with everything the code does before the next point where
another actor can come between.

**`RelayService`**.  `now`, `revision`, `config`, `running`, `listeners` and
`expireCancel` are the fields of `Service`.  A configuration is its revision,
its lease and the addresses it listens on; 0 is the zero time.  One revision
may have several contents (`Content`), since the controller can compile two under
one.  `Apply` is one action because it holds the mutex: it renews, which replaces
the configuration and leaves the listeners, succeeds, or fails at a listener some
other process holds (`busy`) and restores the previous configuration.  An
expiry goroutine is *armed*, *cancelled* or *fired*: between `TimerFires` (its
select) and `ExpireConfig` (under the mutex) any `Apply` may run.  `granted` is
a history variable for `LeaseKeepsRoutes`.

**`RelayConnections`**.  `conns` holds one record per handler: program counter,
runtime it belongs to, tunnel of its listener, the forward record it found, its
two sockets, the pumps of its pipe or stream, and marks for what properties ask
about it.  `Apply` cancels the runtime, `Renew` replaces the configuration under
the one that runs.  `Accept` covers the TCP and
the WebSocket listener, `Handle` the steps of a handler, `Idle` the idle timers,
and `Peer` what the other ends do.  TLS and the upgrade are parts of a dial or a
hello that may fail.

**`UDPEntrySession`**.  One client of one forward.  `sess` and `trans` are the
sessions and transports in the order of creation, `entry` the table's value for
the key, `listener` the goroutine of each generation's socket.  `Submit` is
`submitUDPEntryPacket`, `Run` the loop of a session with `retryInitial`,
`Reader` `readLoop`.  `CancelRuntime` and `StartRuntime` are the end and the start
of a runtime, `sweeper` holds `closeAll` (number 0) and the watcher of each
generation, which empty the table and then close what they took.  `close` is two
steps for whoever calls it: it marks the session under `stateMu`, and closes the
transport when it has released it.  `wire`
records which transports took bytes of a datagram.

**`CandidateSelector`**.  The selector, the affinity table and the dials that
use them, for one stage and one network (the maps are keyed by tunnel, stage and
network).  Every method is a step, for each holds its own mutex and a dial calls
several.  `StopStage` resets both structures while dials of the old runtime run
on, and `ApplyStage` then sets the timeout of the next configuration;
`lastTimeout` is a history variable, the timeout before that.
The selector of targets is the same code over another set and is not repeated.

**`ConfigDistribution`**.  The tables are counters of committed changes, so two
configurations are equal exactly when they were compiled from the same data.  A
handler's compilation is the steps `nodes`, `tunnels`, `forwards`, `rev`,
`send`.  Revocation is `RevokeNode` and `BumpRevision` in two transactions, a
push under `nodeSocketMu`, and the close of the socket.  The agent has phases
`pulling`, `caching`, `up`, `down`.  The relay is the part of `RelayService` the
agent can tell apart: its revision, its configuration and whether it runs.

**`PortAllocation`**.  `tunnels`, `forwards`, `allocations`, `revoked` and
`revision` are the database.  `PrepareTunnel` and `PrepareForward` are the
handlers, one step per query and one for the transaction; the unique index of
`port_allocations` makes a save fail.  `GetTunnel` and `GetNodes` stand for a
few queries in a row; every other query of a handler is a step of its own.
`moved` is a history variable: the forwards whose tunnel got another entry since
`prepareForward` had read it, and the handlers about to save one.

**`PortLedger`**.  The abstract specification of the allocations: who holds each
port of each node and protocol.  One owner exchanges its ports for free ones, or
ports are given back.  `PortAllocation` maps its tables to it (`Holder`), and
`LedgerSpec` says that it implements it: no request moves the ports of a tunnel
or forward other than its own.

**`RouteScope`**.  Extends `PortAllocation` by what
`scopeConfigForNodeWithActiveNodes` makes of the tables for every node, and by
the receiving end: which forwards a node serves, whom it may dial and which
hellos it accepts.  It adds no step; its properties relate the configurations of
several nodes in every state the transactions reach.  Settings are the names of
the keys and certificates a candidate has.

**`NodeHub`**.  `sockets` is the field of `Hub` for one node, `status` its row,
`socketMu` and `writeMu` who holds the mutexes.  `conns` are the handlers of
`handleNodeWS` from the hello to the deferred calls, `admins` the handlers that
push a change or revoke the node, with a bump of the revision that may fail.  The
revision the hub keeps for long polls is not modelled: no node agent polls.  The
identity of a connection is used again once nobody refers to it, so any number of
connections follow each other.

**`History`**.  `stored` and `memory` are the settings in the database and in
`Server.cleanupConfig`, `wake` the token of `cleanupWake`, `loop` the cleanup
goroutine, `counter`, `report` and `rows` the way of the traffic counts.  A count
is the set of the units of traffic it adds up, so that a unit in two rows can be
seen.  Time is counted in half seconds, since rows are compared as RFC3339Nano
text, in which the half second comes before the full one.

**`AdminAuth`**.  `req` holds one record per HTTP request, `attempts` is the
limiter's table, `users` and `sessions` are the tables.  Every call of the limiter
and every statement or transaction is a step.  Passwords and codes are right or
wrong by choice of the client, a secret or a token is named by the request that
made it.  `until` and `proved` are history variables.

**`NodeUpdate`**.  `row` is the node's columns in the database, `up` and `down`
the messages of its connection, `request` and `status` the two files, `legible`
whether the first can be read, `disk`
the installed binary and `running` the version of the process.  The updater
goes through fetch, download, replace, status, remove and restart, and may crash
between any two.  A manifest and a binary are the version they carry.

## Runs

Each `.cfg` names its module and its bounds.  States are distinct states.

| Run | What it checks | States |
|---|---|---|
| `relay_service` | `LeaseGuarded`, `OneLiveTimer`, `ListenersOfRevision`, `ExpiredLeaseEnds` | 144 017 |
| `relay_connections` | `SocketsHoldSlots`, `AuthorisedDial`, `BlameIsDeserved`, `StoppedConnectionsEnd` | 368 604 |
| `udp_entry_table` | `OneLiveSession`, `QueueAccounting` | 1 974 737 |
| `udp_entry_live` | `NoTransportLeak`, `FirstSendNotReplayed`, `StoppedSessionsEnd` | 288 468 |
| `selector` | `OrderIsComplete`, `AffinitySafe`, `CooldownBounded` | 4 573 932 |
| `config_distribution` | `RunningNeverRollsBack`, `RevisionConverges`, `RevocationEffective` | 123 906 |
| `port_allocation` | `AllocationsUnique`, `AllocationsAgree`, `RoutesMeet`, `KeysStay`, `LedgerSpec` | 479 597 |
| `node_update` | `InstalledIsApproved`, `SucceededIsInstalled`, `NeverDowngraded`, `RequestConsumed` | 1 108 520 |
| `node_hub` | `OneControlConnection`, `RevokedIsCut`, `ConnectedIsOnline`, `RevocationEnds`, `RegistrationEnds` | 37 198 |
| `history` | `TimerFollowsSettings`, `CountedOnce`, `KeptForRetention`, `ExpiredRowsGo` | 309 516 |
| `admin_auth` | `OneAdministrator`, `EnabledIsProved`, `BlockHolds` | 431 390 |
| `relay_lease_keeps_routes` | `LeaseKeepsRoutes`, violated: the finding below | |

`AllocationsAgree` is the conjunction of `AllocationsOwned`, `RowsAllocated` and
`EntriesAllocated`.
Every module states the types of its variables as `TypeOK`, but for
`HistoryTypeOK` and `SelectorTypeOK`, whose modules share a proof module with
another component; the runs spend their time on the properties above, and adding
the type invariant to the `INVARIANTS` of a `.cfg` checks it on the
same instance.  A listed mutant shows for each property that a plausible slip in
the code breaks it.

### Bounds

* `relay_service`: two addresses, so that a reload can fail after one listener
  has opened; revisions 0 to 2, so that there is an older, an equal and a newer
  one, with more than one content of a revision, so that a renewal may bring
  another; three goroutines, for a running one, one that fired and one cancelled;
  four instants, enough for a lease to be renewed and to run out.
* `relay_connections`: two connections that compete for one slot, a node that is
  entry, transit and exit of one tunnel each, a forward that moves from the exit
  to the transit and loses TCP, one that disappears, two targets to try, one
  reload and any number of renewals.
* `udp_entry_table`: two sessions, since a late end can only harm a successor, and
  one runtime; datagrams of 1 and 2 bytes in a queue of 2 bytes, so that the limit
  on bytes binds.  The limit on entries does not bind in this instance, nor does
  the watcher of an older runtime meet a successor; both are covered by the
  theorems `QueueIsAccounted` and `TableHoldsTheLiveSession`.  `udp_entry_live`: one session, two
  transports, two attempts and two runtimes, so that a retry can be overtaken by
  the end of its runtime and by the next one.
* `selector`: two dials, two keys and a table of one; five stages that cover the
  strategies, the limits of a weight, a candidate without UDP and a stage
  without candidates, with timeouts of one and two instants; one reload, three instants.
* `config_distribution`: two concurrent administrators beside the node's own
  two handlers, and one fault anywhere; revisions go up to 2, which leaves room for
  one committed change, or for a revocation whose bump failed and one change.
* `port_allocation`: two handlers, two tunnels, one with mutual TLS, and two
  forwards over three nodes of two ports, so that ports run out and are chosen
  twice, a chain has three stages, candidates differ in their protocols and a
  stage loses all its nodes; a bounded number of changes.
* `node_update`: three versions, two approvals, one change of the release (to an
  older one too), one fault; one message in flight each way.
* `node_hub`: two connections at a time, of any number in all, one administrator
  who changes things any number of times and revokes the node, and two failed
  database calls, wherever they hit.
* `history`: two concurrent requests that switch the retention on and off,
  restarts and lost reports within the bound on faults, and enough half seconds
  for rows to expire.
* `admin_auth`: four requests and two names; a threshold of two failures, so that
  a block can be put on a key, be lengthened and outlast its entry; a table of
  two entries for four keys and of one session, so that both overflow.  Time
  passes between requests only: its unit is a minute, and a request takes a
  database statement or a password hash.

`CHECK_DEADLOCK FALSE` stands where a model comes to rest when its bounded
changes, datagrams, runtimes, time or traffic are used up: `config_distribution`,
`udp_entry_table`, `udp_entry_live`, `port_allocation` and `history`.  The other
passing runs check deadlock.

### Fairness

* `RelayService`: some goroutine that is due fires, since a select with two ready
  branches takes either with equal probability, and whoever waits for a Go mutex
  gets it.
* `RelayConnections`: a handler goes on wherever it does not wait for a peer.
  Reads of the hello and the first frame, dials and writes of UDP streams have
  deadlines; a copy without one is woken by the watcher that closes its sockets.
  Peers owe nothing.
* `UDPEntrySession`: goroutines that can go on do.  Strong fairness is assumed of
  the `Done` branch of a session's select alone, which competes with traffic and
  is chosen at random among the ready ones.  Nothing is assumed of the idle
  timer.
* `ConfigDistribution`: handlers that have started finish, the agent restarts,
  reconnects, pulls periodically and reads its socket, leases run out.  Nothing
  is assumed of administrators or faults.
* `NodeUpdate`: systemd's path unit starts the updater while the request exists
  and a started updater that can read the request runs to its end (its HTTP client
  has a timeout).
  Nothing is assumed of controller, connection or agent.
* `NodeHub`: a handler that can go on does, also one that waits for a mutex others
  keep taking, because a Go mutex that was waited for long enough is handed over
  in order (strong fairness); database calls end and writes have a timeout of ten
  seconds.  A connected node sends its heartbeats.  Nothing is assumed of new
  connections or of administrators before they begin.
* `History`: the cleanup goroutine runs and its timer fires; a handler that has
  started goes on.

`PortAllocation`, `RouteScope`, `CandidateSelector` and `AdminAuth` have safety
properties only.

## What TLC refutes

**`LeaseKeepsRoutes`**, `service.go:208`.  The repository's README promises that
routes run until the lease expires.  A goroutine that fired before a renewal of
the same revision compares only the revision once it has the mutex, and stops
the renewed runtime.

The models also contain these behaviours.  The first three are at odds with a
comment or a plan; the passing properties are worded so that they do not deny
them.

* A push of another handler that read the nodes before a revocation and the
  revision after it may reach the node first; the empty configuration then has
  the running revision and only renews it (`server.go:826`; the comment at 824
  says the node stops at once).  `RevocationEffective` holds: the lease ends it.
* `retryInitial` drops the progress of a failed send on a replacement transport
  and replays the datagram once more (`udp_runtime.go:310`; the comment at 280
  says only what made no progress is replayed).  `FirstSendNotReplayed` is what
  holds: nothing is replayed when the first transport took part of it.
* When the entry of a tunnel moves, its forwards listen on the new node, since the
  configurations follow the tunnel, but their allocations stay on the old one:
  `SaveTunnel` (`store.go:1140` to `1198`) replaces the tunnel's own rows only.
  `docs/plans/001`, lines 494 to 500, has a forward occupy its port on the entry
  node and every occupied port written to `port_allocations`, and line 539 has
  the forwards take the new path.  A forward of another tunnel may then be given
  the same port of the new node, and the two listeners collide there.
  `AllocationsAgree` states the exact extent: a forward has its port on exactly its
  entry candidates unless its tunnel got another entry after `prepareForward` had
  read the tunnel (`moved`).  Saving the forward again puts it right.  Without
  that exception the property is violated in `port_allocation`.
* A handler whose socket was replaced may still process a heartbeat it had read.
  If that comes after the new connection's `MarkNodeOffline`, or if that call
  fails, the status stays "online" without a connection (`server.go:2071`).
* Two concurrent changes of the cleanup settings read them before either is
  stored: one is lost in memory until the next restart, when the database has
  both (`server.go:569`).
* Starting a TOTP enrolment switches the second factor that was in force off
  until the new one is enabled (`server.go:425`); a restart lifts every block of
  the limiter, and so does an eviction from its full table (`ratelimit.go:75`).
* Narrowing the protocols of a stage, or revoking its only candidate for UDP,
  leaves an entry listening for a protocol no candidate supports
  (`server.go:2407`); `RoutesMeet` speaks of the candidates there are.
* A command that is repeated overwrites "failed" in the status file before a
  heartbeat has reported it, so that an update that keeps failing may stay
  "requested"; and when the binary was installed but not restarted, repeated
  requests are removed and the row stays "requested" (`server.go:2214`).
* After expiry `Service.config` is empty under the live revision.  A failed
  `Apply` then restores an empty runtime, and a fresh configuration of that
  revision only renews it (`service.go:77`, `123`).
* A compilation can join old tables with a new revision; the right configuration
  is later taken for a renewal (`server.go:2275`).
* A tunnel can be deleted between the checks of `prepareForward` and the
  transaction of `SaveForward` (`server.go:1367`).
* A report of an earlier update overwrites the row of a newer request
  (`store.go:1060`), and the updater's deferred removal takes away a request
  written while it worked (`update.go:165`).
* A dial of a stopped runtime writes into the selector that was reset for the
  next one (`selector.go:235`).  Between the reset and `setFailTimeout` it does so
  with the timeout of the old configuration, which may outlast a shorter new one
  (`service.go:92`, `93`); `CooldownBounded` allows for the two.
* A renewal that brings another content replaces `Service.config` and leaves
  listeners and context alone (`service.go:77` to `88`).  When it moves a forward
  to another tunnel between the two lookups of a handler, the handler dials for a
  tunnel that did not authenticate its peer (`service.go:406`).  `AuthorisedDial`
  excepts the handlers this happened to, and `ListenersOfRevision` says that the
  listeners belong to the revision, not that they are those of `Service.config`.
* A dial that fails because its context has ended, or because earlier candidates
  used up the budget, counts against the candidate (`service.go:540`, `562`,
  `600`).  The end of a stream is told apart with care, the end of a dial is not.
* `close` of a UDP session marks it closed before it closes the socket
  (`udp_runtime.go:205` to `218`), so `run` may have returned while the goroutine
  that marked it still has the socket to close.  `NoTransportLeak` allows for that
  one transport.
* A request file that cannot be read or decoded stays: `runUpdate` returns before
  it defers the removal (`update.go:161` to `165`), and systemd starts the updater
  again until a new request replaces the file.  `RequestConsumed` speaks of
  requests that can be read.
* A transport that ends before anything was sent is retried with a nil payload,
  an empty datagram (`udp_runtime.go:350`).
* A handler gives its slot back when the first copy of a pipe ends, while the
  second may still run (`service.go:795`).
* A listener of a stopped runtime may take the next runtime's session out of the
  table before it closes it, so that for a moment a client has two open ones
  (`udp_runtime.go:560`).

## Proofs

Each theorem holds for every value of the constants that satisfies the named
assumptions of its module.  Those say that the constants have their types (sets,
bounds in `Nat`, "none" outside the set it is added to), that requests have passed
validation (`TunnelRequestAssumption`, `ForwardRequestAssumption` and, from
`validate.Tunnel`, `OneStageAssumption`: no node is in two stages), and nothing
else; TLC evaluates them in the runs.  A proof is laid out the same way everywhere:
an inductive invariant as a conjunction of named parts, a lemma for each action
(or each outcome of one) that preserves it, and the theorems at the end.  Two
proof modules speak of a second component as well, which shares no variable with
the first: `RelayConnections_proofs` of `CandidateSelector` and
`PortAllocation_proofs` of `History`.

What a recursive definition computes is needed in two places, the folds over pools
in `CandidateSelector` and the byte count of `UDPEntrySession`. Both are functions
on the positions of a sequence, defined by `f[k] = ... f[k - 1] ...`. The laws
about them are proved by induction over a *set* of numbers (`NatInductionSet`: a
set that has 0, and with every number the next, has all of `Nat`; it follows from
the least number that would be missing). The same induction shows that such a
function exists, since `CHOOSE` says nothing of it otherwise.

**`RelayService_proofs`**: `Invariance`, `TypeCorrect`, `LeaseAlwaysGuarded`,
`AtMostOneLiveTimer`, `NoForeignListener`.  `LeaseGuarded` is not inductive: a
cancellation must not hit the goroutine that guards the lease, which needs
`OneLiveTimer`; the restore after a failed `Apply` needs `ConfigOfRevision`, which
says that the configuration is one its revision came with or what expiry left of
it; and `ListenersOfRevision` needs the same.  Nothing is assumed of the contents:
a revision may have any number.

**`RelayConnections_proofs`**: `DialsAreAuthorised`, `SlotsCountHandlers`,
`BlameIsTrue`.  `AuthorisedDial` speaks of open connections only.  `IInv` adds, for
each handler (`Sound`), that one whose runtime is in force has looked at the
configuration its runtime was started with or renewed to, and that only such a one
opens a connection.  `Apply` preserves it because the old runtime is cancelled in
the same step that replaces the configuration, so every handler that looked at the
old one is refused its dial: the argument the code relies on without a recheck
after the second lookup.  `Renew` does not cancel, and preserves it because a
handler between the lookups is marked when its forward changed, which is the one
case the code does not exclude.
The slots need no more than that a counter follows a finite set (`SlotInv`), but
for every handler also that its record is tidy (`Tidy`): no socket is open after
its return, a result that blames the candidate stands for a fault of it, and a
blame for a dial that was given up is forgotten once a connection is open.  The
second is what makes `BlameIsDeserved` inductive, since `Blames` looks at the
result only.

Of **`CandidateSelector`**: `OrdersAreComplete`, `AffinityKeepsToTheList`,
`CooldownsAreBounded`.  `SelectorInv` has three parts.  `DialsInv`: a dial works
with an index into the stage of its own runtime, and the order it works down
repeats nobody and has everybody that was offered, whatever the weights and
wherever the cursor.  What `selector.go` builds is followed through `FlattenKeeps` (the weighted pool has whoever was offered),
`RotatedKeeps`, `DedupeKeeps` (each once, nobody lost) and `ShuffleKeeps`.
`TableInv`: an insertion into a full table evicts first.  `CooldownInv`: no
cooldown ends later from now than the timeout in force or the one before, whichever
runtime it was put on by; nothing older comes through the reset.

**`UDPEntrySession_proofs`**: `TableHoldsTheLiveSession`, `TransportsAreClosed`,
`FirstSendIsFinal`.  `IInv` says which transports a session at each step of `run`
may have open (`Linked`: its current one, or the one it has just opened and not put
in place), that nobody works for a runtime that has not started, and
`OneLiveSession`.  That a session has one open transport follows because two of one
session would both be the same; that the last one is closed takes `Closers`: while
a session that is marked closed has an open transport, somebody is about to close
it, be it a listener, `closeAll`, a watcher or `run` itself.  That nothing partly sent is sent again takes an
invariant of its own (`SendInv`): a datagram is in one place, which is one listener,
one place of one queue or one session's hand (`InOnePlace`); what is queued or about
to be sent for the first time is on no wire; and what is resent went only to, and
goes only to, transports that are not the first of their session (`Late`).

`QueueIsAccounted`, the byte count of each queue, is inductive session by session
(`QueueInv`).  It rests on two laws of `Bytes`, what appending a datagram adds
(`BytesOfAppend`) and what taking the head leaves (`BytesOfTail`).  A datagram that
was taken out and not yet subtracted counts until it is, which is why the byte
limit also holds between the two steps of `dequeue`.

**`PortAllocation_proofs`**: `PortsHaveOneOwner`, `TablesAgree`,
`TablesImplementLedger`, `KeysStayPut`, `StagesStayApart`, `RoutesAlwaysMeet`.
`AllocationsUnique` is inductive by itself and needs no fact about what the handlers
read: deletions keep it because a subset of a table with one owner per port has one
owner per port, saves because the unique index refuses a row in conflict.
`AllocationsAgree` needs `JobsCover`: the candidates a handler carries from its
reads to the transaction cover exactly the protocols of the row it saves, which is
what `validateTunnelEffectiveCandidates` checks; and `EntryInv`: these candidates
are those of the tunnel's entry, unless the entry moved since they were read.  From both, `LedgerSpec`: `Holder`
is well defined, and each transaction exchanges the ports of one owner or gives
ports back.  `KeysStay` and `RoutesMeet` are statements about every configuration
that can be made of the tables; the second needs that no node is in two stages
(`ApartInv`), in the tables and in the rows still to be saved, so that whoever is
dialled as the next stage listens as the next stage.

Of **`History`**: `TimersFollow`, `OnlyOldRowsGo`, `NothingCountedTwice`.
`TimerFollowsSettings` needs types and nothing else to be inductive: it already
says which handler, token or pass of the loop is still to come when the timer
disagrees with the settings.  `KeptForRetention` is an action property.  It needs
`BeforeIsOld`, since the loop deletes by what it read and the settings may have
changed since, and the order of the textual timestamps (`TextOrder`).
`CountedOnce` needs that no unit is used before it is counted (`MetricsTyped`).

**`NodeHub_proofs`**: `HubHasTheConnection`, `RevocationCuts`.
The invariant says who holds `nodeSocketMu` at which step of registration and
revocation, that the table names a connection whose handler has yet to unregister
it, that at most the one being replaced is open beside it, that no connection of a
revoked node is being registered, and that between the lookup and the close of
`Hub.Close` nobody else comes into the table.

**`ConfigDistribution_proofs`**: `NoRollback`, `RevisionsAreCommitted`.  No revision
anywhere (a handler's, one in the queue, the agent's, the relay's, the cache's) is
ahead of the database, and agent and relay agree between two messages.  `NoRollback`
is an action property; it needs `InStep`, since the agent compares with its own
revision while the relay is what must not go back.

**`NodeUpdate_proofs`**: `OnlyApprovedIsInstalled`, `SuccessIsReal`, `NoDowngrade`.
Every place a version goes through, from the row to the installed binary and back
in the node's reports, holds an approved one or the first; and from the check to
the rename the installed binary stays older than the updater's target, because a
single updater runs.

**`AdminAuth_proofs`**: `SetupMakesOneAdministrator`, `SecondFactorIsProved`,
`BlocksHold`.  The first two need that at most one row exists and that a request
about to write has had its secret proved.  `BlockHolds` is an action property and
the harder one: an entry that blocks is in the table (`Recorded`), and a key a
request has passed is either free or was blocked within the same instant
(`PassedJustNow`), so that the request's own failure prolongs the block and does
not, as one long after the last, start the count again.

Two attempts failed for a reason worth knowing.  `OneLiveSession` used to say that
there is at most one live session, which is false with two generations: a datagram
that a listener of the stopped runtime still has in hand finds the session of the
next runtime just when its transport has failed, so the listener deletes the key and
then closes the session, and between these two steps the present listener may create
the next live one.  The property now allows for the session that is about to be
closed, and for no other.  `RoutesMeet` cannot be proved without
`OneStageAssumption`, on which the scoping relies and which the validator enforces.

Every safety invariant and action property of the runs is a theorem.  Only
model-checked:

* all liveness (`ExpiredLeaseEnds`, `StoppedConnectionsEnd`, `StoppedSessionsEnd`,
  `RevisionConverges`, `RevocationEffective`, `RequestConsumed`, `ConnectedIsOnline`,
  `RevocationEnds`, `RegistrationEnds`, `ExpiredRowsGo`): fairness and `ENABLED` are out of reach of the
  prover;
* that `LeaseKeepsRoutes` fails, which is a behaviour TLC exhibits.

## Not modelled

Cryptography (a signature that verifies, a password hash that matches and a TOTP
code that is right are taken as given), byte-level framing, string validation
(but for the one rule `RouteScope` assumes),
templates and static files, migrations and encryption at rest change no shared
state.  The contents of payloads are left out of the relay modules.  The audit
retention is the code of the metrics retention over another table, the limiter of
`withNode` that of the login over other keys, and the table of `allowNodeMetrics`
is one of the reasons a report may be refused.  The revision in the hub and the
long polls that wait for it (`Hub.SetRevision`, `Hub.Wait`) are left out: the
node agent does not call `/api/node/events`, configurations are compiled from
`config_revision` in the database, and the hub's copy is not reliable, since
handlers that commit in one order may announce in the other, and
`handleCreateNode` and `handleUpdateNode` announce 0 when the bump failed
(`hub.go:28`, `server.go:756`, `797`).  Nothing else reads it.  Several nodes appear only in
`PortAllocation` and `RouteScope`: on the wire, nodes share nothing but the tables
they are compiled from.

Some steps are coarser than the code.  `GetTunnel` and `GetNodes` of `PortAllocation`
stand for several queries each, and `RevokeNode` of that module for the revocation
and the bump of the revision, which are two transactions (`ConfigDistribution`
has them apart): no other transaction comes between them there.  All clocks are
one: the rows `History` prunes by age are stamped by the node, and a node whose
clock is off shifts its rows by as much.

That every approved update is tried, with fairness of the whole control loop, is
not among the runs: its graph is too large for the liveness check on the instance
`node_update` uses.

## Plan

Done, in this order: `RelayService`, `ConfigDistribution`, `UDPEntrySession`,
`PortAllocation`, `NodeUpdate`, `CandidateSelector`, `RelayConnections`, `NodeHub`,
`PortLedger`, `RouteScope`, `History`, `AdminAuth`, and proofs about all of them.

Later models: an abstract specification of the node's configuration (a revision
that only grows, contents the store once had) for `ConfigDistribution`, and of
`RelayService` as the agent sees it.
