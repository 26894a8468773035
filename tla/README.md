# Rioku control plane: TLA+ models, model checking and proofs

Rioku is an API gateway: a Go daemon (`src/packages/daemon`) keeps a configuration of routes, services,
policies, API keys and certificates, compiles it to a Caddy configuration and pushes it to Caddy, in which
Rioku's own plugins (`src/packages/plugins`) handle the traffic. With the raft store, several daemons share the
configuration. Operators use a web admin (`src/packages/web`). This directory models the parts of all this in which
several actors, or a crash, or a failure in the middle can break something that a unit test would hardly reach. All
paths below are relative to `src/packages/daemon/internal/` unless they begin with `src/`, `plugins/` (that is
`src/packages/plugins/`) or `web/` (that is `src/packages/web/src/`).

Contents: [components](#components) · [plan](#plan) · [modules and code](#modules-and-code) · [runs](#runs) ·
[fairness](#fairness) · [proofs](#proofs) · [findings](#findings) · [observations](#observations) · [not modelled](#not-modelled).


## Components

| component | code | state | operations | status |
|---|---|---|---|---|
| raft FSM | `store/raft/fsm.go`, `command.go` | one bbolt file of 11 buckets; `fsmChan` | `Apply` of a log entry (a command or a batch), `Snapshot`, `Restore`, `view`, `emitEvent`, index rebuild | modelled; of `view`/`Restore`, see [not modelled](#not-modelled) |
| raft driver | `store/raft/raft.go` | raft node, `notify` channel | `Open`, `apply`, `readFSM`, `relayEvents`, `Close`, membership | open, apply, relay, restart |
| raft transactions | `store/raft/tx.go` | the `pending` commands | buffered writes, `flushPending`, `Commit`, `Rollback`, direct reads | as the engine uses them |
| config engine | `config/engine*.go` | `mu`, cached snapshot | `ApplyChange`, `GetConfig`, `WatchChanges`, `CompileCaddyConfig`, import | all but service and policy changes, rollback and import |
| middleware order handler | `gateway/route_middleware_order.go` | none | read a route, rewrite it, commit | modelled |
| on-demand TLS watcher | `daemon/daemon.go` | a matcher, a debounce timer | receive event, refresh | modelled as reader of events |
| circuit breaker | `plugins/circuit-breaker/breaker.go` | state, three counters, `openedAt` | `admit`, `recordResult` around `ServeHTTP` | modelled |
| sync agent, reload hook | `sync/agent.go`, `gateway/caddy_reload_hook.go` | debounce timer, last push | compile and push to Caddy | modelled |
| Caddy manager | `caddy/manager.go` | child process | start, push, exit, stop | push and exit |
| trace store | `tracestore/ringbuffer.go`, `ingester.go`, `aggregator.go` | ring buffer, subscribers, buckets of the database | push, subscribe, snapshot, cycle | all but sampling, queries and pruning (`Prune`, which only tests call) |
| session cache | `auth/session.go`, `auth/lru.go` | rows, LRU of sessions | create, validate, revoke, evict; what the role handlers evict | modelled as to what is cached |
| secret cache | `vault/cache.go` | values with expiry | resolve, invalidate, flush, rotate | modelled |
| CRDT counters | `cluster/crdt/counter.go` | two vectors per node | increment, decrement, snapshot, merge, collect | modelled |
| notification dispatcher | `notifications/dispatcher.go` | queue, worker | emit, dispatch, post, stop | not modelled |
| event client | `web/api/sse-client.ts` | a connection per topic | subscribe, unsubscribe, reconnect | modelled |
| plugin host | `web/host/plugin-*.ts`, `*-registry.ts` | plugins, contributions, surfaces | load, register, unload | modelled, with the six ways its surfaces treat a key |
| role resolver | `web/host/role-resolver.ts` | none | resolve, detect a cycle, validate | modelled |
| login | `web/features/auth/api.ts` | pending credentials | login, verify, logout | modelled |
| the rest | see `PROJECT.json` | | discovery, SQL stores, most handlers, AI gateway, CLI, views | not modelled |


How they interact. A client changes the configuration through gRPC or HTTP; the handler calls
`Engine.ApplyChange`, or opens a store transaction of its own. The engine works under a mutex of its node and
in a raft transaction, whose reads go to the node's own `fsm.db` and whose writes wait in memory until they are
submitted as one log entry. Raft hands every committed entry to `fsm.Apply` on every node. Each command
announces itself on `fsmChan`; `relayEvents` forwards to the driver's `notify`, which *all* watchers share; a
watcher waits until the events pause and reads the database again. Caddy is configured by the sync agent and by
the reload hook, each on its own. The circuit breaker runs inside Caddy, once per route, called by concurrent
requests. Caddy reports every request to the ingester, which pushes it into the ring buffer, from where live clients
follow it and the aggregator sums it up; the web admin is such a client, over Server-Sent Events. Every request of
the web admin passes the session cache. Configurations and settings name secrets that are resolved through the secret
cache. The CRDT counters are a package of their own, meant for rate limits over gossip; nothing else uses it yet.

What is hard, and which property is meant for it:

- *Interleavings.* Events leave `fsm.Apply` before the transaction commits; requests outlive the state of the
  breaker that admitted them; the reorder handler works beside the engine; nodes change the configuration from
  databases of different ages.
- *Reads kept after they are stale.* Sessions, secrets and snapshots are read, and put into a cache after what they were
  read from has changed; answers to logins arrive after later logins.
- *Crashes.* `fsm.db` survives a crash while raft's applied index does not, so entries are applied again to a
  database that already has them.
- *Partial failure.* A batch may fail in the middle; an `ApplyChange` is three log entries and may fail between
  them; leadership may be lost with an entry already on its way; a handler may panic between `admit` and
  `recordResult`.
- *Consistency between buckets.* The upstream index, the hash bucket of the API keys, the counter of the config
  versions and the policy bindings repeat what other buckets say.
- *Delivery.* Events are dropped when a channel is full, or taken by another watcher; gossip repeats, reorders and loses;
  event streams break and resume.
- *Ordering and liveness.* A restarted node must catch up, calls must return, an open breaker must be probed, Caddy and
  the web admin must come to show the latest.

Every hazard has its line in `PROJECT.json`, with the properties that watch it or the reason why none does.


## Plan

Done, in this order: `ConfigFsm`, `FsmStore` (with `ConfigStore` as its abstract specification), `RaftStore`,
`CircuitBreaker`, `ConfigEngine`; `SyncPipeline`, `TraceRing` (with `LossyStream` as its abstract specification),
`Aggregator`, `SessionCache`, `SecretCache`, `CounterSet`; `SseClient` (which implements `LossyStream`, too),
`PluginHost`, `RoleResolver`, `LoginFlow`; proofs of every safety and step property that a passing run checks and of
the four refinements; and proofs of what the findings leave true.

Left, most important first:

1. Service and policy changes, and `RollbackToVersion`, in `ConfigEngine`; an abstract engine in which a change is one
   atomic step, implemented by the accepted entries (`TraceInOrder` and `LeftWholeThm` are the parts of it that hold).
2. `Dispatcher`: the bounded queue, the attempts, and what stopping leaves undelivered.
3. The composition of `SyncPipeline` with the raft store, where a compilation is several read transactions.

## Modules and code

`DaemonServices` puts the six small components of the daemon beside each other and `WebAdmin` those of the web admin
that have state: their parameters, assumptions and variables, and their properties under one name each, for the runs
and for the proofs. Nothing is shared between the parts.

Routes, services, upstreams, policies, keys, audit entries and snapshots are ids: what a row contains beyond its
references to other rows makes no difference to any property. A bucket is a set or a function over ids.

### `ConfigFsm` — the database and its commands (`fsm.go`, `command.go`)

A database is a record with one field per bucket that matters. One operator per `apply…` function:
`PutRoute`, `DeleteRoute`, `CreateService`, … `SaveConfigVersion`, `AppendAuditEntry`; `Accepted` collects their error
returns, `Effect` is the dispatch of `applyCommand`. `UpstreamsOf` is `deleteUpstreamsForService`: it believes the index
when the index has any entry for the service and scans the payloads otherwise. `ApplyBatch` folds a batch (a recursive
function, `Outcomes`, so that the proofs can use it) and gives back the old database when a command is refused.
`RebuildUpstreamIndex` is the repair at startup and after a restore. No variables.

### `FsmStore` — one node (`fsm.Apply`, `emitEvent`, `relayEvents`, `runTLSAskWatcher`)

`db` is what bbolt readers see, `work` the copy of the running write transaction, `todo` its commands. `Begin`, `Run`,
`Refuse`, `Commit` are one `db.Update`; `Run` sends the event of each command *inside* the transaction, as `emitEvent`
does, and drops it when `fsmChan` is full. `RelayTake`/`RelayPut` are the relay's receive and send. `WatcherReceive`
starts or restarts the debounce, `WatcherRefresh` is the timer. `current` says whether the watcher has read what is
committed. `Steal` is any other watcher of the one channel; `RefreshFails` a `GetConfig` that fails,
`RefreshFromCache` one that fails and answers with the cached snapshot. With `Disturbed = FALSE` these three do not
happen: in the run of finding 1 the order of event and commit is the only cause. Two history variables: `carried`,
which service has ever been given which upstream, and `missed`, how the watcher last failed to follow. `ConfigStore`
is the abstract store: entries, each atomic, all or nothing.

### `RaftStore` — the replicated store (`Open`, `apply`, `Snapshot`, `Restore`)

hashicorp/raft is external and trusted: it gives a log of committed entries and hands them to each node in order.
`Propose`, `ApplyNext`, `TakeSnapshot`, `InstallSnapshot`, `Crash`, `RestartFromLog`, `RestartFromSnapshot`. A crash keeps
`db` and forgets `applied`. `history` (the database after each prefix of the log) and `replayed` (nodes that took some
entry twice) are history variables.

### `ConfigEngine` — `ApplyChange` over the raft store, and the reorder handler

One action per step of `ApplyChange` that others can come between: `Lock`, `CheckVersion`, the three cases of
`applyRouteOp`, `SyncPolicies`, the reads of `buildSnapshot` (the routes, then the bindings of one route after
another), then `Flush` and `SaveVersion` (`SaveConfigVersion` submits the buffered change first, then the version) and
`CommitAudit`. `View` is the node's own database, possibly behind the log; `Submit…` are the outcomes of
`Driver.apply`: accepted, refused by the fsm, failed with nothing appended (not the leader, or a leader that shuts
down or whose queue is full), or leadership lost with the entry committed all the same. `Return` is the deferred
rollback and unlock that every path runs. `ReorderRead`/`ReorderWrite` are the handler that bypasses the engine. Node
crashes are left to `RaftStore`; here a node can lag by any number of entries and lose leadership at any time.

### `CircuitBreaker` — the plugin with its concurrent requests

A request reads the clock (`Arrive`), takes the lock in `admit` (`AdmitClosed`, `Promote`, `AdmitProbe`, `Reject`), is
served without the lock (`Respond`, `Panic`), reads the clock and takes the lock in `recordResult` (`Record…`). Time is kept
relative to now, so there is no bound on the length of a behaviour.


### `SyncPipeline` — from a commit to Caddy (`sync/agent.go`, `caddy_reload_hook.go`, `engine.go`)

A configuration is the number of changes in it, or `Bare`, which is of no version of the store. The agent's first sync
may have failed: then it starts with a `Bare` Caddy, running or not. `Write` begins a transaction and sends its event,
as the SQL stores do; `Commit`, `Rollback` end it. `Forward` is `WatchChanges`, `Steal` another watcher on the one
channel; `Receive`, `Fire` are the agent's debounce. Agent and handlers then take the same way, each for itself:
`Read`; `ReadBare`, when the store cannot be had, which compiles a snapshot of some age without the WAF, OpenAPI and
MCP plugins of its routes; or `ReadFails`; then `Push` or `PushFails`. `reasons` is a history variable: what has
happened since Caddy last ran the latest configuration.

### `TraceRing` — the feed of traces (`ringbuffer.go`, `ingester.go`, `gateway/sse.go`)

`Push` writes the slot and copies the subscribers under the mutex; each `Send`, and `SendPanics` on a closed channel,
come after it. A client's request subscribes (`Connect`), replays what follows the trace it names (`Resume`),
`Follow`s its channel (`FollowFails`: a live write that fails is logged, and the loop goes on with the next trace) and
`Leave`s. Traces of one distributed trace share their id (`TraceId`), so a client that names the last it has seen is
replayed what follows the first of that id. `missed` is what a full channel or a failed write has cost a client. On
leaving, the unsubscription deletes the channel (`Unsubscribe`) and closes it later (`Close`). `LossyStream` is what a
live feed promises.

### `Aggregator` — the sums of the traces (`aggregator.go`, `tracestore/sqlite`)

A trace has the time Caddy logged it at and reaches the buffer (`Push`) later. A cycle is `Begin` (the start is
taken), `Drain`, `WriteBatch`, `WriteStats`, `WriteRow` of each class and `Finish`, and can fail before any write or
be cut off by a `Restart`. `trace_id` is the primary key of `raw_traces`: a second trace with an id is counted, and
its row ignored (`Inserted`). `excused` collects the traces that something named in the property has happened to; each
of these cases is needed: without any one of them TLC finds a trace that is lost or counted twice.

### `SessionCache`, `SecretCache` — caches filled after the read (`auth/session.go`, `vault/cache.go`)

A validation that misses is `Miss`, `ReadRow`, `ReadScopes`, `Fill`; a revocation `Revoke` and one `Evict` for each
session; an update of a role that the user holds himself `UpdateRole`, `ListSessions`, and evictions. `ChangeScopes`
is every other change of his scopes: of a role his inherits from, of a role that is deleted, of his assignments; the
handlers evict nobody then. `ReadScopes` may fail, and the session is cached without scopes. `spared` marks entries
and loads that an eviction came too early for, `stranded` those with scopes that no eviction is to correct. In
`SecretCache` the same is `Miss`, `Fetch`, `Store` against `Flush`, with `late` for the calls in between.

### `CounterSet` — replicated counters (`cluster/crdt/counter.go`)

`Increment`, `Decrement`, `Snapshot`, `MergeRemote` of any snapshot ever taken (so snapshots may be lost, repeated and
reordered), `Expire` and `Collect`. `ups` and `downs` are what each node has counted in truth.

### `SseClient`, `PluginHost`, `RoleResolver`, `LoginFlow` — the web admin

JavaScript runs one callback at a time: an action is a call or a callback, up to its next await. 

`SseClient`: the calls `Subscribe`, `Unsubscribe`, the callbacks `Message`, `Fail`, `Reopen`. An event without an id
leaves the last one remembered (`Remember`; `unnamed` records that it happened). The server (`Accept`, `Publish`) is
external: the one the client is written for. That of the repository (`gateway/sse.go`) is another, see
[observations](#observations).

`PluginHost`: the loader (`Load`, `Refuse`, `Invoke`, `InstallMetadata`, `Finish`, `Throw`, `Unload`), and what the
plugin's code may do at any time after it was given the host: `Register` through it, `RegisterUntracked` through
`useHost()`, `Withdraw` anything. The surfaces appear by the six ways in which they treat a key: fresh id (`zone`), id
of the first (`route`), overwritten (`theme`), rejected (`endpoint`), overwritten under the same plugin name (`spec`),
untracked (`listener`). Endpoints and documents are removed by the plugin name their caller gave. Spotlight resources,
which a command's id unregisters too, are left out.

`RoleResolver`: after its recursive calls a call of either walk does nothing more, so a walk is the list of the calls
still to be made (`CollectNext`, `VisitNext`), taken as many steps as it can last; it is asked about every graph and
compared with reachability, which is the least set of roles that is closed under parents. `LoginFlow`: the calls
before and after their awaits.


## Runs

Every passing run has, for each of its properties, a mutation of the modelled code that breaks it (`PROJECT.json`,
"mutants"; the mutated operators stand in the modules, marked *Mutant*).

| run | instance | states | what it shows |
|---|---|---|---|
| `fsm` | 1 route, 2 services, 2 upstreams, 1 policy, 1 key, 10 batches, channels of 1, other watchers, failing reads | 2.02M | indexes, bindings, keys and version numbers stay right; a stale watcher has one of three causes; readers see entries atomically (`AppliesAtomically`: `FsmStore` implements `ConfigStore`) |
| `fsm_stale_watcher` | the same, undisturbed | — | violation, see findings |
| `raft_cluster` | 3 nodes, 3 entries out of 6, 2 crashes, symmetric nodes | 2.72M | replicas are consistent in themselves; nodes without replay follow the history; replay converges to the same configuration; a revocation that a node has taken holds there |
| `raft_catch_up` | 2 nodes, 2 entries, 2 crashes | 62k | a crashed node comes back with the cluster's configuration (liveness) |
| `raft_divergence` | 2 nodes, 2 entries, 1 crash | — | violation |
| `breaker` | 3 requests, thresholds and slots 2, 1 lost probe | 60k | counters fit the state, no slot leaks but to a panic, an open breaker is probed, a half-open one decides |
| `breaker_panic`, `breaker_late_success` | 2 requests, thresholds 1 | — | violations |
| `config_engine` | 2 requests out of 5 changes, 2 nodes, 3 routes, 2 policies, 1 change of leader | 733k | entries in order, optimistic locking, deletions, policies, every call returns |
| `engine_version` | 1 request, no change of leader | — | violation |
| `daemon_services` | six components side by side, see below | 1.70M | a resumed feed has no gap, traces are counted in one bucket, stale sessions, secrets and configurations have one of the reasons named, counters never overcount, Caddy converges |
| `web_admin` | four components side by side | 1.84M | one feed for each topic, in order, unloading a plugin is exact, the walks of the roles agree with reachability, pending credentials are the latest |

The bounds, and why they are enough:

- `fsm`. Two services contend for the index, which is where `deleteUpstreamsForService` could go wrong, and each
  command occurs in some batch, several behind another command so that a refusal rolls something back. `MaxVersion` 2
  makes a second version follow a first. Capacity 1 makes both channels overflow. Both services carry `u1`, because
  nothing keeps an upstream id to one service: `CreateService` and `UpdateService` keep the ids they are given
  (`tx.go:240-242`, `376-378`), and an import gives the service a new id but leaves those of its upstreams
  (`engine_importer.go:46-48`). The run visits every interleaving of the relay and the watcher with the four steps of
  an entry.
- `raft_cluster`. Three entries allow: snapshot after the first, crash, restart, one more entry, second crash while it
  replays. Three nodes make a majority without the crashed one, and a snapshot that travels. `MaxLog` and `MaxCrashes`
  bound counters that the code does not bound; the deadlock at `MaxLog` is the bound's, so it is not checked. Entries
  may repeat under the same id, which also covers a caller that commits a timed-out transaction again.
  `ReplayConverges` is about logs in which ids are named only once their row is made (`KnownIds`, below); the entries
  bind a policy to a route, take it away again or delete the route, and replace the upstreams of a service, so that
  the replay comes upon rows of later entries. An upstream is carried by both services, so the replay also finds it
  with an owner it has only later.
- `breaker`. Three requests are a probe, another probe and a late result of an earlier state. `MaxLag` bounds the time
  between reading the clock and getting the lock, `MaxLost` the panics of one half-open period (with two slots and
  two losses the breaker rejects for ever, which is the finding; one loss leaves a slot). Deadlock is checked.
- `config_engine`. Two requests cover every pair of a change that lags and one that does not, and 2 nodes every mutex
  conflict (on the same node) and its absence (on different nodes). One change of leader is enough for a request to
  lose it between any two of its three entries. A request is made once, so the system stops when all have returned:
  deadlock is not checked, `CallsReturn` is.

- `daemon_services` and `web_admin` put components beside each other that share no state: the first step chooses one
  (`which`), and the others stay in their initial states. The states are the sum of theirs, not the product, and each
  property is about one of them. Bounds of the components: `TraceRing`: a buffer of 2 and 3 traces make it wrap,
  channels of 1 overflow, the first trace and the third share their id, one client that names its last trace and one
  that does not, each with a second connection. `Aggregator`: intervals of 2 ticks and 5 ticks of time let a cycle be
  late by a bucket; 3 traces of 2 classes overwrite a buffer of 2. `SessionCache`: 2 sessions in a cache for 1, 2
  requests, 2 administrators, one change of scopes (`MaxRights` 2). `SecretCache`: 2 calls, 3 updates, so that an
  answer can be two flushes old. `CounterSet`: 2 nodes, 2 increments and 1 decrement each, 2 snapshots that arrive in
  any order and again. `SyncPipeline`: a handler and a caller of `ApplyChange`, 3 changes, channels of 1. `SseClient`:
  2 handlers, 2 events, 2 connections, any number of errors, one event without an id (the property is about behaviours
  without any). `PluginHost`: 2 plugins that share all keys, one of each kind, and 2 entries in the surfaces at a time
  (`MaxLive`), which is what one plugin needs to overwrite, withdraw or take along what is the other's; 2 ids
  (`MaxIds`). `RoleResolver`: every map of 3 roles with lists of up to 2 parents each (`MaxParents`), in which a
  parent may be missing from the map or be named twice. `LoginFlow`: 4 logins or logouts, 2 of them awaited. All of
  them end where a bound is reached: deadlock is not checked.

Symmetry is used only where the nodes or requests are interchangeable and no liveness property is checked.


## Fairness

- `RaftStore!FairSpec`: a node that runs keeps applying (raft's own goroutine), and a crashed node is restarted by
  whoever operates it: the code has no part in that, and the property is about what follows. Crashes are bounded, so
  weak fairness suffices.
- `CircuitBreaker!FairSpec`: requests keep arriving, handlers return or panic, goroutines get the lock (Go mutexes
  are starvation-free), time passes. Without arriving requests an open breaker stays open in the code, too: only
  `admit` moves it on.
- `ConfigEngine!FairSpec`: weak fairness of every request's steps. A request is a goroutine, its steps are bounded
  (each raft call has a timeout and is one of the outcomes of `Submit…`). `CallsReturn` depends on every path releasing
  the mutex. With weak fairness only, a request could in principle starve for the mutex, but the others are
  finitely many and each is made once.

- `SyncPipeline!FairSpec`: goroutines run, a transaction ends, a call to Caddy has a timeout: weak fairness of each.
  Nothing makes a push succeed or an event stay: `ConvergesWhenHealthy` says what follows when none of the reasons goes on
  happening.

No other run checks liveness. Of the event client none is stated: what its listeners come to hear depends on a server
that the repository does not have.


## Proofs

For every value of the constants, checked by TLAPS. Assumptions are those declared in the modules (`ASSUME`), which TLC
evaluates on every run: batches are sequences of commands, `NoService` is no service, thresholds are positive, sets of
nodes and requests are finite, the store the engine starts from is sound.

**`ConfigFsmProofs`** — lemmas about the operators. `Sound(d)` collects: types, every stored upstream is in the index, the
hash bucket is exact, versions are `1..counter` without repetition. Every command keeps it (one lemma per group of
commands), hence so does a batch of any length: `BatchSound`. The argument along a batch is a least-counterexample
one: if some prefix had an unsound outcome there would be a shortest one, and it is not 0, and the step before it
is sound. `RebuildSound`: on a sound database the repair changes nothing.

**`FsmStoreProofs`** — `TypeCorrect`, `IndexCompleteThm`, `KeyIndexExactThm`, `VersionsGaplessThm` from the invariant
`SoundInv`, which is about the working copy as well: a property of `db` alone is not inductive, because `Commit`
copies `work`. `IndexSoundThm` supposes nothing of the callers: `ExactInv` says, of both copies, that what the index
lists has been carried by the service it is listed under, and that an upstream whose row names another owner has been
carried by two. `DeletionUnbindsThm` (an action property) holds under `NoLateAttach`: no entry attaches a policy to a
target that it has deleted before, because `applyAttachPolicy` looks for no target. Its invariant `UnboundInv` follows
a running entry: what it has removed is bound to nothing, and nothing left of it binds it before it is there again.
`Refinement`: the node implements `ConfigStore`; `RunInv` says that `work` is the outcome of the commands already run
of some batch, so at `Commit` it is the outcome of the batch. `MCFsmStore` has TLC evaluate `NoLateAttach` for the
batches of its runs. `StaleHasCauseThm`: a watcher that is stale with nothing on its way to it has read within a
transaction, lost an event to another watcher or failed to read, and has not read well since. `WatchInv` says the same
of an entry that has changed the working copy. Full channels are no cause: one drops an event only while others wait
in it. Hence the hypothesis that the channels hold something (`FsmCap > 0`, `NotifyCap > 0`; the code has 256 and 64).

**`RaftStoreProofs`** — for any number of nodes, entries and crashes. `RaftTypeCorrect`, `FollowsHistoryThm` and
`ReplicasConsistentThm` from `RaftInv`, which adds that the history is that of the log and that snapshots, too, are at
the point of the history that their index names, unless taken by a node that replayed. `ReplayConvergesThm`: a
replaying node is at no point of the history, so its invariant `ReplayInv` speaks of single rows. `Ahead(d, a)` says
of a database after `a` entries, some taken more often: a row that the accepted ones among these make is what the
history has there, and any other row it holds was made by some later entry. The heart is `BatchInStep`: two databases
that are alike in the rows made so far accept the same entries and stay alike, because a command looks at no row but
its own and its own service's. One thing is asked of those who write entries, and it is what `store/raft/tx.go` does.
`KnownIds`, the premise of the property: no command that could be refused names the id of a row before a command has
made the row (routes, services, policies and keys draw theirs with `uuid.New` when they are created, `tx.go:154` and
the like). Without it TLC finds a replay that ends elsewhere: an entry that was refused at first, a deletion of what
was not there yet, is accepted the second time and takes the rest of its batch with it. Bindings have no ids of their
own and the handler that detaches a policy may name any two; the premise spares it, since alone in its entry it
touches nothing else. Of upstream ids nothing is asked: they may go from service to service. Which service an
upstream's row names depends on the order of the entries, and a node that replays may name one of a later entry, or
none, when it dropped more than the history did because its index lists more. `Ahead` therefore says of an upstream
whose owner is not the history's that an entry still to come lists it, and `OwnersInStep` that taking an entry keeps
this so; at the end of the log nothing is to come. `RevocationsHoldThm`: from the same invariant, a key that is
revoked after the entries a node has applied is revoked on that node. Before a replay is there, the key may well be
active again, see [observations](#observations). `AgreeButVersionsThm` makes finding 2 exact: under `KnownIds`, two
nodes that have the whole log, whatever they replayed, agree on every bucket, the audit trail and the hash bucket
included, but the versions and their counter. `CommittedRefinement`: the database of the committed log implements
`ConfigStore`.

**`CircuitBreakerProofs`** — `BreakerTypeCorrect` and `CountersFitStateThm` are inductive together.
`SlotsAccountedThm` counts probes: each step takes one request into or out of the set of probes in flight, so its
cardinality moves with the counter. `SlotsHeldByProbesThm` says that the pairing which the code's comment asks for
holds when no handler panics (`MaxLost = 0`).

**`ConfigEngineProofs`** — for any number of calls, nodes and changes of leader. `EngineTypeCorrect`: types, and every
database in the history is sound (`EngineTyped`). `TraceInOrderThm`: no version without its change, no audit entry
without its version. The invariant `TraceInv` adds what a request at `save` or `commit` has already logged; a log
entry, once there, stays. `ExpectedVersionThm`: optimistic locking works where it can. A request is `Guarded` when it
checked the version on a caught-up leader, and leadership did not move since; the invariant `VersionInv` says that
requests in the critical section hold their node's mutex (`MutexExact`, a theorem of its own: held exactly from the
lock to the return, so no failure leaks it), and that for a guarded one the latest version is still the expected one.
Others cannot save a version meanwhile: on the same node they lack the mutex, on another node they are not the leader;
a buffered change of another writer moves no counter. `DeletedStaysDeletedThm` and `PoliciesAsDesiredThm` share the
invariant `HistoryInv`, which keeps, for every request, what it saw of the history: nothing is aimed at before the
look (`AimedAt`); who has an entry in the log is past the flush (`SubmittersLate`); who writes a route read it in a
database that had it, or drew its id when nobody aimed at it (`GroundedAt`); and what an upsert has pending turns the
policies its diff found into the desired ones (`DiffedAt`). That a batch of binding commands does so whatever their
number and order is `BatchTurns`, again by a shortest counterexample along the batch. `CreationUnseenThm` makes
finding 5 general: no call that creates a route saves a version that shows it. One interleaving shows the defect, the
theorem that none avoids it. `CreationInv` adds to `HistoryInv` that until its flush nobody but the creator can write
the route: it is nowhere in the history, others that aim at it delete (`FreshAt`), and what they submit puts only
their own routes (`OwnRouteOnly`, `NothingFromNothing`). `LeftWholeThm` is the other half of `TraceInOrder`: a call
that reports success has all three entries in the log, and no call has an entry of a kind twice, one that was
committed although its submission failed included.

The small components have their theorems about their own specifications (`Ring!Spec`, `Vault!Spec`, …): a step of
`MCDaemonServices` or `MCWebAdmin` is a step of one component and leaves the others alone.

**`TraceStoreProofs`** — the ring buffer, for any capacities and clients. `RingInv`: the buffer, read around its end,
holds the latest traces in order (`HoldsLatest`); a channel the ingester still sends to was in the map when it was
copied, and leaves it once (`InMapWhenCopied`); what a client without a replay has received comes before what waits in
its channel, in order (`FedInOrder`). From it `ResumeHasNoGapThm` (a resumed client has, or has waiting, every trace
after the first one with the id it named, but those dropped by a full channel or lost by a failed write, whatever ids
the traces share), `PanicOnlyInWindowThm`, and `InOrderOnceThm`, the refinement of `LossyStream`. The aggregator, for
any interval, phase, classes and buffer: `SumsInv` says what each step of a cycle has in hand (`CycleShape`), that
every trace comes through the socket once (`ComeOnce`), and where each trace stands that nothing has happened to
(`Accounted`): not yet seen, in the batch, counted in the total, or counted. Between the cycles only the last of these
is left of what was seen: `CountedInOneBucketThm`. A counted trace has a row with its id in `raw_traces`, its own or a
namesake's.

**`DaemonServicesProofs`** — `StaleOnlyIfSparedThm`, for any number of sessions, requests and administrators and any
size of the cache: the property is about moments without administrators at work; `SessionInv` says of every moment who
still has to evict what is stale: an entry that is revoked, or has old scopes, is spared, or some administrator has it
on its list or has still to make the list, or its scopes are stranded; and the same of a load, which will become an
entry. The exceptions are many because the code evicts little: what is left of the promise is that a revocation, and
an update of a role the user holds himself, reach every session that was listed and not being loaded.
`CountsExactThm`: what a node comes to believe can be in a snapshot taken long ago, so `CounterInv` bounds the
snapshots on their way as well; a node's own entry stays exact because a maximum with something no larger than the
truth is the truth. `FreshAfterFlushThm`: in `VaultInv`, an answer from before the last flush is on its way only in a
call that was between the backend and the store when the cache was flushed (`AnswersFresh`). `StaleHasReasonThm`: as
long as no reason is on record, what Caddy does not run yet is announced by an event, an inbox or a timer, or is
underway in the agent's hands, and what a transaction is about to commit is announced (`NothingForgotten`). A `Bare`
configuration is never the latest, so pushing one is always a reason. `TypesOKThm`: the types of all six, among them
that the session cache never outgrows its size.

**`WebAdminProofs`** — `PendingIsLatestThm` (`LoginInv`: a login whose answer is out has not been verified, and no
verification of it is in flight); `UnloadExactThm`, an action property (`HostInv`: what the loader is to remove has
its registrant's name, or is tracked by him and he is installed; a plugin tracks only keys it has registered);
`OneFeedPerTopicThm`, the refinement of `LossyStream` (`EventsInv`: while no unsubscribe is misused and every event
has its id, the one connection that is not closed is the topic's, and it is past all that its handlers have heard, on
it or before it); `WebTypeCorrect`. `ResolverExactThm`: for any finite set of roles and any map, permissions are
exact, a role on a cycle is refused, and one is refused only for a cycle among itself and its ancestors. The walks
end, because each call either is stopped by a guard or marks a role that was not marked, and a role has at most
`MaxParents` parents: unmarked roles times their parents, plus the calls that wait, get fewer (`Rank`, `VisitRank`).
`CollectInv` says that every parent of a visited role is visited or about to be called, that only ancestors are, and
that what the visited roles list is found, each with a chain. `StackInv` says of the validation that a black role is
on no cycle and has black parents only, and that a grey role waits behind the calls of its parents, all of which lead
above it. What the recursive functions of the walks compute is had from two lemmas in place of induction over data:
`RunExists`, that such a function exists, and `Reaches`, that a set with 0 in it and closed under successor up to `k`
has `k`.

Refinements, all proved step by step: `FsmStore`, and the committed database of `RaftStore`, implement `ConfigStore`;
the feed of each client of `TraceRing` without a replay, and of each handler of `SseClient` while no unsubscribe is
misused and every event has its id, implements `LossyStream`.

Model-checked only: liveness (`EventuallyCaughtUp`, `OpenIsProbed`, `HalfOpenDecides`, `CallsReturn`,
`ConvergesWhenHealthy`), which is beyond this prover, and the violations, which are counterexamples.


## Findings

1. `fsm_stale_watcher` — `store/raft/fsm.go:353`. The event of a command is sent before bbolt commits. A watcher whose
   timer fires in between reads the old configuration, and no other event comes. `daemon/daemon.go:375`: "Refresh the
   matcher on every config change." With the code's debounce of 100 ms a commit (an fsync) has to be slow for this;
   the model has no clock and shows the order. Two other causes leave the watcher behind: another watcher of the
   channel takes the event, or its read fails (`StaleHasCause`). Dropped events do not.
2. `raft_divergence` — `store/raft/raft.go:77`. A node restarted without a raft snapshot applies the log over the
   `fsm.db` that already contains it. For rows this is harmless (`ReplayConverges`, proved), for `SaveConfigVersion`
   it is not: the restarted node has every version twice, and its counter, against which `expected_version` is
   checked, is ahead of the others'. While ids are known (`KnownIds`), the versions and their counter are all that
   parts the replicas (`AgreeButVersionsThm`).
3. `breaker_panic` — `plugins/circuit-breaker/breaker.go:300`. `recordResult` is not deferred; Caddy's proxy panics with
   `http.ErrAbortHandler` when a response breaks. A probe that does so keeps its slot; with all slots lost the breaker answers
   503 until it is reloaded.
4. `breaker_late_success` — `breaker.go:268`. In half-open any success counts, also of a request admitted before the
   breaker opened, where the documentation speaks of successful probes.
5. `engine_version` — `config/engine.go:197`. `buildSnapshot` reads `fsm.db` while the change is still buffered, so the version
   saved with a change, and the cached snapshot, show the configuration before it. The comment says "after mutation". A route that
   a call creates is never in the version saved with it (`CreationUnseenThm`).

What the passing properties had to be weakened by is as telling: `ExpectedVersionHolds` only for a node that had
applied the whole log and kept leadership; `DeletedStaysDeleted` only for writers that had seen the deletion (the reorder
handler can bring a deleted route back); `PoliciesAsDesired` only when nothing came between the diff and the entry.



## Observations

What the properties of the later modules except, each a case that TLC shows to be reachable, and what reading the code
for them brought up:

- Store. Upstream ids may be supplied by clients and survive an import, so two services can carry one. The row then
  belongs to the service that wrote it last, while the index keeps both entries: when the first service is updated or
  deleted, the upstream is taken from the other, whose own index entry is left without a row.
- A replay of the log over `fsm.db` goes through the creation of a key again: a revoked key is active, for readers on
  that node, until the replay reaches its revocation.
- On-demand TLS. The watcher shares its channel with the sync agent and all streams: an event that one takes the
  others do not see. Where `GetConfig` fails without a cached snapshot the matcher stays as it is until the next event
  (`daemon.go:811-815`); with one, it is configured from a snapshot of some age.
- Circuit breaker. A probe of an earlier half-open period gives its slot back in a later one, and one probe more than
  `HalfOpenRequests` can be in flight then.
- Caddy. A failed push waits for the next change: nobody retries, although `gateway/caddy_reload_hook.go:14` says that
  "an out-of-band sync agent will retry". The first sync of the agent may fail, too, and is only logged
  (`sync/agent.go:39-43`). An event that one watcher takes, the agent does not see (`engine.go:297`). The agent can
  read before the transaction commits that told it. When the store is away, a snapshot of some age is compiled without
  the plugins of its routes (`engine.go:376-390`) and pushed as if it were whole: routes lose their WAF, OpenAPI and
  MCP plugins until the next change. A handler's push can come after a newer one of the agent. A Caddy process that
  exits is not started again.
- Traces. Those logged before a cycle and pushed after its drain are never counted; those logged between its start and
  its drain are counted twice; a late cycle replaces the bucket of the one before; a cycle that fails half way is
  counted again in another bucket; what the buffer holds when the daemon stops is not counted. A send to a subscriber
  that leaves between the copy and the send panics. A live write that fails is logged and the loop goes on
  (`gateway/sse.go:124-127`), so a trace can be missing in the middle of a connection. Requests of one distributed
  trace share their `trace_id`: the second is counted and its row ignored (`sqlite.go:114`), and a client that comes
  back is replayed from the first trace of that id, some of it for the second time.
- Sessions. A load that has read before a revocation fills the cache after it, and the session is accepted for the
  time to live of the entry. `EvictSessionsByUser` gives up without notice when the store fails; the user handlers
  drop the error of `RevokeAllSessionsForUser`; scopes are inherited, but the update of a role evicts those who hold
  it and nobody who inherits from it (`gateway/rbac_routes.go:303`), and the deletion of a role (316-347) and an
  assignment evict nobody: old scopes are good for the time to live of the entry. When `LoadUserScopes` fails
  (`session.go:280`), the session is cached without any. `LastActive` of a cached session is never refreshed, so an
  active user is refused once at the end of the sliding time.
- Counters. A node that collects a counter starts it again at zero, and its increments vanish under the maximum of
  what others still send.
- Web admin. An unsubscribe function called twice drops a newer connection of its topic. The daemon serves
  `/api/v1/events/config` and `/traffic` and reads the `Last-Event-ID` header, where the client asks for `?topic=` and
  sends a query parameter after it has opened a new `EventSource`; and it names its events, which a `message` listener
  does not hear. `SseClient` and its server are those of a daemon that the repository does not have: what is shown is
  what the client makes of such a server. An event without an id leaves the client's last one, so after a reconnection
  it hears again what came since. What a plugin registers after it threw or was unloaded stays, although the loader
  says "undo everything" of a plugin that throws; so do event listeners, and what came through `useHost()`, which are
  tracked nowhere; endpoints and OpenAPI documents go with the plugin whose name their caller gave; unloading a plugin
  takes a route or theme with it that another plugin registered under the same key. "Closer role wins"
  (`web/host/role-resolver.ts:63`) holds along one branch only: the order of the walk decides between branches.
  `validateRoleSave` refuses a role that any ancestor path leads back to ("any ancestor path leads back to the
  candidate role", `role-resolver.ts:189`), and besides every role with a cycle somewhere among its ancestors, of
  which the comment does not speak; `ResolverExact` leaves these free. The answer to a login that comes after a logout
  leaves its credentials pending, and a verification that fails for good keeps them.


## Not modelled

- Inside the modelled parts: JSON encoding and the wording of errors; the contents of rows; `Driver.Close`, membership
  and health; validation (a check of one message, without state); import (a loop of the same operations in one
  transaction); service and policy changes of the engine (the same shape without bindings).
- `fsm.view` gives up `dbMu` before it reads, and `Restore` may close the database under it: bbolt answers such a read with
  its error for a closed database, so no wrong data is seen. A commit that is repeated after a timeout: no caller does it
  (`RaftStore` covers its effect, entries that occur twice). A torn `CompileCaddyConfig` on the raft store, whose read is
  several bbolt transactions: the next event makes another one.
- The notification dispatcher: a bounded queue that drops, one worker, and up to four attempts for each endpoint, of which
  nothing is promised. (The comment of `Stop`, "drains in-flight events", does not describe it: what is queued stays, and posts
  under way are cancelled and not waited for.)
- raft itself, bbolt, memberlist and Caddy are external: a committed log, atomic write transactions, snapshots of the
  whole database.
- SQL stores: the interesting part is the database's. Gateway, AI gateway, CLI and the stateless plugins: translation of
  one request at a time.
- Of the web admin only four files have state that outlives a call and is shared. By far the most of its TypeScript is
  generated API clients, route tables, seed data, and views and forms, which hold no state that a model could tell
  apart from the daemon's: a model of them would be a copy of their layout. That is why the modules stand for a
  small share of the repository's TypeScript lines; the system's logic is in Go.


## Running

    tlc -workers 2 -config MCFsmStore.cfg MCFsmStore.tla
    tlapm FsmStoreProofs.tla

Each run of `PROJECT.json` names its module and configuration; `*Proofs.tla` hold the proofs.
