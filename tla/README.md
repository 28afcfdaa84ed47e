# Verification of astrate

TLA+ models of astrate, the TLC runs that check them on small instances, and
TLAPS proofs of what matters most for every value of the constants.  The code
under `src/` is the reference; `PROJECT.json` maps every definition to the lines
it translates, lists the hazards the properties are aimed at, and names for every
property a plausible mistake in the code that would violate it.  The `Mutant`
definitions beside the real ones are those mistakes; nothing uses them otherwise.

To check: `tlc -config X.cfg MCModule` for the runs of section 4, and `tlapm` on
the eight `*Proofs` modules.

## 1. The system

astrate is an Astarte-compatible IoT platform in one Go process on PostgreSQL.

| part | state | operations | talks to |
|---|---|---|---|
| engine shards (`internal/engine/router.go`, `batch.go`) | lane channels, batch, flush timer, quit/closed flags | `Submit`, `shardPass`, `flush`, `commit`, `finalize`, `drain` | broker, store, triggers, bus |
| message handling (`engine/data.go`, `introspection.go`, `control.go`, `capabilities.go`) | device cache, previous-value chain | `handle`, `processData`, `handleIntrospection`, `handleControl` | store, shards |
| schema and device caches (`engine/cache.go`) | realm snapshots, device state | `realmOrReload`, `reloadRealm`, `get`, `evict` | store, NOTIFY |
| server-owned data (`engine/serverdata.go`, `control.go`) | property rows | `PublishServerValue`, `UnsetServerProperty`, resynchronisation | broker, store |
| broker (`internal/broker`) | session registry, ownership, bbolt session store | authenticate, takeover, ACL, `OnPublish`, persistence of QoS state, `Close` | engine, store |
| triggers (`internal/engine/triggers`) | compiled triggers and policies, executor queue | match, `Enqueue`, `deliver`, `Close` | webhooks, forwarders |
| event bus and rooms (`internal/engine/stream`, `internal/appengine/channels`) | subscriptions, rooms, members | `Subscribe`, `Publish`, join, watch, leave, `Close` | sockets |
| pairing (`internal/pairing`) | device rows, rate limiter | register, unregister, credentials, verify | store, CA |
| AppEngine (`internal/appengine`) | device rows, groups | patch, groups, queries | store, engine |
| realm management (`internal/realm`) | interfaces, triggers, policies | install, update, delete | store, engine, broker |
| housekeeping (`internal/housekeeping`) | realms | create, update, delete | store |
| flows (`internal/flow`, `internal/flowapi`) | flow rows, running graphs, lanes, restart claims | create, reload, delete, restart, route, stop | store, bus, containers |
| schemas and codecs (`pkg/interfaceschema`, `pkg/payload`, `pkg/deviceid`) | none (pure) | parse, compile, match, compare, encode | engine, APIs |
| store (`internal/store`) | the database | one statement or transaction each | PostgreSQL |

What is hard in it: shards, connections, requests and the shutdown run
concurrently; a PUBACK may only follow the commit of the message's batch; the
database may fail half way through a batch, refuse it for good, or come back;
shards recover panics and go on with the batch they had; devices reconnect and
re-send while the first delivery is still queued; sessions are taken over while
the old connection is torn down; a schema change races the loading of the same
schema; checks and the writes they guard are separate statements; three
components close channels that other goroutines send on (shards, executor,
flow router), each with its own protocol; a restart loop races the death of what
it just built.

## 2. Modules

| module | models |
|---|---|
| `ShardPipeline` | publishing, `Submit`, the shard loop, batches, shutdown, crash |
| `Ingest` | what the ingest path promises (abstract specification) |
| `ShardPipelineProofs` | theorems about `ShardPipeline`: types, PUBACKs, timer, lanes, the drain at shutdown |
| `IngestProofs` | what a step moves; order and property values, and that `ShardPipeline` implements `Ingest` |
| `ChangeTracking` | previous values and change-derived trigger events |
| `ServerProperties` | server-owned properties: requests, greeting, resync, the device's session |
| `ServerPropertiesProofs` | theorems about `ServerProperties` |
| `DeliveryPolicy` | which policies compile and what they decide (pure) |
| `TriggerExecutor` | the executor of trigger actions; uses `DeliveryPolicy` |
| `TriggerExecutorProofs` | theorems about `TriggerExecutor` and `DeliveryPolicy` |
| `RealmSchemas` | realm management and the schema snapshot; uses `InterfaceSchema` |
| `RealmSchemasProofs` | theorems about `RealmSchemas` |
| `DeviceTables` | the statements on device and group rows |
| `DeviceRequests` | the API requests made of those statements |
| `Sessions` | MQTT connections, composed with `DeviceRequests` |
| `SessionsProofs` | theorems about `Sessions` and `DeviceRequests` |
| `FlowRouter` | one running flow: pumps, lanes, `StopFlow` |
| `FlowRouterProofs` | theorems about `FlowRouter` |
| `FlowLifecycle` | one named flow: row, registered graph, restart loop |
| `Rooms` | event bus, rooms, WebSocket sessions |
| `EventsProofs` | theorems about the way of a change to a subscriber: `ChangeTracking` and `Rooms` |
| `InterfaceSchema` | endpoint uniqueness, compilation, trie matching, upgrades (pure) |
| `Topics` | the broker's ACL and the engine's classification of a topic (pure) |
| `TriggerMatch` | compilation and matching of triggers, introspection events (pure) |
| `SessionStore` | the bbolt session file and its replay (pure, call by call) |
| `FlowGraph` | pipelines, composites, topological order, instantiation (pure) |
| `FlowBlocks` | the blocks of a flow and the wire form of a message (pure) |
| `Payload` | JSON and BSON codecs, stored values, value comparison (pure) |
| `Listings` | pages of devices, group members and series (pure) |
| `Access` | tokens, rotating keys, the cache of verified tokens, claims (pure) |
| `Housekeeping` | creation, update, key rotation and deletion of realms (pure) |
| `Algorithms` | the pure modules against reference definitions |
| `MC*` | instances for TLC |

One action is one step a goroutine takes between two points where another can
interfere: a channel operation, a database statement or transaction, a critical
section.  Names are those of the code.

**ShardPipeline.** Goroutines: one per connection (`cl[d][g]`, g numbers the
connections of device d), one per shard (`spc[s]`), main's shutdown (`stop`).  A
message is `[dev, gen, seq, qos, kind, broken]`; payload, topic and interface are
abstracted to `kind` (property, datastream, control), because the pipeline treats
messages of one kind alike.  `queue[s]` is the lane's buffer, `senders[s]` the
goroutines blocked sending on it, in order; `batch[s]` is `batcher.ops`; `slice[s]`
says which ops the running `flushOps` commits (0: all, i: the i-th alone after a
split).  The database is `stored` and `value`; `handled`, `consumed`, `acked` are
history.  A failing commit keeps the property statements before the failure.
`Stragglers` are connections `<<d, g>>` that `Broker.Close` does not wait for.
Faults are named in `FaultKinds` and counted by `MaxFaults`.

**Ingest** keeps which messages are published, stored, handled, consumed and
acknowledged.  `Persist` adds nothing older than what is stored of the same device
and kind, nor older than a control message already handled; `Puback` comes last.
`ShardPipeline` instantiates it (`Promise == INSTANCE Ingest WITH ...`): the mapping
forgets connections, lanes, batches, timers and the shutdown and keeps the
history.  `ImplementsIngest`, that is `Promise!Spec`, is checked by the run `ingest`
and proved in `IngestProofs`.

**ChangeTracking** follows the ops of one device from `trackPrevious` through the
commit to `fireDataChanges`, with a subscriber (`view`) that believes the events.  A
batch is committed as a whole (`Flush`) or, when the database refuses it, op by op
(`Split`, `FlushOne`); the ops in `firing` are those `fireCommitted` has yet to go
through, one step each.  `Commit` says what the statements of a batch leave rather than
executing them: of the statements on a property the last one counts, samples add up.
`Unfinished` is what attempts leave that are given up: property statements commit one by
one, so a prefix of the batch, and behind it a prefix of the retry, may be there.
Three writers of the same rows fire no event: the device's list of the properties it still
holds (`Purge`, on the shard and behind its flush), the flows' virtual devices
(`PublishDeviceValue`) and the retention sweep, which run whatever the shard is doing.
`told[p]` is history: whether one of them changed p behind the subscriber's back, and
whether `trackPrevious` has read p since.  Deletions of the interface, the device or the
realm end the paths themselves and are left out.

**ServerProperties** has one device and three kinds of job that read or write the
rows first and publish afterwards: API requests, the goroutine every connect starts,
and the emptyCache handler on the shard.  A failed read or publish ends a request or a
greeting and starts the resync over (`AttemptFails`, `RetryFrom`); when the database refuses
for good, or the device is unknown, `retryStore` gives up and the message is consumed
(`RejectIntrospection`, `RejectEmptyCache`).  `queue` is what the session's undelivered
messages amount to on each path; `offline` is the ACL entry of a device that is away,
claimed in one step and filled in another.  `trust` is history: it says whether two
jobs conflicted, one was cut short or given up, or a delivery was denied since the last
resync free of that, which is exactly when the code promises nothing.

**TriggerExecutor.** Producers inside `Enqueue`, workers inside `deliver`, and
`Close`.  A delivery is named by its producer and number, so that `outcome` can tell
a lost one from one counted twice.

**RealmSchemas.** A request is a check, a transaction, a NOTIFY and a refresh, one
step each; a reload takes `reloadMu` and reads four tables in four steps.  The
listener and a shard that finds the realm missing reload as well.

**DeviceTables, DeviceRequests, Sessions.** Rows carry what the statements test:
secret, status, credentials mark, certificate, alias, connection flag.  Secrets and
certificates are opaque, named after the request that made them.  A connection
goes through authentication, admission to the registry, the MQTT server's takeover
of an older connection (external: it stops the old client before it marks it taken
over), the lifecycle hooks and publishing; `DeleteKick` and `DeleteErase` are the
two halves of a device deletion.  The server may fail to answer a CONNECT after the
takeover and then calls no hook (`AttachFails`).  A publish is read, checked against the
registry (`OnPublish`) and handed to the engine (`Submit`) in three steps; `late[c]` counts
the publishes of c that reach the engine when the registry names c no more.

**FlowRouter.** `Submit` is two steps, since it holds the read lock across a send
that may block; a waiting writer keeps new readers out, as `sync.RWMutex` does.

**FlowLifecycle.** API calls and death callbacks are processes; a callback goes on
as the restart loop it spawns.  A graph is built with its container running, so it
may die before it is registered.

**Rooms.** `handleJoin` is two steps (registry, then member list); `dispatch` copies
the watches in one and delivers in another.  An event is named after the watch it
matches.  `Room.retire` is one step: a session that is handed the room after the
subscription is cancelled and before the topic is dropped joins as one handed it just
before.

**The pure modules and Algorithms.** A behaviour of `Algorithms` picks one input and
stops; the invariants compare what the operators of a pure module make of it with a
reference written independently of the code's method: the endpoint a path satisfies
instead of a trie walk, the queue a client was promised instead of a sorted file, the
inlined chain instead of prefixed expansion, a token verified anew instead of a cache.
Several inputs are whole histories: calls on a session file with a restart, requests
interleaved with administrations of their realm, tables that change between two
pages, introspections of a device whose commits fail, repeat or are cut off, events fed one by one to a chain.  Topics are sequences of segments, integers
keep scaled widths (`MaxInt32 < MaxSafe < MaxInt64`), and numbers are counted in
halves so that a fraction exists.

## 3. Fairness

Weak fairness on the steps of a goroutine that is already running: the Go scheduler
runs what can run, mutexes are handed over, timers fire.  `ShardPipeline` adds that a
device re-sends what it holds unacknowledged (MQTT 3.1.1 with a persistent session);
`ServerProperties` that the device reconnects and reads its queue, since the promise
is to a device that does.  `FlowRouter` assumes that blocks return from `Process`.
Never assumed: new publishes, API calls, faults, container deaths, timeouts, the
expiry of a cached entry, the start of a shutdown.

## 4. Runs

| run | configuration | checks | bounds |
|---|---|---|---|
| ingest | `MCIngest` on `MCShardPipeline` | `AckedIsSettled`, `TimerCoversBatch`, `LastValueWins`, `ImplementsIngest` | 1 device, 3 messages, 2 connections, lane of 1, batches of 2, 2 faults (panics and crashes included), both ways to stop |
| drain | `MCDrain` on `MCShardPipeline` | `NoSendOnClosedLane`, `ExitedShardIsDrained`, `ShutdownCompletes`, `EventuallyAcked` | 1 device with 2 connections on a lane of 1, the second late for `Broker.Close`, 2 faults |
| sigterm_flush | `MCSigtermFlush` on `MCShardPipeline` | violates `ExitedShardIsDrained` | 1 device, 2 messages |
| changes | `MCChanges` on `MCChangeTracking` | `PrevIsSerial`, `SubscriberKnowsValue` | 2 paths, 2 values, 4 ops (those of virtual devices included), batches of 3, 1 kind of fault |
| server_props | `MCServerProperties` | `QuietDeviceAgrees`, `ResyncIsServed` | 1 path, 2 values, 2 concurrent requests, 2 faults |
| executor | `MCExecutor` on `MCTriggerExecutor` | `InflightIsExact`, `NothingLost`, `NoSendOnClosedChannel`, `CloseDrains`, `CloseEnds` | 3 producers, 2 workers, queue of 1, capacity 1 |
| realm | `MCRealm` on `MCRealmSchemas` | `SnapshotCurrent`, `NoServiceGap`, `RequestsEnd` | 2 requests, listener, healer, 4 documents, 1 fault |
| sessions | `MCSessions` | `PairedEvents`, `ConfirmedKeepsSecret`, `OldDisconnectNeverEvicts`, `NoReturnToOldConnection` | 2 devices, 2 connections, 2 requests |
| flow_router | `MCFlowRouter` | `KeyOrder`, `StopIsClean`, `StopReturns` | 1 pump, 1 direct submitter, 2 lanes of 1, 2 stops |
| flow_restart | `MCFlowRestart` on `MCFlowLifecycle` | violates `DeadFlowRestarts` | 1 caller, 3 graphs, 1 failed build |
| rooms | `MCRooms` | `MailboxClosedOnce`, `LiveRoomIsRegistered`, `EndedRoomRetires` | 2 sessions, 1 topic, 2 rooms, 3 memberships |
| algorithms | `MCAlgorithms` | the ten properties below | about 900,000 inputs |

The properties of `algorithms`:

* `PublishesResolve`: a publish the broker allows reaches the handler and the interface
  the broker looked at, and conversely; the trie finds the one mapping a path satisfies.
* `UpgradeKeepsPaths`: a minor upgrade keeps every path and its attributes.
* `TriggersFire`: the lookup of previous values misses no change a trigger would match,
  and interface triggers fire once per added or dropped name and major.  The row and the
  shard's cached copy are apart: over every history of up to three introspections and
  disconnects, whoever follows the events knows whether a pair is declared once the
  handling that declared or dropped it is done.  A commit reported as failed and repeated
  still reports additions, which are found against the copy, and loses removals, which are
  found against the row; section 6 has the rest.
* `ReplayKeepsOrder`: after a restart a session replays what was queued, in order.
* `FlowRunsInOrder`, `FailedBuildLeavesNothing`: graphs run in topological order with
  composites expanded in place, and a start that fails stops what it built.
* `ValueSurvives`: a value is the same after every way it travels.
* `PagesCoverAll`: following the pages sees everything once, while tables change.
* `CacheIsTransparent`: a cached token answers as a fresh verification would, across
  key rotations, expiry and deletion of realms; an administration changes what it names.
* `StreamIsKept`: a chain of blocks sends every value of its events once, unaltered and
  in order.

Of the others, what the name does not say.  `ResyncIsServed`: an emptyCache on its way is
acknowledged in the end, whatever fails on the way; that the resync reached the device is
`QuietDeviceAgrees`.  `ExitedShardIsDrained`: a shard that has ended left no message in its
lane, and flushed or abandoned its last batch.  `LiveRoomIsRegistered`: a topic has at most
one live room, the one in the registry.  `NoReturnToOldConnection`: the gate lets through
nothing of an older connection once it has let through something of a newer one, and
at most one publish per connection passes the gate in time and reaches the engine late.

Why the bounds are enough to be interesting.  Shards share no state, so one shard
carries every interleaving; two connections compete for a lane, and three messages let
a batch, a blocked sender and a queued message exist at once.  Two faults let a retry
fail again or a split follow a transient failure; in `changes` one kind of fault may occur any
number of times, two kinds together are left to the theorems.  Two requests are what a
check-then-act race needs, and two connections what a takeover needs.  Capacities of
one put every queue at its limit.  Two rooms and three memberships let a topic be
left by everybody and joined again.  The scaled integer widths keep every boundary the
codecs test apart.  Deadlock is checked in `drain`, whose system restarts for ever; the
others may run out of bounded work.

### What the two violations show

* `sigterm_flush`: the context given to `Engine.Start` (`cmd/astrate/main.go:176`)
  is the one SIGTERM cancels, so a shard leaves through `ctx.Done` with messages in
  its lane and a batch unflushed; DESIGN.md:793 says shards drain and batches flush.
  QoS 1 data survives, since it was not acknowledged.
* `flow_restart`: a container that dies after its graph was built and before the
  restart loop has ended finds the loop's claim held and gives up
  (`internal/flowapi/service.go:557`), while the loop counts the graph as started and
  ends.  The auto_restart flow stays down.

## 5. What is proved

Every theorem holds for all values of the constants that satisfy the named ASSUMEs;
no bound of a run enters.

**ShardPipeline** (`ShardPipelineProofs`, `IngestProofs`), for any devices, shards, lane
and batch sizes, and any number of faults and crashes:

* `TypeCorrect`: `TypeOK`, inductive together with the range of `slice`.
* `AckAfterCommit`: `AckedIsSettled`.  By itself not inductive: a goroutine may hold
  a closed acked channel whose message must already be settled, and a shard between
  commit and finalize must have stored what it is about to acknowledge.
* `NoStrandedBatch`: `TimerCoversBatch`, inductive given types.
* `LanesClosedBehindSenders`: `NoSendOnClosedLane`.  The strengthening says that the
  messages in a send queue belong to distinct goroutines blocked in `Submit`, in the
  lane of their device, so the write lock drain takes implies empty queues.
* `ShutdownDrains`: `ExitedShardIsDrained`, assuming `"signal" \notin StopCauses`.
  Without the assumption it is false, as the run `sigterm_flush` shows.
* `PropertiesSettle`: `LastValueWins`, and `PipelineKeepsPromise`: `ImplementsIngest`,
  both assuming `"panic" \notin FaultKinds`.  Section 6 says what a panic in
  `afterCommit` can do.

The last two rest on `OrderInv`.  A message is in one lane, that of its device
(`OwnLane`); a lane is sorted by publication from what the shard has in hand through
the queue to the blocked senders, where a re-sent copy ranks with its original (`Lanes`); nothing
in it is older than what came out (`PastFirst`); a batch is sorted and what the running
flush has yet to write is newer than what the database has of the same device and kind
(`Batches`); and what was written is not newer than an op of a batch unless an earlier
attempt at this batch wrote it (`Rewritten`), which is why a retry that fails half way
may set a property back for a while and the commit sets it right.  Steps are sorted
first by what they move (publication, a receive, an op, a commit, nothing), so that each
conjunct is proved once per kind of step and not once per action.  The step simulation
`StepKept` then maps a commit to `Persist`, a message consumed without effect to a
`Persist` that stores nothing, a handled control message to `Control`, a PUBACK to
`Puback`, and a crash and whatever moves messages along the lanes to a stutter.

**TriggerExecutor** (`TriggerExecutorProofs`), for any producers, workers, policies and
queue size:

* `ClosedBehindProducers`: `NoSendOnClosedChannel`; `CloseReturnsDrained`: `CloseDrains`;
  `AttemptCap`: `AttemptsBounded` (no run repeats it).  One inductive invariant: what
  `Close` has done so far bounds where producers may be, and a worker's position what it
  carries and how many attempts it has left.
* `DeliveriesKept`: `NothingLost`.  A delivery is in exactly one place (a producer's
  hands, the queue, a worker, the outcomes), and a producer's numbers are all still known.
* `SlotsExact`: `InflightIsExact`.  `Counted` relates the counter of each policy name to
  the set of deliveries under way and bounds the set by the capacity.
* `OneHandlerGoverns`: in a policy that compiles at most one handler answers for any
  failure, so their order does not matter.

**FlowRouter** (`FlowRouterProofs`), for any pumps, submitters, keys, lanes, capacities
and concurrent stops:

* `KeysStayInOrder`: `KeyOrder`.  Not inductive: one must know that a lane processes the
  next message of its key (`InLane`), that what it has buffered comes behind that, in
  order (`InQueue`, `Ordered`), and that nothing waits anywhere else (`Covered`).
* `StopsLoseNothing`: `StopIsClean`, from the same invariant and the order of a stop:
  pumps, router, lanes, blocks (`Stopping`).

**Sessions** (`SessionsProofs`), for any devices, connections and requests:

* `EventsPaired`: `PairedEvents`; `EvictionByOwner`: `OldDisconnectNeverEvicts`;
  `PublishesMoveOn`: `NoReturnToOldConnection`.  Their invariant ties a connection's
  position to the events it has emitted (`Reported`), says whom the registry may name
  (`Registered`), and that it names the last one admitted (`Order`).  That only one publish
  of a connection is late rests on `LateOk`: a connection has one publish under way, and
  what passes the gate passes it while the registry names the connection, which it never
  does again after a successor.  `EventsPaired` excepts the entry of a connection that was
  never established: no hook tells of its end.
* `SecretsKept`: `ConfirmedKeepsSecret`, which needs the types of rows and of what a
  request still has to write.

**RealmSchemas** (`RealmSchemasProofs`), for any requests, triggers, failures, and any
documents that parse (`RealmAssumption`):

* `SnapshotCatchesUp`: `SnapshotCurrent`.  The strengthening (`BuildCurrent`) is about
  the reload under way: what it has read is current unless some request has committed
  and not begun its own reload, which then runs later because of `reloadMu`.
* `ServiceKept`: `NoServiceGap`.  A row the snapshot serves was there when the running
  reload read it (`Served`), ids are not used again (`Fresh`), and a document with fewer
  endpoints compiles if one with more does (lemma `FewerEndpointsCompile`, where
  uniqueness of endpoints as `ParseInterface` checks it is used).
* `UpgradesKeepPaths`: of documents that parse, a minor upgrade has exactly one endpoint
  for every path the old version has one for, with the same type and attributes.
  Normalized keys ignore the names of placeholders and nothing else (lemma
  `SameKeySamePaths`), and no path satisfies two endpoints (`OneEndpointPerPath`).  That
  the trie finds the endpoint a path satisfies is left to `PublishesResolve`.

**ServerProperties** (`ServerPropertiesProofs`), for any values and calls and any finite
set of paths (`PathsAreFinite`, so that a resync lists finitely many; `CallsAreRequests`
keeps the names of the jobs apart):

* `DeviceAgrees`: `QuietDeviceAgrees`, and `ServerTypes`: `TypeOK`.

The property is about a device at rest, so nearly all of the invariant is about a device
that is not.  `Shapes` says how far each kind of job can be and what it has left to
publish; `Asked` that a resync works for a request not yet acknowledged.  While `trust`
is not `"no"`: no two jobs at work conflict (`Compatible`); whatever a job is about to
publish is what the table holds (`Current`), which is what the missing lock between the
read and the publish would otherwise break; with no resync asked for, each path of the
copy *due* (what the device has once it took its queue, `Due`) is right or about to be made
so by the call that wrote it (`Agrees`); and a resync that is not cut off has put right
the set paths that are not among its remaining messages, and after its list all others
(`Resyncs`).  This is the argument for "values first, then the list of set paths": the list
alone clears what is not set, the values alone leave what was unset, and `Resyncs` shows the
pair leaves nothing.

**ChangeTracking** (`EventsProofs`), for any paths, values, batch sizes and faults:

* `SharedBatchIsSerial`: `PrevIsSerial`.  `Chain` says that `pendingPrev` holds what the
  last tracked op on a path leaves, `Linked` that a tracked op starts where the op before
  it on the path ended or at the stored value, `Stamps` that no two samples share a
  timestamp and `Younger` that those of the batch are younger than the stored ones, so that
  the last op on a path is the newest row (lemma `NewestIsLast`).  The last two hold of
  paths no virtual device or retention sweep rewrote since they were looked up (`Current`).
* `SubscriberKnows`: `SubscriberKnowsValue`.  `Follows` states it for a moment in the
  middle of `fireCommitted`: the ops still to be fired lead, path by path, from what the
  subscriber takes the value for to what is stored.  Of a path rewritten without an event
  it claims less: nothing of `view` until an event follows a later lookup, and nothing of
  the stored value while an op may carry a previous value looked up before.

**Rooms** (`EventsProofs`), for any topics, sessions, rooms, members and capacities:

* `MailboxesCloseOnce`: `MailboxClosedOnce`; `LiveRoomsRegistered`:
  `LiveRoomIsRegistered`.

Their inductive invariant `RoomsIInv` adds to the two: a member a room lists is that room's
and has its mailbox open (`Listed`, or `Leave` after the end of dispatch could close it
again); a session past `Registry.Join` holds a room in use, one past `AddMember` a member
(`Held`); and a retired room, or one whose event channel is closed, has no subscription
(`Subscribes`).  That a retiring room takes only its own topic from the registry is the
lemma `Retirement`: while it is live, the registry names it.

### Only model-checked

* Liveness under fairness and ENABLED, out of the prover's reach: `ShutdownCompletes`,
  `EventuallyAcked`, `ResyncIsServed`, `CloseEnds`, `RequestsEnd`, `StopReturns`,
  `EndedRoomRetires`.
* What a recursive definition or a fold computes for every input, which needs induction
  over data: the properties of `Algorithms`.

Every other safety property of a passing run has a theorem.

## 6. Observations

Disagreements met while modelling that no run is about, found by reading the code
with its comments or by a trace of a model:

* After SIGTERM a submitter blocked on the lane of an exited shard keeps
  `Broker.Close` waiting (`engine/router.go:237`; DESIGN.md:793 "bounded by timeout").
* Property statements commit one by one.  When an attempt fails behind the newer of two
  values, its retry fails behind the older, and the shutdown abandons the batch, the
  older value stays (`engine/batch.go:27-30` "any failure leaves the whole batch
  unacknowledged and the retry re-applies them harmlessly").  A re-sent QoS 1 message
  repairs it, QoS 0 does not.  So `LastValueWins` speaks of batches that are committed.
* A batch acknowledged before a panic in `afterCommit` is applied again as a whole.  If
  the batch had been split and its first op abandoned, that op is now written behind the
  second, against the order of `Ingest`.  It takes three faults; the run `ingest` has
  two, and the theorems assume that `afterCommit` does not panic.
* Policies of one name in two realms share `policyInflight`
  (`engine/triggers/actions.go:337`; docs/site/triggers.md:83).
* Endpoints that differ in placeholder names parse together and do not compile
  (`pkg/interfaceschema/parse.go:571`, `trie.go:67-69`): installed, never served.  A
  rename of a placeholder passes `CheckMinorUpgrade` and is refused by the store.
* `CreateTrigger` and `DeletePolicy` each check the other's table first; together they
  leave a trigger without its policy.  Two installs of colliding names both pass.
  Two racing updates may lower the minor version.
* `Credentials` racing `Unregister` stamps an unregistered row as requested; racing an
  inhibition it sets the status back to confirmed (`store/devices.go:279`).
* Alias uniqueness and the registration limit are checked before the write;
  `CreateGroup` may leave a partial group behind an error (`appengine/service.go:492`).
* Overlapping connects of one device may leave a live connection without registry
  entry, whose publishes are refused ("cannot normally happen", `broker.go:306`).
  `SetDeviceDisconnected` of an old connection may land after its successor's
  `SetDeviceConnected`.  A device may reconnect between the kick and the deletion.
* A session that joined a room between the last leave and its own `AddMember` sits in
  a retired room and receives nothing (`channels/room.go:168-171`).
* `Manager.StartFlow` answering `ErrFlowExists` leaves the built blocks running;
  `UnregisterFlow` may drop a newer instance; a config update racing a restart leaves
  the old config live; `StopFlow` waits for the pumps without its context.
* The consumer/properties list is read and sent without a lock and may purge a
  property just set (`engine/control.go:191`).
* `Listen` does not reload on resubscription as its comment says
  (`store/notify.go:45-47`).  `deviceCache.get` may put an entry back after `evict`, and
  a late capabilities message re-creates one.
* `handleIntrospection` retried after a commit that was reported as failed loses the
  interface_removed events: `removed` is computed against the row the first attempt
  already replaced.  Given up after such a commit, or cut short before its events, it
  loses all of them, and in the first case the shard goes on with a stale copy.
  `InterfacesAreReported` names these histories.
* Purge lists, virtual devices and the retention sweep change values without value_change,
  path_created or path_removed (`engine/control.go:95`, `engine/serverdata.go:72`,
  `store/retention.go:44`).  A subscriber who follows the events is wrong about the path
  until the next one.
* A connection whose CONNECT cannot be answered leaves its registry entry behind until the
  device connects again.

Broker:

* `normalizeInflightOrder` says the library's sort on `uint16(Created)` "reproduces
  queueing order" (`broker/sessionstore.go:389`); it does not when the values straddle a
  multiple of 65536 s.  `ReplayKeepsOrder` excludes that case.
* A late drop of an old expiring connection may wipe the records of a new session
  (`OnDisconnect`).
* An interface named `control` passes the ACL, but its topics go to the control handler.
* A flat object (`engine/data.go:117`) can never be published: the ACL refuses topics
  without a path (`broker/aclhook.go:70`).
* A session keeps the ownership it cached for a name that was re-declared with another
  major until the engine refreshes it.

Flows:

* The deletion of the realm's last composite between `checkBlockTypes` and the expansion
  lets an unknown type reach `Instantiate`, which returns without `stopAll`
  (`flow/factory.go:123`, comment at 144-146).  `FailedBuildLeavesNothing` excludes it.
* Of a composite that branches only the first and last block in topological order are
  wired; dotted block names can be mis-wired; `UpdateUserBlock` accepts a source that
  refers to itself, `CreateUserBlock` empty ones and duplicate names; only blocks at the
  level of the pipeline are checked against their configuration schema.
* The sort block's buffer is shared by the lanes (`flow/blocks/sort.go:33`, against
  `flow/block.go:8-10`), it never releases its last message, and a stop drops its buffer.
* Integers inside maps come back from a container as floats, and beyond 2^53 lose
  precision; `setValue` turns device integers into strings although its comment says only
  values of no "wire-representable scalar" kind are (`astartesource/source.go:131`).
* `expandTemplate` expands what it inserted, so a metadata value that contains its own
  placeholder never terminates; the output order of a map split is that of a Go map;
  the MQTT source stays failed after the client reconnected by itself; a random source
  refuses a lone positive minimum and panics on a range wider than int64; the pool of
  virtual devices takes timestamp 0 for none and sends JSON text as base64.

APIs:

* `bucketFor` promises at most `points` points (`appengine/downsample.go:8-10`); aligned
  buckets may give one or two more.  `parseQueryOpts` refuses 2 where a comment permits it.
* Pages of group members by offset skip or repeat members when the group changes; pages
  by `since_after` lose samples that share the last timestamp; the detailed listing fails
  if a member is deleted between its two queries.  `PagesCoverAll` excludes these.
* `nestTree` loses a value when one set path is a prefix of another
  (`appengine/data.go:442`); object tables use the keys of their first document only.
* JSON integers "accepted only when integral" (`pkg/payload/json.go:251`) include
  fractions that round to an integer in float64.
* docs/COMPATIBILITY.md:240 says overlapping handlers are not rejected;
  `checkHandlersDisjoint` rejects them.  The comment that policies need no refresh
  (`realm/service.go:503-511`) fails when `CreateTrigger` races `DeletePolicy`.
* `CreateRealm` stores a retention of 0 as a ceiling, a PATCH with 0 clears it; an empty
  PATCH of an unknown realm succeeds (`housekeeping/service.go:175-177`); nobody checks
  that a new key is readable; `DeleteRealm` checks for connected devices before it deletes.

## 7. Plan

1. A passing run for `FlowLifecycle` (the restart claim matches a running loop), with
   the start-up rehydration.
2. Authorization of watches and the heartbeat in `Rooms`; downsampling in `Listings`.
3. Two devices of one realm in `ServerProperties`, with server-owned datastreams.

Next theorem: what of `PipelineKeepsPromise` survives a panic in `afterCommit` (everything
but the order behind a split batch).

## 8. Not modelled

* Cryptography (X.509, JWT signatures, column encryption): a signature is what it
  accepts, a certificate is opaque.
* HTTP and JSON layers, configuration, metrics, migrations, the connection pool,
  benchmarks and tools: pure I/O, or code without state.
* Server-owned datastreams: `publishAsOwner` appends a row and publishes it, and nothing
  is compared or sent again afterwards.  Of introspection, `old_introspection` (only
  the device view of the AppEngine reads it) and the text of a triple.
* The clients of external systems in flow blocks (Docker, HTTP polling, MQTT
  connections): only what they do with a message is modelled.
* The syntax of identifiers, endpoints, templates, URLs and documents: texts are model
  values, and whether one is well formed is a verdict of its own.
* The token bucket of pairing, the capabilities flag, the AppEngine's single event
  stream (a room with one member): nothing in them waits for another component.

`PROJECT.json` lists every component with its status and reason.
