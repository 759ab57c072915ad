# Formal model of kubemonitor

kubemonitor is a Kubernetes operator.  A `Monitor` object asks for metrics of a
database (mysql, redis, elasticsearch, postgresql, clickhouse) to be collected
periodically; a `PrometheusPush` object names an endpoint to which everything
that was collected is sent with Prometheus remote write.  This directory holds
TLA+ specifications of the operator's concurrent core and of its five database
handlers, TLC configurations that
check them on small instances, and TLAPS proofs of theorems that hold for every
instance.  `PROJECT.json` is the index: components, runs, mutants, the map from
definitions to source lines, findings, hazards and theorems.

## 1. The system

| component | source | state | operations | hard behaviour |
|---|---|---|---|---|
| metric queue | `internal/writer/writers.go`, `pkg/types/safe_list.go` | limited list of time series, counters | `WriteSamples`, `loopRead`, `snapshot`, `QueueMetrics` | many producers, a length test outside the lock of the push, counters updated by goroutines in any order |
| writer fan-out | `internal/writer/writers.go`, `writer.go` | `writerMap` | `Register`, `DeRegister`, `WriteTimeSeries`, `Write`, `post` | the map is ranged over and read without its mutex; one goroutine per writer; panics end the process |
| worker | `pkg/worker/worker.go` | `Tasks`: name to stop channel | `AddWorkerTask`, `Run`, `Stop`, `StopAll`, `Exist`, `Range` | closing a channel does not end a run in progress, closing twice panics |
| Monitor reconciler | `internal/controller/monitor_controller.go`, `monitor_worker.go` | none of its own | `Reconcile`, `RunAfterPatchStatus`, `UpdateStatus` | stale cache, coalesced events, retries, status conflicts, keys without namespace |
| PrometheusPush reconciler | `internal/controller/prometheuspush_controller.go` | none of its own | `Reconcile` | the same, and a deletion that is retried |
| handler factory, process | `pkg/input`, `pkg/process`, `internal/labels` | one handler and one sample list per model | `InitConfig`, `Gather`, `List`, `Process`, `forward` | Monitors of one model share both |
| mysql | `internal/handlers/mysql` | configuration of the last `Init`, `validMetrics` | `Init`, `Gather` and eleven sub-gathers | one connection for all sub-gathers; results that break off unnoticed; `Init` empties and refills the map a Gather reads |
| postgresql | `internal/handlers/postgresql` | the same, and the pool of the last Gather | `Init`, `Gather`, `accRow` | the pool is a shared field that another Gather replaces; one connection; a refused address stays |
| redis | `internal/handlers/redis` | the same, and the client | `Init`, `Gather`, `gatherInfoAll` | lines whose meaning depends on earlier ones; tags changed on the way |
| clickhouse | `internal/handlers/clickhouse` | configuration of the last `Init` | `Init`, `Gather`, twelve queries | discovery, duplicates, each query fails for itself |
| elasticsearch | `internal/handlers/elasticsearch` | the same, matchers, `serverInfo` | `Init`, `Gather` | goroutines that outlive their Gather; fields that are read again while `Init` and other Gathers assign them; Go map order in the choice of indices; half-failed `Init` |
| helpers | `pkg/conv`, `pkg/types/utils.go`, `pkg/input/map.go`, `pkg/jsonx`, `pkg/filter` | none | conversions, flattening, matching | values that are not what they look like |
| self-metrics | `pkg/metrics/metrics.go` | none | `Run`, `collectMetrics` | another producer of the queue |
| process life cycle | `cmd/main.go`, `runtime` | context | signal, `mgr.Start`, `StopAll` | work in progress at shutdown |

How they interact: controller-runtime calls the two reconcilers, each in one
goroutine.  The Monitor reconciler initialises the model's shared handler and
starts a `wait.Until` loop per Monitor name; each run of the loop gathers into
the model's shared list, drains the list, writes the samples into the queue and
updates `status.lastPush`.  `loopRead` pops batches from the queue and calls
`WriteTimeSeries`, which posts the batch to every writer in `writerMap`; the
PrometheusPush reconciler changes that map.

What makes each part correct: the queue is bounded, first-in first-out and loses
nothing it accepted; a registered writer gets every batch, in order and once;
there is one loop for each Monitor and it can be stopped; after changes have
settled tasks and writers match the objects; what is collected for a Monitor is
sent, once; a Gather returns and leaves nothing behind.  `PROJECT.json` lists
the hazards at their source lines with the properties that cover them.

## 2. Modules

| module | models | composition |
|---|---|---|
| `SafeList` | the list operations as operators on sequences (from Back to Front) | used by `WriteQueue`, `Collector` |
| `WriteQueue` | `WriteSamples`, `snapshot`, `loopRead` | implements `MetricPipe` |
| `MetricPipe` | what the writers promise: a bounded FIFO pipe (abstract) | |
| `WriterFanout` | `Register`, `DeRegister`, `WriteTimeSeries`, `Write`, `post` | |
| `Writers` | both in one process | `WriteQueue` and `WriterFanout`, joined by `loopRead`, one mutex and one crash |
| `Workers` | `worker.go` and the loops of `wait.Until` | used by `MonitorController` |
| `KubeObjects` | the API server (external); informer, listener, work queue and worker goroutine (vendored client-go and controller-runtime) | used by both controllers |
| `MonitorController` | `Reconcile`, the loops' function, `UpdateStatus`, shutdown | `Workers`, `KubeObjects` |
| `PushController` | the PrometheusPush `Reconcile` | `KubeObjects` |
| `Collector` | `InitConfig`, `Gather`, `Process`, `forward` on the shared handler and list | |
| `MysqlGather` | `Init`, `Gather` and the sub-gathers of mysql | |
| `PostgresGather` | `Init` and concurrent `Gather`s of postgresql | |
| `ElasticsearchGather` | `Init` and concurrent `Gather`s of elasticsearch with their goroutines | |
| `BlockingHandlers` | the factory over the three handlers whose Gather waits | the three above |
| `RedisGather` | `Gather` of redis | uses `Conversions` |
| `ClickhouseGather` | `Init` and `Gather` of clickhouse | uses `Conversions` |
| `EsStatistics` | `Init` of elasticsearch, the choice of indices, the samples of an index | uses `Conversions`; `Flatten` is a parameter |
| `JsonFlattener` | `FullFlattenJSON`, a RECURSIVE operator | the value of `Flatten` in the run |
| `Handlers` | the factory over the handlers that read an answer by themselves | `RedisGather`, `ClickhouseGather`, `EsStatistics` |
| `Conversions` | `ToFloat64`, `ToInt`, `ParseSlice`, `ParseBool` as operators on classes of texts | |
| `WriteQueueProofs`, `WritersProofs`, `KubeObjectsProofs`, `MonitorControllerProofs`, `PushControllerProofs`, `CollectorProofs`, `BlockingHandlersProofs`, `HandlersProofs` | theorems and lemmas (section 4) | extend the modules they are about; `WritersProofs` has the fan-out too and uses `WriteQueueProofs`, the controllers' use `KubeObjectsProofs` |
| `MC...` | the TLC instances | |

How state and actions correspond to the code:

* **WriteQueue.**  `pc[p]` says where a producer is in `WriteSamples`:
  `BeginWriteSamples` is the conversion of the samples (those that do not convert
  are skipped, so a call may push nothing), `CheckLimit` the length test of
  `SafeListLimited.PushFrontN`, `Push` its push, `SpawnSnapshot` the call of
  `Len` and the `go` statement.  `snapshots` are the goroutines spawned and not
  run; `Snapshot` applies one to the counters.  `PopBatch`, `BatchWritten` and
  `SleepOnEmpty` are `loopRead`.  A series is the producer, the number of its
  call and the position in it.  `QueueFailCount` is modelled for
  `CountersAccount`; `QueueSize` is modelled and appears in no property.
* **Writers.**  `contents` are the batches handed over, `sentTo[n]` the series posted
  to `n`, `constantly` the writers registered throughout; they record and guard
  nothing.
* **WriterFanout.**  A map write has a begin and an end (`BeginRegister`,
  `BeginDeRegister`, `EndMapWrite`), so that `RangeNext` and `Lookup` can fall
  between them.  Go leaves open what such a race does: `RaceDetected` is the
  runtime's fatal error, and without it the reader sees the map before the
  write.  `must` holds the keys the language guarantees the range to yield,
  `visited` those it will not yield again.  `Post` panics for the zero `Writer`
  and for an odd number of headers; an error of the endpoint changes nothing,
  as in the code.
* **KubeObjects.**  The API server is what the code assumes of it: a write gives a
  new `resourceVersion` and a watch event.  The rest is vendored: `Learn` is
  `processDeltas` of the informer (the indexer changes, then a notification is
  handed on), `Notify` the listener's goroutine and the event handler that adds
  the key to the work queue, `Take` the worker's `queue.Get`, `Get` the read of
  `Reconcile` from the cache, which may have moved on since; `Forget` and
  `Requeue` what the worker does with the result.  After `AddRateLimited` a key
  waits in `delayed` until its back-off is over (`Ripe`), so that a late retry can
  come after later events were handled, and beside a key that is queued already.
* **Workers, MonitorController.**  A task is the number of its stop channel.
  `AddAndRun` is `AddWorkerTask` followed by `Run`: only the reconcile goroutine
  calls them, and `StopAll` runs after it has ended.  `LoopTop`, `LoopRunDone`
  and `LoopWait` are the loop of `BackoffUntil`.  `Reconcile` is split at its
  `Get`, before and after which the cache may move on: `BeginReconcile`,
  `GetReturns` or `GetFails`, then one of `ReconcileGone`, `ReconcileSkips`, `ReconcileInitFails`,
  `ReconcileStarts`.  `UpdateStatus` is `StatusGet` and then `StatusPut`,
  `StatusConflict` (retried `MaxSteps` times) or `StatusFails`.  After `Signal` the
  queue takes no keys and the worker goes on with those it has; `MainReturns` is
  `StopAll` after that, `MainExits` the end of the manager's grace period before it.
  `wrote` (the loop whose status update was accepted last) and `cut` (the loops
  told to stop while their function ran) record for `LastPushBackwards` and guard
  nothing.
* **Collector.**  The handler is abstracted to the two fields a Gather reads at
  different moments, the address it labels with and the target it connects to.
  `InitFails` and `InitFailsLate` are the failures before and after the target is
  overwritten (`BadMonitors` and `LateMonitors`).  The late ones are of two kinds:
  a mysql dsn that does not parse (`Unparsed`), at which nothing can be measured,
  and an elasticsearch Monitor whose index pattern is refused when `ins.Servers`
  is set: these servers are good, and the other Monitors' Gathers measure there.
  `Rereads` tells redis and elasticsearch, which read client and servers again for
  the data, from mysql, which does not; the theorems hold for both.
* **ElasticsearchGather.**  `EsInit` is `Init` for another Monitor, at any time.  A
  Gather is `BeginEsGather` (the counter of the first WaitGroup), `MakeChan`,
  `MakeMap`, `Range1`, `Look`, `Wait1` (with the counter of the second), `MakeChan`,
  `Range2`, `Look`, `Wait2`: each of these reads or assigns a field of the Instance
  in a step of its own, and Inits and the steps of other Gathers come in between.
  `Look` is the `select` with `default`.  `maps[g]` is the map that Gather `g` made
  and `info` the Gather whose map `ins.serverInfo` is; a goroutine of the first
  round takes the mutex and reads the field (`Locks`), then stores
  (`Round1Stores`), and `RaceDetected` is the fatal error for an `isMaster`
  meanwhile.  A goroutine ends with `Done`, which panics below zero; `SendError`
  waits for room, or panics when the deferred `close` of the Gather has run
  (`Unblocked` is what becomes of one that waits).  A torn read of a slice header
  is not modelled, and a list names a server once.
* **MysqlGather.**  `at` is the sub-gather Gather is in, `conn` the one whose rows
  hold the connection.  `Query` draws a result from the server's and the number
  of its rows that arrive; `Row`, `ScanError` and `RowsDone` are the loop over
  them, with what each sub-gather pushes for a row (`RowSamples`) and at its end
  (`EndSamples`).  `slist` maps a sample to the number of times it was pushed:
  the order in the list matters to nobody, a second copy does.  `InitMakesMap` and `FillMap` are `InitValidMetrics`, one of its
  loops at a time; `MapRace` is the runtime's fatal error for a read meanwhile.
  Names and values are reduced to those that take different paths: a variable
  with and without the prefix of a group, valid, optional or unknown, a number, a
  word for 0 or 1, a text; the page counts the computed metrics use.  The thread
  states are those `stateCounts` begins with and those the rows add to it
  (`FoundState`).
* **PostgresGather.**  `pools` are the `sql.DB`s opened so far, `db` the field of
  the Instance.  `Open`, `DeferClose`, `SetLimits` and `Ask` each read or write
  the field in a step of their own.  `AccRow` reads the address again.
* **RedisGather.**  The answer is not fixed in advance: each step reads a line of
  any kind, so that all answers up to `MaxLines` are covered, and `lines` keeps
  them for `InfoExact`.  `Blank` is the empty text.
* **ClickhouseGather.**  `todo` are the servers to look at, `found` the rows of the
  last server's `system.clusters` that are not looked at yet (`AddHost` takes one,
  in any order, because the query does not sort), `connects` the hosts, `queries`
  what is still to be asked of the first of them; `listed` records the servers
  whose clusters were read.  Two results are read at row 0 without a look at their
  length (`Unguarded`): an empty one is a panic (`FirstRowPanics`).  Whether a host lets
  the user in is looked up when a query is sent, as the code reads `Username`
  then.
* **EsStatistics.**  Index names are numbers in their sorted order.  Where the code
  ranges over a map, the result is any that some order gives.  The walk over a
  JSON value is recursive and stands in `JsonFlattener`, so that the choice of the
  indices can be proved for every walk.
* **Handlers, BlockingHandlers.**  Each model has one Instance and one list, so two
  models share nothing and a behaviour is about one of them.  Where Monitors of one
  model meet: for the handler and the list as a whole in `Collector`; as
  concurrent Inits and Gathers in `PostgresGather` and `ElasticsearchGather`; as
  Inits during one Gather in `MysqlGather`, `ClickhouseGather` and `EsStatistics`.
  `RedisGather` is one Gather alone (the client it reads again is in `Collector`).

Definitions whose names end in `_Something` after the name of an action are its
mutants: the action as a plausible mistake would have it.  No specification uses
them; replacing the action by its mutant makes the property named in
`PROJECT.json` fail.

## 3. Runs

Bounds, all of them constants: calls, samples per call, batches, changes, edits,
runs, faults, Inits and Gathers.  Counters are never wrapped: they are `uint64`.
Where a run has `CHECK_DEADLOCK FALSE` the reason is that every behaviour ends
when these bounds are used up, or when the process dies.

| run | instance | shows |
|---|---|---|
| `queue` | 2 producers (symmetric), limit 2, batch 2, 2 calls of up to 2 samples | both producers pass the test before either pushes; a batch is popped between two pushes; the capacity of 5 is reached.  Deadlock is checked |
| `fanout` | 2 names, all three kinds of options, 2 batches, 3 map changes | register, deregister and register again around and during a batch |
| `fanout_all` | 2 names, 1 batch, 3 changes | violated, see Findings |
| `writers` | 1 producer, 2 calls of up to 2 samples, 1 name, 2 batches, 2 changes | the composition; two batches are enough for four samples because a call fits in a batch |
| `monitor` | 1 name, specs `a`, `b` and one that `Init` refuses, 3 edits, 2 runs, 1 API fault, 2 attempts | create, delete and re-create, or create and update twice, with all ways the cache and the notifications can lag and retries that come late; two loops of one name, the first still in its last run |
| `monitor_update` | 1 name, 2 specs, 2 edits | violated |
| `push` | 2 names, 3 edits, 1 fault | the same for writers |
| `push_retry` | 1 name, 2 edits | violated |
| `collector` | 2 usable Monitors, one whose `Init` fails before and two whose `Init` fails after it set the target, one of these with a target that does not parse; a handler that re-reads; 2 Inits, 2 runs | two overlapping closures; a failing `Init` at every point of a run; both together only in the proofs |
| `collector_shared` | 2 Monitors, 2 runs | violated |
| `blocking` | mysql: three sets of switches, 1 concurrent `Init`, 1 sub-gather met by a fault, results of up to 4 rows; postgresql: 2 Gathers, 2 usable addresses and 1 refused, 2 Inits, 1 row; elasticsearch: two Monitors, one with both servers of a cluster and one with the server that is not its master, each with its own switches, 2 calls, of `Gather` or of `Init` after the first, 2 goroutines that fail | every sub-gather with rows, cut results and errors; the second postgresql Gather at every point of the first; an elasticsearch Gather beside another one or beside an `Init` at every point between two reads of a field, goroutines of a Gather that has returned beside the next, servers that become more or fewer |
| `handlers` | redis: answers of up to 4 lines out of 17; clickhouse: 3 configurations, 2 servers, 2 hosts in 3 clusters, 2 Inits, 1 fault besides refused users; elasticsearch: 6 configurations, 4 indices, 2 trees with colliding names, 2 Inits | a header, a role and a list in every order; a host named three times; an `Init` between any two queries; indices that two patterns match |

Properties by run (the comments at their definitions state them exactly):

* `queue`: `QueueBound`; `FifoPerProducer`; `CallsContiguous`; `CountersAccount` (total minus
  failed is what was accepted from the calls whose snapshot has run); `ImplementsPipe`.
* `fanout`: `StableWritersServed`, `BatchOrder`, `DuplicatesOnlyByReRegister`,
  `CrashCause`.
* `writers`: `ConstantWriterGetsAll`, `QueueRefined` (the
  composition implements `WriteQueue`, so what is proved there holds here) and
  `EndToEnd`.
* `monitor`: `MCTypeOK`; `NoDoubleClose`, `NoLeakedLoop`, `OneLoopPerName`;
  `SettledTasks`; `LastPushBackwards`; `LoopForMonitor`, `LoopsEnd`.
* `push`: `SettledWriters`, `WritersFollowObjects`.
* `collector`: `SentOnce`, `GoodRunLeavesNothing`, `MeasuredAtUsable`,
  `GoodRunSent`.
* `blocking`: `BytesSane`, `NothingLostAlone` and `StatesAddUp` for mysql;
  `NoPoolLeftAlone` and `OneServerAlone` for postgresql; `NilMeansComplete`,
  `CrashCauses` and `StatsFromMaster` for elasticsearch; and
  `EveryGatherReturns` for all three, broken by a mutant of each.
* `handlers`: `InfoExact` for redis, `HostsAskedOnce` for clickhouse,
  `MostRecentSampled` and `FieldsExact` for elasticsearch: what the steps produce
  compared with a definition that looks at the whole answer at once.

`Alone` in a name marks what the code promises only while nobody else uses the
Instance: the models contain the interference, and the properties say what it can
and cannot break.  With it a mysql Gather may crash or miss metrics, and a
postgresql Gather may read from another's server or leave a pool open; that both
still return is not subject to this.  An `Init` during an elasticsearch Gather may
hang it, end the process or make its nil result incomplete, and another Gather may
take away its `serverInfo`: its properties name these exceptions, and no others.

### Fairness

Weak fairness on the steps of goroutines that can run: Go's scheduler is
preemptive and starves none.  Blocking calls end: the elasticsearch client has a
timeout of its own; a query of mysql or postgresql ends when the server answers
or the connection breaks (the drivers' timeouts cover connecting only, so a
server that keeps the connection and never answers is outside the assumption);
in `BlockingHandlers` the fairness of a model's steps is stated for the
behaviours of that model (`Of`), for elasticsearch as one condition on all its
Gathers and goroutines, which is less than the scheduler gives and enough for calls
that are bounded in number.  A `post` ends if the endpoint answers or if `dialTimeout`
and `timeout` of the PrometheusPush are set (with 0 they are off, and an endpoint
that accepts the connection and never answers holds up `loopRead` for all
writers: the liveness of `fanout` and `writers` assumes that this does not
happen).  In the controllers the informer, its listener and
the delaying queue go on (`Deliver`, `Enqueue`, `Retry`): a notification arrives and
a back-off, which is bounded, ends.  Strong fairness on `BeginReconcile(k)`: the
work queue is first-in
first-out, so a key that waits is taken even if another one is retried for ever.
Nothing is assumed of users, API failures, signals or of how often a producer
calls.  Outside the reach of fairness are the bounds: `Tick` is disabled once the
runs are used up, and the liveness properties of `monitor` speak of loops that
exist or have ended, not of runs.

### Findings

* `WritesToAllWriters` (`writers.go:171`): the goroutines look the writer up
  without the mutex; a `DeRegister` meanwhile gives them the zero `Writer`, and
  its nil client panics.  `CrashCause` says that this, the map race and an odd
  header list are the only ways for `WriteTimeSeries` to die.
* `DesiredSpecReached` (`monitor_controller.go:66`): a changed spec is not applied
  until the Monitor is deleted.
* `ReconcileEnds` (`prometheuspush_controller.go:59`): removing what is not there
  is an error and is retried.  TLC's behaviour: an object is created and deleted
  before its key is reconciled for the first time, and its key goes from the
  back-off to the queue, to `Reconcile` and back for ever.
* `SentAsConfigured` (`manager.go:52`): Monitors of one model share a handler.

Met while modelling and not given a run:
a failed run returns before `Process` (`monitor_controller.go:86`), so its `up 0`
stays in the shared list until some later run succeeds; the queue is limited by
`Capacity` and not by its `maxSize` (`safe_list.go:103` and 123; `QueueBound` is
the true bound); with two namespaces `LoopForMonitor` fails, because tasks are
keyed by the name (`monitor_controller.go:58` and 66); "Always gather node stats"
(`elasticsearch.go:231`) does not hold after an early return of the first round;
a server without `serverInfo` counts as master (`elasticsearch.go:119`,
`StatsFromMaster` states the exception); an `Init` between the reads of
`ins.Servers` leaves an elasticsearch Gather waiting for goroutines it never
started, or makes its WaitGroup negative (`elasticsearch.go:174` and 180, 221 and
226), and two Gathers side by side may meet in the unlocked `serverInfo`
(`elasticsearch.go:206` and 250), which ends the process; an elasticsearch `Init`
that is refused leaves its servers to the other Monitors (`elasticsearch.go:124`
and 144); `gatherGlobalVariables` looks at
`DisableGlobalStatus`, so `disable_global_variables` of
`config/samples/mysql1.yaml:33` has no effect (`global_variables.go:14`); the
clickhouse filters are joined by OR and an unset list is one empty name, so an
include list without an exclude list admits every cluster
(`clickhouse.go:177`); the postgresql handler reports `up 1` before it has
connected (`postgresql.go:128`), and neither SQL handler asks `rows.Err`, so that
a result that breaks off counts as complete; two clickhouse results are read at
row 0 though they may be empty (`clickhouse.go:259` and 284); a line of redis INFO beyond the scanner's buffer ends the
reading unnoticed (`redis.go:148`), and `Init` does not close the client it
replaces.

## 4. Proofs

All are checked with TLAPS (SMT, Zenon, LS4), for every value of the constants
that meets the named assumptions next to their declarations: finitely many
producers, writer names, servers and Gathers; limit and batch size positive;
bounds that are natural numbers; keys that are pairs of a namespace and a name;
results and lines of the kinds the code tells apart.  TLC evaluates the
assumptions in the runs.  Two of them need a word.  `MyServerAssumption` is about
what a mysql server answers: a result lists a name, a channel and a column of a
channel once, the free pages of the buffer pool are part of a total that the
same result gives as a number, and the page counters are no variables.  With a
server that breaks it the code would push a sample twice or a negative size, and
nothing in the code guards against that.  `NamesUnshared` is no
assumption of a module but a hypothesis of `TasksSettle` and `WritersSettle`: no
two objects of different namespaces have one name.  Without it both are false,
because tasks and writers are keyed by the name alone.

For each component: the theorems, the inductive invariant they follow from, and
why the properties are not inductive by themselves.

**Queue** (`WriteQueueProofs`)

* `Types`: `WQSpec => []WQTypeOK`, the typing the other proofs of the queue rest on;
  no run checks it by itself.
* `Bounded`: `WQSpec => []QueueBound`.  Several producers may have passed the test
  before one pushes.  `RoomReserved` adds what they may still
  push: `Len(queue) + Cardinality(Pushing) * MaxItems <= Capacity`.  The test
  admits a producer only below `MaxSize`, when all others may be pushing
  (`CheckReserves`); a push turns reserved room into used room (`PushUses`).
* `Fifo`, `Contiguous`: from `OrderInv`, which adds `CallNumbers`: a producer in a
  call still holds the items of exactly that call, and until it has pushed
  everything accepted from it belongs to earlier calls.  `loopRead` only moves
  series from `queue` to `batch` to `written` and leaves their concatenation
  alone (`LoopReadKeeps`); only `Push` extends it (`PushAppends`).
* `CountersRight` (`CountersAccount`), from `CountInv`: the goroutines that count
  run in any order and long after the push, so the invariant says of each that is
  still to run that it belongs to a call of its own that has returned and that
  its number is what the queue took from that call (`SnapshotsTrue`).  The
  positions a snapshot adds to those reported are then just its count
  (`CallPositions`), and a pushed call adds none before its snapshot.
* `RefinesPipe`: `WQSpec => ImplementsPipe`, with `batch \o queue` as the pipe and
  `written` as what was handed over.  A push is `Offer`, `BatchWritten` is
  `Deliver`, all else stutters; that the pipe is bounded needs `RoomReserved`.

**Fan-out** (`WritersProofs`)

* `InOrder`, `OnceUnlessReRegistered`, `CrashCaused`, `StableServed`
  (`BatchOrder`, `DuplicatesOnlyByReRegister`, `CrashCause`,
  `StableWritersServed`), from `FanInv`.  Order needs that goroutines belong to
  the batch in progress and that none is left when the next begins (`OneBatch`,
  which is what `wg.Wait` gives) and that what was posted of the current batch
  was posted by one of them (`PostedBy`).  That a second post of a batch goes to a
  writer registered since needs `ReYield`: the range may yield a key again only
  after a deletion, and then what is stored under it, or about to be, is new.
  The cause of a crash needs `LookedUp`: while nobody writes the map every
  goroutine finds the writer it was started for.

**Both composed** (`WritersProofs`)

* `RefinesQueue` (`QueueRefined`) and `RefinesFanout`: each step of the
  composition is a step or a stutter of the queue, and of the fan-out.
  `WritersKeepPromises` draws the conclusion: what is proved of either holds for
  `internal/writer` as a whole.
* `ConstantWriterServed` (`ConstantWriterGetsAll`), from `Joined`: the batch of the
  queue is the one the fan-out writes (`InStep`), a writer never deregistered is
  owed it and yielded exactly once (`StillOwed`), and has been sent `written`, or
  `written \o batch` once its goroutine has posted (`SentSoFar`).

**Monitor reconciler** (`MonitorControllerProofs`, with `KubeObjectsProofs`)

* `MCTypes`, `ClosedOnce`, `NoneLeaked`, `OneLoop`: from `ControllerInv`.  Its
  core is `TaskInv`: the channels in `Tasks` are open and no two names share one,
  no two loops share a channel, and a loop whose channel is open is the one
  `Tasks` holds for its name.  `AddAndRun` keeps it only for a name without a
  task, which is what the `Exist` test of `Reconcile` provides.
* `TasksSettle` (`SettledTasks`).  The property speaks of quiet states only; the
  invariant says for every state and key that a key neither notified, queued or
  in a back-off, nor in `Reconcile`, has a task exactly if the *cache* has the object
  (`TasksFollowCache`), and how far the cache may be from the store (`Followed`, in
  `KubeObjectsProofs`: the last event on its way is the store's state, and what
  `Get` returned is stale only if a notification of the key is on its way or the
  key is queued again).
* `PushGoesBack` (`LastPushBackwards`), an action property, from `PushInv`: the
  `lastPush` of an object was written by the loop `wrote` names, which is not about
  to write an earlier time, and if that loop was told to stop between two runs
  then no open loop of the key is about to write one either (`PushedBy`).  So a
  loop that writes an earlier time is another one.  If it was stopped, it was
  stopped during the run it is in (`CutRuns`); if not, then by `OneLoop` the other
  one was, and by `PushedBy` not between two runs.
  The attempt to prove the property in its first form failed for a good reason:
  it said that the loop that writes is the stopped one.  With two names, more edits
  and more runs than the run `monitor` allows, TLC shows the opposite: the new
  loop reads the clock, the stopped one reads it later and writes first, and then
  the new one takes `lastPush` back.

**PrometheusPush reconciler** (`PushControllerProofs`)

* `WritersSettle` (`SettledWriters`), from the same `Followed` and
  `MapFollowsCache`: a key that nothing is under way for has the writer that
  the cached object asks for.

**Collection path** (`CollectorProofs`)

* `NothingSentTwice`, `GoodRunsClean`, `OnlyUsableTargets` (`SentOnce`,
  `GoodRunLeavesNothing`, `MeasuredAtUsable`), from `ColInv`.  A sample is in one
  place at most, the list, the hands of one run or what was sent (`Distinct`,
  `Apart`); new samples differ from all others because a run has not yet pushed
  what it is going to push (`Numbered`); an `up` is in the list only while its run
  is before `Process` (`LeftByRun`); and the target parsed, and had been set as a whole, when it was pinged and
  when it was read again (`Reached`).  That the failing Inits leave it so is what
  the proof is about: the early ones do not touch it, and a late one leaves either
  a dsn at which `sql.Open` fails or servers that can be measured.

**Handlers** (`BlockingHandlersProofs`, `HandlersProofs`)

* elasticsearch: `NilIsComplete`, `CrashHasACause`, `MasterAnswers`
  (`NilMeansComplete`, `CrashCauses`, `StatsFromMaster`), for any number of
  servers, Gathers and Inits, from `ESInv`.  Most of it is about the Gathers during
  which `Init` was not called: the servers are still those it was called with
  (`SameList`), so that each counter is the number of its goroutines that run
  (`Counts`), a round has one for each server (`Started`), none runs after the wait
  (`Waited`) and the second round begins when the first has ended
  (`SecondAfterFirst`).  For all Gathers: a goroutine pushes one `up` (`UpOnce`);
  what the first round found out is in the map the Gather made, as long as the
  field holds it (`Known`), although goroutines of other Gathers store into that
  map too: they store the same value; the goroutine in the mutex stores into the
  map of its own Gather while that is the one in the field (`InMutex`); and two Gathers at once are
  recorded as such (`Beside`).  The exceptions of the three properties are those
  that the invariant has: an `Init` during the Gather, an early return, another
  Gather.
* postgresql: `AloneLeavesNoPool`, `AloneAsksOneServer` (`NoPoolLeftAlone`,
  `OneServerAlone`), from `PgInv`.  That a Gather met no other is a fact about its
  whole run; the invariant relates it to the pools: each Gather opens one
  (`OnePoolEach`), one that opened its pool after that of a running Gather has
  met it (`LaterMet`), and a query goes to a pool no older than the Gather's own
  (`HoldsOwn`).  So the field holds the pool of a Gather that is alone
  (`AloneHas`), and no later Gather keeps a connection of it.
* mysql: `ConnectionIsFree`, from `MyInv`: when a sub-gather asks, the one
  connection is free, whatever happened to those before it; this is the safety
  behind `EveryGatherReturns`.  `BytesAreSane` (`BytesSane`) and `NothingLost`
  (`NothingLostAlone`), for results of any length, from `RowsInv`.  Both speak of
  what is left when rows were read one at a time and may have been lost
  unnoticed; `RowsInv` relates each state to the server's result: while no row of
  it was lost, the rows read and those to come are the result (`RowsInTurn`);
  each sample of the rows handled so far is in the list once, and the list has
  no other sample of their metrics (`Tally`), which is what makes the next row's
  samples new; and the cache has just the pages these rows name (`PagesKept`), so
  that at the end of the status the free pages are at most the total.  A
  replication row gives several samples; that no two rows of a result give the
  same one is `GivenOnce`.
* redis: `InfoReadExactly` (`InfoExact`), for INFO answers of any length.  `InfoExact`
  speaks of the end of the answer; `RdInv` says after each line that the
  variables the loop carries along (the section, the role, the map of fields, what
  was pushed) are what the declarative definitions give for the lines read so
  far, and that there is always a last header among those before a line.
* clickhouse: `HostsAsked` (`HostsAskedOnce`), from `ChInv`: every server of the list
  is read, failed or to come (`ServersAccounted`); the hosts named so far are those
  in the list and in the rows not looked at yet (`HostsListed`), each once in the
  list (`HostsDistinct`); and while they are asked, those that left the list have
  been asked for everything, the first one for the functions no longer in
  `queries`, the others for nothing (`AskedInTurn`).
* elasticsearch: `RecentIndicesSampled` (`MostRecentSampled`), from `EsStInv`: there
  is one choice of a category per index, made in the order of a Go map, such
  that of the categories that are done exactly the most recent indices are
  sampled.  That the newest `k` of a finite set of names are `k`, or all, is
  proved with the library's cardinality facts.

All inductive invariants are over the same variables as the specifications;
`Writers` has for this purpose, and for its two properties, the history variables
`contents`, `sentTo` and `constantly`, `MonitorController` has `wrote` and `cut`, and
`ElasticsearchGather` those of `esHistory`, the other handlers what their comments
call history.  A guard reads one only for the bound on faults.

Only model-checked:

* liveness under fairness: `EndToEnd`, `LoopForMonitor`, `LoopsEnd`,
  `WritersFollowObjects`, `GoodRunSent`, `EveryGatherReturns`;
* `FieldsExact`: it is about what the recursive `FullFlattenJSON` computes;
* `StatesAddUp`: an equality of two sums over data, which needs induction over
  them.

Every other property of a passing run is stated by a theorem.

## 5. Not modelled

* Remote-write encoding, TLS and HTTP details, logging, flags, leader election,
  probes.  Names and values of metrics only as far as they take different paths;
  the labels `Process` adds.
* Code that no configuration reaches, because `Metrics`, `Commands`, `Databases`
  and `OutputAddress` are never set: `scrapeMetric` and `parseRow` of postgresql,
  `execCustomQuery` of clickhouse, `gatherCommandValues` of redis.
* elasticsearch: the levels of cluster health, the URLs, the `_all` and `_shards`
  parts of the index statistics.  That these are requested, and may fail, is in
  `ElasticsearchGather`.
* `QueueMetrics` only reads.  `PopBack`, `RemoveAll`, the limited `PushFront`,
  `InitConfigWithGather`, `GetHandler` and `StopWithRange` have no caller.
* Of `pkg/filter` only a single pattern, as the set of names it matches: the
  code compiles no lists.  `pkg/stringx`, `pkg/tagx`, `pkg/types/metric.go` and
  generated code.

## 6. Plan

Done, in this order: the queue and its pipe; the fan-out; their composition; the
worker and the Monitor reconciler; the PrometheusPush reconciler; the collection
path; the elasticsearch Gather; the handlers of mysql, postgresql, redis and
clickhouse, the index statistics of elasticsearch and the conversions; the proofs
of section 4.

Next, most important first:

1. The label rules of `Process`, cluster health of elasticsearch.
2. `MonitorController` with the PrometheusPush side and the queue in one system.
