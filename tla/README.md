# A TLA+ model of OpenCost

OpenCost measures what Kubernetes workloads cost. It collects metrics, keeps
them in resolution stores, pulls billing data of cloud integrations into a cost
repository, exports computed windows to object storage and serves queries.
What makes it hard to get right is not the arithmetic but the background
machinery around it: loops that are started, stopped and restarted by other
goroutines, a work queue that is shut down while it is in use, configuration
that changes under running ingestors, and files that may be half written.
This project models that machinery, checks it with TLC and proves the most
important invariants with TLAPS.

## 1. Inventory

| part | state | operations | hard because | correct when |
|---|---|---|---|---|
| `AtomicRunState`, `IntervalRunner` (`core/pkg/util/atomic`, `interval`) | stop and reset channels, a stopping flag, buffered subscriber channels | Start, Stop, Reset, OnStop, WaitForReset | callers race each other and the loop that is still stopping; two reads are not under the lock | one loop at a time, it owns the run, no channel is closed twice, Stop ends it, a waiting Start returns |
| Worker pool, work groups (`core/pkg/util/worker`), blocking queue (`core/pkg/collections`) | queue, shutdown flag, workers, wait group, result slots | Run, Shutdown, Push, Wait, Execute, Concurrent* | check and enqueue are two steps; unbuffered channels tie workers to receivers | no accepted input dropped or done twice, at most the last one behind a racing Shutdown, results complete and in order, every worker ends |
| Cloud config controller (`pkg/cloud/config`) | state file of statuses per (source, key), observers, watchers | pull, create, update, enable, disable, delete, register | broadcast and save are separate, four sources compete for a key, crash and torn writes | observers run what is active; at most one active status per key; disabled stays disabled while its source offers it; the watched configs win in the end |
| Cloud cost ingestion manager (`pkg/cloudcost/ingestionmanager.go`) and life cycle of ingestors (`ingestor.go`) | map of ingestors, their flags, exit channels, goroutines | PutConfig, DeleteConfig, SetConfigs, StartAll, StopAll, Rebuild(All), Repair(All) | a call holds the lock while it waits for goroutines to take an exit message | removed means quiet, running means complete, a call returns with the configs asked for running and no other key touched, every call returns |
| Cloud cost windows and repository (`ingestor.go`, `memoryrepository.go`) | stored days, coverage, lastRun, goroutine positions | build, run, month to date, repair, expire | queries are slow and fail, midnight passes between two reads of the clock | no ended day is left without its final data |
| `JobTicker` (`core/pkg/util/timeutil`) | channel, mutex, closed flag, tick goroutines | TickIn, TickAt, Close | the mutex is held across a blocking send | no send on a closed channel, one tick per job, the loop can leave |
| Collector (`modules/collector-source`) | stores per resolution and window, log files, scrape loop | scrape, Update, restore, clean | crash between update and log, retention limits of several resolutions, late goroutines | a restart rebuilds the stores in order, the log keeps what they need |
| Export controllers (`core/pkg/exporter`), KubeModel pipeline and janitor (`pkg/kubemodel`) | lastExport, exported files | export of the previous and the current window, cleanup | failure of one of two windows, pauses, a restarted process exporting over older files | a window's file is final once the loop has moved on, unless the last attempt at it wrote nothing, and loses nothing |
| Custom cost ingestion (`pkg/customcost`) | plugins behind a read-write lock, exit channels, repository | Start, Stop, build, run, Rebuild | the read lock is taken twice, the write lock in Stop; a ticker whose send holds a mutex | Stop returns and means quiet, one tick per job |
| `ConfigFile` (`pkg/config`), `ProviderConfig` (`pkg/cloud/provider`) | cached bytes and pricing, handlers, polling loop | Read, Write, Update, Add/RemoveHandler, poll | two caches of a file that others edit; the loop and the callers of Add share a lock | the loop runs while there is a handler, the caches become what the file is |
| Prometheus source (`modules/prometheus-source`, `core/pkg/source`) | request queue, workers, query groups, cluster map | Do, worker, retries, Await, refresh | workers sleep in retries; the server throttles, fails, disappears or never answers (there is no response timeout) | errors are reported exactly when there were, a computation ends and the map catches up unless requests hang |
| `CacheGroup` (`core/pkg/util/cache`) | entries, single flight, eviction loop | Do, WithExpiration, DisableExpiration | miss and flight are not one step | capacity, one flight per key (no users outside its tests) |
| Map pools, currency cache, diagnostics, heartbeat | small loops and caches | see `PROJECT.json` | start/stop flags, check-then-send | |
| Cost data structures, filters, cost model, providers, pricing, codecs, metrics, MCP | none that is shared, or that of a library | conversions, joins, arithmetic on float64 | numerical, not temporal | out of TLC's reach |

How the parts interact: the config controller tells its observers about every
config change, under its own lock, and waits for them; the one observer that
matters is the ingestion manager, which creates and stops ingestors under
`im.lock`; an ingestor runs a build and a run goroutine (paced by `JobTicker`)
that put days into the shared repository. `AtomicRunState` is below the
interval runner, the export and scrape controllers, the config file watcher
and the cache group. The worker pool restores the collector's log and runs the
queries of several other parts. `JobTicker` paces the cloud cost and the custom
cost ingestors. The KubeModel export loop computes its sets from the stores of
the collector, and a computation on Prometheus starts a group of queries and
awaits them through the rate limited client, which the cluster map uses as well.

`PROJECT.json` lists the hazards, each at the line where it bites, with the
properties that would catch it.

## 2. Modules

| module | models | proofs |
|---|---|---|
| `RunState` | `atomicrunstate.go`: the shared latch and its subscribers (actions are composed by its users) | |
| `IntervalRunner` | `intervalrunner.go` on top of `RunState`: clients and run loops | `IntervalRunnerProofs` |
| `WorkerPool` | `worker.go` and `blockingqueue.go` with a driver that plays the Concurrent* functions | `WorkerPoolProofs` |
| `ConfigController` | `controller.go`, `statuses.go`, `watcher.go` as an input | `ConfigControllerProofs` |
| `Observer` | what `observer.go` asks of an observer: notifications, and the table of configs that each returns with | |
| `Ingestion` | `ingestionmanager.go` and the life cycle in `ingestor.go`; implements `Observer` | `IngestionProofs` |
| `JobTicker` | `timeutil.go`'s ticker and the select loop of the ingestors | `CustomCostProofs` |
| `IngestorWindows` | which days build, run and repair query and store | `IngestionProofs` |
| `CustomCost` | `pkg/customcost/ingestor.go`; extends `JobTicker`, whose loop is its run goroutine | `CustomCostProofs` |
| `Collector` | repository, write-ahead log and scrape loop of the collector | `ExportPipelineProofs` |
| `ExportPipeline` | export loop, exporter, validator and janitor; extends `Collector`, from whose stores it computes | `ExportPipelineProofs` |
| `ConfigFile` | `configfile.go` and `providerconfig.go` | `ConfigFileProofs` |
| `PromQueries` | `prom.go`, `query.go`, `querygroup.go`, `clustermap.go` | `PromQueriesProofs` |

Each `MC` module instantiates its specification; the `.cfg` files give the
constants their values.

### Correspondence with the code

**RunState, IntervalRunner.** A channel is named by the run that made it;
`NoChan` is nil. A method body under `ars.lock` is one action. The reads that
are not under the lock are separate: `ReadReset` (`WaitForReset` after
`IsStopping`) and `RelayReadsStop` (the goroutine `Start` spawns for a buffered
`OnStop` channel). `loop[g]` is the goroutine of run g: it evaluates `OnStop()`,
selects, runs the action, resets.

**WorkerPool.** `queue`, `isShutdown` and `toClose` are the pool; `driver` is
the goroutine inside a Concurrent* function. Run is two actions (`RunCheck`,
`RunEnqueue`) because nothing makes it one. A send on an unbuffered
`onComplete` and its receive are one rendezvous. `parked` is a worker in
`cond.Wait`; Enqueue broadcasts. `shared` says whether somebody else may call
`Shutdown` on the pool, which the interface allows. `SetPanicHandler` has no
caller, so a recovered panic of a worker function is not modelled.

**ConfigController.** An API call holds `c.lock` throughout and is one action,
with its broadcasts and its save (`Save` also fails, with or without
truncating the file). A pull is a sequence of actions, one per save, because
the process may crash and watched files may change in between. A config is its
key and a version; `InvalidVersions` fail `Validate` and `UnknownVersions` have
no type. `mem` is the pull's copy of the statuses.

**Observer.** `asked` is what the notifications so far ask for, `scope` the keys that
the notification in progress is about, `table` what runs. `PutConfig`,
`DeleteConfig` and `SetConfigs` begin one; `Change` removes the config of one key in
scope or sets it to the one asked for; `Return` needs the table to be what is asked
for, except that a config without an integration runs nowhere.

**Ingestion.** `op`, `dels`, `puts` and `task` are the manager call that holds
`im.lock`; the history variables `asked` and `scope` say what it was called for. `Stop` of an ingestor is `StopBegin` (flags and the sends), the
receives by the goroutines (`BuildExit`, `RunExit`) and `StopEnd`. Goroutines of
`Repair` are in `repairs`: nothing stops them.

**JobTicker.** One goroutine per `TickIn`: asleep, waiting for `jt.mx`, blocked
in the send with `jt.mx` held, done. `loop` is the `run` goroutine of an
ingestor with its deferred `Close`.

**IngestorWindows.** Time in ticks, `D` to a day. The repository keeps for each
day whether its data was queried after the day ended (`final`) or before
(`partial`). `b` and `r` are the build and the run goroutine; every read of the
clock in the code is a read of `now` in its own step, and `now` advances
between steps. A repair is a goroutine that works through the windows of its range,
that nothing stops and that outlives its ingestor: `repair.heir` is the day on which
a deleted ingestor's successor was created. What such a repair stores for days since
then is in the repository but in nobody's coverage; the auxiliary `foreign` has these
days. One repair is in flight at a time, and it starts with a day that is retained. What the provider returns, and when it fails,
is external; `missed` and `lastGood` are auxiliary too.

**CustomCost.** `build` and `loop` (of `JobTicker`) are the two goroutines, `pc`,
`win`, `left` and `domain` where each is in `BuildWindow`: `OuterLock`, then per
domain `Lookup` (the inner read lock) and `Call`, then `OuterUnlock`. `writer` is
the write lock of `Stop`; a pending writer keeps readers out, also one that holds
the outer lock. `Stop` is its flags and sends, the receives, the write lock and
the kill. A `Rebuild` holds no lock during its call.

**Collector.** Time is in units, `Second` of them to a second, because log files
are named by the second while the first scrape of a process is not on one. A
store is the sequence of timestamps applied to it, so order and duplicates are
visible. `ScrapeApply` and `ScrapeLog` are the two halves of `Walinator.Update`; a
crash fits in between. `wal.Start` is `WalClean`, `RestoreList` and one
`RestoreFile` per file, in the order that `ProcessedInOrder` of `WorkerPool`
guarantees. `late` bounds how long work that is due may be left undone.

**ExportPipeline.** An iteration reads the clock once (`iterNow`) and works through
its `windows`; `Compute` and `Export` are separate steps, so scrapes, expiry and a
crash fit between them. `sealed` (windows whose file was computed and written after
their end), `exported` and `missed` (windows whose last export by this process wrote
nothing: it failed, or the set was empty and the file there was retained) are history.

**ConfigFile.** A content is the edit it began as and the fields that Updates have
set since. `poll` is the polling goroutine with its local variables: `PollStat`,
`PollRead`, `PollCopies` (handlers under `watchLock`) and `PollCalls` (which takes
`pc.lock`). `ConfigFile.Write` is `UpdateWrites` (storage) and `UpdateReturns` (the
cache of the bytes): other reads fit between. The write of the defaults in
`GetCustomPricingData` is one step with its load. `UpdateFails` is an Update whose
update function returns an error: it writes nothing, but may have changed the cached
pricing in place. `missed` records the changes of which
the loop cannot know.

**PromQueries.** A query goes from started to queued to replied to idle; a worker
from idle to send, wait and send again. `Send` is one exchange with the server,
whose answer is any of `Answers`; `Hang` is a request that the server accepts and never
answers, which holds its worker until the process ends, because the transport has
timeouts for the dial and the TLS handshake only (`prom.go:389`). A failed retry without a response panics, as
the code does, and the process is restarted. `refresh.chan` is the stop channel
that the select of the cluster map's loop has evaluated.

## 3. Runs

| run | constants | checks |
|---|---|---|
| `runner` | 2 clients, 1 subscriber, 3 runs | `SingleLoop`, `RunnerOwnsRun`, `NoPanic`, `WaitersAwaitedReset`; `StopCompletes`, `StartReturns` |
| `pool` | 3 inputs, one nil; pool sizes 0 to 3; all kinds; own and shared pool | `EachInputOnce`, `ResultsComplete`, `ProcessedInOrder`; `DriverTerminates`, `ShutdownStopsWorkers`, `AcceptedIsDone` |
| `controller` | 2 keys, config file, helm and the API, a good, an invalid and an unknown version, 2 file changes, 1 crash, 1 failing save | `NoOrphan`, `ServedUnlessDoubled`, `OnlyUpdateDoubles`, `DisabledStays` (all until a save fails); `WatchersConverge` |
| `cc_update` (violation) | 1 key, 2 versions | `ActiveServed`: after UpdateConfig two sources are active and removing one silences the other |
| `ingestion` | 2 keys, 2 ingestors, 1 build window | `RemovedIsQuiet`, `RunningIsComplete`; `ImplementsObserver`, `OnlyStopAllStops`, `HealthyCallsReturn` |
| `ingestor_windows` | 2 ticks a day, query and run window 2 days, retention 3, month 2, days 5 to 8, 1 Stop and 1 Repair that overlap, a build over at most 1 midnight | `NothingLeftBehind`, `StoredIsCovered`, `GoodRunStoresAll` |
| `custom_cost` | 2 plugins, 1 window, 3 ticks, 2 callers of Stop, 1 restart | `NoSendOnClosed`, `OneTickPerJob`; `TickArrives`, `QuietAfterStop`, `StopReturns` |
| `pipeline` | resolutions of 2 and 4 units, 2 windows each, the shorter exported; 9 units of time, 1 crash, 1 fault | `InOrder`, `Recovered`, `Backed`, `SealedUnlessMissed`; `ExportKeepsLogged` |
| `config_file` | 2 updates, 2 handlers, 3 edits, one undecodable, 1 removal, 1 fault | `HandledIsWatched`; `Converges` |
| `config_read` (violation) | no undecodable edit, 1 fault | `EditedNotDefaulted`: an Update whose load failed overwrites a valid file |
| `prometheus` | 2 queries and the map's, 2 workers, 2 retries, 2 attempts of a refresh, 4 bad or missing answers, 1 change | `HonestErrors`; `ComputeEnds`, `MapIsRefreshed` |
| `prom_retry` (violation) | the same | `NoPanic`: a retry without a response |

Every property has a mutant in `PROJECT.json`: a plausible bug in one definition
that makes TLC report it. A `TypeOK` that no run lists is there as the start of an
inductive invariant; TLC has checked it with its module's constants.

Some configurations are kept beside the runs because they show, in a few steps,
behaviour that the passing properties have to make an exception for. Each checks one
property, which TLC finds violated:

| cfg (module) | property | shows |
|---|---|---|
| `IntervalRunnerOnStop.cfg` (`MCIntervalRunner`) | `EverySubscriberSignalled` | a channel handed out before Start can miss a Stop |
| `WorkerPoolWait.cfg` (`MCWorkerPool`) | `WaitAlwaysReturns` | an entry behind the close entries blocks Wait |
| `IngestionStopAll.cfg` (`MCIngestion`) | `CallsReturn` | Stop of a stopped ingestor blocks with `im.lock` held |
| `JobTickerExit.cfg` (`MCJobTicker`) | `ExitCompletes` | Close waits for the mutex that a blocked sender holds |
| `CustomCostStop.cfg` (`MCCustomCost`) | `EveryStopReturns` | Stop of a stopped custom cost ingestor blocks |
| `ConfigFileAdd.cfg` (`MCConfigFile`) | `AddHandlerReturns` | Add and the polling loop wait for each other |
| `ExportPipelinePause.cfg` (`MCExportPipeline`) | `PreviousThenCurrent` | after a pause the windows between are not exported |
| `PromQueriesPartial.cfg` (`MCPromQueries`) | `PartialIsError` | the warning of a partial answer is not recognised |
| `PromQueriesStop.cfg` (`MCPromQueries`) | `StopEndsRefresh` | StopRefresh during a refresh stops nothing |

**Bounds.** Two clients and three runs are the least with which one client can
hold on to a run while another stops it and starts the next two. Three inputs
with up to three workers give pools smaller than, equal to and, near the end,
larger than the remaining input. Two keys let the removal of one be confused
with another; two watched sources plus the API's own give three competitors for
a key. Two ingestor objects are a key's ingestor and its replacement, or
two keys. The windows run covers a month boundary (months of two days), the
retention limit moving over stored days, midnight between any two steps,
failure, a restart and a repair that outlives its ingestor; ticks of half a day make
"during" and "after" a day differ. Day 8 is the first on which a day that ended after
the start can fall out of `RunWindow`. A repair and a Stop that do not overlap do not
meet, so `CallsOverlap` leaves those pairs out; `BuildBound` cuts off builds that go on
for two midnights. The proofs have neither bound. Two plugins make the read lock be taken again between two calls; three
ticks are the immediate one, a regular one and one that a Stop or a restart meets.
Nine units are four windows of the exported resolution and two of the other, so
that both limits move and stores of both expire, before and after the crash; a
lateness of two units lets any goroutine sleep over a boundary. Three versions of
the file (the second one undecodable) allow an edit before, between and after two
updates. Four troubles let one query use up its two retries and another fail, or both
workers hang.

**Fairness.** Weak fairness of goroutines that can take a step is what Go's
scheduler gives; worker functions, actions and queries are assumed to return.
Strong fairness is used where the code relies on a random choice: a `select`
with a ready stop or exit case and another ready case, and a mutex that is
repeatedly free. Kubernetes restarts a crashed process and the ten-second pull
ticker fires. `CustomFairSpec` assumes strong fairness of the goroutines, which
compete for `pluginsLock` and the ticker's mutex (Go's mutexes do not starve a
waiter), and that plugins answer. `FairSpec` of `ConfigFile` assumes the polling
loop, with strong fairness only for its stop case; that of `PromQueries` that
sleeps end, the ticker fires and a dead process is restarted. It assumes no response
timeout, since there is none: a request is answered or fails unless it hangs, and
`ComputeEnds` and `MapIsRefreshed` except the callers of hanging requests and the case
that all workers hang. The pipeline states no liveness. Nobody is assumed to call Stop,
Shutdown, Update, Compute or any API, to edit a file or to remove a handler.

**No deadlock check** where the system may stop: everything bounded by a number
of runs, inputs, ingestors, days, ticks or units of time ends, and `PromQueries` stops
when all its workers hang. `ConfigController` is checked for deadlock.

## 4. Findings

The three violation runs each contradict a comment; see `findings` in
`PROJECT.json`. `UpdateConfig` leaves two sources active (`controller.go:281`);
`ProviderConfig.Update` writes the defaults over a file that it could not load
(`providerconfig.go:169`); a worker of the rate limited client dereferences the
response of a retry that got none (`prom.go:293`).

The configurations listed under Runs show the same of other comments: `OnStop`
before `Start` can be lost (`atomicrunstate.go:37`); `Run` accepts work that will
never be done (`worker.go:89`); `Stop` of a stopped ingestor never returns
(`pkg/cloudcost/ingestor.go:165`, `pkg/customcost/ingestor.go:290`);
`JobTicker.Close` can block for ever (`timeutil.go:396`); adding the first handler
can deadlock with the polling loop (`configfile.go:240`); windows between the last
export and the current one are skipped (`core/pkg/exporter/controller.go:206`);
`warningsFrom` asserts a type that the JSON decoder never produces (`query.go:466`);
`StopRefresh` sets the channel to nil that the loop will select on
(`clustermap.go:273`).

Behaviour that is in the models and that no run reports, because nothing in
the repository claims otherwise:

- `Execute` on a pool that others shut down gives up on the first refused input
  and leaves workers blocked in their sends (`worker.go:205`).
- The config controller broadcasts before it saves. When the save fails the
  observers keep a config that has no active status (`controller.go:236`), so
  `NoOrphan` and its companions speak of histories in which no save has failed.
  `WatchersConverge` covers the others.
- A pull forgets a status whose config its watcher does not return, so a disabled
  config that is missing for one pull, because its file could not be read for instance,
  is inserted as active by the next one. `DisabledStays` excepts such a pull
  (`Withdrawn`). After a torn save the statuses are rebuilt active as well.
- `EnableConfig` does not test `Valid`, nor the exclusion of helm and config
  file that a pull enforces.
- A build window that fails is not retried, and `LoadWindow` skips a window for
  which a predecessor stored partial days. `NothingLeftBehind` names these two
  as the only ways to leave a day behind (`missed`).
- The run loop's clamp (`ingestor.go:313`, "prevent builds into the future") does
  not apply to the first window.
- Nothing stops a `Repair` goroutine, which may outlive its ingestor. The days it then
  stores are not in the coverage of the ingestor that has taken over
  (`ingestionmanager.go:180`); `StoredIsCovered` excepts them (`foreign`).
- A run whose queries are slow or fail advances `lastRun` all the same. That the days
  are revisited in time is `PaceAssumption`.
- An export that failed is not tried again once another window has been exported
  (`controller.go:173`), and an empty set does not replace a file, also when that file
  was written in the middle of its window (`exporter.go:116`). `SealedUnlessMissed`
  excepts both.
- A Prometheus server that accepts a request and never answers it holds a worker for
  ever, and with enough such requests the whole client (`prom.go:389`, `query.go:253`).
- A failed Update leaves what its update function, or its write, had already put into
  the cached pricing (`providerconfig.go:173`, `:186`).
- An entry that `Run` enqueues behind the close entries of a racing `Shutdown` stays in
  the queue. It is at most one, the last accepted (`AcceptedIsDone`, `OneInputBehind`).
- The first iteration of the file watcher takes the file as it finds it for known,
  and records the time of a modification before it has read it: such changes are
  never reported (`missed` of `ConfigFile`).
- The limit by which the log is cleaned belongs to the resolution that has the
  earliest limit when the process starts. That it has the earliest limit later as
  well is `LongestAssumption`; the default retentions satisfy it, other settings need
  not.
- A sample of the same second as one before replaces its log file.

## 5. Proofs

Everything below is proved for every value of the constants that satisfies the
named assumption of the module that declares them, with no other assumption.
Each inductive invariant was checked with TLC, on the instance of the component's
passing run, before it was proved.

| module | theorems about checked properties | further theorems | assumptions |
|---|---|---|---|
| `IntervalRunnerProofs` | `SingleLoop`, `RunnerOwnsRun`, `NoPanic`, `WaitersAwaitedReset` | | `MaxRunsAssumption` |
| `WorkerPoolProofs` | `EachInputOnce`, `ProcessedInOrder`, `ResultsComplete` | `OneInputBehind`, `TypeOK` | `PoolAssumption` |
| `ConfigControllerProofs` | `NoOrphan`, `ServedUnlessDoubled`, `OnlyUpdateDoubles`, `DisabledStays` | | `ControllerAssumption` |
| `IngestionProofs`, on `Ingestion` | `RemovedIsQuiet`, `RunningIsComplete`, `OnlyStopAllStops`, the refinement `ImplementsObserver` | `TypeOK` | `IngestionAssumption` |
| `IngestionProofs`, on `IngestorWindows` | `StoredIsCovered`, `GoodRunStoresAll` | | `WindowsAssumption` |
| | `NothingLeftBehind` | | `WindowsAssumption`, `PaceAssumption` |
| `CustomCostProofs` | `NoSendOnClosed` and `OneTickPerJob` (of `JobTicker` alone and of the whole ingestor), `QuietAfterStop` | `WriterMeetsNoReader` | `MaxTicksAssumption`, `CustomCostAssumption` |
| `ExportPipelineProofs` | `InOrder`, `Recovered`, `Backed`, `SealedUnlessMissed`, `ExportKeepsLogged` | | `TimeAssumption`, `LongestAssumption`, `ExportAssumption` |
| `ConfigFileProofs` | `HandledIsWatched` | `LoopIsRunState`, `WritesWhatItCached`, `TypeOK` | `ConfigFileAssumption` |
| `PromQueriesProofs` | `HonestErrors` | `TypeOK` | `PromAssumption` |

**IntervalRunnerProofs.** `SingleLoop` is not inductive: nothing in
it says that the loop that is alive is the one whose channel is current. The
invariant `IInv` adds `Ownership` (a live loop is the run named by `stop`, and it
listens to that channel) and `ChannelState` (which runs have their reset channel
closed, and that the stopping run has one to close). `NoPanic` and
`WaitersAwaitedReset` follow from `ChannelState`.

**WorkerPoolProofs.** `IInv` adds `DriverState` (an input with a receiver has
been pushed; on an own pool the flag is set only by the final Shutdown),
`WorkerState` (a busy worker holds an input) and `ResultState` (lengths). Two
lemmas say what an append and a tail do to the positions of an entry. Completeness
rests on two more invariants: `Pushed` (on an own pool every pushed input has a
receiver and Wait saw them all done) and `Collected` (the results are those of the
receivers that are done). `OneInputBehind` needs `BehindInv`: an input behind the close
entries was enqueued by the Run that had tested the flag before Shutdown set it, so the
driver has accepted nothing since.

**ConfigControllerProofs.** `NoOrphan` compares the observers with the current
statuses, which are the file's between pulls and the memory's during one. `IInv`
adds that an active status has a config (`WellFormed`), that file and memory agree
during a pull until a save fails (`InSync`) and that the status which is being
replaced is gone when its successor is inserted (`Pulling`). One lemma per operator
on statuses says which status it changes. Every step then has one of five shapes:
it keeps statuses and observers, registers an observer, lets a source take a key,
replaces the config of a key, or drops a status; `NoOrphan`,
`ServedUnlessDoubled`, `OnlyUpdateDoubles` and `DisabledStays` are shown once for each
shape. They speak of the time before a save fails, as the runs do: after it the
file is not what the observers were told, and that is what `WatchersConverge` is
about.

**IngestionProofs.** `IInv` adds `RoomLeft` (a call that has
still to create ingestors has numbers left for them), `MapState` (ingestors in
the map exist, are distinct and have their channels; a call works only on them; what
a call has still to delete and to put belongs to a change of configs) and `LoopState`
(how flags, channels, pending exit messages and the two goroutines of an ingestor go
together in each stage of a Stop). For the refinement, `AskedInv` says that outside
`Pending` (the keys the call in progress has still to delete or to put) the
table is what is asked for, and that `Pending` is within `scope`; so the call can
return, with nothing pending, only when the promise is kept. `TableStep` shows that
every step is a step of `Observer` or leaves its variables alone. `OnlyStopAllStops` is an
action property: the only step in question is the return of Stop inside a call, and
`MapState` says which call that can be.

**IngestionProofs, the windows of an ingestor.** The second half of the module is about
`IngestorWindows`, whose specification is called `WindowsSpec` so that both can be
extended. The invariants are at the end of `IngestorWindows`; `PaceAssumption` is cited
in one lemma, which only the third theorem uses. Arithmetic comes in three lemmas:
`Midnight` is additive and monotonic, and `RoundBack` and `RoundForward` are its adjoints (a day
has begun by `t` exactly if it is at most `RoundBack(t)`); with them the solver never
sees a quotient. `ClockInv` says that no goroutine works on the future and that the
steps of a run or a repair are within `Latency` of each other.

- `StoredIsCovered` is about the moment a build completes; `CoverageInv` extends it to
  every moment: a retained final day is covered, or the build in progress has still to
  pass it, or it is foreign. A deleted ingestor's repair can bring back any day, so the
  same holds for every day before `heir`, stored or not.
- `GoodRunStoresAll` is an action property. `RunInv`: the days behind a good run's
  window are stored, and a window that "prevent builds into the future" has cut short
  reaches the run's beginning, so the next one leaves no gap that matters.
- `NothingLeftBehind` is a race between the clock and `lastRun`. A day is unsettled
  when it has ended and only a run can still fetch its final data. It becomes so when
  it ends, or when the answer to an earlier query replaces final data, which is within
  `Latency` of its end (`UnsettledBefore`). `YoungInv` bounds how late a run can have
  passed it: soon after its end; or because a query failed, which happens at most
  `MaxOutage` after a good run began, and a good run stores it; or by one slow query,
  and then its next window is in the future and the run ends. So the run that ends
  leaves `lastRun` within `RunWindow` of the day. `CutInv` says that a window that was
  cut short covered the time of the cut. `PaceAssumption` is what the last two steps
  need: a query takes less than a day, and four latencies and an outage fit into
  `RunWindow` and into `QueryWindow`. The defaults (three and seven days) leave room for
  an outage of almost two days with queries of hours.

Looking for these invariants showed two things about the earlier model. It let a repair
end with its ingestor and expand the successor's coverage, and it had only one call of
Stop or Repair in a run; with both, TLC refuted `StoredIsCovered`, which now excepts
the foreign days. And a run could start at any time after the previous one, but not
while Stop was sending; it now waits for `Refresh`, as the ticker does, and the select
may take the tick before the exit message.

**CustomCostProofs.** The invariant of the ticker joins
`LockHeld`, `NoSendOnClosed` and `Schedule` (ticks before the last are over, and
whether the last one is outstanding follows from where the loop is). The ingestor's
`CInv` keeps it through restarts, where a new ticker begins, and adds `Working` (a
goroutine that is off is not in the middle of a window) and `Stopping` (while Stop
waits, each exit message is pending or received; from the write lock to the next Start
both goroutines have ended). `QuietAfterStop` follows, and so does
`WriterMeetsNoReader`: BuildWindow takes the read lock twice, which deadlocks if a
writer asks for the lock in between, and Stop asks only when nobody is inside.

**ExportPipelineProofs.** The invariant has a part per piece of state. `LimitInv`: the
limit of the resolution that NewWalinator picked is the earliest at all times, by
`LongestAssumption` and a lemma about `Get`. `WalInv`: every file of the log is named
after its sample, all samples are in the past, and during a restore the files to do are
later than what is restored. `StoreInv`, `Ascending` and `HeldInv`: a store has the
samples of its window, ascending, and all those of the log that it retains. `LoopInv`
and `SealInv`: the windows to export are the one of the last export and the current
one, so a window is exported again after its end before the loop leaves it, and then it is
sealed or missed. `FileInv`:
what is in a file and still in the log is in the set that is about to replace it. The
arithmetic is that of `Get` (a multiple of the length, at most the time and less than
a length before it); the solver needs products one at a time, hence `MulMono` and
`MulStep`.

**ConfigFileProofs.** `HandledIsWatched` excepts the moments in which an Add waits for
the loop to end; it is inductive with `AddWaits` (such an Add has registered its
handler and the loop is stopping or gone) and `LoopIsRunState` (the goroutine is
there exactly when the run state is not idle). `WritesWhatItCached` needs that
`pc.lock` is held exactly by the Update in progress (`LockHeld`).

**PromQueriesProofs.** `IInv` says that a request is in one place (`OnePlace`: with its
caller, in the queue, with one worker, which may hang, or replied), that the number of its sends and of
the retries left add up (`Counted`), that a reply is what the last answer makes it
(`Honest`) and what the two callers have outstanding (`Callers`).

Two definitions of `ConfigController` (`Broadcast` and `Current`) used `CASE` with
guards that overlap; TLC takes the first that holds, but the logic leaves the choice
open and the proof did not go through. They are nested `IF`s now. The assumptions of
`ConfigFile` now say that the names used for "nobody" and "nothing" are not handlers
or updates.

Only model-checked: all liveness properties, since fairness and leads-to are outside
the prover: `Converges`, `WatchersConverge`, `ComputeEnds`, `MapIsRefreshed`,
`TickArrives`, `StopReturns`, `HealthyCallsReturn` and those of the runner and the pool.
Every other property of a passing run is stated by a theorem.

## 6. Not modelled

`PROJECT.json` lists every component with its reason. Cost arithmetic is on float64
and sequential; codecs are generated; scrapers, queriers, providers and pricing
convert formats or call vendors' services; the cluster cache wraps client-go.

## 7. Plan

Modelling: the aggregators of the collector as folds over the samples of a window,
map pools and the semaphore, the event export loop, and the composition of
`ConfigController` with `Ingestion` through `Observer` (the controller's lock waits
for the manager's).
