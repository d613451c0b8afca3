# QJazz in TLA+

A model of the QJazz server: the pool of QGIS worker processes behind the RPC
service, the log that keeps their caches in step, and the life of the server
process around them. TLC checks small instances of every module; TLAPS proves
the safety properties of the queue and of the pool for every size.

Paths below are under `src/`; `pool/` stands for `qjazz-server/qjazz-pool/src/`
and `rpc/` for `qjazz-server/qjazz-rpc/src/`.

## The system and its parts

| Part | Code | Module |
|---|---|---|
| Queue of idle workers, admission limit | `pool/queue.rs`, `pool/pool.rs` (`WorkerQueue::recv`) | `WorkerQueue`, refining `Handoff` |
| Pool: size, counters, generations, recycling, close | `pool/pool.rs`, `pool/receiver.rs`, `pool/builder.rs` | `Pool` |
| Restore log: pulled projects, configuration patches | `pool/restore.rs`, `pool/receiver.rs`, `rpc/service/admin.rs` | `Restore` |
| Server: signals, rescaling tasks, `set_config`, shutdown | `rpc/signals.rs`, `rpc/server.rs`, `rpc/oom.rs` | `RpcServer` |
| Protocol between server and worker process | `pool/worker.rs`, `pool/pipes.rs`, `pool/rendezvous.rs`, `qjazz_rpc/worker.py`, `qjazz_rpc/connection.py` | planned: `WorkerProtocol` |
| Streaming services | `rpc/service.rs`, `rpc/service/admin.rs` | planned, with `WorkerProtocol` |
| Project cache of a worker | `qjazz_cache/cachemanager.py`, `qjazz_rpc/op_cache.py` | `Restore` (entries, pins, eviction); planned: `CacheManager` (versions, popularity) |
| Jobs of the processes service | `qjazz_processes/executor`, `worker`, `server` | planned: `Jobs` |
| Map frontend, watch of its backends | `qjazz-server/qjazz-map/src/channel.rs` | planned: `Channel` |
| HTTP handlers, configuration, logging, monitor, OGC catalog, store, QGIS algorithms, cache storages | | not modelled: stateless conversions or I/O |

A request asks the queue for a worker (`Receiver::get`) and gets it wrapped in a
`ScopedWorker`. When that is dropped a recycling task cancels what is left of
the request, replays what the worker missed of the restore log and sends it
back to the queue. `maintain_pool` replaces dead workers and follows changes of
`num_processes`; it is called at start, by `set_config` and by the rescaling
task that a SIGCHLD spawns. On SIGTERM the server closes the pool and exits.

### Granularity

`rpc/main.rs:73` builds a current-thread runtime: a task gives way to another
only where it awaits, so an action is the code between two awaits. Worker
processes, the signal thread and clients are not so bound: processes die,
signals arrive and futures are dropped at any point. `Pool` is behind a tokio
`RwLock`, whose holder keeps it across awaits; the inner `WorkerQueue` is
shared without it, so requests and recyclings run in the middle of a
`maintain_pool`.

## The modules

**`WorkerQueue`**. State: the deque, the closed flag, the counter `pending`, the
limit, tokio's `Notify` (the list of waiters, the permit, who has been woken and
how) and the stage of each request. Actions: `Recv` (the admission test and the
loop up to its await), `Wake`, `Cancel` (the future is dropped while it waits),
`Finish`, `Send`, `SendAll`, `Drain`, `Retain`, `Close`, `PatchLimit`. `Notify`
is external and modelled from its use: a dropped future that was woken by
`notify_one` passes its notification on.

**`Handoff`** is the promise of the queue without its wake-up mechanism: an idle
worker and a waiting request do not stay side by side for ever, and after the
close nobody is kept waiting. `WorkerQueue` implements it with `idle` the set of
queued workers and all final stages taken together (`ImplementsHandoff`).

**`Pool`**. State: where each worker object is, whose process is alive, its
generation, the counters `num_processes`, `dead_workers` and `failures`, and the
await at which the holder of the write lock stands. Actions: the steps of
`maintain_pool` (`Maintain`, `PatchConfig`, `Spawned`, `GrowDone`, `GrowFailed`,
`ShrinkDone`, `MaintainDropped`), of recycling (`Recycle`, `CancelOk`,
`UpdateOk`, `RecycleFailed`), of `close`, and `Get`, `Release`, `Drain`,
`Reload`, `Die`. Two auxiliary variables serve the properties: `rescaled` is true
once `num_processes` has been changed, and `late` counts how often a worker was
handed out after the reload that made it old.

**`Restore`**. State: the log (`update`, `pulls`, `config`, `states`), the
configuration that new workers start with, and for each worker its place, its
cache, its configuration and `last_update`. A cache has its entries and the
pinned ones among them; it holds `max_projects` entries, and a project that is
not pinned is evicted to make room for a new one. Actions: the services that
write the log (`PullBegin`, `PullFailed`, `DropBegin`, `AdminEnd`,
`AdminDropped`, `ClearCache`, `UpdateCache`, `PatchConfig`, `PublishConfig`,
`ConfigDropped`), what replays it (`Recycle`, `GrowDone`), and requests, which
load projects, reload outdated ones into new, unpinned entries, and evict
(`Load`). A replay holds the read lock of the log and changes one worker only,
so it is one action. The workers of a `grow` ask for the read lock in the same
poll and are queued together when the last of them is done, so no writer gets
between them: they are resynchronised and queued in one action too. `PatchConfig`
and `PublishConfig` are two actions because the second waits for the write lock
of the log when a replay holds it; when none does, the code goes from one to the
other without yielding, and the model allows more interleavings than that.

**`RpcServer`**. State: the write lock of the pool (its holder and the tasks
queued for it, in order), the await at which each rescaling task, `set_config`
and `serve()` stands, the signal thread, the token, and as much of the pool as
decides what `maintain_pool` answers. A lock that nobody contends for is taken
without yielding, so the read and the write of a rescaling are one step then.
A failed rescaling has no action left: it queues for the lock it holds. A
`grow` waits at two awaits, the launches, which have a timeout, and the
resynchronisation, which has none (`Launched` is between them). With `MayHang`
a worker may fail to answer where no timeout ends the wait: at that
resynchronisation, at the draining of a request and in a request without
timeout. A recycling may queue a worker whose process has just died.
Auxiliary: `fell`, the workers that died in the queue, and `asked`, whether
SIGTERM or SIGINT was received.

`MCWorkerQueue`, `MCPool`, `MCRestore` and `MCRpcServer` give TLC its constants
and symmetry sets. Definitions introduced by "Mutant of" are plausible bugs of
the definition after them, each breaking one property; no specification uses
them.

## Runs

Passing runs:

| Run | Configuration | What it shows |
|---|---|---|
| `queue` | `WorkerQueue.cfg`: 2 workers, 4 requests, limits 1 and 2 | no lost wake-up, waiters counted, bounded admission, a closed queue serves nobody and releases every waiter; `WorkerQueue` implements `Handoff` |
| `pool` | `Pool.cfg`: 3 workers, resizes between 1 and 3, one reload | unsigned counters never wrap, failures are deaths, a closed pool never grows and an idle close leaves nobody; until `num_processes` is changed the counters are exact and `maintain_pool` does nothing only at nominal size; a worker is handed out at most once after the reload that made it old |
| `restore_log` | `RestoreLog.cfg`: pulls, drops and clears of 2 projects, requests for these and a third, caches of 2, one file that changes, comes and goes, 3 updates | log and pulls agree; every queued worker is at the last revision; as long as nothing was removed, it has every pulled project whose file stays as it is pinned, whatever requests loaded and evicted |
| `restore_config` | `RestoreConfig.cfg`: `set_config` on 2 keys, `update_cache`, 3 patches | every queued worker has the last patch |
| `server` | `RpcServer.cfg`: 2 workers, 2 deaths, 2 overlapping rescalings, `set_config`, failing launches, workers that hang | no death of a queued worker escapes the rescalings, the barrier is up exactly during the sleep, `serve()` returns `Ok` only after SIGTERM or SIGINT, a shutdown completes unless a task keeps the lock for ever |

Runs in which TLC refutes what a comment or the documentation says; the line is
quoted in the findings of `PROJECT.json`:

| Run | Configuration | What happens |
|---|---|---|
| `queue_count` | `WorkerQueueCount.cfg` | a request dropped while it waits stays in `num_waiters()` for ever |
| `queue_limit` | `WorkerQueueLimit.cfg` | a request is let in when `max_waiting_requests` others wait already: the bound that holds, `AdmissionBound`, is one above the documented one |
| `pool_nominal` | `PoolNominal.cfg` | a shrink with dead workers around leaves `num_processes` wrong, and the pool off its nominal size |
| `restore_replay` | `RestoreReplay.cfg` | a clear and a pull missed together are replayed in reverse |
| `restore_patches` | `RestorePatches.cfg` | of two patches missed together only the last is applied |
| `server_scaling` | `RpcServerScaling.cfg` | after a failed rescaling the server hangs on to the lock instead of stopping |
| `server_nominal` | `RpcServerNominal.cfg` | a worker that dies in use is not replaced until another one dies |

The modules state four more sentences of the documentation that the code does not
keep. They have no run of their own; TLC refutes each one when it takes the
place of the property in the configuration named here.

| Property | Configuration | What happens |
|---|---|---|
| `ReloadReplacesIdle` | `Pool.cfg` | a reload between the stamp of a generation and the queueing of the worker leaves it in the queue (`pool.rs:321`); `StaleServesOnce` says how far it goes |
| `ClearTakesEffect` | `RestoreReplay.cfg` | a worker never resynchronised keeps its projects through the first clear (`restore.rs:50`) |
| `DropIsLogged` | `RestoreReplay.cfg` with `Restored` empty and `Kinds` only `"remove"` | dropping a project that was not pulled changes nothing (`restore.rs:100`) |
| `ShutsDown` | `RpcServer.cfg` with `MayFail` and `MayHang` false and `Admins` empty | a rescaling overtaken by the close gets `QueueIsClosed` with the lock in hand and blocks the exit of `serve()` (`server.rs:123`) |

### Bounds

Two workers are enough for one to be in the queue while the other is held,
recycled, launched or dead; `Pool` has three, so that a shrink from 3 to 1 meets workers in
three different places. Four requests are one served, one woken and two
waiting, over a limit of one or two. Three updates let a worker miss two
entries of the log after having seen one. Three projects for two places in a
cache make a request evict what was pulled, if it can. One reload is enough for
a worker to be old, and any number of hand-outs may follow it. Two rescaling tasks are the smallest
number that contend with each other and with `serve()`; with two deaths each has
a cause of its own. Every bound is a constant of its module (`MaxGeneration`,
`MaxUpdate`, `MaxDeaths`, `Limits`, `Nominals`, `Named`), used in guards only.

Deadlock is checked, except in the runs of `RpcServer`: there `serve()` returns.

### Fairness

`WorkerQueue`: the runtime polls every woken task (`Wake`). Nothing is assumed
of senders, so a request may wait for ever for want of workers. `RpcServer`:
tasks that are ready are polled, timers fire, the signal thread runs and a launch
ends by its timeout. Nothing is assumed of signals, clients or deaths, and in the
run `server` (`MayHang` true) nothing of workers either: a request, the draining
in a recycling and the resynchronisation of new workers may last for ever, so a
shutdown may wait for the lock for ever (`Stuck`). The two violation runs of this
module take workers that answer, so that what they show does not come from a
worker that hangs.
`Pool` and `Restore` are checked for safety only and state no fairness.

## Proofs

`WorkerQueueProofs` and `PoolProofs` hold for every finite set of workers and
requests and every value of the limits and sizes. They assume only the named
assumptions of the two modules (finite sets, positive limits and sizes).

The invariant of the queue, `QInv`, adds two facts to `TypeOK`,
`NoLostWakeup` and `WaitersCounted`. `Sleepers`: the list of waiters has no
duplicate and holds only waiting tasks that are not woken. `Wakes`: a task is
marked woken only while it waits, and only `close()`, which empties the list,
wakes tasks without a worker. With them each action changes the length of the
queue, the number of woken tasks and the list of waiters by amounts that can be
compared. `NoLostWakeup` alone is not inductive: a woken task counted
twice, or in the list as well, could be dropped together with its notification.
From `QInv` follow `QueueTypes`, `QueueNoLostWakeup`, `QueueWaitersCounted`, and
the action properties `QueueAdmissionBound` and `QueueClosedForGood`.

The invariant of the pool, `IInv`, relates the snapshot of a `maintain_pool` under way to
the counters (it never exceeds them: the lock excludes a second maintenance, and
recyclings only add), the workers launched to the number asked for, and
`num_processes` to dead and live workers. The last is `NeverUnderflows`, which
is not inductive without the first two: the reset after an await subtracts the
snapshot and adds the launched workers. From it follow `PoolTypes`,
`PoolNeverUnderflows`, `PoolFailuresAreDeaths`, `PoolClosedNeverGrows` and
`PoolCloseLeavesNobody`, and, with the exact form of the last relation, which
holds until `num_processes` is changed, `PoolFixedSizeExact` and
`PoolFixedAtNominal`.

`PoolStaleServesOnce` has an invariant of its own, `SInv`: a worker that was
handed out late has an old generation and is with a request, with the recycler
or gone. It cannot be queued again, because the recycler terminates a worker
whose generation is old and generations never go back.

Only model-checked: the liveness properties (`CloseReleases`,
`ShutdownCompletes`) and the refinement `ImplementsHandoff`, whose point is its
fairness; everything about `Restore`, where the replay is a fold over a sequence,
and about `RpcServer`.

## Plan

1. `WorkerProtocol`: one worker process and the server side of its pipes and
   fifo, with cancellation, draining and late answers; an abstract specification
   in which every request gets its own answer or none. Runs: safety with a
   dropped handler, liveness of recycling. Then the streaming services on it.
2. `CacheManager`: entries with versions, hits and times over a storage that
   changes; it refines the caches of `Restore`.
3. `Jobs`: executor, registry, broker and worker of the processes service, with
   lost answers, expiry, dismissal and clean-up; an abstract life of a job that
   its status refines.
4. `Channel`: the watch of a backend by the map frontend.
5. Composition: `Pool` with the pids of busy workers and the OOM killer.
6. Proofs: `QueuedIsCurrent` and `LogYieldsPulls` of `Restore`, the safety of
   `RpcServer`, the step simulation from `WorkerQueue` to `Handoff`, then the
   invariants of the modules above.

## Not modelled

The choice of the processes that the OOM killer kills, the contents of requests
and answers, QGIS itself, TLS and HTTP, the monitor, the OGC catalog, the store
and the command-line tools: they keep no state that the properties above could
see, or are I/O. In `Restore`, versions and popularity are left out: a
project whose file changes may be outdated whenever it is looked at, and any
project that is not pinned may be evicted.
