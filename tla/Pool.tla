-------------------------------- MODULE Pool --------------------------------
(***************************************************************************)
(* The worker pool (qjazz-pool/src/pool.rs, receiver.rs): how many worker  *)
(* processes there are, and how many the pool believes there are.          *)
(*                                                                         *)
(* The pool lives behind a tokio RwLock: maintain_pool, patch_config and   *)
(* close hold the write lock to their end.  Requests and recycling tasks   *)
(* share the inner WorkerQueue without that lock, so they run between any  *)
(* two awaits of the lock holder, and worker processes die at any time.    *)
(* An action is the code between two awaits.                               *)
(*                                                                         *)
(* Left to other modules: the order of the queue and the waiting requests  *)
(* (WorkerQueue), what a resync sends (Restore).                           *)
(***************************************************************************)
EXTENDS Naturals, FiniteSets

CONSTANTS
  Workers,       \* worker objects; a name is reused once its worker is gone
  Nominals,      \* values that the option num_processes takes over the run
  MaxGeneration  \* bound on the number of reloads

ASSUME WorkersAssumption == IsFiniteSet(Workers)
ASSUME NominalsAssumption == Nominals \subseteq Nat \ {0}
ASSUME MaxGenerationAssumption == MaxGeneration \in Nat \ {0}

VARIABLES
  st,             \* where each worker object is
  alive,          \* the workers whose process is running
  gen,            \* worker.generation
  late,           \* how often each worker was handed out after the reload that
                  \* made it old (auxiliary)
  num_processes,
  dead_workers,
  failures,
  generation,
  nominal,        \* the option num_processes
  rescaled,       \* has patch_config ever changed it (auxiliary)
  closed,
  task,           \* the await at which the holder of the write lock stands
  todo,           \* grow: the number of workers to launch
  seen,           \* maintain_pool: the counters read on entry
  result          \* what the last maintain_pool returned

workerVars == <<st, alive, gen, late>>
countVars == <<num_processes, dead_workers, failures>>
optionVars == <<generation, nominal, rescaled, closed>>
taskVars == <<task, todo, seen, result>>
vars == <<workerVars, countVars, optionVars, taskVars>>

(***************************************************************************)
(* "none": no such object; "new": launched by a grow still under way;      *)
(* "idle": in the queue; "held": in a ScopedWorker; "recycle", "cancel",   *)
(* "update": at the awaits of recycle_owned (forget_pid, cancel_timeout,   *)
(* resync).  A worker that is terminated or dropped is "none" at once: the *)
(* counters take it out before its process ends.                           *)
(***************************************************************************)
WorkerStates == {"none", "new", "idle", "held", "recycle", "cancel", "update"}
Tasks == {"free", "spawn", "sync", "terminate", "closing", "shutdown"}

In(s) == {w \in Workers : st[w] = s}

\* The workers that the pool has and has not yet written off.
Live == {w \in Workers : st[w] \notin {"none", "new"}}

\* st with the workers of S moved to s
Moved(S, s) == [w \in Workers |-> IF w \in S THEN s ELSE st[w]]

(***************************************************************************)
(* Pool::new, then the first maintain_pool of serve(): nothing else can    *)
(* reach the pool before it returns, and the server does not start if it   *)
(* fails.                                                                  *)
(***************************************************************************)
Init ==
  /\ nominal \in Nominals
  /\ \E S \in SUBSET Workers :
       /\ Cardinality(S) = nominal
       /\ st = [w \in Workers |-> IF w \in S THEN "idle" ELSE "none"]
       /\ alive = S
       /\ gen = [w \in Workers |-> IF w \in S THEN 1 ELSE 0]
  /\ late = [w \in Workers |-> 0]
  /\ num_processes = nominal /\ dead_workers = 0 /\ failures = 0
  /\ generation = 1
  /\ rescaled = FALSE /\ closed = FALSE
  /\ task = "free" /\ todo = 0
  /\ seen = [dead |-> 0, failures |-> 0]
  /\ result = "ok"

-----------------------------------------------------------------------------
(* maintain_pool *)

\* The answer of maintain_pool to the holder of the lock, which lets it go.
Return(r) == task' = "free" /\ result' = r /\ todo' = 0

\* cleanup_dead_workers: the queued workers whose process is found dead.
Reaped == In("idle") \ alive

DeadNow == dead_workers + Cardinality(Reaped)

\* num_processes - dead_workers, after the clean-up
Current == num_processes - DeadNow

\* Mutant of MaintainGrow: a closed pool grows.
MaintainGrowClosed(n) ==
  /\ n > Current
  /\ st' = Moved(Reaped, "none")
  /\ task' = "spawn" /\ todo' = n - Current /\ result' = "none"
  /\ UNCHANGED num_processes

\* maintain_pool called with the option num_processes at n, up to its first
\* await: clean-up, snapshot of the counters, then grow, shrink or nothing.
MaintainGrow(n) ==
  /\ n > Current
  /\ st' = Moved(Reaped, "none")
  /\ \/ closed /\ Return("err")
     \/ ~closed /\ task' = "spawn" /\ todo' = n - Current /\ result' = "none"
  /\ UNCHANGED num_processes

MaintainShrink(n) ==
  /\ n < Current
  /\ \/ /\ closed
        /\ st' = Moved(Reaped, "none")
        /\ Return("err")
        /\ UNCHANGED num_processes
     \/ /\ ~closed
        /\ \E removed \in SUBSET (In("idle") \ Reaped) :
             \* drain(Current - n): as many as asked for, or the whole queue
             /\ \/ Cardinality(removed) = Current - n
                \/ /\ removed = In("idle") \ Reaped
                   /\ Cardinality(removed) < Current - n
             /\ st' = Moved(Reaped \cup removed, "none")
             /\ num_processes' = num_processes - Cardinality(removed)
        /\ task' = "terminate" /\ result' = "none" /\ UNCHANGED todo

\* Mutant of MaintainNothing: the dead workers are not taken off.
MaintainNothingDead(n) ==
  /\ n = num_processes
  /\ st' = Moved(Reaped, "none")
  /\ Return("ok")
  /\ UNCHANGED num_processes

MaintainNothing(n) ==
  /\ n = Current
  /\ st' = Moved(Reaped, "none")
  /\ Return("ok")
  /\ UNCHANGED num_processes

MaintainStep(n) ==
  /\ task = "free"
  /\ MaintainGrow(n) \/ MaintainShrink(n) \/ MaintainNothing(n)
  /\ dead_workers' = DeadNow
  /\ seen' = [dead |-> DeadNow, failures |-> failures]
  /\ UNCHANGED <<alive, gen, late, failures, generation, closed>>

\* After a SIGCHLD, and at start.
Maintain == MaintainStep(nominal) /\ UNCHANGED <<nominal, rescaled>>

\* patch_config: the new option, then maintain_pool under the same lock.
PatchConfig(n) ==
  /\ MaintainStep(n)
  /\ nominal' = n
  /\ rescaled' = (rescaled \/ n # nominal)

\* grow, first await: every process was launched.  The generation is read
\* here, before the resync.
Spawned ==
  /\ task = "spawn"
  /\ \E S \in SUBSET In("none") :
       /\ Cardinality(S) = todo
       /\ st' = Moved(S, "new")
       /\ alive' = alive \cup S
       /\ gen' = [w \in Workers |-> IF w \in S THEN generation ELSE gen[w]]
       /\ late' = [w \in Workers |-> IF w \in S THEN 0 ELSE late[w]]
  /\ task' = "sync"
  /\ UNCHANGED <<countVars, optionVars, todo, seen, result>>

\* Mutants of ResetCounters: failures are kept; the wrong snapshot is taken;
\* the counters are set to zero, deaths counted since the snapshot included.
ResetDeadOnly ==
  /\ UNCHANGED failures
  /\ dead_workers' = dead_workers - seen.dead

ResetSwapped ==
  /\ failures' = failures - seen.dead
  /\ dead_workers' = dead_workers - seen.failures

ResetToZero == failures' = 0 /\ dead_workers' = 0

\* The counters after a maintenance that changed the pool.
ResetCounters ==
  /\ failures' = failures - seen.failures
  /\ dead_workers' = dead_workers - seen.dead

\* grow, second await: every new worker is in sync; send_all, counters.
GrowDone ==
  /\ task = "sync"
  /\ st' = Moved(In("new"), "idle")
  /\ num_processes' = nominal
  /\ ResetCounters
  /\ Return("ok")
  /\ UNCHANGED <<alive, gen, late, optionVars, seen>>

\* A launch or a resync fails: try_join_all drops all the new workers.
GrowFailed ==
  /\ task \in {"spawn", "sync"}
  /\ st' = Moved(In("new"), "none")
  /\ Return("err")
  /\ UNCHANGED <<alive, gen, late, countVars, optionVars, seen>>

\* shrink: the removed processes are terminated.
ShrinkDone ==
  /\ task = "terminate"
  /\ ResetCounters
  /\ Return("ok")
  /\ UNCHANGED <<workerVars, num_processes, optionVars, seen>>

\* The future that runs maintain_pool is dropped at an await (set_config, when
\* its client goes away): new or drained workers go with it, the counters are
\* not reset and nobody gets an answer.
MaintainDropped ==
  /\ task \in {"spawn", "sync", "terminate"}
  /\ st' = Moved(In("new"), "none")
  /\ Return("none")
  /\ UNCHANGED <<alive, gen, late, countVars, optionVars, seen>>

-----------------------------------------------------------------------------
(* Requests and recycling *)

\* late, when the workers of S are handed out
Late(S) ==
  [w \in Workers |-> IF w \in S /\ gen[w] < generation THEN late[w] + 1 ELSE late[w]]

\* Receiver::get, on an open queue; the worker may be dead without the pool
\* knowing it.
Get(w) ==
  /\ ~closed
  /\ st[w] = "idle"
  /\ st' = Moved({w}, "held")
  /\ late' = Late({w})
  /\ UNCHANGED <<alive, gen, countVars, optionVars, taskVars>>

\* The ScopedWorker is dropped: recycle_owned is spawned.
Release(w) ==
  /\ st[w] = "held"
  /\ st' = Moved({w}, "recycle")
  /\ UNCHANGED <<alive, gen, late, countVars, optionVars, taskVars>>

\* Mutant of WriteOff: a failure counts as one more dead worker.
WriteOffTwice(w, f) ==
  /\ st' = Moved({w}, "none")
  /\ dead_workers' = dead_workers + 1 + f
  /\ failures' = failures + f
  /\ UNCHANGED <<alive, gen, late, num_processes, optionVars, taskVars>>

\* WorkerQueue::terminate and terminate_failure: counted, then killed.
WriteOff(w, f) ==
  /\ st' = Moved({w}, "none")
  /\ dead_workers' = dead_workers + 1
  /\ failures' = failures + f
  /\ UNCHANGED <<alive, gen, late, num_processes, optionVars, taskVars>>

\* Mutant of Recycle: the generation is not looked at.
RecycleAny(w) ==
  /\ st[w] = "recycle"
  /\ st' = Moved({w}, "cancel")
  /\ UNCHANGED <<alive, gen, late, countVars, optionVars, taskVars>>

\* recycle_owned: a worker of an older generation must be replaced.
Recycle(w) ==
  /\ st[w] = "recycle"
  /\ \/ gen[w] < generation /\ WriteOff(w, 0)
     \/ /\ gen[w] >= generation
        /\ st' = Moved({w}, "cancel")
        /\ UNCHANGED <<alive, gen, late, countVars, optionVars, taskVars>>

\* cancel_timeout succeeds.  It looks at the rendez-vous state only, which
\* may still be READY when the process is already dead.
CancelOk(w) ==
  /\ st[w] = "cancel"
  /\ st' = Moved({w}, "update")
  /\ UNCHANGED <<alive, gen, late, countVars, optionVars, taskVars>>

\* The resync succeeds and the worker goes back to the queue.  A worker with
\* nothing to resync is not spoken to, dead or alive.
UpdateOk(w) ==
  /\ st[w] = "update"
  /\ st' = Moved({w}, "idle")
  /\ UNCHANGED <<alive, gen, late, countVars, optionVars, taskVars>>

\* Stalled, disconnected or answering with an error at one of the two.
RecycleFailed(w) == st[w] \in {"cancel", "update"} /\ WriteOff(w, 1)

\* Receiver::drain: every queued worker goes through a ScopedWorker that is
\* dropped at once (update_cache, update_config) or kept (dump_cache).
Drain(s) ==
  /\ In("idle") # {}
  /\ st' = Moved(In("idle"), s)
  /\ late' = IF s = "held" THEN Late(In("idle")) ELSE late
  /\ UNCHANGED <<alive, gen, countVars, optionVars, taskVars>>

Reload ==
  /\ generation < MaxGeneration
  /\ generation' = generation + 1
  /\ st' = Moved(In("idle"), "recycle")
  /\ UNCHANGED <<alive, gen, late, countVars, nominal, rescaled, closed, taskVars>>

\* A worker process dies: killed, crashed, out of memory.
Die(w) ==
  /\ st[w] # "none" /\ w \in alive
  /\ alive' = alive \ {w}
  /\ UNCHANGED <<st, gen, late, countVars, optionVars, taskVars>>

-----------------------------------------------------------------------------
(* close *)

\* Mutant of Busy: a worker being recycled is not busy.
BusyHeld == Cardinality(In("held"))

\* Number of busy workers, as stats_raw computes it.
Busy == num_processes - Cardinality(In("idle")) - dead_workers

\* The queue is closed; then stats_raw is polled every second.
CloseBegin ==
  /\ task = "free" /\ ~closed
  /\ closed' = TRUE
  /\ task' = "closing"
  /\ UNCHANGED <<workerVars, countVars, generation, nominal, rescaled, todo, seen, result>>

\* drain(num_processes): takes the idle workers out to terminate them.
CloseDrain ==
  /\ \E removed \in SUBSET In("idle") :
       /\ \/ Cardinality(removed) = num_processes
          \/ removed = In("idle") /\ Cardinality(removed) < num_processes
       /\ st' = Moved(removed, "none")
       /\ num_processes' = num_processes - Cardinality(removed)
  /\ task' = "shutdown"
  /\ UNCHANGED <<alive, gen, late, dead_workers, failures, optionVars, todo, seen, result>>

\* No worker is active any more.
CloseIdle == task = "closing" /\ Busy = 0 /\ CloseDrain

\* The grace period is over.
CloseTimeout == task = "closing" /\ Busy # 0 /\ CloseDrain

CloseDone ==
  /\ task = "shutdown"
  /\ task' = "free"
  /\ UNCHANGED <<workerVars, countVars, optionVars, todo, seen, result>>

-----------------------------------------------------------------------------
MaintainSteps == Spawned \/ GrowDone \/ GrowFailed \/ ShrinkDone \/ MaintainDropped

WorkerSteps(w) ==
  \/ Get(w) \/ Release(w)
  \/ Recycle(w) \/ CancelOk(w) \/ UpdateOk(w) \/ RecycleFailed(w)
  \/ Die(w)

CloseSteps == CloseBegin \/ CloseIdle \/ CloseTimeout \/ CloseDone

Next ==
  \/ Maintain
  \/ \E n \in Nominals : PatchConfig(n)
  \/ MaintainSteps
  \/ \E w \in Workers : WorkerSteps(w)
  \/ Drain("recycle") \/ Drain("held") \/ Reload
  \/ CloseSteps

Spec == Init /\ [][Next]_vars

-----------------------------------------------------------------------------
(* Properties *)

\* The values of the pool; its counters never go below zero.
TypeOK ==
  /\ st \in [Workers -> WorkerStates]
  /\ alive \in SUBSET Workers
  /\ gen \in [Workers -> Nat] /\ late \in [Workers -> Nat]
  /\ num_processes \in Nat /\ dead_workers \in Nat /\ failures \in Nat
  /\ generation \in Nat
  /\ nominal \in Nominals
  /\ rescaled \in BOOLEAN /\ closed \in BOOLEAN
  /\ task \in Tasks
  /\ todo \in Nat
  /\ seen \in [dead : Nat, failures : Nat]
  /\ result \in {"none", "ok", "err"}

\* The subtractions on usize in stats_raw and maintain_pool never wrap: at any
\* time, whoever runs between the awaits of the lock holder, num_processes
\* covers the dead workers and every worker still in use or in the queue.
NeverUnderflows == num_processes >= dead_workers + Cardinality(Live)

\* Each failure is the failure of a worker that is also counted dead, so the
\* fetch_sub of the two counters never wrap and failure_pressure() never
\* exceeds one.
FailuresAreDeaths == failures <= dead_workers

\* Until num_processes is changed the books are exact: what is neither dead nor
\* in the queue is really busy, through crashes, reloads and failed launches.
FixedSizeExact == ~rescaled => num_processes = dead_workers + Cardinality(Live)

\* Until num_processes is changed, maintain_pool does nothing only if the number
\* of live workers is the one asked for; the first change included.
FixedAtNominal ==
  [][~rescaled /\ task = "free" /\ MaintainNothing(nominal') => Cardinality(Live') = nominal']_vars

\* When close() finds no active worker within the grace period, it leaves no
\* worker behind.
CloseLeavesNobody == [][CloseIdle => Live' = {}]_vars

\* Once the pool is closed it never launches workers.
ClosedNeverGrows == closed => In("new") = {}

\* A reload cannot stop a worker on its way to the queue, whose generation was
\* stamped (grow) or compared (recycle_owned) before an await: it is queued, old.
\* But it is handed out at most once after the reload that made it old, however
\* many reloads, drains and maintenances follow.
StaleServesOnce == \A w \in Workers : late[w] <= 1

-----------------------------------------------------------------------------
(* What the documentation says *)

\* pool.rs, maintain_pool: "Maintain the pool at nominal number of live
\* workers".  It leaves the pool as it is only if that is the case.
MaintainedAtNominal ==
  [][task = "free" /\ MaintainNothing(nominal') => Cardinality(Live') = nominal']_vars

\* receiver.rs, reload: the drained workers "Will be terminated on drop"; no
\* worker of the former generation is left in the queue.
ReloadReplacesIdle == \A w \in In("idle") : gen[w] = generation
=============================================================================
