------------------------------ MODULE RpcServer ------------------------------
(***************************************************************************)
(* The life of the RPC server process: the signal thread and the rescaling *)
(* tasks it spawns (qjazz-rpc/src/signals.rs), the main task from the last *)
(* line before serving to its exit (server.rs), and set_config             *)
(* (service/admin.rs), which contend for the write lock of the pool.       *)
(*                                                                         *)
(* The runtime has one thread (main.rs:73), so tasks interleave at their   *)
(* awaits only; the signal loop has a thread of its own.  The lock is a    *)
(* tokio RwLock, which serves its waiters in order: an uncontended lock is *)
(* taken without yielding, so `pool.read()` and the `pool.write()` after   *)
(* it are one step when nobody waits, and two when somebody does.          *)
(*                                                                         *)
(* The pool is reduced to what decides the answer of maintain_pool: which  *)
(* workers are where, and its counters.  The option num_processes stays at *)
(* the number of workers (Pool varies it).                                 *)
(***************************************************************************)
EXTENDS Naturals, FiniteSets, Sequences, SequencesExt

CONSTANTS
  Workers,     \* worker names; as many as the option num_processes
  Tasks,       \* names for the rescaling tasks alive at the same time
  Main,        \* the task that runs serve()
  Conf,        \* the task of a set_config request
  None,        \* nobody holds the write lock
  Admins,      \* {Conf}, or {} when no set_config is sent
  MayFail,     \* whether launching workers may fail
  MayHang,     \* whether a worker may stop answering for ever
  MaxDeaths,   \* bound on the deaths of worker processes
  PressureNum, PressureDen  \* max_failure_pressure, as a fraction

ASSUME WorkersAssumption == IsFiniteSet(Workers) /\ Workers # {}
ASSUME TasksAssumption ==
  /\ Cardinality({Main, Conf, None}) = 3
  /\ {Main, Conf, None} \cap Tasks = {}
  /\ Admins \subseteq {Conf}
ASSUME FaultsAssumption == MayFail \in BOOLEAN /\ MayHang \in BOOLEAN
ASSUME BoundsAssumption ==
  MaxDeaths \in Nat /\ PressureNum \in Nat /\ PressureDen \in Nat \ {0}

VARIABLES
  st,             \* worker |-> "none", "idle", "held" or "recycle"
  alive,          \* the workers whose process runs
  deaths,         \* how many processes have died (counted for the bound)
  num_processes, dead_workers, failures,
  seen,           \* maintain_pool: the counters read on entry
  closed,         \* the queue is closed
  error,          \* Pool::set_error has been called
  owner,          \* the holder of the write lock
  waiting,        \* the tasks queued for the lock
  pc,             \* the await at which a task stands
  rescaling,      \* the barrier of signals.rs
  sigchld,        \* SIGCHLD is pending
  listening,      \* the signal loop runs
  token,          \* the cancellation token is cancelled
  exit,           \* the result of serve()
  fell,           \* the workers that died in the queue and still are there (auxiliary)
  asked           \* SIGTERM or SIGINT has been received (auxiliary)

workerVars == <<st, alive, deaths, fell>>
countVars == <<num_processes, dead_workers, failures, seen>>
poolVars == <<closed, error>>
lockVars == <<owner, waiting, pc>>
signalVars == <<rescaling, sigchld, listening, token, asked>>
vars == <<workerVars, countVars, poolVars, lockVars, signalVars, exit>>

Nominal == Cardinality(Workers)

Everyone == Tasks \cup Admins \cup {Main}

In(s) == {w \in Workers : st[w] = s}

Moved(S, s) == [w \in Workers |-> IF w \in S THEN s ELSE st[w]]

\* serve() after the first maintain_pool, with the signal thread started
Init ==
  /\ st = [w \in Workers |-> "idle"] /\ alive = Workers /\ deaths = 0 /\ fell = {}
  /\ num_processes = Nominal /\ dead_workers = 0 /\ failures = 0
  /\ seen = [dead |-> 0, failures |-> 0]
  /\ closed = FALSE /\ error = FALSE
  /\ owner = None /\ waiting = <<>>
  /\ pc = [t \in Everyone |-> IF t = Main THEN "serving" ELSE "off"]
  /\ rescaling = FALSE /\ sigchld = FALSE /\ listening = TRUE /\ token = FALSE
  /\ asked = FALSE
  /\ exit = "none"

\* When serve() returns the runtime is dropped, and every task with it.
Running == exit = "none"

-----------------------------------------------------------------------------
(* The write lock *)

Uncontended == owner = None /\ waiting = <<>>

\* The lock is free and t is the next to be served.
Granted(t) == Running /\ owner = None /\ waiting # <<>> /\ Head(waiting) = t

\* t queues behind the tasks of q and stands at p.
Queue(t, q, p) ==
  /\ owner' = None /\ waiting' = Append(q, t)
  /\ pc' = [pc EXCEPT ![t] = p]

\* t is over and holds no lock; the tasks of q still wait.
Over(t, q) ==
  /\ owner' = None /\ waiting' = q
  /\ pc' = [pc EXCEPT ![t] = "off"]

-----------------------------------------------------------------------------
(* maintain_pool, called by t with the write lock; the tasks of q wait *)

DeadIdle == In("idle") \ alive

DeadNow == dead_workers + Cardinality(DeadIdle)

(***************************************************************************)
(* The result is Err.  set_config drops the guard at the end of its        *)
(* statement and answers the client.  In a rescaling task the guard is a   *)
(* temporary of the `if let`, dropped after its body: the `pool.write()`   *)
(* in the body queues while the task itself holds the lock.                *)
(***************************************************************************)
MaintainErr(t, q) ==
  \/ t \in Admins /\ Over(t, q)
  \/ /\ t \in Tasks
     /\ owner' = t /\ waiting' = Append(q, t)
     /\ pc' = [pc EXCEPT ![t] = "failed"]

Maintain(t, q) ==
  /\ st' = Moved(DeadIdle, "none") /\ fell' = fell \ DeadIdle
  /\ dead_workers' = DeadNow
  /\ seen' = [dead |-> DeadNow, failures |-> failures]
  /\ LET current == num_processes - DeadNow IN
       \/ Nominal = current /\ Over(t, q)
       \/ Nominal > current /\ closed /\ MaintainErr(t, q)
       \/ /\ Nominal > current /\ ~closed
          /\ owner' = t /\ waiting' = q
          /\ pc' = [pc EXCEPT ![t] = "launch"]
  /\ UNCHANGED <<alive, deaths, num_processes, failures, poolVars, token>>

\* grow, first await: the workers are launched.  Each has start_timeout for it.
Launched(t) ==
  /\ Running /\ pc[t] = "launch"
  /\ pc' = [pc EXCEPT ![t] = "resync"]
  /\ UNCHANGED <<workerVars, countVars, poolVars, owner, waiting, signalVars, exit>>

\* Mutant of GrowDone: each counter is reset by the snapshot of the other.
GrowDoneSwapped(t) ==
  /\ Running /\ pc[t] = "resync"
  /\ \E S \in SUBSET In("none") :
       /\ Cardinality(S) = Nominal + seen.dead - num_processes
       /\ st' = Moved(S, "idle") /\ alive' = alive \cup S
  /\ num_processes' = Nominal
  /\ dead_workers' = dead_workers - seen.failures
  /\ failures' = failures - seen.dead
  /\ Over(t, waiting)
  /\ UNCHANGED <<deaths, fell, seen, poolVars, signalVars, exit>>

\* grow returns Ok: the workers are resynchronised, which has no timeout, they
\* join the queue and the counters are reset.
GrowDone(t) ==
  /\ Running /\ pc[t] = "resync"
  /\ \E S \in SUBSET In("none") :
       /\ Cardinality(S) = Nominal + seen.dead - num_processes
       /\ st' = Moved(S, "idle") /\ alive' = alive \cup S
  /\ num_processes' = Nominal
  /\ dead_workers' = dead_workers - seen.dead
  /\ failures' = failures - seen.failures
  /\ Over(t, waiting)
  /\ UNCHANGED <<deaths, fell, seen, poolVars, signalVars, exit>>

\* A launch or a resync fails: the workers launched with it are dropped, and
\* killed.
GrowFailed(t) ==
  /\ Running /\ MayFail /\ pc[t] \in {"launch", "resync"}
  /\ sigchld' \in {sigchld, listening}
  /\ MaintainErr(t, waiting)
  /\ UNCHANGED <<workerVars, countVars, poolVars, rescaling, listening, token, asked, exit>>

-----------------------------------------------------------------------------
(* The signal loop and the rescaling tasks *)

\* Mutant of OnSigchld: the barrier is not checked.
OnSigchldUnthrottled ==
  /\ Running /\ listening /\ sigchld
  /\ sigchld' = FALSE /\ rescaling' = TRUE
  /\ \E t \in Tasks : pc[t] = "off" /\ pc' = [pc EXCEPT ![t] = "sleep"]
  /\ UNCHANGED <<workerVars, countVars, poolVars, owner, waiting, listening, token, asked, exit>>

\* SIGCHLD: a rescaling task is spawned unless one is still in its sleep.
OnSigchld ==
  /\ Running /\ listening /\ sigchld
  /\ sigchld' = FALSE
  /\ \/ rescaling /\ UNCHANGED <<rescaling, pc>>
     \/ /\ ~rescaling /\ rescaling' = TRUE
        /\ \E t \in Tasks : pc[t] = "off" /\ pc' = [pc EXCEPT ![t] = "sleep"]
  /\ UNCHANGED <<workerVars, countVars, poolVars, owner, waiting, listening, token, asked, exit>>

\* Mutant of OnSigterm: the loop ends without cancelling the token.
OnSigtermSilent ==
  /\ Running /\ listening
  /\ listening' = FALSE /\ sigchld' = FALSE /\ asked' = TRUE
  /\ UNCHANGED <<workerVars, countVars, poolVars, lockVars, rescaling, token, exit>>

\* SIGTERM or SIGINT: the loop ends and cancels the token.
OnSigterm ==
  /\ Running /\ listening
  /\ listening' = FALSE /\ sigchld' = FALSE /\ token' = TRUE /\ asked' = TRUE
  /\ UNCHANGED <<workerVars, countVars, poolVars, lockVars, rescaling, exit>>

\* failure_pressure() > max_failure_pressure.  As with floats, 0/0 is not
\* above the limit and n/0 is.
Overpressure == failures * PressureDen > PressureNum * num_processes


\* The body of both failure branches, with the write lock granted.
SetError(t, q) ==
  /\ error' = TRUE /\ token' = TRUE
  /\ Over(t, q)
  /\ UNCHANGED <<workerVars, countVars, closed>>

\* failure_pressure has been read under the read lock; then the write lock is
\* taken, at once when no task of q waits for it.
CheckPressure(t, q) ==
  \/ Overpressure /\ q = <<>> /\ SetError(t, q)
  \/ ~Overpressure /\ q = <<>> /\ Maintain(t, q)
  \/ /\ q # <<>>
     /\ Queue(t, q, IF Overpressure THEN "pressure" ELSE "write")
     /\ UNCHANGED <<workerVars, countVars, poolVars, token>>

\* Mutant of Awake: the barrier is not released.
AwakeBarred(t) ==
  /\ Running /\ pc[t] = "sleep"
  /\ \/ Uncontended /\ CheckPressure(t, <<>>)
     \/ /\ ~Uncontended
        /\ waiting' = Append(waiting, t) /\ pc' = [pc EXCEPT ![t] = "read"]
        /\ UNCHANGED <<workerVars, countVars, poolVars, owner, token>>
  /\ UNCHANGED <<rescaling, sigchld, listening, asked, exit>>

\* The two seconds are over: the barrier is released before the pool is read.
Awake(t) ==
  /\ Running /\ pc[t] = "sleep"
  /\ rescaling' = FALSE
  /\ \/ Uncontended /\ CheckPressure(t, <<>>)
     \/ /\ ~Uncontended
        /\ waiting' = Append(waiting, t) /\ pc' = [pc EXCEPT ![t] = "read"]
        /\ UNCHANGED <<workerVars, countVars, poolVars, owner, token>>
  /\ UNCHANGED <<sigchld, listening, asked, exit>>

ReadGranted(t) ==
  /\ Granted(t) /\ pc[t] = "read"
  /\ CheckPressure(t, Tail(waiting))
  /\ UNCHANGED <<rescaling, sigchld, listening, asked, exit>>

WriteGranted(t) ==
  /\ Granted(t)
  /\ \/ pc[t] = "pressure" /\ SetError(t, Tail(waiting))
     \/ pc[t] = "write" /\ Maintain(t, Tail(waiting))
  /\ UNCHANGED <<rescaling, sigchld, listening, asked, exit>>

-----------------------------------------------------------------------------
(* set_config *)

ConfigBegin(t) ==
  /\ Running /\ pc[t] = "off"
  /\ \/ Uncontended /\ Maintain(t, <<>>)
     \/ /\ ~Uncontended
        /\ waiting' = Append(waiting, t) /\ pc' = [pc EXCEPT ![t] = "write"]
        /\ UNCHANGED <<workerVars, countVars, poolVars, owner, token>>
  /\ UNCHANGED <<rescaling, sigchld, listening, asked, exit>>

\* The client leaves, or its deadline passes: the future is dropped where it
\* stands, with its place in the queue or its guard.
ConfigDropped(t) ==
  /\ Running /\ pc[t] # "off"
  /\ \/ /\ pc[t] = "write"
        /\ waiting' = SelectSeq(waiting, LAMBDA x : x # t)
        /\ UNCHANGED <<owner, sigchld>>
     \/ /\ pc[t] \in {"launch", "resync"}
        /\ owner' = None /\ sigchld' = listening
        /\ UNCHANGED waiting
  /\ pc' = [pc EXCEPT ![t] = "off"]
  /\ UNCHANGED <<workerVars, countVars, poolVars, rescaling, listening, token, asked, exit>>

-----------------------------------------------------------------------------
(* serve(), from token.cancelled() *)

\* Pool::close up to its first await
CloseBegin(q) ==
  /\ owner' = Main /\ waiting' = q
  /\ closed' = TRUE
  /\ pc' = [pc EXCEPT ![Main] = "closing"]
  /\ UNCHANGED error

Shutdown ==
  /\ Running /\ pc[Main] = "serving" /\ token
  /\ listening' = FALSE /\ sigchld' = FALSE
  /\ \/ Uncontended /\ CloseBegin(<<>>)
     \/ /\ ~Uncontended
        /\ waiting' = Append(waiting, Main)
        /\ pc' = [pc EXCEPT ![Main] = "close"]
        /\ UNCHANGED <<owner, poolVars>>
  /\ UNCHANGED <<workerVars, countVars, rescaling, token, asked, exit>>

CloseGranted ==
  /\ Granted(Main) /\ pc[Main] = "close"
  /\ CloseBegin(Tail(waiting))
  /\ UNCHANGED <<workerVars, countVars, signalVars, exit>>

\* has_error, under the write lock
Exit(q) ==
  /\ exit' = IF error THEN "error" ELSE "ok"
  /\ owner' = None /\ waiting' = q
  /\ pc' = [pc EXCEPT ![Main] = "stopped"]

\* No worker is active any more or the grace period is over: the idle workers
\* are drained and terminated, and the lock is dropped; has_error then asks
\* for it again.
CloseEnd ==
  /\ Running /\ pc[Main] = "closing"
  /\ st' = Moved(In("idle"), "none") /\ alive' = alive \ In("idle")
  /\ fell' = fell \ In("idle")
  /\ num_processes' = num_processes - Cardinality(In("idle"))
  /\ \/ waiting = <<>> /\ Exit(<<>>)
     \/ waiting # <<>> /\ Queue(Main, waiting, "exit") /\ UNCHANGED exit
  /\ UNCHANGED <<deaths, dead_workers, failures, seen, poolVars, signalVars>>

ExitGranted ==
  /\ Granted(Main) /\ pc[Main] = "exit"
  /\ Exit(Tail(waiting))
  /\ UNCHANGED <<workerVars, countVars, poolVars, signalVars>>

-----------------------------------------------------------------------------
(* Requests, recycling and worker processes *)

Get(w) ==
  /\ Running /\ ~closed /\ st[w] = "idle"
  /\ st' = [st EXCEPT ![w] = "held"] /\ fell' = fell \ {w}
  /\ UNCHANGED <<alive, deaths, countVars, poolVars, lockVars, signalVars, exit>>

Release(w) ==
  /\ Running /\ st[w] = "held"
  /\ st' = [st EXCEPT ![w] = "recycle"]
  /\ UNCHANGED <<alive, deaths, fell, countVars, poolVars, lockVars, signalVars, exit>>

\* recycle_owned: the worker is sent back, or it is counted out.  A worker that
\* was READY before it died and has nothing to resync is sent back dead.  When
\* it is counted out, a process still running is killed; a dead one sends no
\* second signal.
Recycle(w) ==
  /\ Running /\ st[w] = "recycle"
  /\ \/ /\ st' = [st EXCEPT ![w] = "idle"]
        /\ UNCHANGED <<alive, deaths, dead_workers, failures, sigchld>>
     \/ /\ w \notin alive \/ deaths < MaxDeaths
        /\ st' = [st EXCEPT ![w] = "none"]
        /\ alive' = alive \ {w}
        /\ deaths' = IF w \in alive THEN deaths + 1 ELSE deaths
        /\ sigchld' = (sigchld \/ (w \in alive /\ listening))
        /\ dead_workers' = dead_workers + 1 /\ failures' = failures + 1
  /\ UNCHANGED <<fell, num_processes, seen, poolVars, lockVars, rescaling, listening,
                 token, asked, exit>>

\* A crash, or the out-of-memory killer
Die(w) ==
  /\ Running /\ w \in alive /\ deaths < MaxDeaths
  /\ alive' = alive \ {w} /\ deaths' = deaths + 1
  /\ fell' = fell \cup ({w} \cap In("idle"))
  /\ sigchld' = listening
  /\ UNCHANGED <<st, countVars, poolVars, lockVars, rescaling, listening, token, asked, exit>>

-----------------------------------------------------------------------------

MainSteps == Shutdown \/ CloseGranted \/ CloseEnd \/ ExitGranted

Next ==
  \/ OnSigchld \/ OnSigterm \/ MainSteps
  \/ \E t \in Tasks : Awake(t) \/ ReadGranted(t)
  \/ \E t \in Tasks \cup Admins :
       WriteGranted(t) \/ Launched(t) \/ GrowDone(t) \/ GrowFailed(t)
  \/ \E t \in Admins : ConfigBegin(t) \/ ConfigDropped(t)
  \/ \E w \in Workers : Get(w) \/ Release(w) \/ Recycle(w) \/ Die(w)

(***************************************************************************)
(* Fairness: the runtime polls every task that is ready, timers fire, the  *)
(* signal thread is scheduled and a launch ends (start_timeout).  Nothing  *)
(* is assumed of clients and signals, or of processes dying.  Nor is it of *)
(* what waits for the answer of a worker without a timeout, the resync of  *)
(* grow and the recycling, or of requests: those end only if no worker     *)
(* hangs.                                                                  *)
(***************************************************************************)
Answered == IF MayHang THEN {} ELSE Tasks \cup Admins
Answering == IF MayHang THEN {} ELSE Workers

Fairness ==
  /\ WF_vars(OnSigchld) /\ WF_vars(MainSteps)
  /\ \A t \in Tasks : WF_vars(Awake(t)) /\ WF_vars(ReadGranted(t))
  /\ \A t \in Tasks \cup Admins :
       WF_vars(WriteGranted(t)) /\ WF_vars(pc[t] = "launch" /\ (Launched(t) \/ GrowFailed(t)))
  /\ \A t \in Answered : WF_vars(GrowDone(t) \/ GrowFailed(t))
  /\ \A w \in Answering : WF_vars(Release(w)) /\ WF_vars(Recycle(w))

Spec == Init /\ [][Next]_vars /\ Fairness

-----------------------------------------------------------------------------
(* Properties *)

TaskStates ==
  {"off", "sleep", "read", "pressure", "write", "launch", "resync", "failed"}

\* The state of the process: counters stay natural numbers and no larger than
\* the deaths they count, and a task waits for the lock at most once.
TypeOK ==
  /\ st \in [Workers -> {"none", "idle", "held", "recycle"}]
  /\ alive \subseteq Workers /\ deaths \in 0..MaxDeaths
  /\ fell \subseteq DeadIdle /\ asked \in BOOLEAN
  /\ num_processes \in 0..Nominal
  /\ dead_workers \in 0..deaths /\ failures \in 0..deaths
  /\ closed \in BOOLEAN /\ error \in BOOLEAN
  /\ owner \in Everyone \cup {None}
  /\ waiting \in Seq(Everyone) /\ IsInjective(waiting)
  /\ \A t \in Tasks \cup Admins : pc[t] \in TaskStates
  /\ pc[Main] \in {"serving", "close", "closing", "exit", "stopped"}
  /\ <<rescaling, sigchld, listening, token>> \in BOOLEAN \X BOOLEAN \X BOOLEAN \X BOOLEAN
  /\ exit \in {"none", "ok", "error"}

\* The barrier of signals.rs is up exactly while one task sleeps: deaths that
\* fall in those two seconds share a rescaling, and no other does.
BarrierIsSleep ==
  /\ rescaling <=> \E t \in Tasks : pc[t] = "sleep"
  /\ \A t, u \in Tasks : pc[t] = "sleep" /\ pc[u] = "sleep" => t = u

\* While the server serves, a worker that died in the queue is still to be
\* seen by some rescaling: its signal is pending, or a task has yet to call
\* maintain_pool (or has failed).  No death falls between two rescalings.
DeathsAreNoticed ==
  fell # {} /\ listening =>
    \/ sigchld
    \/ \E t \in Tasks : pc[t] \in {"sleep", "read", "pressure", "write", "failed"}
    \/ token


\* A task that keeps the write lock for ever: its rescaling failed and it waits
\* for the lock that it holds, or one of the workers it launched does not answer.
Stuck == \E t \in Tasks \cup Admins : owner = t /\ pc[t] \in {"resync", "failed"}

\* Once the server is asked to stop it does, whoever holds or waits for the lock,
\* dies or is recycled meanwhile, unless a task keeps the lock for ever.
ShutdownCompletes == (~listening \/ token) ~> (~Running \/ []Stuck)

\* "Handle graceful shutdown" (server.rs): once asked to stop, the server
\* stops.
ShutsDown == (~listening \/ token) ~> ~Running

\* "Pool scaling failed: ..., terminating server" (signals.rs): after a failed
\* rescaling the server stops.
ScalingFailureStops == (\E t \in Tasks : pc[t] = "failed") ~> ~Running

\* "When a worker die, the service will try to maintain the initial number of
\* workers" (install.rst): once no more process dies, either the server is
\* stopping or in the end no worker is missing.
DeadAreReplaced ==
  <>[](token \/ (\A w \in Workers : st[w] # "none" /\ w \in alive))

=============================================================================
