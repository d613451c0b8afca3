----------------------------- MODULE PoolProofs -----------------------------
(***************************************************************************)
(* The books of the pool balance, for any set of workers, any values of    *)
(* num_processes and any number of reloads.                                *)
(*                                                                         *)
(* NeverUnderflows is not inductive: what a maintenance subtracts at its   *)
(* end are counters read at its beginning, with awaits in between.  IInv   *)
(* adds what is known of these snapshots while the maintenance is under    *)
(* way (Snapshot), of the workers being launched (Launching) and of a pool *)
(* whose size was not changed (Fixed).                                     *)
(***************************************************************************)
EXTENDS Pool, FiniteSetTheorems, TLAPS

Maintaining == task \in {"spawn", "sync", "terminate"}

\* The counters have only grown since they were read, deaths at least as much
\* as failures.
Snapshot ==
  Maintaining => /\ seen.dead <= dead_workers
                 /\ seen.failures <= failures
                 /\ failures + seen.dead <= dead_workers + seen.failures

Launching ==
  /\ task \in {"spawn", "sync"} => num_processes + todo = nominal + seen.dead
  /\ task = "sync" => Cardinality(In("new")) = todo
  /\ task # "sync" => In("new") = {}
  /\ closed => ~Maintaining

Fixed ==
  ~rescaled => /\ num_processes = dead_workers + Cardinality(Live)
               /\ num_processes <= nominal
               /\ task # "terminate"

IInv ==
  /\ TypeOK
  /\ NeverUnderflows
  /\ FailuresAreDeaths
  /\ Snapshot
  /\ Launching
  /\ Fixed

-----------------------------------------------------------------------------
(* Counting workers *)

\* Any set of workers has a cardinality.
LEMMA CountType ==
  ASSUME NEW S \in SUBSET Workers
  PROVE  IsFiniteSet(S) /\ Cardinality(S) \in Nat
BY WorkersAssumption, FS_Subset, FS_CardinalityType

\* Taking workers out of a set.
LEMMA CountMinus ==
  ASSUME NEW S \in SUBSET Workers, NEW T \in SUBSET S
  PROVE  /\ Cardinality(S \ T) = Cardinality(S) - Cardinality(T)
         /\ Cardinality(T) <= Cardinality(S)
<1>1. IsFiniteSet(S) /\ IsFiniteSet(T)
  BY CountType
<1>2. S \cap T = T
  OBVIOUS
<1>3. Cardinality(S \ T) = Cardinality(S) - Cardinality(S \cap T)
  BY <1>1, FS_Difference
<1>4. Cardinality(T) <= Cardinality(S)
  BY <1>1, FS_Subset
<1> QED
  BY <1>2, <1>3, <1>4

\* Adding workers to a set.
LEMMA CountPlus ==
  ASSUME NEW S \in SUBSET Workers, NEW T \in SUBSET Workers, S \cap T = {}
  PROVE  Cardinality(S \cup T) = Cardinality(S) + Cardinality(T)
<1>1. IsFiniteSet(S) /\ IsFiniteSet(T) /\ Cardinality(S) \in Nat /\ Cardinality(T) \in Nat
  BY CountType
<1>2. Cardinality(S \cap T) = 0
  BY FS_EmptySet
<1>3. Cardinality(S \cup T) = Cardinality(S) + Cardinality(T) - Cardinality(S \cap T)
  BY <1>1, FS_Union
<1> QED
  BY <1>1, <1>2, <1>3

\* One worker of a set is written off.
LEMMA CountOne ==
  ASSUME NEW S \in SUBSET Workers, NEW w \in S
  PROVE  Cardinality(S \ {w}) = Cardinality(S) - 1
BY CountType, FS_RemoveElement

\* The sets the books speak of.
LEMMA CountLive ==
  ASSUME TypeOK
  PROVE  /\ Live \in SUBSET Workers /\ Cardinality(Live) \in Nat
         /\ In("idle") \in SUBSET Live /\ Cardinality(In("idle")) \in Nat
         /\ Reaped \in SUBSET In("idle") /\ Cardinality(Reaped) \in Nat
         /\ Cardinality(Reaped) <= Cardinality(Live)
         /\ In("new") \in SUBSET Workers /\ Cardinality(In("new")) \in Nat
<1>1. /\ Live \in SUBSET Workers
      /\ In("idle") \in SUBSET Live
      /\ Reaped \in SUBSET In("idle")
      /\ In("new") \in SUBSET Workers
  BY DEF Live, In, Reaped
<1> QED
  BY <1>1, CountType, CountMinus, Zenon

\* Handing workers out counts up.
LEMMA LateType ==
  ASSUME TypeOK, NEW S
  PROVE  Late(S) \in [Workers -> Nat] /\ late \in [Workers -> Nat]
BY DEF Late, TypeOK

-----------------------------------------------------------------------------
(* The invariant *)

\* The started pool satisfies the invariant.
LEMMA InitIInv == Init => IInv
<1> SUFFICES ASSUME Init PROVE IInv
  OBVIOUS
<1>1. PICK S \in SUBSET Workers :
        /\ Cardinality(S) = nominal
        /\ st = [w \in Workers |-> IF w \in S THEN "idle" ELSE "none"]
        /\ alive = S
        /\ gen = [w \in Workers |-> IF w \in S THEN 1 ELSE 0]
  BY DEF Init
<1>2. Live = S /\ In("new") = {}
  BY <1>1 DEF Live, In
<1>3. nominal \in Nat
  BY NominalsAssumption DEF Init
<1>4. TypeOK
  <2>1. alive \in SUBSET Workers
    BY <1>1
  <2>2. /\ st \in [Workers -> WorkerStates]
        /\ gen \in [Workers -> Nat] /\ late \in [Workers -> Nat]
    BY <1>1 DEF Init, WorkerStates
  <2> QED
    BY <1>3, <2>1, <2>2, Zenon DEF Init, TypeOK, Tasks
<1> QED
  BY <1>1, <1>2, <1>3, <1>4
  DEF Init, IInv, NeverUnderflows, FailuresAreDeaths, Snapshot, Maintaining,
      Launching, Fixed

\* maintain_pool, from its call to its first await.
LEMMA MaintainIInv ==
  ASSUME IInv, NEW n \in Nominals, MaintainStep(n), nominal' = n,
         rescaled' = (rescaled \/ n # nominal)
  PROVE  IInv'
<1> USE DEF MaintainStep
<1>1. /\ n \in Nat /\ rescaled' \in BOOLEAN /\ rescaled \in BOOLEAN
      /\ ~rescaled' => ~rescaled /\ n = nominal
  BY NominalsAssumption DEF IInv, TypeOK
<1>2. /\ num_processes \in Nat /\ DeadNow \in Nat /\ failures \in Nat
      /\ dead_workers \in Nat /\ Cardinality(Live) \in Nat
      /\ Cardinality(Reaped) \in Nat
      /\ DeadNow = dead_workers + Cardinality(Reaped)
      /\ Cardinality(Reaped) <= Cardinality(Live)
      /\ num_processes >= dead_workers + Cardinality(Live)
      /\ failures <= dead_workers
      /\ Current = num_processes - DeadNow /\ Current \in Nat
  BY CountLive DEF IInv, TypeOK, DeadNow, Current, NeverUnderflows, FailuresAreDeaths
<1>3. /\ In("new") = {}
      /\ Cardinality(Live \ Reaped) = Cardinality(Live) - Cardinality(Reaped)
  BY CountLive, CountMinus DEF IInv, Launching
<1>4. st' = Moved(Reaped, "none") => Live' = Live \ Reaped /\ In("new")' = {}
  BY <1>3, CountLive DEF Moved, Live, In, IInv, TypeOK
<1>5. CASE MaintainGrow(n)
  <2>1. TypeOK'
    BY <1>1, <1>2, <1>5 DEF MaintainGrow, Moved, Return, IInv, TypeOK, WorkerStates, Tasks
  <2>2. Live' = Live \ Reaped /\ In("new")' = {}
    BY <1>4, <1>5 DEF MaintainGrow
  <2> QED
    BY <1>1, <1>2, <1>3, <1>5, <2>1, <2>2
    DEF MaintainGrow, Return, IInv, NeverUnderflows, FailuresAreDeaths, Snapshot,
        Maintaining, Launching, Fixed
<1>6. CASE MaintainNothing(n)
  <2>1. TypeOK'
    BY <1>1, <1>2, <1>6 DEF MaintainNothing, Moved, Return, IInv, TypeOK, WorkerStates, Tasks
  <2>2. Live' = Live \ Reaped /\ In("new")' = {}
    BY <1>4, <1>6 DEF MaintainNothing
  <2> QED
    BY <1>1, <1>2, <1>3, <1>6, <2>1, <2>2
    DEF MaintainNothing, Return, IInv, NeverUnderflows, FailuresAreDeaths, Snapshot,
        Maintaining, Launching, Fixed
<1>7. CASE MaintainShrink(n)
  <2>0. rescaled'
    BY <1>1, <1>2, <1>7 DEF MaintainShrink, IInv, Fixed
  <2>1. CASE closed
    <3>1. st' = Moved(Reaped, "none") /\ Return("err") /\ num_processes' = num_processes
      BY <1>7, <2>1 DEF MaintainShrink
    <3>2. TypeOK'
      BY <1>1, <1>2, <3>1 DEF Moved, Return, IInv, TypeOK, WorkerStates, Tasks
    <3>3. Live' = Live \ Reaped /\ In("new")' = {}
      BY <1>4, <3>1
    <3> QED
      BY <1>2, <1>3, <2>0, <3>1, <3>2, <3>3
      DEF Return, IInv, NeverUnderflows, FailuresAreDeaths, Snapshot, Maintaining,
          Launching, Fixed
  <2>2. CASE ~closed
    <3>1. PICK removed \in SUBSET (In("idle") \ Reaped) :
            /\ st' = Moved(Reaped \cup removed, "none")
            /\ num_processes' = num_processes - Cardinality(removed)
      BY <1>7, <2>2 DEF MaintainShrink
    <3>2. task' = "terminate" /\ result' = "none" /\ todo' = todo
      BY <1>7, <2>2 DEF MaintainShrink
    <3>3. /\ Live' = (Live \ Reaped) \ removed
          /\ In("new")' = {}
          /\ removed \in SUBSET (Live \ Reaped)
      BY <1>3, <3>1, CountLive DEF Moved, Live, In, IInv, TypeOK
    <3>4. /\ Cardinality(removed) \in Nat
          /\ Cardinality(Live') = Cardinality(Live) - Cardinality(Reaped) - Cardinality(removed)
          /\ Cardinality(removed) <= Cardinality(Live) - Cardinality(Reaped)
      <4>1. Live \ Reaped \in SUBSET Workers /\ removed \in SUBSET Workers
        BY <3>3, CountLive, Zenon DEF IInv
      <4> QED
        BY <1>3, <3>3, <4>1, CountMinus, CountType, Zenon
    <3>5. num_processes' \in Nat
      BY <1>2, <3>1, <3>4
    <3>6. TypeOK'
      BY <1>1, <1>2, <3>1, <3>2, <3>5 DEF Moved, IInv, TypeOK, WorkerStates, Tasks
    <3>7. closed' = FALSE
      BY <2>2 DEF IInv, TypeOK
    <3> QED
      BY <1>2, <2>0, <3>1, <3>2, <3>3, <3>4, <3>6, <3>7
      DEF IInv, NeverUnderflows, FailuresAreDeaths, Snapshot, Maintaining,
          Launching, Fixed
  <2> QED
    BY <2>1, <2>2
<1> QED
  BY <1>5, <1>6, <1>7

\* grow and shrink after their first await.
LEMMA MaintainStepsIInv == ASSUME IInv, MaintainSteps PROVE IInv'
<1>0. /\ num_processes \in Nat /\ dead_workers \in Nat /\ failures \in Nat
      /\ nominal \in Nat /\ todo \in Nat /\ seen.dead \in Nat /\ seen.failures \in Nat
      /\ Cardinality(Live) \in Nat /\ Cardinality(In("new")) \in Nat
  BY CountLive, NominalsAssumption DEF IInv, TypeOK
<1>1. CASE Spawned
  <2>1. PICK S \in SUBSET In("none") :
          /\ Cardinality(S) = todo
          /\ st' = Moved(S, "new")
          /\ alive' = alive \cup S
          /\ gen' = [w \in Workers |-> IF w \in S THEN generation ELSE gen[w]]
          /\ late' = [w \in Workers |-> IF w \in S THEN 0 ELSE late[w]]
    BY <1>1 DEF Spawned
  <2>2. /\ task = "spawn" /\ task' = "sync"
        /\ UNCHANGED <<countVars, optionVars, todo, seen, result>>
    BY <1>1 DEF Spawned
  <2>3. In("new") = {} /\ ~closed
    BY <2>2 DEF IInv, Launching, Maintaining
  <2>4. Live' = Live /\ In("new")' = S
    BY <2>1, <2>3 DEF Moved, Live, In, IInv, TypeOK
  <2>5. TypeOK'
    BY <2>1, <2>2 DEF Moved, In, IInv, TypeOK, WorkerStates, Tasks, countVars, optionVars
  <2> QED
    BY <2>1, <2>2, <2>3, <2>4, <2>5
    DEF IInv, NeverUnderflows, FailuresAreDeaths, Snapshot, Maintaining,
        Launching, Fixed, countVars, optionVars
<1>2. CASE GrowDone
  <2> USE <1>2 DEF GrowDone, ResetCounters, Return
  <2>1. /\ seen.dead <= dead_workers /\ seen.failures <= failures
        /\ failures + seen.dead <= dead_workers + seen.failures
        /\ num_processes + todo = nominal + seen.dead
        /\ Cardinality(In("new")) = todo
    BY DEF IInv, Snapshot, Maintaining, Launching
  <2>2. Live' = Live \cup In("new") /\ Live \cap In("new") = {} /\ In("new")' = {}
    BY DEF Moved, Live, In, IInv, TypeOK
  <2>3. Cardinality(Live') = Cardinality(Live) + todo
    BY <2>1, <2>2, CountLive, CountPlus DEF IInv
  <2>4. dead_workers' \in Nat /\ failures' \in Nat
    BY <1>0, <2>1
  <2>5. TypeOK'
    BY <1>0, <2>4 DEF Moved, In, IInv, TypeOK, WorkerStates, Tasks, optionVars
  <2> QED
    BY <1>0, <2>1, <2>2, <2>3, <2>5
    DEF IInv, NeverUnderflows, FailuresAreDeaths, Snapshot, Maintaining,
        Launching, Fixed, optionVars
<1>3. CASE GrowFailed \/ MaintainDropped
  <2>1. /\ st' = Moved(In("new"), "none") /\ task' = "free" /\ todo' = 0
        /\ result' \in {"none", "ok", "err"}
        /\ UNCHANGED <<alive, gen, late, countVars, optionVars, seen>>
    BY <1>3 DEF GrowFailed, MaintainDropped, Return
  <2>2. Live' = Live /\ In("new")' = {}
    BY <2>1 DEF Moved, Live, In, IInv, TypeOK
  <2>3. TypeOK'
    BY <2>1 DEF Moved, In, IInv, TypeOK, WorkerStates, Tasks, countVars, optionVars
  <2> QED
    BY <2>1, <2>2, <2>3
    DEF IInv, NeverUnderflows, FailuresAreDeaths, Snapshot, Maintaining,
        Launching, Fixed, countVars, optionVars
<1>4. CASE ShrinkDone
  <2> USE <1>4 DEF ShrinkDone, ResetCounters, Return
  <2>1. /\ seen.dead <= dead_workers /\ seen.failures <= failures
        /\ failures + seen.dead <= dead_workers + seen.failures
        /\ rescaled
    BY DEF IInv, Snapshot, Maintaining, Fixed
  <2>2. Live' = Live /\ In("new")' = {}
    BY DEF Live, In, IInv, Launching, workerVars
  <2>3. dead_workers' \in Nat /\ failures' \in Nat
    BY <1>0, <2>1
  <2>4. TypeOK'
    BY <1>0, <2>3 DEF IInv, TypeOK, Tasks, optionVars, workerVars
  <2> QED
    BY <1>0, <2>1, <2>2, <2>4
    DEF IInv, NeverUnderflows, FailuresAreDeaths, Snapshot, Maintaining,
        Launching, Fixed, optionVars
<1> QED
  BY <1>1, <1>2, <1>3, <1>4 DEF MaintainSteps

\* A step that moves workers about without writing any off.
LEMMA MovedIInv ==
  ASSUME IInv, TypeOK', Live' = Live, In("new")' = In("new"),
         UNCHANGED <<countVars, nominal, rescaled, closed, taskVars>>
  PROVE  IInv'
BY DEF IInv, NeverUnderflows, FailuresAreDeaths, Snapshot, Maintaining, Launching,
       Fixed, countVars, taskVars

\* terminate and terminate_failure.
LEMMA WriteOffIInv ==
  ASSUME IInv, NEW w \in Live, NEW f \in {0, 1}, WriteOff(w, f)
  PROVE  IInv'
<1> USE DEF WriteOff
<1>0. /\ num_processes \in Nat /\ dead_workers \in Nat /\ failures \in Nat
      /\ seen.dead \in Nat /\ seen.failures \in Nat /\ f \in Nat
      /\ Cardinality(Live) \in Nat
  BY CountLive DEF IInv, TypeOK
<1>1. Live' = Live \ {w} /\ In("new")' = In("new")
  BY DEF Moved, Live, In, IInv, TypeOK
<1>2. Cardinality(Live') = Cardinality(Live) - 1
  BY <1>1, CountLive, CountOne DEF IInv
<1>3. TypeOK'
  BY <1>0 DEF Moved, IInv, TypeOK, WorkerStates, optionVars, taskVars
<1> QED
  BY <1>0, <1>1, <1>2, <1>3
  DEF IInv, NeverUnderflows, FailuresAreDeaths, Snapshot, Maintaining,
      Launching, Fixed, optionVars, taskVars

\* Requests, recycling and dying processes.
LEMMA WorkerStepsIInv == ASSUME IInv, NEW w \in Workers, WorkerSteps(w) PROVE IInv'
<1>1. CASE Get(w) \/ Release(w) \/ CancelOk(w) \/ UpdateOk(w)
  <2>1. PICK s \in {"idle", "held", "recycle", "cancel", "update"} : st' = Moved({w}, s)
    BY <1>1 DEF Get, Release, CancelOk, UpdateOk
  <2>2. st[w] \in {"idle", "held", "recycle", "cancel", "update"}
    BY <1>1 DEF Get, Release, CancelOk, UpdateOk
  <2>3. /\ UNCHANGED <<alive, gen, countVars, optionVars, taskVars>>
        /\ late' = late \/ late' = Late({w})
    BY <1>1 DEF Get, Release, CancelOk, UpdateOk
  <2>4. late' \in [Workers -> Nat]
    BY <2>3, LateType DEF IInv
  <2>5. TypeOK' /\ Live' = Live /\ In("new")' = In("new")
    BY <2>1, <2>2, <2>3, <2>4
    DEF Moved, Live, In, IInv, TypeOK, WorkerStates, countVars, optionVars, taskVars
  <2> QED
    BY <2>3, <2>5, MovedIInv DEF optionVars
<1>2. CASE Recycle(w)
  <2>1. w \in Live
    BY <1>2 DEF Recycle, Live
  <2>2. CASE gen[w] < generation /\ WriteOff(w, 0)
    BY <2>1, <2>2, WriteOffIInv
  <2>3. CASE /\ st' = Moved({w}, "cancel")
             /\ UNCHANGED <<alive, gen, late, countVars, optionVars, taskVars>>
    <3>1. TypeOK' /\ Live' = Live /\ In("new")' = In("new")
      BY <1>2, <2>3
      DEF Recycle, Moved, Live, In, IInv, TypeOK, WorkerStates, countVars, optionVars, taskVars
    <3> QED
      BY <2>3, <3>1, MovedIInv DEF optionVars
  <2> QED
    BY <1>2, <2>2, <2>3 DEF Recycle
<1>3. CASE RecycleFailed(w)
  <2>1. w \in Live /\ WriteOff(w, 1)
    BY <1>3 DEF RecycleFailed, Live
  <2> QED
    BY <2>1, WriteOffIInv
<1>4. CASE Die(w)
  <2>1. TypeOK' /\ Live' = Live /\ In("new")' = In("new")
    BY <1>4 DEF Die, Live, In, IInv, TypeOK, countVars, optionVars, taskVars
  <2> QED
    BY <1>4, <2>1, MovedIInv DEF Die, optionVars
<1> QED
  BY <1>1, <1>2, <1>3, <1>4 DEF WorkerSteps

\* drain, with or without a new generation.
LEMMA DrainIInv ==
  ASSUME IInv, Drain("recycle") \/ Drain("held") \/ Reload
  PROVE  IInv'
<1>1. PICK s \in {"held", "recycle"} : st' = Moved(In("idle"), s)
  BY DEF Drain, Reload
<1>2. /\ UNCHANGED <<alive, gen, countVars, nominal, rescaled, closed, taskVars>>
      /\ generation' \in Nat /\ late' \in [Workers -> Nat]
  BY LateType DEF Drain, Reload, optionVars, IInv, TypeOK
<1>3. TypeOK' /\ Live' = Live /\ In("new")' = In("new")
  BY <1>1, <1>2 DEF Moved, Live, In, IInv, TypeOK, WorkerStates, countVars, taskVars
<1> QED
  BY <1>2, <1>3, MovedIInv

\* close().
LEMMA CloseIInv == ASSUME IInv, CloseSteps PROVE IInv'
<1>1. CASE CloseBegin \/ CloseDone
  <2>1. /\ task' \in {"closing", "free"} /\ task \in {"free", "shutdown"}
        /\ closed' \in BOOLEAN
        /\ UNCHANGED <<workerVars, countVars, generation, nominal, rescaled, todo, seen, result>>
    BY <1>1, Zenon DEF CloseBegin, CloseDone, optionVars, IInv, TypeOK
  <2>2. TypeOK' /\ Live' = Live /\ In("new")' = In("new")
    BY <2>1 DEF Live, In, IInv, TypeOK, Tasks, workerVars, countVars
  <2> QED
    BY <2>1, <2>2
    DEF IInv, NeverUnderflows, FailuresAreDeaths, Snapshot, Maintaining,
        Launching, Fixed, countVars
<1>2. CASE CloseIdle \/ CloseTimeout
  <2>1. task = "closing" /\ CloseDrain
    BY <1>2 DEF CloseIdle, CloseTimeout
  <2>2. PICK removed \in SUBSET In("idle") :
          /\ st' = Moved(removed, "none")
          /\ num_processes' = num_processes - Cardinality(removed)
    BY <2>1 DEF CloseDrain
  <2>3. /\ task' = "shutdown"
        /\ UNCHANGED <<alive, gen, late, dead_workers, failures, optionVars, todo, seen, result>>
    BY <2>1 DEF CloseDrain
  <2>4. /\ Live' = Live \ removed /\ removed \in SUBSET Live
        /\ In("new")' = {}
    BY <2>1, <2>2, CountLive DEF Moved, Live, In, IInv, Launching, TypeOK
  <2>5. /\ Cardinality(removed) \in Nat /\ Cardinality(Live) \in Nat
        /\ Cardinality(Live') = Cardinality(Live) - Cardinality(removed)
        /\ Cardinality(removed) <= Cardinality(Live)
    BY <2>4, CountLive, CountMinus, CountType, Zenon DEF IInv
  <2>6. num_processes \in Nat /\ dead_workers \in Nat /\ num_processes' \in Nat /\ nominal \in Nat
    BY <2>2, <2>5, NominalsAssumption DEF IInv, TypeOK, NeverUnderflows
  <2>7. TypeOK'
    BY <2>2, <2>3, <2>6 DEF Moved, IInv, TypeOK, WorkerStates, Tasks, optionVars
  <2> QED
    BY <2>2, <2>3, <2>4, <2>5, <2>6, <2>7
    DEF IInv, NeverUnderflows, FailuresAreDeaths, Snapshot, Maintaining,
        Launching, Fixed, optionVars
<1> QED
  BY <1>1, <1>2 DEF CloseSteps

\* Every step of the pool preserves the invariant.
LEMMA NextIInv == IInv /\ [Next]_vars => IInv'
<1> SUFFICES ASSUME IInv, [Next]_vars PROVE IInv'
  OBVIOUS
<1>1. CASE Maintain
  BY <1>1, MaintainIInv DEF Maintain, IInv, TypeOK
<1>2. ASSUME NEW n \in Nominals, PatchConfig(n) PROVE IInv'
  BY <1>2, MaintainIInv DEF PatchConfig
<1>3. CASE MaintainSteps
  BY <1>3, MaintainStepsIInv
<1>4. ASSUME NEW w \in Workers, WorkerSteps(w) PROVE IInv'
  BY <1>4, WorkerStepsIInv
<1>5. CASE Drain("recycle") \/ Drain("held") \/ Reload
  BY <1>5, DrainIInv
<1>6. CASE CloseSteps
  BY <1>6, CloseIInv
<1>7. CASE UNCHANGED vars
  <2>1. TypeOK' /\ Live' = Live /\ In("new")' = In("new")
    BY <1>7 DEF vars, workerVars, countVars, optionVars, taskVars, Live, In, IInv, TypeOK
  <2> QED
    BY <1>7, <2>1, MovedIInv DEF vars, optionVars
<1> QED
  BY <1>1, <1>2, <1>3, <1>4, <1>5, <1>6, <1>7 DEF Next

\* The inductive invariant holds in every reachable state of the pool.
THEOREM PoolInvariant == Spec => []IInv
BY InitIInv, NextIInv, PTL DEF Spec

\* The variables keep their types; in particular no counter goes below zero.
THEOREM PoolTypes == Spec => []TypeOK
<1>1. IInv => TypeOK
  BY DEF IInv
<1> QED
  BY <1>1, PoolInvariant, PTL

\* stats_raw and maintain_pool never subtract more than there is.
THEOREM PoolNeverUnderflows == Spec => []NeverUnderflows
<1>1. IInv => NeverUnderflows
  BY DEF IInv
<1> QED
  BY <1>1, PoolInvariant, PTL

\* The failure pressure never exceeds the share of dead workers.
THEOREM PoolFailuresAreDeaths == Spec => []FailuresAreDeaths
<1>1. IInv => FailuresAreDeaths
  BY DEF IInv
<1> QED
  BY <1>1, PoolInvariant, PTL

\* A pool whose size was not changed by set_config has exact books.
THEOREM PoolFixedSizeExact == Spec => []FixedSizeExact
<1>1. IInv => FixedSizeExact
  BY DEF IInv, Fixed, FixedSizeExact
<1> QED
  BY <1>1, PoolInvariant, PTL

\* No launch is under way in a closed pool.
THEOREM PoolClosedNeverGrows == Spec => []ClosedNeverGrows
<1>1. IInv => ClosedNeverGrows
  BY DEF IInv, Launching, Maintaining, ClosedNeverGrows
<1> QED
  BY <1>1, PoolInvariant, PTL

\* A close() that ends within its grace period leaves no worker behind.
THEOREM PoolCloseLeavesNobody == Spec => CloseLeavesNobody
<1>1. IInv /\ [Next]_vars => [CloseIdle => Live' = {}]_vars
  <2> SUFFICES ASSUME IInv, CloseIdle PROVE Live' = {}
    OBVIOUS
  <2>1. PICK removed \in SUBSET In("idle") :
          /\ \/ Cardinality(removed) = num_processes
             \/ removed = In("idle")
          /\ st' = Moved(removed, "none")
    BY DEF CloseIdle, CloseDrain
  <2>2. /\ num_processes \in Nat /\ dead_workers \in Nat
        /\ num_processes = dead_workers + Cardinality(In("idle"))
        /\ num_processes >= dead_workers + Cardinality(Live)
    BY CountLive DEF CloseIdle, Busy, IInv, TypeOK, NeverUnderflows
  <2>3. /\ IsFiniteSet(Live) /\ IsFiniteSet(In("idle"))
        /\ Cardinality(Live) \in Nat /\ Cardinality(In("idle")) \in Nat
        /\ Cardinality(removed) \in Nat
        /\ In("idle") \in SUBSET Live
    BY CountLive, CountType DEF IInv
  <2>4. In("idle") = Live
    <3>1. Cardinality(In("idle")) <= Cardinality(Live)
      BY <2>3, FS_Subset
    <3> QED
      BY <2>2, <2>3, <3>1, FS_Subset
  <2>5. removed = In("idle")
    <3>1. Cardinality(removed) <= Cardinality(In("idle"))
      BY <2>3, FS_Subset
    <3> QED
      BY <2>1, <2>2, <2>3, <3>1, FS_Subset
  <2> QED
    BY <2>1, <2>4, <2>5 DEF Moved, Live
<1> QED
  BY <1>1, PoolInvariant, PTL DEF Spec, CloseLeavesNobody

\* Until the size of the pool is changed, maintain_pool does nothing only when
\* the number of live workers is the nominal one.
THEOREM PoolFixedAtNominal == Spec => FixedAtNominal
<1>1. IInv /\ [Next]_vars
        => [~rescaled /\ task = "free" /\ MaintainNothing(nominal')
              => Cardinality(Live') = nominal']_vars
  <2> SUFFICES ASSUME IInv, ~rescaled, MaintainNothing(nominal')
               PROVE  Cardinality(Live') = nominal'
    OBVIOUS
  <2>1. Live' = Live \ Reaped
    BY CountLive DEF MaintainNothing, Moved, Live, In, IInv, TypeOK
  <2>2. Cardinality(Live') = Cardinality(Live) - Cardinality(Reaped)
    BY <2>1, CountLive, CountMinus DEF IInv
  <2>3. num_processes = dead_workers + Cardinality(Live)
    BY DEF IInv, Fixed
  <2> QED
    BY <2>2, <2>3, CountLive DEF MaintainNothing, Current, DeadNow, IInv, TypeOK
<1> QED
  BY <1>1, PoolInvariant, PTL DEF Spec, FixedAtNominal

-----------------------------------------------------------------------------
(* Generations *)

\* StaleServesOnce is not inductive: a worker handed out late must not come back
\* to the queue.  It stays old until its name is given to a new worker.
Old(w) ==
  /\ late[w] \in {0, 1}
  /\ late[w] = 1 => st[w] \in {"held", "recycle", "none"} /\ gen[w] < generation

SInv == \A w \in Workers : Old(w)

\* A step that does not hand w out, nor queue it when it is old.
LEMMA KeptOld ==
  ASSUME TypeOK, NEW w \in Workers, Old(w),
         late'[w] = late[w], gen'[w] = gen[w],
         generation' \in Nat, generation' >= generation,
         late[w] = 1 => st'[w] \in {"held", "recycle", "none"}
  PROVE  Old(w)'
BY DEF Old, TypeOK

\* A step that hands out queued workers.
LEMMA HandedOld ==
  ASSUME TypeOK, SInv, NEW S \in SUBSET In("idle"), st' = Moved(S, "held"),
         late' = Late(S), gen' = gen, generation' = generation
  PROVE  SInv'
<1> SUFFICES ASSUME NEW w \in Workers PROVE Old(w)'
  BY DEF SInv
<1>1. Old(w)
  BY DEF SInv
<1>2. CASE w \in S
  <2>1. st[w] = "idle" /\ late[w] = 0
    BY <1>1, <1>2 DEF In, Old
  <2>2. st'[w] = "held" /\ gen'[w] = gen[w]
    BY <1>2 DEF Moved
  <2>3. late'[w] = IF gen[w] < generation THEN 1 ELSE 0
    BY <1>2, <2>1 DEF Late
  <2> QED
    BY <2>2, <2>3 DEF Old
<1>3. CASE w \notin S
  <2>1. late'[w] = late[w] /\ st'[w] = st[w]
    BY <1>3 DEF Late, Moved
  <2> QED
    BY <1>1, <2>1 DEF Old
<1> QED
  BY <1>2, <1>3

\* A step that leaves the generations alone and moves workers: those written off,
\* those launched, or those that are neither with a request nor going back.
LEMMA MovedOld ==
  ASSUME TypeOK, SInv, NEW S \in SUBSET Workers, NEW s,
         st' = Moved(S, s),
         s \in {"none", "recycle"} \/ \A w \in S : late[w] = 0,
         late' = late, gen' = gen,
         generation' \in Nat, generation' >= generation
  PROVE  SInv'
<1> SUFFICES ASSUME NEW w \in Workers PROVE Old(w)'
  BY DEF SInv
<1>1. Old(w)
  BY DEF SInv
<1>2. late[w] = 1 => st'[w] \in {"held", "recycle", "none"}
  BY <1>1 DEF Old, Moved
<1> QED
  BY <1>1, <1>2, KeptOld

\* Every step of the pool preserves it.
LEMMA NextSInv == IInv /\ SInv /\ [Next]_vars => SInv'
<1> SUFFICES ASSUME IInv, SInv, [Next]_vars PROVE SInv'
  OBVIOUS
<1>0. TypeOK /\ generation \in Nat /\ \A w \in Workers : late[w] = 1 => st[w] \in {"held", "recycle", "none"}
  BY DEF IInv, TypeOK, SInv, Old
<1>a. \A s \in {"idle", "new", "cancel", "update"} : \A w \in In(s) : late[w] = 0
  BY DEF In, SInv, Old
<1>b. \A s : In(s) \in SUBSET Workers
  BY DEF In
<1>1. ASSUME NEW n, MaintainStep(n) PROVE SInv'
  <2>1. \E S \in SUBSET Workers : st' = Moved(S, "none")
    BY <1>1, <1>b, Zenon DEF MaintainStep, MaintainGrow, MaintainShrink, MaintainNothing, Reaped
  <2>2. late' = late /\ gen' = gen /\ generation' = generation
    BY <1>1 DEF MaintainStep
  <2> QED
    BY <1>0, <2>1, <2>2, MovedOld
<1>2. CASE Spawned
  <2>1. PICK S \in SUBSET In("none") :
          /\ st' = Moved(S, "new")
          /\ gen' = [w \in Workers |-> IF w \in S THEN generation ELSE gen[w]]
          /\ late' = [w \in Workers |-> IF w \in S THEN 0 ELSE late[w]]
    BY <1>2 DEF Spawned
  <2>2. generation' = generation
    BY <1>2 DEF Spawned, optionVars
  <2> SUFFICES ASSUME NEW w \in Workers PROVE Old(w)'
    BY DEF SInv
  <2>3. CASE w \in S
    BY <2>1, <2>3 DEF Old
  <2>4. CASE w \notin S
    <3>1. late'[w] = late[w] /\ gen'[w] = gen[w] /\ st'[w] = st[w]
      BY <2>1, <2>4 DEF Moved
    <3> QED
      BY <2>2, <3>1 DEF SInv, Old
  <2> QED
    BY <2>3, <2>4
<1>3. CASE GrowDone \/ GrowFailed \/ ShrinkDone \/ MaintainDropped
  <2>1. late' = late /\ gen' = gen /\ generation' = generation
    BY <1>3 DEF GrowDone, GrowFailed, ShrinkDone, MaintainDropped, workerVars, optionVars
  <2>2. \/ st' = st
        \/ st' = Moved(In("new"), "idle")
        \/ st' = Moved(In("new"), "none")
    BY <1>3 DEF GrowDone, GrowFailed, ShrinkDone, MaintainDropped, workerVars
  <2>3. CASE st' = st
    BY <2>1, <2>3 DEF SInv, Old
  <2>4. CASE st' = Moved(In("new"), "idle") \/ st' = Moved(In("new"), "none")
    BY <1>0, <1>a, <1>b, <2>1, <2>4, MovedOld
  <2> QED
    BY <2>2, <2>3, <2>4
<1>4. ASSUME NEW w \in Workers, Get(w) PROVE SInv'
  <2>1. /\ {w} \in SUBSET In("idle") /\ st' = Moved({w}, "held")
        /\ late' = Late({w}) /\ gen' = gen /\ generation' = generation
    BY <1>4 DEF Get, In, optionVars
  <2> QED
    BY <1>0, <2>1, HandedOld
<1>5. ASSUME NEW w \in Workers, Release(w) \/ CancelOk(w) \/ UpdateOk(w) \/ RecycleFailed(w)
      PROVE  SInv'
  <2>1. /\ late' = late /\ gen' = gen /\ generation' = generation
        /\ {w} \in SUBSET Workers
    BY <1>5 DEF Release, CancelOk, UpdateOk, RecycleFailed, WriteOff, optionVars
  <2>2. \/ st' = Moved({w}, "recycle") \/ st' = Moved({w}, "none")
        \/ late[w] = 0 /\ (st' = Moved({w}, "update") \/ st' = Moved({w}, "idle"))
    BY <1>5, <1>a DEF Release, CancelOk, UpdateOk, RecycleFailed, WriteOff, In
  <2> QED
    BY <1>0, <2>1, <2>2, MovedOld
<1>6. ASSUME NEW w \in Workers, Recycle(w) PROVE SInv'
  <2>1. late' = late /\ gen' = gen /\ generation' = generation /\ {w} \in SUBSET Workers
    BY <1>6 DEF Recycle, WriteOff, optionVars
  <2>2. CASE gen[w] < generation
    <3>1. st' = Moved({w}, "none")
      BY <1>6, <2>2, <1>0 DEF Recycle, WriteOff, TypeOK
    <3> QED
      BY <1>0, <2>1, <3>1, MovedOld
  <2>3. CASE ~(gen[w] < generation)
    <3>1. st' = Moved({w}, "cancel") /\ late[w] = 0
      BY <1>6, <2>3 DEF Recycle, SInv, Old
    <3> QED
      BY <1>0, <2>1, <3>1, MovedOld
  <2> QED
    BY <2>2, <2>3
<1>7. ASSUME NEW w \in Workers, Die(w) PROVE SInv'
  BY <1>7 DEF Die, optionVars, SInv, Old
<1>8. CASE Drain("held")
  <2>1. /\ st' = Moved(In("idle"), "held") /\ late' = Late(In("idle"))
        /\ gen' = gen /\ generation' = generation
    BY <1>8 DEF Drain, optionVars
  <2> QED
    BY <1>0, <2>1, HandedOld
<1>9. CASE Drain("recycle") \/ Reload
  <2>1. /\ st' = Moved(In("idle"), "recycle") /\ late' = late
        /\ gen' = gen /\ generation' \in Nat /\ generation' >= generation
    BY <1>0, <1>9 DEF Drain, Reload, optionVars
  <2> QED
    BY <1>0, <1>b, <2>1, MovedOld
<1>10. CASE CloseSteps
  <2>1. late' = late /\ gen' = gen /\ generation' = generation
    BY <1>10 DEF CloseSteps, CloseBegin, CloseIdle, CloseTimeout, CloseDrain, CloseDone,
                 workerVars, optionVars
  <2>2. st' = st \/ \E S \in SUBSET Workers : st' = Moved(S, "none")
    BY <1>10, <1>b DEF CloseSteps, CloseBegin, CloseIdle, CloseTimeout, CloseDrain,
                       CloseDone, workerVars
  <2>3. CASE st' = st
    BY <2>1, <2>3 DEF SInv, Old
  <2>4. CASE \E S \in SUBSET Workers : st' = Moved(S, "none")
    BY <1>0, <2>1, <2>4, MovedOld
  <2> QED
    BY <2>2, <2>3, <2>4
<1>11. CASE UNCHANGED vars
  BY <1>11 DEF vars, workerVars, optionVars, SInv, Old
<1> QED
  BY <1>1, <1>2, <1>3, <1>4, <1>5, <1>6, <1>7, <1>8, <1>9, <1>10, <1>11, Zenon
  DEF Next, Maintain, PatchConfig, MaintainSteps, WorkerSteps

\* A worker is handed out at most once after the reload that made it old.
THEOREM PoolStaleServesOnce == Spec => []StaleServesOnce
<1>1. Init => SInv
  BY DEF Init, SInv, Old
<1>2. SInv => StaleServesOnce
  BY DEF SInv, Old, StaleServesOnce
<1> QED
  BY <1>1, <1>2, PoolInvariant, NextSInv, PTL DEF Spec
=============================================================================
