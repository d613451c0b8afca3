----------------------------- MODULE WorkerQueue -----------------------------
(***************************************************************************)
(* The queue of idle workers (qjazz-pool/src/queue.rs) and its admission   *)
(* limit (WorkerQueue::recv in pool.rs).                                   *)
(*                                                                         *)
(* The server runs on a current-thread runtime, so a task gives way to     *)
(* another only where it awaits.  The only await of the queue is           *)
(* notify.notified() in recv: every other operation is one action.  A      *)
(* request is a task that calls recv once; its future may be dropped while *)
(* it waits (response timeout, client gone) or while it holds a worker.    *)
(*                                                                         *)
(* The counter `count' is stored under the same lock as the deque it       *)
(* counts and has no separate life here: it is Len(queue).                 *)
(***************************************************************************)
EXTENDS Naturals, Sequences, FiniteSets, Functions

CONSTANTS
  Workers,
  Requests,
  Limits,     \* values that max_waiting_requests takes over the run
  None        \* no worker

ASSUME WorkersAssumption == IsFiniteSet(Workers) /\ None \notin Workers
ASSUME RequestsAssumption == IsFiniteSet(Requests)
ASSUME LimitsAssumption == Limits \subseteq Nat \ {0}

VARIABLES
  queue,         \* the deque of idle workers
  closed,
  pending,       \* the counter returned by num_waiters()
  max_requests,
  waiters,       \* Notify: the tasks in notified().await, oldest first
  permit,        \* Notify: the single stored permit
  woken,         \* Notify: how a task out of `waiters' was notified
  stage,         \* where each request is
  lent           \* the worker a request holds

notifyVars == <<waiters, permit, woken>>
vars == <<queue, closed, pending, max_requests, waiters, permit, woken,
          stage, lent>>

Stages == {"new", "waiting", "serving", "refused", "closed", "cancelled", "done"}

\* The workers that are neither queued nor lent: being launched, recycled
\* or gone.
Away == Workers \ (Range(queue) \cup {lent[r] : r \in Requests})

Woken == {r \in Requests : woken[r] = "one"}

Init ==
  /\ queue = <<>>
  /\ closed = FALSE
  /\ pending = 0
  /\ max_requests \in Limits
  /\ waiters = <<>>
  /\ permit = FALSE
  /\ woken = [r \in Requests |-> "no"]
  /\ stage = [r \in Requests |-> "new"]
  /\ lent = [r \in Requests |-> None]

-----------------------------------------------------------------------------
(* tokio::sync::Notify *)

\* The tasks that have waited longest.
Oldest(n) == {waiters[i] : i \in 1..n}

\* k calls of notify_one in a row: the k oldest waiters are woken and, if
\* there are fewer, one permit is stored, however many calls are left.
NotifyOne(k) ==
  LET n == IF k <= Len(waiters) THEN k ELSE Len(waiters)
  IN  /\ woken' = [r \in Requests |->
                     IF r \in Oldest(n) THEN "one" ELSE woken[r]]
      /\ waiters' = SubSeq(waiters, n + 1, Len(waiters))
      /\ permit' = (permit \/ k > Len(waiters))

\* notify_waiters: wakes every waiter and stores no permit.
NotifyWaiters ==
  /\ woken' = [r \in Requests |->
                 IF r \in Range(waiters) THEN "all" ELSE woken[r]]
  /\ waiters' = <<>>
  /\ UNCHANGED permit

\* A Notified future is dropped.  Still queued: it leaves the list.  Woken by
\* notify_one: its notification goes to the next waiter.
DropNotified(r) ==
  \/ /\ \E i \in DOMAIN waiters :
          /\ waiters[i] = r
          /\ waiters' = [j \in 1..(Len(waiters) - 1) |->
                           waiters[IF j < i THEN j ELSE j + 1]]
     /\ UNCHANGED <<permit, woken>>
  \/ /\ woken[r] = "one"
     /\ woken' = [s \in Requests |->
                    IF s = r THEN "no"
                    ELSE IF waiters # <<>> /\ s = Head(waiters) THEN "one"
                    ELSE woken[s]]
     /\ waiters' = IF waiters = <<>> THEN <<>> ELSE Tail(waiters)
     /\ permit' = (permit \/ waiters = <<>>)
  \/ /\ woken[r] = "all"
     /\ woken' = [woken EXCEPT ![r] = "no"]
     /\ UNCHANGED <<waiters, permit>>

-----------------------------------------------------------------------------
(* Queue::recv *)

\* Mutant of RecvLoop: the queue is looked at before the closed flag.
RecvLoopQueueFirst(r, p) ==
  \/ /\ queue # <<>>
     /\ stage' = [stage EXCEPT ![r] = "serving"]
     /\ lent' = [lent EXCEPT ![r] = Head(queue)]
     /\ queue' = Tail(queue)
     /\ pending' = p
     /\ UNCHANGED <<waiters, permit>>
  \/ /\ closed /\ queue = <<>>
     /\ stage' = [stage EXCEPT ![r] = "closed"]
     /\ pending' = p
     /\ UNCHANGED <<queue, lent, waiters, permit>>
  \/ /\ ~closed /\ queue = <<>>
     /\ stage' = [stage EXCEPT ![r] = "waiting"]
     /\ pending' = p + 1
     /\ waiters' = Append(waiters, r)
     /\ permit' = FALSE
     /\ UNCHANGED <<queue, lent>>

\* The loop of recv, entered by request r with the counter at p, up to its
\* return or to the await.  A stored permit makes the first notified() return
\* at once: the loop turns again, finds the queue still empty and waits.
RecvLoop(r, p) ==
  \/ /\ closed
     /\ stage' = [stage EXCEPT ![r] = "closed"]
     /\ pending' = p
     /\ UNCHANGED <<queue, lent, waiters, permit>>
  \/ /\ ~closed /\ queue # <<>>
     /\ stage' = [stage EXCEPT ![r] = "serving"]
     /\ lent' = [lent EXCEPT ![r] = Head(queue)]
     /\ queue' = Tail(queue)
     /\ pending' = p
     /\ UNCHANGED <<waiters, permit>>
  \/ /\ ~closed /\ queue = <<>>
     /\ stage' = [stage EXCEPT ![r] = "waiting"]
     /\ pending' = p + 1
     /\ waiters' = Append(waiters, r)
     /\ permit' = FALSE
     /\ UNCHANGED <<queue, lent>>

\* Mutant of Recv: one request too many is let in.
RecvOneMore(r) ==
  /\ stage[r] = "new"
  /\ \/ /\ pending > max_requests + 1
        /\ stage' = [stage EXCEPT ![r] = "refused"]
        /\ UNCHANGED <<queue, pending, lent, waiters, permit>>
     \/ /\ pending <= max_requests + 1
        /\ RecvLoop(r, pending)
  /\ UNCHANGED <<closed, max_requests, woken>>

\* WorkerQueue::recv, first poll: the admission test, then the loop.
Recv(r) ==
  /\ stage[r] = "new"
  /\ \/ /\ pending > max_requests
        /\ stage' = [stage EXCEPT ![r] = "refused"]
        /\ UNCHANGED <<queue, pending, lent, waiters, permit>>
     \/ /\ pending <= max_requests
        /\ RecvLoop(r, pending)
  /\ UNCHANGED <<closed, max_requests, woken>>

\* Mutant of Wake: the counter goes down once more than it went up.
WakeTwice(r) ==
  /\ woken[r] # "no"
  /\ woken' = [woken EXCEPT ![r] = "no"]
  /\ RecvLoop(r, pending - 2)
  /\ UNCHANGED <<closed, max_requests>>

\* A woken task runs again: the counter goes down and the loop turns.
Wake(r) ==
  /\ woken[r] # "no"
  /\ woken' = [woken EXCEPT ![r] = "no"]
  /\ RecvLoop(r, pending - 1)
  /\ UNCHANGED <<closed, max_requests>>

\* Mutant of Cancel: all the waiters are uncounted.
CancelResets(r) ==
  /\ stage[r] = "waiting"
  /\ stage' = [stage EXCEPT ![r] = "cancelled"]
  /\ DropNotified(r)
  /\ pending' = 0
  /\ UNCHANGED <<queue, closed, max_requests, lent>>

\* The future of recv is dropped at its await: the decrement that follows the
\* await is not reached.
Cancel(r) ==
  /\ stage[r] = "waiting"
  /\ stage' = [stage EXCEPT ![r] = "cancelled"]
  /\ DropNotified(r)
  /\ UNCHANGED <<queue, closed, pending, max_requests, lent>>

\* The request ends, or is abandoned: its worker goes to the recycler.
Finish(r) ==
  /\ stage[r] = "serving"
  /\ stage' = [stage EXCEPT ![r] = "done"]
  /\ lent' = [lent EXCEPT ![r] = None]
  /\ UNCHANGED <<queue, closed, pending, max_requests, notifyVars>>

-----------------------------------------------------------------------------
(* The other side of the queue: recycler and pool *)

\* Mutant of Send: nobody is told.
SendSilently(w) ==
  /\ w \in Away
  /\ queue' = Append(queue, w)
  /\ UNCHANGED <<closed, pending, max_requests, notifyVars, stage, lent>>

\* send: a recycled worker comes back (the queue may be closed by then).
Send(w) ==
  /\ w \in Away
  /\ queue' = Append(queue, w)
  /\ NotifyOne(1)
  /\ UNCHANGED <<closed, pending, max_requests, stage, lent>>

\* Mutant of SendAll: one notification for the whole batch.
SendAllOnce(s) ==
  /\ ~closed
  /\ s # <<>> /\ IsInjective(s) /\ Range(s) \subseteq Away
  /\ queue' = queue \o s
  /\ NotifyOne(1)
  /\ UNCHANGED <<closed, pending, max_requests, stage, lent>>

\* send_all: the workers launched by grow, which runs on an open queue only.
SendAll(s) ==
  /\ ~closed
  /\ s # <<>> /\ IsInjective(s) /\ Range(s) \subseteq Away
  /\ queue' = queue \o s
  /\ NotifyOne(Len(s))
  /\ UNCHANGED <<closed, pending, max_requests, stage, lent>>

\* drain(n) and drain_map: the n oldest workers, or all, leave the queue.
Drain(n) ==
  /\ n \in 1..Len(queue)
  /\ queue' = SubSeq(queue, n + 1, Len(queue))
  /\ UNCHANGED <<closed, pending, max_requests, notifyVars, stage, lent>>

\* retain: cleanup_dead_workers removes whichever workers have died; the m
\* others keep their order.
Retain(m) ==
  /\ m < Len(queue)
  /\ \E kept \in [1..m -> DOMAIN queue] :
       /\ \A i, j \in 1..m : i < j => kept[i] < kept[j]
       /\ queue' = [i \in 1..m |-> queue[kept[i]]]
  /\ UNCHANGED <<closed, pending, max_requests, notifyVars, stage, lent>>

\* Mutant of Close: one waiter hears of it.
CloseQuietly ==
  /\ ~closed
  /\ closed' = TRUE
  /\ NotifyOne(1)
  /\ UNCHANGED <<queue, pending, max_requests, stage, lent>>

Close ==
  /\ ~closed
  /\ closed' = TRUE
  /\ NotifyWaiters
  /\ UNCHANGED <<queue, pending, max_requests, stage, lent>>

\* The part of Pool::patch_config that reaches the queue.
PatchLimit(m) ==
  /\ m # max_requests
  /\ max_requests' = m
  /\ UNCHANGED <<queue, closed, pending, notifyVars, stage, lent>>

Batches == UNION {[1..n -> Workers] : n \in 1..Cardinality(Workers)}

Next ==
  \/ \E r \in Requests : Recv(r) \/ Wake(r) \/ Cancel(r) \/ Finish(r)
  \/ \E w \in Workers : Send(w)
  \/ \E s \in Batches : SendAll(s)
  \/ \E n \in 1..Cardinality(Workers) : Drain(n)
  \/ \E m \in 0..Cardinality(Workers) : Retain(m)
  \/ Close
  \/ \E m \in Limits : PatchLimit(m)

\* The runtime polls every woken task.
Fairness == \A r \in Requests : WF_vars(Wake(r))

Spec == Init /\ [][Next]_vars /\ Fairness

-----------------------------------------------------------------------------
(* Properties *)

InRecv == {r \in Requests : stage[r] = "waiting"}

\* The values of the queue, of Notify and of the requests; the counter of
\* num_waiters() never goes below zero.
TypeOK ==
  /\ queue \in Seq(Workers)
  /\ closed \in BOOLEAN
  /\ pending \in Nat
  /\ max_requests \in Limits
  /\ waiters \in Seq(Requests)
  /\ permit \in BOOLEAN
  /\ woken \in [Requests -> {"no", "one", "all"}]
  /\ stage \in [Requests -> Stages]
  /\ lent \in [Requests -> Workers \cup {None}]

\* No lost wake-up (the hand-off between send/send_all/notify_one and recv):
\* while a task sleeps in notified(), every queued worker has a woken task on
\* its way to it.
NoLostWakeup == waiters # <<>> => Len(queue) <= Cardinality(Woken)

\* num_waiters() never forgets a task that waits, so that the decrement after
\* the await never wraps around and the limit never admits too many.
WaitersCounted == Cardinality(InRecv) <= pending

\* A request joins the waiting tasks only when at most max_requests others
\* wait: WorkerQueue::recv, which compares with ">", bounds the queue at
\* max_requests + 1 tasks, one more than is documented (LimitAsDocumented).
AdmissionBound ==
  [][\A r \in Requests :
        stage[r] = "new" /\ stage'[r] = "waiting"
          => Cardinality(InRecv') <= max_requests + 1]_vars

\* Once the queue is closed recv gives no worker any more, even if workers
\* come back to the queue, and nobody starts to wait.
ClosedForGood ==
  [][closed => /\ closed'
               /\ \A r \in Requests :
                     stage'[r] \in {"serving", "waiting"} => stage'[r] = stage[r]]_vars

\* Every task that waits when the queue is closed is let go.
CloseReleases == \A r \in Requests : closed ~> stage[r] # "waiting"

\* The queue implements the hand-off: whatever the order of sends, wake-ups,
\* barging requests and dropped futures, an idle worker and a waiting request
\* end up together.
HandoffStage ==
  [r \in Requests |->
     CASE stage[r] \in {"refused", "closed", "cancelled", "done"} -> "over"
       [] OTHER -> stage[r]]

Abstract == INSTANCE Handoff WITH
              idle <- Range(queue), stage <- HandoffStage, open <- ~closed

ImplementsHandoff == Abstract!Spec

-----------------------------------------------------------------------------
(* What the documentation says *)

\* queue.rs, num_waiters: "Returns the number of waiters".
NumWaitersExact == pending = Cardinality(InRecv)

\* config.rs, max_waiting_requests: "If the number of waiting requests reach
\* the limit, the subsequent requests will be returned with a `service
\* unavailable` error": a request that starts to wait found fewer than the
\* limit.
LimitAsDocumented ==
  [][\A r \in Requests :
        stage[r] = "new" /\ stage'[r] = "waiting"
          => Cardinality(InRecv) < max_requests]_vars
=============================================================================
