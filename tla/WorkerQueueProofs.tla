-------------------------- MODULE WorkerQueueProofs --------------------------
(***************************************************************************)
(* No wake-up is lost and no waiting task is uncounted, for any number of  *)
(* workers and requests.                                                   *)
(*                                                                         *)
(* NoLostWakeup alone is not inductive: it counts woken tasks, so one must *)
(* also know that the sleeping tasks are distinct and not woken already,   *)
(* and that only close() wakes tasks without a worker (QInv).              *)
(***************************************************************************)
EXTENDS WorkerQueue, FiniteSetTheorems, SequenceTheorems, TLAPS

\* A task sleeps in notified() at one place, not woken.
Sleepers ==
  /\ IsInjective(waiters)
  /\ \A i \in DOMAIN waiters : stage[waiters[i]] = "waiting" /\ woken[waiters[i]] = "no"

\* A woken task has not left recv; "all" is the doing of close().
Wakes ==
  /\ \A r \in Requests : woken[r] # "no" => stage[r] = "waiting"
  /\ \A r \in Requests : woken[r] = "all" => closed
  /\ closed => waiters = <<>>

QInv == TypeOK /\ Sleepers /\ Wakes /\ NoLostWakeup /\ WaitersCounted

-----------------------------------------------------------------------------
(* Counting requests *)

\* Any set of requests has a cardinality.
LEMMA CountType ==
  ASSUME NEW S \in SUBSET Requests
  PROVE  IsFiniteSet(S) /\ Cardinality(S) \in Nat
BY RequestsAssumption, FS_Subset, FS_CardinalityType

\* One request joins a set.
LEMMA CountAdd ==
  ASSUME NEW S \in SUBSET Requests, NEW r \in Requests, r \notin S
  PROVE  Cardinality(S \cup {r}) = Cardinality(S) + 1
BY CountType, FS_AddElement

\* One request leaves a set.
LEMMA CountRemove ==
  ASSUME NEW S \in SUBSET Requests, NEW r \in S
  PROVE  Cardinality(S \ {r}) = Cardinality(S) - 1 /\ Cardinality(S) > 0
<1>1. Cardinality(S \ {r}) = Cardinality(S) - 1
  BY CountType, FS_RemoveElement
<1>2. Cardinality(S \ {r}) \in Nat /\ Cardinality(S) \in Nat
  <2>1. S \ {r} \in SUBSET Requests
    OBVIOUS
  <2> QED
    BY <2>1, CountType
<1> QED
  BY <1>1, <1>2

\* Disjoint sets of requests.
LEMMA CountUnion ==
  ASSUME NEW S \in SUBSET Requests, NEW T \in SUBSET Requests, S \cap T = {}
  PROVE  Cardinality(S \cup T) = Cardinality(S) + Cardinality(T)
<1>1. IsFiniteSet(S) /\ IsFiniteSet(T) /\ Cardinality(S) \in Nat /\ Cardinality(T) \in Nat
  BY CountType
<1>2. Cardinality(S \cap T) = 0
  BY FS_EmptySet
<1>3. Cardinality(S \cup T) = Cardinality(S) + Cardinality(T) - Cardinality(S \cap T)
  BY <1>1, FS_Union
<1> QED
  BY <1>1, <1>2, <1>3

\* The n oldest sleepers are n tasks, none of them woken.
LEMMA CountOldest ==
  ASSUME QInv, NEW n \in 0..Len(waiters)
  PROVE  /\ Oldest(n) \in SUBSET Requests
         /\ Cardinality(Oldest(n)) = n
         /\ Oldest(n) \cap Woken = {}
         /\ \A r \in Oldest(n) : stage[r] = "waiting"
<1>1. n \in Nat /\ 1..n \subseteq DOMAIN waiters /\ waiters \in Seq(Requests)
  BY DEF QInv, TypeOK
<1>2. \A i \in 1..n : /\ waiters[i] \in Requests
                      /\ stage[waiters[i]] = "waiting"
                      /\ woken[waiters[i]] = "no"
  BY <1>1 DEF QInv, Sleepers
<1>3. /\ Oldest(n) \in SUBSET Requests /\ Oldest(n) \cap Woken = {}
      /\ \A r \in Oldest(n) : stage[r] = "waiting"
  BY <1>2 DEF Oldest, Woken
<1>4. ExistsBijection(1..n, Oldest(n))
  <2> DEFINE f == [i \in 1..n |-> waiters[i]]
  <2>1. f \in [1..n -> Oldest(n)]
    BY DEF Oldest
  <2>2. \A i, j \in 1..n : f[i] = f[j] => i = j
    BY <1>1 DEF QInv, Sleepers, IsInjective
  <2>3. \A r \in Oldest(n) : \E i \in 1..n : f[i] = r
    BY DEF Oldest
  <2>4. f \in Bijection(1..n, Oldest(n))
    BY <2>1, <2>2, <2>3 DEF Bijection, Injection, Surjection, IsInjective
  <2> QED
    BY <2>4 DEF ExistsBijection
<1> QED
  BY <1>1, <1>3, <1>4, FS_CountingElements

-----------------------------------------------------------------------------
(* The steps *)

\* A sequence of requests without its first n.
LEMMA SuffixFacts ==
  ASSUME NEW s \in Seq(Requests), NEW n \in 0..Len(s),
         NEW t, t = SubSeq(s, n + 1, Len(s))
  PROVE  /\ t \in Seq(Requests)
         /\ DOMAIN t = 1..(Len(s) - n)
         /\ \A i \in 1..(Len(s) - n) : i + n \in 1..Len(s) /\ t[i] = s[i + n]
         /\ t # <<>> => n < Len(s)
<1>1. Len(s) \in Nat /\ n \in Nat /\ n <= Len(s)
  OBVIOUS
<1>2. /\ t \in Seq(Requests)
      /\ Len(t) = Len(s) - n
      /\ \A i \in 1..(Len(s) - n) : i + n \in 1..Len(s) /\ t[i] = s[i + n]
  BY <1>1
<1>3. t # <<>> => Len(t) # 0
  BY <1>2, EmptySeq
<1> QED
  BY <1>1, <1>2, <1>3

\* The n oldest sleepers are woken.
LEMMA WakeOldest ==
  ASSUME QInv, NEW n \in 0..Len(waiters), stage' = stage,
         waiters' = SubSeq(waiters, n + 1, Len(waiters)),
         woken' = [r \in Requests |-> IF r \in Oldest(n) THEN "one" ELSE woken[r]]
  PROVE  /\ Sleepers'
         /\ \A r \in Requests : woken'[r] # "no" => stage[r] = "waiting"
         /\ \A r \in Requests : woken'[r] = "all" => woken[r] = "all"
         /\ Cardinality(Woken') = Cardinality(Woken) + n
<1>0. waiters \in Seq(Requests) /\ n \in Nat /\ Len(waiters) \in Nat /\ n <= Len(waiters)
  BY DEF QInv, TypeOK
<1>1. \A i, j \in 1..Len(waiters) : waiters[i] = waiters[j] => i = j
  BY <1>0 DEF QInv, Sleepers, IsInjective
<1>2. \A i \in 1..Len(waiters) : /\ waiters[i] \in Requests
                                 /\ stage[waiters[i]] = "waiting"
                                 /\ woken[waiters[i]] = "no"
  BY <1>0 DEF QInv, Sleepers
<1>3. /\ DOMAIN waiters' = 1..(Len(waiters) - n)
      /\ \A i \in 1..(Len(waiters) - n) :
            i + n \in 1..Len(waiters) /\ waiters'[i] = waiters[i + n]
  BY <1>0, SuffixFacts
<1>4. \A i \in 1..(Len(waiters) - n) : waiters[i + n] \notin Oldest(n)
  <2> SUFFICES ASSUME NEW i \in 1..(Len(waiters) - n), NEW j \in 1..n,
                      waiters[i + n] = waiters[j]
               PROVE  FALSE
    BY DEF Oldest
  <2>1. i + n \in 1..Len(waiters) /\ j \in 1..Len(waiters) /\ i + n # j
    BY <1>0
  <2> QED
    BY <1>1, <2>1
<1>5. IsInjective(waiters')
  <2> SUFFICES ASSUME NEW i \in 1..(Len(waiters) - n), NEW j \in 1..(Len(waiters) - n),
                      waiters'[i] = waiters'[j]
               PROVE  i = j
    BY <1>3, Zenon DEF IsInjective
  <2>1. i + n \in 1..Len(waiters) /\ j + n \in 1..Len(waiters) /\ waiters[i + n] = waiters[j + n]
    BY <1>3, Zenon
  <2>2. i + n = j + n
    BY <1>1, <2>1, Zenon
  <2> QED
    BY <1>0, <2>2
<1>6. ASSUME NEW i \in DOMAIN waiters'
      PROVE  stage'[waiters'[i]] = "waiting" /\ woken'[waiters'[i]] = "no"
  <2>1. /\ i \in 1..(Len(waiters) - n)
        /\ i + n \in 1..Len(waiters) /\ waiters'[i] = waiters[i + n]
    BY <1>3, Zenon
  <2>2. /\ waiters'[i] \in Requests /\ waiters'[i] \notin Oldest(n)
        /\ stage[waiters'[i]] = "waiting" /\ woken[waiters'[i]] = "no"
    BY <1>2, <1>4, <2>1, Zenon
  <2> QED
    BY <2>2, Zenon
<1>7. /\ \A r \in Requests : woken'[r] # "no" => stage[r] = "waiting"
      /\ \A r \in Requests : woken'[r] = "all" => woken[r] = "all"
  <2>1. \A r \in Oldest(n) : stage[r] = "waiting"
    BY CountOldest
  <2> QED
    BY <2>1 DEF QInv, Wakes
<1>8. Cardinality(Woken') = Cardinality(Woken) + n
  <2>1. /\ Oldest(n) \in SUBSET Requests /\ Cardinality(Oldest(n)) = n
        /\ Woken \cap Oldest(n) = {} /\ Woken \in SUBSET Requests
    BY CountOldest DEF Woken
  <2>2. \A r \in Requests : woken'[r] = "one" <=> r \in Oldest(n) \/ woken[r] = "one"
    OBVIOUS
  <2>3. Woken' = Woken \cup Oldest(n)
    BY <2>1, <2>2, Zenon DEF Woken
  <2> QED
    BY <2>1, <2>3, CountUnion, Zenon
<1> QED
  BY <1>5, <1>6, <1>7, <1>8, Zenon DEF Sleepers

\* What NotifyOne(k) does to the sleepers and to the woken tasks.
LEMMA NotifyFacts ==
  ASSUME QInv, NEW k \in Nat, NotifyOne(k), stage' = stage
  PROVE  /\ waiters' \in Seq(Requests) /\ permit' \in BOOLEAN
         /\ woken' \in [Requests -> {"no", "one", "all"}]
         /\ Sleepers'
         /\ \A r \in Requests : woken'[r] # "no" => stage[r] = "waiting"
         /\ \A r \in Requests : woken'[r] = "all" => woken[r] = "all"
         /\ waiters' # <<>> => /\ waiters # <<>>
                               /\ Cardinality(Woken') = Cardinality(Woken) + k
<1>0. waiters \in Seq(Requests) /\ Len(waiters) \in Nat
  BY DEF QInv, TypeOK
<1>1. PICK n \in 0..Len(waiters) :
        /\ n < Len(waiters) => n = k
        /\ woken' = [r \in Requests |-> IF r \in Oldest(n) THEN "one" ELSE woken[r]]
        /\ waiters' = SubSeq(waiters, n + 1, Len(waiters))
  <2>1. CASE k <= Len(waiters)
    BY <1>0, <2>1 DEF NotifyOne
  <2>2. CASE ~(k <= Len(waiters))
    BY <1>0, <2>2 DEF NotifyOne
  <2> QED
    BY <2>1, <2>2
<1>2. permit' \in BOOLEAN
  BY Zenon DEF NotifyOne
<1>3. woken' \in [Requests -> {"no", "one", "all"}]
  BY <1>1 DEF QInv, TypeOK
<1>4. waiters' \in Seq(Requests) /\ (waiters' # <<>> => n < Len(waiters))
  BY <1>0, <1>1, SuffixFacts, Zenon
<1>5. waiters' # <<>> => waiters # <<>> /\ n = k
  BY <1>0, <1>1, <1>4, EmptySeq
<1> QED
  BY <1>1, <1>2, <1>3, <1>4, <1>5, WakeOldest, Zenon

\* send and send_all: k workers join the queue and k times notify_one.
LEMMA PushQInv ==
  ASSUME QInv, NEW k \in Nat, NotifyOne(k),
         queue' \in Seq(Workers), Len(queue') = Len(queue) + k,
         UNCHANGED <<closed, pending, max_requests, stage, lent>>
  PROVE  QInv'
<1>1. TypeOK' /\ Sleepers' /\ Wakes'
  BY NotifyFacts DEF QInv, TypeOK, Wakes
<1>2. WaitersCounted'
  BY DEF QInv, WaitersCounted, InRecv
<1>3. NoLostWakeup'
  <2>1. Len(queue) \in Nat /\ Cardinality(Woken) \in Nat
    BY CountType DEF QInv, TypeOK, Woken
  <2> QED
    BY <2>1, NotifyFacts DEF QInv, NoLostWakeup
<1> QED
  BY <1>1, <1>2, <1>3 DEF QInv

\* drain and retain: the queue gets shorter.
LEMMA PullQInv ==
  ASSUME QInv, queue' \in Seq(Workers), Len(queue') <= Len(queue),
         UNCHANGED <<closed, pending, max_requests, notifyVars, stage, lent>>
  PROVE  QInv'
<1>1. Len(queue) \in Nat /\ Len(queue') \in Nat /\ Cardinality(Woken) \in Nat
  BY CountType DEF QInv, TypeOK, Woken
<1>2. TypeOK' /\ Sleepers' /\ Wakes' /\ WaitersCounted'
  BY DEF QInv, TypeOK, Sleepers, Wakes, WaitersCounted, InRecv, notifyVars
<1>3. NoLostWakeup'
  BY <1>1 DEF QInv, NoLostWakeup, Woken, notifyVars
<1> QED
  BY <1>2, <1>3 DEF QInv

\* close(): every sleeper is woken, nobody sleeps any more.
LEMMA CloseQInv == ASSUME QInv, Close PROVE QInv'
<1> USE DEF Close, NotifyWaiters
<1>1. TypeOK'
  BY DEF QInv, TypeOK
<1>2. Sleepers' /\ NoLostWakeup'
  BY DEF Sleepers, NoLostWakeup, IsInjective
<1>3. Wakes'
  <2>1. \A r \in Range(waiters) : stage[r] = "waiting"
    BY DEF QInv, Sleepers, Range
  <2> QED
    BY <2>1 DEF QInv, TypeOK, Wakes
<1>4. WaitersCounted'
  BY DEF QInv, WaitersCounted, InRecv
<1> QED
  BY <1>1, <1>2, <1>3, <1>4 DEF QInv

\* A request leaves the set of waiting ones, or was not there.
LEMMA FewerWaiting ==
  ASSUME QInv, NEW r \in Requests, NEW s \in Stages \ {"waiting"},
         stage' = [stage EXCEPT ![r] = s]
  PROVE  /\ InRecv' = InRecv \ {r}
         /\ Cardinality(InRecv) \in Nat /\ Cardinality(InRecv') \in Nat
         /\ Cardinality(InRecv') <= Cardinality(InRecv)
         /\ stage[r] = "waiting" => Cardinality(InRecv') = Cardinality(InRecv) - 1
         /\ stage' \in [Requests -> Stages]
<1>1. InRecv' = InRecv \ {r} /\ stage' \in [Requests -> Stages]
  BY DEF InRecv, QInv, TypeOK
<1>2. IsFiniteSet(InRecv) /\ Cardinality(InRecv) \in Nat
  BY CountType DEF InRecv
<1>3. Cardinality(InRecv') = IF r \in InRecv THEN Cardinality(InRecv) - 1 ELSE Cardinality(InRecv)
  BY <1>1, <1>2, FS_RemoveElement, Zenon
<1>4. Cardinality(InRecv') \in Nat
  BY CountType, Zenon DEF InRecv
<1> QED
  BY <1>1, <1>2, <1>3, <1>4 DEF InRecv

\* The worker's request is over.
LEMMA FinishQInv == ASSUME QInv, NEW r \in Requests, Finish(r) PROVE QInv'
<1> USE DEF Finish
<1>0. "done" \in Stages \ {"waiting"}
  BY DEF Stages
<1>1. TypeOK'
  BY <1>0, FewerWaiting DEF QInv, TypeOK, notifyVars
<1>2. Sleepers' /\ Wakes'
  BY DEF QInv, TypeOK, Sleepers, Wakes, notifyVars
<1>3. NoLostWakeup'
  BY DEF QInv, NoLostWakeup, Woken, notifyVars
<1>4. WaitersCounted'
  <2>1. /\ Cardinality(InRecv) \in Nat /\ Cardinality(InRecv') \in Nat
        /\ Cardinality(InRecv') <= Cardinality(InRecv)
    BY <1>0, FewerWaiting, Zenon
  <2> QED
    BY <2>1 DEF QInv, TypeOK, WaitersCounted
<1> QED
  BY <1>1, <1>2, <1>3, <1>4 DEF QInv

\* A turn of the loop of recv by a task that is awake.
LEMMA RecvLoopQInv ==
  ASSUME QInv, NEW r \in Requests, NEW p \in Nat, RecvLoop(r, p),
         \A i \in DOMAIN waiters : waiters[i] # r,
         woken' = [woken EXCEPT ![r] = "no"],
         Cardinality(InRecv \ {r}) <= p,
         UNCHANGED <<closed, max_requests>>
  PROVE  QInv'
<1>0. /\ queue \in Seq(Workers) /\ waiters \in Seq(Requests)
      /\ woken \in [Requests -> {"no", "one", "all"}] /\ stage \in [Requests -> Stages]
      /\ woken' \in [Requests -> {"no", "one", "all"}]
      /\ lent \in [Requests -> Workers \cup {None}]
      /\ closed' \in BOOLEAN /\ max_requests' \in Limits /\ permit \in BOOLEAN
      /\ Len(queue) \in Nat
      /\ "closed" \in Stages \ {"waiting"} /\ "serving" \in Stages \ {"waiting"}
      /\ "waiting" \in Stages
  BY DEF QInv, TypeOK, Stages
<1>1. \A s \in Requests : s # r => woken'[s] = woken[s]
  BY <1>0
<1>2. woken'[r] = "no"
  BY <1>0
<1>3. \A s \in Requests : /\ woken'[s] = "all" => closed
                          /\ woken'[s] # "no" => s # r /\ stage[s] = "waiting"
  BY <1>1, <1>2 DEF QInv, Wakes
<1>4. CASE closed /\ stage' = [stage EXCEPT ![r] = "closed"] /\ pending' = p
           /\ UNCHANGED <<queue, lent, waiters, permit>>
  <2>1. waiters' = <<>>
    BY <1>4 DEF QInv, Wakes
  <2>2. TypeOK'
    BY <1>0, <1>4 DEF TypeOK
  <2>3. Sleepers' /\ NoLostWakeup'
    BY <2>1 DEF Sleepers, IsInjective, NoLostWakeup
  <2>4. Wakes'
    BY <1>0, <1>3, <1>4, <2>1 DEF Wakes
  <2>5. WaitersCounted'
    BY <1>0, <1>4, FewerWaiting, Zenon DEF WaitersCounted
  <2> QED
    BY <2>2, <2>3, <2>4, <2>5 DEF QInv
<1>5. CASE /\ ~closed /\ queue # <<>>
           /\ stage' = [stage EXCEPT ![r] = "serving"]
           /\ lent' = [lent EXCEPT ![r] = Head(queue)]
           /\ queue' = Tail(queue) /\ pending' = p
           /\ UNCHANGED <<waiters, permit>>
  <2>1. /\ queue' \in Seq(Workers) /\ Len(queue') = Len(queue) - 1
        /\ Head(queue) \in Workers
    BY <1>0, <1>5, HeadTailProperties
  <2>2. TypeOK'
    BY <1>0, <1>5, <2>1 DEF TypeOK
  <2>3. Sleepers'
    BY <1>0, <1>1, <1>5 DEF QInv, Sleepers
  <2>4. Wakes'
    BY <1>0, <1>3, <1>5 DEF Wakes
  <2>5. WaitersCounted'
    BY <1>0, <1>5, FewerWaiting, Zenon DEF WaitersCounted
  <2>6. NoLostWakeup'
    <3>1. Woken' = Woken \ {r}
      BY <1>1, <1>2 DEF Woken
    <3>2. IsFiniteSet(Woken) /\ Cardinality(Woken) \in Nat
      BY CountType DEF Woken
    <3>3. Cardinality(Woken') = IF r \in Woken THEN Cardinality(Woken) - 1 ELSE Cardinality(Woken)
      BY <3>1, <3>2, FS_RemoveElement, Zenon
    <3> QED
      BY <1>0, <1>5, <2>1, <3>2, <3>3 DEF QInv, NoLostWakeup
  <2> QED
    BY <2>2, <2>3, <2>4, <2>5, <2>6 DEF QInv
<1>6. CASE /\ ~closed /\ queue = <<>>
           /\ stage' = [stage EXCEPT ![r] = "waiting"]
           /\ pending' = p + 1
           /\ waiters' = Append(waiters, r)
           /\ permit' = FALSE
           /\ UNCHANGED <<queue, lent>>
  <2>1. /\ waiters' \in Seq(Requests)
        /\ DOMAIN waiters' = 1..(Len(waiters) + 1) /\ DOMAIN waiters = 1..Len(waiters)
        /\ Len(waiters) \in Nat
        /\ waiters'[Len(waiters) + 1] = r
        /\ \A i \in 1..Len(waiters) : waiters'[i] = waiters[i]
    BY <1>0, <1>6, AppendProperties
  <2>2. TypeOK'
    <3>1. stage' \in [Requests -> Stages]
      BY <1>0, <1>6
    <3>2. pending' \in Nat
      BY <1>6
    <3>3. permit' \in BOOLEAN
      BY <1>6, Zenon
    <3> QED
      BY <1>0, <1>6, <2>1, <3>1, <3>2, <3>3, Zenon DEF TypeOK
  <2>3. Sleepers'
    <3>1. \A i \in 1..(Len(waiters) + 1) : i = Len(waiters) + 1 \/ i \in 1..Len(waiters)
      BY <2>1
    <3>2. IsInjective(waiters')
      BY <2>1, <3>1, ZenonT(30) DEF QInv, Sleepers, IsInjective
    <3>3. ASSUME NEW i \in DOMAIN waiters'
          PROVE  stage'[waiters'[i]] = "waiting" /\ woken'[waiters'[i]] = "no"
      <4>1. CASE i = Len(waiters) + 1
        BY <1>0, <1>2, <1>6, <2>1, <4>1
      <4>2. CASE i \in 1..Len(waiters)
        <5>1. /\ waiters'[i] \in Requests /\ waiters'[i] # r
              /\ stage[waiters'[i]] = "waiting" /\ woken[waiters'[i]] = "no"
          BY <1>0, <2>1, <4>2 DEF QInv, Sleepers
        <5> QED
          BY <1>0, <1>1, <1>6, <5>1
      <4> QED
        BY <2>1, <3>1, <4>1, <4>2, Zenon
    <3> QED
      BY <3>2, <3>3, Zenon DEF Sleepers
  <2>4. Wakes'
    BY <1>0, <1>3, <1>6 DEF Wakes
  <2>5. WaitersCounted'
    <3>1. InRecv' = (InRecv \ {r}) \cup {r}
      BY <1>0, <1>6 DEF InRecv
    <3>2. Cardinality(InRecv') = Cardinality(InRecv \ {r}) + 1
      BY <3>1, CountAdd DEF InRecv
    <3>3. Cardinality(InRecv \ {r}) \in Nat
      BY CountType DEF InRecv
    <3> QED
      BY <1>6, <3>2, <3>3 DEF WaitersCounted
  <2>6. NoLostWakeup'
    <3>1. Cardinality(Woken') \in Nat
      BY CountType DEF Woken
    <3> QED
      BY <1>6, <3>1 DEF NoLostWakeup
  <2> QED
    BY <2>2, <2>3, <2>4, <2>5, <2>6 DEF QInv
<1> QED
  BY <1>4, <1>5, <1>6, Zenon DEF RecvLoop

\* The first poll of recv.
LEMMA RecvQInv == ASSUME QInv, NEW r \in Requests, Recv(r) PROVE QInv'
<1>0. stage[r] = "new" /\ UNCHANGED <<closed, max_requests, woken>>
  BY DEF Recv
<1>1. CASE /\ stage' = [stage EXCEPT ![r] = "refused"]
           /\ UNCHANGED <<queue, pending, lent, waiters, permit>>
  <2>0. "refused" \in Stages \ {"waiting"}
    BY DEF Stages
  <2>1. TypeOK'
    BY <1>0, <1>1, <2>0, FewerWaiting DEF QInv, TypeOK
  <2>2. Sleepers' /\ Wakes'
    BY <1>0, <1>1 DEF QInv, TypeOK, Sleepers, Wakes
  <2>3. NoLostWakeup'
    BY <1>0, <1>1 DEF QInv, NoLostWakeup, Woken
  <2>4. /\ Cardinality(InRecv) \in Nat /\ Cardinality(InRecv') \in Nat
        /\ Cardinality(InRecv') <= Cardinality(InRecv)
    BY <1>1, <2>0, FewerWaiting, Zenon
  <2>5. WaitersCounted'
    BY <1>1, <2>4 DEF QInv, TypeOK, WaitersCounted
  <2> QED
    BY <2>1, <2>2, <2>3, <2>5 DEF QInv
<1>2. CASE RecvLoop(r, pending)
  <2>1. woken \in [Requests -> {"no", "one", "all"}] /\ pending \in Nat
    BY DEF QInv, TypeOK
  <2>2. woken[r] = "no" /\ \A i \in DOMAIN waiters : waiters[i] # r
    BY <1>0 DEF QInv, Sleepers, Wakes
  <2>3. woken' = [woken EXCEPT ![r] = "no"]
    BY <1>0, <2>1, <2>2
  <2>4. InRecv \ {r} = InRecv
    BY <1>0 DEF InRecv
  <2>5. Cardinality(InRecv \ {r}) <= pending
    BY <2>4 DEF QInv, WaitersCounted
  <2> QED
    BY <1>0, <1>2, <2>1, <2>2, <2>3, <2>5, RecvLoopQInv, Zenon
<1> QED
  BY <1>1, <1>2, Zenon DEF Recv

\* A woken task goes on: the counter stands for it and can go down.
LEMMA WakeQInv == ASSUME QInv, NEW r \in Requests, Wake(r) PROVE QInv'
<1>0. /\ woken[r] # "no" /\ woken' = [woken EXCEPT ![r] = "no"]
      /\ UNCHANGED <<closed, max_requests>> /\ RecvLoop(r, pending - 1)
  BY DEF Wake
<1>1. r \in InRecv /\ \A i \in DOMAIN waiters : waiters[i] # r
  BY <1>0 DEF QInv, Sleepers, Wakes, InRecv
<1>2. InRecv \in SUBSET Requests
  BY DEF InRecv
<1>3. Cardinality(InRecv \ {r}) = Cardinality(InRecv) - 1 /\ Cardinality(InRecv) > 0
  BY <1>1, <1>2, CountRemove
<1>4. Cardinality(InRecv) \in Nat /\ pending \in Nat /\ Cardinality(InRecv) <= pending
  BY <1>2, CountType DEF QInv, TypeOK, WaitersCounted
<1>5. pending - 1 \in Nat /\ Cardinality(InRecv \ {r}) <= pending - 1
  BY <1>3, <1>4
<1> QED
  BY <1>0, <1>1, <1>5, RecvLoopQInv, Zenon

\* A list of distinct requests without one of them.
LEMMA LeaveList ==
  ASSUME NEW s \in Seq(Requests), NEW i \in DOMAIN s, NEW t, IsInjective(s),
         t = [j \in 1..(Len(s) - 1) |-> s[IF j < i THEN j ELSE j + 1]]
  PROVE  /\ t \in Seq(Requests)
         /\ IsInjective(t)
         /\ \A j \in DOMAIN t : t[j] # s[i] /\ \E k \in DOMAIN s : t[j] = s[k]
<1> DEFINE n == Len(s)
           old == [j \in 1..(n - 1) |-> IF j < i THEN j ELSE j + 1]
<1>0. n \in Nat /\ DOMAIN s = 1..n /\ i \in 1..n /\ n - 1 \in Nat
  OBVIOUS
<1>1. \A k \in 1..n : s[k] \in Requests
  BY ElementOfSeq
<1>2. DOMAIN t = 1..(n - 1) /\ \A j \in 1..(n - 1) : t[j] = s[old[j]]
  BY Zenon
<1> HIDE DEF n
<1>3. \A j \in 1..(n - 1) : old[j] \in 1..n /\ old[j] # i
  BY <1>0
<1>4. \A j, k \in 1..(n - 1) : old[j] = old[k] => j = k
  BY <1>0
<1> HIDE DEF old
<1>5. \A j \in 1..(n - 1) : t[j] \in Requests
  BY <1>3, <1>2, <1>1, Zenon
<1>6. \A j, k \in 1..n : s[j] = s[k] => j = k
  BY <1>0, Zenon DEF IsInjective
<1>7. \A j, k \in 1..(n - 1) : t[j] = t[k] => j = k
  <2> SUFFICES ASSUME NEW j \in 1..(n - 1), NEW k \in 1..(n - 1), t[j] = t[k] PROVE j = k
    BY Zenon
  <2>1. old[j] \in 1..n /\ old[k] \in 1..n /\ s[old[j]] = s[old[k]]
    BY <1>3, <1>2, Zenon
  <2> QED
    BY <1>4, <1>6, <2>1, ZenonT(30)
<1>8. IsInjective(t)
  BY <1>2, <1>7, Zenon DEF IsInjective
<1>9. t \in Seq(Requests)
  <2>1. t = [j \in 1..(n - 1) |-> t[j]]
    BY <1>2, Zenon DEF n
  <2>2. t \in [1..(n - 1) -> Requests]
    BY <1>5, <2>1, ZenonT(30)
  <2> QED
    BY <1>0, <2>2, SeqDef
<1>10. \A j \in DOMAIN t : t[j] # s[i] /\ \E k \in DOMAIN s : t[j] = s[k]
  <2> SUFFICES ASSUME NEW j \in 1..(n - 1)
               PROVE  t[j] # s[i] /\ \E k \in 1..n : t[j] = s[k]
    BY <1>0, <1>2, Zenon
  <2>1. t[j] = s[old[j]] /\ old[j] \in 1..n /\ old[j] # i
    BY <1>2, <1>3, Zenon
  <2>2. s[old[j]] # s[i]
    BY <1>0, <1>6, <2>1, Zenon
  <2> QED
    BY <2>1, <2>2, Zenon
<1> QED
  BY <1>8, <1>9, <1>10, Zenon

\* A list of distinct requests without its head.
LEMMA LeaveHead ==
  ASSUME NEW s \in Seq(Requests), s # <<>>, IsInjective(s)
  PROVE  /\ Head(s) \in Requests /\ 1 \in DOMAIN s /\ Head(s) = s[1]
         /\ Tail(s) \in Seq(Requests)
         /\ IsInjective(Tail(s))
         /\ \A j \in DOMAIN Tail(s) :
               Tail(s)[j] # Head(s) /\ \E k \in DOMAIN s : Tail(s)[j] = s[k]
<1> DEFINE n == Len(s)
           t == Tail(s)
<1>1. /\ n \in Nat /\ DOMAIN s = 1..n /\ 1 \in 1..n /\ Head(s) \in Requests /\ Head(s) = s[1]
      /\ t \in Seq(Requests) /\ DOMAIN t = 1..(n - 1)
      /\ \A j \in 1..(n - 1) : t[j] = s[j + 1]
  BY HeadTailProperties
<1> HIDE DEF n, t
<1>2. /\ \A j \in 1..(n - 1) : j + 1 \in 1..n /\ j + 1 # 1
      /\ \A j, k \in 1..(n - 1) : j + 1 = k + 1 => j = k
  BY <1>1
<1>3. \A j, k \in 1..n : s[j] = s[k] => j = k
  BY <1>1, Zenon DEF IsInjective
<1>4. ASSUME NEW j \in 1..(n - 1), NEW k \in 1..(n - 1), t[j] = t[k] PROVE j = k
  <2>1. s[j + 1] = s[k + 1] /\ j + 1 \in 1..n /\ k + 1 \in 1..n
    BY <1>1, <1>2, <1>4, Zenon
  <2>2. j + 1 = k + 1
    BY <1>3, <2>1, Zenon
  <2> QED
    BY <1>2, <2>2, Zenon
<1>5. IsInjective(t)
  BY <1>1, <1>4, Zenon DEF IsInjective
<1>6. ASSUME NEW j \in DOMAIN t PROVE t[j] # s[1] /\ \E k \in DOMAIN s : t[j] = s[k]
  <2>1. t[j] = s[j + 1] /\ j + 1 \in 1..n /\ j + 1 # 1
    BY <1>1, <1>2, Zenon
  <2>2. s[j + 1] # s[1]
    BY <1>1, <1>3, <2>1, Zenon
  <2> QED
    BY <1>1, <2>1, <2>2, Zenon
<1> QED
  BY <1>1, <1>5, <1>6, Zenon DEF t

\* A waiting task is dropped.  If it was woken for a worker, the next sleeper
\* is woken in its place.
LEMMA CancelQInv == ASSUME QInv, NEW r \in Requests, Cancel(r) PROVE QInv'
<1>0. /\ stage[r] = "waiting" /\ stage' = [stage EXCEPT ![r] = "cancelled"]
      /\ UNCHANGED <<queue, closed, pending, max_requests, lent>> /\ DropNotified(r)
  BY DEF Cancel
<1>1. "cancelled" \in Stages \ {"waiting"}
  BY DEF Stages
<1>2. /\ stage' \in [Requests -> Stages]
      /\ Cardinality(InRecv) \in Nat /\ Cardinality(InRecv') \in Nat
      /\ Cardinality(InRecv') <= Cardinality(InRecv)
  BY <1>0, <1>1, FewerWaiting, Zenon
<1>3. WaitersCounted'
  BY <1>0, <1>2 DEF QInv, TypeOK, WaitersCounted
<1>4. /\ waiters \in Seq(Requests) /\ woken \in [Requests -> {"no", "one", "all"}]
      /\ stage \in [Requests -> Stages] /\ Len(queue) \in Nat
      /\ IsInjective(waiters)
      /\ \A i \in DOMAIN waiters : /\ waiters[i] \in Requests
                                   /\ stage[waiters[i]] = "waiting"
                                   /\ woken[waiters[i]] = "no"
  BY ElementOfSeq DEF QInv, TypeOK, Sleepers
<1>5. \A s \in Requests : s # r => stage'[s] = stage[s]
  BY <1>0, <1>4
<1>6. SUFFICES /\ waiters' \in Seq(Requests) /\ permit' \in BOOLEAN
               /\ woken' \in [Requests -> {"no", "one", "all"}]
               /\ Sleepers' /\ Wakes' /\ NoLostWakeup'
  BY <1>0, <1>2, <1>3, Zenon DEF QInv, TypeOK
<1>7. CASE /\ \E i \in DOMAIN waiters :
                /\ waiters[i] = r
                /\ waiters' = [j \in 1..(Len(waiters) - 1) |->
                                 waiters[IF j < i THEN j ELSE j + 1]]
           /\ UNCHANGED <<permit, woken>>
  <2>1. PICK i \in DOMAIN waiters :
          /\ waiters[i] = r
          /\ waiters' = [j \in 1..(Len(waiters) - 1) |->
                           waiters[IF j < i THEN j ELSE j + 1]]
    BY <1>7, Zenon
  <2>2. /\ waiters' \in Seq(Requests) /\ IsInjective(waiters')
        /\ \A j \in DOMAIN waiters' : /\ waiters'[j] # waiters[i]
                                      /\ \E k \in DOMAIN waiters : waiters'[j] = waiters[k]
    <3>1. waiters \in Seq(Requests) /\ IsInjective(waiters)
      BY <1>4, Zenon
    <3> QED
      BY <2>1, <3>1, LeaveList
  <2>3. \A j \in DOMAIN waiters' : /\ waiters'[j] \in Requests /\ waiters'[j] # r
                                   /\ stage[waiters'[j]] = "waiting"
                                   /\ woken[waiters'[j]] = "no"
    <3> TAKE j \in DOMAIN waiters'
    <3>1. waiters'[j] # r /\ \E k \in DOMAIN waiters : waiters'[j] = waiters[k]
      BY <2>1, <2>2, Zenon
    <3>2. PICK k \in DOMAIN waiters : waiters'[j] = waiters[k]
      BY <3>1, Zenon
    <3>3. /\ waiters[k] \in Requests /\ stage[waiters[k]] = "waiting"
          /\ woken[waiters[k]] = "no"
      BY <1>4, Zenon
    <3> QED
      BY <3>1, <3>2, <3>3, Zenon
  <2>4. Sleepers'
    BY <1>5, <1>7, <2>2, <2>3, Zenon DEF Sleepers
  <2>5. woken[r] = "no" /\ waiters # <<>> /\ ~closed
    <3>1. woken[r] = "no"
      BY <1>4, <2>1, Zenon
    <3>2. waiters # <<>>
      BY <2>1
    <3> QED
      BY <3>1, <3>2, Zenon DEF QInv, Wakes
  <2>6. Wakes'
    <3>1. \A s \in Requests : woken'[s] # "no" => stage'[s] = "waiting"
      BY <1>5, <1>7, <2>5, Zenon DEF QInv, Wakes
    <3> QED
      BY <1>0, <1>7, <2>5, <3>1, Zenon DEF QInv, Wakes
  <2>7. NoLostWakeup'
    BY <1>0, <1>7, <2>5, Zenon DEF QInv, NoLostWakeup, Woken
  <2> QED
    BY <1>4, <1>7, <2>2, <2>4, <2>6, <2>7, Zenon DEF QInv, TypeOK
<1>8. CASE /\ woken[r] = "one"
           /\ woken' = [s \in Requests |->
                          IF s = r THEN "no"
                          ELSE IF waiters # <<>> /\ s = Head(waiters) THEN "one"
                          ELSE woken[s]]
           /\ waiters' = IF waiters = <<>> THEN <<>> ELSE Tail(waiters)
           /\ permit' = (permit \/ waiters = <<>>)
  <2>0. permit' \in BOOLEAN
    BY <1>8, Zenon
  <2>1. woken' \in [Requests -> {"no", "one", "all"}]
    BY <1>4, <1>8
  <2>2. CASE waiters = <<>>
    <3>1. waiters' = <<>>
      BY <1>8, <2>2
    <3>2. Sleepers' /\ NoLostWakeup'
      BY <3>1 DEF Sleepers, NoLostWakeup, IsInjective
    <3>3. \A s \in Requests : (s = r => woken'[s] = "no") /\ (s # r => woken'[s] = woken[s])
      BY <1>8, <2>2
    <3>4. \A s \in Requests : woken'[s] # "no" => stage'[s] = "waiting"
      BY <1>5, <3>3, Zenon DEF QInv, Wakes
    <3>5. \A s \in Requests : woken'[s] = "all" => closed'
      BY <1>0, <3>3 DEF QInv, Wakes
    <3> QED
      BY <2>0, <2>1, <3>1, <3>2, <3>4, <3>5 DEF Wakes
  <2>3. CASE waiters # <<>>
    <3> DEFINE h == Head(waiters)
    <3>1. /\ h \in Requests /\ 1 \in DOMAIN waiters /\ h = waiters[1]
          /\ waiters' \in Seq(Requests) /\ IsInjective(waiters')
          /\ \A j \in DOMAIN waiters' : /\ waiters'[j] # h
                                        /\ \E k \in DOMAIN waiters : waiters'[j] = waiters[k]
      <4>1. waiters' = Tail(waiters)
        BY <1>8, <2>3, Zenon
      <4>2. waiters \in Seq(Requests) /\ IsInjective(waiters)
        BY <1>4, Zenon
      <4> QED
        BY <2>3, <4>1, <4>2, LeaveHead, Zenon
    <3> HIDE DEF h
    <3>2. woken[h] = "no" /\ stage[h] = "waiting" /\ h # r
      BY <1>4, <1>8, <3>1, Zenon
    <3>3. \A s \in Requests : /\ s = r => woken'[s] = "no"
                              /\ s = h => woken'[s] = "one"
                              /\ s # r /\ s # h => woken'[s] = woken[s]
      BY <1>8, <2>3, <3>2, Zenon DEF h
    <3>4. ~closed
      BY <2>3 DEF QInv, Wakes
    <3>5. Wakes'
      <4>1. \A s \in Requests : woken'[s] # "no" => stage'[s] = "waiting"
        BY <1>5, <3>2, <3>3, Zenon DEF QInv, Wakes
      <4>2. \A s \in Requests : woken'[s] = "all" => closed'
        BY <1>0, <3>3 DEF QInv, Wakes
      <4> QED
        BY <1>0, <3>4, <4>1, <4>2, Zenon DEF Wakes
    <3>6. Sleepers'
      <4>1. \A j \in DOMAIN waiters' : /\ waiters'[j] \in Requests /\ waiters'[j] # h
                                       /\ stage[waiters'[j]] = "waiting"
                                       /\ woken[waiters'[j]] = "no"
        <5> TAKE j \in DOMAIN waiters'
        <5>1. waiters'[j] # h /\ \E k \in DOMAIN waiters : waiters'[j] = waiters[k]
          BY <3>1, Zenon
        <5>2. PICK k \in DOMAIN waiters : waiters'[j] = waiters[k]
          BY <5>1, Zenon
        <5>3. /\ waiters[k] \in Requests /\ stage[waiters[k]] = "waiting"
              /\ woken[waiters[k]] = "no"
          BY <1>4, Zenon
        <5> QED
          BY <5>1, <5>2, <5>3, Zenon
      <4>2. \A j \in DOMAIN waiters' : waiters'[j] # r
        BY <1>8, <4>1
      <4> QED
        <5>1. \A j \in DOMAIN waiters' : /\ stage'[waiters'[j]] = "waiting"
                                         /\ woken'[waiters'[j]] = "no"
          <6> TAKE j \in DOMAIN waiters'
          <6>1. /\ waiters'[j] \in Requests /\ waiters'[j] # h /\ waiters'[j] # r
                /\ stage[waiters'[j]] = "waiting" /\ woken[waiters'[j]] = "no"
            BY <4>1, <4>2, Zenon
          <6> QED
            BY <1>5, <3>3, <6>1, Zenon
        <5> QED
          BY <3>1, <5>1, Zenon DEF Sleepers
    <3>7. NoLostWakeup'
      <4>1. Woken' = (Woken \ {r}) \cup {h}
        <5>1. \A x \in Requests : woken'[x] = "one" <=> (woken[x] = "one" /\ x # r) \/ x = h
          BY <3>2, <3>3
        <5> QED
          BY <3>1, <5>1, Zenon DEF Woken
      <4>2. r \in Woken /\ h \notin Woken \ {r} /\ Woken \in SUBSET Requests
        BY <1>8, <3>2 DEF Woken
      <4>3. /\ Cardinality(Woken \ {r}) = Cardinality(Woken) - 1 /\ Cardinality(Woken) \in Nat
        BY <4>2, CountRemove, CountType
      <4>4. Cardinality(Woken') = Cardinality(Woken \ {r}) + 1
        BY <3>1, <4>1, <4>2, CountAdd, Zenon
      <4> QED
        <5>1. Cardinality(Woken') = Cardinality(Woken)
          BY <4>3, <4>4
        <5> QED
          BY <1>0, <2>3, <5>1, Zenon DEF QInv, NoLostWakeup
    <3> QED
      BY <2>0, <2>1, <3>1, <3>5, <3>6, <3>7, Zenon
  <2> QED
    BY <2>2, <2>3, Zenon
<1>9. CASE /\ woken[r] = "all" /\ woken' = [woken EXCEPT ![r] = "no"]
           /\ UNCHANGED <<waiters, permit>>
  <2>1. waiters' = <<>> /\ closed
    BY <1>9 DEF QInv, Wakes
  <2>2. Sleepers' /\ NoLostWakeup'
    BY <2>1 DEF Sleepers, NoLostWakeup, IsInjective
  <2>3. Wakes'
    BY <1>0, <1>4, <1>5, <1>9, <2>1 DEF QInv, Wakes
  <2>4. permit' \in BOOLEAN
    BY <1>9, Zenon DEF QInv, TypeOK
  <2>5. woken' \in [Requests -> {"no", "one", "all"}]
    BY <1>4, <1>9
  <2> QED
    BY <2>1, <2>2, <2>3, <2>4, <2>5
<1> QED
  BY <1>0, <1>7, <1>8, <1>9, Zenon DEF DropNotified

\* Before the first request nobody waits.
LEMMA InitQInv == Init => QInv
<1> SUFFICES ASSUME Init PROVE QInv
  OBVIOUS
<1>1. TypeOK
  <2>1. queue \in Seq(Workers) /\ waiters \in Seq(Requests) /\ pending \in Nat
    BY DEF Init
  <2>2. closed \in BOOLEAN /\ permit \in BOOLEAN /\ max_requests \in Limits
    BY Zenon DEF Init
  <2>3. /\ woken \in [Requests -> {"no", "one", "all"}] /\ stage \in [Requests -> Stages]
        /\ lent \in [Requests -> Workers \cup {None}]
    BY DEF Init, Stages
  <2> QED
    BY <2>1, <2>2, <2>3 DEF TypeOK
<1>2. Sleepers /\ Wakes /\ NoLostWakeup
  BY DEF Init, Sleepers, Wakes, NoLostWakeup, IsInjective
<1>3. InRecv = {}
  BY DEF Init, InRecv
<1>4. Cardinality(InRecv) = 0 /\ pending = 0
  BY <1>3, FS_EmptySet, Zenon DEF Init
<1>5. WaitersCounted
  BY <1>4 DEF WaitersCounted
<1> QED
  BY <1>1, <1>2, <1>5 DEF QInv

\* The operations of the pool and of the recycler.
LEMMA SendQInv == ASSUME QInv, NEW w \in Workers, Send(w) PROVE QInv'
<1>1. queue' \in Seq(Workers) /\ Len(queue') = Len(queue) + 1
  BY AppendProperties DEF Send, QInv, TypeOK
<1> QED
  BY <1>1, PushQInv, Zenon DEF Send

LEMMA SendAllQInv == ASSUME QInv, NEW s \in Batches, SendAll(s) PROVE QInv'
<1>1. PICK n \in 1..Cardinality(Workers) : s \in [1..n -> Workers]
  BY DEF Batches
<1>2. n \in Nat
  BY WorkersAssumption, FS_CardinalityType
<1>3. s \in Seq(Workers)
  BY <1>1, <1>2
<1>4. /\ queue' \in Seq(Workers) /\ Len(queue') = Len(queue) + Len(s)
      /\ Len(s) \in Nat
  BY <1>3, ConcatProperties DEF SendAll, QInv, TypeOK
<1> QED
  BY <1>4, PushQInv, Zenon DEF SendAll

LEMMA DrainQInv == ASSUME QInv, NEW n, Drain(n) PROVE QInv'
<1>1. queue' \in Seq(Workers) /\ Len(queue') <= Len(queue)
  <2>1. queue \in Seq(Workers) /\ n \in 1..Len(queue) /\ Len(queue) \in Nat
        /\ queue' = SubSeq(queue, n + 1, Len(queue))
    BY DEF Drain, QInv, TypeOK
  <2> QED
    BY <2>1
<1> QED
  BY <1>1, PullQInv, Zenon DEF Drain

LEMMA RetainQInv == ASSUME QInv, NEW m \in 0..Cardinality(Workers), Retain(m) PROVE QInv'
<1>1. m \in Nat
  BY WorkersAssumption, FS_CardinalityType
<1>2. PICK kept \in [1..m -> DOMAIN queue] : queue' = [i \in 1..m |-> queue[kept[i]]]
  BY DEF Retain
<1>3. queue \in Seq(Workers) /\ m < Len(queue) /\ Len(queue) \in Nat
  BY DEF Retain, QInv, TypeOK
<1>4. \A i \in 1..m : queue[kept[i]] \in Workers
  BY <1>3, ElementOfSeq
<1>5. queue' \in Seq(Workers) /\ Len(queue') = m
  BY <1>1, <1>2, <1>4
<1>6. Len(queue') <= Len(queue)
  BY <1>1, <1>3, <1>5
<1> QED
  BY <1>5, <1>6, PullQInv, Zenon DEF Retain

LEMMA PatchQInv == ASSUME QInv, NEW m \in Limits, PatchLimit(m) PROVE QInv'
BY DEF PatchLimit, QInv, TypeOK, Sleepers, Wakes, NoLostWakeup, Woken, WaitersCounted,
       InRecv, notifyVars

\* QInv is inductive.
LEMMA NextQInv == QInv /\ [Next]_vars => QInv'
<1> SUFFICES ASSUME QInv, [Next]_vars PROVE QInv'
  OBVIOUS
<1>1. ASSUME NEW r \in Requests, Recv(r) \/ Wake(r) \/ Cancel(r) \/ Finish(r) PROVE QInv'
  BY <1>1, RecvQInv, WakeQInv, CancelQInv, FinishQInv, Zenon
<1>2. ASSUME NEW w \in Workers, Send(w) PROVE QInv'
  BY <1>2, SendQInv, Zenon
<1>3. ASSUME NEW s \in Batches, SendAll(s) PROVE QInv'
  BY <1>3, SendAllQInv, Zenon
<1>4. ASSUME NEW n \in 1..Cardinality(Workers), Drain(n) PROVE QInv'
  BY <1>4, DrainQInv, Zenon
<1>5. ASSUME NEW m \in 0..Cardinality(Workers), Retain(m) PROVE QInv'
  BY <1>5, RetainQInv, Zenon
<1>6. CASE Close
  BY <1>6, CloseQInv, Zenon
<1>7. ASSUME NEW m \in Limits, PatchLimit(m) PROVE QInv'
  BY <1>7, PatchQInv, Zenon
<1>8. CASE UNCHANGED vars
  BY <1>8 DEF vars, QInv, TypeOK, Sleepers, Wakes, NoLostWakeup, Woken, WaitersCounted, InRecv
<1> QED
  BY <1>1, <1>2, <1>3, <1>4, <1>5, <1>6, <1>7, <1>8, Zenon DEF Next

-----------------------------------------------------------------------------
(* Theorems *)

\* The inductive invariant holds throughout.
THEOREM QueueInvariant == Spec => []QInv
BY InitQInv, NextQInv, PTL DEF Spec

\* The state of the queue keeps its types; in particular the counter behind
\* num_waiters() never wraps around.
THEOREM QueueTypes == Spec => []TypeOK
<1>1. QInv => TypeOK
  BY DEF QInv
<1> QED
  BY <1>1, QueueInvariant, PTL

\* Whatever the order of sends, receptions and dropped futures, no idle worker
\* lies in the queue while all the tasks that could take it sleep.
THEOREM QueueNoLostWakeup == Spec => []NoLostWakeup
<1>1. QInv => NoLostWakeup
  BY DEF QInv
<1> QED
  BY <1>1, QueueInvariant, PTL

\* num_waiters() counts every task that waits.
THEOREM QueueWaitersCounted == Spec => []WaitersCounted
<1>1. QInv => WaitersCounted
  BY DEF QInv
<1> QED
  BY <1>1, QueueInvariant, PTL

\* A step of request r moves no other request.
LEMMA OneRequest ==
  ASSUME QInv, NEW r \in Requests, Recv(r) \/ Wake(r) \/ Cancel(r) \/ Finish(r)
  PROVE  /\ closed => stage'[r] \in {"refused", "closed", "cancelled", "done"}
         /\ \A s \in Requests : s # r => stage'[s] = stage[s]
         /\ closed' = closed
<1>1. PICK x : stage' = [stage EXCEPT ![r] = x]
  BY Zenon DEF Recv, Wake, Cancel, Finish, RecvLoop
<1>2. stage \in [Requests -> Stages] /\ closed' = closed
  BY DEF QInv, TypeOK, Recv, Wake, Cancel, Finish
<1>3. \A s \in Requests : s # r => stage'[s] = stage[s]
  BY <1>1, <1>2
<1>4. CASE Recv(r) \/ Wake(r)
  <2>1. closed => \/ stage' = [stage EXCEPT ![r] = "refused"]
                  \/ stage' = [stage EXCEPT ![r] = "closed"]
    BY <1>4, Zenon DEF Recv, Wake, RecvLoop
  <2>2. closed => stage'[r] \in {"refused", "closed", "cancelled", "done"}
    BY <1>2, <2>1
  <2> QED
    BY <1>2, <1>3, <2>2, Zenon
<1>5. CASE Cancel(r) \/ Finish(r)
  <2>1. \/ stage' = [stage EXCEPT ![r] = "cancelled"]
        \/ stage' = [stage EXCEPT ![r] = "done"]
    BY <1>5, Zenon DEF Cancel, Finish
  <2>2. stage'[r] \in {"refused", "closed", "cancelled", "done"}
    BY <1>2, <2>1
  <2> QED
    BY <1>2, <1>3, <2>2, Zenon
<1> QED
  BY <1>4, <1>5, Zenon

\* The pool and the recycler move no request.
LEMMA PoolSide ==
  ASSUME Next, ~ \E r \in Requests : Recv(r) \/ Wake(r) \/ Cancel(r) \/ Finish(r)
  PROVE  stage' = stage /\ (closed' = closed \/ closed' = TRUE)
<1>1. stage' = stage
  BY DEF Next, Send, SendAll, Drain, Retain, Close, PatchLimit
<1>2. closed' = closed \/ closed' = TRUE
  BY DEF Next, Send, SendAll, Drain, Retain, Close, PatchLimit
<1> QED
  BY <1>1, <1>2, Zenon

\* After close(), recv hands out no worker and nobody starts to wait, although
\* recycled workers still come back to the queue.
THEOREM QueueClosedForGood == Spec => ClosedForGood
<1> DEFINE Step == closed => /\ closed'
                             /\ \A r \in Requests :
                                  stage'[r] \in {"serving", "waiting"} => stage'[r] = stage[r]
<1>1. QInv /\ [Next]_vars => [Step]_vars
  <2> SUFFICES ASSUME QInv, Next, closed PROVE Step
    OBVIOUS
  <2>1. CASE \E r \in Requests : Recv(r) \/ Wake(r) \/ Cancel(r) \/ Finish(r)
    <3>1. PICK r \in Requests : Recv(r) \/ Wake(r) \/ Cancel(r) \/ Finish(r)
      BY <2>1, Zenon
    <3>2. /\ stage'[r] \in {"refused", "closed", "cancelled", "done"}
          /\ \A s \in Requests : s # r => stage'[s] = stage[s]
          /\ closed' = closed
      BY <3>1, OneRequest, Zenon
    <3> QED
      BY <3>2
  <2>2. CASE ~ \E r \in Requests : Recv(r) \/ Wake(r) \/ Cancel(r) \/ Finish(r)
    <3>1. stage' = stage /\ (closed' = closed \/ closed' = TRUE)
      BY <2>2, PoolSide, Zenon
    <3>2. closed = TRUE
      BY Zenon DEF QInv, TypeOK
    <3> QED
      BY <3>1, <3>2, Zenon
  <2> QED
    BY <2>1, <2>2
<1> QED
  BY <1>1, QueueInvariant, PTL DEF Spec, ClosedForGood

\* The admission test of WorkerQueue::recv bounds the number of tasks that
\* wait: the counter it reads stands for all of them (WaitersCounted).
THEOREM QueueAdmissionBound == Spec => AdmissionBound
<1> DEFINE Step == \A r \in Requests : stage[r] = "new" /\ stage'[r] = "waiting"
                                       => Cardinality(InRecv') <= max_requests + 1
<1>1. QInv /\ [Next]_vars => [Step]_vars
  <2> SUFFICES ASSUME QInv, Next, NEW r \in Requests, stage[r] = "new", stage'[r] = "waiting"
               PROVE  Cardinality(InRecv') <= max_requests + 1
    OBVIOUS
  <2>0. stage \in [Requests -> Stages] /\ pending \in Nat /\ max_requests \in Nat
    BY LimitsAssumption DEF QInv, TypeOK
  <2>1. PICK s \in Requests : Recv(s) \/ Wake(s) \/ Cancel(s) \/ Finish(s)
    BY PoolSide
  <2>2. /\ s = r
        /\ \A x \in Requests : x # r => stage'[x] = stage[x]
    <3>1. \A x \in Requests : x # s => stage'[x] = stage[x]
      BY <2>1, OneRequest, Zenon
    <3> QED
      BY <3>1
  <2>3. Recv(r)
    <3>1. stage[r] # "waiting" /\ woken[r] = "no"
      BY DEF QInv, Wakes
    <3> QED
      BY <2>1, <2>2, <3>1, Zenon DEF Wake, Cancel, Finish
  <2>4. pending <= max_requests
    <3>1. stage' # [stage EXCEPT ![r] = "refused"]
      BY <2>0
    <3> QED
      BY <2>3, <3>1, Zenon DEF Recv
  <2>5. InRecv' = InRecv \cup {r} /\ r \notin InRecv /\ InRecv \in SUBSET Requests
    BY <2>2 DEF InRecv
  <2>6. Cardinality(InRecv') = Cardinality(InRecv) + 1 /\ Cardinality(InRecv) \in Nat
    BY <2>5, CountAdd, CountType, Zenon
  <2> QED
    BY <2>0, <2>4, <2>6 DEF QInv, WaitersCounted
<1> QED
  BY <1>1, QueueInvariant, PTL DEF Spec, AdmissionBound
=============================================================================
