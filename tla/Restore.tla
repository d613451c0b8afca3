------------------------------- MODULE Restore -------------------------------
(***************************************************************************)
(* Keeping the workers' project caches and configurations in step          *)
(* (qjazz-pool/src/restore.rs), with the operations that write the log     *)
(* (receiver.rs, the cache and configuration services of admin.rs) and     *)
(* those that replay it (recycle_owned and grow in pool.rs).               *)
(*                                                                         *)
(* The log is behind a read-write lock.  A worker is resynchronised under  *)
(* the read lock, and what the replay sends changes that worker only: the  *)
(* whole replay is one action.  A writer drains the queue and writes the   *)
(* log without awaiting: one action too.  The workers launched by grow ask *)
(* for the read lock in one poll and are queued as the last of them lets   *)
(* it go, so their resynchronisation is one action as well; it ends under  *)
(* the lock of the pool, which patch_config takes too.                     *)
(*                                                                         *)
(* A project is cached or not, pinned or not.  Its version is left out: a  *)
(* Volatile project may be outdated, or fail to load, whenever it is       *)
(* looked at.  Popularity is left out: any project that is not pinned may  *)
(* be the least popular.                                                   *)
(***************************************************************************)
EXTENDS Naturals, FiniteSets, Sequences, SequencesExt

CONSTANTS
  Workers,
  Projects,
  Restored,    \* restore_projects of the configuration
  Volatile,    \* the projects whose file may change, come and go
  MaxProjects, \* max_projects, the size of a cache
  Keys,        \* configuration keys; a patch sets one
  Kinds,       \* the operations that the administrator uses
  Named,       \* the projects that they name; requests name any
  MaxUpdate    \* bound on the number of updates and of patches

ASSUME ProjectsAssumption ==
  Restored \subseteq Projects /\ Volatile \subseteq Projects /\ Named \subseteq Projects
ASSUME MaxProjectsAssumption == MaxProjects \in Nat /\ Cardinality(Restored) <= MaxProjects
ASSUME KindsAssumption == Kinds \subseteq {"pull", "remove", "clear", "update", "config"}
ASSUME MaxUpdateAssumption == MaxUpdate \in Nat

VARIABLES
  update, pulls, config, states,   \* Restore
  doc,           \* the configuration new workers are launched with
  patches,       \* number of patches so far; a patch is named by its rank
  published,     \* the last patch of each key given to update_config (auxiliary)
  patching,      \* set_config calls between patch_config and update_config
  lock,          \* who grows the pool: "free", "rescale" or "patch"
  stored,        \* the projects whose file exists
  st,            \* where each worker is
  job,           \* what the service that holds the worker will log
  last_update, cache, conf         \* Worker, and its child process

logVars == <<update, pulls, config, states>>
confVars == <<doc, patches, published, patching, lock>>
workerVars == <<last_update, cache, conf>>
vars == <<logVars, confVars, stored, st, job, workerVars>>

\* Where a worker is: not running; launched by a grow under way; queued; with a
\* request; with a cache service; with the recycler.
Places == {"none", "fresh", "idle", "held", "admin", "recycling"}

NoJob == [kind |-> "none"]
OnProject(kind, p) == [kind |-> kind, uri |-> p]
Jobs == {OnProject(k, p) : k \in {"pull", "remove"}, p \in Projects}
States == Jobs \cup {[kind |-> "clear"]}

Queued == {w \in Workers : st[w] = "idle"}

\* The cache of a child process: its entries, and the pinned ones.
Caches == [loaded : SUBSET Projects, pinned : SUBSET Projects]

Empty == [loaded |-> {}, pinned |-> {}]

\* A server that has just launched its workers and served nothing yet.
Init ==
  /\ update = 0 /\ pulls = Restored /\ states = <<>>
  /\ config = [rev |-> 0, key |-> CHOOSE k \in Keys : TRUE, val |-> 0]
  /\ doc = [k \in Keys |-> 0] /\ published = doc /\ patches = 0 /\ patching = <<>> /\ lock = "free"
  /\ stored = Projects
  /\ st = [w \in Workers |-> "idle"]
  /\ job = [w \in Workers |-> NoJob]
  /\ last_update = [w \in Workers |-> 0]
  /\ cache = [w \in Workers |-> [loaded |-> Restored, pinned |-> Restored]]
  /\ conf = [w \in Workers |-> doc]

-----------------------------------------------------------------------------
(* What the child process does *)

\* _delete_cache_entry
Without(c, p) == [loaded |-> c.loaded \ {p}, pinned |-> c.pinned \ {p}]

\* Mutant of Pinned: an entry that is already there is left as it is.
PinnedIfNew(c, p) ==
  IF p \in c.loaded THEN c ELSE [loaded |-> c.loaded \cup {p}, pinned |-> c.pinned \cup {p}]

\* The entry is loaded, reloaded or left, and pinned.
Pinned(c, p) == [loaded |-> c.loaded \cup {p}, pinned |-> c.pinned \cup {p}]

\* A new entry: unpinned, also when it replaces one that was pinned.
Unpinned(c, p) == [loaded |-> c.loaded \cup {p}, pinned |-> c.pinned \ {p}]

\* evict_project_from_cache, before a NEW project: the caches it may leave, none
\* when the cache is full of pinned projects.
Room(c) ==
  IF Cardinality(c.loaded) < MaxProjects
  THEN {c}
  ELSE {Without(c, e) : e \in c.loaded \ c.pinned}

\* checkout_project with pull set, when it succeeds.
Checkout(c, p) ==
  IF p \notin stored
  THEN {Without(c, p)}
  ELSE {Pinned(d, p) : d \in IF p \in c.loaded THEN {c} ELSE Room(c)}

\* The same when it answers with a failure: the cache is full, or the project
\* does not load and has lost its entry, or another one has.
CheckoutFails(c, p) ==
  (IF p \in stored \ c.loaded /\ Room(c) = {} THEN {c} ELSE {})
    \cup (IF p \notin stored \cap Volatile THEN {}
          ELSE IF p \in c.loaded THEN {Without(c, p)} ELSE Room(c))

\* update_cache iterates over a dict while update() takes entries out of it, and
\* puts the outdated ones back at its end: the iteration then raises and the
\* reply is a failure.  So it succeeds only if it changes nothing.
UpdateFails(c) == ~ c.loaded \subseteq stored

-----------------------------------------------------------------------------
(* Restore::restore *)

\* The caches that an entry of the log, sent to a worker with one of the caches
\* of C, may leave.
Replay(C, s) ==
  CASE s.kind = "pull"   -> UNION {Checkout(c, s.uri) : c \in C}
    [] s.kind = "remove" -> {Without(c, s.uri) : c \in C}
    [] s.kind = "clear"  -> {Empty}

Entries(l) == [i \in DOMAIN l |-> l[i].state]

\* The entries of the log that the worker has not seen, oldest first.
Missed(w) ==
  Entries(SelectSeq(states, LAMBDA e : e.rev > last_update[w]))

\* update_worker_cache: all the pulled projects, or the log from its end.  No
\* cache is left when one of the commands fails.
RestoredCaches(w) ==
  LET commands == IF last_update[w] = 0
                  THEN SetToSeq({OnProject("pull", p) : p \in pulls})
                  ELSE Reverse(Missed(w))
  IN FoldLeft(Replay, {cache[w]}, commands)

\* Mutant of RestoredConf: off by one.
RestoredConfLate(w) ==
  IF config.rev > last_update[w] + 1
  THEN [conf[w] EXCEPT ![config.key] = config.val]
  ELSE conf[w]

\* update_worker_config: the last patch only.
RestoredConf(w) ==
  IF config.rev > last_update[w]
  THEN [conf[w] EXCEPT ![config.key] = config.val]
  ELSE conf[w]

\* restore, of all the workers of S.
Resync(S) ==
  /\ \A w \in S : last_update[w] # 0 /\ last_update[w] < update => ~UpdateFails(cache[w])
  /\ \E f \in [S -> UNION {RestoredCaches(w) : w \in S}] :
       /\ \A w \in S : f[w] \in RestoredCaches(w)
       /\ cache' = [w \in Workers |-> IF w \in S THEN f[w] ELSE cache[w]]
  /\ conf' = [w \in Workers |-> IF w \in S THEN RestoredConf(w) ELSE conf[w]]
  /\ last_update' = [w \in Workers |-> IF w \in S THEN update ELSE last_update[w]]

-----------------------------------------------------------------------------
(* Receiver::update_cache and Receiver::update_config *)

\* Mutant of Drained: the queue is left alone.
DrainedNone(s) == s

\* The queued workers go to the recycler.
Drained(s) == [w \in Workers |-> IF w \in Queued THEN "recycling" ELSE s[w]]

\* Mutant of Logged: the counter is read after a second increment.
LoggedAhead(s) == [rev |-> update + 2, state |-> s]

Logged(s) == [rev |-> update + 1, state |-> s]

\* Mutant of LogState: a clear keeps the list of pulled projects.
LogStateKeeps(s) ==
  \/ /\ s.kind = "pull" /\ s.uri \notin pulls
     /\ pulls' = pulls \cup {s.uri}
     /\ states' = Append(states, Logged(s))
     /\ update' = update + 1
  \/ /\ s.kind = "remove" /\ s.uri \in pulls
     /\ pulls' = pulls \ {s.uri}
     /\ states' = Append(states, Logged(s))
     /\ update' = update + 1
  \/ /\ s.kind = "clear"
     /\ states' = <<Logged(s)>>
     /\ update' = update + 1
     /\ UNCHANGED pulls
  \/ /\ \/ s.kind = "pull" /\ s.uri \in pulls
        \/ s.kind = "remove" /\ s.uri \notin pulls
     /\ UNCHANGED <<update, pulls, states>>

\* Restore::update_cache, but for Update.
LogState(s) ==
  \/ /\ s.kind = "pull" /\ s.uri \notin pulls
     /\ pulls' = pulls \cup {s.uri}
     /\ states' = Append(states, Logged(s))
     /\ update' = update + 1
  \/ /\ s.kind = "remove" /\ s.uri \in pulls
     /\ pulls' = pulls \ {s.uri}
     /\ states' = Append(states, Logged(s))
     /\ update' = update + 1
  \/ /\ s.kind = "clear"
     /\ pulls' = {}
     /\ states' = <<Logged(s)>>
     /\ update' = update + 1
  \/ /\ \/ s.kind = "pull" /\ s.uri \in pulls
        \/ s.kind = "remove" /\ s.uri \notin pulls
     /\ UNCHANGED <<update, pulls, states>>

-----------------------------------------------------------------------------
(* The services of the administrator *)

\* A worker is taken for a cache service: checkout_project with pull set logs
\* a removal when the file is gone.
PullBegin(w, p) ==
  /\ "pull" \in Kinds /\ update < MaxUpdate
  /\ w \in Queued
  /\ \E c \in Checkout(cache[w], p) : cache' = [cache EXCEPT ![w] = c]
  /\ st' = [st EXCEPT ![w] = "admin"]
  /\ job' = [job EXCEPT ![w] = OnProject(IF p \in stored THEN "pull" ELSE "remove", p)]
  /\ UNCHANGED <<logVars, confVars, stored, last_update, conf>>

\* The worker answers with a failure: nothing is logged and it is let go.
PullFailed(w, p) ==
  /\ "pull" \in Kinds
  /\ w \in Queued
  /\ \E c \in CheckoutFails(cache[w], p) : cache' = [cache EXCEPT ![w] = c]
  /\ st' = [st EXCEPT ![w] = "recycling"]
  /\ UNCHANGED <<logVars, confVars, stored, job, last_update, conf>>

\* drop_project looks at the project first, on a worker that it keeps.
DropBegin(w, p) ==
  /\ "remove" \in Kinds /\ update < MaxUpdate
  /\ w \in Queued
  /\ st' = [st EXCEPT ![w] = "admin"]
  /\ job' = [job EXCEPT ![w] = OnProject("remove", p)]
  /\ UNCHANGED <<logVars, confVars, stored, workerVars>>

\* The service writes the log and lets its worker go.
AdminEnd(w) ==
  /\ st[w] = "admin" /\ update < MaxUpdate
  /\ LogState(job[w])
  /\ st' = Drained([st EXCEPT ![w] = "recycling"])
  /\ job' = [job EXCEPT ![w] = NoJob]
  /\ UNCHANGED <<config, confVars, stored, workerVars>>

\* The service is abandoned before it writes the log.
AdminDropped(w) ==
  /\ st[w] = "admin"
  /\ st' = [st EXCEPT ![w] = "recycling"]
  /\ job' = [job EXCEPT ![w] = NoJob]
  /\ UNCHANGED <<logVars, confVars, stored, workerVars>>

ClearCache ==
  /\ "clear" \in Kinds /\ update < MaxUpdate
  /\ LogState([kind |-> "clear"])
  /\ st' = Drained(st)
  /\ UNCHANGED <<config, confVars, stored, job, workerVars>>

UpdateCache ==
  /\ "update" \in Kinds /\ update < MaxUpdate
  /\ update' = update + 1
  /\ st' = Drained(st)
  /\ UNCHANGED <<pulls, config, states, confVars, stored, job, workerVars>>

\* spawn: the workers S start with empty caches and the configuration d.
Launch(S, d) ==
  /\ S \subseteq {w \in Workers : st[w] = "none"}
  /\ st' = [w \in Workers |-> IF w \in S THEN "fresh" ELSE st[w]]
  /\ last_update' = [w \in Workers |-> IF w \in S THEN 0 ELSE last_update[w]]
  /\ cache' = [w \in Workers |-> IF w \in S THEN Empty ELSE cache[w]]
  /\ conf' = [w \in Workers |-> IF w \in S THEN d ELSE conf[w]]

\* set_config, first half: patch_config, which may launch the workers S.  The
\* second half waits for the write lock of the log, which a replay may hold.
PatchConfig(k, S) ==
  /\ "config" \in Kinds /\ lock = "free" /\ patches < MaxUpdate
  /\ Launch(S, [doc EXCEPT ![k] = patches + 1])
  /\ patches' = patches + 1
  /\ doc' = [doc EXCEPT ![k] = patches + 1]
  /\ patching' = Append(patching, [key |-> k, val |-> patches + 1])
  /\ lock' = IF S = {} THEN "free" ELSE "patch"
  /\ UNCHANGED <<logVars, published, stored, job>>

\* The calls past patch_config, in the order in which they queue for the log.
Publishable == IF lock = "patch" THEN Front(patching) ELSE patching

\* set_config, second half: Restore::update_config.
PublishConfig ==
  /\ Publishable # <<>> /\ update < MaxUpdate
  /\ update' = update + 1
  /\ config' = [rev |-> update + 1, key |-> Head(patching).key, val |-> Head(patching).val]
  /\ published' = [published EXCEPT ![Head(patching).key] = Head(patching).val]
  /\ patching' = Tail(patching)
  /\ st' = Drained(st)
  /\ UNCHANGED <<pulls, states, doc, patches, lock, stored, job, workerVars>>

\* The call is abandoned while it waits for the log.
ConfigDropped ==
  /\ Publishable # <<>>
  /\ \E i \in DOMAIN Publishable : patching' = RemoveAt(patching, i)
  /\ UNCHANGED <<logVars, doc, patches, published, lock, stored, st, job, workerVars>>

-----------------------------------------------------------------------------
(* Requests, recycler and pool *)

Get(w) ==
  /\ w \in Queued
  /\ st' = [st EXCEPT ![w] = "held"]
  /\ UNCHANGED <<logVars, confVars, stored, job, workerVars>>

\* request_project_from_cache: a project that is outdated is reloaded, one that
\* is not there is loaded, each if the configuration says so.  The former
\* entry, or the evicted one, is lost whether or not the project then loads.
Loads(c, p) ==
  LET room == IF p \in c.loaded THEN {Without(c, p)} ELSE Room(c) IN
  {Unpinned(d, p) : d \in room} \cup (IF p \in Volatile THEN room ELSE {})

\* A request may load its project.
Load(w, p) ==
  /\ st[w] = "held" /\ p \in stored /\ p \notin cache[w].loaded \ Volatile
  /\ \E c \in Loads(cache[w], p) : cache' = [cache EXCEPT ![w] = c]
  /\ UNCHANGED <<logVars, confVars, stored, st, job, last_update, conf>>

Release(w) ==
  /\ st[w] = "held"
  /\ st' = [st EXCEPT ![w] = "recycling"]
  /\ UNCHANGED <<logVars, confVars, stored, job, workerVars>>

\* recycle_owned: update, then send without awaiting.
Recycle(w) ==
  /\ st[w] = "recycling"
  /\ Resync({w})
  /\ st' = [st EXCEPT ![w] = "idle"]
  /\ UNCHANGED <<logVars, confVars, stored, job>>

\* A worker dies in the queue, or its recycling fails: it is terminated.
WriteOff(w) ==
  /\ w \in Queued \/ st[w] = "recycling"
  /\ st' = [st EXCEPT ![w] = "none"]
  /\ UNCHANGED <<logVars, confVars, stored, job, workerVars>>

\* grow, called by a rescaling task.
Rescale(S) ==
  /\ lock = "free" /\ S # {}
  /\ Launch(S, doc)
  /\ lock' = "rescale"
  /\ UNCHANGED <<logVars, doc, patches, published, patching, stored, job>>

\* grow resynchronises its new workers and queues them (send_all).
GrowDone ==
  LET fresh == {w \in Workers : st[w] = "fresh"} IN
  /\ lock # "free"
  /\ Resync(fresh)
  /\ st' = [w \in Workers |-> IF w \in fresh THEN "idle" ELSE st[w]]
  /\ lock' = "free"
  /\ UNCHANGED <<logVars, doc, patches, published, patching, stored, job>>

\* One of the launches or updates fails: all the new workers are dropped, and
\* a set_config that asked for them ends there.
GrowFailed ==
  /\ lock # "free"
  /\ lock' = "free"
  /\ patching' = Publishable
  /\ st' = [w \in Workers |-> IF st[w] = "fresh" THEN "none" ELSE st[w]]
  /\ UNCHANGED <<logVars, doc, patches, published, stored, job, workerVars>>

\* The file of a project disappears or comes back.
FileChanges(p) ==
  /\ stored' = IF p \in stored THEN stored \ {p} ELSE stored \cup {p}
  /\ UNCHANGED <<logVars, confVars, st, job, workerVars>>

Next ==
  \/ \E w \in Workers, p \in Named : PullBegin(w, p) \/ PullFailed(w, p) \/ DropBegin(w, p)
  \/ \E w \in Workers, p \in Projects : Load(w, p)
  \/ \E w \in Workers : \/ AdminEnd(w) \/ AdminDropped(w)
                        \/ Get(w) \/ Release(w) \/ Recycle(w) \/ WriteOff(w)
  \/ ClearCache \/ UpdateCache
  \/ \E k \in Keys, S \in SUBSET Workers : PatchConfig(k, S)
  \/ PublishConfig \/ ConfigDropped
  \/ \E S \in SUBSET Workers : Rescale(S)
  \/ GrowDone \/ GrowFailed
  \/ \E p \in Volatile : FileChanges(p)

Spec == Init /\ [][Next]_vars

-----------------------------------------------------------------------------
(* Properties *)

\* The values of the log and of the workers; no entry of the log, no patch and
\* no worker is ahead of the counters that number them.
TypeOK ==
  /\ update \in 0..MaxUpdate
  /\ pulls \subseteq Projects
  /\ config \in [rev : 0..update, key : Keys, val : 0..patches]
  /\ states \in Seq([rev : 1..update, state : States])
  /\ doc \in [Keys -> 0..patches]
  /\ patches \in 0..MaxUpdate
  /\ published \in [Keys -> 0..patches]
  /\ patching \in Seq([key : Keys, val : 1..patches])
  /\ lock \in {"free", "rescale", "patch"}
  /\ stored \subseteq Projects
  /\ st \in [Workers -> Places]
  /\ job \in [Workers -> Jobs \cup {NoJob}]
  /\ last_update \in [Workers -> 0..update]
  /\ cache \in [Workers -> Caches]
  /\ \A w \in Workers : /\ cache[w].pinned \subseteq cache[w].loaded
                        /\ Cardinality(cache[w].loaded) <= MaxProjects
  /\ conf \in [Workers -> [Keys -> 0..patches]]

\* The log and the set of pulled projects, which update_cache writes side by
\* side and restore() reads one or the other, tell the same story: the entries
\* of the log, in order, lead from the projects of the configuration to the
\* pulled ones.
Told(s, e) ==
  CASE e.kind = "pull"   -> s \cup {e.uri}
    [] e.kind = "remove" -> s \ {e.uri}
    [] e.kind = "clear"  -> {}

LogYieldsPulls == FoldLeft(Told, Restored, Entries(states)) = pulls

\* A queued worker is at the last revision: update_cache and update_config empty
\* the queue as they write the log, and a worker on its way back, or just
\* launched, reads the log before it is queued.  It is what test_restore of
\* pool.rs expects of the worker it gets after update_cache(Pull).
QueuedIsCurrent == \A w \in Queued : last_update[w] = update

\* Whoever waits in the queue has the last patch of the configuration, whether
\* it was launched before, during or after set_config.
LastPatchApplied ==
  \A w \in Queued : config.rev > 0 => conf[w][config.key] = config.val

\* Every queued worker has the pulled projects in its cache, pinned, whether it
\* was launched after them or replayed the log, and whatever its requests loaded
\* and evicted since: what restore() is for.  It holds as long as the log has
\* nothing but pulls, for the projects whose file stays as it is.
PullsRestored ==
  (\A i \in DOMAIN states : states[i].state.kind = "pull") =>
    \A w \in Queued : pulls \ Volatile \subseteq cache[w].pinned

-----------------------------------------------------------------------------
(* What the documentation and the tests say *)

\* rpc_cli.rst, checkout --pull: "Load the project into cache as a pinned item":
\* the same, whatever else the log has.
PullsTakeEffect == \A w \in Queued : pulls \ Volatile \subseteq cache[w].pinned

\* rpc_cli.rst, config set: "Set server configuration": a queued worker has, for
\* every key, what the last set_config that named it asked for (or a value even
\* more recent).
ConfigInSync ==
  \A w \in Queued, k \in Keys : conf[w][k] >= published[k]

\* rpc_cli.rst, cache clear: "Clear the entire cache, removing all cached
\* projects": a worker that catches up with a clear keeps nothing but what
\* was pulled since.
ClearTakesEffect ==
  [][\A w \in Workers :
       /\ Recycle(w)
       /\ \E i \in DOMAIN states : /\ states[i].state.kind = "clear"
                                   /\ states[i].rev > last_update[w]
       => cache'[w].loaded \subseteq pulls]_vars

\* rpc_cli.rst, cache drop: "Remove a project from the cache": a drop that
\* finds the project in the cache of a worker leaves that worker with something
\* to catch up with.
DropIsLogged ==
  [][\A w \in Workers, p \in Projects :
       AdminEnd(w) /\ job[w] = OnProject("remove", p) /\ p \in cache[w].loaded
       => update' > last_update[w]]_vars
=============================================================================
