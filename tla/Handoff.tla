------------------------------- MODULE Handoff -------------------------------
(***************************************************************************)
(* What the worker queue promises to the requests: idle workers are handed *)
(* to waiting requests.  No wake-up mechanism appears here.  The promise   *)
(* is the fairness conjunct: an idle worker and a waiting request do not   *)
(* stay side by side for ever.  WorkerQueue implements this specification. *)
(***************************************************************************)
CONSTANTS Workers, Requests

VARIABLES
  idle,      \* the workers that may be handed out
  stage,     \* where each request is
  open       \* FALSE once the queue is closed

vars == <<idle, stage, open>>

Stages == {"new", "waiting", "serving", "over"}

Init ==
  /\ idle = {}
  /\ stage = [r \in Requests |-> "new"]
  /\ open = TRUE

\* A request that finds nothing to take waits.
Arrive(r) ==
  /\ open /\ idle = {}
  /\ stage[r] = "new"
  /\ stage' = [stage EXCEPT ![r] = "waiting"]
  /\ UNCHANGED <<idle, open>>

Take(r, w) ==
  /\ open
  /\ w \in idle
  /\ stage' = [stage EXCEPT ![r] = "serving"]
  /\ idle' = idle \ {w}
  /\ UNCHANGED open

\* The two ways of being given a worker: at once, or after having waited.
TakeAtOnce(r) == stage[r] = "new" /\ \E w \in Workers : Take(r, w)

TakeWaiting(r) == stage[r] = "waiting" /\ \E w \in Workers : Take(r, w)

\* A refusal, the end of a service, or a request abandoned by its client.
Leave(r) ==
  /\ stage[r] # "over"
  /\ stage' = [stage EXCEPT ![r] = "over"]
  /\ UNCHANGED <<idle, open>>

\* The pool adds and removes idle workers as it likes.
Change ==
  /\ idle' \in SUBSET Workers
  /\ UNCHANGED <<stage, open>>

Shut ==
  /\ open' = FALSE
  /\ UNCHANGED <<idle, stage>>

Serve == \E r \in Requests : TakeWaiting(r)

\* Once closed, whoever still waits must be let go.
Release == ~open /\ \E r \in Requests : stage[r] = "waiting" /\ Leave(r)

Next ==
  \/ \E r \in Requests : Arrive(r) \/ TakeAtOnce(r) \/ Leave(r)
  \/ Serve
  \/ Change
  \/ Shut

Spec == Init /\ [][Next]_vars /\ WF_vars(Serve) /\ WF_vars(Release)
=============================================================================
