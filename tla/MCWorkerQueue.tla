---------------------------- MODULE MCWorkerQueue ----------------------------
(* Instances of WorkerQueue for TLC. *)
EXTENDS WorkerQueue, TLC

CONSTANTS w1, w2, r1, r2, r3, r4

MCWorkers == {w1, w2}
MCRequests3 == {r1, r2, r3}
MCRequests4 == {r1, r2, r3, r4}

\* Workers and requests are interchangeable in the safety runs.
Symmetry == Permutations(MCWorkers) \cup Permutations(MCRequests4)
=============================================================================
