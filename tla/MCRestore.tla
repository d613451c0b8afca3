------------------------------ MODULE MCRestore ------------------------------
(* Instances of Restore for TLC. *)
EXTENDS Restore, TLC

CONSTANTS w1, w2, p1, p2, p3, k1, k2

MCWorkers == {w1, w2}

\* The workers are interchangeable.
Symmetry == Permutations(MCWorkers)
=============================================================================
