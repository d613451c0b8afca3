------------------------------- MODULE MCPool -------------------------------
(* Instances of Pool for TLC. *)
EXTENDS Pool, TLC

CONSTANTS w1, w2, w3

MCWorkers == {w1, w2, w3}

Symmetry == Permutations(MCWorkers)
=============================================================================
