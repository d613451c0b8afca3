---------------------------- MODULE MCRpcServer ----------------------------
(* Instances of RpcServer for TLC. *)
EXTENDS RpcServer, TLC

Symmetry == Permutations(Workers) \cup Permutations(Tasks)

=============================================================================
