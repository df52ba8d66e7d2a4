------------------------------ MODULE MCPySync ------------------------------
(* Instances of PySync for TLC. *)
EXTENDS PySync, TLC

Symmetry == Permutations(Task) \cup Permutations(Thread)
=============================================================================
