---------------------------- MODULE MCActionJobs ----------------------------
(* Small instances of ActionJobs, and its inductive invariant, for TLC. *)
EXTENDS ActionJobsInv, TLC

Symmetry == Permutations(Account) \cup Permutations(Job) \cup Permutations(Res)
=============================================================================
