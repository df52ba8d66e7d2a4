----------------------------- MODULE MCOptions -----------------------------
(* A small instance of Options. *)
EXTENDS Options, TLC

Symmetry == Permutations(Account) \cup Permutations(Loader)
=============================================================================
