----------------------------- MODULE MCRecharge -----------------------------
(* Small instances of Recharge for TLC. *)
EXTENDS Recharge, TLC

\* The pages are alike.
Symmetry == Permutations(Page)
=============================================================================
