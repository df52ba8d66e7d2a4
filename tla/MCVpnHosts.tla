---------------------------- MODULE MCVpnHosts ----------------------------
(* Instances of VpnHosts for TLC. *)
EXTENDS VpnHosts, TLC

Symmetry == Permutations(Req) \cup Permutations(Config)

NotTorn == ~torn
=============================================================================
