--------------------------- MODULE MCCloudActions ---------------------------
(* A small instance of CloudActions: one action of every family, and one of
   another resource. *)
EXTENDS CloudActions, TLC

AllFamilies ==
  {<<"ecs", "release">>, <<"ecs", "change_vpc">>, <<"ecs", "change_private_ip">>,
   <<"security_group", "update_rule">>, <<"ecs", "update">>, <<"eip", "bind">>}

\* One row at least has the id of its server; the other one may have lost it.
MCInit == Init /\ \E s \in Server : known[s] = "server"

MCSpec == MCInit /\ [][Next]_vars

Symmetry == Permutations(Server) \cup Permutations(Req) \cup Permutations(Name)
=============================================================================
