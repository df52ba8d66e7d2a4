-------------------------- MODULE MCResourceSync --------------------------
(* Instances of ResourceSync for TLC. *)
EXTENDS ResourceSync, TLC

Symmetry == Permutations(Region) \cup Permutations(Item)

\* The regions list the same at first; what changes later makes them differ.  The lists
\* of the last query begin with two items at most, the others with any number.
MCInit ==
  Init /\ \A r, s \in Region : list[r] = list[s] /\ Len(list[r][NumQueries]) <= 2

MCSpec == MCInit /\ [][Next]_vars

\* Bound: the second synchronisation is followed for lists of one item at most, the
\* first one for lists of any length.
SecondIsShort ==
  syncs = 2 => \A r \in Region, q \in Query : Len(list[r][q]) <= 1
=============================================================================
