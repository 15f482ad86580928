------------------------------ MODULE MCRoute ------------------------------
(* An instance of Route for TLC. *)
EXTENDS Route, TLC

\* Two keys, one of which two routes look for in different places, and routes with
\* no key or no lookup.
MCConfs ==
  {[key |-> "k1", lookup |-> "header"], [key |-> "k2", lookup |-> "header"],
   [key |-> "k2", lookup |-> "query"], [key |-> Nil, lookup |-> "header"],
   [key |-> "k1", lookup |-> Nil]}

\* Two routes that differ in the server type, and so must differ in the cost type.
MCNets == [main : {TRUE}, cspace : BOOLEAN]

Symmetry == Permutations(Requests)
=============================================================================
