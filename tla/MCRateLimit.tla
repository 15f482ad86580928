---------------------------- MODULE MCRateLimit ----------------------------
(* An instance of RateLimit for TLC. *)
EXTENDS RateLimit, TLC

CONSTANTS c1, c2, confura, main, test

\* A server type with two cost types, as each of confura's two has.
MCServerOf == (main :> confura) @@ (test :> confura)

Symmetry == Permutations(Conns) \cup Permutations(CostTypes)
=============================================================================
