------------------------------ MODULE MCCount ------------------------------
(* Instances of Count for TLC.  Quotas are a few calls instead of thousands. *)
EXTENDS Count, TLC

CONSTANTS r1, r2, rainbow, confura, scan

\* A route that answers for whole calls and one that counts batch items.  With
\* a quota of 1 and two requests of cost 1 or 2, the bound on the overrun is
\* below what the requests could add up to.
MCKindBilling == (rainbow :> "count") @@ (confura :> "rpc")
MCQuotaBilling == (rainbow :> 1) @@ (confura :> 2)

MCKindLive == (confura :> "rpc") @@ (scan :> "scan")
MCQuotaLive == (confura :> 2) @@ (scan :> 1)

Symmetry == Permutations(Requests)
=============================================================================
