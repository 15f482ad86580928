------------------------------ MODULE MCCleaner ------------------------------
(* An instance of Cleaner for TLC. *)
EXTENDS Cleaner

CONSTANTS logs, users, dir, a, b

\* Any documents among the logs, next to a collection the cleaner must leave alone.
MCDbs == {d \in [Colls -> SUBSET (1 .. MaxId)] : d[users] = {1}}
=============================================================================
