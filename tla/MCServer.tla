------------------------------ MODULE MCServer ------------------------------
(* An instance of Server for TLC. *)
EXTENDS Server

CONSTANTS b1, b2
=============================================================================
