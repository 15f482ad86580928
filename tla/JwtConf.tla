------------------------------ MODULE JwtConf ------------------------------
(***************************************************************************)
(* What the routes with jwt-auth configure, and the middlewares it makes   *)
(* of that (plugins/auth/auth_jwt.go).                                     *)
(***************************************************************************)
EXTENDS Integers

CONSTANTS
  Confs,     \* JwtAuthConf of the routes: jwt_key and token_lookup
  MaxMaps,   \* bound: maps jwt-auth makes
  Nil        \* Go's and Lua's nil, and an empty string

ASSUME ConfsAssumption ==
  \A c \in Confs : DOMAIN c = {"key", "lookup"}
ASSUME MapsAssumption == MaxMaps \in Nat

Keys == {c.key : c \in Confs} \ {Nil}
Lookups == {c.lookup : c \in Confs} \ {Nil}
Middlewares == [key : Keys, lookup : Lookups]

ASSUME NilAssumption == Nil \notin Nat \cup Middlewares
=============================================================================
