---------------------------- MODULE MCConfCache ----------------------------
(* Instances of ConfCache for TLC. *)
EXTENDS ConfCache, TLC, FiniteSets

CONSTANTS w1, w2, api, rpc, k1

\* A route with a key and one without; one unknown plugin, one bad configuration.
MCKeyOf == (api :> k1) @@ (rpc :> NoKey)
MCConf == (api :> <<"jwt-auth", "count", "other">>) @@ (rpc :> <<"apikey-auth", "count", "jwt-auth">>)
MCUnparsable == {<<rpc, "jwt-auth">>}
MCRegistered == {"jwt-auth", "apikey-auth", "count"}
MCAll == [managed : BOOLEAN, prompt : BOOLEAN]
MCDev == {[managed |-> FALSE, prompt |-> TRUE]}
MCManaged == {[managed |-> TRUE, prompt |-> FALSE]}

Symmetry == Permutations(Workers)
=============================================================================
