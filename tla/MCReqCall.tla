----------------------------- MODULE MCReqCall -----------------------------
(* Instances of ReqCall for TLC. *)
EXTENDS ReqCall, TLC

CONSTANTS c1, c2, o1, o2

\* FetchChanges treats each name on its own, so that one name shows it.
MCNames == {"user"}
MCValues == {1, 2}

Input(path, hdr, arg, body) ==
  [path |-> path, hdr |-> "user" :> hdr, args |-> "user" :> arg, info |-> "body" :> body]

\* Two requests that differ in everything; one has no body and no header.
MCInputs == {Input("p1", <<1>>, <<1, 2>>, "b1"), Input("p2", <<>>, <<2>>, Nil)}

MCInfos == {"body"}
MCPaths == {"p1", "p3"}
MCCodes == {400, 401}

Symmetry == Permutations(Conns) \cup Permutations(Objects)
=============================================================================
