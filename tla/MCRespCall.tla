---------------------------- MODULE MCRespCall ----------------------------
(* Instances of RespCall for TLC. *)
EXTENDS RespCall, TLC

CONSTANTS c1, c2, o1, o2

MCNames == {"id"}
MCValues == {1, 2}
MCInfos == {"body"}
MCCodes == {200, 503}
MCBodies == {Blank, "b2"}

Input(status, hdr, body) == [status |-> status, hdr |-> "id" :> hdr, info |-> "body" :> body]

\* A good and a bad response; headers once, twice and not at all.
MCInputs == {Input(200, <<1>>, "b1"), Input(502, <<1, 2>>, Nil), Input(200, <<>>, "b3")}

Symmetry == Permutations(Conns) \cup Permutations(Objects)
=============================================================================
