------------------------------ MODULE Parsers ------------------------------
(***************************************************************************)
(* The request parsers (plugins/reqparser): what each makes of a request,  *)
(* as the cost type, the count and, for JSON-RPC, the ids it is to be      *)
(* charged and answered by.  Binding a body to its type is a library's     *)
(* work: a body is abstracted to what came of it.                          *)
(***************************************************************************)
EXTENDS Integers

CONSTANT Nets  \* is_mainnet and is_cspace of the routes with a confura- or scan-parser

ASSUME NetsAssumption == Nets \subseteq [main : BOOLEAN, cspace : BOOLEAN]

ParseError == [ok |-> FALSE]
Result(cost, server, n) == [ok |-> TRUE, cost |-> cost, server |-> server, n |-> n]

\* GetCostType and GetServerType of both: a cost type for each net, and a server
\* type for its space alone.
GetCostType(service, net) == <<service, net.main, net.cspace>>
GetServerType(service, net) == <<service, net.cspace>>

\* confura-parser.  A body is a JSON-RPC message (a "huge" one over 1,024,000
\* bytes), an array of them, null, an object with a field of a wrong type, or
\* none of these.
RpcBodies == {"single", "batch", "empty", "huge", "null", "mistyped", "junk"}
Items == [single |-> 1, huge |-> 1, batch |-> 2, empty |-> 0, null |-> 0]

\* ConfuraParserConf.ParseRequest: an array counts its items, be they none, and
\* null is an array of none.
ParseRpc(body, net) ==
  IF body \notin DOMAIN Items THEN ParseError
  ELSE Result(GetCostType("CONFURA", net), GetServerType("CONFURA", net), Items[body])

\* ScanParserConf.ParseRequest
ParseScan(net) == Result(GetCostType("SCAN", net), GetServerType("SCAN", net), 1)

\* rainbow-api-parser.  The full paths of the routes, by what is done with them.
MintPaths == {"mints", "mints/batch", "nft/batch/by-meta-parts", "nft/batch/by-meta-uri",
              "transfers/batch"}
DeployPaths == {"contracts"}
Paths == MintPaths \cup DeployPaths \cup {"other"}

\* Those whose body has a list the parser counts; "/v1/mints/customizable/batch"
\* is not one of them.
Counted == {"nft/batch/by-meta-parts", "nft/batch/by-meta-uri", "transfers/batch"}

NORMAL == <<"RAINBOW", "NORMAL">>
RAINBOW == <<"RAINBOW">>

\* A call: its path, whether the body binds, its chain and its list.
Calls == [path : Paths, binds : BOOLEAN, mainnet : BOOLEAN, items : 0 .. 2]

getAction(path) ==
  CASE path \in MintPaths -> <<"RAINBOW", "MINT">>
    [] path \in DeployPaths -> <<"RAINBOW", "DEPLOY">>
    [] OTHER -> NORMAL

\* The chain of a bare list is that of its first item.
IsMainnet(call) ==
  call.mainnet /\ ~(call.path = "nft/batch/by-meta-parts" /\ call.items = 0)

\* parseRequestByGin
ParseByGin(call) ==
  IF ~call.binds THEN ParseError
  ELSE Result(IF IsMainnet(call) THEN getAction(call.path) ELSE NORMAL, RAINBOW,
              IF call.path \in Counted THEN call.items ELSE 1)

\* RainbowApiRequestOp.ParseRequest: a normal call is not looked into.
ParseApi(call) ==
  IF getAction(call.path) = NORMAL THEN Result(NORMAL, RAINBOW, 1) ELSE ParseByGin(call)

\* What any parser returns for a request it understands.
Results ==
  {res \in {ParseRpc(b, net) : b \in RpcBodies, net \in Nets}
          \cup {ParseScan(net) : net \in Nets}
          \cup {ParseApi(call) : call \in Calls} : res.ok}
=============================================================================
