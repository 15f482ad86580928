----------------------------- MODULE ReqFilters -----------------------------
(***************************************************************************)
(* What the runner promises the author of a request plugin (pkg/plugin     *)
(* Plugin, pkg/http Request and Header): the filters of a route run one    *)
(* after the other on the request itself, until one of them writes a       *)
(* response; what they leave is what goes upstream, and a written response *)
(* goes to the client instead.  ReqCall implements this.                   *)
(***************************************************************************)
EXTENDS Rewrites

CONSTANTS Conns, Inputs, ChainLen, Nil

VARIABLES
  stage,     \* connection -> "idle", "filter" or "end" of the chain
  at,        \* the filter that is running, or would run next
  request,   \* the request as the filters see it
  response,  \* what they wrote: a status or 0, and whether a body
  result     \* what became of the connection's last request

vars == <<stage, at, request, response, result>>

Written(w) == w.code # 0 \/ w.body
Unwritten == [code |-> 0, body |-> FALSE]

NoMap == [n \in Names |-> <<>>]
AsRequest(q) == [path |-> q.path, hdr |-> q.hdr, args |-> q.args, respHdr |-> NoMap]

Init ==
  /\ stage = [c \in Conns |-> "idle"]
  /\ at = [c \in Conns |-> 0]
  /\ request = [c \in Conns |-> Nil]
  /\ response = [c \in Conns |-> Unwritten]
  /\ result = [c \in Conns |-> Nil]

Begin(c) ==
  /\ stage[c] = "idle"
  /\ stage' = [stage EXCEPT ![c] = "filter"]
  /\ at' = [at EXCEPT ![c] = 1]
  /\ \E q \in Inputs : request' = [request EXCEPT ![c] = AsRequest(q)]
  /\ result' = [result EXCEPT ![c] = Nil]
  /\ UNCHANGED response

\* A filter changes the request: a header is set to one value or deleted, an
\* argument gets any values, the path is replaced, a response header is added.
Rewrite(c) ==
  /\ stage[c] = "filter"
  /\ UNCHANGED <<stage, at, response, result>>
  /\ \/ \E n \in Names, vs \in {<<>>} \cup {<<v>> : v \in Values} :
          request' = [request EXCEPT ![c].hdr[n] = vs]
     \/ \E n \in Names :
          /\ request'[c].args[n] \in Seq(Values)
          /\ request' = [request EXCEPT ![c].args[n] = request'[c].args[n]]
     \/ request' = [request EXCEPT ![c].path = request'[c].path]
     \/ \E n \in Names, v \in Values :
          request' = [request EXCEPT ![c].respHdr[n] = Append(@, v)]

\* A filter writes a body, or the status; a written status stays.
Write(c) ==
  /\ stage[c] = "filter"
  /\ UNCHANGED <<stage, at, request, result>>
  /\ \/ response' = [response EXCEPT ![c].body = TRUE]
     \/ /\ response[c].code = 0
        /\ response' = [response EXCEPT ![c].code = response'[c].code]

\* The next filter runs only if nothing is written.
Return(c) ==
  /\ stage[c] = "filter"
  /\ stage' = [stage EXCEPT ![c] = IF Written(response[c]) \/ at[c] = ChainLen THEN "end" ELSE @]
  /\ at' = [at EXCEPT ![c] = @ + 1]
  /\ UNCHANGED <<request, response, result>>

Done(c, outcome) ==
  /\ stage' = [stage EXCEPT ![c] = "idle"]
  /\ at' = [at EXCEPT ![c] = 0]
  /\ request' = [request EXCEPT ![c] = Nil]
  /\ response' = [response EXCEPT ![c] = Unwritten]
  /\ result' = [result EXCEPT ![c] = outcome]

\* A status that was not written is 200.
Stopped(w) ==
  [kind |-> "stop", code |-> IF w.code = 0 THEN 200 ELSE w.code, body |-> w.body]

\* APISIX acts on what the chain left.
Finish(c) ==
  /\ stage[c] = "end"
  /\ Done(c, IF Written(response[c]) THEN Stopped(response[c])
             ELSE [kind |-> "proxy", request |-> request[c]])

\* The call comes to nothing: APISIX answers with an error of its own.
Abort(c) == Done(c, [kind |-> "error"])

Next == \E c \in Conns : Begin(c) \/ Rewrite(c) \/ Write(c) \/ Return(c) \/ Finish(c) \/ Abort(c)

Spec == Init /\ [][Next]_vars
=============================================================================
