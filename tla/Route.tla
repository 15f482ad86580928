-------------------------------- MODULE Route --------------------------------
(***************************************************************************)
(* A request on its way through the gateway: the plugins of its route, in  *)
(* the order doc/routers_sample.sh configures.  In APISIX, the rewrite     *)
(* phase of confura-resp-rewrite.lua; in the runner, authentication, the   *)
(* parser, count and rate-limit; the upstream; the response handler; and   *)
(* in APISIX again the filters of confura- or scan-resp-rewrite.lua, which *)
(* run for an answer of any origin.                                        *)
(*                                                                         *)
(* All requests are of one APISIX worker and one runner.  The Lua plugins  *)
(* keep what they know of a request in module variables, which are the     *)
(* worker's: every phase of a request is a step, and the phases of several *)
(* requests interleave.  What count and rate-limit do is in Count and      *)
(* RateLimit, how the runner calls filters in ReqCall and RespCall.        *)
(***************************************************************************)
EXTENDS Parsers, JwtConf, Sequences

CONSTANTS
  Requests,
  Kinds       \* which routes there are: "rpc", "scan", "api"

ASSUME KindsAssumption == Kinds \subseteq {"rpc", "scan", "api"}
ASSUME RequestsAssumption == Nil \notin Requests

VARIABLES
  jpc, conf, map, mids, made, mine, target, cold,  \* jwt-auth: see JwtAuth
  pc,            \* where each request is
  kind,          \* the kind of its route
  body,          \* the body of a JSON-RPC request
  hdr,           \* the headers the runner's filters leave for each other
  charged,       \* what count charged it as
  ids,           \* Redis: requests whose RpcIdsInfoKey is there
  resp,          \* the response the Lua filters are given: its origin and status
  status,        \* the status the client is sent
  lengthKept,    \* the response still has the Content-Length of that body
  request_body,  \* confura-resp-rewrite.lua: whose body the variable holds
  raw_status,    \* raw_status of each Lua plugin
  held,          \* ctx: the chunks hold_body_chunk keeps
  answer,        \* the pieces of body sent to the client
  touched        \* history: variables another request has set since this one did

jwtVars == <<jpc, conf, map, mids, made, mine, target, cold>>
reqVars == <<kind, body>>
runnerVars == <<hdr, charged, ids>>
respVars == <<resp, status, lengthKept>>
luaVars == <<request_body, raw_status, held, answer, touched>>
vars == <<jwtVars, pc, reqVars, runnerVars, respVars, luaVars>>

Jwt == INSTANCE JwtAuth

Chunks == {1, 2}   \* of a response body; 2 is the last (ngx.arg[2])
\* The headers as the client sent them: it may name them, too.
Sent == [user |-> "sent", res |-> Nil, id |-> FALSE]

Init ==
  /\ Jwt!Init
  /\ kind \in [Requests -> Kinds]
  /\ body \in [Requests -> RpcBodies]
  /\ \A r \in Requests : kind[r] # "rpc" => body[r] = "single"
  /\ \A r \in Requests : kind[r] # "api" => conf[r] = CHOOSE c \in Confs : TRUE
  /\ pc = [r \in Requests |-> IF kind[r] = "rpc" THEN "rewrite" ELSE "auth"]
  /\ hdr = [r \in Requests |-> Sent]
  /\ charged = [r \in Requests |-> Nil]
  /\ ids = {}
  /\ resp = [r \in Requests |-> Nil]
  /\ status = [r \in Requests |-> 0]
  /\ lengthKept = [r \in Requests |-> TRUE]
  /\ request_body = Nil
  /\ raw_status = [k \in {"rpc", "scan"} |-> 0]
  /\ held = [r \in Requests |-> {}]
  /\ answer = [r \in Requests |-> <<>>]
  /\ touched = [r \in Requests |-> {}]

Goto(r, from, to) == pc[r] = from /\ pc' = [pc EXCEPT ![r] = to]

-----------------------------------------------------------------------------
(* confura-resp-rewrite.lua, before the runner *)

\* What core.request.get_body(1024 * 1000) returns; nil for a larger body.
get_body(r) == IF body[r] = "huge" THEN Nil ELSE r

Sets(r, variable) ==
  touched' = [q \in Requests |->
                IF q = r THEN touched[q] \ {variable}
                ELSE IF kind[q] = kind[r] THEN touched[q] \cup {variable}
                ELSE touched[q]]

\* Mutant: ext-plugin-pre-req has the higher priority, and answers first.
rewriteTooLate(r) ==
  /\ Goto(r, "rewrite", "auth")
  /\ UNCHANGED <<jwtVars, reqVars, runnerVars, respVars, luaVars>>

\* _M.rewrite
rewrite(r) ==
  /\ Goto(r, "rewrite", "auth")
  /\ request_body' = get_body(r)
  /\ Sets(r, "request_body")
  /\ UNCHANGED <<jwtVars, reqVars, runnerVars, respVars, raw_status, held, answer>>

\* _M.access, which may or may not run when the runner has let the request pass.
access(r) ==
  /\ kind[r] = "rpc" /\ pc[r] = "upstream"
  /\ request_body' = get_body(r)
  /\ Sets(r, "request_body")
  /\ UNCHANGED <<jwtVars, pc, reqVars, runnerVars, respVars, raw_status, held, answer>>

-----------------------------------------------------------------------------
(* The runner *)

\* The requests rs are answered by APISIX itself, or with what a filter has written.
Answered(rs, code) ==
  /\ pc' = [q \in Requests |-> IF q \notin rs THEN pc[q]
                               ELSE IF kind[q] = "api" THEN "done" ELSE "header"]
  /\ resp' = [q \in Requests |-> IF q \in rs THEN [of |-> "refusal", code |-> code]
                                 ELSE resp[q]]
  /\ UNCHANGED <<reqVars, runnerVars, status, lengthKept, luaVars>>

Answers(r, code) == Answered({r}, code)

\* A filter has panicked: the connection to the runner is closed.
Panics(r) == Answers(r, 503)

SetUser(r) == hdr' = [hdr EXCEPT ![r].user = "own"]

\* apikey-auth: no key where the route's lookup says, one that Redis does not
\* know, or Redis does not answer.
ApikeyAuthFails(r) ==
  /\ kind[r] # "api" /\ pc[r] = "auth"
  /\ Answers(r, 400)
  /\ UNCHANGED jwtVars

ApikeyAuth(r) ==
  /\ kind[r] # "api"
  /\ Goto(r, "auth", "parse")
  /\ SetUser(r)
  /\ UNCHANGED <<jwtVars, reqVars, charged, ids, respVars, luaVars>>

\* jwt-auth, a step at a time, up to the one that decides.
JwtAuthStep(r) ==
  /\ kind[r] = "api"
  /\ \/ Jwt!Start(r) \/ Jwt!Check(r) \/ Jwt!Make(r) \/ Jwt!Lookup(r) \/ Jwt!New(r)
     \/ Jwt!BeginStore(r) \/ Jwt!EndStore(r) \/ Jwt!Fetch(r)
  /\ jpc'[r] # "refused"
  /\ UNCHANGED <<pc, reqVars, runnerVars, respVars, luaVars>>

JwtAuthPasses(r) ==
  /\ kind[r] = "api"
  /\ Jwt!Pass(r)
  /\ Goto(r, "auth", "parse")
  /\ SetUser(r)
  /\ UNCHANGED <<reqVars, charged, ids, respVars, luaVars>>

JwtAuthRefuses(r) ==
  /\ kind[r] = "api"
  /\ Jwt!Start(r) \/ Jwt!Check(r) \/ Jwt!Make(r) \/ Jwt!Reject(r)
  /\ jpc'[r] = "refused"
  /\ \E code \in {400, 401} : Answers(r, code)

JwtAuthPanics(r) == kind[r] = "api" /\ Jwt!Panic(r) /\ Panics(r)

\* Two requests meet in the map, and the runner is gone with those it is working on.
RunnerDies(r) ==
  /\ kind[r] = "api"
  /\ Jwt!Fatal(r)
  /\ Answered({q \in Requests : pc[q] \in {"parse", "count"} \/ Jwt!InFilter(q)}, 503)

\* ParseRequest of the route's parser.  It may always fail, for want of the body;
\* that of scan-parser does not ask for it.
ParseRequest(r) ==
  CASE kind[r] = "rpc" -> {ParseRpc(body[r], net) : net \in Nets} \cup {ParseError}
    [] kind[r] = "scan" -> {ParseScan(net) : net \in Nets}
    [] kind[r] = "api" -> {ParseApi(call) : call \in Calls} \cup {ParseError}

\* Mutant: the error is only logged, and what the client sent is counted.
ParseErrorGoesOn(r) ==
  /\ Goto(r, "parse", "count") /\ ParseError \in ParseRequest(r)
  /\ hdr' = [hdr EXCEPT ![r].id = TRUE]
  /\ UNCHANGED <<jwtVars, reqVars, charged, ids, respVars, luaVars>>

\* DefaultRequestFilter writes a 400 and then reads the result there is none of.
ParseFails(r) ==
  /\ pc[r] = "parse" /\ ParseError \in ParseRequest(r)
  /\ Panics(r)
  /\ UNCHANGED jwtVars

\* The result goes into the headers, with a new request id; confura-parser writes
\* the ids to Redis, and does not mind when that fails.
Parse(r) ==
  /\ Goto(r, "parse", "count")
  /\ \E res \in ParseRequest(r) : res.ok /\ hdr' = [hdr EXCEPT ![r].res = res, ![r].id = TRUE]
  /\ \/ kind[r] = "rpc" /\ ids' = ids \cup {r}
     \/ UNCHANGED ids
  /\ UNCHANGED <<jwtVars, reqVars, charged, respVars, luaVars>>

\* count and rate-limit let the request pass, or refuse it.
Count(r) ==
  /\ Goto(r, "count", "upstream")
  /\ charged' = [charged EXCEPT ![r] = hdr[r]]
  /\ UNCHANGED <<jwtVars, reqVars, hdr, ids, respVars, luaVars>>

CountRefuses(r) ==
  /\ pc[r] = "count"
  /\ Answers(r, 400)
  /\ UNCHANGED jwtVars

-----------------------------------------------------------------------------
(* The upstream and the response handler *)

Statuses == {200, 404, 502}

Upstream(r) ==
  /\ Goto(r, "upstream", IF kind[r] = "api" THEN "done" ELSE "respond")
  /\ \E code \in Statuses : resp' = [resp EXCEPT ![r] = [of |-> "upstream", code |-> code]]
  /\ UNCHANGED <<jwtVars, reqVars, runnerVars, status, lengthKept, luaVars>>

\* The minute of an RpcIdsInfoKey is over.
Expire(r) ==
  /\ r \in ids /\ pc[r] \in {"upstream", "respond"}
  /\ ids' = ids \ {r}
  /\ UNCHANGED <<jwtVars, pc, reqVars, hdr, charged, respVars, luaVars>>

\* The response is left as it is: scan-resp-handler only counts; rpc-resp-handler
\* does so if the status is no error, if the body cannot be decompressed, and if
\* the ids are not to be had.
ResponseFilterLeaves(r) ==
  /\ Goto(r, "respond", "header")
  /\ UNCHANGED <<jwtVars, reqVars, runnerVars, respVars, luaVars>>

\* RpcRespHandler.ResponseFilter: the upstream's error as JSON-RPC errors.
ResponseFilterRewrites(r) ==
  /\ kind[r] = "rpc" /\ pc[r] = "respond"
  /\ resp[r].code >= 400 /\ r \in ids
  /\ pc' = [pc EXCEPT ![r] = "header"]
  /\ resp' = [resp EXCEPT ![r] = [of |-> "rpcErrors", code |-> 200]]
  /\ UNCHANGED <<jwtVars, reqVars, runnerVars, status, lengthKept, luaVars>>

-----------------------------------------------------------------------------
(* The filters of confura-resp-rewrite.lua and scan-resp-rewrite.lua *)

\* Mutant: > for >=.
HiddenAbove400(r) == resp[r].code > 400 /\ (kind[r] = "scan" => resp[r].code < 500)

\* Mutant: only a client's error is hidden, as in the commented-out condition.
HiddenBelow500(r) == resp[r].code >= 400 /\ resp[r].code < 500

\* The statuses header_filter makes a 200 of, dropping the Content-Length.
Hidden(r) == resp[r].code >= 400 /\ (kind[r] = "scan" => resp[r].code < 500)

\* _M.header_filter
header_filter(r) ==
  /\ Goto(r, "header", "chunk1")
  /\ raw_status' = [raw_status EXCEPT ![kind[r]] = resp[r].code]
  /\ status' = [status EXCEPT ![r] = IF Hidden(r) THEN 200 ELSE resp[r].code]
  /\ lengthKept' = [lengthKept EXCEPT ![r] = ~Hidden(r)]
  /\ Sets(r, "raw_status")
  /\ UNCHANGED <<jwtVars, reqVars, runnerVars, resp, request_body, held, answer>>

\* A piece of the body as it came, and one that reports an error: to the ids of
\* the request body there is, with the status there is and the chunks held.
Chunk(c) == [ids |-> Nil, code |-> 0, text |-> {c}]
ErrorPiece(r, text) ==
  [ids |-> IF kind[r] = "rpc" THEN request_body ELSE Nil,
   code |-> raw_status[kind[r]], text |-> text]

\* core.json.decode and the fields read of what it returns raise no error.
Decodes == request_body # Nil /\ body[request_body] \notin {"null", "junk"}

Failed(r) == raw_status[kind[r]] >= 400

\* body_filter, for one chunk: it passes, is held back, or completes the error.
PassChunk(r, c) ==
  /\ Goto(r, <<"chunk1", "chunk2">>[c], <<"chunk2", "done">>[c])
  /\ ~Failed(r)
  /\ answer' = [answer EXCEPT ![r] = Append(@, Chunk(c))]
  /\ UNCHANGED <<jwtVars, reqVars, runnerVars, respVars, request_body, raw_status, held, touched>>

hold_body_chunk(r) ==
  /\ Goto(r, "chunk1", "chunk2")
  /\ Failed(r)
  /\ held' = [held EXCEPT ![r] = @ \cup {1}]
  /\ UNCHANGED <<jwtVars, reqVars, runnerVars, respVars, request_body, raw_status, answer, touched>>

\* Mutant: the chunks held before the last are lost.
RewriteLastOnly(r) ==
  /\ Goto(r, "chunk2", "done")
  /\ Failed(r) /\ (kind[r] = "rpc" => Decodes)
  /\ answer' = [answer EXCEPT ![r] = Append(@, ErrorPiece(r, {2}))]
  /\ UNCHANGED <<jwtVars, reqVars, runnerVars, respVars, request_body, raw_status, held, touched>>

Rewrite(r) ==
  /\ Goto(r, "chunk2", "done")
  /\ Failed(r) /\ (kind[r] = "rpc" => Decodes)
  /\ answer' = [answer EXCEPT ![r] = Append(@, ErrorPiece(r, held[r] \cup {2}))]
  /\ UNCHANGED <<jwtVars, reqVars, runnerVars, respVars, request_body, raw_status, held, touched>>

\* A Lua error: the header is out, and the connection to the client is closed.
LuaError(r) ==
  /\ Goto(r, "chunk2", "broken")
  /\ Failed(r) /\ kind[r] = "rpc" /\ ~Decodes
  /\ UNCHANGED <<jwtVars, reqVars, runnerVars, respVars, luaVars>>

body_filter(r) ==
  \/ \E c \in Chunks : PassChunk(r, c)
  \/ hold_body_chunk(r) \/ Rewrite(r) \/ LuaError(r)

-----------------------------------------------------------------------------

Runner(r) ==
  \/ ApikeyAuth(r) \/ ApikeyAuthFails(r)
  \/ JwtAuthStep(r) \/ JwtAuthPasses(r) \/ JwtAuthRefuses(r) \/ JwtAuthPanics(r)
  \/ RunnerDies(r)
  \/ Parse(r) \/ ParseFails(r) \/ Count(r) \/ CountRefuses(r)
  \/ ResponseFilterLeaves(r) \/ ResponseFilterRewrites(r) \/ Expire(r)

Lua(r) == rewrite(r) \/ access(r) \/ header_filter(r) \/ body_filter(r)

Ended(r) == pc[r] \in {"done", "broken"}
AllEnded == (\A r \in Requests : Ended(r)) /\ UNCHANGED vars

Next == (\E r \in Requests : Runner(r) \/ Upstream(r) \/ Lua(r)) \/ AllEnded

Spec == Init /\ [][Next]_vars

-----------------------------------------------------------------------------
(* Properties *)

Headers == [user : {"sent", "own"}, res : Results \cup {Nil}, id : BOOLEAN]
ASSUME HeadersAssumption == Nil \notin Headers

Pieces == [ids : Requests \cup {Nil}, code : {0, 400, 401, 503} \cup Statuses,
           text : SUBSET Chunks]

\* The types of Route's own variables, and of jwt-auth's.
TypeOK ==
  /\ Jwt!TypeOK
  /\ pc \in [Requests -> {"rewrite", "auth", "parse", "count", "upstream", "respond",
                          "header", "chunk1", "chunk2", "done", "broken"}]
  /\ kind \in [Requests -> Kinds] /\ body \in [Requests -> RpcBodies]
  /\ hdr \in [Requests -> Headers] /\ charged \in [Requests -> Headers \cup {Nil}]
  /\ ids \subseteq Requests
  /\ resp \in [Requests -> [of : {"refusal", "upstream", "rpcErrors"},
                            code : {400, 401, 503} \cup Statuses] \cup {Nil}]
  /\ status \in [Requests -> {0, 503} \cup Statuses]
  /\ lengthKept \in [Requests -> BOOLEAN]
  /\ request_body \in Requests \cup {Nil}
  /\ raw_status \in [{"rpc", "scan"} -> {0, 400, 503} \cup Statuses]
  /\ held \in [Requests -> SUBSET Chunks]
  /\ \A r \in Requests : answer[r] \in Seq(Pieces) /\ Len(answer[r]) <= 2
  /\ touched \in [Requests -> SUBSET {"request_body", "raw_status"}]

Whole == <<Chunk(1), Chunk(2)>>

\* What the Lua filters send for a request is its own, as far as the module
\* variables they read are still the ones it has set.  With its raw_status: the
\* response as it came, if that is no error, and else one report of its own status
\* with the whole of its own body.  With its request_body: the report is to its
\* own JSON-RPC ids, and it is missing only if the body is one that get_body or
\* json.decode has nothing for.
AnswerIsOwn ==
  \A r \in Requests :
    /\ pc[r] = "done" /\ kind[r] # "api" /\ "raw_status" \notin touched[r] =>
         IF resp[r].code < 400 THEN answer[r] = Whole
         ELSE Len(answer[r]) = 1 /\ answer[r][1].code = resp[r].code /\ answer[r][1].text = Chunks
    /\ "request_body" \notin touched[r] =>
         /\ \A i \in 1 .. Len(answer[r]) : answer[r][i].ids \in {r, Nil}
         /\ pc[r] = "broken" => body[r] \in {"huge", "null", "junk"}

\* A client that is sent the Content-Length of the response is sent the response.
\* Two exceptions: scan-resp-rewrite keeps the length for a 5xx, though it replaces
\* that body as well; and another request may set raw_status between the filters.
LengthFits ==
  \A r \in Requests :
    Ended(r) /\ kind[r] # "api" /\ lengthKept[r] /\ "raw_status" \notin touched[r] =>
      answer[r] = Whole \/ (kind[r] = "scan" /\ status[r] >= 500)

\* A request that count charges and the upstream gets is charged to the user that
\* authentication found, never to one the client names in a header; as what the
\* parser of its own route made of its own body; and requests of one cost type are
\* of one server type.  One that cannot be parsed is neither charged nor sent on.
ChargedAsOwn ==
  \A r \in Requests :
    /\ charged[r] # Nil =>
         /\ charged[r].user = "own" /\ charged[r].id
         /\ charged[r].res \in ParseRequest(r) \ {ParseError}
         /\ \A q \in Requests :
              charged[q] # Nil /\ charged[q].res.cost = charged[r].res.cost =>
                charged[q].res.server = charged[r].res.server
    /\ resp[r] # Nil /\ resp[r].of # "refusal" => charged[r] # Nil

\* JwtAuth's properties, for its part in the gateway.
MiddlewareIsOwn == Jwt!MiddlewareIsOwn
WarmStaysWarm == Jwt!WarmStaysWarm
=============================================================================
