------------------------------- MODULE ReqCall -------------------------------
(***************************************************************************)
(* HTTPReqCall: the request phase of the runner (internal/plugin/plugin.go *)
(* and internal/http/request.go, req-response.go).  Each APISIX connection *)
(* has a goroutine; the Request and ReqResponse objects they fill come     *)
(* from pools that all connections share.                                  *)
(*                                                                         *)
(* The filters are arbitrary code against the interface the runner gives   *)
(* them, so that each call they make is a step.  Only the pools are        *)
(* shared: the rest of a goroutine's work is on its own objects.           *)
(***************************************************************************)
EXTENDS Rewrites, FiniteSets

CONSTANTS
  Conns,
  Objects,   \* what the pools hold; a fresh object is one never used
  Inputs,    \* requests: path, hdr, args and the info APISIX can be asked for
  Infos,     \* "body" and the names of Nginx variables
  Paths,
  Codes,     \* statuses a filter may write
  ChainLen,  \* the filters in the route's chain
  MaxOps,    \* bound: calls the filters make during a request
  MaxCalls,  \* bound: requests
  Nil        \* Go's nil

ASSUME ConnsAssumption == IsFiniteSet(Conns)
ASSUME BoundsAssumption == ChainLen \in Nat \ {0} /\ MaxOps \in Nat /\ MaxCalls \in Nat
ASSUME CodesAssumption == Codes \subseteq Nat \ {0}
ASSUME InputsAssumption == \A q \in Inputs : q.hdr \in Maps /\ q.args \in Maps
ASSUME NilAssumption == Nil \notin Objects /\ Nil \notin Maps /\ Nil \notin Paths

VARIABLES
  pc,      \* connection -> "idle", "filter", "end" or "closed"
  at,      \* the filter of the chain that runs
  input,   \* the message: r.r
  req,     \* which Request object the goroutine uses
  w,       \* which ReqResponse object
  reqs,    \* the Request objects
  resps,   \* the ReqResponse objects
  up,      \* the connection can still be read and written
  result,  \* what APISIX did with the connection's last request
  ops, calls

vars == <<pc, at, input, req, w, reqs, resps, up, result, ops, calls>>

NewRequest ==
  [path |-> Nil, hdr |-> Nil, rawHdr |-> Nil, args |-> Nil, rawArgs |-> Nil,
   respHdr |-> Nil, info |-> [i \in Infos |-> Nil]]
NewReqResponse == [code |-> 0, body |-> FALSE]

NoMap == [n \in Names |-> <<>>]

Init ==
  /\ pc = [c \in Conns |-> "idle"]
  /\ at = [c \in Conns |-> 0]
  /\ input = [c \in Conns |-> Nil]
  /\ req = [c \in Conns |-> Nil]
  /\ w = [c \in Conns |-> Nil]
  /\ reqs = [o \in Objects |-> NewRequest]
  /\ resps = [o \in Objects |-> NewReqResponse]
  /\ up = [c \in Conns |-> TRUE]
  /\ result = [c \in Conns |-> Nil]
  /\ ops = [c \in Conns |-> 0]
  /\ calls = 0

-----------------------------------------------------------------------------
(* Request and ReqResponse *)

\* ReqResponse.HasChange
HasChange(x) == ~(~x.body /\ x.code = 0)

\* Request.Header and Args build the map on first use, and a copy of it.
Header(r, q) == IF r.hdr = Nil THEN [r EXCEPT !.hdr = q.hdr, !.rawHdr = q.hdr] ELSE r
Args(r, q) == IF r.args = Nil THEN [r EXCEPT !.args = q.args, !.rawArgs = q.args] ELSE r
RespHeader(r) == IF r.respHdr = Nil THEN [r EXCEPT !.respHdr = NoMap] ELSE r

\* Mutant: the cached body and variables stay in the object.
ResetKeepsInfo(r) ==
  [r EXCEPT !.path = Nil, !.hdr = Nil, !.args = Nil, !.respHdr = Nil]

\* Request.Reset leaves the two copies behind.
Reset(r) ==
  [r EXCEPT !.path = Nil, !.hdr = Nil, !.args = Nil, !.respHdr = Nil,
            !.info = [i \in Infos |-> Nil]]

\* Request.FetchChanges, applied by APISIX to the request it has.
Rewritten(r, q) ==
  [path    |-> IF r.path = Nil THEN q.path ELSE r.path,
   hdr     |-> IF r.hdr = Nil THEN q.hdr ELSE Apply(q.hdr, HeaderChanges(r.rawHdr, r.hdr)),
   args    |-> IF r.args = Nil THEN q.args ELSE Apply(q.args, ArgsChanges(r.rawArgs, r.args)),
   respHdr |-> IF r.respHdr = Nil THEN NoMap ELSE r.respHdr]

\* requestPhase.builder: Stop if a response is written, else Rewrite or nothing.
Answer(r, x, q) ==
  IF HasChange(x)
    THEN [kind |-> "stop", code |-> IF x.code = 0 THEN 200 ELSE x.code, body |-> x.body]
    ELSE [kind |-> "proxy", request |-> Rewritten(r, q)]

-----------------------------------------------------------------------------
(* HTTPReqCall *)

InUse(objs) == {objs[c] : c \in Conns} \ {Nil}

\* CreateRequest and CreateReqResponse: the token is known, the chain starts.
Call(c) ==
  /\ pc[c] = "idle"
  /\ calls < MaxCalls
  /\ calls' = calls + 1
  /\ \E q \in Inputs : input' = [input EXCEPT ![c] = q]
  /\ \E o \in Objects \ InUse(req) : req' = [req EXCEPT ![c] = o]
  /\ \E o \in Objects \ InUse(w) : w' = [w EXCEPT ![c] = o]
  /\ pc' = [pc EXCEPT ![c] = "filter"]
  /\ at' = [at EXCEPT ![c] = 1]
  /\ ops' = [ops EXCEPT ![c] = 0]
  /\ result' = [result EXCEPT ![c] = Nil]
  /\ UNCHANGED <<reqs, resps, up>>

\* The deferred ReuseRequest and ReuseReqResponse; then the connection is next.
Reuse(c, next, outcome) ==
  /\ reqs' = [reqs EXCEPT ![req[c]] = Reset(@)]
  /\ resps' = [resps EXCEPT ![w[c]] = NewReqResponse]
  /\ pc' = [pc EXCEPT ![c] = next]
  /\ at' = [at EXCEPT ![c] = 0]
  /\ input' = [input EXCEPT ![c] = Nil]
  /\ req' = [req EXCEPT ![c] = Nil]
  /\ w' = [w EXCEPT ![c] = Nil]
  /\ ops' = [ops EXCEPT ![c] = 0]
  /\ result' = [result EXCEPT ![c] = outcome]

\* GetRuleConf does not find the token: the objects go back unused.
NotFound(c) ==
  /\ pc[c] = "idle"
  /\ calls < MaxCalls
  /\ calls' = calls + 1
  /\ \E o \in Objects \ InUse(req), x \in Objects \ InUse(w) :
       /\ reqs' = [reqs EXCEPT ![o] = Reset(@)]
       /\ resps' = [resps EXCEPT ![x] = NewReqResponse]
  /\ result' = [result EXCEPT ![c] = [kind |-> "error"]]
  /\ UNCHANGED <<pc, at, input, req, w, up, ops>>

\* A filter makes a call.
Op(c) ==
  /\ pc[c] = "filter"
  /\ ops[c] < MaxOps
  /\ ops' = [ops EXCEPT ![c] = @ + 1]
  /\ UNCHANGED <<pc, at, input, req, w, result, calls>>

\* A call on the Request that leaves it as r.
OnRequest(c, r) ==
  /\ Op(c)
  /\ reqs' = [reqs EXCEPT ![req[c]] = r]
  /\ UNCHANGED <<resps, up>>

ReadHeader(c) == OnRequest(c, Header(reqs[req[c]], input[c]))

SetHeader(c, n, v) == OnRequest(c, [Header(reqs[req[c]], input[c]) EXCEPT !.hdr[n] = <<v>>])

DelHeader(c, n) == OnRequest(c, [Header(reqs[req[c]], input[c]) EXCEPT !.hdr[n] = <<>>])

ReadArgs(c) == OnRequest(c, Args(reqs[req[c]], input[c]))

AddArg(c, n, v) ==
  OnRequest(c, [Args(reqs[req[c]], input[c]) EXCEPT !.args[n] = Append(@, v)])

DelArg(c, n) == OnRequest(c, [Args(reqs[req[c]], input[c]) EXCEPT !.args[n] = <<>>])

SetPath(c, p) == OnRequest(c, [reqs[req[c]] EXCEPT !.path = p])

AddRespHeader(c, n, v) ==
  OnRequest(c, [RespHeader(reqs[req[c]]) EXCEPT !.respHdr[n] = Append(@, v)])

\* Body and Var: what is cached is returned, else APISIX is asked.  An empty
\* body is not cached.
AskInfo(c, i) ==
  LET r == reqs[req[c]] IN
  /\ OnRequest(c, [r EXCEPT !.info[i] = IF @ = Nil THEN input[c].info[i] ELSE @])
  /\ r.info[i] # Nil \/ up[c]

\* Asking fails: the connection is gone.  The filters go on with an error.
AskFails(c) ==
  /\ Op(c)
  /\ \E i \in Infos : reqs[req[c]].info[i] = Nil
  /\ up' = [up EXCEPT ![c] = FALSE]
  /\ UNCHANGED <<reqs, resps>>

OnReqResponse(c, x) ==
  /\ Op(c)
  /\ resps' = [resps EXCEPT ![w[c]] = x]
  /\ UNCHANGED <<reqs, up>>

\* A written status is not overridden.
WriteHeader(c, s) ==
  OnReqResponse(c, [resps[w[c]] EXCEPT !.code = IF @ # 0 THEN @ ELSE s])

Write(c) == OnReqResponse(c, [resps[w[c]] EXCEPT !.body = TRUE])

\* Mutant: the chain goes on after a status without a body.
ReturnOnBodyOnly(c) ==
  /\ pc[c] = "filter"
  /\ pc' = [pc EXCEPT ![c] = IF resps[w[c]].body \/ at[c] = ChainLen THEN "end" ELSE @]
  /\ at' = [at EXCEPT ![c] = @ + 1]
  /\ UNCHANGED <<input, req, w, reqs, resps, up, result, ops, calls>>

\* The filter returns: requestPhase.filter runs the next one, or stops.
Return(c) ==
  /\ pc[c] = "filter"
  /\ pc' = [pc EXCEPT ![c] = IF HasChange(resps[w[c]]) \/ at[c] = ChainLen THEN "end" ELSE @]
  /\ at' = [at EXCEPT ![c] = @ + 1]
  /\ UNCHANGED <<input, req, w, reqs, resps, up, result, ops, calls>>

\* The answer is built, the objects go back and the answer is written; if the
\* connection is gone the write fails, and handleConn ends.
Reply(c) ==
  /\ pc[c] = "end"
  /\ \/ up[c] /\ Reuse(c, "idle", Answer(reqs[req[c]], resps[w[c]], input[c])) /\ UNCHANGED up
     \/ Reuse(c, "closed", [kind |-> "error"]) /\ up' = [up EXCEPT ![c] = FALSE]
  /\ UNCHANGED calls

\* Mutant: the objects are put back by hand at the end, not deferred.
PanicWithoutDefer(c) ==
  /\ pc[c] = "filter"
  /\ pc' = [pc EXCEPT ![c] = "closed"]
  /\ up' = [up EXCEPT ![c] = FALSE]
  /\ UNCHANGED <<at, input, req, w, reqs, resps, result, ops, calls>>

\* A filter panics: the deferred calls run, and handleConn recovers and closes
\* the connection.
Panic(c) ==
  /\ pc[c] = "filter"
  /\ Reuse(c, "closed", [kind |-> "error"])
  /\ up' = [up EXCEPT ![c] = FALSE]
  /\ UNCHANGED calls

\* APISIX connects again.
Connect(c) ==
  /\ pc[c] = "closed"
  /\ pc' = [pc EXCEPT ![c] = "idle"]
  /\ up' = [up EXCEPT ![c] = TRUE]
  /\ UNCHANGED <<at, input, req, w, reqs, resps, result, ops, calls>>

Filter(c) ==
  \/ \E n \in Names, v \in Values : SetHeader(c, n, v) \/ AddArg(c, n, v) \/ AddRespHeader(c, n, v)
  \/ \E n \in Names : DelHeader(c, n) \/ DelArg(c, n)
  \/ \E p \in Paths : SetPath(c, p)
  \/ \E i \in Infos : AskInfo(c, i)
  \/ \E s \in Codes : WriteHeader(c, s)
  \/ ReadHeader(c) \/ ReadArgs(c) \/ Write(c) \/ AskFails(c)

Next ==
  \E c \in Conns :
    \/ Call(c) \/ NotFound(c) \/ Filter(c) \/ Return(c) \/ Reply(c) \/ Panic(c) \/ Connect(c)

Spec == Init /\ [][Next]_vars

-----------------------------------------------------------------------------
(* Properties *)

Running == {c \in Conns : pc[c] \in {"filter", "end"}}

MaybeMap == Maps \cup {Nil}

\* Type correctness: a goroutine has its objects exactly while it runs filters.
TypeOK ==
  /\ pc \in [Conns -> {"idle", "filter", "end", "closed"}]
  /\ at \in [Conns -> 0 .. ChainLen + 1]
  /\ input \in [Conns -> Inputs \cup {Nil}]
  /\ req \in [Conns -> Objects \cup {Nil}]
  /\ w \in [Conns -> Objects \cup {Nil}]
  /\ \A c \in Conns : (c \in Running) = (req[c] # Nil) /\ (c \in Running) = (w[c] # Nil)
  /\ \A o \in Objects :
       /\ reqs[o].path \in Paths \cup {Nil}
       /\ \A m \in {"hdr", "rawHdr", "args", "rawArgs", "respHdr"} : reqs[o][m] \in MaybeMap
  /\ resps \in [Objects -> [code : Codes \cup {0}, body : BOOLEAN]]
  /\ up \in [Conns -> BOOLEAN]
  /\ ops \in [Conns -> 0 .. MaxOps]
  /\ calls \in 0 .. MaxCalls

\* Although the objects are shared by all connections, and Reset leaves the two
\* copies behind, what a request's filters see cached, and what its changes are
\* computed from, is that request's own (request.go 192).
SeesOwnRequest ==
  \A c \in Running :
    LET r == reqs[req[c]] IN
    /\ \A i \in Infos : r.info[i] \in {Nil, input[c].info[i]}
    /\ r.hdr # Nil => r.rawHdr = input[c].hdr
    /\ r.args # Nil => r.rawArgs = input[c].args

\* The request as the filters see it.
View(c) ==
  LET r == reqs[req[c]] IN
  [path    |-> IF r.path = Nil THEN input[c].path ELSE r.path,
   hdr     |-> IF r.hdr = Nil THEN input[c].hdr ELSE r.hdr,
   args    |-> IF r.args = Nil THEN input[c].args ELSE r.args,
   respHdr |-> IF r.respHdr = Nil THEN NoMap ELSE r.respHdr]

Promise == INSTANCE ReqFilters WITH
  stage <- [c \in Conns |-> IF pc[c] = "closed" THEN "idle" ELSE pc[c]],
  request <- [c \in Conns |-> IF c \in Running THEN View(c) ELSE Nil],
  response <- [c \in Conns |-> IF c \in Running THEN resps[w[c]] ELSE NewReqResponse]

\* The pooled objects, the lazily built maps and the differences on the wire
\* implement what the plugin interface promises, as long as no header of the
\* request has several values.
Implements == Promise!Spec
=============================================================================
