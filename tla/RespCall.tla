------------------------------ MODULE RespCall ------------------------------
(***************************************************************************)
(* HTTPRespCall: the response phase of the runner (internal/plugin/        *)
(* plugin.go responsePhase, internal/http/response.go).  The Response      *)
(* objects come from a pool that all connections share; a filter's calls   *)
(* are steps, as in ReqCall.                                               *)
(***************************************************************************)
EXTENDS Rewrites

CONSTANTS
  Conns,
  Objects,   \* what the pool holds; a fresh object is one never used
  Inputs,    \* responses of the upstream: status, hdr, info ("body", variables)
  Infos,
  Codes,     \* statuses a filter may write
  Bodies,    \* what a filter may write
  Blank,     \* an empty slice of bytes
  ChainLen,
  MaxOps,    \* bound: calls the filters make during a response
  MaxCalls,  \* bound: responses
  Nil

ASSUME InputsAssumption == \A q \in Inputs : q.hdr \in Maps
ASSUME BoundsAssumption == ChainLen \in Nat \ {0} /\ MaxOps \in Nat /\ MaxCalls \in Nat
ASSUME CodesAssumption == Codes \subseteq Nat \ {0}
ASSUME NilAssumption == Nil \notin Objects /\ Nil \notin Maps /\ Nil \notin Bodies

VARIABLES
  pc,      \* connection -> "idle", "filter", "end" or "closed"
  at,      \* the filter of the chain that runs
  input,   \* the message: r.r
  resp,    \* which Response object the goroutine uses
  resps,   \* the Response objects
  up,      \* the connection can still be read and written
  result,  \* what the client gets
  meant,   \* history: the response, had the filters worked on it directly
  ops, calls

vars == <<pc, at, input, resp, resps, up, result, meant, ops, calls>>

NewResponse ==
  [hdr |-> Nil, rawHdr |-> Nil, statusCode |-> 0, body |-> Nil,
   info |-> [i \in Infos |-> Nil]]

Init ==
  /\ pc = [c \in Conns |-> "idle"]
  /\ at = [c \in Conns |-> 0]
  /\ input = [c \in Conns |-> Nil]
  /\ resp = [c \in Conns |-> Nil]
  /\ resps = [o \in Objects |-> NewResponse]
  /\ up = [c \in Conns |-> TRUE]
  /\ result = [c \in Conns |-> Nil]
  /\ meant = [c \in Conns |-> Nil]
  /\ ops = [c \in Conns |-> 0]
  /\ calls = 0

-----------------------------------------------------------------------------
(* Response *)

\* Response.HasChange: a header map that was only read counts as a change.
HasChange(r) == ~(r.body = Nil /\ r.hdr = Nil /\ r.statusCode = 0)

Header(r, q) == IF r.hdr = Nil THEN [r EXCEPT !.hdr = q.hdr, !.rawHdr = q.hdr] ELSE r

\* Mutant: the cached body and variables stay in the object.
ResetKeepsInfo(r) == [r EXCEPT !.hdr = Nil, !.body = Nil, !.statusCode = 0]

\* Mutant: the status that was written stays in the object.
ResetKeepsStatus(r) ==
  [r EXCEPT !.hdr = Nil, !.body = Nil, !.info = [i \in Infos |-> Nil]]

\* Response.Reset leaves the copy of the headers behind.
Reset(r) ==
  [r EXCEPT !.hdr = Nil, !.body = Nil, !.statusCode = 0, !.info = [i \in Infos |-> Nil]]

\* FetchChanges, applied by APISIX to the upstream's response: a status and a
\* body replace the ones it has; an empty body is not sent.
Rewritten(r, q) ==
  [status |-> IF r.statusCode = 0 THEN q.status ELSE r.statusCode,
   hdr    |-> IF r.hdr = Nil THEN q.hdr ELSE Apply(q.hdr, HeaderChanges(r.rawHdr, r.hdr)),
   body   |-> IF r.body \in {Nil, Blank} THEN q.info["body"] ELSE r.body]

-----------------------------------------------------------------------------
(* HTTPRespCall *)

Free == Objects \ {resp[c] : c \in Conns}

Call(c) ==
  /\ pc[c] = "idle"
  /\ calls < MaxCalls
  /\ calls' = calls + 1
  /\ \E q \in Inputs :
       /\ input' = [input EXCEPT ![c] = q]
       /\ meant' = [meant EXCEPT ![c] = 
            [status |-> q.status, hdr |-> q.hdr, body |-> q.info["body"], written |-> FALSE,
             once |-> {n \in Names : Len(q.hdr[n]) <= 1}]]
  /\ \E o \in Free : resp' = [resp EXCEPT ![c] = o]
  /\ pc' = [pc EXCEPT ![c] = "filter"]
  /\ at' = [at EXCEPT ![c] = 1]
  /\ result' = [result EXCEPT ![c] = Nil]
  /\ UNCHANGED <<resps, up, ops>>

\* The deferred ReuseResponse.
Reuse(c, next, outcome) ==
  /\ resps' = [resps EXCEPT ![resp[c]] = Reset(@)]
  /\ pc' = [pc EXCEPT ![c] = next]
  /\ at' = [at EXCEPT ![c] = 0]
  /\ input' = [input EXCEPT ![c] = Nil]
  /\ resp' = [resp EXCEPT ![c] = Nil]
  /\ ops' = [ops EXCEPT ![c] = 0]
  /\ result' = [result EXCEPT ![c] = outcome]

\* GetRuleConf does not find the token.
NotFound(c) ==
  /\ pc[c] = "idle"
  /\ calls < MaxCalls
  /\ calls' = calls + 1
  /\ \E o \in Free : resps' = [resps EXCEPT ![o] = Reset(@)]
  /\ result' = [result EXCEPT ![c] = [kind |-> "error"]]
  /\ meant' = [meant EXCEPT ![c] = Nil]
  /\ UNCHANGED <<pc, at, input, resp, up, ops>>

\* A filter makes a call that leaves the Response as r.
OnResponse(c, r) ==
  /\ pc[c] = "filter"
  /\ ops[c] < MaxOps
  /\ ops' = [ops EXCEPT ![c] = @ + 1]
  /\ resps' = [resps EXCEPT ![resp[c]] = r]
  /\ UNCHANGED <<pc, at, input, resp, result, calls>>

ReadHeader(c) ==
  OnResponse(c, Header(resps[resp[c]], input[c])) /\ UNCHANGED <<up, meant>>

SetHeader(c, n, v) ==
  /\ OnResponse(c, [Header(resps[resp[c]], input[c]) EXCEPT !.hdr[n] = <<v>>])
  /\ meant' = [meant EXCEPT ![c].hdr[n] = <<v>>]
  /\ UNCHANGED up

DelHeader(c, n) ==
  /\ OnResponse(c, [Header(resps[resp[c]], input[c]) EXCEPT !.hdr[n] = <<>>])
  /\ meant' = [meant EXCEPT ![c].hdr[n] = <<>>]
  /\ UNCHANGED up

\* Mutant: the last status wins.
WriteHeaderOverrides(c, s) ==
  /\ OnResponse(c, [resps[resp[c]] EXCEPT !.statusCode = s])
  /\ meant' = IF meant[c].written THEN meant
              ELSE [meant EXCEPT ![c].status = s, ![c].written = TRUE]
  /\ UNCHANGED up

\* A written status is not overridden.
WriteHeader(c, s) ==
  /\ OnResponse(c, [resps[resp[c]] EXCEPT !.statusCode = IF @ # 0 THEN @ ELSE s])
  /\ meant' = IF meant[c].written THEN meant
              ELSE [meant EXCEPT ![c].status = s, ![c].written = TRUE]
  /\ UNCHANGED up

\* A filter writes the body once; writing more only appends to the buffer.
Write(c, b) ==
  /\ OnResponse(c, [resps[resp[c]] EXCEPT !.body = b])
  /\ resps[resp[c]].body = Nil
  /\ meant' = IF b = Blank THEN meant ELSE [meant EXCEPT ![c].body = b]
  /\ UNCHANGED up

\* ReadBody and Var.
AskInfo(c, i) ==
  LET r == resps[resp[c]] IN
  /\ OnResponse(c, [r EXCEPT !.info[i] = IF @ = Nil THEN input[c].info[i] ELSE @])
  /\ r.info[i] # Nil \/ up[c]
  /\ UNCHANGED <<up, meant>>

AskFails(c) ==
  /\ OnResponse(c, resps[resp[c]])
  /\ \E i \in Infos : resps[resp[c]].info[i] = Nil
  /\ up' = [up EXCEPT ![c] = FALSE]
  /\ UNCHANGED meant

\* The filter returns: responsePhase.filter runs the next one, or stops.
Return(c) ==
  /\ pc[c] = "filter"
  /\ pc' = [pc EXCEPT ![c] = IF HasChange(resps[resp[c]]) \/ at[c] = ChainLen THEN "end" ELSE @]
  /\ at' = [at EXCEPT ![c] = @ + 1]
  /\ UNCHANGED <<input, resp, resps, up, result, meant, ops, calls>>

Reply(c) ==
  /\ pc[c] = "end"
  /\ \/ /\ up[c]
        /\ Reuse(c, "idle", [kind |-> "client", response |-> Rewritten(resps[resp[c]], input[c])])
        /\ UNCHANGED up
     \/ Reuse(c, "closed", [kind |-> "error"]) /\ up' = [up EXCEPT ![c] = FALSE]
  /\ UNCHANGED <<meant, calls>>

\* Mutant: the object is put back by hand at the end, not deferred.
PanicWithoutDefer(c) ==
  /\ pc[c] = "filter"
  /\ pc' = [pc EXCEPT ![c] = "closed"]
  /\ up' = [up EXCEPT ![c] = FALSE]
  /\ UNCHANGED <<at, input, resp, resps, result, meant, ops, calls>>

Panic(c) ==
  /\ pc[c] = "filter"
  /\ Reuse(c, "closed", [kind |-> "error"])
  /\ up' = [up EXCEPT ![c] = FALSE]
  /\ UNCHANGED <<meant, calls>>

\* APISIX connects again.
Connect(c) ==
  /\ pc[c] = "closed"
  /\ pc' = [pc EXCEPT ![c] = "idle"]
  /\ up' = [up EXCEPT ![c] = TRUE]
  /\ UNCHANGED <<at, input, resp, resps, result, meant, ops, calls>>

Filter(c) ==
  \/ \E n \in Names, v \in Values : SetHeader(c, n, v)
  \/ \E n \in Names : DelHeader(c, n)
  \/ \E s \in Codes : WriteHeader(c, s)
  \/ \E b \in Bodies : Write(c, b)
  \/ \E i \in Infos : AskInfo(c, i)
  \/ ReadHeader(c) \/ AskFails(c)

Next ==
  \E c \in Conns :
    \/ Call(c) \/ NotFound(c) \/ Filter(c) \/ Return(c) \/ Reply(c) \/ Panic(c) \/ Connect(c)

Spec == Init /\ [][Next]_vars

-----------------------------------------------------------------------------
(* Properties *)

Running == {c \in Conns : pc[c] \in {"filter", "end"}}

\* Type correctness: a goroutine has its object exactly while it runs filters.
TypeOK ==
  /\ pc \in [Conns -> {"idle", "filter", "end", "closed"}]
  /\ at \in [Conns -> 0 .. ChainLen + 1]
  /\ input \in [Conns -> Inputs \cup {Nil}]
  /\ resp \in [Conns -> Objects \cup {Nil}]
  /\ \A c \in Conns : (c \in Running) = (resp[c] # Nil)
  /\ \A o \in Objects :
       /\ resps[o].hdr \in Maps \cup {Nil}
       /\ resps[o].statusCode \in Codes \cup {0}
       /\ resps[o].body \in Bodies \cup {Nil}
  /\ up \in [Conns -> BOOLEAN]
  /\ ops \in [Conns -> 0 .. MaxOps]
  /\ calls \in 0 .. MaxCalls

\* Although the objects are shared by all connections, what a filter reads of
\* the body and the variables is its own response's (response.go 280).
SeesOwnResponse ==
  \A c \in Running, i \in Infos : resps[resp[c]].info[i] \in {Nil, input[c].info[i]}

\* The client gets the response as if the filters had worked on it directly: the
\* first status written, the body written, and of every header that the upstream
\* sent at most once the value the last filter left.  Writing no bytes keeps the
\* upstream's body.
ClientGetsWhatFiltersLeft ==
  \A c \in Conns :
    result[c] # Nil /\ pc[c] = "idle" /\ result[c].kind = "client" =>
      LET got == result[c].response IN
      /\ got.status = meant[c].status
      /\ got.body = meant[c].body
      /\ \A n \in meant[c].once : got.hdr[n] = meant[c].hdr[n]
=============================================================================
