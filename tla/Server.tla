------------------------------- MODULE Server -------------------------------
(***************************************************************************)
(* The runner's server (internal/server, internal/util): its life around   *)
(* the socket file, the accept loop, and handleConn, which answers the     *)
(* frames of a connection with builders from a pool all connections share. *)
(*                                                                         *)
(* Two runners may live at a time, since APISIX starts one when it reloads *)
(* while the last is still exiting.  A connection carries, either way, a   *)
(* sequence of headers and of bytes; a byte is abstracted to the answer it *)
(* belongs to.  What a handler does is in ReqCall, RespCall and ConfCache: *)
(* here it returns an answer of some size, an error, or panics.            *)
(***************************************************************************)
EXTENDS Integers, Sequences, FiniteSets

CONSTANTS
  NRunners,   \* bound: runner processes, numbered as they are started
  NConns,     \* bound: connections of APISIX, numbered as they are opened
  MaxActors,  \* bound: runners and connections together
  Builders,   \* flatbuffers.Builder objects
  Types,      \* bytes APISIX sends as a frame's type
  Handled,    \* the keys of typeHandlerMap
  LenMod,     \* 2^24: what the three length bytes of a header count up to
  Sizes,      \* sizes of a handler's answer
  MaxCalls,   \* bound: calls made
  Nil

Runners == 1 .. NRunners
Conns == 1 .. NConns

RPCError == 0
ErrSize == 1                  \* an error report is small
MaxDataSize == 2 * LenMod - 1 \* 2<<24 - 1

ASSUME TypesAssumption == Types \subseteq Nat \ {RPCError} /\ Handled \subseteq Types
ASSUME SizesAssumption == LenMod \in Nat \ {0, 1} /\ Sizes \subseteq Nat \ {0}
ASSUME BoundsAssumption == NRunners \in Nat /\ NConns \in Nat /\ MaxActors \in Nat /\ MaxCalls \in Nat
ASSUME NilAssumption == Nil \notin Nat \cup Builders

VARIABLES
  proc,        \* where a runner is in Run
  path,        \* the runner whose listener made the socket file, or Nil
  overlapped,  \* history: runners that were alive together with another
  conn,        \* "none", "queued" for Accept, "open" or "closed" by the runner
  owner,       \* the runner that listens or listened at the other end
  peer,        \* APISIX has not closed its end
  in,          \* sent to the runner and not read yet
  out,         \* sent to APISIX and not read yet
  spc,         \* where handleConn is in its loop
  frame,       \* the frame it has read, and then the answer to it
  bd,          \* the builder of the answer
  content,     \* what each builder holds
  held,        \* builders that are not in the pool
  call,        \* the call APISIX waits for on a connection, or Nil
  calls,
  ans,         \* history: the answer made to the call APISIX waits for
  skewed       \* history: an answer's size did not fit the length bytes

procVars == <<proc, path, overlapped>>
wireVars == <<conn, owner, peer, in, out>>
loopVars == <<spc, frame, bd, content, held, ans, skewed>>
callVars == <<call, calls>>
vars == <<procVars, wireVars, loopVars, callVars>>

Codes == {"ok", "CONF_TOKEN_NOT_FOUND", "BAD_REQUEST", "SERVICE_UNAVAILABLE"}
\* The next runner to start, or connection to open, within the bounds.
NewRunner == {p \in Runners : proc[p] = "new" /\ \A q \in Runners : q < p => proc[q] # "new"}
NewConn == {c \in Conns : conn[c] = "none" /\ \A d \in Conns : d < c => conn[d] # "none"}
Room ==
  Cardinality({p \in Runners : proc[p] # "new"}) + Cardinality({c \in Conns : conn[c] # "none"})
    < MaxActors

Alive(p) == proc[p] \notin {"new", "down", "failed"}
Listening(p) == proc[p] \in {"bound", "serving", "quit"}

Init ==
  /\ proc = [p \in Runners |-> "new"]
  /\ path = Nil
  /\ overlapped = {}
  /\ conn = [c \in Conns |-> "none"]
  /\ owner = [c \in Conns |-> Nil]
  /\ peer = [c \in Conns |-> TRUE]
  /\ in = [c \in Conns |-> <<>>]
  /\ out = [c \in Conns |-> <<>>]
  /\ spc = [c \in Conns |-> "read"]
  /\ frame = [c \in Conns |-> Nil]
  /\ bd = [c \in Conns |-> Nil]
  /\ content = [b \in Builders |-> Nil]
  /\ held = {}
  /\ call = [c \in Conns |-> Nil]
  /\ calls = 0
  /\ ans = [c \in Conns |-> Nil]
  /\ skewed = [c \in Conns |-> FALSE]

-----------------------------------------------------------------------------
(* Run *)

\* Mutant: the file of a runner that died is not removed.
StartKeepsFile(p) ==
  LET others == {q \in Runners \ {p} : Alive(q)}
  IN /\ p \in NewRunner /\ Room
     /\ proc' = [proc EXCEPT ![p] = "removed"]
     /\ overlapped' = overlapped \cup (IF others = {} THEN {} ELSE others \cup {p})
     /\ UNCHANGED <<path, wireVars, loopVars, callVars>>

\* RemoveAll(sockAddr): whoever made the file.
Start(p) ==
  LET others == {q \in Runners \ {p} : Alive(q)}
  IN /\ p \in NewRunner /\ Room
     /\ proc' = [proc EXCEPT ![p] = "removed"]
     /\ path' = Nil
     /\ overlapped' = overlapped \cup (IF others = {} THEN {} ELSE others \cup {p})
     /\ UNCHANGED <<wireVars, loopVars, callVars>>

\* The connections of S are closed, and their goroutines end.
CloseAll(S) ==
  /\ conn' = [c \in Conns |-> IF c \in S THEN "closed" ELSE conn[c]]
  /\ in' = [c \in Conns |-> IF c \in S THEN <<>> ELSE in[c]]
  /\ spc' = [c \in Conns |-> IF c \in S THEN "read" ELSE spc[c]]
  /\ frame' = [c \in Conns |-> IF c \in S THEN Nil ELSE frame[c]]
  /\ bd' = [c \in Conns |-> IF c \in S THEN Nil ELSE bd[c]]
  /\ held' = held \ {bd[c] : c \in S}
  /\ owner' = [c \in Conns |-> IF c \in S THEN Nil ELSE owner[c]]
  /\ content' = [b \in Builders |-> IF \E c \in S : bd[c] = b THEN Nil ELSE content[b]]
  /\ UNCHANGED <<peer, out, ans, skewed, callVars>>

Of(p) == {c \in Conns : owner[c] = p}

\* Fatalf: the process ends without its deferred calls.
Fatal(p) ==
  /\ proc' = [proc EXCEPT ![p] = "failed"]
  /\ CloseAll(Of(p))
  /\ UNCHANGED <<path, overlapped>>

\* net.Listen makes the file; it fails when there is one.
Listen(p) ==
  /\ proc[p] = "removed"
  /\ \/ /\ path = Nil
        /\ path' = p
        /\ proc' = [proc EXCEPT ![p] = "bound"]
        /\ UNCHANGED <<overlapped, wireVars, loopVars, callVars>>
     \/ path # Nil /\ Fatal(p)

\* os.Chmod goes by the path, too; then the accept loop starts.
Chmod(p) ==
  /\ proc[p] = "bound"
  /\ \/ /\ path # Nil
        /\ proc' = [proc EXCEPT ![p] = "serving"]
        /\ UNCHANGED <<path, overlapped, wireVars, loopVars, callVars>>
     \/ path = Nil /\ Fatal(p)

\* SIGINT or SIGTERM: close(done), and Run returns.
Signal(p) ==
  /\ proc[p] = "serving"
  /\ proc' = [proc EXCEPT ![p] = "quit"]
  /\ UNCHANGED <<path, overlapped, wireVars, loopVars, callVars>>

\* The deferred l.Close, which also unlinks the path, resets what is queued.
CloseListener(p) ==
  /\ proc[p] = "quit"
  /\ proc' = [proc EXCEPT ![p] = "closed"]
  /\ path' = Nil
  /\ CloseAll({c \in Of(p) : conn[c] = "queued"})
  /\ UNCHANGED overlapped

Ends(p) ==
  /\ proc' = [proc EXCEPT ![p] = "down"]
  /\ CloseAll(Of(p))

\* The deferred RemoveAll, and the end of the process with all its connections.
Exit(p) ==
  /\ proc[p] = "closed"
  /\ Ends(p)
  /\ path' = Nil
  /\ UNCHANGED overlapped

\* The process is killed, or crashes: the file stays.
Kill(p) ==
  /\ Alive(p)
  /\ Ends(p)
  /\ UNCHANGED <<path, overlapped>>

\* l.Accept and the test of done, after which the connection has a goroutine.
Accept(c) ==
  /\ conn[c] = "queued" /\ proc[owner[c]] = "serving"
  /\ conn' = [conn EXCEPT ![c] = "open"]
  /\ UNCHANGED <<procVars, owner, peer, in, out, loopVars, callVars>>

-----------------------------------------------------------------------------
(* handleConn *)

\* What goes over a connection.
Header(ty, len) == [kind |-> "header", ty |-> ty, len |-> len]
Byte(id, code) == [kind |-> "byte", call |-> id, code |-> code]

Runs(c, at) == conn[c] = "open" /\ spc[c] = at

\* The loop breaks, or a panic is recovered: the deferred c.Close.
Close(c) ==
  /\ CloseAll({c})
  /\ UNCHANGED procVars

\* Mutant: the type byte is left in the header the length is taken from.
LengthWithType(h) == h.ty * LenMod + h.len

\* The length: the header as a number once header[0] is zero.
Length(h) == h.len

Arrived(c) == in[c] # <<>> /\ Len(in[c]) > Length(Head(in[c]))

\* ReadBytes of the header and of the body.
Read(c) ==
  /\ Runs(c, "read") /\ Arrived(c)
  /\ spc' = [spc EXCEPT ![c] = "dispatch"]
  /\ frame' = [frame EXCEPT ![c] = [ty |-> Head(in[c]).ty, call |-> in[c][2].call]]
  /\ in' = [in EXCEPT ![c] = SubSeq(@, Length(Head(@)) + 2, Len(@))]
  /\ UNCHANGED <<procVars, conn, owner, peer, out, bd, content, held, ans, skewed, callVars>>

\* ReadErr: APISIX has closed its end, between two frames or within one.
ReadFails(c) ==
  /\ Runs(c, "read") /\ ~Arrived(c) /\ ~peer[c]
  /\ Close(c)

\* ReportError
Report(c, code) == [call |-> frame[c].call, ty |-> RPCError, code |-> code, size |-> ErrSize]

\* checkIfDataTooLarge and dispatchRPC after a handler that returned size bytes.
Checked(c, size) ==
  IF size < MaxDataSize
  THEN [call |-> frame[c].call, ty |-> frame[c].ty, code |-> "ok", size |-> size]
  ELSE Report(c, "SERVICE_UNAVAILABLE")

\* What dispatchRPC may return for the frame.
Answers(c) ==
  IF frame[c].ty \in Handled
  THEN {Checked(c, n) : n \in Sizes}
         \cup {Report(c, "CONF_TOKEN_NOT_FOUND"), Report(c, "SERVICE_UNAVAILABLE")}
  ELSE {Report(c, "BAD_REQUEST")}

\* GetBuilder: a builder of the pool, or a new one; which one makes no difference.
GetBuilder == CHOOSE b \in Builders : b \notin held

\* dispatchRPC
Dispatch(c) ==
  /\ Runs(c, "dispatch") /\ held # Builders
  /\ \E a \in Answers(c) :
       /\ content' = [content EXCEPT ![GetBuilder] = a]
       /\ frame' = [frame EXCEPT ![c] = a]
       /\ ans' = [ans EXCEPT ![c] = IF peer[c] THEN a ELSE Nil]
       /\ skewed' = [skewed EXCEPT ![c] = @ \/ (peer[c] /\ a.size >= LenMod)]
  /\ held' = held \cup {GetBuilder}
  /\ bd' = [bd EXCEPT ![c] = GetBuilder]
  /\ spc' = [spc EXCEPT ![c] = "header"]
  /\ UNCHANGED <<procVars, wireVars, callVars>>

\* A filter panics; recoverPanic.
Panic(c) ==
  /\ Runs(c, "dispatch") /\ frame[c].ty \in Handled
  /\ Close(c)

\* Mutant: the builder goes back before its bytes are written.
WriteHeaderPuts(c) ==
  /\ Runs(c, "header") /\ peer[c]
  /\ out' = [out EXCEPT ![c] = Append(@, Header(frame[c].ty, frame[c].size % LenMod))]
  /\ held' = held \ {bd[c]}
  /\ spc' = [spc EXCEPT ![c] = "body"]
  /\ UNCHANGED <<procVars, conn, owner, peer, in, frame, bd, content, ans, skewed, callVars>>

\* The size as four bytes, of which the first is overwritten by the type.
WriteHeader(c) ==
  /\ Runs(c, "header") /\ peer[c]
  /\ out' = [out EXCEPT ![c] = Append(@, Header(frame[c].ty, frame[c].size % LenMod))]
  /\ spc' = [spc EXCEPT ![c] = "body"]
  /\ UNCHANGED <<procVars, conn, owner, peer, in, frame, bd, content, held, ans, skewed, callVars>>

\* out is FinishedBytes of the builder, not a copy of them.
WriteBody(c) ==
  /\ Runs(c, "body") /\ peer[c]
  /\ out' = [out EXCEPT ![c] = @ \o [i \in 1 .. frame[c].size |-> Byte(content[bd[c]].call, content[bd[c]].code)]]
  /\ spc' = [spc EXCEPT ![c] = "put"]
  /\ UNCHANGED <<procVars, conn, owner, peer, in, frame, bd, content, held, ans, skewed, callVars>>

\* WriteErr: the builder is left to the garbage collector.
WriteFails(c) ==
  /\ Runs(c, "header") \/ Runs(c, "body")
  /\ ~peer[c]
  /\ Close(c)

PutBuilder(c) ==
  /\ Runs(c, "put")
  /\ held' = held \ {bd[c]}
  /\ content' = [content EXCEPT ![bd[c]] = Nil]
  /\ bd' = [bd EXCEPT ![c] = Nil]
  /\ frame' = [frame EXCEPT ![c] = Nil]
  /\ spc' = [spc EXCEPT ![c] = "read"]
  /\ UNCHANGED <<procVars, wireVars, ans, skewed, callVars>>

-----------------------------------------------------------------------------
(* APISIX *)

Connect(c) ==
  /\ c \in NewConn /\ Room
  /\ path # Nil /\ Listening(path)
  /\ conn' = [conn EXCEPT ![c] = "queued"]
  /\ owner' = [owner EXCEPT ![c] = path]
  /\ UNCHANGED <<procVars, peer, in, out, loopVars, callVars>>

\* A call on a connection of the keepalive pool: a header and a byte.
Send(c, ty) ==
  /\ conn[c] # "none" /\ peer[c] /\ call[c] = Nil /\ calls < MaxCalls
  /\ in' = IF conn[c] = "closed" THEN in   \* it is lost
           ELSE [in EXCEPT ![c] = @ \o <<Header(ty, 1), Byte(calls, "ok")>>]
  /\ call' = [call EXCEPT ![c] = calls]
  /\ calls' = calls + 1
  /\ UNCHANGED <<procVars, conn, owner, peer, out, loopVars>>

Garbled(c) == out[c] # <<>> /\ Head(out[c]).kind # "header"
Complete(c) == out[c] # <<>> /\ ~Garbled(c) /\ Len(out[c]) > Head(out[c]).len

\* APISIX reads a header, and as many bytes as it announces.
ReadReply(c) ==
  /\ peer[c] /\ call[c] # Nil /\ Complete(c)
  /\ LET h == Head(out[c])
     IN out' = [out EXCEPT ![c] = SubSeq(@, h.len + 2, Len(@))]
  /\ call' = [call EXCEPT ![c] = Nil]
  /\ ans' = [ans EXCEPT ![c] = Nil]
  /\ UNCHANGED <<procVars, conn, owner, peer, in, spc, frame, bd, content, held, skewed, calls>>

Hangs(c) ==
  /\ peer' = [peer EXCEPT ![c] = FALSE]
  /\ out' = [out EXCEPT ![c] = <<>>]
  /\ call' = [call EXCEPT ![c] = Nil]
  /\ ans' = [ans EXCEPT ![c] = Nil]
  /\ skewed' = [skewed EXCEPT ![c] = FALSE]
  /\ UNCHANGED <<procVars, conn, owner, spc, frame, bd, content, held, calls>>

\* What is read is no header, or the connection was closed: the call has failed.
ReadReplyFails(c) ==
  /\ peer[c] /\ call[c] # Nil
  /\ Garbled(c) \/ (conn[c] = "closed" /\ ~Complete(c))
  /\ Hangs(c)
  /\ UNCHANGED in

\* A timeout, or the end of a worker, maybe before it has sent the whole frame.
GiveUp(c) ==
  /\ conn[c] \in {"queued", "open"} /\ peer[c]
  /\ UNCHANGED in \/ (in[c] # <<>> /\ in' = [in EXCEPT ![c] = <<Head(@)>>])
  /\ Hangs(c)

-----------------------------------------------------------------------------

Run(p) == Listen(p) \/ Chmod(p) \/ CloseListener(p) \/ Exit(p)

HandleConn(c) ==
  \/ Read(c) \/ ReadFails(c)
  \/ Dispatch(c) \/ Panic(c)
  \/ WriteHeader(c) \/ WriteBody(c) \/ WriteFails(c) \/ PutBuilder(c)

Client(c) ==
  \/ Connect(c)
  \/ \E ty \in Types : Send(c, ty)
  \/ ReadReply(c) \/ ReadReplyFails(c) \/ GiveUp(c)

Next ==
  \/ \E p \in Runners : Run(p) \/ Start(p) \/ Signal(p) \/ Kill(p)
  \/ \E c \in Conns : Accept(c) \/ HandleConn(c) \/ Client(c)

Spec == Init /\ [][Next]_vars

\* Goroutines run, a handler returns or panics, and APISIX reads what has come.
\* Nothing need start or stop a runner, call, or give a call up.
FairSpec ==
  /\ Spec
  /\ \A p \in Runners : WF_vars(Run(p))
  /\ \A c \in Conns :
       /\ WF_vars(Accept(c))
       /\ WF_vars(HandleConn(c))
       /\ WF_vars(ReadReply(c) \/ ReadReplyFails(c))

-----------------------------------------------------------------------------
(* Properties *)

Ids == 0 .. MaxCalls - 1
AnswerSet ==
  [call : Ids, ty : Types \cup {RPCError}, code : Codes, size : Sizes \cup {ErrSize}]

Tokens ==
  [kind : {"header"}, ty : Types \cup {RPCError}, len : 0 .. LenMod - 1]
    \cup [kind : {"byte"}, call : Ids, code : Codes]

\* What each variable holds, and that the goroutines of two open connections
\* never have the same builder in hand.
TypeOK ==
  /\ proc \in [Runners -> {"new", "down", "removed", "bound", "serving", "quit", "closed", "failed"}]
  /\ path \in Runners \cup {Nil}
  /\ overlapped \subseteq Runners
  /\ conn \in [Conns -> {"none", "queued", "open", "closed"}]
  /\ owner \in [Conns -> Runners \cup {Nil}]
  /\ peer \in [Conns -> BOOLEAN]
  /\ in \in [Conns -> Seq(Tokens)] /\ out \in [Conns -> Seq(Tokens)]
  /\ spc \in [Conns -> {"read", "dispatch", "header", "body", "put"}]
  /\ \A c \in Conns : frame[c] = Nil \/ frame[c] \in [ty : Types, call : Ids] \cup AnswerSet
  /\ bd \in [Conns -> Builders \cup {Nil}]
  /\ \A b \in Builders : content[b] = Nil \/ content[b] \in AnswerSet
  /\ held \subseteq Builders
  /\ \A c \in Conns : ans[c] = Nil \/ ans[c] \in AnswerSet
  /\ skewed \in [Conns -> BOOLEAN]
  /\ call \in [Conns -> Ids \cup {Nil}]
  /\ calls \in 0 .. MaxCalls
  /\ \A c, d \in Conns :
       c # d /\ conn[c] = "open" /\ conn[d] = "open" /\ bd[c] # Nil => bd[c] # bd[d]

\* What APISIX reads as the answer to its call on a connection is the answer the
\* runner made for that call, whole: type, code and every byte.  This holds on a
\* connection for as long as the sizes of its answers fit the three length bytes
\* of a header; MaxDataSize lets sizes up to twice that through, and an answer
\* of such a size shifts all that follow.
ReplyIsOwn ==
  [][\A c \in Conns :
       ReadReply(c) /\ ~skewed[c] =>
         /\ ans[c].call = call[c]
         /\ Head(out[c]).ty = ans[c].ty
         /\ out[c] = <<Head(out[c])>>
                      \o [i \in 1 .. ans[c].size |-> Byte(ans[c].call, ans[c].code)]]_vars

\* The socket file.  As long as a runner has not met another, the file leads to
\* it while it serves, and its start does not fail: the file that a killed
\* runner leaves behind does no harm.  (A runner that did meet another may lose
\* its file to the other's start or exit, and serve nobody.)
SocketFile ==
  \A p \in Runners \ overlapped :
    /\ proc[p] = "serving" => path = p
    /\ proc[p] # "failed"

\* A call ends without a timeout of APISIX: it is answered, or its connection
\* is closed, whatever the runner meets: a panic, an unknown type, an answer
\* too large, a signal or a kill.
CallsEnd == \A c \in Conns : call[c] # Nil ~> call[c] = Nil
=============================================================================
