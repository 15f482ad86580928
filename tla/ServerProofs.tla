---------------------------- MODULE ServerProofs ----------------------------
(***************************************************************************)
(* Proofs about the runner's server, for any number of runners,            *)
(* connections, builders and calls, any types and sizes: the socket file   *)
(* leads to the runner that serves, no two goroutines share a builder, and *)
(* what APISIX reads as an answer is the answer to its call.               *)
(***************************************************************************)
EXTENDS Server, SequenceTheorems, TLAPS

-----------------------------------------------------------------------------
(* The socket file *)

ProcTypes ==
  /\ proc \in [Runners -> {"new", "down", "removed", "bound", "serving", "quit", "closed", "failed"}]
  /\ path \in Runners \cup {Nil}
  /\ overlapped \subseteq Runners

\* A runner that has not met another is the only one, and the file is its own.
Alone ==
  \A p \in Runners \ overlapped :
    /\ Alive(p) => \A q \in Runners \ {p} : ~Alive(q)
    /\ proc[p] = "removed" => path = Nil
    /\ proc[p] \in {"bound", "serving", "quit"} => path = p
    /\ proc[p] # "failed"

FileInv == ProcTypes /\ Alone

\* Runners are numbers.
LEMMA NilIsNoRunner == Nil \notin Runners
  BY NilAssumption DEF Runners

\* Nothing but Run and the end of a process changes where a runner is.
LEMMA SameRunners == FileInv /\ UNCHANGED procVars => FileInv'
  BY DEF FileInv, ProcTypes, Alone, Alive, procVars

\* The life of a runner.
LEMMA RunnersStep ==
  ASSUME FileInv, NEW p \in Runners, Run(p) \/ Start(p) \/ Signal(p) \/ Kill(p)
  PROVE  FileInv'
<1> USE NilIsNoRunner DEF FileInv, ProcTypes, Alone, Alive
<1>1. CASE Start(p)
  <2>1. proc[p] = "new"
    BY <1>1 DEF Start, NewRunner
  <2>2. proc' = [proc EXCEPT ![p] = "removed"] /\ path' = Nil
    BY <1>1 DEF Start
  <2>3. CASE \A q \in Runners \ {p} : ~Alive(q)
    <3>1. overlapped' = overlapped
      BY <1>1, <2>3 DEF Start
    <3> QED
      BY <2>1, <2>2, <2>3, <3>1
  <2>4. CASE \E q \in Runners \ {p} : Alive(q)
    <3>1. overlapped' = overlapped \cup {q \in Runners \ {p} : Alive(q)} \cup {p}
      BY <1>1, <2>4 DEF Start
    <3>2. \A q \in Runners \ overlapped' : ~Alive(q) /\ q # p /\ q \notin overlapped
      BY <3>1
    <3>3. ProcTypes'
      BY <2>2, <3>1
    <3>4. \A q \in Runners \ overlapped' : proc'[q] = proc[q] /\ proc[q] \in {"new", "down"}
      BY <2>2, <3>2
    <3> QED
      BY <3>3, <3>4
  <2> QED
    BY <2>3, <2>4
<1>2. CASE Listen(p)
  BY <1>2 DEF Listen, Fatal
<1>3. CASE Chmod(p)
  BY <1>3 DEF Chmod, Fatal
<1>4. CASE Signal(p)
  BY <1>4 DEF Signal
<1>5. CASE CloseListener(p)
  BY <1>5 DEF CloseListener
<1>6. CASE Exit(p)
  BY <1>6 DEF Exit, Ends
<1>7. CASE Kill(p)
  BY <1>7 DEF Kill, Ends
<1> QED
  BY <1>1, <1>2, <1>3, <1>4, <1>5, <1>6, <1>7 DEF Run

\* However runners come and go, the invariant holds.
THEOREM FileInvariance == Spec => []FileInv
<1>1. Init => FileInv
  BY DEF Init, FileInv, ProcTypes, Alone, Alive
<1>2. FileInv /\ [Next]_vars => FileInv'
  <2> SUFFICES ASSUME FileInv, [Next]_vars PROVE FileInv'
    OBVIOUS
  <2>1. ASSUME NEW c \in Conns, Accept(c) \/ HandleConn(c) \/ Client(c) PROVE UNCHANGED procVars
    BY <2>1 DEF Accept, HandleConn, Read, ReadFails, Dispatch, Panic, WriteHeader, WriteBody,
                WriteFails, PutBuilder, Close, Client, Connect, Send, ReadReply, ReadReplyFails,
                GiveUp, Hangs
  <2>2. CASE UNCHANGED vars
    BY <2>2, SameRunners DEF vars
  <2> QED
    BY <2>1, <2>2, SameRunners, RunnersStep DEF Next
<1> QED
  BY <1>1, <1>2, PTL DEF Spec

\* As long as a runner has not met another, the file leads to it while it serves, and
\* its start does not fail.
THEOREM FileIsOwn == Spec => []SocketFile
<1>1. FileInv => SocketFile
  BY DEF FileInv, Alone, SocketFile
<1> QED
  BY FileInvariance, <1>1, PTL

-----------------------------------------------------------------------------
(* Connections *)

Requests == [ty : Types, call : Ids]
RequestHeaders == [kind : {"header"}, ty : Types, len : {1}]
Bytes == [kind : {"byte"}, call : Ids, code : Codes]

ConnTypes ==
  /\ conn \in [Conns -> {"none", "queued", "open", "closed"}]
  /\ owner \in [Conns -> Runners \cup {Nil}]
  /\ peer \in [Conns -> BOOLEAN]
  /\ in \in [Conns -> Seq(Tokens)] /\ out \in [Conns -> Seq(Tokens)]
  /\ spc \in [Conns -> {"read", "dispatch", "header", "body", "put"}]
  /\ frame \in [Conns -> Requests \cup AnswerSet \cup {Nil}]
  /\ bd \in [Conns -> Builders \cup {Nil}]
  /\ content \in [Builders -> AnswerSet \cup {Nil}]
  /\ held \subseteq Builders
  /\ ans \in [Conns -> AnswerSet \cup {Nil}]
  /\ skewed \in [Conns -> BOOLEAN]
  /\ call \in [Conns -> Ids \cup {Nil}]
  /\ calls \in 0 .. MaxCalls

\* What has come in is headers and bytes by turns; only an end that has been closed
\* leaves a header without its byte.
Pairs(c) ==
  /\ \A i \in 1 .. Len(in[c]) : in[c][i] \in IF i % 2 = 1 THEN RequestHeaders ELSE Bytes
  /\ peer[c] => Len(in[c]) % 2 = 0

\* What a goroutine has in hand where it is, and that it has no more without one.
InHand(c) ==
  /\ conn[c] # "open" => spc[c] = "read"
  /\ conn[c] = "closed" => in[c] = <<>>
  /\ spc[c] = "read" => frame[c] = Nil /\ bd[c] = Nil
  /\ spc[c] = "dispatch" => frame[c] \in Requests /\ bd[c] = Nil
  /\ spc[c] \in {"header", "body", "put"} =>
       frame[c] \in AnswerSet /\ bd[c] \in held /\ content[bd[c]] = frame[c]

\* No two goroutines have the same builder.
Distinct == \A c, d \in Conns : c # d /\ bd[c] # Nil => bd[c] # bd[d]

\* The bytes of an answer, without and with its header.
Body(a) == [i \in 1 .. a.size |-> Byte(a.call, a.code)]
Top(a) == <<Header(a.ty, a.size)>>
Fits(a) == a \in AnswerSet /\ a.size < LenMod

\* What is on its way over a connection as long as the sizes of the answers fit: a
\* call or the answer to it, and nothing else.
Exchange(c) ==
  /\ call[c] = Nil => out[c] = <<>> /\ in[c] = <<>> /\ spc[c] \in {"read", "put"}
  /\ out[c] # <<>> =>
       /\ Fits(ans[c]) /\ ans[c].call = call[c]
       /\ out[c] = Top(ans[c]) \/ out[c] = Top(ans[c]) \o Body(ans[c])
  /\ in[c] # <<>> =>
       /\ out[c] = <<>> /\ spc[c] \in {"read", "put"}
       /\ Len(in[c]) = 2 /\ in[c][2].call = call[c]
  /\ spc[c] = "dispatch" => out[c] = <<>> /\ frame[c].call = call[c]
  /\ spc[c] \in {"header", "body"} =>
       /\ ans[c] = frame[c] /\ Fits(ans[c]) /\ ans[c].call = call[c]
       /\ out[c] = IF spc[c] = "header" THEN <<>> ELSE Top(ans[c])

\* An end that is closed gets nothing.
Left(c) == ~peer[c] => out[c] = <<>> /\ call[c] = Nil

ConnOK(c) == Pairs(c) /\ InHand(c) /\ Left(c) /\ (peer[c] /\ ~skewed[c] => Exchange(c))

ConnInv == ConnTypes /\ Distinct /\ \A c \in Conns : ConnOK(c)

-----------------------------------------------------------------------------

\* Sizes and lengths.
LEMMA Numbers ==
  /\ LenMod \in Nat /\ LenMod > 1 /\ MaxCalls \in Nat
  /\ \A n \in Sizes \cup {ErrSize} : n \in Nat /\ n >= 1
  /\ \A n \in Nat : n % LenMod \in 0 .. LenMod - 1 /\ (n < LenMod => n % LenMod = n)
BY SizesAssumption, BoundsAssumption DEF ErrSize

\* What each sort of token has.
LEMMA TokenFacts ==
  /\ RequestHeaders \subseteq Tokens /\ Bytes \subseteq Tokens
  /\ \A t \in Tokens : t.kind = "header" => t.len \in 0 .. LenMod - 1
  /\ \A t \in RequestHeaders : t.len = 1 /\ t.ty \in Types
  /\ \A t \in Bytes : t.call \in Ids
BY SizesAssumption DEF RequestHeaders, Bytes, Tokens

\* A builder in hand is not in the pool.
LEMMA InHandIsHeld ==
  ASSUME ConnInv, NEW c \in Conns, bd[c] # Nil
  PROVE  bd[c] \in held
BY DEF ConnInv, ConnTypes, ConnOK, InHand

\* A step that leaves connection d and the builder in its hand as they are.
Spared(d) ==
  /\ conn'[d] = conn[d] /\ peer'[d] = peer[d] /\ in'[d] = in[d] /\ out'[d] = out[d]
  /\ spc'[d] = spc[d] /\ frame'[d] = frame[d] /\ bd'[d] = bd[d]
  /\ ans'[d] = ans[d] /\ skewed'[d] = skewed[d] /\ call'[d] = call[d]
  /\ bd[d] \in held => bd[d] \in held' /\ content'[bd[d]] = content[bd[d]]

\* Such a connection stays in order.
LEMMA SparedOK == ASSUME NEW d \in Conns, ConnOK(d), Spared(d) PROVE ConnOK(d)'
<1>1. Pairs(d)'
  BY DEF ConnOK, Pairs, Spared
<1>2. InHand(d)'
  BY DEF ConnOK, InHand, Spared
<1>3. Left(d)'
  BY DEF ConnOK, Left, Spared
<1>4. peer'[d] /\ ~skewed'[d] => Exchange(d)'
  BY DEF ConnOK, Exchange, Spared
<1> QED
  BY <1>1, <1>2, <1>3, <1>4 DEF ConnOK

\* A step of one connection.
LEMMA OneConn ==
  ASSUME ConnInv, NEW c \in Conns, \A d \in Conns \ {c} : Spared(d),
         ConnTypes', Distinct', ConnOK(c)'
  PROVE  ConnInv'
<1>1. \A d \in Conns \ {c} : ConnOK(d)'
  BY SparedOK DEF ConnInv
<1> QED
  BY <1>1 DEF ConnInv

\* A step of no connection.
LEMMA NoConn ==
  ASSUME ConnInv, UNCHANGED <<wireVars, loopVars, callVars>> PROVE ConnInv'
<1>1. \A d \in Conns : Spared(d)
  BY DEF Spared, wireVars, loopVars, callVars
<1>2. \A d \in Conns : ConnOK(d)'
  BY <1>1, SparedOK DEF ConnInv
<1>3. ConnTypes' /\ Distinct'
  BY DEF ConnInv, ConnTypes, Distinct, wireVars, loopVars, callVars
<1> QED
  BY <1>2, <1>3 DEF ConnInv

\* Connections are closed, by their goroutines or with their runner.
LEMMA CloseAllInv == ASSUME ConnInv, NEW S \in SUBSET Conns, CloseAll(S) PROVE ConnInv'
<1>1. ConnTypes
  BY DEF ConnInv
<1>2. \A c \in S : /\ conn'[c] = "closed" /\ in'[c] = <<>> /\ spc'[c] = "read"
                   /\ frame'[c] = Nil /\ bd'[c] = Nil
  BY DEF CloseAll
<1>3. /\ \A d \in Conns \ S : /\ conn'[d] = conn[d] /\ in'[d] = in[d] /\ spc'[d] = spc[d]
                              /\ frame'[d] = frame[d] /\ bd'[d] = bd[d]
      /\ peer' = peer /\ out' = out /\ ans' = ans /\ skewed' = skewed /\ call' = call
      /\ calls' = calls
  BY DEF CloseAll, callVars
<1>4. ConnTypes'
  <2>1. owner' \in [Conns -> Runners \cup {Nil}] /\ held' \subseteq Builders
    BY <1>1 DEF CloseAll, ConnTypes
  <2>2. /\ conn' \in [Conns -> {"none", "queued", "open", "closed"}]
        /\ spc' \in [Conns -> {"read", "dispatch", "header", "body", "put"}]
    BY <1>1 DEF CloseAll, ConnTypes
  <2>3. in' \in [Conns -> Seq(Tokens)]
    BY <1>1 DEF CloseAll, ConnTypes
  <2>4. frame' \in [Conns -> Requests \cup AnswerSet \cup {Nil}] /\ bd' \in [Conns -> Builders \cup {Nil}]
    BY <1>1 DEF CloseAll, ConnTypes
  <2>5. content' \in [Builders -> AnswerSet \cup {Nil}]
    BY <1>1 DEF CloseAll, ConnTypes
  <2> QED
    BY <1>1, <1>3, <2>1, <2>2, <2>3, <2>4, <2>5 DEF ConnTypes
<1>5. Distinct'
  BY <1>2, <1>3 DEF ConnInv, Distinct
<1>6. ASSUME NEW d \in Conns \ S PROVE ConnOK(d)'
  <2>1. ASSUME bd[d] \in held PROVE bd[d] \in held' /\ content'[bd[d]] = content[bd[d]]
    <3>1. \A c \in S : bd[c] # bd[d]
      BY <1>1, <2>1, NilAssumption DEF ConnInv, ConnTypes, Distinct
    <3>2. bd[d] \in Builders
      BY <1>1, <2>1 DEF ConnTypes
    <3> QED
      BY <2>1, <3>1, <3>2 DEF CloseAll
  <2> QED
    BY <1>3, <2>1, SparedOK DEF Spared, ConnInv
<1>7. ASSUME NEW c \in S PROVE ConnOK(c)'
  <2>1. ConnOK(c) /\ Len(in'[c]) = 0
    BY <1>2 DEF ConnInv
  <2>2. Pairs(c)'
    BY <2>1 DEF Pairs
  <2>3. InHand(c)'
    BY <1>2 DEF InHand
  <2>4. Left(c)'
    BY <1>3, <2>1 DEF ConnOK, Left
  <2>5. peer'[c] /\ ~skewed'[c] => Exchange(c)'
    BY <1>2, <1>3, <2>1 DEF ConnOK, Exchange
  <2> QED
    BY <2>2, <2>3, <2>4, <2>5 DEF ConnOK
<1> QED
  BY <1>4, <1>5, <1>6, <1>7 DEF ConnInv

\* The goroutine of a connection that was queued starts with nothing in hand.
LEMMA AcceptInv == ASSUME ConnInv, NEW c \in Conns, Accept(c) PROVE ConnInv'
<1>1. /\ conn[c] = "queued" /\ conn' = [conn EXCEPT ![c] = "open"]
      /\ UNCHANGED <<owner, peer, in, out, loopVars, callVars>>
  BY DEF Accept
<1>2. ConnTypes' /\ Distinct'
  BY <1>1 DEF ConnInv, ConnTypes, Distinct, loopVars, callVars
<1>3. \A d \in Conns \ {c} : Spared(d)
  BY <1>1 DEF ConnInv, ConnTypes, Spared, loopVars, callVars
<1>4. ConnOK(c)'
  <2>1. conn'[c] = "open" /\ ConnOK(c) /\ spc[c] = "read"
    BY <1>1 DEF ConnInv, ConnTypes, ConnOK, InHand
  <2>2. Pairs(c)' /\ Left(c)'
    BY <1>1, <2>1 DEF ConnOK, Pairs, Left, callVars
  <2>3. InHand(c)'
    BY <1>1, <2>1 DEF ConnOK, InHand, loopVars
  <2>4. peer'[c] /\ ~skewed'[c] => Exchange(c)'
    BY <1>1, <2>1 DEF ConnOK, Exchange, loopVars, callVars
  <2> QED
    BY <2>2, <2>3, <2>4 DEF ConnOK
<1> QED
  BY <1>2, <1>3, <1>4, OneConn

\* A new connection is queued for the runner the file leads to.
LEMMA ConnectInv == ASSUME ConnInv, ProcTypes, NEW c \in Conns, Connect(c) PROVE ConnInv'
<1>1. /\ conn[c] = "none" /\ conn' = [conn EXCEPT ![c] = "queued"]
      /\ owner' = [owner EXCEPT ![c] = path] /\ path \in Runners
      /\ UNCHANGED <<peer, in, out, loopVars, callVars>>
  BY DEF Connect, NewConn, ProcTypes
<1>2. ConnTypes' /\ Distinct'
  BY <1>1 DEF ConnInv, ConnTypes, Distinct, loopVars, callVars
<1>3. \A d \in Conns \ {c} : Spared(d)
  BY <1>1 DEF ConnInv, ConnTypes, Spared, loopVars, callVars
<1>4. ConnOK(c)'
  <2>1. conn'[c] = "queued" /\ ConnOK(c) /\ spc[c] = "read"
    BY <1>1 DEF ConnInv, ConnTypes, ConnOK, InHand
  <2>2. Pairs(c)' /\ Left(c)'
    BY <1>1, <2>1 DEF ConnOK, Pairs, Left, callVars
  <2>3. InHand(c)'
    BY <1>1, <2>1 DEF ConnOK, InHand, loopVars
  <2>4. peer'[c] /\ ~skewed'[c] => Exchange(c)'
    BY <1>1, <2>1 DEF ConnOK, Exchange, loopVars, callVars
  <2> QED
    BY <2>2, <2>3, <2>4 DEF ConnOK
<1> QED
  BY <1>2, <1>3, <1>4, OneConn

\* What a goroutine finds once a frame has arrived, and what is left behind the frame.
LEMMA ArrivedFrame ==
  ASSUME ConnInv, NEW c \in Conns, Arrived(c)
  PROVE  /\ Length(Head(in[c])) = 1 /\ Head(in[c]).ty \in Types
         /\ Len(in[c]) >= 2 /\ in[c][2] \in Bytes
<1>1. ConnTypes /\ Pairs(c)
  BY DEF ConnInv, ConnOK
<1>2. in[c] \in Seq(Tokens) /\ in[c] # <<>>
  BY <1>1 DEF ConnTypes, Arrived
<1>3. Len(in[c]) \in Nat /\ Len(in[c]) >= 1 /\ Head(in[c]) = in[c][1]
  BY <1>2
<1>4. in[c][1] \in RequestHeaders
  BY <1>1, <1>3 DEF Pairs
<1>5. Length(Head(in[c])) = 1 /\ Head(in[c]).ty \in Types
  BY <1>3, <1>4, TokenFacts DEF Length
<1>6. Len(in[c]) >= 2
  BY <1>3, <1>5 DEF Arrived
<1>7. in[c][2] \in Bytes
  BY <1>1, <1>3, <1>6 DEF Pairs
<1> QED
  BY <1>5, <1>6, <1>7

\* A frame is read.
LEMMA ReadInv == ASSUME ConnInv, NEW c \in Conns, Read(c) PROVE ConnInv'
<1> DEFINE f == [ty |-> Head(in[c]).ty, call |-> in[c][2].call]
           rest == SubSeq(in[c], 3, Len(in[c]))
<1>0. ConnTypes /\ ConnOK(c)
  BY DEF ConnInv
<1>1. /\ Length(Head(in[c])) = 1 /\ Head(in[c]).ty \in Types
      /\ Len(in[c]) >= 2 /\ in[c][2] \in Bytes
  BY ArrivedFrame DEF Read
<1>2. in[c] \in Seq(Tokens)
  BY <1>0 DEF ConnTypes
<1>3. f \in Requests
  BY <1>1, TokenFacts DEF Requests
<1>4. /\ rest \in Seq(Tokens) /\ Len(rest) = Len(in[c]) - 2
      /\ \A i \in 1 .. Len(rest) : rest[i] = in[c][i + 2]
  <2>1. Len(in[c]) \in Nat /\ 3 \in 1 .. Len(in[c]) + 1 /\ Len(in[c]) \in 3 - 1 .. Len(in[c])
    BY <1>1, <1>2
  <2> QED
    BY <1>2, <2>1, SubSeqProperties
<1>5. /\ conn[c] = "open" /\ spc[c] = "read" /\ in[c] # <<>>
      /\ spc' = [spc EXCEPT ![c] = "dispatch"] /\ frame' = [frame EXCEPT ![c] = f]
      /\ in' = [in EXCEPT ![c] = rest]
      /\ UNCHANGED <<conn, owner, peer, out, bd, content, held, ans, skewed, callVars>>
  <2>1. Length(Head(in[c])) + 2 = 3
    BY <1>1
  <2> QED
    BY <1>0, <2>1 DEF Read, Runs, Arrived, ConnTypes
<1> HIDE DEF f, rest
<1>6. ConnTypes' /\ Distinct'
  BY <1>0, <1>3, <1>4, <1>5 DEF ConnInv, ConnTypes, Distinct, callVars
<1>7. \A d \in Conns \ {c} : Spared(d)
  BY <1>0, <1>5 DEF ConnTypes, Spared, callVars
<1>8. ConnOK(c)'
  <2>1. spc'[c] = "dispatch" /\ frame'[c] = f /\ in'[c] = rest
    BY <1>0, <1>5 DEF ConnTypes
  <2>2. Pairs(c)'
    <3>1. Pairs(c) /\ Len(in[c]) \in Nat
      BY <1>0, <1>2 DEF ConnOK
    <3>2. \A i \in 1 .. Len(rest) : i + 2 \in 1 .. Len(in[c]) /\ (i % 2 = 1 <=> (i + 2) % 2 = 1)
      BY <1>1, <1>4, <3>1
    <3>3. \A i \in 1 .. Len(rest) : rest[i] \in IF i % 2 = 1 THEN RequestHeaders ELSE Bytes
      BY <1>4, <3>1, <3>2 DEF Pairs
    <3>4. \A n \in Nat : n % 2 = 0 => (n - 2) % 2 = 0
      OBVIOUS
    <3>5. peer[c] => Len(rest) % 2 = 0
      BY <1>4, <3>1, <3>4 DEF Pairs
    <3>6. peer'[c] = peer[c]
      BY <1>5
    <3> QED
      BY <2>1, <3>3, <3>5, <3>6 DEF Pairs
  <2>3. InHand(c)'
    BY <1>0, <1>3, <1>5, <2>1 DEF ConnOK, InHand
  <2>4. Left(c)'
    BY <1>0, <1>5 DEF ConnOK, Left, callVars
  <2>5. ASSUME peer'[c] /\ ~skewed'[c] PROVE Exchange(c)'
    <3>1. Exchange(c)
      BY <1>0, <1>5, <2>5 DEF ConnOK
    <3>2. out[c] = <<>> /\ Len(in[c]) = 2 /\ in[c][2].call = call[c] /\ call[c] # Nil
      BY <1>5, <3>1 DEF Exchange
    <3>3. rest = <<>>
      BY <1>4, <3>2
    <3>4. f.call = call[c]
      BY <3>2 DEF f
    <3> QED
      BY <1>5, <2>1, <3>2, <3>3, <3>4 DEF Exchange, callVars
  <2> QED
    BY <2>2, <2>3, <2>4, <2>5 DEF ConnOK
<1> QED
  BY <1>6, <1>7, <1>8, OneConn

\* Whatever a handler does, an answer names the call it is to.
LEMMA AnswerFacts ==
  ASSUME NEW c \in Conns, frame[c] \in Requests
  PROVE  \A a \in Answers(c) : a \in AnswerSet /\ a.call = frame[c].call
<1>1. frame[c].ty \in Types /\ frame[c].call \in Ids
  BY DEF Requests
<1>2. \A code \in Codes : Report(c, code) \in AnswerSet /\ Report(c, code).call = frame[c].call
  BY <1>1 DEF Report, AnswerSet
<1>3. \A n \in Sizes : Checked(c, n) \in AnswerSet /\ Checked(c, n).call = frame[c].call
  <2>1. "SERVICE_UNAVAILABLE" \in Codes /\ "ok" \in Codes
    BY DEF Codes
  <2> QED
    BY <1>1, <1>2, <2>1 DEF Checked, AnswerSet
<1> QED
  BY <1>2, <1>3 DEF Answers, Codes

\* An answer is made in a builder nobody else has.
LEMMA DispatchInv == ASSUME ConnInv, NEW c \in Conns, Dispatch(c) PROVE ConnInv'
<1> DEFINE b == GetBuilder
<1>0. ConnTypes /\ ConnOK(c)
  BY DEF ConnInv
<1>1. conn[c] = "open" /\ spc[c] = "dispatch" /\ frame[c] \in Requests /\ bd[c] = Nil
  BY <1>0 DEF Dispatch, Runs, ConnOK, InHand
<1>2. b \in Builders /\ b \notin held
  <2>1. \E x \in Builders : x \notin held
    BY <1>0 DEF Dispatch, ConnTypes
  <2> QED
    BY <2>1 DEF GetBuilder
<1> HIDE DEF b
<1>3. PICK a \in Answers(c) :
        /\ content' = [content EXCEPT ![b] = a]
        /\ frame' = [frame EXCEPT ![c] = a]
        /\ ans' = [ans EXCEPT ![c] = IF peer[c] THEN a ELSE Nil]
        /\ skewed' = [skewed EXCEPT ![c] = skewed[c] \/ (peer[c] /\ a.size >= LenMod)]
  BY <1>0 DEF Dispatch, ConnTypes, b
<1>4. a \in AnswerSet /\ a.call = frame[c].call
  BY <1>1, AnswerFacts
<1>5. /\ held' = held \cup {b} /\ bd' = [bd EXCEPT ![c] = b]
      /\ spc' = [spc EXCEPT ![c] = "header"]
      /\ UNCHANGED <<wireVars, callVars>>
  BY DEF Dispatch, b
<1>6. ConnTypes'
  BY <1>0, <1>2, <1>3, <1>4, <1>5 DEF ConnTypes, wireVars, callVars
<1>7. \A d \in Conns \ {c} : bd[d] # b
  BY <1>2, NilAssumption, InHandIsHeld
<1>8. Distinct'
  BY <1>0, <1>2, <1>5, <1>7 DEF ConnInv, ConnTypes, Distinct
<1>9. \A d \in Conns \ {c} : Spared(d)
  BY <1>0, <1>2, <1>3, <1>5 DEF ConnTypes, Spared, wireVars, callVars
<1>10. ConnOK(c)'
  <2>1. /\ spc'[c] = "header" /\ frame'[c] = a /\ bd'[c] = b /\ content'[b] = a
        /\ conn' = conn /\ peer' = peer /\ in' = in /\ out' = out /\ call' = call
        /\ (peer[c] => ans'[c] = a)
        /\ skewed'[c] <=> skewed[c] \/ (peer[c] /\ a.size >= LenMod)
    BY <1>0, <1>2, <1>3, <1>5 DEF ConnTypes, wireVars, callVars
  <2>2. Pairs(c)' /\ Left(c)'
    BY <1>0, <2>1 DEF ConnOK, Pairs, Left
  <2>3. InHand(c)'
    BY <1>0, <1>1, <1>4, <1>5, <2>1 DEF ConnOK, InHand
  <2>4. ASSUME peer'[c] /\ ~skewed'[c] PROVE Exchange(c)'
    <3>1. Exchange(c) /\ ans'[c] = a /\ ~(a.size >= LenMod)
      BY <1>0, <2>1, <2>4 DEF ConnOK
    <3>2. a.size \in Nat
      BY <1>4, Numbers DEF AnswerSet
    <3>3. Fits(a)
      BY <1>4, <3>1, <3>2, Numbers DEF Fits
    <3>4. out[c] = <<>> /\ in[c] = <<>> /\ call[c] # Nil /\ a.call = call[c]
      BY <1>1, <1>4, <3>1 DEF Exchange
    <3> QED
      BY <2>1, <3>1, <3>3, <3>4 DEF Exchange
  <2> QED
    BY <2>2, <2>3, <2>4 DEF ConnOK
<1> QED
  BY <1>6, <1>8, <1>9, <1>10, OneConn

\* The bytes of an answer, and their number.
LEMMA BodyFacts ==
  ASSUME NEW a \in AnswerSet
  PROVE  /\ a.size \in Nat /\ a.size >= 1
         /\ Body(a) \in Seq(Tokens) /\ Len(Body(a)) = a.size
         /\ \A n \in Nat : Header(a.ty, n % LenMod) \in Tokens
<1>1. a.size \in Nat /\ a.size >= 1
  BY Numbers DEF AnswerSet
<1>2. Byte(a.call, a.code) \in Tokens
  BY DEF AnswerSet, Byte, Tokens
<1>3. Body(a) \in Seq(Tokens) /\ Len(Body(a)) = a.size
  BY <1>1, <1>2 DEF Body
<1>4. ASSUME NEW n \in Nat PROVE Header(a.ty, n % LenMod) \in Tokens
  <2>1. n % LenMod \in 0 .. LenMod - 1
    BY Numbers
  <2> QED
    BY <2>1 DEF AnswerSet, Header, Tokens
<1> QED
  BY <1>1, <1>3, <1>4

\* The header of an answer is written.
LEMMA WriteHeaderInv == ASSUME ConnInv, NEW c \in Conns, WriteHeader(c) PROVE ConnInv'
<1> DEFINE h == Header(frame[c].ty, frame[c].size % LenMod)
<1>0. ConnTypes /\ ConnOK(c)
  BY DEF ConnInv
<1>1. conn[c] = "open" /\ spc[c] = "header" /\ peer[c] /\ frame[c] \in AnswerSet
  BY <1>0 DEF WriteHeader, Runs, ConnOK, InHand
<1>2. h \in Tokens
  BY <1>1, BodyFacts
<1>3. /\ out' = [out EXCEPT ![c] = Append(out[c], h)]
      /\ spc' = [spc EXCEPT ![c] = "body"]
      /\ UNCHANGED <<conn, owner, peer, in, frame, bd, content, held, ans, skewed, callVars>>
  BY <1>0 DEF WriteHeader, ConnTypes
<1> HIDE DEF h
<1>4. ConnTypes' /\ Distinct'
  BY <1>0, <1>2, <1>3 DEF ConnInv, ConnTypes, Distinct, callVars
<1>5. \A d \in Conns \ {c} : Spared(d)
  BY <1>0, <1>3 DEF ConnTypes, Spared, callVars
<1>6. ConnOK(c)'
  <2>1. spc'[c] = "body" /\ out'[c] = Append(out[c], h)
    BY <1>0, <1>3 DEF ConnTypes
  <2>2. Pairs(c)' /\ Left(c)'
    BY <1>0, <1>1, <1>3 DEF ConnOK, Pairs, Left
  <2>3. InHand(c)'
    BY <1>0, <1>1, <1>3, <2>1 DEF ConnOK, InHand
  <2>4. ASSUME peer'[c] /\ ~skewed'[c] PROVE Exchange(c)'
    <3>1. Exchange(c)
      BY <1>0, <1>3, <2>4 DEF ConnOK
    <3>2. /\ ans[c] = frame[c] /\ Fits(ans[c]) /\ ans[c].call = call[c]
          /\ out[c] = <<>> /\ in[c] = <<>> /\ call[c] # Nil
      BY <1>1, <3>1 DEF Exchange
    <3>3. h = Header(ans[c].ty, ans[c].size)
      BY <1>1, <3>2, BodyFacts, Numbers DEF Fits, h
    <3>4. out'[c] = Top(ans[c])
      BY <2>1, <3>2, <3>3 DEF Top
    <3>5. out'[c] # <<>>
      BY <3>4 DEF Top
    <3> QED
      BY <1>3, <2>1, <3>2, <3>4, <3>5 DEF Exchange, callVars
  <2> QED
    BY <2>2, <2>3, <2>4 DEF ConnOK
<1> QED
  BY <1>4, <1>5, <1>6, OneConn

\* The bytes of an answer are written: what the builder holds is still the answer.
LEMMA WriteBodyInv == ASSUME ConnInv, NEW c \in Conns, WriteBody(c) PROVE ConnInv'
<1> DEFINE bytes == Body(frame[c])
<1>0. ConnTypes /\ ConnOK(c)
  BY DEF ConnInv
<1>1. /\ conn[c] = "open" /\ spc[c] = "body" /\ peer[c] /\ frame[c] \in AnswerSet
      /\ content[bd[c]] = frame[c]
  BY <1>0 DEF WriteBody, Runs, ConnOK, InHand
<1>2. bytes \in Seq(Tokens)
  BY <1>1, BodyFacts
<1>3. /\ out' = [out EXCEPT ![c] = out[c] \o bytes]
      /\ spc' = [spc EXCEPT ![c] = "put"]
      /\ UNCHANGED <<conn, owner, peer, in, frame, bd, content, held, ans, skewed, callVars>>
  BY <1>0, <1>1 DEF WriteBody, ConnTypes, Body
<1> HIDE DEF bytes
<1>4. ConnTypes' /\ Distinct'
  <2>1. out' \in [Conns -> Seq(Tokens)]
    BY <1>0, <1>2, <1>3 DEF ConnTypes
  <2> QED
    BY <1>0, <1>3, <2>1 DEF ConnInv, ConnTypes, Distinct, callVars
<1>5. \A d \in Conns \ {c} : Spared(d)
  BY <1>0, <1>3 DEF ConnTypes, Spared, callVars
<1>6. ConnOK(c)'
  <2>1. spc'[c] = "put" /\ out'[c] = out[c] \o bytes
    BY <1>0, <1>3 DEF ConnTypes
  <2>2. Pairs(c)' /\ Left(c)'
    BY <1>0, <1>1, <1>3 DEF ConnOK, Pairs, Left
  <2>3. InHand(c)'
    BY <1>0, <1>1, <1>3, <2>1 DEF ConnOK, InHand
  <2>4. ASSUME peer'[c] /\ ~skewed'[c] PROVE Exchange(c)'
    <3>1. Exchange(c)
      BY <1>0, <1>3, <2>4 DEF ConnOK
    <3>2. /\ ans[c] = frame[c] /\ Fits(ans[c]) /\ ans[c].call = call[c]
          /\ out[c] = Top(ans[c]) /\ call[c] # Nil
      BY <1>1, <3>1 DEF Exchange
    <3>3. out'[c] = Top(ans[c]) \o Body(ans[c])
      BY <2>1, <3>2 DEF bytes
    <3>4. in[c] = <<>>
      BY <1>1, <3>1 DEF Exchange
    <3> QED
      BY <1>3, <2>1, <3>2, <3>3, <3>4 DEF Exchange, callVars
  <2> QED
    BY <2>2, <2>3, <2>4 DEF ConnOK
<1> QED
  BY <1>4, <1>5, <1>6, OneConn

\* The builder goes back into the pool; no other goroutine had it.
LEMMA PutBuilderInv == ASSUME ConnInv, NEW c \in Conns, PutBuilder(c) PROVE ConnInv'
<1>0. ConnTypes /\ ConnOK(c)
  BY DEF ConnInv
<1>1. conn[c] = "open" /\ spc[c] = "put" /\ bd[c] \in held /\ bd[c] \in Builders
  BY <1>0 DEF PutBuilder, Runs, ConnOK, InHand, ConnTypes
<1>2. /\ held' = held \ {bd[c]} /\ content' = [content EXCEPT ![bd[c]] = Nil]
      /\ bd' = [bd EXCEPT ![c] = Nil] /\ frame' = [frame EXCEPT ![c] = Nil]
      /\ spc' = [spc EXCEPT ![c] = "read"]
      /\ UNCHANGED <<wireVars, ans, skewed, callVars>>
  BY DEF PutBuilder
<1>3. ConnTypes' /\ Distinct'
  BY <1>0, <1>1, <1>2 DEF ConnInv, ConnTypes, Distinct, wireVars, callVars
<1>4. ASSUME NEW d \in Conns \ {c} PROVE Spared(d)
  <2>1. bd[d] # bd[c]
    BY <1>1, NilAssumption DEF ConnInv, Distinct
  <2> QED
    BY <1>0, <1>1, <1>2, <2>1 DEF ConnTypes, Spared, wireVars, callVars
<1>5. ConnOK(c)'
  <2>1. spc'[c] = "read" /\ frame'[c] = Nil /\ bd'[c] = Nil
    BY <1>0, <1>2 DEF ConnTypes
  <2>2. Pairs(c)' /\ Left(c)'
    BY <1>0, <1>2 DEF ConnOK, Pairs, Left, wireVars, callVars
  <2>3. InHand(c)'
    BY <1>1, <1>2, <2>1 DEF InHand, wireVars
  <2>4. peer'[c] /\ ~skewed'[c] => Exchange(c)'
    BY <1>0, <1>1, <1>2, <2>1 DEF ConnOK, Exchange, wireVars, callVars
  <2> QED
    BY <2>2, <2>3, <2>4 DEF ConnOK
<1> QED
  BY <1>3, <1>4, <1>5, OneConn

\* A call is sent: only on a connection on which none is waited for.
LEMMA SendInv == ASSUME ConnInv, NEW c \in Conns, NEW ty \in Types, Send(c, ty) PROVE ConnInv'
<1> DEFINE h == Header(ty, 1)
           b == Byte(calls, "ok")
           more == in[c] \o <<h, b>>
<1>0. ConnTypes /\ ConnOK(c)
  BY DEF ConnInv
<1>1. /\ peer[c] /\ call[c] = Nil /\ calls \in Ids
      /\ in' = IF conn[c] = "closed" THEN in ELSE [in EXCEPT ![c] = more]
      /\ call' = [call EXCEPT ![c] = calls] /\ calls' = calls + 1 /\ calls' \in 0 .. MaxCalls
      /\ UNCHANGED <<conn, owner, peer, out, loopVars>>
  BY <1>0, Numbers DEF Send, ConnTypes, Ids
<1>2. h \in RequestHeaders /\ b \in Bytes /\ b.call = calls
  BY <1>1 DEF RequestHeaders, Bytes, Header, Byte, Codes
<1>3. in[c] \in Seq(Tokens) /\ Len(in[c]) \in Nat
  BY <1>0 DEF ConnTypes
<1> HIDE DEF h, b
<1>4. /\ more \in Seq(Tokens) /\ Len(more) = Len(in[c]) + 2
      /\ \A i \in 1 .. Len(in[c]) : more[i] = in[c][i]
      /\ more[Len(in[c]) + 1] = h /\ more[Len(in[c]) + 2] = b
  <2>1. h \in Tokens /\ b \in Tokens
    BY <1>2, TokenFacts
  <2> QED
    BY <1>3, <2>1
<1> HIDE DEF more
<1>5. in' \in [Conns -> Seq(Tokens)]
  BY <1>0, <1>1, <1>4 DEF ConnTypes
<1>6. ConnTypes' /\ Distinct'
  BY <1>0, <1>1, <1>5 DEF ConnInv, ConnTypes, Distinct, loopVars
<1>7. \A d \in Conns \ {c} : Spared(d)
  BY <1>0, <1>1 DEF ConnTypes, Spared, loopVars
<1>8. ConnOK(c)'
  <2>1. /\ call'[c] = calls /\ call'[c] # Nil
        /\ in'[c] = IF conn[c] = "closed" THEN in[c] ELSE more
        /\ peer'[c] = peer[c] /\ conn'[c] = conn[c] /\ out'[c] = out[c]
    BY <1>0, <1>1, NilAssumption DEF ConnTypes, Ids
  <2>2. Pairs(c)'
    <3>1. Pairs(c)
      BY <1>0 DEF ConnOK
    <3>2. CASE conn[c] = "closed"
      BY <2>1, <3>1, <3>2 DEF Pairs
    <3>3. CASE conn[c] # "closed"
      <4>1. Len(in[c]) % 2 = 0
        BY <1>1, <3>1 DEF Pairs
      <4>2. \A n \in Nat : n % 2 = 0 => (n + 1) % 2 = 1 /\ (n + 2) % 2 = 0
        OBVIOUS
      <4>3. /\ (Len(in[c]) + 1) % 2 = 1 /\ (Len(in[c]) + 2) % 2 = 0
        BY <1>3, <4>1, <4>2
      <4>4. \A i \in 1 .. Len(more) : \/ i \in 1 .. Len(in[c])
                                      \/ i = Len(in[c]) + 1 \/ i = Len(in[c]) + 2
        BY <1>3, <1>4
      <4>5. ASSUME NEW i \in 1 .. Len(more)
            PROVE  more[i] \in IF i % 2 = 1 THEN RequestHeaders ELSE Bytes
        <5>1. CASE i \in 1 .. Len(in[c])
          BY <1>4, <3>1, <5>1 DEF Pairs
        <5>2. CASE i = Len(in[c]) + 1
          BY <1>2, <1>4, <4>3, <5>2
        <5>3. CASE i = Len(in[c]) + 2
          BY <1>2, <1>4, <4>3, <5>3
        <5> QED
          BY <4>4, <5>1, <5>2, <5>3
      <4>6. in'[c] = more /\ Len(more) % 2 = 0
        BY <1>4, <2>1, <3>3, <4>3
      <4> QED
        BY <4>5, <4>6 DEF Pairs
    <3> QED
      BY <3>2, <3>3
  <2>3. InHand(c)'
    BY <1>0, <1>1, <2>1 DEF ConnOK, InHand, loopVars
  <2>4. Left(c)'
    BY <1>1, <2>1 DEF Left
  <2>5. ASSUME peer'[c] /\ ~skewed'[c] PROVE Exchange(c)'
    <3>1. Exchange(c)
      BY <1>0, <1>1, <2>5 DEF ConnOK, loopVars
    <3>2. out[c] = <<>> /\ in[c] = <<>> /\ spc[c] \in {"read", "put"}
      BY <1>1, <3>1 DEF Exchange
    <3>3. Len(more) = 2 /\ more[2].call = calls
      BY <1>2, <1>4, <3>2
    <3> QED
      BY <1>1, <2>1, <3>2, <3>3 DEF Exchange, loopVars
  <2> QED
    BY <2>2, <2>3, <2>4, <2>5 DEF ConnOK
<1> QED
  BY <1>6, <1>7, <1>8, OneConn

\* A complete answer is whole, and nothing comes after it.
LEMMA WholeAnswer ==
  ASSUME ConnInv, NEW c \in Conns, peer[c], call[c] # Nil, Complete(c), ~skewed[c]
  PROVE  /\ ans[c] \in AnswerSet /\ ans[c].call = call[c]
         /\ out[c] = Top(ans[c]) \o Body(ans[c])
         /\ Head(out[c]) = Header(ans[c].ty, ans[c].size) /\ Len(out[c]) = ans[c].size + 1
         /\ in[c] = <<>> /\ spc[c] \in {"read", "put"}
<1>1. ConnTypes /\ Exchange(c) /\ out[c] # <<>>
  BY DEF ConnInv, ConnOK, Complete
<1>2. /\ ans[c] \in AnswerSet /\ ans[c].size < LenMod /\ ans[c].call = call[c]
      /\ out[c] = Top(ans[c]) \/ out[c] = Top(ans[c]) \o Body(ans[c])
  BY <1>1 DEF Exchange, Fits
<1> DEFINE a == ans[c]
<1>3. /\ a.size \in Nat /\ a.size >= 1
      /\ Body(a) \in Seq(Tokens) /\ Len(Body(a)) = a.size
  BY <1>2, BodyFacts
<1>4. Head(Top(a)) = Header(a.ty, a.size) /\ Len(Top(a)) = 1 /\ Header(a.ty, a.size).len = a.size
  BY DEF Top, Header
<1>5. out[c] # Top(a)
  <2> SUFFICES ASSUME out[c] = Top(a) PROVE FALSE
    OBVIOUS
  <2>1. Len(out[c]) > Head(out[c]).len
    BY DEF Complete
  <2> QED
    BY <1>3, <1>4, <2>1
<1>6. out[c] = Top(a) \o Body(a)
  BY <1>2, <1>5
<1>7. Head(out[c]) = Header(a.ty, a.size) /\ Len(out[c]) = a.size + 1
  <2>1. Top(a) \in Seq(Tokens)
    <3>1. a.size % LenMod = a.size
      BY <1>2, <1>3, Numbers
    <3>2. Header(a.ty, a.size) \in Tokens
      BY <1>2, <1>3, <3>1, BodyFacts
    <3> QED
      BY <3>2 DEF Top
  <2>2. Len(Top(a) \o Body(a)) = 1 + a.size /\ (Top(a) \o Body(a))[1] = Top(a)[1]
    BY <1>3, <1>4, <2>1, ConcatProperties
  <2>3. Head(Top(a) \o Body(a)) = (Top(a) \o Body(a))[1] /\ Top(a)[1] = Header(a.ty, a.size)
    BY <1>1, <1>6 DEF Top, ConnTypes
  <2> QED
    BY <1>3, <1>6, <2>2, <2>3
<1>8. in[c] = <<>> /\ spc[c] \in {"read", "put"}
  BY <1>1, <1>5 DEF Exchange, ConnTypes
<1> QED
  BY <1>2, <1>6, <1>7, <1>8

\* What is left behind a header and n bytes.
LEMMA Behind ==
  ASSUME NEW s \in Seq(Tokens), NEW n \in Nat, Len(s) > n
  PROVE  SubSeq(s, n + 2, Len(s)) \in Seq(Tokens) /\ Len(SubSeq(s, n + 2, Len(s))) = Len(s) - n - 1
<1>1. Len(s) \in Nat /\ n + 2 \in 1 .. Len(s) + 1 /\ Len(s) \in (n + 2) - 1 .. Len(s)
  OBVIOUS
<1>2. /\ SubSeq(s, n + 2, Len(s)) \in Seq(Tokens)
      /\ Len(SubSeq(s, n + 2, Len(s))) = Len(s) - (n + 2) + 1
  BY <1>1, SubSeqProperties
<1> QED
  BY <1>1, <1>2

\* An answer is read, and the call is over.
LEMMA ReadReplyInv == ASSUME ConnInv, NEW c \in Conns, ReadReply(c) PROVE ConnInv'
<1> DEFINE n == Head(out[c]).len
           rest == SubSeq(out[c], n + 2, Len(out[c]))
<1>0. ConnTypes /\ ConnOK(c)
  BY DEF ConnInv
<1>1. /\ peer[c] /\ call[c] # Nil /\ Complete(c)
      /\ out' = [out EXCEPT ![c] = rest]
      /\ call' = [call EXCEPT ![c] = Nil] /\ ans' = [ans EXCEPT ![c] = Nil]
      /\ UNCHANGED <<conn, owner, peer, in, spc, frame, bd, content, held, skewed, calls>>
  BY <1>0 DEF ReadReply, ConnTypes
<1>2. /\ out[c] \in Seq(Tokens) /\ n \in Nat /\ Len(out[c]) \in Nat /\ Len(out[c]) > n
  <2>1. out[c] \in Seq(Tokens) /\ out[c] # <<>> /\ Head(out[c]).kind = "header" /\ Len(out[c]) > n
    BY <1>0, <1>1 DEF ConnTypes, Complete, Garbled
  <2>2. Head(out[c]) \in Tokens
    BY <2>1
  <2> QED
    BY <2>1, <2>2, TokenFacts, Numbers
<1>3. rest \in Seq(Tokens) /\ Len(rest) = Len(out[c]) - n - 1
  BY <1>2, Behind
<1>4. ~skewed[c] => rest = <<>> /\ in[c] = <<>> /\ spc[c] \in {"read", "put"}
  <2> SUFFICES ASSUME ~skewed[c] PROVE rest = <<>> /\ in[c] = <<>> /\ spc[c] \in {"read", "put"}
    OBVIOUS
  <2>1. /\ Head(out[c]) = Header(ans[c].ty, ans[c].size) /\ Len(out[c]) = ans[c].size + 1
        /\ in[c] = <<>> /\ spc[c] \in {"read", "put"}
    BY <1>1, WholeAnswer
  <2>2. n = ans[c].size
    BY <2>1 DEF Header
  <2> QED
    BY <1>2, <1>3, <2>1, <2>2
<1> HIDE DEF rest, n
<1>5. ConnTypes' /\ Distinct'
  BY <1>0, <1>1, <1>3 DEF ConnInv, ConnTypes, Distinct
<1>6. \A d \in Conns \ {c} : Spared(d)
  BY <1>0, <1>1 DEF ConnTypes, Spared
<1>7. ConnOK(c)'
  <2>1. out'[c] = rest /\ call'[c] = Nil
    BY <1>0, <1>1 DEF ConnTypes
  <2>2. Pairs(c)' /\ Left(c)'
    BY <1>0, <1>1 DEF ConnOK, Pairs, Left
  <2>3. InHand(c)'
    BY <1>0, <1>1 DEF ConnOK, InHand
  <2>4. peer'[c] /\ ~skewed'[c] => Exchange(c)'
    BY <1>1, <1>4, <2>1 DEF Exchange
  <2> QED
    BY <2>2, <2>3, <2>4 DEF ConnOK
<1> QED
  BY <1>5, <1>6, <1>7, OneConn

\* APISIX closes its end; what it has sent may be cut after a header.
LEMMA HangsInv ==
  ASSUME ConnInv, NEW c \in Conns, ReadReplyFails(c) \/ GiveUp(c)
  PROVE  ConnInv'
<1>0. ConnTypes /\ ConnOK(c)
  BY DEF ConnInv
<1>1. /\ peer' = [peer EXCEPT ![c] = FALSE] /\ out' = [out EXCEPT ![c] = <<>>]
      /\ call' = [call EXCEPT ![c] = Nil] /\ ans' = [ans EXCEPT ![c] = Nil]
      /\ skewed' = [skewed EXCEPT ![c] = FALSE]
      /\ UNCHANGED <<conn, owner, spc, frame, bd, content, held, calls>>
  BY DEF ReadReplyFails, GiveUp, Hangs
<1>2. in[c] \in Seq(Tokens)
  BY <1>0 DEF ConnTypes
<1>3. \/ in' = in
      \/ /\ in[c] # <<>> /\ conn[c] # "closed"
         /\ in' = [in EXCEPT ![c] = <<Head(in[c])>>] /\ Head(in[c]) = in[c][1]
  BY <1>0, <1>2 DEF ReadReplyFails, GiveUp, ConnTypes
<1>4. <<>> \in Seq(Tokens) /\ (in[c] # <<>> => <<Head(in[c])>> \in Seq(Tokens))
  BY <1>2
<1>5. in' \in [Conns -> Seq(Tokens)]
  BY <1>0, <1>3, <1>4 DEF ConnTypes
<1>6. ConnTypes' /\ Distinct'
  <2>1. out' \in [Conns -> Seq(Tokens)]
    BY <1>0, <1>1, <1>4 DEF ConnTypes
  <2>2. /\ peer' \in [Conns -> BOOLEAN] /\ call' \in [Conns -> Ids \cup {Nil}]
        /\ ans' \in [Conns -> AnswerSet \cup {Nil}] /\ skewed' \in [Conns -> BOOLEAN]
    BY <1>0, <1>1 DEF ConnTypes
  <2> QED
    BY <1>0, <1>1, <1>5, <2>1, <2>2 DEF ConnInv, ConnTypes, Distinct
<1>7. \A d \in Conns \ {c} : Spared(d)
  BY <1>0, <1>1, <1>3 DEF ConnTypes, Spared
<1>8. ConnOK(c)'
  <2>1. ~peer'[c] /\ out'[c] = <<>> /\ call'[c] = Nil
    BY <1>0, <1>1 DEF ConnTypes
  <2>2. Pairs(c)'
    <3>1. CASE in' = in
      BY <1>0, <2>1, <3>1 DEF ConnOK, Pairs
    <3>2. CASE in' # in
      <4>1. in[c] # <<>> /\ in'[c] = <<in[c][1]>>
        BY <1>0, <1>3, <3>2 DEF ConnTypes
      <4>2. Len(in[c]) \in Nat /\ Len(in[c]) >= 1
        BY <1>2, <4>1
      <4>3. in[c][1] \in RequestHeaders
        BY <1>0, <4>2 DEF ConnOK, Pairs
      <4>4. Len(in'[c]) = 1 /\ in'[c][1] \in RequestHeaders
        BY <4>1, <4>3
      <4> QED
        BY <2>1, <4>4 DEF Pairs
    <3> QED
      BY <3>1, <3>2
  <2>3. InHand(c)'
    BY <1>0, <1>1, <1>3 DEF ConnOK, InHand
  <2> QED
    BY <2>1, <2>2, <2>3 DEF ConnOK, Left
<1> QED
  BY <1>6, <1>7, <1>8, OneConn

-----------------------------------------------------------------------------

\* Whatever runners, goroutines and APISIX do, connections stay in order.
THEOREM ConnInvariance == Spec => []ConnInv
<1>1. Init => ConnInv
  <2> SUFFICES ASSUME Init PROVE ConnInv
    OBVIOUS
  <2>1. ConnTypes
    BY BoundsAssumption DEF Init, ConnTypes
  <2>2. Distinct
    BY DEF Init, Distinct
  <2>3. ASSUME NEW c \in Conns PROVE ConnOK(c)
    <3>1. Pairs(c)
      BY DEF Init, Pairs
    <3> QED
      BY <3>1 DEF Init, ConnOK, InHand, Left, Exchange
  <2> QED
    BY <2>1, <2>2, <2>3 DEF ConnInv
<1>2. FileInv /\ ConnInv /\ [Next]_vars => ConnInv'
  <2> SUFFICES ASSUME FileInv, ConnInv, [Next]_vars PROVE ConnInv'
    OBVIOUS
  <2>1. CASE UNCHANGED vars
    BY <2>1, NoConn DEF vars
  <2>2. ASSUME NEW p \in Runners, Run(p) \/ Start(p) \/ Signal(p) \/ Kill(p) PROVE ConnInv'
    <3>1. ASSUME NEW S \in SUBSET Conns, CloseAll(S) PROVE ConnInv'
      BY <3>1, CloseAllInv
    <3>2. Of(p) \in SUBSET Conns /\ {c \in Of(p) : conn[c] = "queued"} \in SUBSET Conns
      BY DEF Of
    <3>3. CASE Listen(p)
      BY <3>1, <3>2, <3>3, NoConn DEF Listen, Fatal
    <3>4. CASE Chmod(p)
      BY <3>1, <3>2, <3>4, NoConn DEF Chmod, Fatal
    <3>5. CASE Start(p) \/ Signal(p)
      BY <3>5, NoConn DEF Start, Signal
    <3>6. CASE CloseListener(p)
      BY <3>1, <3>2, <3>6 DEF CloseListener
    <3>7. CASE Exit(p) \/ Kill(p)
      BY <3>1, <3>2, <3>7 DEF Exit, Kill, Ends
    <3> QED
      BY <2>2, <3>3, <3>4, <3>5, <3>6, <3>7 DEF Run
  <2>3. ASSUME NEW c \in Conns, HandleConn(c) PROVE ConnInv'
    <3>1. CASE ReadFails(c) \/ Panic(c) \/ WriteFails(c)
      <4>1. CloseAll({c})
        BY <3>1 DEF ReadFails, Panic, WriteFails, Close
      <4> QED
        BY <4>1, CloseAllInv
    <3> QED
      BY <2>3, <3>1, ReadInv, DispatchInv, WriteHeaderInv, WriteBodyInv, PutBuilderInv
      DEF HandleConn
  <2>4. ASSUME NEW c \in Conns, Client(c) PROVE ConnInv'
    BY <2>4, ConnectInv, SendInv, ReadReplyInv, HangsInv DEF Client, FileInv
  <2> QED
    BY <2>1, <2>2, <2>3, <2>4, AcceptInv DEF Next
<1> QED
  BY <1>1, <1>2, FileInvariance, PTL DEF Spec

\* What each variable holds, and that no two goroutines have the same builder in hand.
THEOREM TypeCorrect == Spec => []TypeOK
<1>1. FileInv /\ ConnInv => TypeOK
  <2> SUFFICES ASSUME FileInv, ConnInv PROVE TypeOK
    OBVIOUS
  <2>1. ConnTypes /\ Distinct
    BY DEF ConnInv
  <2>2. \A c \in Conns : frame[c] = Nil \/ frame[c] \in [ty : Types, call : Ids] \cup AnswerSet
    BY <2>1 DEF ConnTypes, Requests
  <2>3. \A b \in Builders : content[b] = Nil \/ content[b] \in AnswerSet
    BY <2>1 DEF ConnTypes
  <2>4. \A c \in Conns : ans[c] = Nil \/ ans[c] \in AnswerSet
    BY <2>1 DEF ConnTypes
  <2> QED
    BY <2>1, <2>2, <2>3, <2>4 DEF TypeOK, FileInv, ProcTypes, ConnTypes, Distinct
<1> QED
  BY <1>1, FileInvariance, ConnInvariance, PTL

\* As long as the sizes of the answers on a connection fit the three length bytes, what
\* APISIX reads as the answer to its call is the answer the runner made for that call:
\* type, code and every byte, and no byte of another.
THEOREM ReplyOwn == Spec => ReplyIsOwn
<1>1. ASSUME ConnInv, NEW c \in Conns, ReadReply(c), ~skewed[c]
      PROVE  /\ ans[c].call = call[c]
             /\ Head(out[c]).ty = ans[c].ty
             /\ out[c] = <<Head(out[c])>>
                          \o [i \in 1 .. ans[c].size |-> Byte(ans[c].call, ans[c].code)]
  <2>1. peer[c] /\ call[c] # Nil /\ Complete(c)
    BY <1>1 DEF ReadReply
  <2>2. /\ ans[c].call = call[c] /\ out[c] = Top(ans[c]) \o Body(ans[c])
        /\ Head(out[c]) = Header(ans[c].ty, ans[c].size)
    BY <1>1, <2>1, WholeAnswer
  <2>3. \A ty, n : Header(ty, n).ty = ty
    BY DEF Header
  <2>4. Head(out[c]).ty = ans[c].ty
    BY <2>2, <2>3
  <2> QED
    BY <2>2, <2>4 DEF Top, Body
<1>2. ConnInv =>
        [\A c \in Conns :
           ReadReply(c) /\ ~skewed[c] =>
             /\ ans[c].call = call[c]
             /\ Head(out[c]).ty = ans[c].ty
             /\ out[c] = <<Head(out[c])>>
                          \o [i \in 1 .. ans[c].size |-> Byte(ans[c].call, ans[c].code)]]_vars
  BY <1>1
<1> QED
  BY <1>2, ConnInvariance, PTL DEF ReplyIsOwn
=============================================================================
