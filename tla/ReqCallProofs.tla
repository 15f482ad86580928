--------------------------- MODULE ReqCallProofs ---------------------------
(***************************************************************************)
(* Proofs about the request phase, for any connections, pools, requests    *)
(* and chain of filters: nothing of another request is left in an object   *)
(* of the pools, and what HTTPReqCall does is what ReqFilters promises.    *)
(***************************************************************************)
EXTENDS ReqCall, SequenceTheorems, TLAPS

Facts == {Nil} \cup {q.info[i] : q \in Inputs, i \in Infos}

Requests ==
  [path : Paths \cup {Nil}, hdr : MaybeMap, rawHdr : MaybeMap, args : MaybeMap,
   rawArgs : MaybeMap, respHdr : MaybeMap, info : [Infos -> Facts]]
ReqResponses == [code : Codes \cup {0}, body : BOOLEAN]

\* Objects are well typed, and the place in the chain fits the filter that runs.
Types ==
  /\ TypeOK
  /\ reqs \in [Objects -> Requests]
  /\ DOMAIN result = Conns
  /\ \A c \in Running : input[c] \in Inputs
  /\ \A c \in Conns : pc[c] = "filter" => at[c] \in 1 .. ChainLen
  /\ \A c \in Conns : c \notin Running => at[c] = 0

\* A Request of the pool: nothing but the two copies.
Clean(r) ==
  /\ r.path = Nil /\ r.hdr = Nil /\ r.args = Nil /\ r.respHdr = Nil
  /\ \A i \in Infos : r.info[i] = Nil

\* Goroutines have objects of their own, and what is in the pools is clean.
Pool ==
  /\ \A c, d \in Running : c # d => req[c] # req[d] /\ w[c] # w[d]
  /\ \A o \in Objects \ InUse(req) : Clean(reqs[o])
  /\ \A o \in Objects \ InUse(w) : resps[o] = NewReqResponse

\* No request comes with a header of several values.
SingleValued == \A q \in Inputs, n \in Names : Len(q.hdr[n]) <= 1

\* Object r is filled from request q; filters keep headers single-valued.
FilledFrom(r, q) ==
  /\ \A i \in Infos : r.info[i] \in {Nil, q.info[i]}
  /\ r.hdr # Nil => r.rawHdr = q.hdr
  /\ r.args # Nil => r.rawArgs = q.args
  /\ SingleValued /\ r.hdr # Nil => \A n \in Names : Len(r.hdr[n]) <= 1

Owned == \A c \in Running : FilledFrom(reqs[req[c]], input[c])

IInv == Types /\ Pool /\ Owned

-----------------------------------------------------------------------------
(* The differences on the wire *)

\* A header that had and has at most one value arrives as it is.
LEMMA SingleHeaderArrives ==
  ASSUME NEW old \in Maps, NEW new \in Maps, NEW n \in Names,
         Len(old[n]) <= 1, Len(new[n]) <= 1
  PROVE  Apply(old, HeaderChanges(old, new))[n] = new[n]
<1>1. old[n] \in Seq(Values) /\ new[n] \in Seq(Values)
  BY DEF Maps
<1>2. ASSUME NEW s \in Seq(Values), Len(s) <= 1, s # <<>> PROVE s = <<Head(s)>>
  <2>1. Len(s) \in Nat /\ Len(s) # 0
    BY <1>2, EmptySeq
  <2>a. \A k \in Nat : k # 0 /\ k <= 1 => k = 1
    OBVIOUS
  <2>2. Len(s) = 1
    BY <1>2, <2>1, <2>a, Zenon
  <2>3. Head(s) \in Values /\ Head(s) = s[1]
    BY <1>2, <2>2, HeadTailProperties
  <2>4. <<Head(s)>> \in Seq(Values) /\ Len(<<Head(s)>>) = 1 /\ <<Head(s)>>[1] = Head(s)
    BY <2>3
  <2> QED
    BY <2>2, <2>3, <2>4, SeqEqual
<1>3. CASE n \in FirstDiffers(old, new)
  BY <1>1, <1>2, <1>3 DEF Apply, HeaderChanges, Present
<1>4. CASE n \notin FirstDiffers(old, new)
  BY <1>1, <1>2, <1>4 DEF Apply, HeaderChanges, FirstDiffers, Present
<1> QED
  BY <1>3, <1>4

-----------------------------------------------------------------------------
(* Steps *)

\* A fresh object is clean.
LEMMA NewIsClean == NewRequest \in Requests /\ Clean(NewRequest) /\ NewReqResponse \in ReqResponses
<1>1. [i \in Infos |-> Nil] \in [Infos -> Facts]
  BY DEF Facts
<1> QED
  BY <1>1 DEF NewRequest, NewReqResponse, Requests, ReqResponses, Clean, MaybeMap

\* An object that was reset is clean.
LEMMA ResetIsClean == ASSUME NEW r \in Requests PROVE Reset(r) \in Requests /\ Clean(Reset(r))
<1>1. [i \in Infos |-> Nil] \in [Infos -> Facts]
  BY DEF Facts
<1> DEFINE a == [r EXCEPT !.path = Nil]
           b == [a EXCEPT !.hdr = Nil]
           c == [b EXCEPT !.args = Nil]
           d == [c EXCEPT !.respHdr = Nil]
           e == [d EXCEPT !.info = [i \in Infos |-> Nil]]
<1>2. Reset(r) = e
  BY DEF Reset
<1>3. a \in Requests /\ a.path = Nil
  BY DEF Requests, MaybeMap
<1>4. b \in Requests /\ b.path = Nil /\ b.hdr = Nil
  BY <1>3 DEF Requests, MaybeMap
<1>5. c \in Requests /\ c.path = Nil /\ c.hdr = Nil /\ c.args = Nil
  BY <1>4 DEF Requests, MaybeMap
<1>6. d \in Requests /\ d.path = Nil /\ d.hdr = Nil /\ d.args = Nil /\ d.respHdr = Nil
  BY <1>5 DEF Requests, MaybeMap
<1>7. e \in Requests /\ e.path = Nil /\ e.hdr = Nil /\ e.args = Nil /\ e.respHdr = Nil
      /\ e.info = [i \in Infos |-> Nil]
  BY <1>1, <1>6 DEF Requests
<1> QED
  BY <1>2, <1>7 DEF Clean

\* The objects that TypeOK speaks of are well typed.
LEMMA RequestFields ==
  ASSUME NEW r \in Requests
  PROVE  /\ r.path \in Paths \cup {Nil}
         /\ \A m \in {"hdr", "rawHdr", "args", "rawArgs", "respHdr"} : r[m] \in MaybeMap
  BY DEF Requests

\* The invariant holds before the first request.
LEMMA InitInv == Init => IInv
<1> SUFFICES ASSUME Init PROVE IInv
  OBVIOUS
<1>1. Running = {}
  BY DEF Init, Running
<1>2. reqs \in [Objects -> Requests] /\ resps \in [Objects -> ReqResponses]
  BY NewIsClean DEF Init
<1>3. TypeOK
  <2>1. \A o \in Objects :
          /\ reqs[o].path \in Paths \cup {Nil}
          /\ \A m \in {"hdr", "rawHdr", "args", "rawArgs", "respHdr"} : reqs[o][m] \in MaybeMap
    BY <1>2, RequestFields
  <2> QED
    BY <1>1, <1>2, <2>1, BoundsAssumption DEF Init, TypeOK, ReqResponses
<1>4. Types
  BY <1>1, <1>2, <1>3 DEF Init, Types
<1>5. Pool /\ Owned
  BY <1>1, NewIsClean DEF Init, Pool, Owned
<1> QED
  BY <1>4, <1>5 DEF IInv

\* A connection that runs filters has objects, and no other connection has them.
LEMMA OwnObject ==
  ASSUME IInv, NEW c \in Running
  PROVE  /\ c \in Conns /\ req[c] \in Objects /\ reqs[req[c]] \in Requests
         /\ w[c] \in Objects /\ resps[w[c]] \in ReqResponses
         /\ input[c] \in Inputs /\ FilledFrom(reqs[req[c]], input[c])
  BY DEF IInv, Types, TypeOK, Running, Owned, ReqResponses

\* A filter's call leaves the place in the chain and the objects in use alone.
LEMMA OpFrame ==
  ASSUME IInv, NEW c \in Conns, Op(c)
  PROVE  /\ c \in Running /\ Running' = Running /\ InUse(req)' = InUse(req) /\ InUse(w)' = InUse(w)
         /\ pc' = pc /\ at' = at /\ input' = input /\ req' = req /\ w' = w /\ result' = result
         /\ calls' = calls /\ ops' \in [Conns -> 0 .. MaxOps]
<1>1. ops' \in [Conns -> 0 .. MaxOps]
  BY BoundsAssumption DEF Op, IInv, Types, TypeOK
<1> QED
  BY <1>1 DEF Op, Running, InUse

\* A call on the Request that leaves it filled from the same request keeps the
\* invariant.
LEMMA RequestStep ==
  ASSUME IInv, NEW c \in Conns, NEW r \in Requests, OnRequest(c, r), FilledFrom(r, input[c])
  PROVE  IInv'
<1>1. /\ c \in Running /\ Running' = Running /\ InUse(req)' = InUse(req) /\ InUse(w)' = InUse(w)
      /\ pc' = pc /\ at' = at /\ input' = input /\ req' = req /\ w' = w /\ result' = result
      /\ calls' = calls /\ ops' \in [Conns -> 0 .. MaxOps]
  BY OpFrame DEF OnRequest
<1>2. req[c] \in Objects
  BY <1>1, OwnObject
<1>3. /\ reqs' = [reqs EXCEPT ![req[c]] = r] /\ reqs' \in [Objects -> Requests]
      /\ resps' = resps /\ up' = up
  BY <1>2 DEF OnRequest, IInv, Types
<1>4. TypeOK'
  <2>1. \A o \in Objects :
          /\ (reqs')[o].path \in Paths \cup {Nil}
          /\ \A m \in {"hdr", "rawHdr", "args", "rawArgs", "respHdr"} : (reqs')[o][m] \in MaybeMap
    BY <1>3, RequestFields
  <2> QED
    BY <1>1, <1>3, <2>1 DEF IInv, Types, TypeOK
<1>5. Types'
  BY <1>1, <1>3, <1>4 DEF IInv, Types
<1>6. Pool'
  <2>1. req[c] \in InUse(req)
    BY <1>1, <1>2, NilAssumption DEF InUse
  <2>2. \A o \in Objects \ InUse(req) : (reqs')[o] = reqs[o]
    BY <1>3, <2>1 DEF IInv, Types
  <2> QED
    BY <1>1, <1>3, <2>2 DEF IInv, Pool
<1>7. Owned'
  <2> SUFFICES ASSUME NEW d \in Running PROVE FilledFrom((reqs')[req[d]], input[d])
    BY <1>1 DEF Owned
  <2>1. CASE d = c
    BY <1>2, <1>3, <2>1 DEF IInv, Types
  <2>2. CASE d # c
    <3>1. req[d] # req[c] /\ req[d] \in Objects
      BY <1>1, <2>2, OwnObject DEF IInv, Pool
    <3>2. (reqs')[req[d]] = reqs[req[d]]
      BY <1>3, <3>1 DEF IInv, Types
    <3> QED
      BY <3>2, OwnObject
  <2> QED
    BY <2>1, <2>2
<1> QED
  BY <1>5, <1>6, <1>7 DEF IInv

\* A call on the ReqResponse keeps the invariant.
LEMMA ResponseStep ==
  ASSUME IInv, NEW c \in Conns, NEW x \in ReqResponses, OnReqResponse(c, x)
  PROVE  IInv'
<1>1. /\ c \in Running /\ Running' = Running /\ InUse(req)' = InUse(req) /\ InUse(w)' = InUse(w)
      /\ pc' = pc /\ at' = at /\ input' = input /\ req' = req /\ w' = w /\ result' = result
      /\ calls' = calls /\ ops' \in [Conns -> 0 .. MaxOps]
  BY OpFrame DEF OnReqResponse
<1>2. w[c] \in Objects
  BY <1>1, OwnObject
<1>3. /\ resps' = [resps EXCEPT ![w[c]] = x] /\ resps' \in [Objects -> ReqResponses]
      /\ reqs' = reqs /\ up' = up
  BY <1>2 DEF OnReqResponse, IInv, Types, TypeOK, ReqResponses
<1>4. Types'
  BY <1>1, <1>3 DEF IInv, Types, TypeOK, ReqResponses
<1>5. Pool'
  <2>1. w[c] \in InUse(w)
    BY <1>1, <1>2, NilAssumption DEF InUse
  <2>2. \A o \in Objects \ InUse(w) : (resps')[o] = resps[o]
    BY <1>3, <2>1 DEF IInv, Types, TypeOK
  <2> QED
    BY <1>1, <1>3, <2>2 DEF IInv, Pool
<1>6. Owned'
  BY <1>1, <1>3 DEF IInv, Owned
<1> QED
  BY <1>4, <1>5, <1>6 DEF IInv

\* The first use of the headers or the arguments copies the request's own.
LEMMA HeaderFills ==
  ASSUME NEW r \in Requests, NEW q \in Inputs, FilledFrom(r, q)
  PROVE  LET h == Header(r, q) IN
         /\ h \in Requests /\ h.hdr # Nil /\ FilledFrom(h, q)
         /\ h.path = r.path /\ h.args = r.args /\ h.respHdr = r.respHdr
         /\ h.hdr = IF r.hdr = Nil THEN q.hdr ELSE r.hdr
<1>1. q.hdr \in Maps /\ q.hdr # Nil
  BY InputsAssumption, NilAssumption
<1>2. CASE r.hdr # Nil
  BY <1>2 DEF Header
<1>3. CASE r.hdr = Nil
  <2> DEFINE a == [r EXCEPT !.hdr = q.hdr]
             h == [a EXCEPT !.rawHdr = q.hdr]
  <2>1. Header(r, q) = h
    BY <1>3 DEF Header
  <2>2. a \in Requests /\ a.hdr = q.hdr /\ a.info = r.info /\ a.path = r.path
        /\ a.args = r.args /\ a.rawArgs = r.rawArgs /\ a.respHdr = r.respHdr
    BY <1>1 DEF Requests, MaybeMap
  <2>3. h \in Requests /\ h.hdr = q.hdr /\ h.rawHdr = q.hdr /\ h.info = r.info /\ h.path = r.path
        /\ h.args = r.args /\ h.rawArgs = r.rawArgs /\ h.respHdr = r.respHdr
    BY <1>1, <2>2 DEF Requests, MaybeMap
  <2>4. FilledFrom(h, q)
    BY <2>3 DEF FilledFrom, SingleValued
  <2> QED
    BY <1>1, <1>3, <2>1, <2>3, <2>4
<1> QED
  BY <1>2, <1>3

\* As HeaderFills, for the arguments.
LEMMA ArgsFill ==
  ASSUME NEW r \in Requests, NEW q \in Inputs, FilledFrom(r, q)
  PROVE  LET h == Args(r, q) IN
         /\ h \in Requests /\ h.args # Nil /\ FilledFrom(h, q)
         /\ h.path = r.path /\ h.hdr = r.hdr /\ h.respHdr = r.respHdr
         /\ h.args = IF r.args = Nil THEN q.args ELSE r.args
<1>1. q.args \in Maps /\ q.args # Nil
  BY InputsAssumption, NilAssumption
<1>2. CASE r.args # Nil
  BY <1>2 DEF Args
<1>3. CASE r.args = Nil
  <2> DEFINE a == [r EXCEPT !.args = q.args]
             h == [a EXCEPT !.rawArgs = q.args]
  <2>1. Args(r, q) = h
    BY <1>3 DEF Args
  <2>2. a \in Requests /\ a.args = q.args /\ a.info = r.info /\ a.path = r.path
        /\ a.hdr = r.hdr /\ a.rawHdr = r.rawHdr /\ a.respHdr = r.respHdr
    BY <1>1 DEF Requests, MaybeMap
  <2>3. h \in Requests /\ h.args = q.args /\ h.rawArgs = q.args /\ h.info = r.info
        /\ h.path = r.path /\ h.hdr = r.hdr /\ h.rawHdr = r.rawHdr /\ h.respHdr = r.respHdr
    BY <1>1, <2>2 DEF Requests, MaybeMap
  <2>4. FilledFrom(h, q)
    BY <2>3 DEF FilledFrom
  <2> QED
    BY <1>1, <1>3, <2>1, <2>3, <2>4
<1> QED
  BY <1>2, <1>3

\* Setting or deleting a header leaves it with at most one value.
LEMMA HeaderEntry ==
  ASSUME NEW r \in Requests, NEW q \in Inputs, FilledFrom(r, q), r.hdr # Nil,
         NEW n \in Names, NEW s \in Seq(Values), Len(s) <= 1
  PROVE  LET h == [r EXCEPT !.hdr[n] = s] IN
         /\ h \in Requests /\ FilledFrom(h, q)
         /\ h.hdr = [r.hdr EXCEPT ![n] = s] /\ h.hdr # Nil
         /\ h.path = r.path /\ h.args = r.args /\ h.respHdr = r.respHdr
<1> DEFINE new == [r.hdr EXCEPT ![n] = s]
           h == [r EXCEPT !.hdr = new]
<1>1. r.hdr \in Maps
  BY DEF Requests, MaybeMap
<1>2. /\ new \in Maps /\ new # Nil /\ new[n] = s
      /\ \A x \in Names : x # n => new[x] = r.hdr[x]
  BY <1>1, NilAssumption DEF Maps
<1>3. h = [r EXCEPT !.hdr[n] = s]
  BY <1>1
<1>4. h \in Requests /\ h.hdr = new /\ h.rawHdr = r.rawHdr /\ h.info = r.info /\ h.path = r.path
      /\ h.args = r.args /\ h.rawArgs = r.rawArgs /\ h.respHdr = r.respHdr
  BY <1>2 DEF Requests, MaybeMap
<1>5. SingleValued => \A x \in Names : Len(new[x]) <= 1
  BY <1>2 DEF FilledFrom
<1>6. FilledFrom(h, q)
  <2> HIDE DEF new, h
  <2> QED
    BY <1>2, <1>4, <1>5 DEF FilledFrom
<1> QED
  BY <1>2, <1>3, <1>4, <1>6

\* An argument may get any values.
LEMMA ArgEntry ==
  ASSUME NEW r \in Requests, NEW q \in Inputs, FilledFrom(r, q), r.args # Nil,
         NEW n \in Names, NEW s \in Seq(Values)
  PROVE  LET h == [r EXCEPT !.args[n] = s] IN
         /\ h \in Requests /\ FilledFrom(h, q)
         /\ h.args = [r.args EXCEPT ![n] = s] /\ h.args # Nil
         /\ h.path = r.path /\ h.hdr = r.hdr /\ h.respHdr = r.respHdr
<1> DEFINE new == [r.args EXCEPT ![n] = s]
           h == [r EXCEPT !.args = new]
<1>1. r.args \in Maps
  BY DEF Requests, MaybeMap
<1>2. new \in Maps /\ new # Nil
  BY <1>1, NilAssumption DEF Maps
<1>3. h = [r EXCEPT !.args[n] = s]
  BY <1>1
<1>4. h \in Requests /\ h.args = new /\ h.rawArgs = r.rawArgs /\ h.info = r.info /\ h.path = r.path
      /\ h.hdr = r.hdr /\ h.rawHdr = r.rawHdr /\ h.respHdr = r.respHdr
  BY <1>2 DEF Requests, MaybeMap
<1>5. FilledFrom(h, q)
  <2> HIDE DEF new, h
  <2> QED
    BY <1>2, <1>4 DEF FilledFrom
<1> QED
  BY <1>2, <1>3, <1>4, <1>5

\* Path and response headers are not filled from the request.
LEMMA PlainFields ==
  ASSUME NEW r \in Requests, NEW q \in Inputs, FilledFrom(r, q)
  PROVE  /\ \A p \in Paths : LET h == [r EXCEPT !.path = p] IN
              /\ h \in Requests /\ FilledFrom(h, q) /\ h.path = p
              /\ h.hdr = r.hdr /\ h.args = r.args /\ h.respHdr = r.respHdr
         /\ \A m \in Maps : LET h == [r EXCEPT !.respHdr = m] IN
              /\ h \in Requests /\ FilledFrom(h, q) /\ h.respHdr = m
              /\ h.hdr = r.hdr /\ h.args = r.args /\ h.path = r.path
<1>1. ASSUME NEW p \in Paths
      PROVE  LET h == [r EXCEPT !.path = p] IN
             /\ h \in Requests /\ FilledFrom(h, q) /\ h.path = p
             /\ h.hdr = r.hdr /\ h.args = r.args /\ h.respHdr = r.respHdr
  <2> DEFINE h == [r EXCEPT !.path = p]
  <2>1. h \in Requests /\ h.path = p /\ h.info = r.info /\ h.hdr = r.hdr /\ h.rawHdr = r.rawHdr
        /\ h.args = r.args /\ h.rawArgs = r.rawArgs /\ h.respHdr = r.respHdr
    BY DEF Requests
  <2>2. FilledFrom(h, q)
    BY <2>1 DEF FilledFrom
  <2> QED
    BY <2>1, <2>2
<1>2. ASSUME NEW m \in Maps
      PROVE  LET h == [r EXCEPT !.respHdr = m] IN
             /\ h \in Requests /\ FilledFrom(h, q) /\ h.respHdr = m
             /\ h.hdr = r.hdr /\ h.args = r.args /\ h.path = r.path
  <2> DEFINE h == [r EXCEPT !.respHdr = m]
  <2>1. h \in Requests /\ h.path = r.path /\ h.info = r.info /\ h.hdr = r.hdr
        /\ h.rawHdr = r.rawHdr /\ h.args = r.args /\ h.rawArgs = r.rawArgs /\ h.respHdr = m
    BY DEF Requests, MaybeMap
  <2>2. FilledFrom(h, q)
    BY <2>1 DEF FilledFrom
  <2> QED
    BY <2>1, <2>2
<1> QED
  BY <1>1, <1>2

\* What APISIX answers about the request is the request's own.
LEMMA InfoFills ==
  ASSUME NEW r \in Requests, NEW q \in Inputs, FilledFrom(r, q), NEW i \in Infos
  PROVE  LET h == [r EXCEPT !.info[i] = IF @ = Nil THEN q.info[i] ELSE @] IN
         /\ h \in Requests /\ FilledFrom(h, q)
         /\ h.path = r.path /\ h.hdr = r.hdr /\ h.args = r.args /\ h.respHdr = r.respHdr
<1> DEFINE x == IF r.info[i] = Nil THEN q.info[i] ELSE r.info[i]
           new == [r.info EXCEPT ![i] = x]
           h == [r EXCEPT !.info = new]
<1>1. q.info[i] \in Facts /\ r.info \in [Infos -> Facts]
  BY DEF Facts, Requests
<1>2. new \in [Infos -> Facts] /\ \A j \in Infos : new[j] \in {Nil, q.info[j]}
  BY <1>1 DEF FilledFrom
<1>3. h = [r EXCEPT !.info[i] = IF @ = Nil THEN q.info[i] ELSE @]
  BY <1>1
<1>4. h \in Requests /\ h.info = new /\ h.path = r.path /\ h.hdr = r.hdr
      /\ h.rawHdr = r.rawHdr /\ h.args = r.args /\ h.rawArgs = r.rawArgs /\ h.respHdr = r.respHdr
  BY <1>2 DEF Requests
<1>5. FilledFrom(h, q)
  <2> HIDE DEF new, h
  <2> QED
    BY <1>2, <1>4 DEF FilledFrom
<1> QED
  BY <1>3, <1>4, <1>5

\* What the filters see of request q in object r.
ViewOf(r, q) ==
  [path    |-> IF r.path = Nil THEN q.path ELSE r.path,
   hdr     |-> IF r.hdr = Nil THEN q.hdr ELSE r.hdr,
   args    |-> IF r.args = Nil THEN q.args ELSE r.args,
   respHdr |-> IF r.respHdr = Nil THEN NoMap ELSE r.respHdr]

\* What a call may change of that: nothing, or one entry.
Edit(v, u) ==
  \/ u = v
  \/ \E n \in Names, vs \in {<<>>} \cup {<<x>> : x \in Values} : u = [v EXCEPT !.hdr[n] = vs]
  \/ \E n \in Names, vs \in Seq(Values) : u = [v EXCEPT !.args[n] = vs]
  \/ u = [v EXCEPT !.path = u.path]
  \/ \E n \in Names, x \in Values : u = [v EXCEPT !.respHdr[n] = Append(@, x)]

Edits(c, r) ==
  /\ r \in Requests /\ OnRequest(c, r) /\ FilledFrom(r, input[c])
  /\ Edit(ViewOf(reqs[req[c]], input[c]), ViewOf(r, input[c]))

\* Each call on the headers leaves the object filled from the same request, and
\* changes what the filters see by one entry at most.
LEMMA HeaderCalls ==
  ASSUME IInv, NEW c \in Conns,
         \/ ReadHeader(c)
         \/ \E n \in Names, v \in Values : SetHeader(c, n, v)
         \/ \E n \in Names : DelHeader(c, n)
  PROVE  \E r : Edits(c, r)
<1> DEFINE o == reqs[req[c]]
           q == input[c]
           h == Header(o, q)
<1>1. c \in Running
  BY DEF ReadHeader, SetHeader, DelHeader, OnRequest, Op, Running
<1>2. o \in Requests /\ q \in Inputs /\ FilledFrom(o, q)
  BY <1>1, OwnObject
<1>3. /\ h \in Requests /\ h.hdr # Nil /\ FilledFrom(h, q)
      /\ h.path = o.path /\ h.args = o.args /\ h.respHdr = o.respHdr
      /\ h.hdr = IF o.hdr = Nil THEN q.hdr ELSE o.hdr
  BY <1>2, HeaderFills
<1>4. ViewOf(h, q) = ViewOf(o, q)
  BY <1>3 DEF ViewOf
<1>5. CASE ReadHeader(c)
  <2>1. Edits(c, h)
    BY <1>3, <1>4, <1>5 DEF ReadHeader, Edits, Edit
  <2> QED
    BY <2>1
<1>6. ASSUME NEW n \in Names, NEW s \in {<<>>} \cup {<<x>> : x \in Values},
             OnRequest(c, [h EXCEPT !.hdr[n] = s])
      PROVE  \E r : Edits(c, r)
  <2> DEFINE r == [h EXCEPT !.hdr[n] = s]
  <2>1. s \in Seq(Values) /\ Len(s) <= 1
    <3>1. CASE s = <<>>
      BY <3>1, EmptySeq
    <3>2. ASSUME NEW x \in Values, s = <<x>> PROVE s \in Seq(Values) /\ Len(s) <= 1
      BY <3>2
    <3> QED
      BY <3>1, <3>2
  <2>2. /\ r \in Requests /\ FilledFrom(r, q)
        /\ r.hdr = [h.hdr EXCEPT ![n] = s] /\ r.hdr # Nil
        /\ r.path = h.path /\ r.args = h.args /\ r.respHdr = h.respHdr
    BY <1>2, <1>3, <2>1, HeaderEntry
  <2>3. ViewOf(r, q) = [ViewOf(h, q) EXCEPT !.hdr[n] = s]
    <3> HIDE DEF r, h, q
    <3> QED
      BY <1>3, <2>2 DEF ViewOf
  <2>4. Edit(ViewOf(o, q), ViewOf(r, q))
    <3> HIDE DEF r, h, q, o
    <3> QED
      BY <1>4, <1>6, <2>3 DEF Edit
  <2>5. Edits(c, r)
    BY <1>6, <2>2, <2>4 DEF Edits
  <2> QED
    BY <2>5
<1>7. ASSUME NEW n \in Names, NEW v \in Values, SetHeader(c, n, v) PROVE \E r : Edits(c, r)
  BY <1>6, <1>7 DEF SetHeader
<1>8. ASSUME NEW n \in Names, DelHeader(c, n) PROVE \E r : Edits(c, r)
  BY <1>6, <1>8 DEF DelHeader
<1> QED
  BY <1>5, <1>7, <1>8

\* As HeaderCalls, for the arguments.
LEMMA ArgCalls ==
  ASSUME IInv, NEW c \in Conns,
         \/ ReadArgs(c)
         \/ \E n \in Names, v \in Values : AddArg(c, n, v)
         \/ \E n \in Names : DelArg(c, n)
  PROVE  \E r : Edits(c, r)
<1> DEFINE o == reqs[req[c]]
           q == input[c]
           h == Args(o, q)
<1>1. c \in Running
  BY DEF ReadArgs, AddArg, DelArg, OnRequest, Op, Running
<1>2. o \in Requests /\ q \in Inputs /\ FilledFrom(o, q)
  BY <1>1, OwnObject
<1>3. /\ h \in Requests /\ h.args # Nil /\ FilledFrom(h, q)
      /\ h.path = o.path /\ h.hdr = o.hdr /\ h.respHdr = o.respHdr
      /\ h.args = IF o.args = Nil THEN q.args ELSE o.args
  BY <1>2, ArgsFill
<1>4. ViewOf(h, q) = ViewOf(o, q) /\ h.args \in Maps
  BY <1>3 DEF ViewOf, Requests, MaybeMap
<1>5. CASE ReadArgs(c)
  <2>1. Edits(c, h)
    BY <1>3, <1>4, <1>5 DEF ReadArgs, Edits, Edit
  <2> QED
    BY <2>1
<1>6. ASSUME NEW n \in Names, NEW s \in Seq(Values), OnRequest(c, [h EXCEPT !.args[n] = s])
      PROVE  \E r : Edits(c, r)
  <2> DEFINE r == [h EXCEPT !.args[n] = s]
  <2>1. /\ r \in Requests /\ FilledFrom(r, q)
        /\ r.args = [h.args EXCEPT ![n] = s] /\ r.args # Nil
        /\ r.path = h.path /\ r.hdr = h.hdr /\ r.respHdr = h.respHdr
    BY <1>2, <1>3, ArgEntry
  <2>2. ViewOf(r, q) = [ViewOf(h, q) EXCEPT !.args[n] = s]
    <3> HIDE DEF r, h, q
    <3> QED
      BY <1>3, <2>1 DEF ViewOf
  <2>3. Edit(ViewOf(o, q), ViewOf(r, q))
    <3> HIDE DEF r, h, q, o
    <3> QED
      BY <1>4, <2>2 DEF Edit
  <2>4. Edits(c, r)
    BY <1>6, <2>1, <2>3 DEF Edits
  <2> QED
    BY <2>4
<1>7. ASSUME NEW n \in Names, NEW v \in Values, AddArg(c, n, v) PROVE \E r : Edits(c, r)
  <2>1. h.args[n] \in Seq(Values)
    BY <1>4 DEF Maps
  <2>2. Append(h.args[n], v) \in Seq(Values)
    BY <2>1
  <2>3. [h EXCEPT !.args[n] = Append(@, v)] = [h EXCEPT !.args[n] = Append(h.args[n], v)]
    BY <1>3, <1>4 DEF Requests, Maps
  <2> QED
    BY <1>6, <1>7, <2>2, <2>3 DEF AddArg
<1>8. ASSUME NEW n \in Names, DelArg(c, n) PROVE \E r : Edits(c, r)
  BY <1>6, <1>8, EmptySeq DEF DelArg
<1> QED
  BY <1>5, <1>7, <1>8

\* As HeaderCalls, for the path, the response headers and what APISIX is asked.
LEMMA OtherCalls ==
  ASSUME IInv, NEW c \in Conns,
         \/ \E p \in Paths : SetPath(c, p)
         \/ \E n \in Names, v \in Values : AddRespHeader(c, n, v)
         \/ \E i \in Infos : AskInfo(c, i)
  PROVE  \E r : Edits(c, r)
<1> DEFINE o == reqs[req[c]]
           q == input[c]
<1>1. c \in Running
  BY DEF SetPath, AddRespHeader, AskInfo, OnRequest, Op, Running
<1>2. o \in Requests /\ q \in Inputs /\ FilledFrom(o, q)
  BY <1>1, OwnObject
<1>3. ASSUME NEW p \in Paths, SetPath(c, p) PROVE \E r : Edits(c, r)
  <2> DEFINE r == [o EXCEPT !.path = p]
  <2>1. /\ r \in Requests /\ FilledFrom(r, q) /\ r.path = p
        /\ r.hdr = o.hdr /\ r.args = o.args /\ r.respHdr = o.respHdr
    BY <1>2, PlainFields
  <2>2. ViewOf(r, q) = [ViewOf(o, q) EXCEPT !.path = p] /\ ViewOf(r, q).path = p
    <3> HIDE DEF r, q, o
    <3> QED
      BY <2>1, NilAssumption DEF ViewOf
  <2>3. Edits(c, r)
    BY <1>3, <2>1, <2>2 DEF SetPath, Edits, Edit
  <2> QED
    BY <2>3
<1>4. ASSUME NEW n \in Names, NEW v \in Values, AddRespHeader(c, n, v) PROVE \E r : Edits(c, r)
  <2> DEFINE old == IF o.respHdr = Nil THEN NoMap ELSE o.respHdr
             new == [old EXCEPT ![n] = Append(@, v)]
             r == [o EXCEPT !.respHdr = new]
  <2>1. old \in Maps
    BY <1>2, EmptySeq DEF NoMap, Maps, Requests, MaybeMap
  <2>a. old[n] \in Seq(Values) /\ Append(old[n], v) \in Seq(Values)
    <3> HIDE DEF old
    <3> QED
      BY <2>1 DEF Maps
  <2>2. new \in Maps /\ new # Nil
    <3> HIDE DEF old
    <3> QED
      BY <2>1, <2>a, NilAssumption DEF Maps
  <2>3. /\ r \in Requests /\ FilledFrom(r, q) /\ r.respHdr = new
        /\ r.hdr = o.hdr /\ r.args = o.args /\ r.path = o.path
    BY <1>2, <2>2, PlainFields
  <2>4. ViewOf(o, q).respHdr = old
    BY DEF ViewOf
  <2>5. ViewOf(r, q) = [ViewOf(o, q) EXCEPT !.respHdr = new]
    <3> HIDE DEF r, q, o, new
    <3> QED
      BY <2>2, <2>3 DEF ViewOf
  <2>6. ViewOf(r, q) = [ViewOf(o, q) EXCEPT !.respHdr[n] = Append(@, v)]
    <3> HIDE DEF r, q, o, old
    <3> QED
      BY <2>4, <2>5
  <2>7. OnRequest(c, r)
    <3> DEFINE h == RespHeader(o)
    <3>1. h \in Requests /\ h.respHdr = old /\ r = [h EXCEPT !.respHdr = new]
      BY <1>2, <2>1 DEF RespHeader, Requests, MaybeMap
    <3>2. r = [h EXCEPT !.respHdr[n] = Append(@, v)]
      <4> HIDE DEF h, old, r
      <4> QED
        BY <3>1
    <3> QED
      BY <1>4, <3>2 DEF AddRespHeader
  <2>8. Edit(ViewOf(o, q), ViewOf(r, q))
    BY <2>6 DEF Edit
  <2>9. Edits(c, r)
    BY <2>3, <2>7, <2>8 DEF Edits
  <2> QED
    BY <2>9
<1>5. ASSUME NEW i \in Infos, AskInfo(c, i) PROVE \E r : Edits(c, r)
  <2> DEFINE r == [o EXCEPT !.info[i] = IF @ = Nil THEN q.info[i] ELSE @]
  <2>1. /\ r \in Requests /\ FilledFrom(r, q)
        /\ r.path = o.path /\ r.hdr = o.hdr /\ r.args = o.args /\ r.respHdr = o.respHdr
    BY <1>2, InfoFills
  <2>2. ViewOf(r, q) = ViewOf(o, q)
    BY <2>1 DEF ViewOf
  <2>3. OnRequest(c, r)
    BY <1>5 DEF AskInfo
  <2>4. Edits(c, r)
    BY <2>1, <2>2, <2>3 DEF Edits, Edit
  <2> QED
    BY <2>4
<1> QED
  BY <1>3, <1>4, <1>5

\* What a call may write to the ReqResponse: a body, or the first status.
Writes(c, x) ==
  LET old == resps[w[c]] IN
  /\ x \in ReqResponses /\ OnReqResponse(c, x)
  /\ \/ x = old
     \/ x = [old EXCEPT !.body = TRUE]
     \/ old.code = 0 /\ x = [old EXCEPT !.code = x.code]

\* A filter writes the body, or the status if there is none yet.
LEMMA WriteCalls ==
  ASSUME IInv, NEW c \in Conns, Write(c) \/ \E s \in Codes : WriteHeader(c, s)
  PROVE  \E x : Writes(c, x)
<1> DEFINE old == resps[w[c]]
<1>1. c \in Running
  BY DEF Write, WriteHeader, OnReqResponse, Op, Running
<1>2. old \in ReqResponses
  BY <1>1, OwnObject
<1>3. CASE Write(c)
  <2> DEFINE x == [old EXCEPT !.body = TRUE]
  <2>1. x \in ReqResponses
    BY <1>2 DEF ReqResponses
  <2>2. Writes(c, x)
    BY <1>3, <2>1 DEF Write, Writes
  <2> QED
    BY <2>2
<1>4. ASSUME NEW s \in Codes, WriteHeader(c, s) PROVE \E x : Writes(c, x)
  <2> DEFINE x == [old EXCEPT !.code = IF old.code # 0 THEN old.code ELSE s]
  <2>1. x \in ReqResponses /\ (old.code # 0 => x = old)
        /\ (old.code = 0 => x = [old EXCEPT !.code = x.code])
    BY <1>2 DEF ReqResponses
  <2>2. OnReqResponse(c, x)
    BY <1>2, <1>4 DEF WriteHeader, ReqResponses
  <2>3. Writes(c, x)
    <3> HIDE DEF x
    <3> QED
      BY <2>1, <2>2 DEF Writes
  <2> QED
    BY <2>3
<1> QED
  BY <1>3, <1>4

\* An unanswered question changes nothing but the connection.
LEMMA AskFailsStep ==
  ASSUME IInv, NEW c \in Conns, AskFails(c)
  PROVE  IInv'
<1>1. /\ c \in Running /\ Running' = Running /\ InUse(req)' = InUse(req) /\ InUse(w)' = InUse(w)
      /\ pc' = pc /\ at' = at /\ input' = input /\ req' = req /\ w' = w /\ result' = result
      /\ calls' = calls /\ ops' \in [Conns -> 0 .. MaxOps]
  BY OpFrame DEF AskFails
<1>2. reqs' = reqs /\ resps' = resps /\ up' \in [Conns -> BOOLEAN]
  BY DEF AskFails, IInv, Types, TypeOK
<1>3. Types'
  BY <1>1, <1>2 DEF IInv, Types, TypeOK
<1> QED
  BY <1>1, <1>2, <1>3 DEF IInv, Pool, Owned

\* The deferred ReuseRequest and ReuseReqResponse: both objects go back clean.
LEMMA ReuseStep ==
  ASSUME IInv, NEW c \in Running, NEW next \in {"idle", "closed"}, NEW outcome,
         Reuse(c, next, outcome), up' \in [Conns -> BOOLEAN], calls' = calls
  PROVE  IInv'
<1> DEFINE o == req[c]
           x == w[c]
<1>1. c \in Conns /\ o \in Objects /\ x \in Objects /\ reqs[o] \in Requests
  BY OwnObject
<1>2. /\ pc' = [pc EXCEPT ![c] = next] /\ at' = [at EXCEPT ![c] = 0]
      /\ input' = [input EXCEPT ![c] = Nil] /\ req' = [req EXCEPT ![c] = Nil]
      /\ w' = [w EXCEPT ![c] = Nil]
      /\ ops' = [ops EXCEPT ![c] = 0] /\ result' = [result EXCEPT ![c] = outcome]
      /\ reqs' = [reqs EXCEPT ![o] = Reset(reqs[o])]
      /\ resps' = [resps EXCEPT ![x] = NewReqResponse]
  BY <1>1 DEF Reuse, IInv, Types
<1>3. /\ DOMAIN pc = Conns /\ DOMAIN at = Conns /\ DOMAIN input = Conns /\ DOMAIN req = Conns
      /\ DOMAIN w = Conns /\ DOMAIN result = Conns
  BY DEF IInv, Types, TypeOK
<1>4. \A d \in Conns : d # c =>
        /\ (pc')[d] = pc[d] /\ (at')[d] = at[d] /\ (input')[d] = input[d]
        /\ (req')[d] = req[d] /\ (w')[d] = w[d]
  BY <1>2, <1>3
<1>5. (pc')[c] = next /\ (at')[c] = 0 /\ (req')[c] = Nil /\ (w')[c] = Nil
  BY <1>1, <1>2, <1>3
<1>6. Running' = Running \ {c}
  BY <1>1, <1>4, <1>5 DEF Running
<1>7. /\ reqs' \in [Objects -> Requests] /\ Clean((reqs')[o])
      /\ \A p \in Objects : p # o => (reqs')[p] = reqs[p]
  BY <1>1, <1>2, ResetIsClean DEF IInv, Types
<1>8. /\ resps' \in [Objects -> ReqResponses] /\ (resps')[x] = NewReqResponse
      /\ \A p \in Objects : p # x => (resps')[p] = resps[p]
  BY <1>1, <1>2, NewIsClean DEF IInv, Types, TypeOK, ReqResponses
<1>9. TypeOK'
  <2>1. /\ pc' \in [Conns -> {"idle", "filter", "end", "closed"}]
        /\ at' \in [Conns -> 0 .. ChainLen + 1]
        /\ input' \in [Conns -> Inputs \cup {Nil}]
        /\ req' \in [Conns -> Objects \cup {Nil}]
        /\ w' \in [Conns -> Objects \cup {Nil}]
        /\ ops' \in [Conns -> 0 .. MaxOps]
    BY <1>1, <1>2, BoundsAssumption DEF IInv, Types, TypeOK
  <2>2. \A d \in Conns : (d \in Running') = ((req')[d] # Nil) /\ (d \in Running') = ((w')[d] # Nil)
    BY <1>1, <1>4, <1>5, <1>6 DEF IInv, Types, TypeOK
  <2>3. \A p \in Objects :
          /\ (reqs')[p].path \in Paths \cup {Nil}
          /\ \A m \in {"hdr", "rawHdr", "args", "rawArgs", "respHdr"} : (reqs')[p][m] \in MaybeMap
    BY <1>7, RequestFields
  <2> QED
    BY <1>8, <2>1, <2>2, <2>3 DEF IInv, Types, TypeOK, ReqResponses
<1>10. Types'
  <2>1. DOMAIN result' = Conns
    BY <1>2, <1>3
  <2>2. \A d \in Running' : (input')[d] \in Inputs
    BY <1>4, <1>6 DEF IInv, Types, Running
  <2>3. \A d \in Conns : (pc')[d] = "filter" => (at')[d] \in 1 .. ChainLen
    BY <1>4, <1>5 DEF IInv, Types
  <2>4. \A d \in Conns : d \notin Running' => (at')[d] = 0
    BY <1>4, <1>5, <1>6 DEF IInv, Types
  <2> QED
    BY <1>7, <1>9, <2>1, <2>2, <2>3, <2>4 DEF IInv, Types
<1>11. Pool'
  <2>1. \A d, e \in Running' : d # e => (req')[d] # (req')[e] /\ (w')[d] # (w')[e]
    BY <1>4, <1>6 DEF IInv, Pool, Running
  <2>2. \A p \in Objects : p # o /\ p \notin InUse(req)' => p \notin InUse(req)
    BY <1>1, <1>4 DEF InUse
  <2>3. \A p \in Objects : p # x /\ p \notin InUse(w)' => p \notin InUse(w)
    BY <1>1, <1>4 DEF InUse
  <2>4. \A p \in Objects \ InUse(req)' : Clean((reqs')[p])
    BY <1>7, <2>2 DEF IInv, Pool
  <2>5. \A p \in Objects \ InUse(w)' : (resps')[p] = NewReqResponse
    BY <1>8, <2>3 DEF IInv, Pool
  <2> QED
    BY <2>1, <2>4, <2>5 DEF Pool
<1>12. Owned'
  <2> SUFFICES ASSUME NEW d \in Running \ {c}
               PROVE  FilledFrom((reqs')[(req')[d]], (input')[d])
    BY <1>6 DEF Owned
  <2>1. d \in Conns /\ d # c /\ req[d] # o /\ req[d] \in Objects
    BY OwnObject DEF IInv, Pool
  <2>2. (reqs')[(req')[d]] = reqs[req[d]] /\ (input')[d] = input[d]
    BY <1>4, <1>7, <2>1
  <2> QED
    BY <2>2, OwnObject
<1> QED
  BY <1>10, <1>11, <1>12 DEF IInv

\* What a request starts with: objects of the pools, which are clean.
LEMMA CallFacts ==
  ASSUME IInv, NEW c \in Conns, Call(c)
  PROVE  \E q \in Inputs, o \in Objects, x \in Objects :
           /\ pc[c] = "idle" /\ c \notin Running /\ Running' = Running \cup {c}
           /\ (pc')[c] = "filter" /\ (at')[c] = 1 /\ (input')[c] = q
           /\ (req')[c] = o /\ (w')[c] = x /\ (result')[c] = Nil
           /\ Clean(reqs[o]) /\ resps[x] = NewReqResponse
           /\ \A d \in Conns : req[d] # o /\ w[d] # x
           /\ \A d \in Conns : d # c =>
                /\ (pc')[d] = pc[d] /\ (at')[d] = at[d] /\ (input')[d] = input[d]
                /\ (req')[d] = req[d] /\ (w')[d] = w[d] /\ (result')[d] = result[d]
<1>1. PICK q \in Inputs : input' = [input EXCEPT ![c] = q]
  BY DEF Call
<1>2. PICK o \in Objects \ InUse(req) : req' = [req EXCEPT ![c] = o]
  BY DEF Call
<1>3. PICK x \in Objects \ InUse(w) : w' = [w EXCEPT ![c] = x]
  BY DEF Call
<1>4. /\ DOMAIN pc = Conns /\ DOMAIN at = Conns /\ DOMAIN input = Conns /\ DOMAIN req = Conns
      /\ DOMAIN w = Conns /\ DOMAIN result = Conns
  BY DEF IInv, Types, TypeOK
<1>5. /\ pc[c] = "idle" /\ (pc')[c] = "filter" /\ (at')[c] = 1 /\ (input')[c] = q
      /\ (req')[c] = o /\ (w')[c] = x /\ (result')[c] = Nil
      /\ \A d \in Conns : d # c =>
           /\ (pc')[d] = pc[d] /\ (at')[d] = at[d] /\ (input')[d] = input[d]
           /\ (req')[d] = req[d] /\ (w')[d] = w[d] /\ (result')[d] = result[d]
  BY <1>1, <1>2, <1>3, <1>4 DEF Call
<1>6. Running' = Running \cup {c} /\ c \notin Running
  BY <1>5 DEF Running
<1>7. Clean(reqs[o]) /\ resps[x] = NewReqResponse
  BY <1>2, <1>3 DEF IInv, Pool
<1>8. \A d \in Conns : req[d] # o /\ w[d] # x
  BY <1>2, <1>3, NilAssumption DEF InUse
<1> QED
  BY <1>2, <1>3, <1>5, <1>6, <1>7, <1>8

\* A request takes clean objects of the pools.
LEMMA CallStep ==
  ASSUME IInv, NEW c \in Conns, Call(c)
  PROVE  IInv'
<1>1. PICK q \in Inputs, o \in Objects, x \in Objects :
        /\ pc[c] = "idle" /\ c \notin Running /\ Running' = Running \cup {c}
        /\ (pc')[c] = "filter" /\ (at')[c] = 1 /\ (input')[c] = q
        /\ (req')[c] = o /\ (w')[c] = x /\ (result')[c] = Nil
        /\ Clean(reqs[o]) /\ resps[x] = NewReqResponse
        /\ \A d \in Conns : req[d] # o /\ w[d] # x
        /\ \A d \in Conns : d # c =>
             /\ (pc')[d] = pc[d] /\ (at')[d] = at[d] /\ (input')[d] = input[d]
             /\ (req')[d] = req[d] /\ (w')[d] = w[d] /\ (result')[d] = result[d]
  BY CallFacts
<1>2. reqs' = reqs /\ resps' = resps /\ up' = up /\ calls' = calls + 1 /\ calls < MaxCalls
      /\ DOMAIN result' = Conns
  BY DEF Call, IInv, Types
<1>3. TypeOK'
  <2>1. pc' \in [Conns -> {"idle", "filter", "end", "closed"}] /\ at' \in [Conns -> 0 .. ChainLen + 1]
    BY BoundsAssumption DEF Call, IInv, Types, TypeOK
  <2>2. input' \in [Conns -> Inputs \cup {Nil}]
    BY DEF Call, IInv, Types, TypeOK
  <2>3. req' \in [Conns -> Objects \cup {Nil}] /\ w' \in [Conns -> Objects \cup {Nil}]
    BY DEF Call, IInv, Types, TypeOK
  <2>4. ops' \in [Conns -> 0 .. MaxOps] /\ calls' \in 0 .. MaxCalls
    BY <1>2, BoundsAssumption DEF Call, IInv, Types, TypeOK
  <2>5. \A d \in Conns : (d \in Running') = ((req')[d] # Nil) /\ (d \in Running') = ((w')[d] # Nil)
    BY <1>1, NilAssumption DEF IInv, Types, TypeOK
  <2> QED
    BY <1>2, <2>1, <2>2, <2>3, <2>4, <2>5 DEF IInv, Types, TypeOK
<1>4. Types'
  <2>1. \A d \in Running' : (input')[d] \in Inputs
    BY <1>1 DEF IInv, Types, Running
  <2>2. \A d \in Conns : (pc')[d] = "filter" => (at')[d] \in 1 .. ChainLen
    BY <1>1, BoundsAssumption DEF IInv, Types
  <2>3. \A d \in Conns : d \notin Running' => (at')[d] = 0
    BY <1>1 DEF IInv, Types
  <2> QED
    BY <1>2, <1>3, <2>1, <2>2, <2>3 DEF IInv, Types
<1>5. Pool'
  <2>1. \A d, e \in Running' : d # e => (req')[d] # (req')[e] /\ (w')[d] # (w')[e]
    BY <1>1 DEF IInv, Pool, Running
  <2>2. req[c] = Nil /\ w[c] = Nil
    BY <1>1 DEF IInv, Types, TypeOK
  <2>3. InUse(req) \subseteq InUse(req)' /\ InUse(w) \subseteq InUse(w)'
    BY <1>1, <2>2 DEF InUse
  <2> QED
    BY <1>2, <2>1, <2>3 DEF IInv, Pool
<1>6. Owned'
  <2>1. FilledFrom(reqs[o], q)
    BY <1>1 DEF Clean, FilledFrom
  <2>2. \A d \in Running : (req')[d] = req[d] /\ (input')[d] = input[d]
    BY <1>1 DEF Running
  <2> QED
    BY <1>1, <1>2, <2>1, <2>2 DEF IInv, Owned
<1> QED
  BY <1>4, <1>5, <1>6 DEF IInv

\* A token that is not found: objects of the pools are taken and put back.
LEMMA NotFoundStep ==
  ASSUME IInv, NEW c \in Conns, NotFound(c)
  PROVE  /\ IInv' /\ c \notin Running
         /\ \A d \in Running : (reqs')[req[d]] = reqs[req[d]] /\ (resps')[w[d]] = resps[w[d]]
<1>1. PICK o \in Objects \ InUse(req), x \in Objects \ InUse(w) :
        /\ reqs' = [reqs EXCEPT ![o] = Reset(@)]
        /\ resps' = [resps EXCEPT ![x] = NewReqResponse]
  BY DEF NotFound
<1>2. /\ pc' = pc /\ at' = at /\ input' = input /\ req' = req /\ w' = w /\ up' = up /\ ops' = ops
      /\ pc[c] = "idle" /\ calls < MaxCalls /\ calls' = calls + 1 /\ DOMAIN result' = Conns
  BY DEF NotFound, IInv, Types
<1>3. /\ Running' = Running /\ c \notin Running
      /\ InUse(req)' = InUse(req) /\ InUse(w)' = InUse(w)
  BY <1>2 DEF Running, InUse
<1>4. \A d \in Running : req[d] # o /\ w[d] # x
  BY <1>1, NilAssumption DEF InUse, Running
<1>5. /\ reqs' \in [Objects -> Requests] /\ Clean((reqs')[o])
      /\ \A p \in Objects : p # o => (reqs')[p] = reqs[p]
  BY <1>1, ResetIsClean DEF IInv, Types
<1>6. /\ resps' \in [Objects -> ReqResponses] /\ (resps')[x] = NewReqResponse
      /\ \A p \in Objects : p # x => (resps')[p] = resps[p]
  BY <1>1, NewIsClean DEF IInv, Types, TypeOK, ReqResponses
<1>7. TypeOK'
  <2>1. calls' \in 0 .. MaxCalls
    BY <1>2, BoundsAssumption DEF IInv, Types, TypeOK
  <2>2. \A p \in Objects :
          /\ (reqs')[p].path \in Paths \cup {Nil}
          /\ \A m \in {"hdr", "rawHdr", "args", "rawArgs", "respHdr"} : (reqs')[p][m] \in MaybeMap
    BY <1>5, RequestFields
  <2> QED
    BY <1>2, <1>3, <1>6, <2>1, <2>2 DEF IInv, Types, TypeOK, ReqResponses
<1>8. Types'
  BY <1>2, <1>3, <1>5, <1>7 DEF IInv, Types
<1>9. Pool'
  BY <1>2, <1>3, <1>5, <1>6 DEF IInv, Pool
<1>10. \A d \in Running : (reqs')[req[d]] = reqs[req[d]] /\ (resps')[w[d]] = resps[w[d]]
  BY <1>4, <1>5, <1>6, OwnObject
<1>11. Owned'
  BY <1>2, <1>3, <1>10 DEF IInv, Owned
<1> QED
  BY <1>3, <1>8, <1>9, <1>10, <1>11 DEF IInv

\* A filter that returns changes nothing but the place in the chain.
LEMMA ReturnStep ==
  ASSUME IInv, NEW c \in Conns, Return(c)
  PROVE  IInv' /\ Running' = Running
<1>1. /\ pc[c] = "filter" /\ c \in Running /\ at[c] \in 1 .. ChainLen
      /\ input' = input /\ req' = req /\ w' = w /\ reqs' = reqs /\ resps' = resps /\ up' = up
      /\ result' = result /\ ops' = ops /\ calls' = calls
  BY DEF Return, IInv, Types, Running
<1>2. /\ (pc')[c] \in {"filter", "end"} /\ (at')[c] = at[c] + 1
      /\ (pc')[c] = "filter" => at[c] # ChainLen
      /\ \A d \in Conns : d # c => (pc')[d] = pc[d] /\ (at')[d] = at[d]
  BY <1>1 DEF Return, IInv, Types, TypeOK
<1>3. Running' = Running /\ InUse(req)' = InUse(req) /\ InUse(w)' = InUse(w)
  BY <1>1, <1>2 DEF Running, InUse
<1>4. TypeOK'
  <2>1. pc' \in [Conns -> {"idle", "filter", "end", "closed"}]
    BY <1>1 DEF Return, IInv, Types, TypeOK
  <2>2. at' \in [Conns -> 0 .. ChainLen + 1]
    BY <1>1, BoundsAssumption DEF Return, IInv, Types, TypeOK
  <2> QED
    BY <1>1, <1>3, <2>1, <2>2 DEF IInv, Types, TypeOK
<1>5. Types'
  <2>1. \A d \in Conns : (pc')[d] = "filter" => (at')[d] \in 1 .. ChainLen
    BY <1>1, <1>2, BoundsAssumption DEF IInv, Types
  <2>2. \A d \in Conns : d \notin Running' => (at')[d] = 0
    BY <1>1, <1>2, <1>3 DEF IInv, Types
  <2> QED
    BY <1>1, <1>3, <1>4, <2>1, <2>2 DEF IInv, Types
<1>6. Pool' /\ Owned'
  BY <1>1, <1>3 DEF IInv, Pool, Owned
<1> QED
  BY <1>3, <1>5, <1>6 DEF IInv

\* A connection that is made again starts with no objects.
LEMMA ConnectStep ==
  ASSUME IInv, NEW c \in Conns, Connect(c)
  PROVE  IInv' /\ Running' = Running
<1>1. /\ pc[c] = "closed"
      /\ at' = at /\ input' = input /\ req' = req /\ w' = w /\ reqs' = reqs /\ resps' = resps
      /\ result' = result /\ ops' = ops /\ calls' = calls
  BY DEF Connect
<1>2. (pc')[c] = "idle" /\ \A d \in Conns : d # c => (pc')[d] = pc[d]
  BY DEF Connect, IInv, Types, TypeOK
<1>3. Running' = Running /\ InUse(req)' = InUse(req) /\ InUse(w)' = InUse(w)
  BY <1>1, <1>2 DEF Running, InUse
<1>4. TypeOK'
  BY <1>1, <1>3 DEF Connect, IInv, Types, TypeOK
<1>5. Types'
  BY <1>1, <1>2, <1>3, <1>4 DEF IInv, Types
<1>6. Pool' /\ Owned'
  BY <1>1, <1>3 DEF IInv, Pool, Owned
<1> QED
  BY <1>3, <1>5, <1>6 DEF IInv

\* The invariant is inductive.
LEMMA NextInv == IInv /\ [Next]_vars => IInv'
<1> SUFFICES ASSUME IInv, [Next]_vars PROVE IInv'
  OBVIOUS
<1>1. ASSUME NEW c \in Conns, NEW r, Edits(c, r) PROVE IInv'
  BY <1>1, RequestStep DEF Edits
<1>2. ASSUME NEW c \in Conns, NEW x, Writes(c, x) PROVE IInv'
  BY <1>2, ResponseStep DEF Writes
<1>3. ASSUME NEW c \in Conns, Filter(c) PROVE IInv'
  BY <1>1, <1>2, <1>3, HeaderCalls, ArgCalls, OtherCalls, WriteCalls, AskFailsStep DEF Filter
<1>4. ASSUME NEW c \in Conns, Reply(c) \/ Panic(c) PROVE IInv'
  <2>1. c \in Running /\ up' \in [Conns -> BOOLEAN] /\ calls' = calls
    BY <1>4 DEF Reply, Panic, Running, IInv, Types, TypeOK
  <2>2. \E next \in {"idle", "closed"} : \E outcome : Reuse(c, next, outcome)
    BY <1>4 DEF Reply, Panic
  <2> QED
    BY <2>1, <2>2, ReuseStep
<1>5. CASE UNCHANGED vars
  BY <1>5 DEF vars, IInv, Types, TypeOK, Pool, Owned, Running, InUse
<1> QED
  BY <1>3, <1>4, <1>5, CallStep, NotFoundStep, ReturnStep, ConnectStep DEF Next

\* The invariant always holds.
LEMMA Inductive == Spec => []IInv
  BY InitInv, NextInv, PTL DEF Spec

-----------------------------------------------------------------------------
(* The promise to the plugins *)

\* The state of the promise: its variables, as Promise maps them.
Stage == [c \in Conns |-> IF pc[c] = "closed" THEN "idle" ELSE pc[c]]
Requested == [c \in Conns |-> IF c \in Running THEN View(c) ELSE Nil]
Responded == [c \in Conns |-> IF c \in Running THEN resps[w[c]] ELSE NewReqResponse]

\* All values of an argument are sent.
LEMMA ArgsArrive ==
  ASSUME NEW old \in Maps, NEW new \in Maps
  PROVE  Apply(old, ArgsChanges(old, new)) = new
  BY DEF Apply, ArgsChanges, Maps

\* What APISIX makes of the differences is what the filters left.
LEMMA RewrittenIsView ==
  ASSUME SingleValued, NEW r \in Requests, NEW q \in Inputs, FilledFrom(r, q)
  PROVE  Rewritten(r, q) = ViewOf(r, q)
<1>1. q.hdr \in Maps /\ q.args \in Maps /\ r.hdr \in MaybeMap /\ r.args \in MaybeMap
  BY InputsAssumption DEF Requests
<1>2. r.hdr # Nil => Apply(q.hdr, HeaderChanges(r.rawHdr, r.hdr)) = r.hdr
  <2> SUFFICES ASSUME r.hdr # Nil PROVE Apply(q.hdr, HeaderChanges(q.hdr, r.hdr)) = r.hdr
    BY DEF FilledFrom
  <2>1. r.hdr \in Maps
    BY <1>1 DEF MaybeMap
  <2>2. \A n \in Names : Apply(q.hdr, HeaderChanges(q.hdr, r.hdr))[n] = r.hdr[n]
    BY <1>1, <2>1, SingleHeaderArrives DEF FilledFrom, SingleValued
  <2> QED
    BY <2>1, <2>2 DEF Apply, Maps
<1>3. r.args # Nil => Apply(q.args, ArgsChanges(r.rawArgs, r.args)) = r.args
  BY <1>1, ArgsArrive DEF FilledFrom, MaybeMap
<1> QED
  BY <1>2, <1>3 DEF Rewritten, ViewOf

\* The state of the promise for a connection.
LEMMA Mapped ==
  ASSUME NEW c \in Conns
  PROVE  /\ Stage[c] = IF pc[c] = "closed" THEN "idle" ELSE pc[c]
         /\ c \in Running => /\ Requested[c] = ViewOf(reqs[req[c]], input[c])
                             /\ Responded[c] = resps[w[c]]
         /\ c \notin Running => Requested[c] = Nil /\ Responded[c] = NewReqResponse
  BY DEF Stage, Requested, Responded, View, ViewOf

\* A call on the Request is a change of the request, or nothing.
LEMMA EditRefines ==
  ASSUME IInv, NEW c \in Conns, NEW r, Edits(c, r)
  PROVE  Promise!Rewrite(c) \/ UNCHANGED Promise!vars
<1> DEFINE v == ViewOf(reqs[req[c]], input[c])
           u == ViewOf(r, input[c])
<1>1. /\ c \in Running /\ Running' = Running
      /\ pc' = pc /\ at' = at /\ input' = input /\ req' = req /\ w' = w /\ result' = result
  BY OpFrame DEF Edits, OnRequest
<1>2. /\ reqs' = [reqs EXCEPT ![req[c]] = r] /\ resps' = resps
      /\ req[c] \in Objects /\ reqs \in [Objects -> Requests]
  BY <1>1, OwnObject DEF Edits, OnRequest, IInv, Types
<1>3. Stage' = Stage /\ Responded' = Responded /\ Stage[c] = "filter"
  BY <1>1, <1>2 DEF Stage, Responded, Edits, OnRequest, Op
<1>4. Requested[c] = v /\ (Requested')[c] = u
  BY <1>1, <1>2 DEF Requested, View, ViewOf
<1>5. ASSUME NEW d \in Conns, d # c PROVE (Requested')[d] = Requested[d]
  <2>1. CASE d \notin Running
    BY <1>1, <2>1 DEF Requested
  <2>2. CASE d \in Running
    <3>1. req[d] # req[c] /\ req[d] \in Objects
      BY <1>1, <1>5, <2>2, OwnObject DEF IInv, Pool
    <3>2. (reqs')[req[d]] = reqs[req[d]]
      BY <1>2, <3>1
    <3> QED
      BY <1>1, <2>2, <3>2 DEF Requested, View
  <2> QED
    BY <2>1, <2>2
<1>6. /\ Requested' = [Requested EXCEPT ![c] = u]
      /\ DOMAIN Requested = Conns /\ DOMAIN Requested' = Conns
  <2>1. Requested = [d \in Conns |-> Requested[d]] /\ Requested' = [d \in Conns |-> (Requested')[d]]
    BY DEF Requested
  <2> QED
    BY <1>4, <1>5, <2>1
<1>7. v.args \in Maps
  BY <1>1, OwnObject, InputsAssumption DEF ViewOf, Requests, MaybeMap
<1>8. Edit(v, u)
  BY DEF Edits
<1> HIDE DEF v, u
<1>9. CASE u = v
  <2>1. Requested' = Requested
    <3>1. \A d \in Conns : (Requested')[d] = Requested[d]
      BY <1>4, <1>5, <1>9
    <3> QED
      BY <1>1, <3>1 DEF Requested
  <2> QED
    BY <1>1, <1>3, <2>1 DEF Promise!vars, Stage, Requested, Responded
<1>10. ASSUME NEW n \in Names, NEW vs \in {<<>>} \cup {<<x>> : x \in Values},
              u = [v EXCEPT !.hdr[n] = vs]
       PROVE  Promise!Rewrite(c)
  <2>1. Requested' = [Requested EXCEPT ![c].hdr[n] = vs]
    BY <1>4, <1>6, <1>10
  <2> QED
    BY <1>1, <1>3, <2>1 DEF Promise!Rewrite, Stage, Requested, Responded
<1>11. ASSUME NEW n \in Names, NEW vs \in Seq(Values), u = [v EXCEPT !.args[n] = vs]
       PROVE  Promise!Rewrite(c)
  <2>a. u.args[n] = vs
    BY <1>7, <1>11 DEF v, ViewOf, Maps
  <2>b. (Requested')[c].args[n] = vs
    BY <1>4, <2>a
  <2>c. Requested' = [Requested EXCEPT ![c].args[n] = vs]
    BY <1>4, <1>6, <1>11
  <2>1. (Requested')[c].args[n] \in Seq(Values)
        /\ Requested' = [Requested EXCEPT ![c].args[n] = (Requested')[c].args[n]]
    BY <2>b, <2>c
  <2> QED
    BY <1>1, <1>3, <2>1 DEF Promise!Rewrite, Stage, Requested, Responded
<1>12. CASE u = [v EXCEPT !.path = u.path]
  <2>1. Requested' = [Requested EXCEPT ![c].path = (Requested')[c].path]
    BY <1>4, <1>6, <1>12
  <2> QED
    BY <1>1, <1>3, <2>1 DEF Promise!Rewrite, Stage, Requested, Responded
<1>13. ASSUME NEW n \in Names, NEW x \in Values, u = [v EXCEPT !.respHdr[n] = Append(@, x)]
       PROVE  Promise!Rewrite(c)
  <2>1. Requested' = [Requested EXCEPT ![c].respHdr[n] = Append(@, x)]
    BY <1>4, <1>6, <1>13
  <2> QED
    BY <1>1, <1>3, <2>1 DEF Promise!Rewrite, Stage, Requested, Responded
<1> QED
  BY <1>8, <1>9, <1>10, <1>11, <1>12, <1>13 DEF Edit

\* A call on the ReqResponse writes a body or the first status, or nothing.
LEMMA WriteRefines ==
  ASSUME IInv, NEW c \in Conns, NEW x, Writes(c, x)
  PROVE  Promise!Write(c) \/ UNCHANGED Promise!vars
<1> DEFINE old == resps[w[c]]
<1>1. /\ c \in Running /\ Running' = Running
      /\ pc' = pc /\ at' = at /\ input' = input /\ req' = req /\ w' = w /\ result' = result
  BY OpFrame DEF Writes, OnReqResponse
<1>2. /\ resps' = [resps EXCEPT ![w[c]] = x] /\ reqs' = reqs
      /\ w[c] \in Objects /\ resps \in [Objects -> ReqResponses] /\ x \in ReqResponses
  BY <1>1, OwnObject DEF Writes, OnReqResponse, IInv, Types, TypeOK, ReqResponses
<1>3. Stage' = Stage /\ Requested' = Requested /\ Stage[c] = "filter"
  BY <1>1, <1>2 DEF Stage, Requested, View, Writes, OnReqResponse, Op
<1>4. Responded[c] = old /\ (Responded')[c] = x
  BY <1>1, <1>2 DEF Responded
<1>5. ASSUME NEW d \in Conns, d # c PROVE (Responded')[d] = Responded[d]
  <2>1. CASE d \notin Running
    BY <1>1, <2>1 DEF Responded
  <2>2. CASE d \in Running
    <3>1. w[d] # w[c] /\ w[d] \in Objects
      BY <1>1, <1>5, <2>2, OwnObject DEF IInv, Pool
    <3>2. (resps')[w[d]] = resps[w[d]]
      BY <1>2, <3>1
    <3> QED
      BY <1>1, <2>2, <3>2 DEF Responded
  <2> QED
    BY <2>1, <2>2
<1>6. Responded' = [Responded EXCEPT ![c] = x]
  <2>1. Responded = [d \in Conns |-> Responded[d]] /\ Responded' = [d \in Conns |-> (Responded')[d]]
    BY DEF Responded
  <2> QED
    BY <1>4, <1>5, <2>1
<1>7. CASE x = old
  <2>1. Responded' = Responded
    <3>1. \A d \in Conns : (Responded')[d] = Responded[d]
      BY <1>4, <1>5, <1>7
    <3> QED
      BY <1>1, <3>1 DEF Responded
  <2> QED
    BY <1>1, <1>3, <2>1 DEF Promise!vars, Stage, Requested, Responded
<1>8. CASE x = [old EXCEPT !.body = TRUE]
  <2>1. Responded' = [Responded EXCEPT ![c].body = TRUE]
    BY <1>4, <1>6, <1>8
  <2> QED
    BY <1>1, <1>3, <2>1 DEF Promise!Write, Stage, Requested, Responded
<1>9. CASE old.code = 0 /\ x = [old EXCEPT !.code = x.code]
  <2>1. Responded[c].code = 0 /\ Responded' = [Responded EXCEPT ![c].code = (Responded')[c].code]
    <3> HIDE DEF old
    <3> QED
      BY <1>4, <1>6, <1>9
  <2> QED
    BY <1>1, <1>3, <2>1 DEF Promise!Write, Stage, Requested, Responded
<1> QED
  BY <1>7, <1>8, <1>9 DEF Writes

\* The objects go back: the promise is done with the request.
LEMMA ReuseRefines ==
  ASSUME IInv, NEW c \in Running, NEW next \in {"idle", "closed"}, NEW outcome,
         Reuse(c, next, outcome)
  PROVE  Promise!Done(c, outcome)
<1>1. c \in Conns /\ req[c] \in Objects /\ w[c] \in Objects
  BY OwnObject
<1>2. /\ DOMAIN pc = Conns /\ DOMAIN at = Conns /\ DOMAIN input = Conns /\ DOMAIN req = Conns
      /\ DOMAIN w = Conns
  BY DEF IInv, Types, TypeOK
<1>3. /\ (pc')[c] = next /\ at' = [at EXCEPT ![c] = 0] /\ result' = [result EXCEPT ![c] = outcome]
      /\ reqs' = [reqs EXCEPT ![req[c]] = Reset(@)] /\ resps' = [resps EXCEPT ![w[c]] = NewReqResponse]
      /\ \A d \in Conns : d # c =>
           /\ (pc')[d] = pc[d] /\ (input')[d] = input[d] /\ (req')[d] = req[d] /\ (w')[d] = w[d]
  BY <1>1, <1>2 DEF Reuse
<1>4. Running' = Running \ {c}
  BY <1>1, <1>3 DEF Running
<1>5. Stage' = [Stage EXCEPT ![c] = "idle"]
  BY <1>3 DEF Stage
<1>6. ASSUME NEW d \in Conns, d # c
      PROVE  (Requested')[d] = Requested[d] /\ (Responded')[d] = Responded[d]
  <2>1. CASE d \notin Running
    BY <1>4, <1>6, <2>1 DEF Requested, Responded
  <2>2. CASE d \in Running
    <3>1. req[d] # req[c] /\ req[d] \in Objects /\ w[d] # w[c] /\ w[d] \in Objects
      BY <1>6, <2>2, OwnObject DEF IInv, Pool
    <3>2. (reqs')[(req')[d]] = reqs[req[d]] /\ (resps')[(w')[d]] = resps[w[d]]
      BY <1>3, <1>6, <3>1 DEF IInv, Types, TypeOK
    <3> QED
      BY <1>3, <1>4, <1>6, <2>2, <3>2 DEF Requested, Responded, View
  <2> QED
    BY <2>1, <2>2
<1>7. (Requested')[c] = Nil /\ (Responded')[c] = NewReqResponse
  BY <1>1, <1>4 DEF Requested, Responded
<1>8. /\ Requested' = [Requested EXCEPT ![c] = Nil]
      /\ Responded' = [Responded EXCEPT ![c] = NewReqResponse]
  <2>1. /\ Requested = [d \in Conns |-> Requested[d]]
        /\ Requested' = [d \in Conns |-> (Requested')[d]]
        /\ Responded = [d \in Conns |-> Responded[d]]
        /\ Responded' = [d \in Conns |-> (Responded')[d]]
    BY DEF Requested, Responded
  <2> QED
    BY <1>6, <1>7, <2>1
<1>9. NewReqResponse = Promise!Unwritten
  BY DEF NewReqResponse, Promise!Unwritten
<1> QED
  BY <1>3, <1>5, <1>8, <1>9 DEF Promise!Done, Stage, Requested, Responded

\* The answer that is sent is what the chain left.
LEMMA ReplyRefines ==
  ASSUME SingleValued, IInv, NEW c \in Conns, Reply(c)
  PROVE  Promise!Finish(c) \/ Promise!Abort(c)
<1> DEFINE r == reqs[req[c]]
           x == resps[w[c]]
           q == input[c]
           answer == Answer(r, x, q)
<1>1. c \in Running /\ pc[c] = "end"
  BY DEF Reply, Running
<1>2. r \in Requests /\ x \in ReqResponses /\ q \in Inputs /\ FilledFrom(r, q)
  BY <1>1, OwnObject
<1>3. CASE Reuse(c, "idle", answer)
  <2>1. Stage[c] = "end" /\ Requested[c] = ViewOf(r, q) /\ Responded[c] = x
    BY <1>1, Mapped
  <2>2. answer = IF Promise!Written(x) THEN Promise!Stopped(x)
                 ELSE [kind |-> "proxy", request |-> ViewOf(r, q)]
    <3>1. HasChange(x) <=> Promise!Written(x)
      BY <1>2 DEF HasChange, Promise!Written, ReqResponses
    <3>2. Rewritten(r, q) = ViewOf(r, q)
      BY <1>2, RewrittenIsView
    <3> QED
      BY <3>1, <3>2 DEF Answer, Promise!Stopped
  <2>3. answer = IF Promise!Written(Responded[c]) THEN Promise!Stopped(Responded[c])
                 ELSE [kind |-> "proxy", request |-> Requested[c]]
    BY <2>1, <2>2
  <2> DEFINE done == IF Promise!Written(Responded[c]) THEN Promise!Stopped(Responded[c])
                     ELSE [kind |-> "proxy", request |-> Requested[c]]
  <2>4. Reuse(c, "idle", done)
    <3> HIDE DEF answer, done
    <3>1. answer = done
      BY <2>3 DEF done
    <3> QED
      BY <1>3, <3>1 DEF Reuse
  <2>5. Promise!Done(c, done)
    <3> HIDE DEF done
    <3> QED
      BY <1>1, <2>4, ReuseRefines DEF Promise!Done
  <2> QED
    BY <2>1, <2>5 DEF Promise!Finish, Stage, Requested, Responded
<1>4. CASE Reuse(c, "closed", [kind |-> "error"])
  BY <1>1, <1>4, ReuseRefines DEF Promise!Abort
<1> QED
  BY <1>3, <1>4 DEF Reply

\* A request that takes clean objects begins as APISIX sent it.
LEMMA CallRefines ==
  ASSUME IInv, NEW c \in Conns, Call(c)
  PROVE  Promise!Begin(c)
<1>1. PICK q \in Inputs, o \in Objects, x \in Objects :
        /\ pc[c] = "idle" /\ c \notin Running /\ Running' = Running \cup {c}
        /\ (pc')[c] = "filter" /\ (at')[c] = 1 /\ (input')[c] = q
        /\ (req')[c] = o /\ (w')[c] = x /\ (result')[c] = Nil
        /\ Clean(reqs[o]) /\ resps[x] = NewReqResponse
        /\ \A d \in Conns : req[d] # o /\ w[d] # x
        /\ \A d \in Conns : d # c =>
             /\ (pc')[d] = pc[d] /\ (at')[d] = at[d] /\ (input')[d] = input[d]
             /\ (req')[d] = req[d] /\ (w')[d] = w[d] /\ (result')[d] = result[d]
  BY CallFacts
<1>2. /\ reqs' = reqs /\ resps' = resps /\ at' = [at EXCEPT ![c] = 1]
      /\ result' = [result EXCEPT ![c] = Nil]
  BY DEF Call
<1>3. Stage[c] = "idle" /\ Stage' = [Stage EXCEPT ![c] = "filter"]
  BY <1>1 DEF Stage
<1>4. Responded' = Responded
  BY <1>1, <1>2 DEF Responded, Running
<1>5. (Requested')[c] = Promise!AsRequest(q)
  BY <1>1, <1>2 DEF Requested, View, Clean, Promise!AsRequest, NoMap, Promise!NoMap
<1>6. \A d \in Conns : d # c => (Requested')[d] = Requested[d]
  BY <1>1, <1>2 DEF Requested, View
<1>7. Requested' = [Requested EXCEPT ![c] = Promise!AsRequest(q)]
  <2>1. Requested = [d \in Conns |-> Requested[d]] /\ Requested' = [d \in Conns |-> (Requested')[d]]
    BY DEF Requested
  <2> QED
    BY <1>5, <1>6, <2>1
<1> QED
  BY <1>2, <1>3, <1>4, <1>7 DEF Promise!Begin, Stage, Requested, Responded

\* A token that is not found comes to nothing.
LEMMA NotFoundRefines ==
  ASSUME IInv, NEW c \in Conns, NotFound(c)
  PROVE  Promise!Abort(c)
<1>1. /\ pc' = pc /\ at' = at /\ input' = input /\ req' = req /\ w' = w /\ pc[c] = "idle"
      /\ result' = [result EXCEPT ![c] = [kind |-> "error"]]
  BY DEF NotFound
<1>2. c \notin Running /\ Running' = Running
      /\ \A d \in Running : (reqs')[req[d]] = reqs[req[d]] /\ (resps')[w[d]] = resps[w[d]]
  BY <1>1, NotFoundStep DEF Running
<1>3. Stage' = Stage /\ Requested' = Requested /\ Responded' = Responded
  BY <1>1, <1>2 DEF Stage, Requested, Responded, View
<1>4. Stage[c] = "idle" /\ Requested[c] = Nil /\ Responded[c] = Promise!Unwritten /\ at[c] = 0
  BY <1>1, <1>2, Mapped DEF NewReqResponse, Promise!Unwritten, IInv, Types
<1>5. /\ Stage = [d \in Conns |-> Stage[d]] /\ Requested = [d \in Conns |-> Requested[d]]
      /\ Responded = [d \in Conns |-> Responded[d]] /\ at = [d \in Conns |-> at[d]]
  BY DEF Stage, Requested, Responded, IInv, Types, TypeOK
<1>6. /\ Stage' = [Stage EXCEPT ![c] = "idle"] /\ at' = [at EXCEPT ![c] = 0]
      /\ Requested' = [Requested EXCEPT ![c] = Nil]
      /\ Responded' = [Responded EXCEPT ![c] = Promise!Unwritten]
  BY <1>1, <1>3, <1>4, <1>5
<1> QED
  BY <1>1, <1>6 DEF Promise!Abort, Promise!Done, Stage, Requested, Responded

\* The chain goes on, or ends, as promised.
LEMMA ReturnRefines ==
  ASSUME IInv, NEW c \in Conns, Return(c)
  PROVE  Promise!Return(c)
<1>1. /\ pc[c] = "filter" /\ c \in Running /\ Running' = Running
      /\ input' = input /\ req' = req /\ w' = w /\ reqs' = reqs /\ resps' = resps
      /\ result' = result /\ at' = [at EXCEPT ![c] = @ + 1]
  BY ReturnStep DEF Return, Running
<1>2. Requested' = Requested /\ Responded' = Responded
  BY <1>1 DEF Requested, Responded, View
<1>3. Stage[c] = "filter" /\ Responded[c] = resps[w[c]] /\ resps[w[c]] \in ReqResponses
  BY <1>1, Mapped, OwnObject
<1>4. HasChange(resps[w[c]]) <=> Promise!Written(Responded[c])
  BY <1>3 DEF HasChange, Promise!Written, ReqResponses
<1>5. pc' = [pc EXCEPT ![c] = IF Promise!Written(Responded[c]) \/ at[c] = ChainLen
                              THEN "end" ELSE "filter"]
  BY <1>1, <1>4 DEF Return
<1>6. Stage' = [Stage EXCEPT ![c] = IF Promise!Written(Responded[c]) \/ at[c] = ChainLen
                                    THEN "end" ELSE @]
  BY <1>1, <1>3, <1>5 DEF Stage, IInv, Types, TypeOK
<1> QED
  BY <1>1, <1>2, <1>3, <1>6 DEF Promise!Return, Stage, Requested, Responded

\* Every step of HTTPReqCall is a step of the promise, or none.
LEMMA NextRefines ==
  ASSUME SingleValued, IInv, [Next]_vars
  PROVE  [Promise!Next]_(Promise!vars)
<1>1. ASSUME NEW c \in Conns, Filter(c) PROVE Promise!Next \/ UNCHANGED Promise!vars
  <2>1. CASE AskFails(c)
    <3>1. Running' = Running /\ pc' = pc /\ at' = at /\ input' = input /\ req' = req /\ w' = w
          /\ result' = result /\ reqs' = reqs /\ resps' = resps
      BY <2>1, OpFrame DEF AskFails
    <3> QED
      BY <3>1 DEF Promise!vars, View
  <2>2. CASE \E r : Edits(c, r)
    BY <2>2, EditRefines DEF Promise!Next
  <2>3. CASE \E x : Writes(c, x)
    BY <2>3, WriteRefines DEF Promise!Next
  <2> QED
    BY <1>1, <2>1, <2>2, <2>3, HeaderCalls, ArgCalls, OtherCalls, WriteCalls DEF Filter
<1>2. ASSUME NEW c \in Conns, Panic(c) PROVE Promise!Abort(c)
  BY <1>2, ReuseRefines DEF Panic, Promise!Abort, Running
<1>3. ASSUME NEW c \in Conns, Connect(c) PROVE UNCHANGED Promise!vars
  <2>1. /\ Running' = Running /\ at' = at /\ input' = input /\ req' = req /\ w' = w
        /\ result' = result /\ reqs' = reqs /\ resps' = resps
    BY <1>3, ConnectStep DEF Connect
  <2>2. Stage' = Stage
    BY <1>3 DEF Connect, Stage, IInv, Types, TypeOK
  <2> QED
    BY <2>1, <2>2 DEF Promise!vars, Stage, View
<1>4. CASE UNCHANGED vars
  BY <1>4 DEF vars, Promise!vars, Running, View
<1> QED
  BY <1>1, <1>2, <1>3, <1>4, CallRefines, NotFoundRefines, ReturnRefines, ReplyRefines
     DEF Next, Promise!Next

-----------------------------------------------------------------------------
(* Theorems *)

\* Goroutines have objects of the pools exactly while they run filters, and all
\* that HTTPReqCall keeps is of its type (plugin.go requestPhase).
THEOREM TypeCorrect == Spec => []TypeOK
<1>1. IInv => TypeOK
  BY DEF IInv, Types
<1> QED
  BY <1>1, Inductive, PTL

\* Whatever the other connections do with the shared pools, a filter sees, and
\* FetchChanges compares with, its own request (request.go 192).
THEOREM OwnRequest == Spec => []SeesOwnRequest
<1>1. IInv => SeesOwnRequest
  BY DEF IInv, Owned, FilledFrom, SeesOwnRequest
<1> QED
  BY <1>1, Inductive, PTL

\* As long as no request comes with a header of several values, HTTPReqCall does
\* what the plugin interface promises: the filters might as well work on the
\* request itself (plugin.go requestPhase, request.go FetchChanges).
THEOREM KeepsPromise == ASSUME SingleValued PROVE Spec => Implements
<1>1. Init => Promise!Init
  BY DEF Init, Promise!Init, Promise!Unwritten, NewReqResponse, Running
<1>2. IInv /\ [Next]_vars => [Promise!Next]_(Promise!vars)
  BY NextRefines
<1> QED
  BY <1>1, <1>2, Inductive, PTL DEF Spec, Implements, Promise!Spec
=============================================================================
