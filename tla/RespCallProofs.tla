--------------------------- MODULE RespCallProofs ---------------------------
(***************************************************************************)
(* Proofs about the response phase, for any connections, pool, responses   *)
(* and chain of filters: nothing of another response is left in an object  *)
(* of the pool, and the client gets what the filters left.                 *)
(***************************************************************************)
EXTENDS RespCall, SequenceTheorems, TLAPS

MaybeMap == Maps \cup {Nil}
Facts == {Nil} \cup {q.info[i] : q \in Inputs, i \in Infos}
Statuses == Codes \cup {q.status : q \in Inputs}
Contents == Bodies \cup {q.info["body"] : q \in Inputs}

Responses ==
  [hdr : MaybeMap, rawHdr : MaybeMap, statusCode : Codes \cup {0}, body : Bodies \cup {Nil},
   info : [Infos -> Facts]]
Meanings ==
  [status : Statuses, hdr : Maps, body : Contents, written : BOOLEAN, once : SUBSET Names]

\* Objects are well typed, and so is the history.
Types ==
  /\ TypeOK
  /\ resps \in [Objects -> Responses]
  /\ meant \in [Conns -> Meanings \cup {Nil}]
  /\ DOMAIN result = Conns
  /\ \A c \in Running : input[c] \in Inputs /\ meant[c] \in Meanings
  /\ \A c \in Conns : pc[c] = "filter" => at[c] \in 1 .. ChainLen

\* An object of the pool: nothing but the copy of some headers.
Clean(r) ==
  /\ r.hdr = Nil /\ r.body = Nil /\ r.statusCode = 0
  /\ \A i \in Infos : r.info[i] = Nil

\* Object r, filled for response q, says of it what m says.
Tracks(r, q, m) ==
  /\ \A i \in Infos : r.info[i] \in {Nil, q.info[i]}
  /\ r.hdr # Nil => r.rawHdr = q.hdr
  /\ m.status = (IF r.statusCode = 0 THEN q.status ELSE r.statusCode)
  /\ m.written <=> r.statusCode # 0
  /\ m.body = (IF r.body \in {Nil, Blank} THEN q.info["body"] ELSE r.body)
  /\ m.hdr = (IF r.hdr = Nil THEN q.hdr ELSE r.hdr)
  /\ m.once = {n \in Names : Len(q.hdr[n]) <= 1}
  /\ \A n \in m.once : Len(m.hdr[n]) <= 1

\* Goroutines have objects of their own, and what is in the pool is clean.
Pool ==
  /\ \A c, d \in Running : c # d => resp[c] # resp[d]
  /\ \A o \in Free : Clean(resps[o])

Owned == \A c \in Running : Tracks(resps[resp[c]], input[c], meant[c])

\* A connection that is closed has no answer.
Closed == \A c \in Conns : pc[c] = "closed" => result[c] = [kind |-> "error"]

IInv == Types /\ Pool /\ Owned /\ Closed /\ ClientGetsWhatFiltersLeft

-----------------------------------------------------------------------------
(* The differences on the wire *)

\* A header that had and has at most one value arrives as it is.
LEMMA SingleHeaderArrives ==
  ASSUME NEW old \in Maps, NEW new \in Maps, NEW n \in Names,
         Len(old[n]) <= 1, Len(new[n]) <= 1
  PROVE  Apply(old, HeaderChanges(old, new))[n] = new[n]
<1>1. old[n] \in Seq(Values) /\ new[n] \in Seq(Values)
  BY DEF Maps
<1>2. ASSUME NEW s \in Seq(Values), Len(s) <= 1, s # <<>> PROVE s = <<Head(s)>>
  <2>1. Len(s) \in Nat /\ Len(s) # 0
    BY <1>2, EmptySeq
  <2>a. \A k \in Nat : k # 0 /\ k <= 1 => k = 1
    OBVIOUS
  <2>2. Len(s) = 1
    BY <1>2, <2>1, <2>a, Zenon
  <2>3. Head(s) \in Values /\ Head(s) = s[1]
    BY <1>2, <2>2, HeadTailProperties
  <2>4. <<Head(s)>> \in Seq(Values) /\ Len(<<Head(s)>>) = 1 /\ <<Head(s)>>[1] = Head(s)
    BY <2>3
  <2> QED
    BY <2>2, <2>3, <2>4, SeqEqual
<1>3. CASE n \in FirstDiffers(old, new)
  BY <1>1, <1>2, <1>3 DEF Apply, HeaderChanges, Present
<1>4. CASE n \notin FirstDiffers(old, new)
  BY <1>1, <1>2, <1>4 DEF Apply, HeaderChanges, FirstDiffers, Present
<1> QED
  BY <1>3, <1>4

-----------------------------------------------------------------------------
(* Steps *)

\* A fresh object is clean.
LEMMA NewIsClean == NewResponse \in Responses /\ Clean(NewResponse)
<1>1. [i \in Infos |-> Nil] \in [Infos -> Facts]
  BY DEF Facts
<1> QED
  BY <1>1 DEF NewResponse, Responses, Clean, MaybeMap

\* An object that was reset is clean.
LEMMA ResetIsClean == ASSUME NEW r \in Responses PROVE Reset(r) \in Responses /\ Clean(Reset(r))
<1>1. [i \in Infos |-> Nil] \in [Infos -> Facts]
  BY DEF Facts
<1> DEFINE a == [r EXCEPT !.hdr = Nil]
           b == [a EXCEPT !.body = Nil]
           c == [b EXCEPT !.statusCode = 0]
           d == [c EXCEPT !.info = [i \in Infos |-> Nil]]
<1>2. Reset(r) = d
  BY DEF Reset
<1>3. a \in Responses /\ a.hdr = Nil
  BY DEF Responses, MaybeMap
<1>4. b \in Responses /\ b.hdr = Nil /\ b.body = Nil
  BY <1>3 DEF Responses
<1>5. c \in Responses /\ c.hdr = Nil /\ c.body = Nil /\ c.statusCode = 0
  BY <1>4 DEF Responses
<1>6. d \in Responses /\ d.hdr = Nil /\ d.body = Nil /\ d.statusCode = 0
      /\ d.info = [i \in Infos |-> Nil]
  BY <1>1, <1>5 DEF Responses
<1> QED
  BY <1>2, <1>6 DEF Clean

\* The invariant holds before the first response.
LEMMA InitInv == Init => IInv
<1> SUFFICES ASSUME Init PROVE IInv
  OBVIOUS
<1>1. Running = {}
  BY DEF Init, Running
<1>2. TypeOK
  BY <1>1, BoundsAssumption, NewIsClean DEF Init, TypeOK, Responses, MaybeMap
<1>3. Types
  BY <1>1, <1>2, NewIsClean DEF Init, Types
<1>4. Pool /\ Owned
  BY <1>1, NewIsClean DEF Init, Pool, Owned, Free
<1>5. Closed /\ ClientGetsWhatFiltersLeft
  BY DEF Init, Closed, ClientGetsWhatFiltersLeft
<1> QED
  BY <1>3, <1>4, <1>5 DEF IInv

\* A connection that runs filters has an object, and no other connection has it.
LEMMA OwnObject ==
  ASSUME IInv, NEW c \in Running
  PROVE  /\ c \in Conns /\ resp[c] \in Objects /\ resps[resp[c]] \in Responses
         /\ input[c] \in Inputs /\ meant[c] \in Meanings
         /\ Tracks(resps[resp[c]], input[c], meant[c])
  BY DEF IInv, Types, TypeOK, Running, Owned

\* A call of a filter that leaves the object as r and the history as m, where
\* r still says of the response what m says, keeps the invariant.
LEMMA FilterStep ==
  ASSUME IInv, NEW c \in Conns, NEW r \in Responses, NEW m \in Meanings,
         OnResponse(c, r), meant' = [meant EXCEPT ![c] = m],
         up' \in [Conns -> BOOLEAN], Tracks(r, input[c], m)
  PROVE  IInv'
<1>1. /\ c \in Running /\ Running' = Running /\ Free' = Free
      /\ pc' = pc /\ at' = at /\ input' = input /\ resp' = resp /\ result' = result
  BY DEF OnResponse, Running, Free
<1>2. resp[c] \in Objects /\ input[c] \in Inputs
  BY <1>1, OwnObject
<1>3. /\ resps' = [resps EXCEPT ![resp[c]] = r] /\ resps' \in [Objects -> Responses]
      /\ meant' \in [Conns -> Meanings \cup {Nil}]
  BY <1>2 DEF OnResponse, IInv, Types
<1>4. TypeOK'
  <2>1. ops' \in [Conns -> 0 .. MaxOps]
    BY BoundsAssumption DEF OnResponse, IInv, Types, TypeOK
  <2>2. \A o \in Objects : /\ (resps')[o].hdr \in Maps \cup {Nil}
                           /\ (resps')[o].statusCode \in Codes \cup {0}
                           /\ (resps')[o].body \in Bodies \cup {Nil}
    BY <1>3 DEF Responses, MaybeMap
  <2>3. calls' = calls
    BY DEF OnResponse
  <2> QED
    BY <1>1, <2>1, <2>2, <2>3 DEF IInv, Types, TypeOK
<1>5. Types'
  BY <1>1, <1>2, <1>3, <1>4 DEF IInv, Types
<1>6. Pool'
  <2>1. \A o \in Free : o # resp[c]
    BY DEF Free
  <2>2. \A o \in Free : (resps')[o] = resps[o]
    BY <1>3, <2>1 DEF IInv, Types, Free
  <2> QED
    BY <1>1, <2>2 DEF IInv, Pool
<1>7. Owned'
  <2> SUFFICES ASSUME NEW d \in Running
               PROVE  Tracks((resps')[resp[d]], input[d], (meant')[d])
    BY <1>1 DEF Owned
  <2>1. CASE d = c
    BY <1>2, <1>3, <2>1 DEF IInv, Types
  <2>2. CASE d # c
    <3>1. resp[d] # resp[c] /\ resp[d] \in Objects /\ d \in Conns
      BY <1>1, <2>2, OwnObject DEF IInv, Pool
    <3>2. (resps')[resp[d]] = resps[resp[d]] /\ (meant')[d] = meant[d]
      BY <1>3, <2>2, <3>1 DEF IInv, Types
    <3> QED
      BY <3>2, OwnObject
  <2> QED
    BY <2>1, <2>2
<1>8. Closed'
  BY <1>1 DEF IInv, Closed
<1>9. ClientGetsWhatFiltersLeft'
  <2>1. \A d \in Conns : d # c => (meant')[d] = meant[d]
    BY DEF IInv, Types
  <2>2. pc[c] = "filter"
    BY DEF OnResponse
  <2> QED
    BY <1>1, <2>1, <2>2 DEF IInv, ClientGetsWhatFiltersLeft
<1> QED
  BY <1>5, <1>6, <1>7, <1>8, <1>9 DEF IInv

\* The first use of the headers copies them: nothing is said that was not said.
LEMMA HeaderKeeps ==
  ASSUME NEW r \in Responses, NEW q \in Inputs, NEW m \in Meanings, Tracks(r, q, m)
  PROVE  /\ Header(r, q) \in Responses /\ Header(r, q).hdr # Nil
         /\ Tracks(Header(r, q), q, m)
<1>1. q.hdr \in Maps /\ q.hdr # Nil
  BY InputsAssumption, NilAssumption
<1>2. CASE r.hdr # Nil
  BY <1>2 DEF Header
<1>3. CASE r.hdr = Nil
  <2> DEFINE a == [r EXCEPT !.hdr = q.hdr]
             h == [a EXCEPT !.rawHdr = q.hdr]
  <2>1. Header(r, q) = h
    BY <1>3 DEF Header
  <2>2. a \in Responses /\ a.hdr = q.hdr /\ a.info = r.info
        /\ a.statusCode = r.statusCode /\ a.body = r.body
    BY <1>1 DEF Responses, MaybeMap
  <2>3. h \in Responses /\ h.hdr = q.hdr /\ h.rawHdr = q.hdr /\ h.info = r.info
        /\ h.statusCode = r.statusCode /\ h.body = r.body
    BY <1>1, <2>2 DEF Responses, MaybeMap
  <2>4. Tracks(h, q, m)
    BY <1>1, <1>3, <2>3 DEF Tracks
  <2> QED
    BY <1>1, <2>1, <2>3, <2>4
<1> QED
  BY <1>2, <1>3

\* Setting or deleting a header leaves it with at most one value, in the object
\* as in the history.
LEMMA EntryKeeps ==
  ASSUME NEW r \in Responses, NEW q \in Inputs, NEW m \in Meanings, Tracks(r, q, m),
         r.hdr # Nil, NEW n \in Names, NEW s \in Seq(Values), Len(s) <= 1
  PROVE  /\ [r EXCEPT !.hdr[n] = s] \in Responses /\ [m EXCEPT !.hdr[n] = s] \in Meanings
         /\ Tracks([r EXCEPT !.hdr[n] = s], q, [m EXCEPT !.hdr[n] = s])
<1> DEFINE new == [r.hdr EXCEPT ![n] = s]
           h == [r EXCEPT !.hdr = new]
           k == [m EXCEPT !.hdr = new]
<1>1. r.hdr \in Maps /\ m.hdr = r.hdr
  BY DEF Responses, MaybeMap, Tracks
<1>2. /\ new \in Maps /\ new # Nil /\ new[n] = s
      /\ \A x \in Names : x # n => new[x] = r.hdr[x]
  BY <1>1, NilAssumption DEF Maps
<1>3. h = [r EXCEPT !.hdr[n] = s] /\ k = [m EXCEPT !.hdr[n] = s]
  BY <1>1
<1>4. h \in Responses /\ h.hdr = new /\ h.rawHdr = r.rawHdr /\ h.info = r.info
      /\ h.statusCode = r.statusCode /\ h.body = r.body
  BY <1>2 DEF Responses, MaybeMap
<1>5. k \in Meanings /\ k.hdr = new /\ k.status = m.status /\ k.body = m.body
      /\ k.written = m.written /\ k.once = m.once
  BY <1>2 DEF Meanings
<1>6. \A x \in m.once : Len(new[x]) <= 1
  BY <1>1, <1>2 DEF Tracks, Meanings
<1>7. Tracks(h, q, k)
  <2> HIDE DEF new, h, k
  <2> QED
    BY <1>2, <1>4, <1>5, <1>6 DEF Tracks
<1> QED
  BY <1>3, <1>4, <1>5, <1>7

\* Filters that use the headers.
LEMMA HeaderSteps ==
  ASSUME IInv, NEW c \in Conns,
         \/ ReadHeader(c)
         \/ \E n \in Names, v \in Values : SetHeader(c, n, v)
         \/ \E n \in Names : DelHeader(c, n)
  PROVE  IInv'
<1> DEFINE o == resps[resp[c]]
           h == Header(o, input[c])
           m == meant[c]
<1>1. c \in Running
  BY DEF ReadHeader, SetHeader, DelHeader, OnResponse, Running
<1>2. /\ o \in Responses /\ input[c] \in Inputs /\ m \in Meanings
      /\ Tracks(o, input[c], m)
  BY <1>1, OwnObject
<1>3. h \in Responses /\ h.hdr # Nil /\ Tracks(h, input[c], m)
  BY <1>2, HeaderKeeps
<1>4. up \in [Conns -> BOOLEAN] /\ meant = [meant EXCEPT ![c] = m]
      /\ DOMAIN meant = Conns
  BY DEF IInv, Types, TypeOK
<1>5. CASE ReadHeader(c)
  <2>1. OnResponse(c, h) /\ meant' = [meant EXCEPT ![c] = m] /\ up' \in [Conns -> BOOLEAN]
    BY <1>4, <1>5 DEF ReadHeader
  <2> HIDE DEF h, m
  <2> QED
    BY <1>2, <1>3, <2>1, FilterStep
<1>6. ASSUME NEW n \in Names, NEW v \in Values, SetHeader(c, n, v) PROVE IInv'
  <2> DEFINE r == [h EXCEPT !.hdr[n] = <<v>>]
             k == [m EXCEPT !.hdr[n] = <<v>>]
  <2>1. <<v>> \in Seq(Values) /\ Len(<<v>>) <= 1
    OBVIOUS
  <2>2. r \in Responses /\ k \in Meanings /\ Tracks(r, input[c], k)
    BY <1>2, <1>3, <2>1, EntryKeeps
  <2>3. OnResponse(c, r) /\ meant' = [meant EXCEPT ![c] = k] /\ up' \in [Conns -> BOOLEAN]
    BY <1>4, <1>6 DEF SetHeader
  <2> HIDE DEF r, k
  <2> QED
    BY <2>2, <2>3, FilterStep
<1>7. ASSUME NEW n \in Names, DelHeader(c, n) PROVE IInv'
  <2> DEFINE r == [h EXCEPT !.hdr[n] = <<>>]
             k == [m EXCEPT !.hdr[n] = <<>>]
  <2>1. <<>> \in Seq(Values) /\ Len(<<>>) <= 1
    BY EmptySeq
  <2>2. r \in Responses /\ k \in Meanings /\ Tracks(r, input[c], k)
    BY <1>2, <1>3, <2>1, EntryKeeps
  <2>3. OnResponse(c, r) /\ meant' = [meant EXCEPT ![c] = k] /\ up' \in [Conns -> BOOLEAN]
    BY <1>4, <1>7 DEF DelHeader
  <2> HIDE DEF r, k
  <2> QED
    BY <2>2, <2>3, FilterStep
<1> QED
  BY <1>5, <1>6, <1>7

\* Only the first status counts.
LEMMA StatusStep ==
  ASSUME IInv, NEW c \in Conns, NEW s \in Codes, WriteHeader(c, s)
  PROVE  IInv'
<1> DEFINE o == resps[resp[c]]
           m == meant[c]
           code == IF o.statusCode # 0 THEN o.statusCode ELSE s
           r == [o EXCEPT !.statusCode = code]
           j == [m EXCEPT !.status = s]
           k == [j EXCEPT !.written = TRUE]
           l == IF m.written THEN m ELSE k
<1>1. c \in Running
  BY DEF WriteHeader, OnResponse, Running
<1>2. /\ o \in Responses /\ input[c] \in Inputs /\ m \in Meanings
      /\ Tracks(o, input[c], m)
  BY <1>1, OwnObject
<1>3. s # 0 /\ s \in Statuses
  BY CodesAssumption DEF Statuses
<1>4. r \in Responses /\ r.statusCode = code /\ r.hdr = o.hdr /\ r.rawHdr = o.rawHdr
      /\ r.body = o.body /\ r.info = o.info
  BY <1>2 DEF Responses
<1>5. j \in Meanings /\ j.status = s /\ j.hdr = m.hdr /\ j.body = m.body /\ j.once = m.once
  BY <1>2, <1>3 DEF Meanings
<1>6. k \in Meanings /\ k.status = s /\ k.written = TRUE /\ k.hdr = m.hdr
      /\ k.body = m.body /\ k.once = m.once
  BY <1>5 DEF Meanings
<1>7. l \in Meanings /\ Tracks(r, input[c], l)
  <2>1. CASE m.written
    BY <1>2, <1>4, <2>1 DEF Tracks
  <2>2. CASE ~m.written
    <3>1. o.statusCode = 0
      BY <1>2, <2>2 DEF Tracks
    <3>2. code = s /\ l = k
      BY <2>2, <3>1
    <3> HIDE DEF k, r, l, code
    <3> QED
      BY <1>2, <1>3, <1>4, <1>6, <3>1, <3>2 DEF Tracks
  <2> QED
    BY <2>1, <2>2
<1>8. up' \in [Conns -> BOOLEAN] /\ OnResponse(c, r)
  BY DEF WriteHeader, IInv, Types, TypeOK
<1>9. meant' = [meant EXCEPT ![c] = l]
  BY DEF WriteHeader, IInv, Types
<1> HIDE DEF r, l
<1> QED
  BY <1>4, <1>7, <1>8, <1>9, FilterStep

\* A body that is written replaces the upstream's, unless it is empty.
LEMMA BodyStep ==
  ASSUME IInv, NEW c \in Conns, NEW b \in Bodies, Write(c, b)
  PROVE  IInv'
<1> DEFINE o == resps[resp[c]]
           m == meant[c]
           r == [o EXCEPT !.body = b]
           l == IF b = Blank THEN m ELSE [m EXCEPT !.body = b]
<1>1. c \in Running /\ o.body = Nil
  BY DEF Write, OnResponse, Running
<1>2. /\ o \in Responses /\ input[c] \in Inputs /\ m \in Meanings
      /\ Tracks(o, input[c], m)
  BY <1>1, OwnObject
<1>3. b # Nil /\ b \in Contents
  BY NilAssumption DEF Contents
<1>4. r \in Responses /\ r.statusCode = o.statusCode /\ r.hdr = o.hdr /\ r.rawHdr = o.rawHdr
      /\ r.body = b /\ r.info = o.info
  BY <1>2 DEF Responses
<1>5. l \in Meanings /\ l.status = m.status /\ l.hdr = m.hdr /\ l.once = m.once
      /\ l.written = m.written /\ l.body = IF b = Blank THEN m.body ELSE b
  BY <1>2, <1>3 DEF Meanings
<1>6. Tracks(r, input[c], l)
  <2> HIDE DEF r, l
  <2> QED
    BY <1>1, <1>2, <1>3, <1>4, <1>5 DEF Tracks
<1>7. up' \in [Conns -> BOOLEAN] /\ OnResponse(c, r)
  BY DEF Write, IInv, Types, TypeOK
<1>8. meant' = [meant EXCEPT ![c] = l]
  BY DEF Write, IInv, Types
<1> HIDE DEF r, l
<1> QED
  BY <1>4, <1>5, <1>6, <1>7, <1>8, FilterStep

\* What APISIX answers about the response is the response's own.
LEMMA AskSteps ==
  ASSUME IInv, NEW c \in Conns, (\E i \in Infos : AskInfo(c, i)) \/ AskFails(c)
  PROVE  IInv'
<1> DEFINE o == resps[resp[c]]
           m == meant[c]
<1>1. c \in Running
  BY DEF AskInfo, AskFails, OnResponse, Running
<1>2. /\ o \in Responses /\ input[c] \in Inputs /\ m \in Meanings
      /\ Tracks(o, input[c], m)
  BY <1>1, OwnObject
<1>3. up \in [Conns -> BOOLEAN] /\ meant = [meant EXCEPT ![c] = m]
  BY DEF IInv, Types, TypeOK
<1>4. ASSUME NEW i \in Infos, AskInfo(c, i) PROVE IInv'
  <2> DEFINE x == IF o.info[i] = Nil THEN input[c].info[i] ELSE o.info[i]
             r == [o EXCEPT !.info[i] = x]
  <2>1. input[c].info[i] \in Facts /\ o.info \in [Infos -> Facts]
    BY <1>2 DEF Facts, Responses
  <2>2. [o.info EXCEPT ![i] = x] \in [Infos -> Facts]
    BY <2>1
  <2>3. /\ r \in Responses /\ r.statusCode = o.statusCode /\ r.hdr = o.hdr
        /\ r.rawHdr = o.rawHdr /\ r.body = o.body
        /\ r.info = [o.info EXCEPT ![i] = x]
    BY <1>2, <2>2 DEF Responses
  <2>4. \A j \in Infos : r.info[j] \in {Nil, input[c].info[j]}
    BY <1>2, <2>1, <2>3 DEF Tracks
  <2>5. Tracks(r, input[c], m)
    <3> HIDE DEF r
    <3> QED
      BY <1>2, <2>3, <2>4 DEF Tracks
  <2>6. OnResponse(c, r) /\ meant' = [meant EXCEPT ![c] = m] /\ up' \in [Conns -> BOOLEAN]
    BY <1>3, <1>4 DEF AskInfo
  <2> HIDE DEF r, m
  <2> QED
    BY <1>2, <2>3, <2>5, <2>6, FilterStep
<1>5. CASE AskFails(c)
  <2>1. OnResponse(c, o) /\ meant' = [meant EXCEPT ![c] = m] /\ up' \in [Conns -> BOOLEAN]
    BY <1>3, <1>5 DEF AskFails
  <2> HIDE DEF o, m
  <2> QED
    BY <1>2, <2>1, FilterStep
<1> QED
  BY <1>4, <1>5

\* The deferred ReuseResponse: the object goes back clean, and the outcome is an
\* error on a closed connection, or what the filters left.
LEMMA ReuseStep ==
  ASSUME IInv, NEW c \in Running, NEW next, NEW outcome, Reuse(c, next, outcome),
         up' \in [Conns -> BOOLEAN], UNCHANGED <<meant, calls>>,
         \/ next = "closed" /\ outcome = [kind |-> "error"]
         \/ /\ next = "idle"
            /\ outcome = [kind |-> "client", response |-> Rewritten(resps[resp[c]], input[c])]
  PROVE  IInv'
<1> DEFINE o == resp[c]
           q == input[c]
           m == meant[c]
<1>1. /\ c \in Conns /\ o \in Objects /\ resps[o] \in Responses /\ q \in Inputs /\ m \in Meanings
      /\ Tracks(resps[o], q, m)
  BY OwnObject
<1>2. next \in {"idle", "closed"} /\ o # Nil
  BY <1>1, NilAssumption
<1>3. /\ pc' = [pc EXCEPT ![c] = next] /\ at' = [at EXCEPT ![c] = 0]
      /\ input' = [input EXCEPT ![c] = Nil] /\ resp' = [resp EXCEPT ![c] = Nil]
      /\ ops' = [ops EXCEPT ![c] = 0] /\ result' = [result EXCEPT ![c] = outcome]
      /\ resps' = [resps EXCEPT ![o] = Reset(resps[o])]
      /\ meant' = meant /\ calls' = calls
  BY <1>1 DEF Reuse, IInv, Types
<1>4. /\ DOMAIN pc = Conns /\ DOMAIN at = Conns /\ DOMAIN input = Conns /\ DOMAIN resp = Conns
      /\ DOMAIN ops = Conns /\ DOMAIN result = Conns /\ DOMAIN resps = Objects
  BY DEF IInv, Types, TypeOK
<1>5. Running' = Running \ {c}
  BY <1>1, <1>2, <1>3, <1>4 DEF Running
<1>6. \A d \in Conns : d # c =>
        /\ (pc')[d] = pc[d] /\ (at')[d] = at[d] /\ (input')[d] = input[d]
        /\ (resp')[d] = resp[d] /\ (ops')[d] = ops[d] /\ (result')[d] = result[d]
  BY <1>3, <1>4
<1>7. /\ (pc')[c] = next /\ (resp')[c] = Nil /\ (result')[c] = outcome
  BY <1>1, <1>3, <1>4
<1>8. resps' \in [Objects -> Responses] /\ Clean((resps')[o])
      /\ \A p \in Objects : p # o => (resps')[p] = resps[p]
  BY <1>1, <1>3, ResetIsClean DEF IInv, Types
<1>9. TypeOK'
  <2>1. /\ pc' \in [Conns -> {"idle", "filter", "end", "closed"}]
        /\ at' \in [Conns -> 0 .. ChainLen + 1]
        /\ input' \in [Conns -> Inputs \cup {Nil}]
        /\ resp' \in [Conns -> Objects \cup {Nil}]
        /\ ops' \in [Conns -> 0 .. MaxOps]
    BY <1>1, <1>2, <1>3, BoundsAssumption DEF IInv, Types, TypeOK
  <2>2. \A d \in Conns : (d \in Running') = ((resp')[d] # Nil)
    BY <1>1, <1>5, <1>6, <1>7 DEF IInv, Types, TypeOK
  <2>3. \A p \in Objects : /\ (resps')[p].hdr \in Maps \cup {Nil}
                           /\ (resps')[p].statusCode \in Codes \cup {0}
                           /\ (resps')[p].body \in Bodies \cup {Nil}
    BY <1>8 DEF Responses, MaybeMap
  <2> QED
    BY <1>3, <2>1, <2>2, <2>3 DEF IInv, Types, TypeOK
<1>10. Types'
  <2>1. DOMAIN result' = Conns
    BY <1>3, <1>4
  <2>2. \A d \in Running' : (input')[d] \in Inputs /\ (meant')[d] \in Meanings
    BY <1>3, <1>5, <1>6 DEF IInv, Types, Running
  <2>3. \A d \in Conns : (pc')[d] = "filter" => (at')[d] \in 1 .. ChainLen
    BY <1>2, <1>6, <1>7 DEF IInv, Types
  <2> QED
    BY <1>3, <1>8, <1>9, <2>1, <2>2, <2>3 DEF IInv, Types
<1>11. Pool'
  <2>1. \A d, e \in Running' : d # e => (resp')[d] # (resp')[e]
    BY <1>5, <1>6 DEF IInv, Pool, Running
  <2>2. \A p \in Objects : p # o /\ p \in Free' => p \in Free
    BY <1>6, <1>1 DEF Free
  <2>3. \A p \in Free' : Clean((resps')[p])
    <3> TAKE p \in Free'
    <3>1. p \in Objects
      BY DEF Free
    <3> QED
      BY <1>8, <2>2, <3>1 DEF IInv, Pool
  <2> QED
    BY <2>1, <2>3 DEF Pool
<1>12. Owned'
  <2> SUFFICES ASSUME NEW d \in Running \ {c}
               PROVE  Tracks((resps')[(resp')[d]], (input')[d], (meant')[d])
    BY <1>5 DEF Owned
  <2>1. d \in Conns /\ d # c /\ resp[d] # o /\ resp[d] \in Objects
    BY OwnObject DEF IInv, Pool
  <2>2. (resps')[(resp')[d]] = resps[resp[d]] /\ (input')[d] = input[d]
    BY <1>6, <1>8, <2>1
  <2> QED
    BY <1>3, <2>2, OwnObject
<1>13. Closed'
  BY <1>6, <1>7 DEF IInv, Closed
<1>14. ClientGetsWhatFiltersLeft'
  <2> DEFINE got == Rewritten(resps[o], q)
  <2>1. /\ got.status = m.status /\ got.body = m.body
        /\ \A n \in m.once : got.hdr[n] = m.hdr[n]
    <3>1. got.status = m.status /\ got.body = m.body
      BY <1>1 DEF Rewritten, Tracks
    <3>2. CASE resps[o].hdr = Nil
      BY <1>1, <3>2 DEF Rewritten, Tracks
    <3>3. CASE resps[o].hdr # Nil
      <4>1. resps[o].hdr \in Maps /\ q.hdr \in Maps /\ m.once \subseteq Names
        BY <1>1, <3>3, InputsAssumption DEF Responses, MaybeMap, Meanings
      <4>2. got.hdr = Apply(q.hdr, HeaderChanges(q.hdr, resps[o].hdr)) /\ m.hdr = resps[o].hdr
        BY <1>1, <3>3 DEF Rewritten, Tracks
      <4>3. \A n \in m.once : Len(q.hdr[n]) <= 1 /\ Len(resps[o].hdr[n]) <= 1
        BY <1>1, <4>2 DEF Tracks
      <4> QED
        BY <3>1, <4>1, <4>2, <4>3, SingleHeaderArrives
    <3> QED
      BY <3>1, <3>2, <3>3
  <2>2. (pc')[c] = "idle" => outcome.response = got
    BY <1>7
  <2> HIDE DEF got
  <2> SUFFICES ASSUME NEW d \in Conns, (result')[d] # Nil, (pc')[d] = "idle",
                      (result')[d].kind = "client"
               PROVE  LET g == (result')[d].response IN
                      /\ g.status = (meant')[d].status /\ g.body = (meant')[d].body
                      /\ \A n \in (meant')[d].once : g.hdr[n] = (meant')[d].hdr[n]
    BY DEF ClientGetsWhatFiltersLeft
  <2>3. CASE d = c
    BY <1>3, <1>7, <2>1, <2>2, <2>3
  <2>4. CASE d # c
    BY <1>3, <1>6, <2>4 DEF IInv, ClientGetsWhatFiltersLeft
  <2> QED
    BY <2>3, <2>4
<1> QED
  BY <1>10, <1>11, <1>12, <1>13, <1>14 DEF IInv

\* A response takes a clean object of the pool.
LEMMA CallStep ==
  ASSUME IInv, NEW c \in Conns, Call(c)
  PROVE  IInv'
<1>1. PICK q \in Inputs :
        /\ input' = [input EXCEPT ![c] = q]
        /\ meant' = [meant EXCEPT ![c] =
             [status |-> q.status, hdr |-> q.hdr, body |-> q.info["body"], written |-> FALSE,
              once |-> {n \in Names : Len(q.hdr[n]) <= 1}]]
  BY DEF Call
<1>2. PICK o \in Free : resp' = [resp EXCEPT ![c] = o]
  BY DEF Call
<1> DEFINE m == [status |-> q.status, hdr |-> q.hdr, body |-> q.info["body"], written |-> FALSE,
                 once |-> {n \in Names : Len(q.hdr[n]) <= 1}]
<1>3. /\ o \in Objects /\ o # Nil /\ Clean(resps[o]) /\ resps[o] \in Responses
      /\ \A d \in Conns : resp[d] # o
  BY <1>2, NilAssumption DEF Free, IInv, Pool, Types
<1>4. m \in Meanings
  BY InputsAssumption DEF Meanings, Statuses, Contents
<1>5. Tracks(resps[o], q, m)
  BY <1>3 DEF Clean, Tracks
<1> HIDE DEF m
<1>6. /\ pc[c] = "idle" /\ pc' = [pc EXCEPT ![c] = "filter"] /\ at' = [at EXCEPT ![c] = 1]
      /\ result' = [result EXCEPT ![c] = Nil] /\ resps' = resps /\ up' = up /\ ops' = ops
      /\ calls < MaxCalls /\ calls' = calls + 1 /\ meant' = [meant EXCEPT ![c] = m]
  BY <1>1 DEF Call, m
<1>7. /\ DOMAIN pc = Conns /\ DOMAIN at = Conns /\ DOMAIN input = Conns /\ DOMAIN resp = Conns
      /\ DOMAIN result = Conns /\ DOMAIN meant = Conns
  BY DEF IInv, Types, TypeOK
<1>8. \A d \in Conns : d # c =>
        /\ (pc')[d] = pc[d] /\ (at')[d] = at[d] /\ (input')[d] = input[d]
        /\ (resp')[d] = resp[d] /\ (result')[d] = result[d] /\ (meant')[d] = meant[d]
  BY <1>1, <1>2, <1>6, <1>7
<1>9. /\ (pc')[c] = "filter" /\ (at')[c] = 1 /\ (input')[c] = q /\ (resp')[c] = o
      /\ (result')[c] = Nil /\ (meant')[c] = m
  BY <1>1, <1>2, <1>6, <1>7
<1>10. Running' = Running \cup {c} /\ c \notin Running
  BY <1>6, <1>8, <1>9 DEF Running
<1>11. TypeOK'
  <2>1. /\ pc' \in [Conns -> {"idle", "filter", "end", "closed"}]
        /\ at' \in [Conns -> 0 .. ChainLen + 1]
        /\ input' \in [Conns -> Inputs \cup {Nil}]
        /\ resp' \in [Conns -> Objects \cup {Nil}]
        /\ calls' \in 0 .. MaxCalls
    BY <1>1, <1>2, <1>3, <1>6, BoundsAssumption DEF IInv, Types, TypeOK
  <2>2. \A d \in Conns : (d \in Running') = ((resp')[d] # Nil)
    BY <1>3, <1>8, <1>9, <1>10 DEF IInv, Types, TypeOK
  <2> QED
    BY <1>6, <2>1, <2>2 DEF IInv, Types, TypeOK
<1>12. Types'
  <2>1. meant' \in [Conns -> Meanings \cup {Nil}] /\ DOMAIN result' = Conns
    BY <1>4, <1>6 DEF IInv, Types
  <2>2. \A d \in Running' : (input')[d] \in Inputs /\ (meant')[d] \in Meanings
    BY <1>4, <1>8, <1>9, <1>10 DEF IInv, Types, Running
  <2>3. \A d \in Conns : (pc')[d] = "filter" => (at')[d] \in 1 .. ChainLen
    BY <1>8, <1>9, BoundsAssumption DEF IInv, Types
  <2> QED
    BY <1>6, <1>11, <2>1, <2>2, <2>3 DEF IInv, Types
<1>13. Pool'
  <2>1. \A d, e \in Running' : d # e => (resp')[d] # (resp')[e]
    BY <1>3, <1>8, <1>9, <1>10 DEF IInv, Pool, Running
  <2>2. \A d \in Conns : d # c => (resp')[d] = resp[d]
    BY <1>8
  <2>3. resp[c] = Nil
    BY <1>10 DEF IInv, Types, TypeOK
  <2>4. Free' \subseteq Free
    BY <2>2, <2>3, NilAssumption DEF Free
  <2> QED
    BY <1>6, <2>1, <2>4 DEF IInv, Pool
<1>14. Owned'
  <2>1. \A d \in Running : (resp')[d] = resp[d] /\ (input')[d] = input[d] /\ (meant')[d] = meant[d]
    BY <1>8, <1>10 DEF Running
  <2> QED
    BY <1>5, <1>6, <1>9, <1>10, <2>1 DEF IInv, Owned
<1>15. Closed' /\ ClientGetsWhatFiltersLeft'
  BY <1>8, <1>9 DEF IInv, Closed, ClientGetsWhatFiltersLeft
<1> QED
  BY <1>12, <1>13, <1>14, <1>15 DEF IInv

\* A token that is not found: an object of the pool is taken and put back.
LEMMA NotFoundStep ==
  ASSUME IInv, NEW c \in Conns, NotFound(c)
  PROVE  IInv'
<1>1. PICK o \in Free : resps' = [resps EXCEPT ![o] = Reset(@)]
  BY DEF NotFound
<1>2. /\ pc' = pc /\ at' = at /\ input' = input /\ resp' = resp /\ up' = up /\ ops' = ops
      /\ pc[c] = "idle" /\ calls < MaxCalls /\ calls' = calls + 1
      /\ result' = [result EXCEPT ![c] = [kind |-> "error"]]
      /\ meant' = [meant EXCEPT ![c] = Nil]
  BY DEF NotFound
<1>3. Running' = Running /\ Free' = Free /\ c \notin Running
  BY <1>2 DEF Running, Free
<1>4. o \in Objects /\ \A d \in Running : resp[d] # o
  BY <1>1 DEF Free, Running
<1>5. /\ resps' \in [Objects -> Responses] /\ Clean((resps')[o])
      /\ \A p \in Objects : p # o => (resps')[p] = resps[p]
  BY <1>1, <1>4, ResetIsClean DEF IInv, Types
<1>6. /\ DOMAIN result' = Conns /\ meant' \in [Conns -> Meanings \cup {Nil}]
      /\ \A d \in Conns : d # c => (result')[d] = result[d] /\ (meant')[d] = meant[d]
      /\ (result')[c] = [kind |-> "error"]
  BY <1>2 DEF IInv, Types
<1>7. TypeOK'
  <2>1. calls' \in 0 .. MaxCalls
    BY <1>2, BoundsAssumption DEF IInv, Types, TypeOK
  <2>2. \A p \in Objects : /\ (resps')[p].hdr \in Maps \cup {Nil}
                           /\ (resps')[p].statusCode \in Codes \cup {0}
                           /\ (resps')[p].body \in Bodies \cup {Nil}
    BY <1>5 DEF Responses, MaybeMap
  <2> QED
    BY <1>2, <1>3, <2>1, <2>2 DEF IInv, Types, TypeOK
<1>8. Types'
  <2>1. \A d \in Running' : (input')[d] \in Inputs /\ (meant')[d] \in Meanings
    BY <1>2, <1>3, <1>6 DEF IInv, Types, Running
  <2> QED
    BY <1>2, <1>5, <1>6, <1>7, <2>1 DEF IInv, Types
<1>9. Pool'
  <2>1. \A p \in Free : Clean((resps')[p])
    BY <1>5 DEF IInv, Pool, Free
  <2> QED
    BY <1>2, <1>3, <2>1 DEF IInv, Pool
<1>10. Owned'
  <2>1. \A d \in Running : (resps')[resp[d]] = resps[resp[d]] /\ (meant')[d] = meant[d]
    BY <1>3, <1>4, <1>5, <1>6, OwnObject
  <2> QED
    BY <1>2, <1>3, <2>1 DEF IInv, Owned
<1>11. Closed' /\ ClientGetsWhatFiltersLeft'
  BY <1>2, <1>6 DEF IInv, Closed, ClientGetsWhatFiltersLeft
<1> QED
  BY <1>8, <1>9, <1>10, <1>11 DEF IInv

\* A filter that returns changes nothing but the place in the chain.
LEMMA ReturnStep ==
  ASSUME IInv, NEW c \in Conns, Return(c)
  PROVE  IInv'
<1>1. /\ pc[c] = "filter" /\ c \in Running /\ at[c] \in 1 .. ChainLen
      /\ input' = input /\ resp' = resp /\ resps' = resps /\ up' = up /\ result' = result
      /\ meant' = meant /\ ops' = ops /\ calls' = calls
  BY DEF Return, IInv, Types, Running
<1>2. /\ (pc')[c] \in {"filter", "end"} /\ (at')[c] = at[c] + 1
      /\ (pc')[c] = "filter" => at[c] # ChainLen
      /\ \A d \in Conns : d # c => (pc')[d] = pc[d] /\ (at')[d] = at[d]
  BY <1>1 DEF Return, IInv, Types, TypeOK
<1>3. Running' = Running /\ Free' = Free
  BY <1>1, <1>2 DEF Running, Free
<1>4. TypeOK'
  <2>1. pc' \in [Conns -> {"idle", "filter", "end", "closed"}]
    BY <1>1 DEF Return, IInv, Types, TypeOK
  <2>2. at' \in [Conns -> 0 .. ChainLen + 1]
    BY <1>1, BoundsAssumption DEF Return, IInv, Types, TypeOK
  <2> QED
    BY <1>1, <1>3, <2>1, <2>2 DEF IInv, Types, TypeOK
<1>5. Types'
  <2>1. \A d \in Conns : (pc')[d] = "filter" => (at')[d] \in 1 .. ChainLen
    BY <1>1, <1>2, BoundsAssumption DEF IInv, Types
  <2> QED
    BY <1>1, <1>3, <1>4, <2>1 DEF IInv, Types
<1>6. Pool' /\ Owned'
  BY <1>1, <1>3 DEF IInv, Pool, Owned
<1>7. Closed' /\ ClientGetsWhatFiltersLeft'
  BY <1>1, <1>2 DEF IInv, Closed, ClientGetsWhatFiltersLeft
<1> QED
  BY <1>5, <1>6, <1>7 DEF IInv

\* A connection that is made again starts with no object.
LEMMA ConnectStep ==
  ASSUME IInv, NEW c \in Conns, Connect(c)
  PROVE  IInv'
<1>1. /\ pc[c] = "closed" /\ result[c] = [kind |-> "error"]
      /\ at' = at /\ input' = input /\ resp' = resp /\ resps' = resps /\ result' = result
      /\ meant' = meant /\ ops' = ops /\ calls' = calls
  BY DEF Connect, IInv, Closed
<1>2. (pc')[c] = "idle" /\ \A d \in Conns : d # c => (pc')[d] = pc[d]
  BY DEF Connect, IInv, Types, TypeOK
<1>3. Running' = Running /\ Free' = Free
  BY <1>1, <1>2 DEF Running, Free
<1>4. TypeOK'
  BY <1>1, <1>3 DEF Connect, IInv, Types, TypeOK
<1>5. Types'
  BY <1>1, <1>2, <1>3, <1>4 DEF IInv, Types
<1>6. Pool' /\ Owned'
  BY <1>1, <1>3 DEF IInv, Pool, Owned
<1>7. Closed' /\ ClientGetsWhatFiltersLeft'
  BY <1>1, <1>2 DEF IInv, Closed, ClientGetsWhatFiltersLeft
<1> QED
  BY <1>5, <1>6, <1>7 DEF IInv

\* The invariant is inductive.
LEMMA NextInv == IInv /\ [Next]_vars => IInv'
<1> SUFFICES ASSUME IInv, [Next]_vars PROVE IInv'
  OBVIOUS
<1>1. ASSUME NEW c \in Conns, Filter(c) PROVE IInv'
  BY <1>1, HeaderSteps, StatusStep, BodyStep, AskSteps DEF Filter
<1>2. ASSUME NEW c \in Conns, Reply(c) PROVE IInv'
  <2>1. c \in Running /\ up' \in [Conns -> BOOLEAN] /\ UNCHANGED <<meant, calls>>
    BY <1>2 DEF Reply, Running, IInv, Types, TypeOK
  <2>2. \/ Reuse(c, "idle", [kind |-> "client", response |-> Rewritten(resps[resp[c]], input[c])])
        \/ Reuse(c, "closed", [kind |-> "error"])
    BY <1>2 DEF Reply
  <2> QED
    BY <2>1, <2>2, ReuseStep
<1>3. ASSUME NEW c \in Conns, Panic(c) PROVE IInv'
  <2>1. /\ c \in Running /\ up' \in [Conns -> BOOLEAN] /\ UNCHANGED <<meant, calls>>
        /\ Reuse(c, "closed", [kind |-> "error"])
    BY <1>3 DEF Panic, Running, IInv, Types, TypeOK
  <2> QED
    BY <2>1, ReuseStep
<1>4. CASE UNCHANGED vars
  BY <1>4 DEF vars, IInv, Types, TypeOK, Pool, Owned, Closed, ClientGetsWhatFiltersLeft,
              Running, Free
<1> QED
  BY <1>1, <1>2, <1>3, <1>4, CallStep, NotFoundStep, ReturnStep, ConnectStep DEF Next

\* The invariant always holds.
LEMMA Inductive == Spec => []IInv
  BY InitInv, NextInv, PTL DEF Spec

-----------------------------------------------------------------------------
(* Theorems *)

\* Goroutines have an object of the pool exactly while they run filters, and all
\* that HTTPRespCall keeps is of its type (plugin.go responsePhase).
THEOREM TypeCorrect == Spec => []TypeOK
<1>1. IInv => TypeOK
  BY DEF IInv, Types
<1> QED
  BY <1>1, Inductive, PTL

\* Whatever the other connections do with the shared pool, a filter reads the
\* body and the variables of its own response (response.go 280).
THEOREM OwnResponse == Spec => []SeesOwnResponse
<1>1. IInv => SeesOwnResponse
  BY DEF IInv, Owned, Tracks, SeesOwnResponse
<1> QED
  BY <1>1, Inductive, PTL

\* What FetchChanges sends makes, of the upstream's response, the one the
\* filters left.
THEOREM ClientServed == Spec => []ClientGetsWhatFiltersLeft
<1>1. IInv => ClientGetsWhatFiltersLeft
  BY DEF IInv
<1> QED
  BY <1>1, Inductive, PTL
=============================================================================
