---------------------------- MODULE RouteProofs ----------------------------
(***************************************************************************)
(* Proofs about the gateway's routes, for any requests, kinds of routes,   *)
(* networks and configurations, in three parts.  jwt-auth: what the        *)
(* gateway does to the plugin's state is what JwtAuth says, a request      *)
(* verifies with the key of its own route, and the map is safe once every  *)
(* key in use has its middleware.  Charges: a request is charged to its    *)
(* own user, and as what its own route's parser made of it.  Answers: what *)
(* the Lua plugins send is the request's own.                              *)
(***************************************************************************)
EXTENDS Route, SequenceTheorems, TLAPS

-----------------------------------------------------------------------------
(* jwt-auth *)

\* Two requests have found no map.
NotAlone == \E p, q \in cold : p # q

\* A middleware made for key k by a request of some route with that key.
MadeFor(e, k) == e.key = k /\ \E c \in Confs : c.key = k /\ c.lookup = e.lookup

\* What a request knows where it is: its route has a lookup and, past the map, a
\* key; there is a map then; and one that assigns has a middleware to assign.
Phases ==
  \A r \in Requests :
    /\ Jwt!InFilter(r) => conf[r].lookup # Nil
    /\ jpc[r] \in {"lookup", "new", "store", "storing", "fetch"} => map # Nil
    /\ jpc[r] \in {"lookup", "new", "store", "storing", "fetch", "verify", "passed"} =>
         conf[r].key # Nil
    /\ jpc[r] \in {"store", "storing"} => mine[r] # Nil
    /\ jpc[r] = "storing" => target[r] # Nil

\* Every middleware, in a map or in hand, was made for the key it stands for.
Owned ==
  /\ \A m \in 1 .. MaxMaps, k \in Jwt!Keys : mids[m][k] # Nil => MadeFor(mids[m][k], k)
  /\ \A r \in Requests : mine[r] # Nil => MadeFor(mine[r], conf[r].key)

\* The plugin's map is the last one made.  A map is made by a request that found
\* none, and by each such request once: with a second map there are two.
Makers ==
  /\ map = IF made = 0 THEN Nil ELSE made
  /\ \A r \in Requests : jpc[r] = "make" => r \in cold
  /\ made > 0 => \E p \in cold : jpc[p] \notin {"idle", "check", "make"}
  /\ made > 1 => NotAlone

\* A request is left without its middleware only if there are two.
Lost ==
  \A r \in Requests :
    /\ jpc[r] = "fetch" => Jwt!Entry(r) # Nil \/ NotAlone
    /\ jpc[r] = "verify" => mine[r] # Nil \/ NotAlone

JwtInv == Jwt!TypeOK /\ Phases /\ Owned /\ Makers /\ Lost

\* Nil is neither a map nor a middleware.
LEMMA JwtNil == Nil \notin Nat \cup Jwt!Middlewares
  BY NilAssumption DEF Middlewares, Keys, Lookups, Jwt!Middlewares, Jwt!Keys, Jwt!Lookups

\* The invariant holds before the first request.
LEMMA JwtInit == Jwt!Init => JwtInv
<1> SUFFICES ASSUME Jwt!Init PROVE JwtInv
  OBVIOUS
<1>1. Jwt!TypeOK
  BY MapsAssumption DEF Jwt!Init, Jwt!TypeOK, Jwt!Empty
<1>2. Phases
  BY DEF Jwt!Init, Phases, Jwt!InFilter
<1>3. Owned
  BY DEF Jwt!Init, Owned, Jwt!Empty
<1>4. Makers
  BY DEF Jwt!Init, Makers
<1>5. Lost
  BY DEF Jwt!Init, Lost
<1> QED
  BY <1>1, <1>2, <1>3, <1>4, <1>5 DEF JwtInv

\* Steps that only move a request keep the invariant.
LEMMA MoveInv ==
  ASSUME JwtInv, NEW r \in Requests,
         Jwt!Start(r) \/ Jwt!Lookup(r) \/ Jwt!Panic(r) \/ Jwt!Reject(r) \/ Jwt!Pass(r)
  PROVE  JwtInv'
<1> USE MapsAssumption, JwtNil
    DEF Jwt!Start, Jwt!Lookup, Jwt!Panic, Jwt!Reject, Jwt!Pass, Jwt!Goto
<1>0. UNCHANGED <<conf, map, mids, made, mine, target, cold>>
  OBVIOUS
<1>1. Jwt!TypeOK'
  BY <1>0 DEF JwtInv, Jwt!TypeOK
<1>2. Phases'
  BY <1>0 DEF JwtInv, Jwt!TypeOK, Phases, Jwt!InFilter
<1>3. Owned'
  BY <1>0 DEF JwtInv, Owned, MadeFor
<1>4. Makers'
  BY <1>0 DEF JwtInv, Jwt!TypeOK, Makers, NotAlone
<1>5. Lost'
  BY <1>0 DEF JwtInv, Jwt!TypeOK, Phases, Lost, NotAlone, Jwt!Entry
<1> QED
  BY <1>1, <1>2, <1>3, <1>4, <1>5 DEF JwtInv

\* Check keeps the invariant.
LEMMA CheckInv == ASSUME JwtInv, NEW r \in Requests, Jwt!Check(r) PROVE JwtInv'
<1> USE MapsAssumption, JwtNil
<1>1. Jwt!TypeOK'
  BY DEF JwtInv, Jwt!TypeOK, Phases, Jwt!InFilter, Makers, Jwt!Entry, Jwt!Middlewares, Jwt!Keys, Jwt!Lookups, Jwt!Check, Jwt!Goto, Jwt!Keyed
<1>2. Phases'
  BY DEF JwtInv, Jwt!TypeOK, Phases, Jwt!InFilter, Makers, Jwt!Middlewares, Jwt!Keys, Jwt!Lookups, Jwt!Check, Jwt!Goto, Jwt!Keyed
<1>3. Owned'
  BY DEF JwtInv, Jwt!TypeOK, Phases, Jwt!InFilter, Owned, Makers, MadeFor, Jwt!Entry, Jwt!Keys, Jwt!Check, Jwt!Goto, Jwt!Keyed
<1>4. Makers'
  BY DEF JwtInv, Jwt!TypeOK, Phases, Makers, NotAlone, Jwt!Check, Jwt!Goto, Jwt!Keyed
<1>5. Lost'
  BY DEF JwtInv, Jwt!TypeOK, Phases, Makers, Lost, NotAlone, Jwt!Entry, Jwt!Keys, Jwt!Check, Jwt!Goto, Jwt!Keyed
<1> QED
  BY <1>1, <1>2, <1>3, <1>4, <1>5 DEF JwtInv

\* Make keeps the invariant.
LEMMA MakeInv == ASSUME JwtInv, NEW r \in Requests, Jwt!Make(r) PROVE JwtInv'
<1> USE MapsAssumption, JwtNil
<1>1. Jwt!TypeOK'
  <2>1. made' \in 0 .. MaxMaps /\ map' \in 1 .. made'
    BY DEF JwtInv, Jwt!TypeOK, Jwt!Make
  <2>2. target' \in [Requests -> 1 .. made' \cup {Nil}]
    BY <2>1 DEF JwtInv, Jwt!TypeOK, Jwt!Make
  <2> QED
    BY <2>1, <2>2 DEF JwtInv, Jwt!TypeOK, Jwt!Make, Jwt!Goto, Jwt!Keyed
<1>2. Phases'
  BY DEF JwtInv, Jwt!TypeOK, Phases, Jwt!InFilter, Makers, Jwt!Middlewares, Jwt!Keys, Jwt!Lookups, Jwt!Make, Jwt!Goto, Jwt!Keyed
<1>3. Owned'
  BY DEF JwtInv, Jwt!TypeOK, Phases, Jwt!InFilter, Owned, Makers, MadeFor, Jwt!Entry, Jwt!Keys, Jwt!Make, Jwt!Goto, Jwt!Keyed
<1>4. Makers'
  BY DEF JwtInv, Jwt!TypeOK, Phases, Makers, NotAlone, Jwt!Make, Jwt!Goto, Jwt!Keyed
<1>5. Lost'
  BY DEF JwtInv, Jwt!TypeOK, Phases, Makers, Lost, NotAlone, Jwt!Entry, Jwt!Keys, Jwt!Make, Jwt!Goto, Jwt!Keyed
<1> QED
  BY <1>1, <1>2, <1>3, <1>4, <1>5 DEF JwtInv

\* New keeps the invariant.
LEMMA NewInv == ASSUME JwtInv, NEW r \in Requests, Jwt!New(r) PROVE JwtInv'
<1> USE MapsAssumption, JwtNil
<1>1. Jwt!TypeOK'
  BY DEF JwtInv, Jwt!TypeOK, Phases, Jwt!InFilter, Makers, Jwt!Entry, Jwt!Middlewares, Jwt!Keys, Jwt!Lookups, Jwt!New, Jwt!Goto
<1>2. Phases'
  BY DEF JwtInv, Jwt!TypeOK, Phases, Jwt!InFilter, Makers, Jwt!Middlewares, Jwt!Keys, Jwt!Lookups, Jwt!New, Jwt!Goto
<1>3. Owned'
  BY DEF JwtInv, Jwt!TypeOK, Phases, Jwt!InFilter, Owned, Makers, MadeFor, Jwt!Entry, Jwt!Keys, Jwt!New, Jwt!Goto
<1>4. Makers'
  BY DEF JwtInv, Jwt!TypeOK, Phases, Makers, NotAlone, Jwt!New, Jwt!Goto
<1>5. Lost'
  BY DEF JwtInv, Jwt!TypeOK, Phases, Makers, Lost, NotAlone, Jwt!Entry, Jwt!Keys, Jwt!New, Jwt!Goto
<1> QED
  BY <1>1, <1>2, <1>3, <1>4, <1>5 DEF JwtInv

\* BeginStore keeps the invariant.
LEMMA BeginStoreInv == ASSUME JwtInv, NEW r \in Requests, Jwt!BeginStore(r) PROVE JwtInv'
<1> USE MapsAssumption, JwtNil
<1>1. Jwt!TypeOK'
  BY DEF JwtInv, Jwt!TypeOK, Phases, Jwt!InFilter, Makers, Jwt!Entry, Jwt!Middlewares, Jwt!Keys, Jwt!Lookups, Jwt!BeginStore, Jwt!Goto
<1>2. Phases'
  BY DEF JwtInv, Jwt!TypeOK, Phases, Jwt!InFilter, Makers, Jwt!Middlewares, Jwt!Keys, Jwt!Lookups, Jwt!BeginStore, Jwt!Goto
<1>3. Owned'
  BY DEF JwtInv, Jwt!TypeOK, Phases, Jwt!InFilter, Owned, Makers, MadeFor, Jwt!Entry, Jwt!Keys, Jwt!BeginStore, Jwt!Goto
<1>4. Makers'
  BY DEF JwtInv, Jwt!TypeOK, Phases, Makers, NotAlone, Jwt!BeginStore, Jwt!Goto
<1>5. Lost'
  BY DEF JwtInv, Jwt!TypeOK, Phases, Makers, Lost, NotAlone, Jwt!Entry, Jwt!Keys, Jwt!BeginStore, Jwt!Goto
<1> QED
  BY <1>1, <1>2, <1>3, <1>4, <1>5 DEF JwtInv

\* EndStore keeps the invariant.
LEMMA EndStoreInv == ASSUME JwtInv, NEW r \in Requests, Jwt!EndStore(r) PROVE JwtInv'
<1> USE MapsAssumption, JwtNil
<1>0. /\ target[r] \in 1 .. MaxMaps /\ target[r] \in 1 .. made /\ conf[r].key \in Jwt!Keys
      /\ mine[r] # Nil
      /\ \A m \in 1 .. MaxMaps, k \in Jwt!Keys :
           mids'[m][k] = IF m = target[r] /\ k = conf[r].key THEN mine[r] ELSE mids[m][k]
  <2>1. target[r] \in 1 .. made /\ conf[r].key \in Jwt!Keys /\ mine[r] # Nil
    BY DEF JwtInv, Jwt!TypeOK, Phases, Jwt!EndStore, Jwt!Goto, Jwt!Keys
  <2>2. target[r] \in 1 .. MaxMaps
    BY <2>1 DEF JwtInv, Jwt!TypeOK
  <2> QED
    BY <2>1, <2>2 DEF JwtInv, Jwt!TypeOK, Jwt!EndStore
<1>1. Jwt!TypeOK'
  BY <1>0 DEF JwtInv, Jwt!TypeOK, Jwt!EndStore, Jwt!Goto
<1>2. Phases'
  BY DEF JwtInv, Jwt!TypeOK, Phases, Jwt!InFilter, Makers, Jwt!Middlewares, Jwt!Keys, Jwt!Lookups, Jwt!EndStore, Jwt!Goto
<1>3. Owned'
  <2>1. MadeFor(mine[r], conf[r].key)
    BY <1>0 DEF JwtInv, Owned
  <2> QED
    BY <1>0, <2>1 DEF JwtInv, Owned, MadeFor, Jwt!EndStore
<1>4. Makers'
  BY DEF JwtInv, Jwt!TypeOK, Phases, Makers, NotAlone, Jwt!EndStore, Jwt!Goto
<1>5. Lost'
  <2> SUFFICES ASSUME NEW q \in Requests
               PROVE /\ jpc'[q] = "fetch" => mids'[map][conf[q].key] # Nil \/ NotAlone
                     /\ jpc'[q] = "verify" => mine[q] # Nil \/ NotAlone
    BY DEF Lost, Jwt!Entry, NotAlone, Jwt!EndStore
  <2>1. CASE made > 1
    BY <2>1 DEF JwtInv, Makers
  <2>2. CASE made = 1
    <3>1. map = 1 /\ target[r] = 1
      BY <1>0, <2>2 DEF JwtInv, Makers
    <3>2. jpc'[q] = "fetch" => conf[q].key \in Jwt!Keys
      BY DEF JwtInv, Jwt!TypeOK, Phases, Jwt!EndStore, Jwt!Goto, Jwt!Keys
    <3>3. CASE q = r
      BY <1>0, <3>1, <3>3 DEF JwtInv, Jwt!TypeOK, Jwt!EndStore, Jwt!Goto
    <3>4. CASE q # r
      BY <1>0, <3>1, <3>2, <3>4 DEF JwtInv, Jwt!TypeOK, Lost, Jwt!Entry, Jwt!EndStore, Jwt!Goto
    <3> QED
      BY <3>3, <3>4
  <2> QED
    BY <1>0, <2>1, <2>2 DEF JwtInv, Jwt!TypeOK
<1> QED
  BY <1>1, <1>2, <1>3, <1>4, <1>5 DEF JwtInv

\* Fetch keeps the invariant.
LEMMA FetchInv == ASSUME JwtInv, NEW r \in Requests, Jwt!Fetch(r) PROVE JwtInv'
<1> USE MapsAssumption, JwtNil
<1>1. Jwt!TypeOK'
  <2>1. map \in 1 .. MaxMaps /\ conf[r].key \in Jwt!Keys
    BY DEF JwtInv, Jwt!TypeOK, Phases, Jwt!Fetch, Jwt!Goto, Jwt!Keys
  <2>2. Jwt!Entry(r) \in Jwt!Middlewares \cup {Nil}
    BY <2>1 DEF JwtInv, Jwt!TypeOK, Jwt!Entry
  <2> QED
    BY <2>2 DEF JwtInv, Jwt!TypeOK, Jwt!Fetch, Jwt!Goto
<1>2. Phases'
  BY DEF JwtInv, Jwt!TypeOK, Phases, Jwt!InFilter, Makers, Jwt!Middlewares, Jwt!Keys, Jwt!Lookups, Jwt!Fetch, Jwt!Goto
<1>3. Owned'
  BY DEF JwtInv, Jwt!TypeOK, Phases, Jwt!InFilter, Owned, Makers, MadeFor, Jwt!Entry, Jwt!Keys, Jwt!Fetch, Jwt!Goto
<1>4. Makers'
  BY DEF JwtInv, Jwt!TypeOK, Phases, Makers, NotAlone, Jwt!Fetch, Jwt!Goto
<1>5. Lost'
  BY DEF JwtInv, Jwt!TypeOK, Phases, Makers, Lost, NotAlone, Jwt!Entry, Jwt!Keys, Jwt!Fetch, Jwt!Goto
<1> QED
  BY <1>1, <1>2, <1>3, <1>4, <1>5 DEF JwtInv

\* A new process has neither a map nor a request in the filter.
LEMMA FatalInv == ASSUME JwtInv, NEW r \in Requests, Jwt!Fatal(r) PROVE JwtInv'
<1> USE MapsAssumption, JwtNil
<1>1. Jwt!TypeOK'
  BY DEF JwtInv, Jwt!TypeOK, Jwt!Fatal, Jwt!Restarted, Jwt!Empty, Jwt!InFilter
<1>2. Phases'
  BY DEF JwtInv, Jwt!TypeOK, Phases, Jwt!InFilter, Jwt!Fatal, Jwt!Restarted
<1>3. Owned'
  BY DEF JwtInv, Jwt!TypeOK, Owned, Jwt!Fatal, Jwt!Restarted, Jwt!Empty
<1>4. Makers'
  BY DEF JwtInv, Jwt!TypeOK, Makers, Jwt!InFilter, Jwt!Fatal, Jwt!Restarted
<1>5. Lost'
  BY DEF JwtInv, Jwt!TypeOK, Lost, Jwt!InFilter, Jwt!Fatal, Jwt!Restarted
<1> QED
  BY <1>1, <1>2, <1>3, <1>4, <1>5 DEF JwtInv

\* Every step keeps the invariant.
LEMMA JwtNext == JwtInv /\ [Jwt!Next]_(Jwt!vars) => JwtInv'
<1> SUFFICES ASSUME JwtInv, [Jwt!Next]_(Jwt!vars) PROVE JwtInv'
  OBVIOUS
<1>1. CASE UNCHANGED Jwt!vars
  BY <1>1 DEF Jwt!vars, JwtInv, Jwt!TypeOK, Phases, Jwt!InFilter, Owned, MadeFor, Makers, Lost, NotAlone, Jwt!Entry
<1>2. ASSUME NEW r \in Requests, Jwt!RequestFilter(r) PROVE JwtInv'
  BY <1>2, MoveInv, CheckInv, MakeInv, NewInv, BeginStoreInv, EndStoreInv, FetchInv
     DEF Jwt!RequestFilter
<1>3. ASSUME NEW r \in Requests, Jwt!Fatal(r) PROVE JwtInv'
  BY <1>3, FatalInv
<1> QED
  BY <1>1, <1>2, <1>3 DEF Jwt!Next

\* A step of the gateway is a step of jwt-auth, or leaves it alone.
LEMMA StepRefines == [Next]_vars => [Jwt!Next]_(Jwt!vars)
<1> SUFFICES ASSUME [Next]_vars PROVE [Jwt!Next]_(Jwt!vars)
  OBVIOUS
<1>1. CASE UNCHANGED vars
  BY <1>1 DEF vars, jwtVars, Jwt!vars
<1>2. CASE AllEnded
  BY <1>2 DEF AllEnded, vars, jwtVars, Jwt!vars
<1>3. ASSUME NEW r \in Requests, Runner(r) PROVE [Jwt!Next]_(Jwt!vars)
  <2>1. ASSUME JwtAuthStep(r) \/ JwtAuthPasses(r) \/ JwtAuthRefuses(r) \/ JwtAuthPanics(r)
        PROVE  Jwt!RequestFilter(r)
    BY <2>1 DEF JwtAuthStep, JwtAuthPasses, JwtAuthRefuses, JwtAuthPanics, Jwt!RequestFilter
  <2>2. ASSUME RunnerDies(r) PROVE Jwt!Fatal(r)
    BY <2>2 DEF RunnerDies
  <2>3. ASSUME \/ ApikeyAuth(r) \/ ApikeyAuthFails(r) \/ Parse(r) \/ ParseFails(r)
               \/ Count(r) \/ CountRefuses(r)
               \/ ResponseFilterLeaves(r) \/ ResponseFilterRewrites(r) \/ Expire(r)
        PROVE UNCHANGED jwtVars
    BY <2>3 DEF ApikeyAuth, ApikeyAuthFails, Parse, ParseFails, Count, CountRefuses,
                ResponseFilterLeaves, ResponseFilterRewrites, Expire
  <2> QED
    BY <1>3, <2>1, <2>2, <2>3 DEF Runner, Jwt!Next, Jwt!vars, jwtVars
<1>4. ASSUME NEW r \in Requests, Upstream(r) \/ Lua(r) PROVE UNCHANGED jwtVars
  BY <1>4 DEF Upstream, Lua, rewrite, access, header_filter, body_filter,
              PassChunk, hold_body_chunk, Rewrite, LuaError
<1> QED
  BY <1>1, <1>2, <1>3, <1>4 DEF Next, Jwt!vars, jwtVars

\* The gateway implements jwt-auth: every behaviour of its routes is one of JwtAuth.
THEOREM RefinesJwtAuth == Spec => Jwt!Spec
<1>1. Init => Jwt!Init
  BY DEF Init
<1> QED
  BY <1>1, StepRefines, PTL DEF Spec, Jwt!Spec

\* However requests interleave in the filter, and over restarts, the invariant
\* of jwt-auth holds.
THEOREM JwtInvariance == Spec => []JwtInv
<1>1. Jwt!Spec => []JwtInv
  BY JwtInit, JwtNext, PTL DEF Jwt!Spec
<1> QED
  BY <1>1, RefinesJwtAuth, PTL

\* The middleware of a request is that of its own route's key, and is missing only
\* if two requests found no map (auth_jwt.go getJwtMiddleware).
THEOREM OwnMiddleware == Spec => []MiddlewareIsOwn
<1>1. JwtInv => MiddlewareIsOwn
  BY DEF JwtInv, Owned, MadeFor, Lost, NotAlone, MiddlewareIsOwn, Jwt!MiddlewareIsOwn,
         Jwt!Uniform, Jwt!TypeOK
<1> QED
  BY JwtInvariance, <1>1, PTL

\* The unlocked map is safe once every key in use has its middleware.
THEOREM WarmIsSafe == Spec => WarmStaysWarm
<1> DEFINE Safe ==
      Jwt!Warm =>
       /\ Jwt!Warm' /\ mids' = mids /\ map' = map
       /\ \A r \in Requests : ~Jwt!Fatal(r)
       /\ \A r \in Requests : Jwt!Fetch(r) => mine'[r] # Nil
<1>1. JwtInv /\ [Jwt!Next]_(Jwt!vars) => [Safe]_(Jwt!vars)
  <2> SUFFICES ASSUME JwtInv, Jwt!Next, Jwt!Warm PROVE Safe
    OBVIOUS
  <2>1. \A r \in Requests : ~Jwt!Fatal(r)
    BY DEF Jwt!Warm, Jwt!Fatal, Jwt!Races
  <2>2. PICK r \in Requests : Jwt!RequestFilter(r)
    BY <2>1 DEF Jwt!Next
  <2>3. mids' = mids /\ map' = map /\ conf' = conf
    BY <2>2 DEF Jwt!RequestFilter, Jwt!Start, Jwt!Check, Jwt!Make, Jwt!Lookup, Jwt!New,
                Jwt!BeginStore, Jwt!EndStore, Jwt!Fetch, Jwt!Panic, Jwt!Reject, Jwt!Pass,
                Jwt!Goto, Jwt!Warm
  <2>4. \A q \in Requests : jpc'[q] \notin {"make", "new", "store", "storing"}
    BY <2>2 DEF JwtInv, Jwt!TypeOK, Phases, Jwt!RequestFilter, Jwt!Start, Jwt!Check, Jwt!Make,
                Jwt!Lookup, Jwt!New, Jwt!BeginStore, Jwt!EndStore, Jwt!Fetch, Jwt!Panic,
                Jwt!Reject, Jwt!Pass, Jwt!Goto, Jwt!Keyed, Jwt!Warm
  <2>5. Jwt!Warm'
    BY <2>3, <2>4 DEF Jwt!Warm, Jwt!Entry
  <2>6. \A q \in Requests : Jwt!Fetch(q) => mine'[q] # Nil
    BY DEF JwtInv, Jwt!TypeOK, Phases, Jwt!Fetch, Jwt!Goto, Jwt!Warm, Jwt!Entry
  <2> QED
    BY <2>1, <2>3, <2>5, <2>6
<1>2. Spec => [][Safe]_(Jwt!vars)
  BY JwtInvariance, RefinesJwtAuth, <1>1, PTL DEF Jwt!Spec
<1> QED
  BY <1>2, PTL DEF WarmStaysWarm, Jwt!WarmStaysWarm

-----------------------------------------------------------------------------
(* Charges *)

Places == {"rewrite", "auth", "parse", "count", "upstream", "respond",
           "header", "chunk1", "chunk2", "done", "broken"}
Responses == [of : {"refusal", "upstream", "rpcErrors"}, code : {400, 401, 503} \cup Statuses]

\* The server type that a cost type names.
ServerOf(cost) == IF cost[1] = "RAINBOW" THEN RAINBOW ELSE <<cost[1], cost[3]>>

\* The part of the types that charging is about.
ChargeTypes ==
  /\ pc \in [Requests -> Places]
  /\ kind \in [Requests -> Kinds] /\ body \in [Requests -> RpcBodies]
  /\ hdr \in [Requests -> Headers]
  /\ charged \in [Requests -> Headers \cup {Nil}]
  /\ resp \in [Requests -> Responses \cup {Nil}]

\* The headers of a request that count may charge.
Chargeable(r, h) ==
  /\ h.user = "own" /\ h.id
  /\ h.res \in ParseRequest(r) \ {ParseError}

\* What the filters have left in the headers by the time the next one runs, and
\* that a request past count has been charged.
Filtered ==
  \A r \in Requests :
    /\ pc[r] = "parse" => hdr[r].user = "own"
    /\ pc[r] = "count" => Chargeable(r, hdr[r])
    /\ pc[r] \in {"upstream", "respond"} => charged[r] # Nil

Charges ==
  \A r \in Requests :
    /\ charged[r] # Nil => Chargeable(r, charged[r])
    /\ resp[r] # Nil /\ resp[r].of # "refusal" => charged[r] # Nil

ChargeInv == ChargeTypes /\ Filtered /\ Charges

-----------------------------------------------------------------------------
(* The parsers *)

\* What a parser returns without an error is a result, and its cost type names its
\* server type.
LEMMA ParsedResult ==
  ASSUME NEW r \in Requests, kind[r] \in Kinds, body[r] \in RpcBodies,
         NEW res \in ParseRequest(r), res # ParseError
  PROVE  res \in Results /\ res.ok /\ res.server = ServerOf(res.cost)
<1>1. CASE kind[r] = "rpc"
  <2>1. PICK net \in Nets : res = ParseRpc(body[r], net)
    BY <1>1 DEF ParseRequest
  <2>2. res = Result(GetCostType("CONFURA", net), GetServerType("CONFURA", net), Items[body[r]])
    BY <2>1 DEF ParseRpc
  <2>3. res.ok /\ res.cost = GetCostType("CONFURA", net) /\ res.server = GetServerType("CONFURA", net)
    BY <2>2 DEF Result
  <2>4. res.server = ServerOf(res.cost)
    BY <2>3 DEF ServerOf, GetCostType, GetServerType
  <2>5. res \in Results
    BY <2>1, <2>3 DEF Results
  <2> QED
    BY <2>3, <2>4, <2>5
<1>2. CASE kind[r] = "scan"
  <2>1. PICK net \in Nets : res = ParseScan(net)
    BY <1>2 DEF ParseRequest
  <2>2. res.ok /\ res.cost = GetCostType("SCAN", net) /\ res.server = GetServerType("SCAN", net)
    BY <2>1 DEF ParseScan, Result
  <2>3. res.server = ServerOf(res.cost)
    BY <2>2 DEF ServerOf, GetCostType, GetServerType
  <2>4. res \in Results
    BY <2>1, <2>2 DEF Results
  <2> QED
    BY <2>2, <2>3, <2>4
<1>3. CASE kind[r] = "api"
  <2>1. PICK call \in Calls : res = ParseApi(call)
    BY <1>3 DEF ParseRequest
  <2>2. PICK cost \in {NORMAL, getAction(call.path)} : \E n : res = Result(cost, RAINBOW, n)
    BY <2>1 DEF ParseApi, ParseByGin
  <2>3. cost[1] = "RAINBOW"
    BY <2>2 DEF NORMAL, getAction
  <2>4. res.ok /\ res.cost = cost /\ res.server = RAINBOW
    BY <2>2 DEF Result
  <2>5. res \in Results
    BY <2>1, <2>4 DEF Results
  <2> QED
    BY <2>3, <2>4, <2>5 DEF ServerOf
<1> QED
  BY <1>1, <1>2, <1>3, KindsAssumption

-----------------------------------------------------------------------------
(* Steps *)

\* The invariant holds before the first request.
LEMMA InitCharge == Init => ChargeInv
<1> SUFFICES ASSUME Init PROVE ChargeInv
  OBVIOUS
<1>1. Sent \in Headers
  BY DEF Sent, Headers
<1>2. ChargeTypes
  BY <1>1 DEF Init, ChargeTypes, Places
<1>3. Filtered
  BY DEF Init, Filtered
<1>4. Charges
  BY DEF Init, Charges
<1> QED
  BY <1>2, <1>3, <1>4 DEF ChargeInv

\* A step that leaves alone where requests are, their headers, charges and responses.
LEMMA FrameCharge ==
  ASSUME ChargeInv, UNCHANGED <<pc, reqVars, hdr, charged, resp>>
  PROVE  ChargeInv'
BY DEF ChargeInv, ChargeTypes, Filtered, Charges, Chargeable, ParseRequest, reqVars

\* A request moves on to where neither headers nor charges are asked for.
LEMMA MoveCharge ==
  ASSUME ChargeInv, NEW r \in Requests,
         NEW to \in Places \ {"parse", "count", "upstream", "respond"},
         pc' = [pc EXCEPT ![r] = to], UNCHANGED <<reqVars, hdr, charged, resp>>
  PROVE  ChargeInv'
<1>1. \A q \in Requests : \A h : Chargeable(q, h)' <=> Chargeable(q, h)
  BY DEF Chargeable, ParseRequest, reqVars
<1> QED
  BY <1>1 DEF ChargeInv, ChargeTypes, Filtered, Charges, reqVars

\* Requests are refused: what they were charged stays, and their responses are
\* refusals.
LEMMA AnsweredCharge ==
  ASSUME ChargeInv, NEW rs \in SUBSET Requests, NEW code \in {400, 401, 503},
         Answered(rs, code)
  PROVE  ChargeInv'
<1>1. \A q \in Requests : \A h : Chargeable(q, h)' <=> Chargeable(q, h)
  BY DEF Chargeable, ParseRequest, Answered, reqVars
<1>2. UNCHANGED <<reqVars, hdr, charged>>
  BY DEF Answered, runnerVars
<1>3. \A q \in Requests : pc'[q] = pc[q] \/ pc'[q] \in {"done", "header"}
  BY DEF Answered
<1>4. \A q \in Requests : resp'[q] = resp[q] \/ resp'[q].of = "refusal"
  BY DEF Answered
<1>5. ChargeTypes'
  <2>1. [of |-> "refusal", code |-> code] \in Responses
    BY DEF Responses
  <2>2. pc' \in [Requests -> Places]
    BY DEF ChargeInv, ChargeTypes, Answered, Places
  <2>3. resp' \in [Requests -> Responses \cup {Nil}]
    BY <2>1 DEF ChargeInv, ChargeTypes, Answered
  <2> QED
    BY <1>2, <2>2, <2>3 DEF ChargeInv, ChargeTypes, reqVars
<1>6. Filtered'
  BY <1>1, <1>2, <1>3 DEF ChargeInv, Filtered
<1>7. Charges'
  BY <1>1, <1>2, <1>4 DEF ChargeInv, Charges
<1> QED
  BY <1>5, <1>6, <1>7 DEF ChargeInv

\* Authentication has found the user, and names it in the header.
LEMMA UserCharge ==
  ASSUME ChargeInv, NEW r \in Requests, pc[r] = "auth",
         pc' = [pc EXCEPT ![r] = "parse"], SetUser(r), UNCHANGED <<reqVars, charged, resp>>
  PROVE  ChargeInv'
<1>1. \A q \in Requests : \A h : Chargeable(q, h)' <=> Chargeable(q, h)
  BY DEF Chargeable, ParseRequest, reqVars
<1>2. hdr' \in [Requests -> Headers] /\ hdr'[r].user = "own"
  BY DEF SetUser, ChargeInv, ChargeTypes, Headers
<1>3. \A q \in Requests \ {r} : hdr'[q] = hdr[q] /\ pc'[q] = pc[q]
  BY DEF SetUser, ChargeInv, ChargeTypes
<1>4. pc'[r] = "parse" /\ ChargeTypes'
  BY <1>2 DEF ChargeInv, ChargeTypes, Places, reqVars
<1>5. Filtered'
  BY <1>1, <1>2, <1>3, <1>4 DEF ChargeInv, Filtered
<1>6. Charges'
  BY <1>1 DEF ChargeInv, Charges
<1> QED
  BY <1>4, <1>5, <1>6 DEF ChargeInv

\* The parser's result replaces what the client sent.
LEMMA ParseCharge == ASSUME ChargeInv, NEW r \in Requests, Parse(r) PROVE ChargeInv'
<1> UNCHANGED <<reqVars, charged, resp>> /\ pc' = [pc EXCEPT ![r] = "count"] /\ pc[r] = "parse"
  BY DEF Parse, Goto, respVars
<1>1. \A q \in Requests : \A h : Chargeable(q, h)' <=> Chargeable(q, h)
  BY DEF Chargeable, ParseRequest, reqVars
<1>2. PICK res \in ParseRequest(r) :
        res.ok /\ hdr' = [hdr EXCEPT ![r].res = res, ![r].id = TRUE]
  BY DEF Parse
<1>3. res # ParseError
  BY <1>2 DEF ParseError
<1>4. res \in Results
  BY <1>3, ParsedResult DEF ChargeInv, ChargeTypes
<1>5. /\ hdr'[r] = [user |-> hdr[r].user, res |-> res, id |-> TRUE]
      /\ hdr' = [hdr EXCEPT ![r] = hdr'[r]]
  BY <1>2 DEF ChargeInv, ChargeTypes, Headers
<1>6. hdr' \in [Requests -> Headers]
  <2>1. hdr[r].user \in {"sent", "own"}
    BY DEF ChargeInv, ChargeTypes, Headers
  <2>2. hdr'[r] \in Headers
    BY <1>4, <1>5, <2>1 DEF Headers
  <2> QED
    BY <1>5, <2>2 DEF ChargeInv, ChargeTypes
<1>7. Chargeable(r, hdr'[r])
  BY <1>3, <1>5 DEF ChargeInv, Filtered, Chargeable
<1>8. \A q \in Requests \ {r} : hdr'[q] = hdr[q] /\ pc'[q] = pc[q]
  BY <1>5 DEF ChargeInv, ChargeTypes
<1>9. pc'[r] = "count" /\ ChargeTypes'
  BY <1>6 DEF ChargeInv, ChargeTypes, Places, reqVars
<1>10. Filtered'
  BY <1>1, <1>7, <1>8, <1>9 DEF ChargeInv, Filtered
<1>11. Charges'
  BY <1>1 DEF ChargeInv, Charges
<1> QED
  BY <1>9, <1>10, <1>11 DEF ChargeInv

\* count charges by the headers.
LEMMA CountCharge == ASSUME ChargeInv, NEW r \in Requests, Count(r) PROVE ChargeInv'
<1>1. \A q \in Requests : \A h : Chargeable(q, h)' <=> Chargeable(q, h)
  BY DEF Chargeable, ParseRequest, Count, reqVars
<1>2. /\ pc[r] = "count" /\ pc' = [pc EXCEPT ![r] = "upstream"]
      /\ charged' = [charged EXCEPT ![r] = hdr[r]]
      /\ UNCHANGED <<kind, body, hdr, resp>>
  BY DEF Count, Goto, reqVars, respVars
<1>3. charged'[r] = hdr[r] /\ charged'[r] # Nil /\ Chargeable(r, charged'[r])
  BY <1>2, HeadersAssumption DEF ChargeInv, ChargeTypes, Filtered
<1>4. \A q \in Requests \ {r} : charged'[q] = charged[q] /\ pc'[q] = pc[q]
  BY <1>2 DEF ChargeInv, ChargeTypes
<1>5. ChargeTypes' /\ pc'[r] = "upstream"
  BY <1>2 DEF ChargeInv, ChargeTypes, Places
<1>6. Filtered'
  BY <1>1, <1>2, <1>3, <1>4, <1>5 DEF ChargeInv, Filtered
<1>7. Charges'
  BY <1>1, <1>2, <1>3, <1>4 DEF ChargeInv, Charges
<1> QED
  BY <1>5, <1>6, <1>7 DEF ChargeInv

\* The response of the upstream, or one made of it, is for a request that was
\* charged.
LEMMA ResponseCharge ==
  ASSUME ChargeInv, NEW r \in Requests, pc[r] \in {"upstream", "respond"},
         NEW to \in {"respond", "header", "done"}, pc' = [pc EXCEPT ![r] = to],
         NEW new \in Responses, resp' = [resp EXCEPT ![r] = new],
         UNCHANGED <<reqVars, hdr, charged>>
  PROVE  ChargeInv'
<1>1. \A q \in Requests : \A h : Chargeable(q, h)' <=> Chargeable(q, h)
  BY DEF Chargeable, ParseRequest, reqVars
<1>2. ChargeTypes'
  BY DEF ChargeInv, ChargeTypes, Places, reqVars
<1>3. \A q \in Requests \ {r} : resp'[q] = resp[q] /\ pc'[q] = pc[q]
  BY DEF ChargeInv, ChargeTypes
<1>4. pc'[r] = to /\ charged[r] # Nil
  BY DEF ChargeInv, ChargeTypes, Filtered
<1>5. Filtered'
  BY <1>1, <1>3, <1>4 DEF ChargeInv, Filtered
<1>6. Charges'
  BY <1>1, <1>3, <1>4 DEF ChargeInv, Charges
<1> QED
  BY <1>2, <1>5, <1>6 DEF ChargeInv

\* The steps of the runner keep the invariant.
LEMMA RunnerCharge == ASSUME ChargeInv, NEW r \in Requests, Runner(r) PROVE ChargeInv'
<1>1. ASSUME ApikeyAuth(r) \/ JwtAuthPasses(r) PROVE ChargeInv'
  BY <1>1, UserCharge DEF ApikeyAuth, JwtAuthPasses, Goto, respVars
<1>2. ASSUME ApikeyAuthFails(r) \/ JwtAuthRefuses(r) \/ JwtAuthPanics(r) \/ ParseFails(r)
             \/ CountRefuses(r)
      PROVE  ChargeInv'
  <2>1. PICK code \in {400, 401, 503} : Answered({r}, code)
    BY <1>2 DEF ApikeyAuthFails, JwtAuthRefuses, JwtAuthPanics, ParseFails, CountRefuses,
                Panics, Answers
  <2> QED
    BY <2>1, AnsweredCharge
<1>3. ASSUME RunnerDies(r) PROVE ChargeInv'
  <2> DEFINE rs == {q \in Requests : pc[q] \in {"parse", "count"} \/ Jwt!InFilter(q)}
  <2>1. Answered(rs, 503) /\ rs \in SUBSET Requests
    BY <1>3 DEF RunnerDies
  <2> HIDE DEF rs
  <2> QED
    BY <2>1, AnsweredCharge
<1>4. ASSUME JwtAuthStep(r) \/ Expire(r) PROVE ChargeInv'
  BY <1>4, FrameCharge DEF JwtAuthStep, Expire, runnerVars, respVars
<1>5. ASSUME ResponseFilterLeaves(r) PROVE ChargeInv'
  BY <1>5, MoveCharge DEF ResponseFilterLeaves, Goto, runnerVars, respVars, Places
<1>6. ASSUME ResponseFilterRewrites(r) PROVE ChargeInv'
  <2>1. [of |-> "rpcErrors", code |-> 200] \in Responses
    BY DEF Responses, Statuses
  <2> QED
    BY <1>6, <2>1, ResponseCharge DEF ResponseFilterRewrites, runnerVars
<1> QED
  BY <1>1, <1>2, <1>3, <1>4, <1>5, <1>6, ParseCharge, CountCharge DEF Runner

\* So does the upstream.
LEMMA UpstreamCharge == ASSUME ChargeInv, NEW r \in Requests, Upstream(r) PROVE ChargeInv'
<1>1. PICK code \in Statuses : resp' = [resp EXCEPT ![r] = [of |-> "upstream", code |-> code]]
  BY DEF Upstream
<1>2. [of |-> "upstream", code |-> code] \in Responses
  BY DEF Responses
<1>3. PICK to \in {"respond", "done"} : pc[r] = "upstream" /\ pc' = [pc EXCEPT ![r] = to]
  BY DEF Upstream, Goto
<1> QED
  BY <1>1, <1>2, <1>3, ResponseCharge DEF Upstream, runnerVars

\* And the Lua plugins, which know nothing of charges.
LEMMA LuaCharge == ASSUME ChargeInv, NEW r \in Requests, Lua(r) PROVE ChargeInv'
<1>1. ASSUME access(r) PROVE ChargeInv'
  BY <1>1, FrameCharge DEF access, runnerVars, respVars
<1>2. ASSUME rewrite(r) \/ header_filter(r) PROVE ChargeInv'
  BY <1>2, MoveCharge DEF rewrite, header_filter, Goto, runnerVars, respVars, Places
<1>3. ASSUME hold_body_chunk(r) \/ Rewrite(r) \/ LuaError(r) PROVE ChargeInv'
  BY <1>3, MoveCharge DEF hold_body_chunk, Rewrite, LuaError, Goto, runnerVars, respVars, Places
<1>4. ASSUME NEW c \in Chunks, PassChunk(r, c) PROVE ChargeInv'
  <2>1. <<"chunk2", "done">>[c] \in Places \ {"parse", "count", "upstream", "respond"}
    BY DEF Chunks, Places
  <2> QED
    BY <1>4, <2>1, MoveCharge DEF PassChunk, Goto, runnerVars, respVars
<1> QED
  BY <1>1, <1>2, <1>3, <1>4 DEF Lua, body_filter

\* However the phases of requests interleave, the invariant holds.
THEOREM ChargeInvariance == Spec => []ChargeInv
<1>1. ChargeInv /\ [Next]_vars => ChargeInv'
  <2> SUFFICES ASSUME ChargeInv, [Next]_vars PROVE ChargeInv'
    OBVIOUS
  <2>1. CASE UNCHANGED vars
    BY <2>1, FrameCharge DEF vars, runnerVars, respVars
  <2>2. CASE AllEnded
    BY <2>2, FrameCharge DEF AllEnded, vars, runnerVars, respVars
  <2> QED
    BY <2>1, <2>2, RunnerCharge, UpstreamCharge, LuaCharge DEF Next
<1> QED
  BY InitCharge, <1>1, PTL DEF Spec

\* A request that count charges and the upstream gets is charged to the user that
\* authentication found, as what its own route's parser made of it, and the cost
\* type names the server type.
THEOREM OwnCharge == Spec => []ChargedAsOwn
<1>1. ChargeInv => ChargedAsOwn
  <2> SUFFICES ASSUME ChargeInv PROVE ChargedAsOwn
    OBVIOUS
  <2>1. \A r \in Requests :
          charged[r] # Nil => charged[r].res.server = ServerOf(charged[r].res.cost)
    BY ParsedResult DEF ChargeInv, ChargeTypes, Charges, Chargeable
  <2>2. ASSUME NEW r \in Requests, NEW q \in Requests, charged[r] # Nil, charged[q] # Nil,
               charged[q].res.cost = charged[r].res.cost
        PROVE  charged[q].res.server = charged[r].res.server
    BY <2>1, <2>2
  <2> QED
    BY <2>2 DEF ChargeInv, Charges, Chargeable, ChargedAsOwn
<1> QED
  BY ChargeInvariance, <1>1, PTL

-----------------------------------------------------------------------------
(* Answers *)

\* Where the Lua filters have seen nothing of a response yet, and where they have.
Before == {"rewrite", "auth", "parse", "count", "upstream", "respond", "header"}
During == {"chunk1", "chunk2", "done", "broken"}

LuaCodes == {400, 503} \cup Statuses

LuaTypes ==
  /\ status \in [Requests -> {0, 503} \cup Statuses]
  /\ lengthKept \in [Requests -> BOOLEAN]
  /\ request_body \in Requests \cup {Nil}
  /\ raw_status \in [{"rpc", "scan"} -> {0} \cup LuaCodes]
  /\ held \in [Requests -> SUBSET Chunks]
  /\ answer \in [Requests -> Seq(Pieces)]
  /\ touched \in [Requests -> SUBSET {"request_body", "raw_status"}]
  /\ ids \subseteq Requests

\* The routes without jwt-auth and the ones without Lua plugins; a request that
\* is to be answered has a response.
Routed(r) ==
  /\ pc[r] = "rewrite" => kind[r] = "rpc"
  /\ pc[r] \in {"respond", "header", "chunk1", "chunk2", "broken"} => kind[r] # "api"
  /\ kind[r] # "api" => jpc[r] = "idle"
  /\ pc[r] \in {"respond", "header"} \cup During =>
       resp[r] \in Responses /\ (kind[r] # "api" => resp[r].code \in LuaCodes)

\* The first chunk of two.
Half == <<Chunk(1)>>

\* What is sent of an answer that is no error, of one that is, and of either when
\* raw_status was another's at times.
Sending(r) ==
  /\ pc[r] \in Before \/ kind[r] = "api" => answer[r] = <<>> /\ held[r] = {} /\ lengthKept[r]
  /\ pc[r] = "chunk1" => answer[r] = <<>> /\ held[r] = {}
  /\ pc[r] = "chunk2" => \/ answer[r] = <<>> /\ held[r] = {1}
                         \/ answer[r] = Half /\ held[r] = {}
  /\ Len(answer[r]) <= 2
  /\ pc[r] = "broken" => kind[r] = "rpc"

\* What is to be sent for a response of that status: it, or one report of it.
Due(code, a) ==
  IF code < 400 THEN a = Whole
  ELSE Len(a) = 1 /\ a[1].code = code /\ a[1].text = Chunks

\* What holds as long as raw_status is the request's own.
OwnStatus(r) ==
  pc[r] \in During /\ kind[r] # "api" =>
    /\ lengthKept[r] = ~Hidden(r)
    /\ status[r] = IF Hidden(r) THEN 200 ELSE resp[r].code
    /\ "raw_status" \notin touched[r] =>
         /\ raw_status[kind[r]] = resp[r].code
         /\ pc[r] = "chunk2" => (held[r] = {1} <=> resp[r].code >= 400)
         /\ pc[r] = "done" => Due(resp[r].code, answer[r])
         /\ pc[r] = "broken" => resp[r].code >= 400

\* What holds as long as request_body is.
OwnBody(r) ==
  "request_body" \notin touched[r] =>
    /\ kind[r] = "rpc" /\ pc[r] # "rewrite" => request_body = get_body(r)
    /\ \A i \in 1 .. Len(answer[r]) : answer[r][i].ids \in {r, Nil}
    /\ pc[r] = "broken" => body[r] \in {"huge", "null", "junk"}

Own(r) == Routed(r) /\ Sending(r) /\ OwnStatus(r) /\ OwnBody(r)

LuaInv == LuaTypes /\ \A r \in Requests : Own(r)

-----------------------------------------------------------------------------
(* Steps *)

\* Before the first step nothing is sent.
LEMMA InitLua == Init => LuaInv
<1> SUFFICES ASSUME Init PROVE LuaInv
  OBVIOUS
<1>1. LuaTypes
  BY DEF Init, LuaTypes, Chunks
<1>2. ASSUME NEW r \in Requests PROVE Own(r)
  <2>1. /\ pc[r] \in {"rewrite", "auth"} /\ (pc[r] = "rewrite" <=> kind[r] = "rpc")
        /\ jpc[r] = "idle" /\ answer[r] = <<>> /\ held[r] = {} /\ lengthKept[r]
    BY DEF Init, Jwt!Init
  <2>2. Len(answer[r]) = 0
    BY <2>1
  <2>3. Routed(r)
    BY <2>1 DEF Routed, During
  <2>4. Sending(r)
    BY <2>1, <2>2 DEF Sending
  <2>5. OwnStatus(r)
    <3>1. pc[r] \notin During
      BY <2>1 DEF During
    <3> QED
      BY <3>1 DEF OwnStatus
  <2>6. OwnBody(r)
    BY <2>1, <2>2 DEF OwnBody
  <2> QED
    BY <2>3, <2>4, <2>5, <2>6 DEF Own
<1> QED
  BY <1>1, <1>2 DEF LuaInv

\* A step of another request: what it sets of the module variables is noted.
LEMMA Elsewhere ==
  ASSUME NEW q \in Requests, Own(q), kind' = kind, body' = body,
         pc'[q] = pc[q], resp'[q] = resp[q], status'[q] = status[q],
         lengthKept'[q] = lengthKept[q], held'[q] = held[q], answer'[q] = answer[q],
         kind[q] # "api" => jpc'[q] = jpc[q],
         touched[q] \subseteq touched'[q],
         "raw_status" \notin touched'[q] /\ kind[q] # "api" =>
           raw_status'[kind[q]] = raw_status[kind[q]],
         "request_body" \notin touched'[q] /\ kind[q] = "rpc" => request_body' = request_body
  PROVE  Own(q)'
<1>1. Routed(q)'
  BY DEF Own, Routed
<1>2. Sending(q)'
  BY DEF Own, Sending
<1>3. Hidden(q)' = Hidden(q)
  BY DEF Hidden
<1>4. OwnStatus(q)'
  BY <1>3 DEF Own, OwnStatus
<1>5. OwnBody(q)'
  BY DEF Own, OwnBody, get_body
<1> QED
  BY <1>1, <1>2, <1>4, <1>5 DEF Own

\* Steps of the runner and the upstream, which leave the Lua plugins' state alone:
\* the requests rs move, before their answer or, without Lua plugins, to the end.
LEMMA RunnerStep ==
  ASSUME LuaInv, NEW rs \in SUBSET Requests,
         UNCHANGED <<reqVars, luaVars, status, lengthKept>>, ids' \subseteq Requests,
         \A q \in Requests \ rs : pc'[q] = pc[q] /\ resp'[q] = resp[q],
         \A q \in Requests : kind[q] # "api" => jpc'[q] = jpc[q],
         \A q \in rs :
           /\ kind[q] = "api" \/ pc[q] \in Before \ {"rewrite"}
           /\ pc'[q] \in Before \ {"rewrite"} \/ (kind[q] = "api" /\ pc'[q] = "done")
           /\ pc'[q] \in {"respond", "header"} => kind[q] # "api"
           /\ pc'[q] \in {"respond", "header", "done"} =>
                resp'[q] \in Responses /\ (kind[q] # "api" => resp'[q].code \in LuaCodes)
  PROVE  LuaInv'
<1>1. /\ kind' = kind /\ body' = body /\ status' = status /\ lengthKept' = lengthKept
      /\ request_body' = request_body /\ raw_status' = raw_status /\ held' = held
      /\ answer' = answer /\ touched' = touched
  BY DEF reqVars, luaVars
<1>2. LuaTypes'
  BY <1>1 DEF LuaInv, LuaTypes
<1>3. ASSUME NEW q \in Requests \ rs PROVE Own(q)'
  BY <1>1, Elsewhere DEF LuaInv
<1>4. ASSUME NEW q \in rs PROVE Own(q)'
  <2>1. q \in Requests /\ Own(q)
    BY DEF LuaInv
  <2>2. Routed(q)'
    BY <1>1, <2>1 DEF Own, Routed, Before, During
  <2>3. answer[q] = <<>> /\ held[q] = {} /\ lengthKept[q] /\ Len(answer[q]) = 0
    BY <2>1 DEF Own, Sending
  <2>4. Sending(q)'
    BY <1>1, <2>3 DEF Sending, Before
  <2>5. OwnStatus(q)'
    BY <1>1 DEF OwnStatus, Before, During
  <2>6. OwnBody(q)'
    BY <1>1, <2>1, <2>3 DEF Own, OwnBody, get_body, Before
  <2> QED
    BY <2>2, <2>4, <2>5, <2>6 DEF Own
<1> QED
  BY <1>2, <1>3, <1>4 DEF LuaInv

\* Requests that the runner or APISIX answers.
LEMMA AnsweredLua ==
  ASSUME ChargeInv, LuaInv, NEW rs \in SUBSET Requests, NEW code \in {400, 401, 503},
         Answered(rs, code),
         \A q \in rs : /\ kind[q] = "api" \/ pc[q] \in Before \ {"rewrite"}
                       /\ kind[q] # "api" => code # 401,
         \A q \in Requests : kind[q] # "api" => jpc'[q] = jpc[q]
  PROVE  LuaInv'
<1>1. UNCHANGED <<reqVars, luaVars, status, lengthKept>> /\ ids' \subseteq Requests
  BY DEF Answered, runnerVars, LuaInv, LuaTypes
<1>2. \A q \in Requests \ rs : pc'[q] = pc[q] /\ resp'[q] = resp[q]
  BY DEF Answered
<1>3. \A q \in rs : /\ pc'[q] = IF kind[q] = "api" THEN "done" ELSE "header"
                    /\ resp'[q] = [of |-> "refusal", code |-> code]
  BY DEF Answered
<1>4. [of |-> "refusal", code |-> code] \in Responses
  BY DEF Responses
<1>5. \A q \in rs :
        /\ pc'[q] \in Before \ {"rewrite"} \/ (kind[q] = "api" /\ pc'[q] = "done")
        /\ pc'[q] \in {"respond", "header"} => kind[q] # "api"
        /\ resp'[q] \in Responses /\ (kind[q] # "api" => resp'[q].code \in LuaCodes)
  BY <1>3, <1>4 DEF Before, LuaCodes
<1> QED
  BY <1>1, <1>2, <1>5, RunnerStep

\* The runner's steps.
LEMMA RunnerLua ==
  ASSUME ChargeInv, JwtInv, LuaInv, NEW r \in Requests, Runner(r)
  PROVE  LuaInv'
<1>1. /\ pc \in [Requests -> Places] /\ resp \in [Requests -> Responses \cup {Nil}]
      /\ kind \in [Requests -> Kinds] /\ ids \subseteq Requests
      /\ jpc \in [Requests -> {"idle", "check", "make", "lookup", "new", "store", "storing",
                           "fetch", "verify", "refused", "panicked", "passed"}]
  BY DEF ChargeInv, ChargeTypes, JwtInv, Jwt!TypeOK, LuaInv, LuaTypes
<1>2. ASSUME NEW to \in {"parse", "count", "upstream"}, pc[r] \in {"auth", "parse", "count"},
             pc' = [pc EXCEPT ![r] = to], UNCHANGED <<reqVars, luaVars, respVars>>,
             ids' \subseteq Requests, \A q \in Requests : kind[q] # "api" => jpc'[q] = jpc[q]
      PROVE  LuaInv'
  <2>1. UNCHANGED <<status, lengthKept, resp>>
    BY <1>2 DEF respVars
  <2>2. pc'[r] = to /\ \A q \in Requests \ {r} : pc'[q] = pc[q]
    BY <1>1, <1>2
  <2>3. {r} \in SUBSET Requests
    OBVIOUS
  <2>4. \A q \in {r} :
           /\ kind[q] = "api" \/ pc[q] \in Before \ {"rewrite"}
           /\ pc'[q] \in Before \ {"rewrite"} /\ pc'[q] \notin {"respond", "header", "done"}
    BY <1>2, <2>2 DEF Before
  <2> QED
    BY <1>2, <2>1, <2>2, <2>3, <2>4, RunnerStep
<1>3. ASSUME ApikeyAuth(r) \/ Parse(r) \/ Count(r) PROVE LuaInv'
  BY <1>1, <1>2, <1>3 DEF ApikeyAuth, Parse, Count, Goto, jwtVars
<1>4. ASSUME JwtAuthPasses(r) PROVE LuaInv'
  <2>1. \A q \in Requests : kind[q] # "api" => jpc'[q] = jpc[q]
    BY <1>1, <1>4 DEF JwtAuthPasses, Jwt!Pass, Jwt!Goto
  <2> QED
    BY <1>1, <1>2, <1>4, <2>1 DEF JwtAuthPasses, Goto
<1>5. ASSUME JwtAuthStep(r) PROVE LuaInv'
  <2>1. \A q \in Requests : kind[q] # "api" => jpc'[q] = jpc[q]
    BY <1>1, <1>5 DEF JwtAuthStep, Jwt!Start, Jwt!Check, Jwt!Make, Jwt!Lookup, Jwt!New,
                      Jwt!BeginStore, Jwt!EndStore, Jwt!Fetch, Jwt!Goto
  <2>2. UNCHANGED <<pc, resp, ids, status, lengthKept, reqVars, luaVars>>
    BY <1>5 DEF JwtAuthStep, runnerVars, respVars
  <2>3. {} \in SUBSET Requests
    OBVIOUS
  <2> QED
    BY <1>1, <2>1, <2>2, <2>3, RunnerStep
<1>6. ASSUME ApikeyAuthFails(r) \/ ParseFails(r) \/ CountRefuses(r) PROVE LuaInv'
  <2>1. PICK code \in {400, 503} : Answered({r}, code)
    BY <1>6 DEF ApikeyAuthFails, ParseFails, CountRefuses, Panics, Answers
  <2>2. pc[r] \in Before \ {"rewrite"} /\ jpc' = jpc
    BY <1>6 DEF ApikeyAuthFails, ParseFails, CountRefuses, Before, jwtVars
  <2> QED
    BY <2>1, <2>2, AnsweredLua
<1>7. ASSUME JwtAuthRefuses(r) \/ JwtAuthPanics(r) PROVE LuaInv'
  <2>1. PICK code \in {400, 401, 503} : Answered({r}, code)
    BY <1>7 DEF JwtAuthRefuses, JwtAuthPanics, Panics, Answers
  <2>2. \A q \in Requests : kind[q] # "api" => jpc'[q] = jpc[q]
    BY <1>1, <1>7 DEF JwtAuthRefuses, JwtAuthPanics, Jwt!Start, Jwt!Check, Jwt!Make,
                      Jwt!Reject, Jwt!Panic, Jwt!Goto
  <2>3. kind[r] = "api"
    BY <1>7 DEF JwtAuthRefuses, JwtAuthPanics
  <2> QED
    BY <2>1, <2>2, <2>3, AnsweredLua
<1>8. ASSUME RunnerDies(r) PROVE LuaInv'
  <2> DEFINE rs == {q \in Requests : pc[q] \in {"parse", "count"} \/ Jwt!InFilter(q)}
  <2>1. Answered(rs, 503) /\ rs \in SUBSET Requests
    BY <1>8 DEF RunnerDies
  <2>2. \A q \in Requests : kind[q] # "api" => ~Jwt!InFilter(q)
    BY DEF LuaInv, Own, Routed, Jwt!InFilter
  <2>3. \A q \in Requests : kind[q] # "api" => jpc'[q] = jpc[q]
    BY <1>8, <2>2 DEF RunnerDies, Jwt!Fatal, Jwt!Restarted
  <2>4. \A q \in rs : kind[q] = "api" \/ pc[q] \in Before \ {"rewrite"}
    BY <2>2 DEF Before
  <2> HIDE DEF rs
  <2> QED
    BY <2>1, <2>3, <2>4, AnsweredLua
<1>9. ASSUME ResponseFilterLeaves(r) \/ ResponseFilterRewrites(r) PROVE LuaInv'
  <2>1. pc[r] = "respond" /\ pc' = [pc EXCEPT ![r] = "header"] /\ jpc' = jpc /\ ids' = ids
        /\ UNCHANGED <<reqVars, luaVars, status, lengthKept>>
        /\ (resp' = resp \/ resp' = [resp EXCEPT ![r] = [of |-> "rpcErrors", code |-> 200]])
    BY <1>9 DEF ResponseFilterLeaves, ResponseFilterRewrites, Goto, jwtVars, runnerVars, respVars
  <2>2. /\ pc'[r] = "header" /\ (resp'[r] = resp[r] \/ resp'[r] = [of |-> "rpcErrors", code |-> 200])
        /\ \A q \in Requests \ {r} : pc'[q] = pc[q] /\ resp'[q] = resp[q]
    BY <1>1, <2>1
  <2>3. kind[r] # "api" /\ resp[r] \in Responses /\ resp[r].code \in LuaCodes
    BY <2>1 DEF LuaInv, Own, Routed
  <2>4. [of |-> "rpcErrors", code |-> 200] \in Responses /\ 200 \in LuaCodes
    BY DEF Responses, Statuses, LuaCodes
  <2>5. resp'[r] \in Responses /\ resp'[r].code \in LuaCodes
    BY <2>2, <2>3, <2>4
  <2>6. {r} \in SUBSET Requests /\ ids' \subseteq Requests
    BY <1>1, <2>1
  <2>7. \A q \in {r} :
          /\ pc[q] \in Before \ {"rewrite"} /\ pc'[q] \in Before \ {"rewrite"}
          /\ kind[q] # "api" /\ resp'[q] \in Responses /\ resp'[q].code \in LuaCodes
    BY <2>1, <2>2, <2>3, <2>5 DEF Before
  <2> QED
    BY <2>1, <2>2, <2>6, <2>7, RunnerStep
<1>10. ASSUME Expire(r) PROVE LuaInv'
  <2>1. UNCHANGED <<pc, resp, jpc, status, lengthKept, reqVars, luaVars>> /\ ids' \subseteq Requests
    BY <1>1, <1>10 DEF Expire, respVars, jwtVars
  <2>2. {} \in SUBSET Requests
    OBVIOUS
  <2> QED
    BY <2>1, <2>2, RunnerStep
<1> QED
  BY <1>3, <1>4, <1>5, <1>6, <1>7, <1>8, <1>9, <1>10 DEF Runner

\* The upstream's.
LEMMA UpstreamLua == ASSUME ChargeInv, LuaInv, NEW r \in Requests, Upstream(r) PROVE LuaInv'
<1>1. PICK code \in Statuses : resp' = [resp EXCEPT ![r] = [of |-> "upstream", code |-> code]]
  BY DEF Upstream
<1>2. /\ pc[r] = "upstream" /\ jpc' = jpc /\ ids' = ids
      /\ pc' = [pc EXCEPT ![r] = IF kind[r] = "api" THEN "done" ELSE "respond"]
      /\ UNCHANGED <<reqVars, luaVars, status, lengthKept>>
  BY DEF Upstream, Goto, jwtVars, runnerVars
<1>3. /\ pc \in [Requests -> Places] /\ resp \in [Requests -> Responses \cup {Nil}]
      /\ ids \subseteq Requests
  BY DEF ChargeInv, ChargeTypes, LuaInv, LuaTypes
<1>4. /\ pc'[r] = IF kind[r] = "api" THEN "done" ELSE "respond"
      /\ resp'[r] = [of |-> "upstream", code |-> code]
      /\ \A q \in Requests \ {r} : pc'[q] = pc[q] /\ resp'[q] = resp[q]
  BY <1>1, <1>2, <1>3
<1>5. resp'[r] \in Responses /\ resp'[r].code \in LuaCodes
  BY <1>4 DEF Responses, LuaCodes
<1>6. {r} \in SUBSET Requests /\ pc[r] \in Before \ {"rewrite"}
      /\ (pc'[r] \in Before \ {"rewrite"} \/ (kind[r] = "api" /\ pc'[r] = "done"))
      /\ (pc'[r] \in {"respond", "header"} => kind[r] # "api")
  BY <1>2, <1>4 DEF Before
<1> QED
  BY <1>2, <1>3, <1>4, <1>5, <1>6, RunnerStep

\* What Sets notes.
LEMMA SetsNotes ==
  ASSUME LuaInv, NEW r \in Requests, NEW v \in {"request_body", "raw_status"}, Sets(r, v)
  PROVE  /\ touched' \in [Requests -> SUBSET {"request_body", "raw_status"}]
         /\ touched'[r] = touched[r] \ {v}
         /\ \A q \in Requests \ {r} : /\ touched[q] \subseteq touched'[q]
                                      /\ kind[q] = kind[r] => v \in touched'[q]
<1>1. touched \in [Requests -> SUBSET {"request_body", "raw_status"}]
  BY DEF LuaInv, LuaTypes
<1> QED
  BY <1>1 DEF Sets

\* The body is remembered, before or after the runner.
LEMMA BodyLua ==
  ASSUME ChargeInv, LuaInv, NEW r \in Requests, rewrite(r) \/ access(r)
  PROVE  LuaInv'
<1>1. /\ request_body' = get_body(r) /\ Sets(r, "request_body") /\ kind' = kind /\ body' = body
      /\ ids' = ids /\ resp' = resp /\ status' = status /\ lengthKept' = lengthKept
      /\ raw_status' = raw_status /\ held' = held /\ answer' = answer /\ jpc' = jpc
  BY DEF rewrite, access, jwtVars, reqVars, runnerVars, respVars
<1>2. kind[r] = "rpc" /\ pc[r] \in {"rewrite", "upstream"}
  BY DEF rewrite, access, Goto, LuaInv, Own, Routed
<1>3. /\ pc'[r] \in {"auth", "upstream"}
      /\ \A q \in Requests \ {r} : pc'[q] = pc[q]
  BY DEF rewrite, access, Goto, ChargeInv, ChargeTypes
<1>4. /\ touched' \in [Requests -> SUBSET {"request_body", "raw_status"}]
      /\ touched'[r] = touched[r] \ {"request_body"}
      /\ \A q \in Requests \ {r} : /\ touched[q] \subseteq touched'[q]
                                   /\ kind[q] = kind[r] => "request_body" \in touched'[q]
  BY <1>1, SetsNotes
<1>5. LuaTypes'
  <2>1. get_body(r) \in Requests \cup {Nil}
    BY DEF get_body
  <2> QED
    BY <1>1, <1>4, <2>1 DEF LuaInv, LuaTypes
<1>6. ASSUME NEW q \in Requests \ {r} PROVE Own(q)'
  <2>1. Own(q) /\ q \in Requests
    BY DEF LuaInv
  <2> QED
    BY <1>1, <1>2, <1>3, <1>4, <2>1, Elsewhere
<1>7. Own(r)'
  <2>1. Own(r)
    BY DEF LuaInv
  <2>2. answer[r] = <<>> /\ held[r] = {} /\ lengthKept[r] /\ Len(answer[r]) = 0
    BY <1>2, <2>1 DEF Own, Sending, Before
  <2>3. Routed(r)'
    BY <1>1, <1>2, <1>3, <2>1 DEF Own, Routed, During
  <2>4. Sending(r)'
    BY <1>1, <1>3, <2>2 DEF Sending
  <2>5. OwnStatus(r)'
    <3>1. pc'[r] \notin During
      BY <1>3 DEF During
    <3> QED
      BY <3>1 DEF OwnStatus
  <2>6. OwnBody(r)'
    BY <1>1, <1>3, <2>2 DEF OwnBody, get_body
  <2> QED
    BY <2>3, <2>4, <2>5, <2>6 DEF Own
<1> QED
  BY <1>5, <1>6, <1>7 DEF LuaInv

\* The status is remembered, and perhaps hidden.
LEMMA HeaderLua ==
  ASSUME ChargeInv, LuaInv, NEW r \in Requests, header_filter(r)
  PROVE  LuaInv'
<1>1. /\ Sets(r, "raw_status") /\ kind' = kind /\ body' = body /\ jpc' = jpc
      /\ ids' = ids /\ resp' = resp /\ request_body' = request_body /\ held' = held
      /\ answer' = answer /\ pc[r] = "header" /\ pc' = [pc EXCEPT ![r] = "chunk1"]
      /\ raw_status' = [raw_status EXCEPT ![kind[r]] = resp[r].code]
      /\ status' = [status EXCEPT ![r] = IF Hidden(r) THEN 200 ELSE resp[r].code]
      /\ lengthKept' = [lengthKept EXCEPT ![r] = ~Hidden(r)]
  BY DEF header_filter, Goto, jwtVars, reqVars, runnerVars
<1>2. Own(r)
  BY DEF LuaInv
<1>3. kind[r] \in {"rpc", "scan"} /\ resp[r] \in Responses /\ resp[r].code \in LuaCodes
  BY <1>1, <1>2, KindsAssumption DEF Own, Routed, ChargeInv, ChargeTypes
<1>4. /\ touched' \in [Requests -> SUBSET {"request_body", "raw_status"}]
      /\ touched'[r] = touched[r] \ {"raw_status"}
      /\ \A q \in Requests \ {r} : /\ touched[q] \subseteq touched'[q]
                                   /\ kind[q] = kind[r] => "raw_status" \in touched'[q]
  BY <1>1, SetsNotes
<1>5. /\ pc \in [Requests -> Places] /\ status \in [Requests -> {0, 503} \cup Statuses]
      /\ lengthKept \in [Requests -> BOOLEAN]
      /\ raw_status \in [{"rpc", "scan"} -> {0} \cup LuaCodes]
      /\ kind \in [Requests -> Kinds]
  BY DEF ChargeInv, ChargeTypes, LuaInv, LuaTypes
<1>6. Hidden(r) \in BOOLEAN /\ (~Hidden(r) => resp[r].code \in {503} \cup Statuses)
  BY <1>3 DEF Hidden, LuaCodes
<1>7. /\ pc'[r] = "chunk1" /\ raw_status'[kind[r]] = resp[r].code
      /\ status'[r] = (IF Hidden(r) THEN 200 ELSE resp[r].code) /\ lengthKept'[r] = ~Hidden(r)
  BY <1>1, <1>3, <1>5
<1>8. /\ \A q \in Requests \ {r} :
           pc'[q] = pc[q] /\ status'[q] = status[q] /\ lengthKept'[q] = lengthKept[q]
      /\ \A k \in {"rpc", "scan"} : k # kind[r] => raw_status'[k] = raw_status[k]
  BY <1>1, <1>5
<1>9. LuaTypes'
  <2>1. status' \in [Requests -> {0, 503} \cup Statuses] /\ lengthKept' \in [Requests -> BOOLEAN]
    BY <1>1, <1>5, <1>6 DEF Statuses
  <2>2. raw_status' \in [{"rpc", "scan"} -> {0} \cup LuaCodes]
    BY <1>1, <1>3, <1>5
  <2> QED
    BY <1>1, <1>4, <2>1, <2>2 DEF LuaInv, LuaTypes
<1>10. ASSUME NEW q \in Requests \ {r} PROVE Own(q)'
  <2>1. Own(q) /\ q \in Requests /\ (kind[q] # "api" => kind[q] \in {"rpc", "scan"})
    BY <1>5, KindsAssumption DEF LuaInv
  <2> QED
    BY <1>1, <1>4, <1>8, <2>1, Elsewhere
<1>11. Own(r)'
  <2>1. Routed(r)'
    BY <1>1, <1>2, <1>3, <1>7 DEF Own, Routed
  <2>2. answer[r] = <<>> /\ held[r] = {} /\ Len(answer[r]) = 0
    BY <1>1, <1>2 DEF Own, Sending, Before
  <2>3. Sending(r)'
    BY <1>1, <1>3, <1>7, <2>2 DEF Sending, Before
  <2>4. Hidden(r)' = Hidden(r)
    BY <1>1 DEF Hidden
  <2>5. OwnStatus(r)'
    BY <1>1, <1>7, <2>4 DEF OwnStatus
  <2>6. OwnBody(r)'
    BY <1>1, <1>2, <1>4, <1>7, <2>2 DEF Own, OwnBody, get_body
  <2> QED
    BY <2>1, <2>3, <2>5, <2>6 DEF Own
<1> QED
  BY <1>9, <1>10, <1>11 DEF LuaInv

\* The body filter of a request changes what is sent and held of it alone.
LEMMA ChunkStep ==
  ASSUME ChargeInv, LuaInv, NEW r \in Requests, NEW a \in Seq(Pieces), NEW h \in SUBSET Chunks,
         answer' = [answer EXCEPT ![r] = a], held' = [held EXCEPT ![r] = h],
         \A q \in Requests \ {r} : pc'[q] = pc[q],
         UNCHANGED <<jwtVars, reqVars, runnerVars, respVars, request_body, raw_status, touched>>,
         Own(r)'
  PROVE  LuaInv'
<1>1. /\ kind' = kind /\ body' = body /\ jpc' = jpc /\ ids' = ids /\ resp' = resp
      /\ status' = status /\ lengthKept' = lengthKept /\ request_body' = request_body
      /\ raw_status' = raw_status /\ touched' = touched
  BY DEF jwtVars, reqVars, runnerVars, respVars
<1>2. answer \in [Requests -> Seq(Pieces)] /\ held \in [Requests -> SUBSET Chunks]
  BY DEF LuaInv, LuaTypes
<1>3. LuaTypes'
  BY <1>1, <1>2 DEF LuaInv, LuaTypes
<1>4. ASSUME NEW q \in Requests \ {r} PROVE Own(q)'
  <2>1. Own(q) /\ q \in Requests
    BY DEF LuaInv
  <2>2. answer'[q] = answer[q] /\ held'[q] = held[q]
    BY <1>2
  <2> QED
    BY <1>1, <2>1, <2>2, Elsewhere
<1> QED
  BY <1>3, <1>4 DEF LuaInv

\* A body filter may look at its own request.
LEMMA FilterFacts ==
  ASSUME ChargeInv, LuaInv, NEW r \in Requests, pc[r] \in {"chunk1", "chunk2"}
  PROVE  /\ kind[r] \in {"rpc", "scan"} /\ resp[r] \in Responses /\ resp[r].code \in LuaCodes
         /\ raw_status[kind[r]] \in {0} \cup LuaCodes
         /\ pc \in [Requests -> Places] /\ answer \in [Requests -> Seq(Pieces)]
         /\ held \in [Requests -> SUBSET Chunks]
         /\ "raw_status" \notin touched[r] => (Failed(r) <=> resp[r].code >= 400)
<1>1. Own(r)
  BY DEF LuaInv
<1>2. /\ pc \in [Requests -> Places] /\ answer \in [Requests -> Seq(Pieces)]
      /\ held \in [Requests -> SUBSET Chunks] /\ kind[r] \in Kinds
      /\ raw_status \in [{"rpc", "scan"} -> {0} \cup LuaCodes]
  BY DEF ChargeInv, ChargeTypes, LuaInv, LuaTypes
<1>3. kind[r] \in {"rpc", "scan"} /\ resp[r] \in Responses /\ resp[r].code \in LuaCodes
  BY <1>1, <1>2, KindsAssumption DEF Own, Routed, During
<1>4. "raw_status" \notin touched[r] => raw_status[kind[r]] = resp[r].code
  BY <1>1, <1>3 DEF Own, OwnStatus, During
<1> QED
  BY <1>2, <1>3, <1>4 DEF Failed

\* What the body filter must see to when it moves its request on to place "to" with
\* a sent and h held of it.
Leaves(r, a, h, to) ==
  /\ Len(a) <= 2
  /\ to = "chunk2" => (a = <<>> /\ h = {1}) \/ (a = Half /\ h = {})
  /\ to = "broken" => kind[r] = "rpc"
  /\ "raw_status" \notin touched[r] =>
       /\ to = "chunk2" => (h = {1} <=> resp[r].code >= 400)
       /\ to = "done" => Due(resp[r].code, a)
       /\ to = "broken" => resp[r].code >= 400
  /\ "request_body" \notin touched[r] =>
       /\ \A i \in 1 .. Len(a) : a[i].ids \in {r, Nil}
       /\ to = "broken" => body[r] \in {"huge", "null", "junk"}

\* It is enough.
LEMMA FilterStep ==
  ASSUME ChargeInv, LuaInv, NEW r \in Requests, NEW a \in Seq(Pieces), NEW h \in SUBSET Chunks,
         NEW to \in {"chunk2", "done", "broken"},
         pc[r] \in {"chunk1", "chunk2"}, pc' = [pc EXCEPT ![r] = to],
         answer' = [answer EXCEPT ![r] = a], held' = [held EXCEPT ![r] = h],
         UNCHANGED <<jwtVars, reqVars, runnerVars, respVars, request_body, raw_status, touched>>,
         Leaves(r, a, h, to)
  PROVE  LuaInv'
<1>1. /\ kind' = kind /\ body' = body /\ jpc' = jpc /\ resp' = resp /\ status' = status
      /\ lengthKept' = lengthKept /\ request_body' = request_body
      /\ raw_status' = raw_status /\ touched' = touched
  BY DEF jwtVars, reqVars, respVars
<1>2. kind[r] \in {"rpc", "scan"} /\ resp[r] \in Responses /\ resp[r].code \in LuaCodes
  BY FilterFacts
<1>3. pc'[r] = to /\ answer'[r] = a /\ held'[r] = h /\ \A q \in Requests \ {r} : pc'[q] = pc[q]
  BY FilterFacts
<1>4. Own(r)
  BY DEF LuaInv
<1>5. Routed(r)'
  BY <1>1, <1>2, <1>3, <1>4 DEF Own, Routed
<1>6. Sending(r)'
  <2>1. to \notin Before /\ to # "chunk1" /\ kind[r] # "api"
    BY <1>2 DEF Before
  <2> QED
    BY <1>1, <1>3, <2>1, Zenon DEF Sending, Leaves
<1>7. OwnStatus(r)'
  <2>1. Hidden(r)' = Hidden(r)
    BY <1>1 DEF Hidden
  <2>2. /\ lengthKept[r] = ~Hidden(r)
        /\ status[r] = IF Hidden(r) THEN 200 ELSE resp[r].code
        /\ "raw_status" \notin touched[r] => raw_status[kind[r]] = resp[r].code
    BY <1>2, <1>4 DEF Own, OwnStatus, During
  <2> QED
    BY <1>1, <1>2, <1>3, <2>1, <2>2 DEF OwnStatus, Leaves
<1>8. OwnBody(r)'
  <2>1. "request_body" \notin touched[r] /\ kind[r] = "rpc" => request_body = get_body(r)
    BY <1>4 DEF Own, OwnBody
  <2> QED
    BY <1>1, <1>3, <2>1 DEF OwnBody, get_body, Leaves
<1>9. Own(r)'
  BY <1>5, <1>6, <1>7, <1>8 DEF Own
<1> QED
  BY <1>3, <1>9, ChunkStep

\* Answers of one and of two pieces.
LEMMA OneOrTwo ==
  ASSUME NEW x \in Pieces, NEW y \in Pieces
  PROVE  /\ Append(<<>>, x) = <<x>> /\ Append(<<x>>, y) = <<x, y>>
         /\ Len(<<x>>) = 1 /\ Len(<<x, y>>) = 2
         /\ <<x>>[1] = x /\ <<x, y>>[1] = x /\ <<x, y>>[2] = y
<1> DEFINE s == Append(<<x>>, y)
           t == <<x, y>>
<1>1. /\ t \in Seq(Pieces) /\ Len(t) = 2 /\ t[1] = x /\ t[2] = y
      /\ <<x>> \in Seq(Pieces) /\ Len(<<x>>) = 1 /\ <<x>>[1] = x
  OBVIOUS
<1>2. s \in Seq(Pieces) /\ Len(s) = 2 /\ s[1] = x /\ s[2] = y
  BY <1>1
<1>3. Append(<<>>, x) = <<x>>
  OBVIOUS
<1> HIDE DEF s, t
<1>4. s = t
  BY <1>1, <1>2, SeqEqual
<1> QED
  BY <1>1, <1>3, <1>4 DEF s, t

\* Pieces of the body as they came name nobody's ids.
LEMMA PlainPieces ==
  /\ Chunk(1) \in Pieces /\ Chunk(2) \in Pieces
  /\ Len(Half) = 1 /\ Append(Half, Chunk(2)) = Whole /\ Append(<<>>, Chunk(1)) = Half
  /\ Len(Whole) = 2 /\ Len(<<Chunk(2)>>) = 1 /\ Append(<<>>, Chunk(2)) = <<Chunk(2)>>
  /\ \A i \in 1 .. 1 : Half[i].ids = Nil /\ <<Chunk(2)>>[i].ids = Nil
  /\ \A i \in 1 .. 2 : Whole[i].ids = Nil
<1>1. Chunk(1) \in Pieces /\ Chunk(2) \in Pieces
  BY DEF Chunk, Pieces, Chunks
<1>2. /\ Half[1] = Chunk(1) /\ <<Chunk(2)>>[1] = Chunk(2)
      /\ Whole[1] = Chunk(1) /\ Whole[2] = Chunk(2)
  BY <1>1, OneOrTwo DEF Half, Whole
<1>3. Chunk(1).ids = Nil /\ Chunk(2).ids = Nil
  BY DEF Chunk
<1>4. \A i \in 1 .. 1 : Half[i].ids = Nil /\ <<Chunk(2)>>[i].ids = Nil
  <2>1. \A i \in 1 .. 1 : i = 1
    OBVIOUS
  <2> QED
    BY <1>2, <1>3, <2>1, Zenon
<1>5. \A i \in 1 .. 2 : Whole[i].ids = Nil
  <2>1. \A i \in 1 .. 2 : i = 1 \/ i = 2
    OBVIOUS
  <2> QED
    BY <1>2, <1>3, <2>1, Zenon
<1>6. /\ Len(Half) = 1 /\ Append(Half, Chunk(2)) = Whole /\ Append(<<>>, Chunk(1)) = Half
      /\ Len(Whole) = 2 /\ Len(<<Chunk(2)>>) = 1 /\ Append(<<>>, Chunk(2)) = <<Chunk(2)>>
  BY <1>1, OneOrTwo DEF Half, Whole
<1> QED
  BY <1>1, <1>4, <1>5, <1>6

\* A piece of the body passes.
LEMMA PassLua ==
  ASSUME ChargeInv, LuaInv, NEW r \in Requests, NEW c \in Chunks, PassChunk(r, c)
  PROVE  LuaInv'
<1>1. /\ ~Failed(r) /\ answer' = [answer EXCEPT ![r] = Append(answer[r], Chunk(c))]
      /\ held' = held
      /\ UNCHANGED <<jwtVars, reqVars, runnerVars, respVars, request_body, raw_status, touched>>
  BY DEF PassChunk
<1>2. \/ c = 1 /\ pc[r] = "chunk1" /\ pc' = [pc EXCEPT ![r] = "chunk2"]
      \/ c = 2 /\ pc[r] = "chunk2" /\ pc' = [pc EXCEPT ![r] = "done"]
  <2>1. c = 1 \/ c = 2
    BY DEF Chunks
  <2>2. <<"chunk1", "chunk2">>[1] = "chunk1" /\ <<"chunk1", "chunk2">>[2] = "chunk2"
        /\ <<"chunk2", "done">>[1] = "chunk2" /\ <<"chunk2", "done">>[2] = "done"
    OBVIOUS
  <2> QED
    BY <2>1, <2>2, Zenon DEF PassChunk, Goto
<1>3. /\ answer \in [Requests -> Seq(Pieces)] /\ held \in [Requests -> SUBSET Chunks]
      /\ resp[r].code \in LuaCodes /\ kind[r] # "api" /\ pc[r] \in During
      /\ "raw_status" \notin touched[r] => ~(resp[r].code >= 400)
  BY <1>1, <1>2, FilterFacts DEF During
<1>4. Own(r) /\ answer[r] \in Seq(Pieces) /\ held[r] \in SUBSET Chunks
      /\ held' = [held EXCEPT ![r] = held[r]]
  BY <1>1, <1>3 DEF LuaInv
<1>5. Chunk(c) \in Pieces
  BY PlainPieces DEF Chunks
<1>6. Append(answer[r], Chunk(c)) \in Seq(Pieces)
  BY <1>4, <1>5
<1>7. CASE c = 1
  <2>1. answer[r] = <<>> /\ held[r] = {}
    BY <1>2, <1>4, <1>7 DEF Own, Sending
  <2>2. Append(answer[r], Chunk(c)) = Half
    BY <1>7, <2>1, PlainPieces, Zenon
  <2>3. held[r] # {1}
    BY <2>1
  <2>4. Leaves(r, Half, held[r], "chunk2")
    BY <1>3, <2>1, <2>3, PlainPieces DEF Leaves
  <2>5. Half \in Seq(Pieces) /\ answer' = [answer EXCEPT ![r] = Half]
    BY <1>1, <1>6, <2>2, Zenon
  <2>6. pc[r] = "chunk1" /\ pc' = [pc EXCEPT ![r] = "chunk2"]
    BY <1>2, <1>7
  <2> QED
    BY <1>1, <1>4, <2>4, <2>5, <2>6, FilterStep
<1>8. CASE c = 2
  <2> DEFINE a == Append(answer[r], Chunk(2))
  <2>0. pc[r] = "chunk2" /\ pc' = [pc EXCEPT ![r] = "done"]
    BY <1>2, <1>8
  <2>1. \/ answer[r] = <<>> /\ held[r] = {1}
        \/ answer[r] = Half /\ held[r] = {}
    BY <1>4, <2>0 DEF Own, Sending
  <2>2. \/ a = <<Chunk(2)>> /\ held[r] = {1}
        \/ a = Whole
    BY <2>1, PlainPieces, Zenon
  <2>3. "raw_status" \notin touched[r] => Due(resp[r].code, a)
    <3>1. "raw_status" \notin touched[r] => (held[r] = {1} <=> resp[r].code >= 400)
      BY <1>3, <1>4, <2>0, Zenon DEF Own, OwnStatus
    <3>2. "raw_status" \notin touched[r] => a = Whole
      BY <1>3, <2>2, <3>1, Zenon
    <3>3. ~(resp[r].code >= 400) => resp[r].code < 400
      BY <1>3 DEF LuaCodes, Statuses
    <3> QED
      BY <1>3, <3>2, <3>3, Zenon DEF Due
  <2>4. Len(a) <= 2 /\ \A i \in 1 .. Len(a) : a[i].ids = Nil
    BY <2>2, PlainPieces
  <2> HIDE DEF a
  <2>5. Leaves(r, a, held[r], "done")
    BY <2>3, <2>4 DEF Leaves
  <2>6. a \in Seq(Pieces) /\ answer' = [answer EXCEPT ![r] = a]
    BY <1>1, <1>6, <1>8 DEF a
  <2> QED
    BY <1>1, <1>4, <2>0, <2>5, <2>6, FilterStep
<1> QED
  BY <1>7, <1>8 DEF Chunks

\* A piece of an error's body is held back.
LEMMA HoldLua == ASSUME ChargeInv, LuaInv, NEW r \in Requests, hold_body_chunk(r) PROVE LuaInv'
<1>1. /\ Failed(r) /\ held' = [held EXCEPT ![r] = held[r] \cup {1}] /\ answer' = answer
      /\ pc[r] = "chunk1" /\ pc' = [pc EXCEPT ![r] = "chunk2"]
      /\ UNCHANGED <<jwtVars, reqVars, runnerVars, respVars, request_body, raw_status, touched>>
  BY DEF hold_body_chunk, Goto
<1>2. /\ answer \in [Requests -> Seq(Pieces)]
      /\ "raw_status" \notin touched[r] => resp[r].code >= 400
  BY <1>1, FilterFacts
<1>3. answer[r] = <<>> /\ held[r] = {}
  BY <1>1 DEF LuaInv, Own, Sending
<1>4. /\ answer[r] \in Seq(Pieces) /\ {1} \in SUBSET Chunks
      /\ answer' = [answer EXCEPT ![r] = answer[r]] /\ held' = [held EXCEPT ![r] = {1}]
  BY <1>1, <1>2, <1>3 DEF Chunks
<1>5. Leaves(r, answer[r], {1}, "chunk2")
  <2>1. Len(answer[r]) = 0
    BY <1>3
  <2> QED
    BY <1>2, <1>3, <2>1 DEF Leaves
<1> QED
  BY <1>1, <1>4, <1>5, FilterStep

\* The last piece: the error is reported.
LEMMA RewriteLua == ASSUME ChargeInv, LuaInv, NEW r \in Requests, Rewrite(r) PROVE LuaInv'
<1> DEFINE e == ErrorPiece(r, held[r] \cup {2})
           a == Append(answer[r], e)
<1>1. /\ Failed(r) /\ answer' = [answer EXCEPT ![r] = a] /\ held' = held
      /\ pc[r] = "chunk2" /\ pc' = [pc EXCEPT ![r] = "done"]
      /\ UNCHANGED <<jwtVars, reqVars, runnerVars, respVars, request_body, raw_status, touched>>
  BY DEF Rewrite, Goto
<1>2. /\ answer \in [Requests -> Seq(Pieces)] /\ held \in [Requests -> SUBSET Chunks]
      /\ raw_status[kind[r]] \in {0} \cup LuaCodes /\ kind[r] \in {"rpc", "scan"}
      /\ resp[r].code \in LuaCodes
      /\ "raw_status" \notin touched[r] => resp[r].code >= 400
  BY <1>1, FilterFacts
<1>3. Own(r) /\ answer[r] \in Seq(Pieces) /\ held[r] \in SUBSET Chunks
      /\ held' = [held EXCEPT ![r] = held[r]]
  BY <1>1, <1>2 DEF LuaInv
<1>4. e \in Pieces /\ e.text = held[r] \cup {2} /\ e.code = raw_status[kind[r]]
  BY <1>2, <1>3 DEF ErrorPiece, Pieces, LuaCodes, Chunks, LuaInv, LuaTypes
<1>5. a \in Seq(Pieces)
  BY <1>3, <1>4
<1>6. \/ answer[r] = <<>> /\ held[r] = {1}
      \/ answer[r] = Half /\ held[r] = {}
  BY <1>1, <1>3 DEF Own, Sending
<1>7. Len(a) <= 2
  <2>1. Len(answer[r]) = 0 \/ Len(answer[r]) = 1
    BY <1>6, PlainPieces
  <2>2. Len(a) = Len(answer[r]) + 1
    BY <1>3, <1>4
  <2>3. CASE Len(answer[r]) = 0
    BY <2>2, <2>3
  <2>4. CASE Len(answer[r]) = 1
    BY <2>2, <2>4
  <2> QED
    BY <2>1, <2>3, <2>4
<1>8. "raw_status" \notin touched[r] => Due(resp[r].code, a)
  <2> SUFFICES ASSUME "raw_status" \notin touched[r] PROVE Due(resp[r].code, a)
    OBVIOUS
  <2>1. /\ (held[r] = {1} <=> resp[r].code >= 400)
        /\ raw_status[kind[r]] = resp[r].code
    BY <1>1, <1>2, <1>3 DEF Own, OwnStatus, During
  <2>2. answer[r] = <<>> /\ held[r] = {1}
    BY <1>2, <1>6, <2>1
  <2>3. Len(a) = 1 /\ a[1] = e
    BY <1>3, <1>4, <2>2
  <2> QED
    BY <1>2, <1>4, <2>1, <2>2, <2>3 DEF Chunks, LuaCodes, Statuses, Due
<1>9. "request_body" \notin touched[r] => \A i \in 1 .. Len(a) : a[i].ids \in {r, Nil}
  <2> SUFFICES ASSUME "request_body" \notin touched[r], NEW i \in 1 .. Len(a)
               PROVE  a[i].ids \in {r, Nil}
    OBVIOUS
  <2>1. kind[r] = "rpc" => request_body = get_body(r)
    BY <1>1, <1>3 DEF Own, OwnBody
  <2>2. e.ids \in {r, Nil}
    BY <2>1 DEF ErrorPiece, get_body
  <2>3. Len(answer[r]) \in Nat /\ Len(a) = Len(answer[r]) + 1 /\ a[Len(answer[r]) + 1] = e
        /\ \A j \in 1 .. Len(answer[r]) : a[j] = answer[r][j]
    BY <1>3, <1>4
  <2>4. CASE i \in 1 .. Len(answer[r])
    BY <1>3, <2>3, <2>4 DEF Own, OwnBody
  <2>5. CASE i = Len(answer[r]) + 1
    BY <2>2, <2>3, <2>5
  <2> QED
    BY <2>3, <2>4, <2>5
<1>10. Leaves(r, a, held[r], "done")
  BY <1>7, <1>8, <1>9 DEF Leaves
<1> QED
  BY <1>1, <1>3, <1>5, <1>10, FilterStep

\* The request body there is decodes to nothing.
LEMMA ErrorLua == ASSUME ChargeInv, LuaInv, NEW r \in Requests, LuaError(r) PROVE LuaInv'
<1>1. /\ Failed(r) /\ kind[r] = "rpc" /\ ~Decodes /\ answer' = answer /\ held' = held
      /\ pc[r] = "chunk2" /\ pc' = [pc EXCEPT ![r] = "broken"]
      /\ UNCHANGED <<jwtVars, reqVars, runnerVars, respVars, request_body, raw_status, touched>>
  BY DEF LuaError, Goto, luaVars
<1>2. /\ answer \in [Requests -> Seq(Pieces)] /\ held \in [Requests -> SUBSET Chunks]
      /\ "raw_status" \notin touched[r] => resp[r].code >= 400
  BY <1>1, FilterFacts
<1>3. Own(r) /\ answer[r] \in Seq(Pieces) /\ held[r] \in SUBSET Chunks
      /\ held' = [held EXCEPT ![r] = held[r]] /\ answer' = [answer EXCEPT ![r] = answer[r]]
  BY <1>1, <1>2 DEF LuaInv
<1>4. Len(answer[r]) <= 2
  BY <1>3 DEF Own, Sending
<1>5. "request_body" \notin touched[r] =>
        /\ \A i \in 1 .. Len(answer[r]) : answer[r][i].ids \in {r, Nil}
        /\ body[r] \in {"huge", "null", "junk"}
  <2>1. "request_body" \notin touched[r] => request_body = get_body(r)
    BY <1>1, <1>3 DEF Own, OwnBody
  <2>2. request_body = get_body(r) => body[r] \in {"huge", "null", "junk"}
    BY <1>1, RequestsAssumption DEF Decodes, get_body
  <2> QED
    BY <1>3, <2>1, <2>2 DEF Own, OwnBody
<1>6. Leaves(r, answer[r], held[r], "broken")
  BY <1>1, <1>2, <1>4, <1>5 DEF Leaves
<1> QED
  BY <1>1, <1>3, <1>6, FilterStep

\* However the phases of requests interleave, the invariant holds.
THEOREM LuaInvariance == Spec => []LuaInv
<1>1. ChargeInv /\ JwtInv /\ LuaInv /\ [Next]_vars => LuaInv'
  <2> SUFFICES ASSUME ChargeInv, JwtInv, LuaInv, [Next]_vars PROVE LuaInv'
    OBVIOUS
  <2>1. ASSUME UNCHANGED vars PROVE LuaInv'
    <3>1. UNCHANGED <<reqVars, luaVars, status, lengthKept, pc, resp, jpc, ids>>
      BY <2>1 DEF vars, reqVars, luaVars, respVars, jwtVars, runnerVars
    <3>2. {} \in SUBSET Requests /\ ids \subseteq Requests
      BY DEF LuaInv, LuaTypes
    <3> QED
      BY <3>1, <3>2, RunnerStep
  <2>2. ASSUME NEW r \in Requests, Lua(r) PROVE LuaInv'
    BY <2>2, BodyLua, HeaderLua, PassLua, HoldLua, RewriteLua, ErrorLua DEF Lua, body_filter
  <2> QED
    BY <2>1, <2>2, RunnerLua, UpstreamLua DEF Next, AllEnded
<1> QED
  BY InitLua, ChargeInvariance, JwtInvariance, <1>1, PTL DEF Spec

\* The variables of the gateway keep their types.
THEOREM TypeCorrect == Spec => []TypeOK
<1>1. ChargeInv /\ JwtInv /\ LuaInv => TypeOK
  <2> SUFFICES ASSUME ChargeInv, JwtInv, LuaInv PROVE TypeOK
    OBVIOUS
  <2>1. \A r \in Requests : answer[r] \in Seq(Pieces) /\ Len(answer[r]) <= 2
    BY DEF LuaInv, LuaTypes, Own, Sending
  <2> QED
    BY <2>1 DEF JwtInv, ChargeInv, ChargeTypes, LuaInv, LuaTypes, TypeOK, Places, Responses,
                LuaCodes
<1> QED
  BY ChargeInvariance, JwtInvariance, LuaInvariance, <1>1, PTL

\* What the Lua filters send for a request is its own, as far as the module
\* variables they read are still the ones it has set.
THEOREM OwnAnswer == Spec => []AnswerIsOwn
<1>1. LuaInv => AnswerIsOwn
  BY DEF LuaInv, Own, OwnStatus, OwnBody, During, Due, AnswerIsOwn
<1> QED
  BY LuaInvariance, <1>1, PTL

\* A client that is sent the Content-Length of the response is sent the response,
\* except for what scan-resp-rewrite makes of a 5xx.
THEOREM LengthIsRight == Spec => []LengthFits
<1>1. LuaInv => LengthFits
  <2> SUFFICES ASSUME LuaInv, NEW r \in Requests, Ended(r), kind[r] # "api", lengthKept[r],
                      "raw_status" \notin touched[r]
               PROVE  answer[r] = Whole \/ (kind[r] = "scan" /\ status[r] >= 500)
    BY DEF LengthFits
  <2>1. Own(r) /\ pc[r] \in {"done", "broken"} /\ pc[r] \in During
    BY DEF LuaInv, Ended, During
  <2>2. ~Hidden(r) /\ status[r] = resp[r].code /\ resp[r].code \in LuaCodes
    BY <2>1 DEF Own, OwnStatus, Routed
  <2>3. CASE resp[r].code < 400
    <3>1. ~(resp[r].code >= 400)
      BY <2>2, <2>3 DEF LuaCodes, Statuses
    <3>2. pc[r] = "done"
      BY <2>1, <3>1 DEF Own, OwnStatus
    <3>3. Due(resp[r].code, answer[r])
      BY <2>1, <3>2 DEF Own, OwnStatus
    <3> QED
      BY <2>3, <3>3 DEF Due
  <2>4. CASE resp[r].code >= 400
    BY <2>2, <2>4 DEF Hidden, LuaCodes, Statuses
  <2> QED
    BY <2>2, <2>3, <2>4 DEF LuaCodes, Statuses
<1> QED
  BY LuaInvariance, <1>1, PTL
=============================================================================
