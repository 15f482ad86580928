------------------------------ MODULE JwtAuth ------------------------------
(***************************************************************************)
(* The jwt-auth plugin (plugins/auth/auth_jwt.go): one middleware for each *)
(* JWT key, in a map that all goroutines of the runner share without a     *)
(* lock.                                                                   *)
(*                                                                         *)
(* Each access to the field or to the map is a step.  An assignment to a   *)
(* map entry takes two, since it is not atomic: the runtime ends the       *)
(* process when it meets another access to the same map in between, and    *)
(* need not notice.  A middleware is abstracted to the key and the lookup  *)
(* it was made with.                                                       *)
(***************************************************************************)
EXTENDS JwtConf

CONSTANT Requests  \* requests of the routes with this plugin, each on a goroutine

VARIABLES
  jpc,      \* where each request is in RequestFilter
  conf,     \* JwtAuthConf of its route
  map,      \* j.jwtAuthMiddlewares: the number of the map it points to, or Nil
  mids,     \* the entries of each map made
  made,     \* the number of maps made by this process
  mine,     \* jwtMid: a middleware the request has made, then the one it got
  target,   \* the map the request assigns to
  cold      \* history: requests that found no map

vars == <<jpc, conf, map, mids, made, mine, target, cold>>

Empty == [k \in Keys |-> Nil]
Entry(r) == mids[map][conf[r].key]

Init ==
  /\ jpc = [r \in Requests |-> "idle"]
  /\ conf \in [Requests -> Confs]
  /\ map = Nil
  /\ mids = [m \in 1 .. MaxMaps |-> Empty]
  /\ made = 0
  /\ mine = [r \in Requests |-> Nil]
  /\ target = [r \in Requests |-> Nil]
  /\ cold = {}

Goto(r, from, to) == jpc[r] = from /\ jpc' = [jpc EXCEPT ![r] = to]

-----------------------------------------------------------------------------

\* The first test of RequestFilter.
Start(r) ==
  /\ Goto(r, "idle", IF conf[r].lookup = Nil THEN "refused" ELSE "check")
  /\ UNCHANGED <<conf, map, mids, made, mine, target, cold>>

\* After the map is there: a key must be configured.
Keyed(r) == IF conf[r].key = Nil THEN "refused" ELSE "lookup"

\* Mutant: the test for nil is missing.
CheckMakes(r) ==
  /\ Goto(r, "check", "make")
  /\ cold' = cold \cup {r}
  /\ UNCHANGED <<conf, map, mids, made, mine, target>>

\* j.jwtAuthMiddlewares == nil
Check(r) ==
  /\ Goto(r, "check", IF map = Nil THEN "make" ELSE Keyed(r))
  /\ cold' = IF map = Nil THEN cold \cup {r} ELSE cold
  /\ UNCHANGED <<conf, map, mids, made, mine, target>>

\* j.jwtAuthMiddlewares = make(...), though another may have made one since.
Make(r) ==
  /\ made < MaxMaps
  /\ Goto(r, "make", Keyed(r))
  /\ made' = made + 1
  /\ map' = made + 1
  /\ UNCHANGED <<conf, mids, mine, target, cold>>

\* j.jwtAuthMiddlewares[key] == nil
Lookup(r) ==
  /\ Goto(r, "lookup", IF Entry(r) = Nil THEN "new" ELSE "fetch")
  /\ UNCHANGED <<conf, map, mids, made, mine, target, cold>>

\* jwt.New, which has no reason to fail for a key that is not empty.
New(r) ==
  /\ Goto(r, "new", "store")
  /\ mine' = [mine EXCEPT ![r] = [key |-> conf[r].key, lookup |-> conf[r].lookup]]
  /\ UNCHANGED <<conf, map, mids, made, target, cold>>

\* j.jwtAuthMiddlewares[jwtKey] = jwtMid
BeginStore(r) ==
  /\ Goto(r, "store", "storing")
  /\ target' = [target EXCEPT ![r] = map]
  /\ UNCHANGED <<conf, map, mids, made, mine, cold>>

\* The map assigned to may no longer be the plugin's.
EndStore(r) ==
  /\ Goto(r, "storing", "fetch")
  /\ mids' = [mids EXCEPT ![target[r]][conf[r].key] = mine[r]]
  /\ target' = [target EXCEPT ![r] = Nil]
  /\ UNCHANGED <<conf, map, made, mine, cold>>

\* Mutant: any entry of the map is taken.
FetchAny(r) ==
  /\ Goto(r, "fetch", "verify")
  /\ \E k \in Keys : mine' = [mine EXCEPT ![r] = mids[map][k]]
  /\ UNCHANGED <<conf, map, mids, made, target, cold>>

\* return j.jwtAuthMiddlewares[jwtKey]: the map is read again.
Fetch(r) ==
  /\ Goto(r, "fetch", "verify")
  /\ mine' = [mine EXCEPT ![r] = Entry(r)]
  /\ UNCHANGED <<conf, map, mids, made, target, cold>>

\* A nil middleware: its MiddlewareFunc panics, and the connection is closed.
Panic(r) ==
  /\ mine[r] = Nil
  /\ Goto(r, "verify", "panicked")
  /\ UNCHANGED <<conf, map, mids, made, mine, target, cold>>

\* The middleware answers 401, or the claims have no user for the path (400).
Reject(r) ==
  /\ mine[r] # Nil
  /\ Goto(r, "verify", "refused")
  /\ UNCHANGED <<conf, map, mids, made, mine, target, cold>>

\* extractUserInfoFromJwt.  The client has put its token where the route says;
\* a middleware that looks elsewhere does not find it.
Pass(r) ==
  /\ mine[r] # Nil /\ mine[r].lookup = conf[r].lookup
  /\ Goto(r, "verify", "passed")
  /\ UNCHANGED <<conf, map, mids, made, mine, target, cold>>

\* r's next step is an access to a map that another request is assigning to.
Races(r) ==
  /\ jpc[r] \in {"lookup", "store", "fetch"}
  /\ \E q \in Requests \ {r} : jpc[q] = "storing" /\ target[q] = map

InFilter(r) == jpc[r] \notin {"idle", "refused", "panicked", "passed"}

\* The process is gone, with every request in it, and starts again without a map.
Restarted ==
  /\ jpc' = [r \in Requests |-> IF InFilter(r) THEN "panicked" ELSE jpc[r]]
  /\ map' = Nil
  /\ mids' = [m \in 1 .. MaxMaps |-> Empty]
  /\ made' = 0
  /\ mine' = [r \in Requests |-> Nil]
  /\ target' = [r \in Requests |-> Nil]
  /\ cold' = {}
  /\ UNCHANGED conf

\* "fatal error: concurrent map writes", which recover does not catch.
Fatal(r) == Races(r) /\ Restarted

RequestFilter(r) ==
  \/ Start(r) \/ Check(r) \/ Make(r) \/ Lookup(r) \/ New(r)
  \/ BeginStore(r) \/ EndStore(r) \/ Fetch(r)
  \/ Panic(r) \/ Reject(r) \/ Pass(r)

Next == \E r \in Requests : RequestFilter(r) \/ Fatal(r)

Spec == Init /\ [][Next]_vars

-----------------------------------------------------------------------------
(* Properties *)

TypeOK ==
  /\ jpc \in [Requests -> {"idle", "check", "make", "lookup", "new", "store", "storing",
                           "fetch", "verify", "refused", "panicked", "passed"}]
  /\ conf \in [Requests -> Confs]
  /\ made \in 0 .. MaxMaps
  /\ map \in 1 .. made \cup {Nil}
  /\ mids \in [1 .. MaxMaps -> [Keys -> Middlewares \cup {Nil}]]
  /\ mine \in [Requests -> Middlewares \cup {Nil}]
  /\ target \in [Requests -> 1 .. made \cup {Nil}]
  /\ cold \subseteq Requests

\* The keys of which every route looks for the token in the same place.
Uniform(k) == \A c, d \in Confs : c.key = k /\ d.key = k => c.lookup = d.lookup

\* The middleware a request gets from getJwtMiddleware verifies with the key of
\* its own route and, if the routes that share the key agree on it, looks for the
\* token where its own route says.  (The map is by key alone: of two routes that
\* share a key and differ in token_lookup, the second uses the first's.)  It gets
\* none only if two requests had found no map, and one made its map last.
MiddlewareIsOwn ==
  \A r \in Requests :
    /\ jpc[r] \in {"verify", "passed"} /\ mine[r] # Nil =>
         /\ mine[r].key = conf[r].key
         /\ Uniform(conf[r].key) => mine[r].lookup = conf[r].lookup
    /\ jpc[r] = "verify" /\ mine[r] = Nil => \E p, q \in cold : p # q

\* Every key in use has its middleware, and no request is about to change the map.
Warm ==
  /\ map # Nil
  /\ \A r \in Requests : conf[r].key # Nil => Entry(r) # Nil
  /\ \A r \in Requests : jpc[r] \notin {"make", "new", "store", "storing"}

\* Once warm, the unlocked map is safe: it stays warm, no entry changes, no
\* request is left without a middleware, and the runtime has no race to find.
WarmStaysWarm ==
  [][Warm =>
       /\ Warm' /\ mids' = mids /\ map' = map
       /\ \A r \in Requests : ~Fatal(r)
       /\ \A r \in Requests : Fetch(r) => mine'[r] # Nil]_vars
=============================================================================
