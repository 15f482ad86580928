----------------------------- MODULE ConfCache -----------------------------
(***************************************************************************)
(* The runner's configuration cache (internal/plugin/conf.go) and the      *)
(* protocol it serves: APISIX sends a route's plugin configurations once   *)
(* with PrepareConf, keeps the token it gets back, and names that token in *)
(* every HTTPReqCall and HTTPRespCall (internal/plugin/plugin.go).  Both   *)
(* sides forget: the runner by the TTL of its two caches, APISIX by its    *)
(* own, shorter one (internal/server/server.go getConfCacheTTL).           *)
(*                                                                         *)
(* ConfCache.Set holds the lock and each Get is one call of a synchronised *)
(* cache, so each RPC is one step.  APISIX is external.                    *)
(***************************************************************************)
EXTENDS Integers, Sequences

CONSTANTS
  Workers,      \* APISIX workers; each has its own table of tokens
  Routes,       \* routes with an external-plugin configuration
  KeyOf,        \* the idempotent key of a route's configuration, or NoKey
  NoKey,        \* "": APISIX before 2.9 sends none
  Conf,         \* the plugin names a route is configured with, in order
  Registered,   \* the plugins in the runner's registry
  Unparsable,   \* <<route, plugin>>: configurations that ParseConf rejects
  ApisixTTL,    \* APISIX_CONF_EXPIRE_TIME
  MaxTokens,    \* bound: tokens a runner hands out (2^32 - 1 in the code)
  MaxTries,     \* calls APISIX makes for a request before it gives up
  MaxRestarts,  \* bound: restarts of the runner
  Deployments   \* how the runner may be run: see deployment

\* getConfCacheTTL: the amplification factor is 1.2, and seconds are whole.
RunnerTTL == (ApisixTTL * 6) \div 5

Keys == {KeyOf[k] : k \in Routes}

ASSUME TTLAssumption == ApisixTTL \in Nat \ {0}
ASSUME BoundAssumption ==
  MaxTokens \in Nat /\ MaxTries \in Nat \ {0} /\ MaxRestarts \in Nat
ASSUME ConfAssumption == Conf \in [Routes -> Seq(STRING)]
\* The key identifies the configuration: no two routes share one.
ASSUME KeyAssumption ==
  \A j, k \in Routes : j # k /\ KeyOf[j] = KeyOf[k] => KeyOf[k] = NoKey
ASSUME DeploymentAssumption ==
  Deployments \subseteq [managed : BOOLEAN, prompt : BOOLEAN]

VARIABLES
  deployment,    \* managed: APISIX starts the runner and restarts with it;
                 \* prompt: no call is lost, or outlasts a unit of time
  tokenCounter,  \* ConfCache.tokenCounter
  tokenCache,    \* token -> configuration and time left
  keyCache,      \* key -> token and time left
  held,          \* APISIX: worker -> route -> token and time left
  wpc,           \* APISIX: what each worker is doing
  call,          \* APISIX: the route and token of the worker's request
  tries,         \* APISIX: calls it has made for the request
  restarts

cacheVars == <<tokenCounter, tokenCache, keyCache>>
apisixVars == <<held, wpc, call, tries>>
vars == <<deployment, cacheVars, apisixVars, restarts>>

Tokens == 1 .. MaxTokens

\* What Set keeps of a route: unknown plugins and configurations that do not
\* parse are skipped.
RuleConf(k) ==
  SelectSeq(Conf[k], LAMBDA p : p \in Registered /\ <<k, p>> \notin Unparsable)

Absent == [conf |-> <<>>, left |-> 0]
NoToken == [token |-> 0, left |-> 0]
Live(e) == e.left > 0

Init ==
  /\ deployment \in Deployments
  /\ tokenCounter = 0
  /\ tokenCache = [t \in Tokens |-> Absent]
  /\ keyCache = [x \in Keys |-> NoToken]
  /\ held = [w \in Workers |-> [k \in Routes |-> NoToken]]
  /\ wpc = [w \in Workers |-> "idle"]
  /\ call \in [Workers -> [route : Routes, token : {0}]]
  /\ tries = [w \in Workers |-> 0]
  /\ restarts = 0

-----------------------------------------------------------------------------
(* APISIX *)

\* A request for route k: with a token at hand the worker calls at once.
StartRequest(w, k) ==
  /\ wpc[w] = "idle"
  /\ wpc' = [wpc EXCEPT ![w] = IF Live(held[w][k]) THEN "call" ELSE "prepare"]
  /\ call' = [call EXCEPT ![w] = [route |-> k, token |-> held[w][k].token]]
  /\ tries' = [tries EXCEPT ![w] = 0]
  /\ UNCHANGED <<deployment, cacheVars, held, restarts>>

\* The call is never answered: the connection breaks, or the client leaves.
CallLost(w) ==
  /\ ~deployment.prompt
  /\ wpc[w] = "call"
  /\ wpc' = [wpc EXCEPT ![w] = "idle"]
  /\ UNCHANGED <<deployment, cacheVars, held, call, tries, restarts>>

-----------------------------------------------------------------------------
(* The runner *)

\* The worker gets token t for its route and keeps it for ApisixTTL.
Answer(w, t) ==
  /\ held' = [held EXCEPT ![w][call[w].route] = [token |-> t, left |-> ApisixTTL]]
  /\ call' = [call EXCEPT ![w].token = t]
  /\ wpc' = [wpc EXCEPT ![w] = "call"]

\* Set, key found: the cached token is returned.  Looking the key up renews
\* the key, but not the configuration the token stands for.
SetHit(w) ==
  LET x == KeyOf[call[w].route] IN
  /\ wpc[w] = "prepare"
  /\ x # NoKey /\ Live(keyCache[x])
  /\ keyCache' = [keyCache EXCEPT ![x].left = RunnerTTL]
  /\ Answer(w, keyCache[x].token)
  /\ UNCHANGED <<deployment, tokenCounter, tokenCache, tries, restarts>>

\* Mutant: the counter is read but not increased.
SetMissSameToken(w) ==
  LET k == call[w].route
      t == tokenCounter + 1
  IN
  /\ wpc[w] = "prepare"
  /\ KeyOf[k] = NoKey \/ ~Live(keyCache[KeyOf[k]])
  /\ t <= MaxTokens
  /\ tokenCache' = [tokenCache EXCEPT ![t] = [conf |-> RuleConf(k), left |-> RunnerTTL]]
  /\ keyCache' = [keyCache EXCEPT ![KeyOf[k]] = [token |-> t, left |-> RunnerTTL]]
  /\ Answer(w, t)
  /\ UNCHANGED <<deployment, tokenCounter, tries, restarts>>

\* Set, no key or key not found: a new token.
SetMiss(w) ==
  LET k == call[w].route
      t == tokenCounter + 1
  IN
  /\ wpc[w] = "prepare"
  /\ KeyOf[k] = NoKey \/ ~Live(keyCache[KeyOf[k]])
  /\ t <= MaxTokens
  /\ tokenCounter' = t
  /\ tokenCache' = [tokenCache EXCEPT ![t] = [conf |-> RuleConf(k), left |-> RunnerTTL]]
  /\ keyCache' = [keyCache EXCEPT ![KeyOf[k]] = [token |-> t, left |-> RunnerTTL]]
  /\ Answer(w, t)
  /\ UNCHANGED <<deployment, tries, restarts>>

PrepareConf(w) == SetHit(w) \/ SetMiss(w)

\* Mutant: SkipTTLExtensionOnHit(true) for the token cache.
CallFoundNotRenewed(w) ==
  /\ wpc[w] = "call"
  /\ call[w].token \in Tokens /\ Live(tokenCache[call[w].token])
  /\ wpc' = [wpc EXCEPT ![w] = "idle"]
  /\ UNCHANGED <<deployment, cacheVars, held, call, tries, restarts>>

\* HTTPReqCall or HTTPRespCall with a token the cache knows: the configuration
\* is renewed and the filters run.
CallFound(w) ==
  /\ wpc[w] = "call"
  /\ call[w].token \in Tokens /\ Live(tokenCache[call[w].token])
  /\ tokenCache' = [tokenCache EXCEPT ![call[w].token].left = RunnerTTL]
  /\ wpc' = [wpc EXCEPT ![w] = "idle"]
  /\ UNCHANGED <<deployment, tokenCounter, keyCache, held, call, tries, restarts>>

\* Mutant: one call too many.
CallNotFoundOffByOne(w) ==
  /\ wpc[w] = "call"
  /\ ~(call[w].token \in Tokens /\ Live(tokenCache[call[w].token]))
  /\ held' = [held EXCEPT ![w][call[w].route] = NoToken]
  /\ tries' = [tries EXCEPT ![w] = @ + 1]
  /\ wpc' = [wpc EXCEPT ![w] = IF tries[w] + 1 <= MaxTries THEN "prepare" ELSE "failed"]
  /\ UNCHANGED <<deployment, cacheVars, call, restarts>>

\* The cache does not know the token: APISIX drops it and prepares the
\* configuration again, until it has tried often enough.
CallNotFound(w) ==
  /\ wpc[w] = "call"
  /\ ~(call[w].token \in Tokens /\ Live(tokenCache[call[w].token]))
  /\ held' = [held EXCEPT ![w][call[w].route] = NoToken]
  /\ tries' = [tries EXCEPT ![w] = @ + 1]
  /\ wpc' = [wpc EXCEPT ![w] = IF tries[w] + 1 < MaxTries THEN "prepare" ELSE "failed"]
  /\ UNCHANGED <<deployment, cacheVars, call, restarts>>

\* APISIX answers the client with an error.
GiveUp(w) ==
  /\ wpc[w] = "failed"
  /\ wpc' = [wpc EXCEPT ![w] = "idle"]
  /\ UNCHANGED <<deployment, cacheVars, held, call, tries, restarts>>

Aged(e, gone) == IF e.left > 1 THEN [e EXCEPT !.left = @ - 1] ELSE gone

\* A unit of time passes for every cache entry on both sides.
Tick ==
  /\ deployment.prompt => \A w \in Workers : wpc[w] # "call"
  /\ tokenCache' = [t \in Tokens |-> Aged(tokenCache[t], Absent)]
  /\ keyCache' = [x \in Keys |-> Aged(keyCache[x], NoToken)]
  /\ held' = [w \in Workers |-> [k \in Routes |-> Aged(held[w][k], NoToken)]]
  /\ UNCHANGED <<deployment, tokenCounter, wpc, call, tries, restarts>>

\* The runner starts again with empty caches and its counter at zero, and open
\* connections are gone.  APISIX forgets its tokens only if it manages the runner.
RunnerRestart ==
  /\ restarts < MaxRestarts
  /\ restarts' = restarts + 1
  /\ tokenCounter' = 0
  /\ tokenCache' = [t \in Tokens |-> Absent]
  /\ keyCache' = [x \in Keys |-> NoToken]
  /\ held' = IF deployment.managed
               THEN [w \in Workers |-> [k \in Routes |-> NoToken]] ELSE held
  /\ wpc' = [w \in Workers |-> IF wpc[w] = "call" THEN "idle" ELSE wpc[w]]
  /\ UNCHANGED <<deployment, call, tries>>

Next ==
  \/ \E w \in Workers :
       \/ \E k \in Routes : StartRequest(w, k)
       \/ PrepareConf(w) \/ CallFound(w) \/ CallNotFound(w) \/ GiveUp(w) \/ CallLost(w)
  \/ Tick
  \/ RunnerRestart

Spec == Init /\ [][Next]_vars

-----------------------------------------------------------------------------
(* Properties *)

Entries == [conf : {<<>>} \cup {RuleConf(k) : k \in Routes}, left : 0 .. RunnerTTL]

\* Type correctness.
TypeOK ==
  /\ deployment \in Deployments
  /\ tokenCounter \in 0 .. MaxTokens
  /\ tokenCache \in [Tokens -> Entries]
  /\ keyCache \in [Keys -> [token : 0 .. MaxTokens, left : 0 .. RunnerTTL]]
  /\ held \in [Workers -> [Routes -> [token : 0 .. MaxTokens, left : 0 .. ApisixTTL]]]
  /\ wpc \in [Workers -> {"idle", "prepare", "call", "failed"}]
  /\ call \in [Workers -> [route : Routes, token : 0 .. MaxTokens]]
  /\ tries \in [Workers -> 0 .. MaxTries]
  /\ restarts \in 0 .. MaxRestarts

\* If token t still names a configuration, it is route k's.
Means(t, k) == t \in Tokens /\ Live(tokenCache[t]) => tokenCache[t].conf = RuleConf(k)

\* What a call finds under its token is its own route's chain of plugins: a
\* request never runs under another route's authentication and billing.
TokenMeansRoute ==
  \A w \in Workers : wpc[w] = "call" => Means(call[w].token, call[w].route)

\* It is so whenever APISIX manages the runner.
ManagedTokenMeansRoute == deployment.managed => TokenMeansRoute

\* Everything that can still reach the token cache names only tokens already
\* handed out, and each of them means its own route.
Issued(t, k) == t <= tokenCounter /\ Means(t, k)

\* A request that is still going has a call left.
CallsLeft == \A w \in Workers : wpc[w] \in {"prepare", "call"} => tries[w] < MaxTries

\* The inductive invariant.
TokensInv ==
  /\ TypeOK
  /\ CallsLeft
  /\ \A t \in Tokens : t > tokenCounter => ~Live(tokenCache[t])
  /\ \A k \in Routes :
       KeyOf[k] # NoKey /\ Live(keyCache[KeyOf[k]]) => Issued(keyCache[KeyOf[k]].token, k)
  /\ deployment.managed =>
       \A w \in Workers :
         /\ wpc[w] = "call" => Issued(call[w].token, call[w].route)
         /\ \A k \in Routes : Live(held[w][k]) => Issued(held[w][k].token, k)

\* "ensure the conf cached in the runner expires after the token in APISIX"
\* (server.go 162): while APISIX keeps a token, the runner keeps what it names.
ConfOutlivesToken ==
  \A w \in Workers : \A k \in Routes :
    Live(held[w][k]) =>
      held[w][k].token \in Tokens /\ Live(tokenCache[held[w][k].token])

\* It does, if APISIX manages the runner and uses what it prepares at once.
PromptConfOutlivesToken == deployment.managed /\ deployment.prompt => ConfOutlivesToken

\* As long as calls are prompt, a key never outlives the configuration of its
\* token.  If it did, Set would give that dead token to every retry, and renew
\* the key each time.
KeyNamesLiveToken ==
  deployment.prompt =>
    \A x \in Keys \ {NoKey} : Live(keyCache[x]) => Live(tokenCache[keyCache[x].token])

\* "Don't worry, APISIX will retry" (getting-started.md 286): as long as calls
\* are prompt, no request fails, even when the runner restarts on its own.
RetrySucceeds == deployment.prompt => \A w \in Workers : wpc[w] # "failed"
=============================================================================
