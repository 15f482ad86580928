-------------------------- MODULE ConfCacheProofs --------------------------
(***************************************************************************)
(* Proofs about ConfCache, for every set of workers and routes and for     *)
(* every TTL.                                                              *)
(***************************************************************************)
EXTENDS ConfCache, TLAPS

\* The amplified TTL is a natural number, and not below APISIX's.
LEMMA RunnerTTLType == RunnerTTL \in Nat /\ RunnerTTL >= ApisixTTL /\ RunnerTTL > 0
BY TTLAssumption DEF RunnerTTL

\* Ageing keeps an entry of the caches and of APISIX's tables well typed.
LEMMA AgedType ==
  /\ \A e \in Entries : Aged(e, Absent) \in Entries
  /\ \A n \in Nat : \A e \in [token : 0 .. MaxTokens, left : 0 .. n] :
       Aged(e, NoToken) \in [token : 0 .. MaxTokens, left : 0 .. n]
BY RunnerTTLType, BoundAssumption DEF Aged, Entries, Absent, NoToken

\* A configuration that Set has just stored is a well typed entry.
LEMMA StoredType ==
  \A k \in Routes : [conf |-> RuleConf(k), left |-> RunnerTTL] \in Entries
BY RunnerTTLType DEF Entries

\* So is one that a call has just renewed.
LEMMA RenewedType == \A e \in Entries : [e EXCEPT !.left = RunnerTTL] \in Entries
BY RunnerTTLType DEF Entries

-----------------------------------------------------------------------------
(* Type correctness *)

\* The initial states are well typed.
LEMMA InitTypeOK == Init => TypeOK
BY RunnerTTLType, TTLAssumption, BoundAssumption
DEF Init, TypeOK, Entries, Absent, NoToken

\* An answer to PrepareConf keeps APISIX's side well typed.
LEMMA AnswerType ==
  ASSUME TypeOK, NEW w \in Workers, NEW t \in 0 .. MaxTokens, Answer(w, t)
  PROVE  /\ held' \in [Workers -> [Routes -> [token : 0 .. MaxTokens, left : 0 .. ApisixTTL]]]
         /\ wpc' \in [Workers -> {"idle", "prepare", "call", "failed"}]
         /\ call' \in [Workers -> [route : Routes, token : 0 .. MaxTokens]]
<1>1. call[w].route \in Routes
  BY DEF TypeOK
<1>2. [token |-> t, left |-> ApisixTTL] \in [token : 0 .. MaxTokens, left : 0 .. ApisixTTL]
  BY TTLAssumption
<1>3. [held[w] EXCEPT ![call[w].route] = [token |-> t, left |-> ApisixTTL]]
        \in [Routes -> [token : 0 .. MaxTokens, left : 0 .. ApisixTTL]]
  BY <1>1, <1>2 DEF TypeOK
<1>4. held' = [held EXCEPT ![w] =
                 [held[w] EXCEPT ![call[w].route] = [token |-> t, left |-> ApisixTTL]]]
  BY DEF Answer, TypeOK
<1>5. held' \in [Workers -> [Routes -> [token : 0 .. MaxTokens, left : 0 .. ApisixTTL]]]
  BY <1>3, <1>4 DEF TypeOK
<1>6. wpc' \in [Workers -> {"idle", "prepare", "call", "failed"}]
  BY DEF Answer, TypeOK
<1>7. call' \in [Workers -> [route : Routes, token : 0 .. MaxTokens]]
  BY DEF Answer, TypeOK
<1> QED
  BY <1>5, <1>6, <1>7

\* Every step keeps the state well typed.
LEMMA NextTypeOK == TypeOK /\ CallsLeft /\ [Next]_vars => TypeOK'
<1> SUFFICES ASSUME TypeOK, CallsLeft, [Next]_vars PROVE TypeOK'
  OBVIOUS
<1> USE RunnerTTLType, TTLAssumption, BoundAssumption
<1>1. ASSUME NEW w \in Workers, NEW k \in Routes, StartRequest(w, k) PROVE TypeOK'
  BY <1>1 DEF TypeOK, StartRequest, cacheVars
<1>2. ASSUME NEW w \in Workers, SetHit(w) PROVE TypeOK'
  <2> DEFINE x == KeyOf[call[w].route]
  <2>1. x \in Keys
    BY DEF TypeOK, Keys
  <2>2. keyCache[x].token \in 0 .. MaxTokens
    BY <2>1 DEF TypeOK
  <2>3. Answer(w, keyCache[x].token)
    BY <1>2 DEF SetHit
  <2>4. keyCache' \in [Keys -> [token : 0 .. MaxTokens, left : 0 .. RunnerTTL]]
    BY <1>2, <2>1 DEF SetHit, TypeOK
  <2> QED
    BY <1>2, <2>2, <2>3, <2>4, AnswerType DEF SetHit, TypeOK
<1>3. ASSUME NEW w \in Workers, SetMiss(w) PROVE TypeOK'
  <2> DEFINE k == call[w].route
  <2> DEFINE t == tokenCounter + 1
  <2>1. k \in Routes /\ KeyOf[k] \in Keys
    BY DEF TypeOK, Keys
  <2>2. t \in 0 .. MaxTokens /\ t \in Tokens
    BY <1>3 DEF SetMiss, TypeOK, Tokens
  <2>3. Answer(w, t)
    BY <1>3 DEF SetMiss
  <2>4. keyCache' \in [Keys -> [token : 0 .. MaxTokens, left : 0 .. RunnerTTL]]
    <3>1. [token |-> t, left |-> RunnerTTL] \in [token : 0 .. MaxTokens, left : 0 .. RunnerTTL]
      BY <2>2
    <3> QED
      BY <1>3, <2>1, <3>1 DEF SetMiss, TypeOK
  <2>5. tokenCache' \in [Tokens -> Entries]
    BY <1>3, <2>1, <2>2, StoredType DEF SetMiss, TypeOK
  <2> QED
    BY <1>3, <2>2, <2>3, <2>4, <2>5, AnswerType DEF SetMiss, TypeOK
<1>4. ASSUME NEW w \in Workers, CallFound(w) PROVE TypeOK'
  <2> DEFINE t == call[w].token
  <2>1. t \in Tokens /\ tokenCache' = [tokenCache EXCEPT ![t].left = RunnerTTL]
    BY <1>4 DEF CallFound
  <2>2. [tokenCache[t] EXCEPT !.left = RunnerTTL] \in Entries
    BY <2>1, RenewedType DEF TypeOK
  <2>3. tokenCache' \in [Tokens -> Entries]
    BY <2>1, <2>2 DEF TypeOK
  <2> QED
    BY <1>4, <2>3 DEF CallFound, TypeOK
<1>5. ASSUME NEW w \in Workers, CallNotFound(w) PROVE TypeOK'
  <2> DEFINE k == call[w].route
  <2>1. k \in Routes
    BY DEF TypeOK
  <2>2. NoToken \in [token : 0 .. MaxTokens, left : 0 .. ApisixTTL]
    BY DEF NoToken
  <2>3. held' \in [Workers -> [Routes -> [token : 0 .. MaxTokens, left : 0 .. ApisixTTL]]]
    BY <1>5, <2>1, <2>2 DEF CallNotFound, TypeOK
  <2>4. tries[w] + 1 \in 0 .. MaxTries
    BY <1>5 DEF CallNotFound, TypeOK, CallsLeft
  <2> QED
    BY <1>5, <2>3, <2>4 DEF CallNotFound, TypeOK, cacheVars
<1>6. ASSUME NEW w \in Workers, GiveUp(w) \/ CallLost(w) PROVE TypeOK'
  BY <1>6 DEF TypeOK, GiveUp, CallLost, cacheVars
<1>7. CASE Tick
  <2>1. tokenCache' \in [Tokens -> Entries]
    BY <1>7, AgedType DEF Tick, TypeOK
  <2>2. keyCache' \in [Keys -> [token : 0 .. MaxTokens, left : 0 .. RunnerTTL]]
    BY <1>7, AgedType DEF Tick, TypeOK
  <2>3. held' \in [Workers -> [Routes -> [token : 0 .. MaxTokens, left : 0 .. ApisixTTL]]]
    BY <1>7, AgedType DEF Tick, TypeOK
  <2> QED
    BY <1>7, <2>1, <2>2, <2>3 DEF Tick, TypeOK
<1>8. CASE RunnerRestart
  <2>1. Absent \in Entries /\ NoToken \in [token : 0 .. MaxTokens, left : 0 .. RunnerTTL]
        /\ NoToken \in [token : 0 .. MaxTokens, left : 0 .. ApisixTTL]
    BY DEF Entries, Absent, NoToken
  <2>2. tokenCache' \in [Tokens -> Entries]
    BY <1>8, <2>1 DEF RunnerRestart, TypeOK
  <2>3. keyCache' \in [Keys -> [token : 0 .. MaxTokens, left : 0 .. RunnerTTL]]
    BY <1>8, <2>1 DEF RunnerRestart, TypeOK
  <2>4. held' \in [Workers -> [Routes -> [token : 0 .. MaxTokens, left : 0 .. ApisixTTL]]]
    BY <1>8, <2>1 DEF RunnerRestart, TypeOK
  <2> QED
    BY <1>8, <2>2, <2>3, <2>4 DEF RunnerRestart, TypeOK
<1>9. CASE UNCHANGED vars
  BY <1>9 DEF TypeOK, vars, cacheVars, apisixVars
<1> QED
  BY <1>1, <1>2, <1>3, <1>4, <1>5, <1>6, <1>7, <1>8, <1>9 DEF Next, PrepareConf

-----------------------------------------------------------------------------
(* A token means its route *)

\* What the runner's caches owe each other, and what APISIX's tables owe them.
UnusedTokens == \A t \in Tokens : t > tokenCounter => ~Live(tokenCache[t])
KeysIssued ==
  \A k \in Routes :
    KeyOf[k] # NoKey /\ Live(keyCache[KeyOf[k]]) => Issued(keyCache[KeyOf[k]].token, k)
CallsIssued ==
  \A w \in Workers : wpc[w] = "call" => Issued(call[w].token, call[w].route)
HeldIssued ==
  \A w \in Workers : \A k \in Routes : Live(held[w][k]) => Issued(held[w][k].token, k)

\* TokensInv, part by part.
LEMMA TokensInvParts ==
  TokensInv <=> /\ TypeOK /\ CallsLeft /\ UnusedTokens /\ KeysIssued
                /\ deployment.managed => CallsIssued /\ HeldIssued
BY DEF TokensInv, UnusedTokens, KeysIssued, CallsIssued, HeldIssued

\* The same of the next state, after a step: how the runner is run is fixed.
LEMMA TokensInvNext ==
  ASSUME TypeOK', CallsLeft', UnusedTokens', KeysIssued', deployment' = deployment,
         deployment.managed => CallsIssued' /\ HeldIssued'
  PROVE  TokensInv'
BY DEF TokensInv, UnusedTokens, KeysIssued, CallsIssued, HeldIssued

\* Initially nothing is cached.
LEMMA InitTokensInv == Init => TokensInv
<1> SUFFICES ASSUME Init PROVE TokensInv
  OBVIOUS
<1>1. TypeOK
  BY InitTypeOK
<1>2. CallsLeft
  BY DEF Init, CallsLeft
<1>3. UnusedTokens
  BY DEF Init, UnusedTokens, Live, Absent
<1>4. KeysIssued
  BY DEF Init, KeysIssued, Live, NoToken, Keys
<1>5. CallsIssued /\ HeldIssued
  BY DEF Init, CallsIssued, HeldIssued, Live, NoToken
<1> QED
  BY <1>1, <1>2, <1>3, <1>4, <1>5, TokensInvParts

\* A request that goes on still has a call left.
LEMMA NextCallsLeft == TypeOK /\ CallsLeft /\ [Next]_vars => CallsLeft'
<1> SUFFICES ASSUME TypeOK, CallsLeft, [Next]_vars PROVE CallsLeft'
  OBVIOUS
<1> USE BoundAssumption DEF TypeOK, CallsLeft
<1>1. ASSUME NEW w \in Workers, NEW k \in Routes, StartRequest(w, k) PROVE CallsLeft'
  BY <1>1 DEF StartRequest
<1>2. ASSUME NEW w \in Workers, PrepareConf(w) PROVE CallsLeft'
  BY <1>2 DEF PrepareConf, SetHit, SetMiss, Answer
<1>3. ASSUME NEW w \in Workers, CallFound(w) \/ GiveUp(w) \/ CallLost(w) PROVE CallsLeft'
  BY <1>3 DEF CallFound, GiveUp, CallLost
<1>4. ASSUME NEW w \in Workers, CallNotFound(w) PROVE CallsLeft'
  BY <1>4 DEF CallNotFound
<1>5. CASE Tick
  BY <1>5 DEF Tick
<1>6. CASE RunnerRestart
  BY <1>6 DEF RunnerRestart
<1>7. CASE UNCHANGED vars
  BY <1>7 DEF vars, apisixVars
<1> QED
  BY <1>1, <1>2, <1>3, <1>4, <1>5, <1>6, <1>7 DEF Next

\* What the next state says of token t and route k.
StillIssued(t, k) ==
  /\ t <= tokenCounter'
  /\ t \in Tokens /\ Live(tokenCache'[t]) => tokenCache'[t].conf = RuleConf(k)

\* A step after which every token in use means what it meant.
Preserves == \A t \in 0 .. MaxTokens : \A k \in Routes : Issued(t, k) => StillIssued(t, k)

\* A step that adds no live entry to the token cache, changes no live entry's
\* configuration and takes no token back.
Kept ==
  /\ tokenCounter' = tokenCounter
  /\ \A t \in Tokens :
       Live(tokenCache'[t]) =>
         Live(tokenCache[t]) /\ tokenCache'[t].conf = tokenCache[t].conf

\* Such a step leaves every token with the meaning it had.
LEMMA KeptPreserves == ASSUME Kept, UnusedTokens PROVE UnusedTokens' /\ Preserves
BY DEF Kept, UnusedTokens, Issued, StillIssued, Preserves, Means, Live

\* Set with a key that is not found: the new token is nobody else's, so that
\* writing its entry changes the meaning of no token in use.
LEMMA FreshToken ==
  ASSUME TypeOK, UnusedTokens, NEW w \in Workers, SetMiss(w)
  PROVE  UnusedTokens' /\ Preserves /\ StillIssued(tokenCounter + 1, call[w].route)
<1> DEFINE n == tokenCounter + 1
<1>1. /\ n \in Tokens /\ tokenCounter' = n /\ tokenCounter \in Nat
      /\ tokenCache' =
           [tokenCache EXCEPT ![n] = [conf |-> RuleConf(call[w].route), left |-> RunnerTTL]]
  BY BoundAssumption DEF SetMiss, TypeOK, Tokens
<1>2. \A t \in Tokens : t # n => tokenCache'[t] = tokenCache[t]
  BY <1>1 DEF TypeOK
<1>3. tokenCache'[n].conf = RuleConf(call[w].route)
  BY <1>1 DEF TypeOK
<1>4. UnusedTokens'
  BY <1>1, <1>2, BoundAssumption DEF UnusedTokens, Tokens
<1>5. ASSUME NEW t \in 0 .. MaxTokens, NEW k \in Routes, Issued(t, k) PROVE StillIssued(t, k)
  <2>1. t # n /\ t <= n
    BY <1>1, <1>5, BoundAssumption DEF Issued
  <2> QED
    BY <1>1, <1>2, <1>5, <2>1 DEF Issued, StillIssued, Means
<1>6. StillIssued(n, call[w].route)
  BY <1>1, <1>3 DEF StillIssued
<1> QED
  BY <1>4, <1>5, <1>6 DEF Preserves

\* An answered PrepareConf gives the worker, and its table, one token.
LEMMA Answered ==
  ASSUME TypeOK, NEW w \in Workers, NEW t, Answer(w, t), HeldIssued, CallsIssued,
         Preserves, StillIssued(t, call[w].route)
  PROVE  CallsIssued' /\ HeldIssued'
<1>1. /\ call'[w].token = t /\ call'[w].route = call[w].route
      /\ held'[w][call[w].route].token = t
  BY DEF Answer, TypeOK
<1>2. \A v \in Workers \ {w} : call'[v] = call[v] /\ wpc'[v] = wpc[v] /\ held'[v] = held[v]
  BY DEF Answer, TypeOK
<1>3. \A k \in Routes \ {call[w].route} : held'[w][k] = held[w][k]
  BY DEF Answer, TypeOK
<1>4. ASSUME NEW v \in Workers, wpc'[v] = "call"
      PROVE  StillIssued(call'[v].token, call'[v].route)
  <2>1. CASE v = w
    BY <1>1, <2>1
  <2>2. CASE v # w
    BY <1>2, <1>4, <2>2 DEF CallsIssued, Preserves, TypeOK
  <2> QED
    BY <2>1, <2>2
<1>5. ASSUME NEW v \in Workers, NEW k \in Routes, Live(held'[v][k])
      PROVE  StillIssued(held'[v][k].token, k)
  <2>1. CASE v = w /\ k = call[w].route
    BY <1>1, <2>1
  <2>2. CASE ~(v = w /\ k = call[w].route)
    <3>1. held'[v][k] = held[v][k]
      BY <1>2, <1>3, <2>2
    <3> QED
      BY <1>5, <3>1 DEF HeldIssued, Preserves, TypeOK
  <2> QED
    BY <2>1, <2>2
<1> QED
  BY <1>4, <1>5 DEF CallsIssued, HeldIssued, StillIssued, Issued, Means

\* A step in which no key, no table and no call gets a token it did not have.
NoNewToken ==
  /\ deployment' = deployment
  /\ \A k \in Routes : Live(keyCache'[KeyOf[k]]) =>
       Live(keyCache[KeyOf[k]]) /\ keyCache'[KeyOf[k]].token = keyCache[KeyOf[k]].token
  /\ \A w \in Workers : wpc'[w] = "call" =>
       wpc[w] = "call" /\ call'[w] = call[w]
  /\ \A w \in Workers : \A k \in Routes : Live(held'[w][k]) =>
       Live(held[w][k]) /\ held'[w][k].token = held[w][k].token

\* If it keeps the token cache too, it keeps the invariant.
LEMMA NoNewTokenKeeps ==
  ASSUME TokensInv, Kept, NoNewToken, TypeOK', CallsLeft'
  PROVE  TokensInv'
<1>1. /\ TypeOK /\ UnusedTokens /\ KeysIssued
      /\ deployment.managed => CallsIssued /\ HeldIssued
  BY TokensInvParts
<1>2. UnusedTokens' /\ Preserves
  BY <1>1, KeptPreserves
<1>3. ASSUME NEW k \in Routes, KeyOf[k] # NoKey, Live(keyCache'[KeyOf[k]])
      PROVE  StillIssued(keyCache'[KeyOf[k]].token, k)
  <2>1. KeyOf[k] \in Keys
    BY DEF Keys
  <2> QED
    BY <1>1, <1>2, <1>3, <2>1 DEF KeysIssued, NoNewToken, Preserves, TypeOK
<1>4. ASSUME deployment.managed, NEW w \in Workers, wpc'[w] = "call"
      PROVE  StillIssued(call'[w].token, call'[w].route)
  BY <1>1, <1>2, <1>4 DEF CallsIssued, NoNewToken, Preserves, TypeOK
<1>5. ASSUME deployment.managed, NEW w \in Workers, NEW k \in Routes, Live(held'[w][k])
      PROVE  StillIssued(held'[w][k].token, k)
  BY <1>1, <1>2, <1>5 DEF HeldIssued, NoNewToken, Preserves, TypeOK
<1>6. deployment' = deployment
  BY DEF NoNewToken
<1>7. KeysIssued'
  BY <1>3 DEF KeysIssued, StillIssued, Issued, Means
<1>8. deployment.managed => CallsIssued' /\ HeldIssued'
  BY <1>4, <1>5 DEF CallsIssued, HeldIssued, StillIssued, Issued, Means
<1> QED
  BY <1>2, <1>6, <1>7, <1>8, TokensInvNext

\* Every step keeps the invariant.
LEMMA NextTokensInv == TokensInv /\ [Next]_vars => TokensInv'
<1> SUFFICES ASSUME TokensInv, [Next]_vars PROVE TokensInv'
  OBVIOUS
<1>a. /\ TypeOK /\ CallsLeft /\ UnusedTokens /\ KeysIssued
      /\ deployment.managed => CallsIssued /\ HeldIssued
  BY TokensInvParts
<1>b. TypeOK' /\ CallsLeft'
  BY <1>a, NextTypeOK, NextCallsLeft
<1>c. \A k \in Routes : KeyOf[k] \in Keys
  BY DEF Keys
<1>1. ASSUME NEW w \in Workers, NEW k \in Routes, StartRequest(w, k) PROVE TokensInv'
  <2>1. Kept
    BY <1>1 DEF StartRequest, cacheVars, Kept
  <2>2. UnusedTokens' /\ Preserves
    BY <1>a, <2>1, KeptPreserves
  <2>3. KeysIssued'
    BY <1>1, <1>a DEF StartRequest, cacheVars, KeysIssued, Issued, Means
  <2>4. HeldIssued => HeldIssued'
    BY <1>1 DEF StartRequest, cacheVars, HeldIssued, Issued, Means
  <2>5. ASSUME CallsIssued, HeldIssued PROVE CallsIssued'
    <3>1. ASSUME NEW v \in Workers, wpc'[v] = "call"
          PROVE  Issued(call'[v].token, call'[v].route)
      <4>1. CASE v = w
        <5>1. call'[w].token = held[w][k].token /\ call'[w].route = k /\ Live(held[w][k])
          BY <1>1, <1>a, <3>1, <4>1 DEF StartRequest, TypeOK
        <5> QED
          BY <2>5, <4>1, <5>1 DEF HeldIssued
      <4>2. CASE v # w
        BY <1>1, <1>a, <2>5, <3>1, <4>2 DEF StartRequest, TypeOK, CallsIssued
      <4> QED
        BY <4>1, <4>2
    <3> QED
      BY <1>1, <3>1 DEF StartRequest, cacheVars, CallsIssued, Issued, Means
  <2>6. deployment' = deployment
    BY <1>1 DEF StartRequest
  <2> QED
    BY <1>a, <1>b, <2>2, <2>3, <2>4, <2>5, <2>6, TokensInvNext
<1>2. ASSUME NEW w \in Workers, SetHit(w) PROVE TokensInv'
  <2> DEFINE r == call[w].route
  <2> DEFINE t == keyCache[KeyOf[r]].token
  <2>1. r \in Routes /\ KeyOf[r] \in Keys /\ t \in 0 .. MaxTokens
    BY <1>a, <1>c DEF TypeOK
  <2>2. Kept
    BY <1>2 DEF SetHit, Kept
  <2>3. UnusedTokens' /\ Preserves
    BY <1>a, <2>2, KeptPreserves
  <2>4. StillIssued(t, r)
    BY <1>2, <1>a, <2>1, <2>3 DEF SetHit, KeysIssued, Preserves
  <2>5. \A k \in Routes : Live(keyCache'[KeyOf[k]]) =>
          Live(keyCache[KeyOf[k]]) /\ keyCache'[KeyOf[k]].token = keyCache[KeyOf[k]].token
    BY <1>2, <1>a, <1>c, <2>1 DEF SetHit, TypeOK
  <2>6. KeysIssued'
    <3>1. ASSUME NEW k \in Routes, KeyOf[k] # NoKey, Live(keyCache'[KeyOf[k]])
          PROVE  StillIssued(keyCache'[KeyOf[k]].token, k)
      BY <1>a, <1>c, <2>3, <2>5, <3>1 DEF KeysIssued, Preserves, TypeOK
    <3> QED
      BY <3>1 DEF KeysIssued, StillIssued, Issued, Means
  <2>7. deployment.managed => CallsIssued' /\ HeldIssued'
    BY <1>2, <1>a, <2>3, <2>4, Answered DEF SetHit
  <2>8. deployment' = deployment
    BY <1>2 DEF SetHit
  <2> QED
    BY <1>b, <2>3, <2>6, <2>7, <2>8, TokensInvNext
<1>3. ASSUME NEW w \in Workers, SetMiss(w) PROVE TokensInv'
  <2> DEFINE r == call[w].route
  <2> DEFINE t == tokenCounter + 1
  <2>1. r \in Routes /\ KeyOf[r] \in Keys
    BY <1>a, <1>c DEF TypeOK
  <2>2. UnusedTokens' /\ Preserves /\ StillIssued(t, r)
    BY <1>3, <1>a, FreshToken
  <2>3. KeysIssued'
    <3>1. ASSUME NEW k \in Routes, KeyOf[k] # NoKey, Live(keyCache'[KeyOf[k]])
          PROVE  StillIssued(keyCache'[KeyOf[k]].token, k)
      <4>1. CASE k = r
        <5>1. keyCache'[KeyOf[k]].token = t
          BY <1>3, <1>a, <2>1, <4>1 DEF SetMiss, TypeOK
        <5> QED
          BY <2>2, <4>1, <5>1
      <4>2. CASE k # r
        <5>1. KeyOf[k] # KeyOf[r]
          BY <2>1, <3>1, <4>2, KeyAssumption
        <5>2. keyCache'[KeyOf[k]] = keyCache[KeyOf[k]]
          BY <1>3, <1>a, <1>c, <2>1, <5>1 DEF SetMiss, TypeOK
        <5> QED
          BY <1>a, <1>c, <2>2, <3>1, <5>2 DEF KeysIssued, Preserves, TypeOK
      <4> QED
        BY <4>1, <4>2
    <3> QED
      BY <3>1 DEF KeysIssued, StillIssued, Issued, Means
  <2>4. deployment.managed => CallsIssued' /\ HeldIssued'
    BY <1>3, <1>a, <2>2, Answered DEF SetMiss
  <2>5. deployment' = deployment
    BY <1>3 DEF SetMiss
  <2> QED
    BY <1>b, <2>2, <2>3, <2>4, <2>5, TokensInvNext
<1>4. ASSUME NEW w \in Workers, CallFound(w) PROVE TokensInv'
  <2>1. Kept
    BY <1>4, <1>a DEF CallFound, Kept, TypeOK, Live
  <2>2. NoNewToken
    BY <1>4, <1>a DEF CallFound, NoNewToken, TypeOK
  <2> QED
    BY <1>b, <2>1, <2>2, NoNewTokenKeeps
<1>5. ASSUME NEW w \in Workers, CallNotFound(w) PROVE TokensInv'
  <2>1. Kept
    BY <1>5 DEF CallNotFound, Kept, cacheVars
  <2>2. \A v \in Workers : \A k \in Routes : Live(held'[v][k]) => held'[v][k] = held[v][k]
    BY <1>5, <1>a DEF CallNotFound, TypeOK, Live, NoToken
  <2>3. NoNewToken
    BY <1>5, <1>a, <2>2 DEF CallNotFound, NoNewToken, TypeOK, cacheVars
  <2> QED
    BY <1>b, <2>1, <2>3, NoNewTokenKeeps
<1>6. ASSUME NEW w \in Workers, GiveUp(w) \/ CallLost(w) PROVE TokensInv'
  <2>1. Kept
    BY <1>6 DEF GiveUp, CallLost, Kept, cacheVars
  <2>2. NoNewToken
    BY <1>6, <1>a DEF GiveUp, CallLost, NoNewToken, TypeOK, cacheVars
  <2> QED
    BY <1>b, <2>1, <2>2, NoNewTokenKeeps
<1>7. CASE Tick
  <2>1. Kept
    BY <1>7, <1>a DEF Tick, Kept, TypeOK, Entries, Aged, Live, Absent
  <2>2. \A k \in Routes : Live(keyCache'[KeyOf[k]]) =>
          Live(keyCache[KeyOf[k]]) /\ keyCache'[KeyOf[k]].token = keyCache[KeyOf[k]].token
    BY <1>7, <1>a, <1>c, RunnerTTLType DEF Tick, TypeOK, Aged, Live, NoToken
  <2>3. \A w \in Workers : \A k \in Routes : Live(held'[w][k]) =>
          Live(held[w][k]) /\ held'[w][k].token = held[w][k].token
    BY <1>7, <1>a, TTLAssumption DEF Tick, TypeOK, Aged, Live, NoToken
  <2>4. NoNewToken
    BY <1>7, <2>2, <2>3 DEF Tick, NoNewToken
  <2> QED
    BY <1>b, <2>1, <2>4, NoNewTokenKeeps
<1>8. CASE RunnerRestart
  <2>1. UnusedTokens' /\ KeysIssued'
    BY <1>8, <1>c DEF RunnerRestart, UnusedTokens, KeysIssued, Live, Absent, NoToken
  <2>2. deployment.managed => CallsIssued' /\ HeldIssued'
    BY <1>8, <1>a DEF RunnerRestart, CallsIssued, HeldIssued, Live, NoToken, TypeOK
  <2>3. deployment' = deployment
    BY <1>8 DEF RunnerRestart
  <2> QED
    BY <1>b, <2>1, <2>2, <2>3, TokensInvNext
<1>9. CASE UNCHANGED vars
  <2>1. Kept
    BY <1>9 DEF vars, cacheVars, Kept
  <2>2. NoNewToken
    BY <1>9 DEF vars, cacheVars, apisixVars, NoNewToken
  <2> QED
    BY <1>b, <2>1, <2>2, NoNewTokenKeeps
<1> QED
  BY <1>1, <1>2, <1>3, <1>4, <1>5, <1>6, <1>7, <1>8, <1>9 DEF Next, PrepareConf

-----------------------------------------------------------------------------
(* Theorems *)

\* TokensInv is invariant: every key and, when APISIX manages the runner, every
\* token it holds or has sent names a token already handed out for its route.
THEOREM TokenInvariance == Spec => []TokensInv
<1>1. Init => TokensInv
  BY InitTokensInv
<1>2. TokensInv /\ [Next]_vars => TokensInv'
  BY NextTokensInv
<1> QED
  BY <1>1, <1>2, PTL DEF Spec

\* Type correctness of the cache and of APISIX's tables.
THEOREM TypeCorrect == Spec => []TypeOK
<1>1. TokensInv => TypeOK
  BY DEF TokensInv
<1> QED
  BY <1>1, TokenInvariance, PTL

\* When APISIX manages the runner, a call runs only its own route's plugins,
\* whatever the TTLs, the delays and the restarts: for every number of workers,
\* routes and tokens.
THEOREM ManagedCalls == Spec => []ManagedTokenMeansRoute
<1>1. TokensInv => ManagedTokenMeansRoute
  BY DEF TokensInv, ManagedTokenMeansRoute, TokenMeansRoute, Issued
<1> QED
  BY <1>1, TokenInvariance, PTL

-----------------------------------------------------------------------------
(* Time *)

\* A call that will renew token t, before any time passes if calls are prompt.
Pending(t) == \E w \in Workers : wpc[w] = "call" /\ call[w].token = t

\* Token t names a configuration, and will for n units of time, or is about to be
\* renewed.
Backed(t, n) ==
  t \in Tokens /\ Live(tokenCache[t]) /\ (n <= tokenCache[t].left \/ Pending(t))

KeysBacked ==
  \A x \in Keys \ {NoKey} : Live(keyCache[x]) => Backed(keyCache[x].token, keyCache[x].left)
HeldBacked ==
  \A w \in Workers : \A k \in Routes :
    Live(held[w][k]) => Backed(held[w][k].token, held[w][k].left)

\* As long as calls are prompt, keys and APISIX's tables name live tokens only.
TimeInv == deployment.prompt => KeysBacked /\ (deployment.managed => HeldBacked)

\* A request whose first call finds nothing has a live token for its second.
Retried ==
  \A w \in Workers :
    /\ wpc[w] # "failed"
    /\ wpc[w] = "prepare" => tries[w] <= 1
    /\ wpc[w] = "call" =>
         tries[w] = 0
           \/ (tries[w] = 1 /\ call[w].token \in Tokens /\ Live(tokenCache[call[w].token]))
RetryInv == deployment.prompt => Retried

\* What the next state says of a token's backing.
StillBacked(t, n) ==
  /\ t \in Tokens /\ Live(tokenCache'[t])
  /\ n <= tokenCache'[t].left \/ \E w \in Workers : wpc'[w] = "call" /\ call'[w].token = t

\* A step in which every token handed out keeps its backing.
KeepsBacking ==
  \A t \in 0 .. MaxTokens : \A n \in 0 .. RunnerTTL :
    t <= tokenCounter /\ Backed(t, n) => StillBacked(t, n)

\* As long as calls are prompt, everything but time and a restart does so.
LEMMA BackingKept ==
  ASSUME TypeOK, deployment.prompt, NEW w \in Workers,
         \/ \E k \in Routes : StartRequest(w, k)
         \/ SetHit(w) \/ SetMiss(w) \/ CallFound(w) \/ CallNotFound(w) \/ GiveUp(w)
  PROVE  KeepsBacking
<1> SUFFICES ASSUME NEW t \in 0 .. MaxTokens, NEW n \in 0 .. RunnerTTL,
                    t <= tokenCounter, Backed(t, n)
             PROVE  StillBacked(t, n)
  BY DEF KeepsBacking
<1> USE RunnerTTLType, BoundAssumption
<1>1. t \in Tokens /\ Live(tokenCache[t]) /\ (n <= tokenCache[t].left \/ Pending(t))
  BY DEF Backed
<1>2. CASE \E k \in Routes : StartRequest(w, k)
  BY <1>1, <1>2 DEF StartRequest, TypeOK, cacheVars, StillBacked, Pending
<1>3. CASE SetHit(w)
  BY <1>1, <1>3 DEF SetHit, Answer, TypeOK, StillBacked, Pending
<1>4. CASE SetMiss(w)
  <2>1. t # tokenCounter + 1
    BY DEF TypeOK
  <2>2. tokenCache'[t] = tokenCache[t]
    BY <1>1, <1>4, <2>1 DEF SetMiss, TypeOK
  <2>3. \A v \in Workers : wpc[v] = "call" => wpc'[v] = "call" /\ call'[v] = call[v]
    BY <1>4 DEF SetMiss, Answer, TypeOK
  <2> QED
    BY <1>1, <2>2, <2>3 DEF StillBacked, Pending
<1>5. CASE CallFound(w)
  <2>1. \A v \in Workers \ {w} : wpc'[v] = wpc[v] /\ call'[v] = call[v]
    BY <1>5 DEF CallFound, TypeOK
  <2>2. CASE call[w].token = t
    BY <1>1, <1>5, <2>2 DEF CallFound, TypeOK, Entries, StillBacked, Live
  <2>3. CASE call[w].token # t
    <3>1. tokenCache'[t] = tokenCache[t]
      BY <1>1, <1>5, <2>3 DEF CallFound, TypeOK
    <3> QED
      BY <1>1, <2>1, <2>3, <3>1 DEF StillBacked, Pending
  <2> QED
    BY <2>2, <2>3
<1>6. CASE CallNotFound(w)
  <2>1. call[w].token # t
    BY <1>1, <1>6 DEF CallNotFound
  <2>2. \A v \in Workers \ {w} : wpc'[v] = wpc[v] /\ call'[v] = call[v]
    BY <1>6 DEF CallNotFound, TypeOK
  <2>3. tokenCache' = tokenCache
    BY <1>6 DEF CallNotFound, cacheVars
  <2> QED
    BY <1>1, <2>1, <2>2, <2>3 DEF StillBacked, Pending
<1>7. CASE GiveUp(w)
  BY <1>1, <1>7 DEF GiveUp, TypeOK, cacheVars, StillBacked, Pending
<1> QED
  BY <1>2, <1>3, <1>4, <1>5, <1>6, <1>7

\* The token a key names, and one in a table, have been handed out.
LEMMA HandedOut ==
  ASSUME TokensInv
  PROVE  /\ \A x \in Keys \ {NoKey} :
              Live(keyCache[x]) => keyCache[x].token \in 0 .. tokenCounter
         /\ deployment.managed =>
              \A w \in Workers : \A k \in Routes :
                Live(held[w][k]) => held[w][k].token \in 0 .. tokenCounter
<1>1. TypeOK /\ KeysIssued /\ (deployment.managed => HeldIssued)
  BY TokensInvParts
<1>2. ASSUME NEW x \in Keys \ {NoKey}, Live(keyCache[x])
      PROVE  keyCache[x].token \in 0 .. tokenCounter
  <2>1. PICK k \in Routes : KeyOf[k] = x
    BY DEF Keys
  <2>2. keyCache[x].token <= tokenCounter
    BY <1>1, <1>2, <2>1 DEF KeysIssued, Issued
  <2> QED
    BY <1>1, <2>2, BoundAssumption DEF TypeOK
<1>3. ASSUME deployment.managed, NEW w \in Workers, NEW k \in Routes, Live(held[w][k])
      PROVE  held[w][k].token \in 0 .. tokenCounter
  <2>1. held[w][k].token <= tokenCounter
    BY <1>1, <1>3 DEF HeldIssued, Issued
  <2> QED
    BY <1>1, <2>1, BoundAssumption DEF TypeOK
<1> QED
  BY <1>2, <1>3

\* Steps that give nobody a token.
LEMMA SameTokens ==
  ASSUME TokensInv, TimeInv, deployment.prompt, deployment' = deployment, KeepsBacking,
         keyCache' = keyCache,
         \A v \in Workers : \A k \in Routes : Live(held'[v][k]) => held'[v][k] = held[v][k]
  PROVE  TimeInv'
<1>1. TypeOK /\ KeysBacked /\ (deployment.managed => HeldBacked)
  BY DEF TokensInv, TimeInv
<1>2. tokenCounter \in 0 .. MaxTokens
  BY <1>1 DEF TypeOK
<1>3. ASSUME NEW x \in Keys \ {NoKey}, Live(keyCache[x])
      PROVE  StillBacked(keyCache[x].token, keyCache[x].left)
  <2>1. keyCache[x].token \in 0 .. tokenCounter /\ keyCache[x].left \in 0 .. RunnerTTL
    BY <1>1, <1>3, HandedOut DEF TypeOK
  <2>2. Backed(keyCache[x].token, keyCache[x].left)
    BY <1>1, <1>3 DEF KeysBacked
  <2> QED
    BY <1>2, <2>1, <2>2, BoundAssumption DEF KeepsBacking
<1>4. ASSUME deployment.managed, NEW v \in Workers, NEW k \in Routes, Live(held[v][k])
      PROVE  StillBacked(held[v][k].token, held[v][k].left)
  <2>1. held[v][k].token \in 0 .. tokenCounter /\ held[v][k].left \in 0 .. ApisixTTL
    BY <1>1, <1>4, HandedOut DEF TypeOK
  <2>2. Backed(held[v][k].token, held[v][k].left)
    BY <1>1, <1>4 DEF HeldBacked
  <2> QED
    BY <1>2, <2>1, <2>2, BoundAssumption, TTLAssumption, RunnerTTLType DEF KeepsBacking
<1>5. KeysBacked'
  BY <1>3 DEF KeysBacked, Backed, StillBacked, Pending
<1>6. deployment.managed => HeldBacked'
  BY <1>4 DEF HeldBacked, Backed, StillBacked, Pending
<1> QED
  BY <1>5, <1>6 DEF TimeInv

\* Steps that give one worker, its table and maybe one key a live token, to be used
\* at once.
LEMMA NewToken ==
  ASSUME TokensInv, TimeInv, deployment.prompt, deployment' = deployment, KeepsBacking,
         NEW w \in Workers, NEW t \in Tokens, Answer(w, t), Live(tokenCache'[t]),
         \A x \in Keys \ {NoKey} : keyCache'[x] = keyCache[x] \/ keyCache'[x].token = t
  PROVE  TimeInv'
<1>1. TypeOK /\ KeysBacked /\ (deployment.managed => HeldBacked)
  BY DEF TokensInv, TimeInv
<1>2. tokenCounter \in 0 .. MaxTokens
  BY <1>1 DEF TypeOK
<1>3. wpc'[w] = "call" /\ call'[w].token = t
  BY <1>1 DEF Answer, TypeOK
<1>4. \A n : StillBacked(t, n)
  BY <1>3 DEF StillBacked
<1>5. ASSUME NEW x \in Keys \ {NoKey}, Live(keyCache'[x])
      PROVE  StillBacked(keyCache'[x].token, keyCache'[x].left)
  <2>1. CASE keyCache'[x].token = t
    BY <1>4, <2>1
  <2>2. CASE keyCache'[x] = keyCache[x]
    <3>1. keyCache[x].token \in 0 .. tokenCounter /\ keyCache[x].left \in 0 .. RunnerTTL
      BY <1>1, <1>5, <2>2, HandedOut DEF TypeOK
    <3>2. Backed(keyCache[x].token, keyCache[x].left)
      BY <1>1, <1>5, <2>2 DEF KeysBacked
    <3> QED
      BY <1>2, <2>2, <3>1, <3>2, BoundAssumption DEF KeepsBacking
  <2> QED
    BY <2>1, <2>2
<1>6. ASSUME deployment.managed, NEW v \in Workers, NEW k \in Routes, Live(held'[v][k])
      PROVE  StillBacked(held'[v][k].token, held'[v][k].left)
  <2>1. held'[v][k] = held[v][k] \/ held'[v][k].token = t
    BY <1>1 DEF Answer, TypeOK
  <2>2. CASE held'[v][k].token = t
    BY <1>4, <2>2
  <2>3. CASE held'[v][k] = held[v][k]
    <3>1. held[v][k].token \in 0 .. tokenCounter /\ held[v][k].left \in 0 .. ApisixTTL
      BY <1>1, <1>6, <2>3, HandedOut DEF TypeOK
    <3>2. Backed(held[v][k].token, held[v][k].left)
      BY <1>1, <1>6, <2>3 DEF HeldBacked
    <3> QED
      BY <1>2, <2>3, <3>1, <3>2, BoundAssumption, TTLAssumption, RunnerTTLType DEF KeepsBacking
  <2> QED
    BY <2>1, <2>2, <2>3
<1>7. KeysBacked'
  BY <1>5 DEF KeysBacked, Backed, StillBacked, Pending
<1>8. deployment.managed => HeldBacked'
  BY <1>6 DEF HeldBacked, Backed, StillBacked, Pending
<1> QED
  BY <1>7, <1>8 DEF TimeInv

\* The token of an answered PrepareConf is live.
LEMMA LiveAnswer ==
  ASSUME TokensInv, TimeInv, deployment.prompt, NEW w \in Workers, PrepareConf(w)
  PROVE  \E t \in Tokens :
           /\ Answer(w, t) /\ Live(tokenCache'[t])
           /\ \A x \in Keys \ {NoKey} : keyCache'[x] = keyCache[x] \/ keyCache'[x].token = t
<1> DEFINE y == KeyOf[call[w].route]
<1>1. TypeOK /\ KeysBacked /\ y \in Keys
  BY DEF TokensInv, TimeInv, TypeOK, Keys
<1>2. CASE SetHit(w)
  <2> DEFINE t == keyCache[y].token
  <2>1. Answer(w, t) /\ y # NoKey /\ Live(keyCache[y]) /\ tokenCache' = tokenCache
    BY <1>2 DEF SetHit
  <2>2. t \in Tokens /\ Live(tokenCache'[t])
    BY <1>1, <2>1 DEF KeysBacked, Backed
  <2>3. \A x \in Keys : keyCache'[x] = keyCache[x] \/ keyCache'[x].token = t
    BY <1>1, <1>2 DEF SetHit, TypeOK
  <2> QED
    BY <2>1, <2>2, <2>3
<1>3. CASE SetMiss(w)
  <2> DEFINE t == tokenCounter + 1
  <2>1. t \in Tokens /\ Answer(w, t)
    BY <1>1, <1>3, BoundAssumption DEF SetMiss, TypeOK, Tokens
  <2>2. tokenCache'[t].left = RunnerTTL
    BY <1>1, <1>3, <2>1 DEF SetMiss, TypeOK
  <2>3. \A x \in Keys : keyCache'[x] = keyCache[x] \/ keyCache'[x].token = t
    BY <1>1, <1>3 DEF SetMiss, TypeOK
  <2> QED
    BY <2>1, <2>2, <2>3, RunnerTTLType DEF Live
<1> QED
  BY <1>2, <1>3 DEF PrepareConf

\* Time passes only when no call is on its way, and then for both sides alike.
LEMMA TickTime == ASSUME TokensInv, TimeInv, deployment.prompt, Tick PROVE TimeInv'
<1>1. TypeOK /\ KeysBacked /\ (deployment.managed => HeldBacked) /\ \A t : ~Pending(t)
  BY DEF TokensInv, TimeInv, Tick, Pending
<1>2. ASSUME NEW t \in Tokens, NEW n \in Nat, n > 1, Backed(t, n)
      PROVE  StillBacked(t, n - 1)
  <2>1. n <= tokenCache[t].left /\ tokenCache[t].left \in 0 .. RunnerTTL
    BY <1>1, <1>2 DEF Backed, TypeOK, Entries
  <2>2. tokenCache'[t].left = tokenCache[t].left - 1
    BY <1>1, <1>2, <2>1, RunnerTTLType DEF Tick, Aged, TypeOK, Entries
  <2> QED
    BY <1>2, <2>1, <2>2, RunnerTTLType DEF StillBacked, Live
<1>3. ASSUME NEW x \in Keys \ {NoKey}, Live(keyCache'[x])
      PROVE  StillBacked(keyCache'[x].token, keyCache'[x].left)
  <2>1. /\ keyCache[x].left \in Nat /\ keyCache[x].left > 1
        /\ keyCache'[x].token = keyCache[x].token /\ keyCache'[x].left = keyCache[x].left - 1
    BY <1>1, <1>3, RunnerTTLType DEF Tick, Aged, TypeOK, Live, NoToken
  <2>2. Backed(keyCache[x].token, keyCache[x].left) /\ keyCache[x].token \in Tokens
    BY <1>1, <2>1 DEF KeysBacked, Live, Backed
  <2> QED
    BY <1>2, <2>1, <2>2
<1>4. ASSUME deployment.managed, NEW v \in Workers, NEW k \in Routes, Live(held'[v][k])
      PROVE  StillBacked(held'[v][k].token, held'[v][k].left)
  <2>1. /\ held[v][k].left \in Nat /\ held[v][k].left > 1
        /\ held'[v][k].token = held[v][k].token /\ held'[v][k].left = held[v][k].left - 1
    BY <1>1, <1>4, TTLAssumption DEF Tick, Aged, TypeOK, Live, NoToken
  <2>2. Backed(held[v][k].token, held[v][k].left) /\ held[v][k].token \in Tokens
    BY <1>1, <1>4, <2>1 DEF HeldBacked, Live, Backed
  <2> QED
    BY <1>2, <2>1, <2>2
<1>5. KeysBacked'
  BY <1>3 DEF KeysBacked, Backed, StillBacked, Pending
<1>6. deployment.managed => HeldBacked'
  BY <1>4 DEF HeldBacked, Backed, StillBacked, Pending
<1>7. deployment' = deployment
  BY DEF Tick
<1> QED
  BY <1>5, <1>6, <1>7 DEF TimeInv

\* Initially there is nothing to outlive anything.
LEMMA InitTime == Init => TimeInv /\ RetryInv
BY DEF Init, TimeInv, RetryInv, KeysBacked, HeldBacked, Retried, Live, NoToken

\* Every step keeps the invariant.
LEMMA NextTime == TokensInv /\ TimeInv /\ [Next]_vars => TimeInv'
<1> SUFFICES ASSUME TokensInv, TimeInv, [Next]_vars PROVE TimeInv'
  OBVIOUS
<1>1. deployment' = deployment
  BY DEF Next, StartRequest, PrepareConf, SetHit, SetMiss, CallFound, CallNotFound, GiveUp,
         CallLost, Tick, RunnerRestart, vars
<1>2. SUFFICES ASSUME deployment.prompt PROVE TimeInv'
  BY <1>1 DEF TimeInv
<1>3. TypeOK
  BY DEF TokensInv
<1>4. ASSUME NEW w \in Workers, NEW k \in Routes, StartRequest(w, k) PROVE TimeInv'
  BY <1>1, <1>2, <1>3, <1>4, BackingKept, SameTokens DEF StartRequest, cacheVars
<1>5. ASSUME NEW w \in Workers, PrepareConf(w) PROVE TimeInv'
  <2>1. KeepsBacking
    BY <1>2, <1>3, <1>5, BackingKept DEF PrepareConf
  <2> QED
    BY <1>1, <1>2, <1>5, <2>1, LiveAnswer, NewToken
<1>6. ASSUME NEW w \in Workers, CallFound(w) \/ GiveUp(w) PROVE TimeInv'
  <2>1. KeepsBacking
    BY <1>2, <1>3, <1>6, BackingKept
  <2> QED
    BY <1>1, <1>2, <1>6, <2>1, SameTokens DEF CallFound, GiveUp, cacheVars
<1>7. ASSUME NEW w \in Workers, CallNotFound(w) PROVE TimeInv'
  <2>1. KeepsBacking
    BY <1>2, <1>3, <1>7, BackingKept
  <2>2. \A v \in Workers : \A k \in Routes : Live(held'[v][k]) => held'[v][k] = held[v][k]
    BY <1>3, <1>7 DEF CallNotFound, TypeOK, Live, NoToken
  <2>3. keyCache' = keyCache
    BY <1>7 DEF CallNotFound, cacheVars
  <2> QED
    BY <1>1, <1>2, <2>1, <2>2, <2>3, SameTokens
<1>8. ASSUME NEW w \in Workers PROVE ~CallLost(w)
  BY <1>2 DEF CallLost
<1>9. CASE RunnerRestart
  BY <1>1, <1>9 DEF RunnerRestart, TimeInv, KeysBacked, HeldBacked, Live, NoToken
<1>10. CASE UNCHANGED vars
  BY <1>10 DEF vars, cacheVars, apisixVars, TimeInv, KeysBacked, HeldBacked, Backed, Pending
<1> QED
  BY <1>2, <1>4, <1>5, <1>6, <1>7, <1>8, <1>9, <1>10, TickTime DEF Next

\* With a call to spare, a request that has to prepare its configuration once more
\* does not fail.
LEMMA NextRetry ==
  ASSUME MaxTries >= 2, TokensInv, TimeInv, RetryInv, [Next]_vars PROVE RetryInv'
<1>1. deployment' = deployment
  BY DEF Next, StartRequest, PrepareConf, SetHit, SetMiss, CallFound, CallNotFound, GiveUp,
         CallLost, Tick, RunnerRestart, vars
<1>2. SUFFICES ASSUME deployment.prompt PROVE Retried'
  BY <1>1 DEF RetryInv
<1>3. TypeOK /\ Retried /\ MaxTries \in Nat
  BY <1>2, BoundAssumption DEF TokensInv, RetryInv
<1>4. ASSUME NEW w \in Workers, NEW k \in Routes, StartRequest(w, k) PROVE Retried'
  BY <1>3, <1>4 DEF StartRequest, TypeOK, Retried, cacheVars
<1>5. ASSUME NEW w \in Workers, PrepareConf(w) PROVE Retried'
  <2>1. PICK t \in Tokens : Answer(w, t) /\ Live(tokenCache'[t])
    BY <1>2, <1>5, LiveAnswer
  <2>2. /\ wpc'[w] = "call" /\ call'[w].token = t /\ tries' = tries
        /\ \A v \in Workers \ {w} : wpc'[v] = wpc[v] /\ call'[v] = call[v]
    BY <1>3, <1>5, <2>1 DEF Answer, TypeOK, PrepareConf, SetHit, SetMiss
  <2>3. \A u \in Tokens : Live(tokenCache[u]) => Live(tokenCache'[u])
    <3>1. CASE SetHit(w)
      BY <3>1 DEF SetHit
    <3>2. CASE SetMiss(w)
      <4>1. \A u \in Tokens : tokenCache'[u] = tokenCache[u] \/ tokenCache'[u].left = RunnerTTL
        BY <1>3, <3>2 DEF SetMiss, TypeOK
      <4> QED
        BY <4>1, RunnerTTLType DEF Live
    <3> QED
      BY <1>5, <3>1, <3>2 DEF PrepareConf
  <2>4. wpc[w] = "prepare" /\ tries[w] \in Nat
    BY <1>3, <1>5 DEF PrepareConf, SetHit, SetMiss, TypeOK
  <2> QED
    BY <1>3, <2>1, <2>2, <2>3, <2>4 DEF Retried
<1>6. ASSUME NEW w \in Workers, CallFound(w) PROVE Retried'
  <2>1. \A u \in Tokens : Live(tokenCache[u]) => Live(tokenCache'[u])
    BY <1>3, <1>6, RunnerTTLType DEF CallFound, TypeOK, Live
  <2> QED
    BY <1>3, <1>6, <2>1 DEF CallFound, TypeOK, Retried
<1>7. ASSUME NEW w \in Workers, CallNotFound(w) PROVE Retried'
  <2>1. tries[w] = 0
    BY <1>3, <1>7 DEF CallNotFound, Retried
  <2>2. wpc'[w] = "prepare" /\ tries'[w] = 1
    BY <1>3, <1>7, <2>1 DEF CallNotFound, TypeOK
  <2>3. /\ \A v \in Workers \ {w} : wpc'[v] = wpc[v] /\ tries'[v] = tries[v]
        /\ call' = call /\ tokenCache' = tokenCache
    BY <1>3, <1>7 DEF CallNotFound, TypeOK, cacheVars
  <2> QED
    BY <1>3, <2>2, <2>3 DEF Retried
<1>8. ASSUME NEW w \in Workers, GiveUp(w) \/ CallLost(w) PROVE Retried'
  BY <1>2, <1>3, <1>8 DEF GiveUp, CallLost, Retried
<1>9. CASE Tick
  BY <1>2, <1>3, <1>9 DEF Tick, Retried
<1>10. CASE RunnerRestart
  BY <1>3, <1>10 DEF RunnerRestart, Retried
<1>11. CASE UNCHANGED vars
  BY <1>3, <1>11 DEF vars, cacheVars, apisixVars, Retried
<1> QED
  BY <1>4, <1>5, <1>6, <1>7, <1>8, <1>9, <1>10, <1>11 DEF Next

\* The same invariant for every TTL: what the keys and the tables name is live.
THEOREM TimeInvariance == Spec => []TimeInv
<1>1. Init => TimeInv
  BY InitTime
<1>2. TokensInv /\ TimeInv /\ [Next]_vars => TimeInv'
  BY NextTime
<1> QED
  BY <1>1, <1>2, TokenInvariance, PTL DEF Spec

\* The conf cached in the runner expires after the token in APISIX, if APISIX manages
\* the runner and uses what it prepares at once: the amplified TTL is long enough,
\* for every TTL.
THEOREM ConfOutlives == Spec => []PromptConfOutlivesToken
<1>1. TimeInv => PromptConfOutlivesToken
  BY DEF TimeInv, HeldBacked, Backed, PromptConfOutlivesToken, ConfOutlivesToken
<1> QED
  BY <1>1, TimeInvariance, PTL

\* As long as calls are prompt, Set never answers with a token whose configuration
\* has expired, though it renews only the key.
THEOREM KeysLive == Spec => []KeyNamesLiveToken
<1>1. TimeInv => KeyNamesLiveToken
  BY DEF TimeInv, KeysBacked, Backed, KeyNamesLiveToken
<1> QED
  BY <1>1, TimeInvariance, PTL

\* As long as calls are prompt, one retry is enough for every request, even when the
\* runner restarts on its own.
THEOREM RetryEnough == ASSUME MaxTries >= 2 PROVE Spec => []RetrySucceeds
<1>1. Init => RetryInv
  BY InitTime
<1>2. TokensInv /\ TimeInv /\ RetryInv /\ [Next]_vars => RetryInv'
  BY NextRetry
<1>3. RetryInv => RetrySucceeds
  BY DEF RetryInv, Retried, RetrySucceeds
<1> QED
  BY <1>1, <1>2, <1>3, TokenInvariance, TimeInvariance, PTL DEF Spec
=============================================================================
