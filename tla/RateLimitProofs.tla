-------------------------- MODULE RateLimitProofs --------------------------
(***************************************************************************)
(* Proofs about the rate-limit plugin, for any connections, server types,  *)
(* cost types and number of plans.                                         *)
(***************************************************************************)
EXTENDS RateLimit, TLAPS

-----------------------------------------------------------------------------
(* Facts about limiters *)

\* What a registry holds after Create is a limiter; a new one is not stale.
LEMMA CreateFacts ==
  ASSUME NEW s \in Servers, NEW l \in Limiters, TypeOK
  PROVE  /\ Create(l, s) \in Limiters
         /\ Stale(Create(l, s), s) => Stale(l, s)
<1>1. plan[s] \in 0 .. MaxPlan
  BY DEF TypeOK
<1> QED
  BY <1>1, PlanAssumption DEF Create, Stale, Limiters, None

\* No limiter is no stale limiter.
LEMMA NoneFacts == None \in Limiters /\ \A s : ~Stale(None, s)
BY PlanAssumption DEF Limiters, None, Stale

\* The server type of a request is one.
LEMMA ServerType ==
  ASSUME TypeOK, NEW c \in Conns
  PROVE  costType[c] \in CostTypes /\ Server(c) \in Servers
BY ServerAssumption DEF TypeOK, Server

-----------------------------------------------------------------------------
(* Type correctness *)

\* The initial states are well typed.
LEMMA InitTypeOK == Init => TypeOK
BY NoneFacts, PlanAssumption DEF Init, TypeOK, States

\* Every step keeps the state well typed.
LEMMA NextTypeOK == TypeOK /\ [Next]_vars => TypeOK'
<1> SUFFICES ASSUME TypeOK, [Next]_vars PROVE TypeOK'
  OBVIOUS
<1> USE DEF reqVars, redisVars, limiterVars, history
<1>1. ASSUME NEW c \in Conns, NEW t \in CostTypes, NEW m \in Modes, Start(c, t, m)
      PROVE  TypeOK'
  BY <1>1 DEF TypeOK, Start, Goto, States
<1>2. ASSUME NEW c \in Conns, Check(c) PROVE TypeOK'
  BY <1>2 DEF TypeOK, Check, Goto, States, Removing
<1>3. ASSUME NEW c \in Conns, RemoveReq(c) PROVE TypeOK'
  BY <1>3, NoneFacts DEF TypeOK, RemoveReq, Goto, States, Removing
<1>4. ASSUME NEW c \in Conns, RemoveServerCost(c) PROVE TypeOK'
  BY <1>4, NoneFacts DEF TypeOK, RemoveServerCost, Goto, States, Removing
<1>5. ASSUME NEW c \in Conns, RemoveCost(c) PROVE TypeOK'
  BY <1>5, NoneFacts DEF TypeOK, RemoveCost, Goto, States, Removing
<1>6. ASSUME NEW c \in Conns, LowerFlag(c) PROVE TypeOK'
  BY <1>6 DEF TypeOK, LowerFlag, Goto, States
<1>7. ASSUME NEW c \in Conns, LimitRequest(c) PROVE TypeOK'
  <2>1. Create(serverReq[Server(c)], Server(c)) \in Limiters
    BY CreateFacts, ServerType DEF TypeOK
  <2> QED
    BY <1>7, <2>1 DEF TypeOK, LimitRequest, Goto, States
<1>8. ASSUME NEW c \in Conns, LimitServerCost(c) PROVE TypeOK'
  <2>1. Create(serverCost[Server(c)], Server(c)) \in Limiters
    BY CreateFacts, ServerType DEF TypeOK
  <2> QED
    BY <1>8, <2>1 DEF TypeOK, LimitServerCost, Goto, States
<1>9. ASSUME NEW c \in Conns, LimitCost(c) PROVE TypeOK'
  <2>1. Create(cost[costType[c]], Server(c)) \in Limiters
    BY CreateFacts, ServerType DEF TypeOK
  <2> QED
    BY <1>9, <2>1 DEF TypeOK, LimitCost, Goto, States
<1>10. ASSUME NEW c \in Conns, Refuse(c) PROVE TypeOK'
  BY <1>10 DEF TypeOK, Refuse, Goto, States
<1>11. CASE RunnerRestart
  BY <1>11, NoneFacts DEF TypeOK, RunnerRestart, States
<1>12. ASSUME NEW s \in Servers, WritePlan(s) PROVE TypeOK'
  <2>1. RemovingOn(s) \in BOOLEAN
    BY DEF RemovingOn
  <2>2. plan' \in [Servers -> 0 .. MaxPlan]
    BY <1>12, PlanAssumption DEF TypeOK, WritePlan
  <2> QED
    BY <1>12, <2>1, <2>2 DEF TypeOK, WritePlan
<1>13. ASSUME NEW s \in Servers, RaiseFlag(s) PROVE TypeOK'
  BY <1>13 DEF TypeOK, RaiseFlag
<1>14. CASE UNCHANGED vars
  BY <1>14 DEF TypeOK, vars
<1> QED
  BY <1>1, <1>2, <1>3, <1>4, <1>5, <1>6, <1>7, <1>8, <1>9, <1>10, <1>11, <1>12, <1>13, <1>14
  DEF Next, Filter

\* Type correctness of the whole specification.
THEOREM TypeCorrect == Spec => []TypeOK
BY InitTypeOK, NextTypeOK, PTL DEF Spec

-----------------------------------------------------------------------------
(* The inductive invariant *)

\* It holds before the first request: there is no limiter yet.
LEMMA InitLimiters == Init => LimitersInv
<1> SUFFICES ASSUME Init PROVE LimitersInv
  OBVIOUS
<1>1. TypeOK
  BY InitTypeOK
<1>2. BehindRemoval
  BY DEF Init, BehindRemoval, Removing
<1>3. ServerLimitersFollowPlan
  BY NoneFacts DEF Init, ServerLimitersFollowPlan
<1>4. CostLimitersFollowPlan
  BY DEF Init, CostLimitersFollowPlan
<1> QED
  BY <1>1, <1>2, <1>3, <1>4 DEF LimitersInv

\* Every step keeps the limiters behind a removal fresh.
LEMMA NextBehindRemoval == LimitersInv /\ [Next]_vars => BehindRemoval'
<1> SUFFICES ASSUME LimitersInv, [Next]_vars PROVE BehindRemoval'
  OBVIOUS
<1> USE DEF reqVars, redisVars, limiterVars, history
<1>0. TypeOK /\ BehindRemoval
  BY DEF LimitersInv
<1>1. \A c \in Conns : costType[c] \in CostTypes /\ Server(c) \in Servers
  BY <1>0, ServerType
<1>2. ASSUME NEW c \in Conns, NEW t \in CostTypes, NEW m \in Modes, Start(c, t, m)
      PROVE  BehindRemoval'
  BY <1>0, <1>1, <1>2 DEF TypeOK, BehindRemoval, Start, Goto, Removing, Server, Stale
<1>3. ASSUME NEW c \in Conns, Check(c) \/ LowerFlag(c) \/ Refuse(c) PROVE BehindRemoval'
  BY <1>0, <1>1, <1>3
  DEF TypeOK, BehindRemoval, Check, LowerFlag, Refuse, Goto, Removing, Server, Stale
<1>4. ASSUME NEW c \in Conns, RemoveReq(c) PROVE BehindRemoval'
  BY <1>0, <1>1, <1>4 DEF TypeOK, BehindRemoval, RemoveReq, Goto, Removing, Server, Stale
<1>5. ASSUME NEW c \in Conns, RemoveServerCost(c) PROVE BehindRemoval'
  BY <1>0, <1>1, <1>5
  DEF TypeOK, BehindRemoval, RemoveServerCost, Goto, Removing, Server, Stale
<1>6. ASSUME NEW c \in Conns, RemoveCost(c) \/ LimitCost(c) PROVE BehindRemoval'
  BY <1>0, <1>1, <1>6
  DEF TypeOK, BehindRemoval, RemoveCost, LimitCost, Goto, Removing, Server, Stale
<1>7. ASSUME NEW c \in Conns, LimitRequest(c) PROVE BehindRemoval'
  BY <1>0, <1>1, <1>7
  DEF TypeOK, BehindRemoval, LimitRequest, Create, Goto, Removing, Server, Stale
<1>8. ASSUME NEW c \in Conns, LimitServerCost(c) PROVE BehindRemoval'
  BY <1>0, <1>1, <1>8
  DEF TypeOK, BehindRemoval, LimitServerCost, Create, Goto, Removing, Server, Stale
<1>9. CASE RunnerRestart
  BY <1>0, <1>1, <1>9 DEF TypeOK, BehindRemoval, RunnerRestart, Removing
<1>10. ASSUME NEW s \in Servers, WritePlan(s) PROVE BehindRemoval'
  BY <1>0, <1>1, <1>10
  DEF TypeOK, BehindRemoval, WritePlan, RemovingOn, Removing, Server, Stale
<1>11. ASSUME NEW s \in Servers, RaiseFlag(s) PROVE BehindRemoval'
  BY <1>0, <1>1, <1>11 DEF TypeOK, BehindRemoval, RaiseFlag, Server, Stale
<1>12. CASE UNCHANGED vars
  BY <1>0, <1>12 DEF BehindRemoval, vars, Server, Stale
<1> QED
  BY <1>2, <1>3, <1>4, <1>5, <1>6, <1>7, <1>8, <1>9, <1>10, <1>11, <1>12 DEF Next, Filter

\* Every step keeps the server limiters in line with the plan: the flag is only
\* lowered behind a removal.
LEMMA NextServerLimiters == LimitersInv /\ [Next]_vars => ServerLimitersFollowPlan'
<1> SUFFICES ASSUME LimitersInv, [Next]_vars PROVE ServerLimitersFollowPlan'
  OBVIOUS
<1> USE DEF reqVars, redisVars, limiterVars, history
<1>0. TypeOK /\ BehindRemoval /\ ServerLimitersFollowPlan
  BY DEF LimitersInv
<1>1. \A c \in Conns : costType[c] \in CostTypes /\ Server(c) \in Servers
  BY <1>0, ServerType
<1>2. ASSUME NEW c \in Conns, NEW t \in CostTypes, NEW m \in Modes, Start(c, t, m)
      PROVE  ServerLimitersFollowPlan'
  BY <1>0, <1>2 DEF ServerLimitersFollowPlan, Start, Announced, Stale
<1>3. ASSUME NEW c \in Conns, Check(c) \/ Refuse(c) \/ RemoveCost(c) \/ LimitCost(c)
      PROVE  ServerLimitersFollowPlan'
  BY <1>0, <1>3
  DEF ServerLimitersFollowPlan, Check, Refuse, RemoveCost, LimitCost, Announced, Stale
<1>4. ASSUME NEW c \in Conns, RemoveReq(c) PROVE ServerLimitersFollowPlan'
  BY <1>0, <1>1, <1>4 DEF TypeOK, ServerLimitersFollowPlan, RemoveReq, Announced, Stale
<1>5. ASSUME NEW c \in Conns, RemoveServerCost(c) PROVE ServerLimitersFollowPlan'
  BY <1>0, <1>1, <1>5 DEF TypeOK, ServerLimitersFollowPlan, RemoveServerCost, Announced, Stale
<1>6. ASSUME NEW c \in Conns, LowerFlag(c) PROVE ServerLimitersFollowPlan'
  BY <1>0, <1>1, <1>6
  DEF TypeOK, ServerLimitersFollowPlan, BehindRemoval, LowerFlag, Goto, Removing, Announced, Stale
<1>7. ASSUME NEW c \in Conns, LimitRequest(c) PROVE ServerLimitersFollowPlan'
  BY <1>0, <1>1, <1>7 DEF TypeOK, ServerLimitersFollowPlan, LimitRequest, Create, Announced, Stale
<1>8. ASSUME NEW c \in Conns, LimitServerCost(c) PROVE ServerLimitersFollowPlan'
  BY <1>0, <1>1, <1>8
  DEF TypeOK, ServerLimitersFollowPlan, LimitServerCost, Create, Announced, Stale
<1>9. CASE RunnerRestart
  BY <1>9 DEF ServerLimitersFollowPlan, RunnerRestart, Stale
<1>10. ASSUME NEW s \in Servers, WritePlan(s) PROVE ServerLimitersFollowPlan'
  BY <1>0, <1>10 DEF TypeOK, ServerLimitersFollowPlan, WritePlan, Announced, Stale
<1>11. ASSUME NEW s \in Servers, RaiseFlag(s) PROVE ServerLimitersFollowPlan'
  BY <1>0, <1>11 DEF TypeOK, ServerLimitersFollowPlan, RaiseFlag, Announced, Stale
<1>12. CASE UNCHANGED vars
  BY <1>0, <1>12 DEF ServerLimitersFollowPlan, vars, Announced, Stale
<1> QED
  BY <1>2, <1>3, <1>4, <1>5, <1>6, <1>7, <1>8, <1>9, <1>10, <1>11, <1>12 DEF Next, Filter

\* Every step keeps the limiters of the removed cost types in line with the plan.
LEMMA NextCostLimiters == LimitersInv /\ [Next]_vars => CostLimitersFollowPlan'
<1> SUFFICES ASSUME LimitersInv, [Next]_vars PROVE CostLimitersFollowPlan'
  OBVIOUS
<1> USE DEF reqVars, redisVars, limiterVars, history
<1>0. TypeOK /\ CostLimitersFollowPlan
  BY DEF LimitersInv
<1>1. \A c \in Conns : costType[c] \in CostTypes /\ Server(c) \in Servers
  BY <1>0, ServerType
<1>2. ASSUME NEW c \in Conns, NEW t \in CostTypes, NEW m \in Modes, Start(c, t, m)
      PROVE  CostLimitersFollowPlan'
  BY <1>0, <1>2 DEF CostLimitersFollowPlan, Start, Stale
<1>3. ASSUME NEW c \in Conns,
             \/ Check(c) \/ RemoveReq(c) \/ RemoveServerCost(c) \/ LowerFlag(c)
             \/ LimitRequest(c) \/ LimitServerCost(c) \/ Refuse(c)
      PROVE  CostLimitersFollowPlan'
  BY <1>0, <1>3
  DEF CostLimitersFollowPlan, Check, RemoveReq, RemoveServerCost, LowerFlag, LimitRequest,
      LimitServerCost, Refuse, Stale
<1>4. ASSUME NEW c \in Conns, RemoveCost(c) PROVE CostLimitersFollowPlan'
  BY <1>0, <1>1, <1>4 DEF TypeOK, CostLimitersFollowPlan, RemoveCost, Stale
<1>5. ASSUME NEW c \in Conns, LimitCost(c) PROVE CostLimitersFollowPlan'
  <2>1. plan[Server(c)] \in 0 .. MaxPlan
    BY <1>0, <1>1 DEF TypeOK
  <2> QED
    BY <1>0, <1>1, <1>5, <2>1, PlanAssumption
    DEF TypeOK, CostLimitersFollowPlan, LimitCost, Create, Server, Stale
<1>6. CASE RunnerRestart
  BY <1>6 DEF CostLimitersFollowPlan, RunnerRestart, Stale
<1>7. ASSUME NEW s \in Servers, WritePlan(s) PROVE CostLimitersFollowPlan'
  BY <1>0, <1>7, ServerAssumption DEF TypeOK, CostLimitersFollowPlan, WritePlan, Stale
<1>8. ASSUME NEW s \in Servers, RaiseFlag(s) PROVE CostLimitersFollowPlan'
  BY <1>0, <1>8 DEF CostLimitersFollowPlan, RaiseFlag, Stale
<1>9. CASE UNCHANGED vars
  BY <1>0, <1>9 DEF CostLimitersFollowPlan, vars, Stale
<1> QED
  BY <1>2, <1>3, <1>4, <1>5, <1>6, <1>7, <1>8, <1>9 DEF Next, Filter

\* The inductive invariant holds in every reachable state.
THEOREM LimitersInvariance == Spec => []LimitersInv
<1>1. LimitersInv /\ [Next]_vars => LimitersInv'
  BY NextTypeOK, NextBehindRemoval, NextServerLimiters, NextCostLimiters DEF LimitersInv
<1> QED
  BY <1>1, InitLimiters, PTL DEF Spec

\* Once the flag is down, a user's server limiters are those of the current
\* plan, unless it was written while limiters were being removed.
THEOREM ServerPlanFollowed == Spec => []ServerLimitersFollowPlan
<1>1. LimitersInv => ServerLimitersFollowPlan
  BY DEF LimitersInv
<1> QED
  BY <1>1, LimitersInvariance, PTL

\* So is the limiter of every cost type that was removed for that plan.
THEOREM CostPlanFollowed == Spec => []CostLimitersFollowPlan
<1>1. LimitersInv => CostLimitersFollowPlan
  BY DEF LimitersInv
<1> QED
  BY <1>1, LimitersInvariance, PTL
=============================================================================
