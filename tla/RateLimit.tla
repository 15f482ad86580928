----------------------------- MODULE RateLimit -----------------------------
(***************************************************************************)
(* The rate-limit plugin (plugins/ratelimit) for one user: limiters are    *)
(* kept in memory and made from the user's plan in Redis.  The settlement  *)
(* service writes a new plan and then raises a flag; the next request that *)
(* sees the flag removes the limiters of the old plan and lowers it.       *)
(*                                                                         *)
(* A limiter is abstracted to the version of the plan it was made from,    *)
(* and its verdict is left open.  A registry serialises its operations     *)
(* (external), so each of them is a step, as is each call to Redis.        *)
(***************************************************************************)
EXTENDS Integers

CONSTANTS
  Conns,      \* goroutines that run the filter
  Servers,    \* server types
  CostTypes,  \* cost types
  ServerOf,   \* the server type a parser sends with a cost type
  MaxPlan     \* bound: the last version of a plan

ASSUME ServerAssumption == ServerOf \in [CostTypes -> Servers]
ASSUME PlanAssumption == MaxPlan \in Nat

VARIABLES
  pc,          \* where each goroutine is
  costType,    \* the cost type header of its request
  mode,        \* RateLimitConf.Mode of its route
  plan,        \* Redis: the version of the user's plan of a server type
  flag,        \* Redis: UserPlanUpdatedForQpsPluginKey
  announcing,  \* the settlement service is to raise the flag
  serverReq,   \* serverReqRegistry: the limiter of a server type, or None
  serverCost,  \* serverCostRegistry
  cost,        \* costRegistry: the limiter of a cost type, or None
  overlapped,  \* history: the last new plan came while limiters were removed
  removed      \* history: the cost types removed since then

reqVars == <<costType, mode>>
redisVars == <<plan, flag, announcing>>
limiterVars == <<serverReq, serverCost, cost>>
history == <<overlapped, removed>>
vars == <<pc, reqVars, redisVars, limiterVars, history>>

None == -1
Modes == {"request", "cost_type", "other"}
Server(c) == ServerOf[costType[c]]

\* Inside removeLimiterIfUpdate once the flag was seen, in the order of the calls.
Removing == {"removeReq", "removeServerCost", "removeCost", "lower"}
States == {"idle", "check", "limit", "limitCost"} \cup Removing

Goto(c, from, to) == pc[c] = from /\ pc' = [pc EXCEPT ![c] = to]

Init ==
  /\ pc = [c \in Conns |-> "idle"]
  /\ costType \in [Conns -> CostTypes]
  /\ mode \in [Conns -> Modes]
  /\ plan = [s \in Servers |-> 0]
  /\ flag = [s \in Servers |-> FALSE]
  /\ announcing = [s \in Servers |-> FALSE]
  /\ serverReq = [s \in Servers |-> None]
  /\ serverCost = [s \in Servers |-> None]
  /\ cost = [t \in CostTypes |-> None]
  /\ overlapped = [s \in Servers |-> FALSE]
  /\ removed = {}

-----------------------------------------------------------------------------
(* removeLimiterIfUpdate *)

Start(c, t, m) ==
  /\ Goto(c, "idle", "check")
  /\ costType' = [costType EXCEPT ![c] = t]
  /\ mode' = [mode EXCEPT ![c] = m]
  /\ UNCHANGED <<redisVars, limiterVars, history>>

\* Mutant: the flag is lowered first.
CheckLowersFirst(c) ==
  /\ Goto(c, "check", IF flag[Server(c)] THEN "removeReq" ELSE "limit")
  /\ flag' = [flag EXCEPT ![Server(c)] = FALSE]
  /\ UNCHANGED <<reqVars, plan, announcing, limiterVars, history>>

\* A flag that cannot be read counts as not raised.
Check(c) ==
  /\ \/ Goto(c, "check", IF flag[Server(c)] THEN "removeReq" ELSE "limit")
     \/ Goto(c, "check", "limit")
  /\ UNCHANGED <<reqVars, redisVars, limiterVars, history>>

\* Mutant: the registry of the request mode is forgotten.
RemoveReqForgotten(c) ==
  /\ Goto(c, "removeReq", "removeServerCost")
  /\ UNCHANGED <<reqVars, redisVars, limiterVars, history>>

RemoveReq(c) ==
  /\ Goto(c, "removeReq", "removeServerCost")
  /\ serverReq' = [serverReq EXCEPT ![Server(c)] = None]
  /\ UNCHANGED <<reqVars, redisVars, serverCost, cost, history>>

RemoveServerCost(c) ==
  /\ Goto(c, "removeServerCost", "removeCost")
  /\ serverCost' = [serverCost EXCEPT ![Server(c)] = None]
  /\ UNCHANGED <<reqVars, redisVars, serverReq, cost, history>>

\* Mutant: Remove is asked for the server type, which costRegistry has not got.
RemoveCostOfServer(c) ==
  /\ Goto(c, "removeCost", "lower")
  /\ removed' = removed \cup {costType[c]}
  /\ UNCHANGED <<reqVars, redisVars, limiterVars, overlapped>>

RemoveCost(c) ==
  /\ Goto(c, "removeCost", "lower")
  /\ cost' = [cost EXCEPT ![costType[c]] = None]
  /\ removed' = removed \cup {costType[c]}
  /\ UNCHANGED <<reqVars, redisVars, serverReq, serverCost, overlapped>>

\* The result of the Del is ignored.
LowerFlag(c) ==
  /\ Goto(c, "lower", "limit")
  /\ flag' \in {flag, [flag EXCEPT ![Server(c)] = FALSE]}
  /\ UNCHANGED <<reqVars, plan, announcing, limiterVars, history>>

-----------------------------------------------------------------------------
(* RequestFilter *)

\* A registry makes the limiter it has not got, from the plan in Redis.
Create(limiter, s) == IF limiter = None THEN plan[s] ELSE limiter

\* The request goes on, or is answered with a 400.
LimitRequest(c) ==
  /\ mode[c] = "request"
  /\ Goto(c, "limit", "idle")
  /\ serverReq' = [serverReq EXCEPT ![Server(c)] = Create(@, Server(c))]
  /\ UNCHANGED <<reqVars, redisVars, serverCost, cost, history>>

\* The server's limiter first; what it refuses does not reach the other one.
LimitServerCost(c) ==
  /\ mode[c] = "cost_type"
  /\ Goto(c, "limit", "limitCost") \/ Goto(c, "limit", "idle")
  /\ serverCost' = [serverCost EXCEPT ![Server(c)] = Create(@, Server(c))]
  /\ UNCHANGED <<reqVars, redisVars, serverReq, cost, history>>

LimitCost(c) ==
  /\ Goto(c, "limitCost", "idle")
  /\ cost' = [cost EXCEPT ![costType[c]] = Create(@, Server(c))]
  /\ UNCHANGED <<reqVars, redisVars, serverReq, serverCost, history>>

\* Mutant: the error of getQps is ignored, and a limiter of no plan is kept.
RefuseKeepsLimiter(c) ==
  /\ Goto(c, "limit", "idle")
  /\ serverReq' = [serverReq EXCEPT ![Server(c)] = None - 1]
  /\ UNCHANGED <<reqVars, redisVars, serverCost, cost, history>>

\* Refused without a limiter: the plan cannot be read, the count header does
\* not parse, or the mode is unknown.
Refuse(c) ==
  /\ Goto(c, "limit", "idle") \/ Goto(c, "limitCost", "idle")
  /\ UNCHANGED <<reqVars, redisVars, limiterVars, history>>

\* The runner dies and is started again.
RunnerRestart ==
  /\ pc' = [c \in Conns |-> "idle"]
  /\ serverReq' = [s \in Servers |-> None]
  /\ serverCost' = [s \in Servers |-> None]
  /\ cost' = [t \in CostTypes |-> None]
  /\ UNCHANGED <<reqVars, redisVars, history>>

-----------------------------------------------------------------------------
(* The settlement service (external) *)

RemovingOn(s) == \E c \in Conns : pc[c] \in Removing /\ Server(c) = s

WritePlan(s) ==
  /\ plan[s] < MaxPlan
  /\ plan' = [plan EXCEPT ![s] = @ + 1]
  /\ announcing' = [announcing EXCEPT ![s] = TRUE]
  /\ overlapped' = [overlapped EXCEPT ![s] = RemovingOn(s)]
  /\ removed' = {t \in removed : ServerOf[t] # s}
  /\ UNCHANGED <<pc, reqVars, flag, limiterVars>>

RaiseFlag(s) ==
  /\ announcing[s]
  /\ announcing' = [announcing EXCEPT ![s] = FALSE]
  /\ flag' = [flag EXCEPT ![s] = TRUE]
  /\ UNCHANGED <<pc, reqVars, plan, limiterVars, history>>

-----------------------------------------------------------------------------
Filter(c) ==
  \/ \E t \in CostTypes, m \in Modes : Start(c, t, m)
  \/ Check(c) \/ RemoveReq(c) \/ RemoveServerCost(c) \/ RemoveCost(c) \/ LowerFlag(c)
  \/ LimitRequest(c) \/ LimitServerCost(c) \/ LimitCost(c) \/ Refuse(c)

Next ==
  \/ \E c \in Conns : Filter(c)
  \/ RunnerRestart
  \/ \E s \in Servers : WritePlan(s) \/ RaiseFlag(s)

Spec == Init /\ [][Next]_vars

-----------------------------------------------------------------------------
(* Properties *)

Limiters == None .. MaxPlan

\* Type correctness.
TypeOK ==
  /\ pc \in [Conns -> States]
  /\ costType \in [Conns -> CostTypes]
  /\ mode \in [Conns -> Modes]
  /\ plan \in [Servers -> 0 .. MaxPlan]
  /\ flag \in [Servers -> BOOLEAN]
  /\ announcing \in [Servers -> BOOLEAN]
  /\ serverReq \in [Servers -> Limiters]
  /\ serverCost \in [Servers -> Limiters]
  /\ cost \in [CostTypes -> Limiters]
  /\ overlapped \in [Servers -> BOOLEAN]
  /\ removed \subseteq CostTypes

\* A limiter made from a plan that is no longer the user's.
Stale(limiter, s) == limiter # None /\ limiter < plan[s]

\* Some request is still to hear of the new plan.
Announced(s) == announcing[s] \/ flag[s]

\* The server limiters follow the plan: once the flag is down a user is judged
\* by the current plan, unless that plan was written while a request was
\* between the check of the flag and its Del (ratelimit.go 152-163), in which
\* case the flag of the new plan can be the one that is deleted.  Any later
\* plan that is written at a quiet time repairs it.
ServerLimitersFollowPlan ==
  \A s \in Servers :
    ~Announced(s) /\ ~overlapped[s] => ~Stale(serverReq[s], s) /\ ~Stale(serverCost[s], s)

\* A limiter of a cost type follows the plan only if one of the requests that
\* removed limiters was of that cost type (ratelimit.go 161): the flag is one
\* for the server type, and the request that lowers it removes its own cost
\* type's limiter.
CostLimitersFollowPlan ==
  \A t \in CostTypes : t \in removed => ~Stale(cost[t], ServerOf[t])

\* What a request has removed, and the plan it removed it for, while it goes on
\* removing: nothing stale comes back behind it unless a new plan overlaps.
BehindRemoval ==
  \A c \in Conns : ~overlapped[Server(c)] =>
    /\ pc[c] \in Removing \ {"removeReq"} => ~Stale(serverReq[Server(c)], Server(c))
    /\ pc[c] \in {"removeCost", "lower"} => ~Stale(serverCost[Server(c)], Server(c))

\* The inductive invariant.
LimitersInv ==
  /\ TypeOK
  /\ BehindRemoval
  /\ ServerLimitersFollowPlan
  /\ CostLimitersFollowPlan
=============================================================================
