------------------------------- MODULE Count -------------------------------
(***************************************************************************)
(* The billing path of the gateway: the "count" plugin                     *)
(* (plugins/count/count.go), the response handlers that call DeterminCount *)
(* with their own success counter (plugins/resphandler), and the Redis     *)
(* keys they share with the settlement service.                            *)
(*                                                                         *)
(* A request is a process.  Each call to Redis is one step, because other  *)
(* requests, other runner goroutines and the settlement service run        *)
(* between two calls; the code between two calls is local and belongs to   *)
(* the step before it.                                                     *)
(***************************************************************************)
EXTENDS Integers, FiniteSets

CONSTANTS
  Requests,     \* requests, one per uuid the parser puts in the request-id header
  Keys,         \* (user, cost type) pairs: each owns a pending and a count key
  KindOf,       \* which plugin answers for a key: "count", "rpc" or "scan"
  Costs,        \* the cost counts a parser can put in the header
  MaxCost,      \* the largest of them
  Quota,        \* getQuotaLimit of the key's cost type
  MaxInFlight,  \* bound: requests APISIX has open at the same time
  MaxFaults     \* bound: environment failures in a behaviour

Kinds == {"count", "rpc", "scan"}

ASSUME RequestsAssumption == IsFiniteSet(Requests)
ASSUME KindAssumption == KindOf \in [Keys -> Kinds]
ASSUME CostAssumption == MaxCost \in Nat /\ Costs \subseteq 0 .. MaxCost
ASSUME QuotaAssumption == Quota \in [Keys -> Nat]
ASSUME InFlightAssumption == MaxInFlight \in Nat \ {0}
ASSUME FaultAssumption == MaxFaults \in Nat \ {0}

VARIABLES
  pc,       \* where each request is
  key,      \* its (user, cost type)
  cost,     \* its cost count
  resp,     \* the upstream response, once there is one
  rich,     \* the rich flag of each key, written by the settlement service
  pending,  \* UserPendingCountKey
  count,    \* UserCountKey: successful calls not settled yet
  settled,  \* what the settlement service has taken out of count
  rec,      \* the requests with a RequestKey record in Redis
  faults    \* environment failures so far, counted up to MaxFaults

reqVars == <<pc, key, cost, resp>>
vars == <<pc, key, cost, resp, rich, pending, count, settled, rec, faults>>

(***************************************************************************)
(* "parse" is the request before the plugin.  "rich" .. "cache" are inside *)
(* Count.RequestFilter, each waiting to make the call it is named for,     *)
(* "limit" is in the rest of the pre-request chain, "upstream" is proxied. *)
(* "find" .. "del" are inside DeterminCount.  The others are final.        *)
(***************************************************************************)
PreStates == {"rich", "quota", "incr", "cache", "limit"}
PostStates == {"find", "decr", "charge", "del"}
RunnerStates == PreStates \cup PostStates
OpenStates == RunnerStates \cup {"upstream"}
FinalStates == {"refused", "limited", "done", "lost"}
States == {"parse"} \cup OpenStates \cup FinalStates

\* A response as far as the success counters can tell: the status class, and
\* how many of the items asked for the body answers without an error.
Responses == [status : {"200", "2xx", "error"}, good : 0 .. MaxCost]
NoResponse == [status |-> "none", good |-> 0]

\* The success counters: DeterminCount's own and the two handlers'.
SuccessCount(kind, c, w) ==
  CASE kind = "count" -> IF w.status \in {"200", "2xx"} THEN c ELSE 0
    [] kind = "rpc"   -> IF w.status = "200" THEN w.good ELSE 0
    [] kind = "scan"  -> IF w.status = "200" /\ w.good > 0 THEN 1 ELSE 0

Success(r) == SuccessCount(KindOf[key[r]], cost[r], resp[r])

Init ==
  /\ pc = [r \in Requests |-> "parse"]
  /\ key \in [Requests -> Keys]
  /\ cost \in [Requests -> Costs]
  /\ \A r \in Requests : KindOf[key[r]] = "scan" => cost[r] = 1
  /\ resp = [r \in Requests |-> NoResponse]
  /\ rich = [k \in Keys |-> TRUE]
  /\ pending = [k \in Keys |-> 0]
  /\ count = [k \in Keys |-> 0]
  /\ settled = [k \in Keys |-> 0]
  /\ rec = {}
  /\ faults = 0

Goto(r, from, to) == pc[r] = from /\ pc' = [pc EXCEPT ![r] = to]

Open == {r \in Requests : pc[r] \in OpenStates}

-----------------------------------------------------------------------------
(* Count.RequestFilter *)

\* The request reaches the plugin; headers that do not parse end it with a 400.
ParseHeaders(r) ==
  /\ \/ Goto(r, "parse", "rich") /\ Cardinality(Open) < MaxInFlight
     \/ Goto(r, "parse", "refused")
  /\ UNCHANGED <<key, cost, resp, rich, pending, count, settled, rec, faults>>

CheckIsRich(r) ==
  /\ Goto(r, "rich", IF rich[key[r]] THEN "quota" ELSE "refused")
  /\ UNCHANGED <<key, cost, resp, rich, pending, count, settled, rec, faults>>

\* Mutant: the test forgets the cost of the request itself.
CheckQuotaWithoutCost(r) ==
  /\ Goto(r, "quota", IF count[key[r]] > Quota[key[r]] THEN "refused" ELSE "incr")
  /\ UNCHANGED <<key, cost, resp, rich, pending, count, settled, rec, faults>>

\* The pending count is read too, but only logged; the quota test is local to
\* the step that reads count.
CheckQuota(r) ==
  /\ Goto(r, "quota",
          IF count[key[r]] + cost[r] > Quota[key[r]] THEN "refused" ELSE "incr")
  /\ UNCHANGED <<key, cost, resp, rich, pending, count, settled, rec, faults>>

IncrPending(r) ==
  /\ Goto(r, "incr", "cache")
  /\ pending' = [pending EXCEPT ![key[r]] = @ + cost[r]]
  /\ UNCHANGED <<key, cost, resp, rich, count, settled, rec, faults>>

CacheRequest(r) ==
  /\ Goto(r, "cache", "limit")
  /\ rec' = rec \cup {r}
  /\ UNCHANGED <<key, cost, resp, rich, pending, count, settled, faults>>

\* The rest of the pre-request chain lets the request go upstream, or answers
\* it with a 400: no response filter ever runs for it then.
RateLimit(r) ==
  /\ \/ Goto(r, "limit", "upstream")
     \/ Goto(r, "limit", "limited")
  /\ UNCHANGED <<key, cost, resp, rich, pending, count, settled, rec, faults>>

-----------------------------------------------------------------------------
(* DeterminCount, called by Count.ResponseFilter, RpcRespHandler and        *)
(* ScanRespHandler                                                          *)

\* The upstream answers; it answers no more items than it was asked for.
Respond(r) ==
  /\ Goto(r, "upstream", "find")
  /\ \E w \in Responses :
       /\ w.good <= cost[r]
       /\ resp' = [resp EXCEPT ![r] = w]
  /\ UNCHANGED <<key, cost, rich, pending, count, settled, rec, faults>>

FindRequest(r) ==
  /\ Goto(r, "find", IF r \in rec THEN "decr" ELSE "del")
  /\ UNCHANGED <<key, cost, resp, rich, pending, count, settled, rec, faults>>

\* Mutant: only a successful call gives its pending count back.
DecrPendingOnSuccess(r) ==
  /\ Goto(r, "decr", IF Success(r) <= 0 THEN "del" ELSE "charge")
  /\ pending' = IF Success(r) <= 0 THEN pending ELSE [pending EXCEPT ![key[r]] = @ - cost[r]]
  /\ UNCHANGED <<key, cost, resp, rich, count, settled, rec, faults>>

\* Mutant: a single success is taken for none.
DecrPendingOffByOne(r) ==
  /\ Goto(r, "decr", IF Success(r) <= 1 THEN "del" ELSE "charge")
  /\ pending' = [pending EXCEPT ![key[r]] = @ - cost[r]]
  /\ UNCHANGED <<key, cost, resp, rich, count, settled, rec, faults>>

DecrPending(r) ==
  /\ Goto(r, "decr", IF Success(r) <= 0 THEN "del" ELSE "charge")
  /\ pending' = [pending EXCEPT ![key[r]] = @ - cost[r]]
  /\ UNCHANGED <<key, cost, resp, rich, count, settled, rec, faults>>

\* Mutant: the whole cost is charged, not the successful part.
IncrCountByCost(r) ==
  /\ Goto(r, "charge", "del")
  /\ count' = [count EXCEPT ![key[r]] = @ + cost[r]]
  /\ UNCHANGED <<key, cost, resp, rich, pending, settled, rec, faults>>

\* Mutant: DecrBy where IncrBy is meant.
IncrCountSwapped(r) ==
  /\ Goto(r, "charge", "del")
  /\ count' = [count EXCEPT ![key[r]] = @ - Success(r)]
  /\ UNCHANGED <<key, cost, resp, rich, pending, settled, rec, faults>>

IncrCount(r) ==
  /\ Goto(r, "charge", "del")
  /\ count' = [count EXCEPT ![key[r]] = @ + Success(r)]
  /\ UNCHANGED <<key, cost, resp, rich, pending, settled, rec, faults>>

\* The deferred Del, on every path out of DeterminCount.
DelRequest(r) ==
  /\ Goto(r, "del", "done")
  /\ rec' = rec \ {r}
  /\ UNCHANGED <<key, cost, resp, rich, pending, count, settled, faults>>

-----------------------------------------------------------------------------
(* Failures.  A Redis call that returns an error may have been applied.     *)

Fault == faults < MaxFaults /\ faults' = faults + 1

ReadFails(r) ==
  /\ Fault
  /\ \/ Goto(r, "rich", "refused")
     \/ Goto(r, "quota", "refused")
     \/ Goto(r, "find", "del")
  /\ UNCHANGED <<key, cost, resp, rich, pending, count, settled, rec>>

\* Mutant: the error of the IncrBy is ignored.
IncrPendingFailsIgnored(r) ==
  /\ Fault
  /\ Goto(r, "incr", "cache")
  /\ pending' \in {pending, [pending EXCEPT ![key[r]] = @ + cost[r]]}
  /\ UNCHANGED <<key, cost, resp, rich, count, settled, rec>>

IncrPendingFails(r) ==
  /\ Fault
  /\ Goto(r, "incr", "refused")
  /\ pending' \in {pending, [pending EXCEPT ![key[r]] = @ + cost[r]]}
  /\ UNCHANGED <<key, cost, resp, rich, count, settled, rec>>

CacheRequestFails(r) ==
  /\ Fault
  /\ Goto(r, "cache", "refused")
  /\ rec' \in {rec, rec \cup {r}}
  /\ UNCHANGED <<key, cost, resp, rich, pending, count, settled>>

DecrPendingFails(r) ==
  /\ Fault
  /\ Goto(r, "decr", "del")
  /\ pending' \in {pending, [pending EXCEPT ![key[r]] = @ - cost[r]]}
  /\ UNCHANGED <<key, cost, resp, rich, count, settled, rec>>

IncrCountFails(r) ==
  /\ Fault
  /\ Goto(r, "charge", "del")
  /\ count' \in {count, [count EXCEPT ![key[r]] = @ + Success(r)]}
  /\ UNCHANGED <<key, cost, resp, rich, pending, settled, rec>>

DelRequestFails(r) ==
  /\ Fault
  /\ Goto(r, "del", "done")
  /\ rec' \in {rec, rec \ {r}}
  /\ UNCHANGED <<key, cost, resp, rich, pending, count, settled>>

\* The response carries no request id: DeterminCount returns at once.
RespondWithoutId(r) ==
  /\ Fault
  /\ Goto(r, "upstream", "done")
  /\ UNCHANGED <<key, cost, resp, rich, pending, count, settled, rec>>

\* The client leaves, or APISIX gives the upstream up: no response filter runs.
Abandon(r) ==
  /\ Fault
  /\ Goto(r, "upstream", "lost")
  /\ UNCHANGED <<key, cost, resp, rich, pending, count, settled, rec>>

\* The runner process dies: every goroutine in a filter is gone, its deferred
\* Del included.  Redis and the requests proxied upstream survive.
RunnerCrash ==
  /\ Fault
  /\ \E r \in Requests : pc[r] \in RunnerStates
  /\ pc' = [r \in Requests |-> IF pc[r] \in RunnerStates THEN "lost" ELSE pc[r]]
  /\ UNCHANGED <<key, cost, resp, rich, pending, count, settled, rec>>

\* Mutant: the record is set without a TTL.
ExpireNever(r) ==
  /\ FALSE
  /\ UNCHANGED <<reqVars, rich, pending, count, settled, rec, faults>>

\* The record's ten minutes are over.  For a request that may still need its
\* record this is a failure, otherwise it is how the record goes away.
Expire(r) ==
  /\ r \in rec
  /\ rec' = rec \ {r}
  /\ faults' = IF pc[r] \in {"limit", "upstream", "find"} /\ faults < MaxFaults
                THEN faults + 1 ELSE faults
  /\ UNCHANGED <<reqVars, rich, pending, count, settled>>

-----------------------------------------------------------------------------
(* The settlement service (external): it takes the un-settled count out of  *)
(* Redis and decides whether the user can still pay.                        *)

Settle(k) ==
  /\ count[k] > 0
  /\ settled' = [settled EXCEPT ![k] = @ + count[k]]
  /\ count' = [count EXCEPT ![k] = 0]
  /\ UNCHANGED <<reqVars, rich, pending, rec, faults>>

SetRich(k) ==
  /\ \E b \in BOOLEAN \ {rich[k]} : rich' = [rich EXCEPT ![k] = b]
  /\ UNCHANGED <<reqVars, pending, count, settled, rec, faults>>

-----------------------------------------------------------------------------
RequestFilter(r) ==
  \/ CheckIsRich(r) \/ CheckQuota(r) \/ IncrPending(r) \/ CacheRequest(r)
  \/ RateLimit(r)

DeterminCount(r) ==
  \/ FindRequest(r) \/ DecrPending(r) \/ IncrCount(r) \/ DelRequest(r)

RedisFails(r) ==
  \/ ReadFails(r) \/ IncrPendingFails(r) \/ CacheRequestFails(r)
  \/ DecrPendingFails(r) \/ IncrCountFails(r) \/ DelRequestFails(r)

Next ==
  \/ \E r \in Requests :
       \/ ParseHeaders(r) \/ RequestFilter(r)
       \/ Respond(r) \/ DeterminCount(r)
       \/ RedisFails(r) \/ RespondWithoutId(r) \/ Abandon(r) \/ Expire(r)
  \/ RunnerCrash
  \/ \E k \in Keys : Settle(k) \/ SetRich(k)

Spec == Init /\ [][Next]_vars

\* The Go scheduler runs every goroutine whose Redis call has returned, and
\* Redis drops a key whose time is over.  Nothing is assumed of the upstream,
\* of the clients or of the settlement service.
Fairness ==
  \A r \in Requests :
    /\ WF_vars(RequestFilter(r))
    /\ WF_vars(DeterminCount(r))
    /\ WF_vars(Expire(r))

FairSpec == Spec /\ Fairness

-----------------------------------------------------------------------------
(* Properties *)

\* The sum of w over the requests in S, as the number of units they own.
Total(S, w) == Cardinality({u \in S \X (1 .. MaxCost) : u[2] <= w[u[1]]})

On(k, states) == {r \in Requests : key[r] = k /\ pc[r] \in states}

\* Type correctness.
TypeOK ==
  /\ pc \in [Requests -> States]
  /\ key \in [Requests -> Keys]
  /\ cost \in [Requests -> Costs]
  /\ resp \in [Requests -> Responses \cup {NoResponse}]
  /\ \A r \in Requests : resp[r].good <= cost[r]
  /\ rich \in [Keys -> BOOLEAN]
  /\ pending \in [Keys -> Int]
  /\ count \in [Keys -> Nat]
  /\ settled \in [Keys -> Nat]
  /\ rec \subseteq Requests
  /\ faults \in 0 .. MaxFaults

\* The requests whose cost is in the pending key and not out of it yet.
Holding == {"cache", "limit", "upstream", "find", "decr"}

\* Whatever fails, the pending key covers every request that was counted in
\* and whose response has not been counted out: no request gives back what
\* another one reserved, so the key never goes below zero (count.go 98, 176).
PendingCoversInFlight ==
  \A k \in Keys : pending[k] >= Total(On(k, Holding), cost)

\* Without failures pending is exactly what the comment at count.go 92 says:
\* the calls not answered yet, and those that failed in a pre-request plugin.
PendingIsUnanswered ==
  faults = 0 =>
    \A k \in Keys : pending[k] = Total(On(k, Holding \cup {"limited"}), cost)

\* The requests DeterminCount may have charged: answered, and past the IncrBy.
Answered(k) == {r \in On(k, States \ {"find", "decr", "charge"}) : resp[r] # NoResponse}

SuccessOf == [r \in Requests |-> Success(r)]

\* Whatever fails, and whenever the settlement service empties the key, a user
\* is never billed for more than the calls answered successfully (count.go 198).
NeverOverbilled ==
  \A k \in Keys : count[k] + settled[k] <= Total(Answered(k), SuccessOf)

\* Without failures every successful call is billed, exactly once.
BilledExactly ==
  faults = 0 =>
    \A k \in Keys : count[k] + settled[k] = Total(Answered(k), SuccessOf)

\* The requests that passed the quota test and may still be charged.
Admitted == {"incr"} \cup Holding \cup {"charge"}

\* The quota test (count.go 93) is check-then-act and leaves pending out, so
\* the quota can be overrun; but never by more than what the other open
\* requests can add.
OvershootBound ==
  \A k \in Keys :
    count[k] + Total(On(k, Admitted), cost) <= Quota[k] + (MaxInFlight - 1) * MaxCost

\* What ties a request's place to the rest: it has no response before the
\* upstream gave one, and, unless something failed, its record is there as long
\* as DeterminCount may look for it.
Phases ==
  \A r \in Requests :
    /\ pc[r] \in {"parse", "upstream"} \cup PreStates => resp[r] = NoResponse
    /\ faults = 0 /\ pc[r] \in {"limit", "upstream", "find"} => r \in rec

\* The inductive invariant: every property above, the two facts that carry them
\* from step to step, and the bound on what is open.
IInv ==
  /\ TypeOK
  /\ Phases
  /\ Cardinality(Open) <= MaxInFlight
  /\ PendingCoversInFlight
  /\ PendingIsUnanswered
  /\ NeverOverbilled
  /\ BilledExactly
  /\ OvershootBound

\* "如果超过 quotalimit，返回失败" (count.go 78), read as what it is meant to
\* give: the un-settled count of a key stays within its quota.
WithinQuota == \A k \in Keys : count[k] <= Quota[k]

\* Every record is collected, whatever becomes of its request: by the deferred
\* Del, or by the TTL when no response filter runs (count.go 104, 159).
RecordsCollected == \A r \in Requests : r \in rec ~> r \notin rec
=============================================================================
