---------------------------- MODULE CountProofs ----------------------------
(***************************************************************************)
(* Proofs about Count, for every set of requests, keys and cost counts.    *)
(***************************************************************************)
EXTENDS Count, FiniteSetTheorems, TLAPS

(***************************************************************************)
(* Facts about Total, the sum by which the invariants compare a Redis      *)
(* counter with the requests behind it.                                    *)
(***************************************************************************)
Units(S, w) == {u \in S \X (1 .. MaxCost) : u[2] <= w[u[1]]}

\* Only finitely many units are owned, so Total is a natural number.
LEMMA TotalType ==
  ASSUME NEW S \in SUBSET Requests, NEW w
  PROVE  IsFiniteSet(Units(S, w)) /\ Total(S, w) = Cardinality(Units(S, w))
         /\ Total(S, w) \in Nat
<1>1. IsFiniteSet(S)
  BY FS_Subset, RequestsAssumption
<1>2. IsFiniteSet(1 .. MaxCost)
  BY FS_Interval, CostAssumption
<1>3. IsFiniteSet(S \X (1 .. MaxCost))
  BY <1>1, <1>2, FS_Product
<1>4. Units(S, w) \in SUBSET (S \X (1 .. MaxCost))
  BY DEF Units
<1>5. IsFiniteSet(Units(S, w))
  BY <1>3, <1>4, FS_Subset
<1> QED
  BY <1>5, FS_CardinalityType DEF Total, Units

\* A larger set of requests owns no less.
LEMMA TotalMonotone ==
  ASSUME NEW T \in SUBSET Requests, NEW S \in SUBSET T, NEW w
  PROVE  Total(S, w) <= Total(T, w)
<1>1. IsFiniteSet(Units(T, w))
  BY TotalType
<1>2. Units(S, w) \in SUBSET Units(T, w)
  BY DEF Units
<1>3. Cardinality(Units(S, w)) <= Cardinality(Units(T, w))
  BY <1>1, <1>2, FS_Subset
<1> QED
  BY <1>3 DEF Total, Units

\* Total only looks at the weights of the requests in the set.
LEMMA TotalSameWeights ==
  ASSUME NEW S, NEW w, NEW v, \A r \in S : w[r] = v[r]
  PROVE  Total(S, w) = Total(S, v)
<1>1. Units(S, w) = Units(S, v)
  BY DEF Units
<1> QED
  BY <1>1 DEF Total, Units

\* One request owns as many units as it weighs.
LEMMA OwnUnits ==
  ASSUME NEW r, NEW n \in Nat
  PROVE  IsFiniteSet({r} \X (1 .. n)) /\ Cardinality({r} \X (1 .. n)) = n
<1>1. IsFiniteSet({r}) /\ Cardinality({r}) = 1
  BY FS_Singleton
<1>2. IsFiniteSet(1 .. n) /\ Cardinality(1 .. n) = IF 1 > n THEN 0 ELSE n - 1 + 1
  BY FS_Interval
<1>3. Cardinality(1 .. n) = n
  BY <1>2
<1>4. IsFiniteSet({r} \X (1 .. n))
      /\ Cardinality({r} \X (1 .. n)) = 1 * Cardinality(1 .. n)
  BY <1>1, <1>2, FS_Product
<1> QED
  BY <1>3, <1>4

\* A request that joins the set adds its own weight.
LEMMA TotalAdd ==
  ASSUME NEW S \in SUBSET Requests, NEW r \in Requests, r \notin S,
         NEW w, w[r] \in 0 .. MaxCost
  PROVE  Total(S \cup {r}, w) = Total(S, w) + w[r]
<1> DEFINE A == Units(S, w)
           B == {r} \X (1 .. w[r])
<1>1. IsFiniteSet(A)
  BY TotalType
<1>2. w[r] \in Nat
  BY CostAssumption
<1>4. IsFiniteSet(B) /\ Cardinality(B) = w[r]
  BY <1>2, OwnUnits
<1>5. Units(S \cup {r}, w) = A \cup B
  BY CostAssumption DEF Units
<1>6. A \cap B = {}
  BY DEF Units
<1>7. Cardinality(A \cup B) = Cardinality(A) + Cardinality(B) - Cardinality(A \cap B)
  BY <1>1, <1>4, FS_Union
<1>8. Cardinality(A \cap B) = 0
  BY <1>6, FS_EmptySet
<1>9. Cardinality(A) \in Nat
  BY <1>1, FS_CardinalityType
<1>10. Total(S \cup {r}, w) = Cardinality(A \cup B)
  BY <1>5 DEF Total, Units
<1>11. Total(S, w) = Cardinality(A)
  BY DEF Total, Units
<1> HIDE DEF A, B
<1> QED
  BY <1>4, <1>7, <1>8, <1>9, <1>10, <1>11, CostAssumption

\* No request weighs more than MaxCost.
LEMMA TotalBound ==
  ASSUME NEW S \in SUBSET Requests, NEW w
  PROVE  Total(S, w) <= Cardinality(S) * MaxCost
<1>1. IsFiniteSet(S)
  BY FS_Subset, RequestsAssumption
<1>2. IsFiniteSet(1 .. MaxCost) /\ Cardinality(1 .. MaxCost) = MaxCost
  BY FS_Interval, CostAssumption
<1>3. IsFiniteSet(S \X (1 .. MaxCost))
      /\ Cardinality(S \X (1 .. MaxCost)) = Cardinality(S) * MaxCost
  BY <1>1, <1>2, FS_Product
<1>4. Units(S, w) \in SUBSET (S \X (1 .. MaxCost))
  BY DEF Units
<1> QED
  BY <1>3, <1>4, FS_Subset DEF Total, Units

\* The sets differ at most in r.
SameBut(r, S, T) == \A q \in Requests \ {r} : q \in S <=> q \in T

\* What a request that may enter or leave the set changes.
LEMMA TotalMove ==
  ASSUME NEW S \in SUBSET Requests, NEW T \in SUBSET Requests,
         NEW r \in Requests, SameBut(r, S, T),
         NEW w, w[r] \in 0 .. MaxCost
  PROVE  Total(T, w) = Total(S, w) - (IF r \in S THEN w[r] ELSE 0)
                                   + (IF r \in T THEN w[r] ELSE 0)
<1> DEFINE B == S \ {r}
<1>1. B \in SUBSET Requests /\ r \notin B
  OBVIOUS
<1>2. Total(B \cup {r}, w) = Total(B, w) + w[r]
  BY <1>1, TotalAdd
<1>3. Total(B, w) \in Nat
  BY <1>1, TotalType
<1>4. S = IF r \in S THEN B \cup {r} ELSE B
  OBVIOUS
<1>5. T = IF r \in T THEN B \cup {r} ELSE B
  BY DEF SameBut
<1>6. w[r] \in Nat
  BY CostAssumption
<1> HIDE DEF B
<1>7. Total(S, w) = Total(B, w) + (IF r \in S THEN w[r] ELSE 0)
  BY <1>2, <1>3, <1>4, <1>6
<1>8. Total(T, w) = Total(B, w) + (IF r \in T THEN w[r] ELSE 0)
  <2>1. CASE r \in T
    BY <1>2, <1>5, <2>1
  <2>2. CASE r \notin T
    BY <1>3, <1>5, <2>2
  <2> QED
    BY <2>1, <2>2
<1> QED
  BY <1>3, <1>6, <1>7, <1>8

-----------------------------------------------------------------------------
(* Facts about the state *)

\* A cost count is one the header can carry.
LEMMA CostRange ==
  ASSUME TypeOK, NEW r \in Requests
  PROVE  cost[r] \in 0 .. MaxCost /\ cost[r] \in Nat
<1>1. cost[r] \in Costs
  BY DEF TypeOK
<1>2. \A c \in Costs : c \in 0 .. MaxCost
  BY CostAssumption
<1>3. \A c \in 0 .. MaxCost : c \in Nat
  BY CostAssumption
<1> QED
  BY <1>1, <1>2, <1>3, Zenon

\* The success counters never count more than the request was counted in for.
LEMMA SuccessRange ==
  ASSUME TypeOK, NEW r \in Requests
  PROVE  /\ Success(r) \in 0 .. MaxCost
         /\ Success(r) \in Nat
         /\ Success(r) <= cost[r]
         /\ SuccessOf[r] = Success(r)
<1>1. cost[r] \in 0 .. MaxCost /\ cost[r] \in Nat /\ MaxCost \in Nat
  BY CostRange, CostAssumption
<1>2. resp[r].good \in Nat /\ resp[r].good <= cost[r]
  BY <1>1 DEF TypeOK, Responses, NoResponse
<1>3. KindOf[key[r]] \in {"count", "rpc", "scan"}
  BY KindAssumption DEF TypeOK, Kinds
<1>4. Success(r) \in {0, 1, cost[r], resp[r].good}
      /\ (Success(r) = 1 => Success(r) <= cost[r])
  BY <1>1, <1>2, <1>3 DEF Success, SuccessCount
<1>5. SuccessOf[r] = Success(r)
  BY DEF SuccessOf
<1> QED
  BY <1>1, <1>2, <1>4, <1>5

\* Only r moves.
Moves(r) ==
  /\ key' = key
  /\ cost' = cost
  /\ \A q \in Requests \ {r} : pc'[q] = pc[q]

\* The part of its cost that a request in state s has in the sum over X.
Share(r, k, s, X) == IF key[r] = k /\ s \in X THEN cost[r] ELSE 0

\* What a step of one request changes in a sum of costs.
LEMMA MoveOn ==
  ASSUME TypeOK, NEW r \in Requests, NEW k, NEW X, Moves(r)
  PROVE  Total(On(k, X), cost)' =
           Total(On(k, X), cost) - Share(r, k, pc[r], X) + Share(r, k, pc'[r], X)
<1> DEFINE S == On(k, X)
           T == On(k, X)'
<1>1. S \in SUBSET Requests /\ T \in SUBSET Requests
  BY DEF On
<1>2. SameBut(r, S, T)
  BY DEF On, Moves, SameBut
<1>3. (r \in S <=> key[r] = k /\ pc[r] \in X) /\ (r \in T <=> key[r] = k /\ pc'[r] \in X)
  BY DEF On, Moves
<1>4. cost[r] \in 0 .. MaxCost
  BY CostRange
<1>5. Total(On(k, X), cost) = Total(S, cost) /\ Total(On(k, X), cost)' = Total(T, cost)
  BY DEF Moves
<1> HIDE DEF S, T
<1>6. Total(T, cost) = Total(S, cost) - (IF r \in S THEN cost[r] ELSE 0)
                                      + (IF r \in T THEN cost[r] ELSE 0)
  BY <1>1, <1>2, <1>4, TotalMove
<1> QED
  BY <1>3, <1>5, <1>6 DEF Share

\* The states in which a request is not charged yet though it has a response.
Uncharged == {"find", "decr", "charge"}

\* The part of its success that a request in state s has in the sum over Answered.
Gain(r, k, s) ==
  IF key[r] = k /\ s \notin Uncharged /\ resp[r] # NoResponse THEN Success(r) ELSE 0

\* What a step of one request changes in the sum of successes.
LEMMA MoveAnswered ==
  ASSUME TypeOK, TypeOK', NEW r \in Requests, NEW k, Moves(r), resp' = resp
  PROVE  Total(Answered(k), SuccessOf)' =
           Total(Answered(k), SuccessOf) - Gain(r, k, pc[r]) + Gain(r, k, pc'[r])
<1> DEFINE S == Answered(k)
           T == Answered(k)'
           w == SuccessOf
<1>1. S \in SUBSET Requests /\ T \in SUBSET Requests
  BY DEF Answered, On
<1>2. SameBut(r, S, T)
  BY DEF Answered, On, Moves, SameBut
<1>3. r \in T <=> key[r] = k /\ pc'[r] \notin Uncharged /\ resp[r] # NoResponse
  BY DEF Answered, On, Moves, TypeOK, Uncharged
<1>4. r \in S <=> key[r] = k /\ pc[r] \notin Uncharged /\ resp[r] # NoResponse
  BY DEF Answered, On, TypeOK, Uncharged
<1>5. w[r] \in 0 .. MaxCost
  BY SuccessRange
<1>6. w[r] = Success(r)
  BY SuccessRange
<1>7. SuccessOf' = SuccessOf
  BY DEF SuccessOf, Success, Moves
<1>8. Total(Answered(k), SuccessOf)' = Total(T, w)
  BY <1>7
<1> HIDE DEF S, T, w
<1>9. Total(T, w) = Total(S, w) - (IF r \in S THEN w[r] ELSE 0)
                                + (IF r \in T THEN w[r] ELSE 0)
  BY <1>1, <1>2, <1>5, TotalMove
<1> QED
  BY <1>3, <1>4, <1>6, <1>8, <1>9 DEF S, w, Gain

-----------------------------------------------------------------------------
(* Type correctness *)

\* The initial states are well typed.
LEMMA InitTypeOK == Init => TypeOK
<1> SUFFICES ASSUME Init PROVE TypeOK
  OBVIOUS
<1>1. \A r \in Requests : cost[r] \in Costs /\ resp[r] = NoResponse
  BY DEF Init
<1>3. \A c \in Costs : 0 <= c
  BY CostAssumption
<1>2. \A r \in Requests : resp[r].good <= cost[r]
  BY <1>1, <1>3 DEF NoResponse
<1> QED
  BY <1>2, FaultAssumption DEF Init, TypeOK, States

\* Every step keeps the state well typed.
LEMMA NextTypeOK == TypeOK /\ [Next]_vars => TypeOK'
<1> SUFFICES ASSUME TypeOK, [Next]_vars PROVE TypeOK'
  OBVIOUS
<1> USE DEF TypeOK, Goto
<1>s. /\ {"refused", "limited", "done", "lost"} \subseteq States
      /\ {"rich", "quota", "incr", "cache", "limit", "upstream"} \subseteq States
      /\ {"find", "decr", "charge", "del"} \subseteq States
  BY DEF States, OpenStates, RunnerStates, PreStates, PostStates, FinalStates
<1>c. \A r \in Requests : cost[r] \in Nat /\ Success(r) \in Nat /\ key[r] \in Keys
  BY CostRange, SuccessRange
<1>f. Fault => faults' \in 0 .. MaxFaults
  BY FaultAssumption DEF Fault
<1>1. ASSUME NEW r \in Requests, ParseHeaders(r) \/ CheckIsRich(r) \/ CheckQuota(r)
                                   \/ RateLimit(r) \/ FindRequest(r)
      PROVE  TypeOK'
  BY <1>1, <1>s DEF ParseHeaders, CheckIsRich, CheckQuota, RateLimit, FindRequest
<1>2. ASSUME NEW r \in Requests, IncrPending(r) \/ DecrPending(r)
      PROVE  TypeOK'
  BY <1>2, <1>s, <1>c DEF IncrPending, DecrPending
<1>3. ASSUME NEW r \in Requests, CacheRequest(r) \/ DelRequest(r)
      PROVE  TypeOK'
  BY <1>3, <1>s DEF CacheRequest, DelRequest
<1>4. ASSUME NEW r \in Requests, Respond(r)
      PROVE  TypeOK'
  <2>1. PICK w \in Responses : w.good <= cost[r] /\ resp' = [resp EXCEPT ![r] = w]
    BY <1>4 DEF Respond
  <2>2. resp' \in [Requests -> Responses \cup {NoResponse}]
    BY <2>1
  <2>3. \A q \in Requests : resp'[q].good <= cost'[q]
    BY <2>1, <1>4 DEF Respond
  <2> QED
    BY <1>4, <1>s, <2>2, <2>3 DEF Respond
<1>5. ASSUME NEW r \in Requests, IncrCount(r)
      PROVE  TypeOK'
  BY <1>5, <1>s, <1>c DEF IncrCount
<1>6. ASSUME NEW r \in Requests, ReadFails(r) \/ RespondWithoutId(r) \/ Abandon(r)
      PROVE  TypeOK'
  BY <1>6, <1>s, <1>f DEF ReadFails, RespondWithoutId, Abandon
<1>7. ASSUME NEW r \in Requests, IncrPendingFails(r) \/ DecrPendingFails(r)
      PROVE  TypeOK'
  BY <1>7, <1>s, <1>c, <1>f DEF IncrPendingFails, DecrPendingFails
<1>8. ASSUME NEW r \in Requests, CacheRequestFails(r) \/ DelRequestFails(r)
      PROVE  TypeOK'
  BY <1>8, <1>s, <1>f DEF CacheRequestFails, DelRequestFails
<1>9. ASSUME NEW r \in Requests, IncrCountFails(r)
      PROVE  TypeOK'
  BY <1>9, <1>s, <1>c, <1>f DEF IncrCountFails
<1>10. ASSUME NEW r \in Requests, Expire(r)
       PROVE  TypeOK'
  BY <1>10, FaultAssumption DEF Expire, reqVars
<1>11. CASE RunnerCrash
  BY <1>11, <1>s, <1>f DEF RunnerCrash
<1>12. ASSUME NEW k \in Keys, Settle(k)
       PROVE  TypeOK'
  BY <1>12 DEF Settle, reqVars
<1>13. ASSUME NEW k \in Keys, SetRich(k)
       PROVE  TypeOK'
  BY <1>13 DEF SetRich, reqVars
<1>14. CASE UNCHANGED vars
  BY <1>14 DEF vars
<1> QED
  BY <1>1, <1>2, <1>3, <1>4, <1>5, <1>6, <1>7, <1>8, <1>9, <1>10, <1>11, <1>12, <1>13, <1>14
  DEF Next, RequestFilter, DeterminCount, RedisFails

\* Type correctness of the whole specification.
THEOREM TypeCorrect == Spec => []TypeOK
BY InitTypeOK, NextTypeOK, PTL DEF Spec

-----------------------------------------------------------------------------
(* The facts that carry the invariant *)

\* Requests before their response, and records, stay in phase.
LEMMA NextPhases == TypeOK /\ Phases /\ [Next]_vars => Phases'
<1> SUFFICES ASSUME TypeOK, Phases, [Next]_vars, NEW q \in Requests
             PROVE  /\ pc'[q] \in {"parse", "upstream"} \cup PreStates => resp'[q] = NoResponse
                    /\ faults' = 0 /\ pc'[q] \in {"limit", "upstream", "find"} => q \in rec'
  BY DEF Phases
<1> USE DEF TypeOK, Phases, Goto, PreStates
<1>f. Fault => faults' # 0
  BY DEF Fault
<1>1. ASSUME NEW r \in Requests, ParseHeaders(r) \/ RequestFilter(r)
      PROVE  /\ pc'[q] \in {"parse", "upstream"} \cup PreStates => resp'[q] = NoResponse
             /\ faults' = 0 /\ pc'[q] \in {"limit", "upstream", "find"} => q \in rec'
  BY <1>1 DEF ParseHeaders, RequestFilter, CheckIsRich, CheckQuota, IncrPending,
              CacheRequest, RateLimit
<1>2. ASSUME NEW r \in Requests, Respond(r) \/ DeterminCount(r)
      PROVE  /\ pc'[q] \in {"parse", "upstream"} \cup PreStates => resp'[q] = NoResponse
             /\ faults' = 0 /\ pc'[q] \in {"limit", "upstream", "find"} => q \in rec'
  BY <1>2 DEF Respond, DeterminCount, FindRequest, DecrPending, IncrCount, DelRequest
<1>3. ASSUME NEW r \in Requests, RedisFails(r) \/ RespondWithoutId(r) \/ Abandon(r)
      PROVE  /\ pc'[q] \in {"parse", "upstream"} \cup PreStates => resp'[q] = NoResponse
             /\ faults' = 0 /\ pc'[q] \in {"limit", "upstream", "find"} => q \in rec'
  BY <1>3, <1>f DEF RedisFails, ReadFails, IncrPendingFails, CacheRequestFails,
       DecrPendingFails, IncrCountFails, DelRequestFails, RespondWithoutId, Abandon
<1>4. ASSUME NEW r \in Requests, Expire(r)
      PROVE  /\ pc'[q] \in {"parse", "upstream"} \cup PreStates => resp'[q] = NoResponse
             /\ faults' = 0 /\ pc'[q] \in {"limit", "upstream", "find"} => q \in rec'
  BY <1>4, FaultAssumption DEF Expire, reqVars
<1>5. CASE RunnerCrash
  BY <1>5, <1>f DEF RunnerCrash
<1>6. CASE (\E k \in Keys : Settle(k) \/ SetRich(k)) \/ UNCHANGED vars
  BY <1>6 DEF Settle, SetRich, vars, reqVars
<1> QED
  BY <1>1, <1>2, <1>3, <1>4, <1>5, <1>6 DEF Next

\* No more requests are open than APISIX opens.
LEMMA NextOpen ==
  ASSUME TypeOK, [Next]_vars, Cardinality(Open) <= MaxInFlight
  PROVE  Cardinality(Open)' <= MaxInFlight
<1>1. Open \in SUBSET Requests /\ Open' \in SUBSET Requests
  BY DEF Open
<1>2. IsFiniteSet(Open) /\ Cardinality(Open) \in Nat
  BY <1>1, FS_Subset, FS_CardinalityType, RequestsAssumption
<1>3. IsFiniteSet(Open') /\ Cardinality(Open') \in Nat
  BY <1>1, FS_Subset, FS_CardinalityType, RequestsAssumption
<1>n. MaxInFlight \in Nat
  BY InFlightAssumption
<1>9. Open' \in SUBSET Open => Cardinality(Open') <= MaxInFlight
  <2>1. Open' \in SUBSET Open => Cardinality(Open') <= Cardinality(Open)
    BY <1>2, FS_Subset
  <2> QED
    BY <1>2, <1>3, <1>n, <2>1
<1>4. ASSUME NEW r \in Requests, ParseHeaders(r), pc'[r] # "refused"
      PROVE  Cardinality(Open') <= MaxInFlight
  <2>1. Cardinality(Open) < MaxInFlight
    BY <1>4 DEF ParseHeaders, Goto, TypeOK
  <2>2. Open' = Open \cup {r}
    BY <1>4 DEF ParseHeaders, Goto, TypeOK, Open, OpenStates, RunnerStates, PreStates
  <2>3. Cardinality(Open \cup {r}) <= Cardinality(Open) + 1
    BY <1>2, FS_AddElement
  <2>4. Cardinality(Open') <= Cardinality(Open) + 1
    BY <2>2, <2>3
  <2> QED
    BY <1>2, <1>3, <1>n, <2>1, <2>4
<1>5. ASSUME NEW r \in Requests, ParseHeaders(r), pc'[r] = "refused"
      PROVE  Open' \in SUBSET Open
  BY <1>5 DEF ParseHeaders, Goto, TypeOK, Open, OpenStates, RunnerStates, PreStates, PostStates
<1>6. ASSUME NEW r \in Requests, RequestFilter(r) \/ Respond(r) \/ DeterminCount(r)
      PROVE  Open' \in SUBSET Open
  BY <1>6 DEF RequestFilter, CheckIsRich, CheckQuota, IncrPending, CacheRequest, RateLimit,
     Respond, DeterminCount, FindRequest, DecrPending, IncrCount, DelRequest,
     Goto, TypeOK, Open, OpenStates, RunnerStates, PreStates, PostStates
<1>7. ASSUME NEW r \in Requests, RedisFails(r) \/ RespondWithoutId(r) \/ Abandon(r) \/ Expire(r)
      PROVE  Open' \in SUBSET Open
  BY <1>7 DEF RedisFails, ReadFails, IncrPendingFails, CacheRequestFails,
     DecrPendingFails, IncrCountFails, DelRequestFails, RespondWithoutId, Abandon, Expire, reqVars,
     Goto, TypeOK, Open, OpenStates, RunnerStates, PreStates, PostStates
<1>8. CASE RunnerCrash \/ (\E k \in Keys : Settle(k) \/ SetRich(k)) \/ UNCHANGED vars
  <2>1. Open' \in SUBSET Open
    BY <1>8 DEF RunnerCrash, Settle, SetRich, vars, reqVars, TypeOK, Open, OpenStates, RunnerStates,
       PreStates, PostStates
  <2> QED
    BY <1>9, <2>1
<1> QED
  BY <1>4, <1>5, <1>6, <1>7, <1>8, <1>9 DEF Next

-----------------------------------------------------------------------------
(* The pending key *)

\* Sums of costs are naturals, before and after a step.
LEMMA OnType ==
  ASSUME NEW k, NEW X
  PROVE  Total(On(k, X), cost) \in Nat /\ Total(On(k, X), cost)' \in Nat
<1>1. On(k, X) \in SUBSET Requests /\ On(k, X)' \in SUBSET Requests
  BY DEF On
<1> QED
  BY <1>1, TotalType

\* A request that does not enter X adds nothing to the sum over X, and one that
\* does not leave it either changes nothing.
LEMMA StayOn ==
  ASSUME TypeOK, NEW r \in Requests, NEW k, NEW X, Moves(r), pc'[r] \in X => pc[r] \in X
  PROVE  /\ Total(On(k, X), cost)' <= Total(On(k, X), cost)
         /\ (pc[r] \in X => pc'[r] \in X)
              => Total(On(k, X), cost)' = Total(On(k, X), cost)
<1>1. Total(On(k, X), cost)' =
        Total(On(k, X), cost) - Share(r, k, pc[r], X) + Share(r, k, pc'[r], X)
  BY MoveOn
<1>2. Total(On(k, X), cost) \in Nat /\ Total(On(k, X), cost)' \in Nat
  BY OnType
<1>3. cost[r] \in Nat
  BY CostRange
<1> QED
  BY <1>1, <1>2, <1>3 DEF Share

\* Whatever happens, pending covers the requests in flight.
LEMMA NextCovers ==
  ASSUME TypeOK, PendingCoversInFlight, [Next]_vars
  PROVE  PendingCoversInFlight'
<1> DEFINE C(k) == Total(On(k, Holding), cost)
<1> SUFFICES ASSUME NEW k \in Keys PROVE pending'[k] >= C(k)'
  BY DEF PendingCoversInFlight
<1>1. pending[k] \in Int /\ C(k) \in Nat /\ C(k)' \in Nat /\ pending[k] >= C(k)
  BY OnType DEF TypeOK, PendingCoversInFlight
<1>2. ASSUME NEW r \in Requests, Moves(r), pc'[r] \in Holding => pc[r] \in Holding
      PROVE  C(k)' <= C(k)
  BY <1>2, StayOn
<1>3. ASSUME NEW r \in Requests, Moves(r)
      PROVE  C(k)' = C(k) - Share(r, k, pc[r], Holding) + Share(r, k, pc'[r], Holding)
  BY <1>3, MoveOn
<1>c. \A r \in Requests : cost[r] \in Nat /\ key[r] \in Keys
  BY CostRange DEF TypeOK
<1> HIDE DEF C
<1>4. ASSUME NEW r \in Requests,
             \/ ParseHeaders(r) \/ CheckIsRich(r) \/ CheckQuota(r) \/ CacheRequest(r)
             \/ RateLimit(r) \/ Respond(r) \/ FindRequest(r) \/ IncrCount(r) \/ DelRequest(r)
      PROVE  pending'[k] >= C(k)'
  <2>1. Moves(r) /\ (pc'[r] \in Holding => pc[r] \in Holding) /\ pending' = pending
    BY <1>4 DEF ParseHeaders, CheckIsRich, CheckQuota, CacheRequest, RateLimit, Respond,
       FindRequest, IncrCount, DelRequest, Goto, Moves, TypeOK, Holding
  <2> QED
    BY <1>1, <1>2, <2>1
<1>5. ASSUME NEW r \in Requests,
             \/ ReadFails(r) \/ CacheRequestFails(r) \/ IncrCountFails(r) \/ DelRequestFails(r)
             \/ RespondWithoutId(r) \/ Abandon(r)
      PROVE  pending'[k] >= C(k)'
  <2>1. Moves(r) /\ (pc'[r] \in Holding => pc[r] \in Holding) /\ pending' = pending
    BY <1>5 DEF ReadFails, CacheRequestFails, IncrCountFails, DelRequestFails,
       RespondWithoutId, Abandon, Goto, Moves, TypeOK, Holding
  <2> QED
    BY <1>1, <1>2, <2>1
<1>6. ASSUME NEW r \in Requests, IncrPending(r)
      PROVE  pending'[k] >= C(k)'
  <2>1. Moves(r) /\ pc[r] = "incr" /\ pc'[r] = "cache"
    BY <1>6 DEF IncrPending, Goto, Moves, TypeOK
  <2>2. pending'[k] = pending[k] + (IF key[r] = k THEN cost[r] ELSE 0)
    BY <1>1, <1>6, <1>c DEF IncrPending, TypeOK
  <2>3. C(k)' = C(k) + (IF key[r] = k THEN cost[r] ELSE 0)
    BY <1>1, <1>3, <1>c, <2>1 DEF Share, Holding
  <2> QED
    BY <1>1, <1>c, <2>2, <2>3
<1>7. ASSUME NEW r \in Requests, IncrPendingFails(r)
      PROVE  pending'[k] >= C(k)'
  <2>1. Moves(r) /\ (pc'[r] \in Holding => pc[r] \in Holding)
    BY <1>7 DEF IncrPendingFails, Goto, Moves, TypeOK, Holding
  <2>2. pending'[k] \in {pending[k], pending[k] + cost[r]}
    BY <1>7 DEF IncrPendingFails, TypeOK
  <2>3. C(k)' <= C(k)
    BY <1>2, <2>1
  <2> QED
    BY <1>1, <1>c, <2>2, <2>3
<1>8. ASSUME NEW r \in Requests, DecrPending(r) \/ DecrPendingFails(r)
      PROVE  pending'[k] >= C(k)'
  <2>1. Moves(r) /\ pc[r] = "decr" /\ pc'[r] \in {"charge", "del"}
    BY <1>8 DEF DecrPending, DecrPendingFails, Goto, Moves, TypeOK
  <2>2. pending'[k] >= pending[k] - (IF key[r] = k THEN cost[r] ELSE 0)
    BY <1>1, <1>8, <1>c DEF DecrPending, DecrPendingFails, TypeOK
  <2>3. C(k)' = C(k) - (IF key[r] = k THEN cost[r] ELSE 0)
    BY <1>1, <1>3, <1>c, <2>1 DEF Share, Holding
  <2>4. pending'[k] \in Int
    BY NextTypeOK DEF TypeOK
  <2> QED
    BY <1>1, <1>c, <2>2, <2>3, <2>4
<1>9. CASE RunnerCrash
  <2>1. On(k, Holding)' \in SUBSET On(k, Holding) /\ On(k, Holding) \in SUBSET Requests
    BY <1>9 DEF RunnerCrash, On, Holding, RunnerStates, PreStates, PostStates
  <2>2. Total(On(k, Holding)', cost) <= Total(On(k, Holding), cost)
    BY <2>1, TotalMonotone
  <2>3. C(k)' <= C(k) /\ pending' = pending
    BY <1>9, <2>2 DEF RunnerCrash, C
  <2> QED
    BY <1>1, <2>3
<1>10. CASE (\E r \in Requests : Expire(r)) \/ (\E j \in Keys : Settle(j) \/ SetRich(j)) \/ UNCHANGED vars
  <2>1. pc' = pc /\ key' = key /\ cost' = cost /\ pending' = pending
    BY <1>10 DEF Expire, Settle, SetRich, vars, reqVars
  <2>2. C(k)' = C(k)
    BY <2>1 DEF C, On
  <2> QED
    BY <1>1, <2>1, <2>2
<1> QED
  BY <1>4, <1>5, <1>6, <1>7, <1>8, <1>9, <1>10 DEF Next, RequestFilter, DeterminCount, RedisFails

\* Without failures, pending is the cost of what is unanswered or was limited.
LEMMA NextUnanswered ==
  ASSUME TypeOK, Phases, PendingIsUnanswered, [Next]_vars
  PROVE  PendingIsUnanswered'
<1> DEFINE X == Holding \cup {"limited"}
           C(k) == Total(On(k, X), cost)
<1> SUFFICES ASSUME NEW k \in Keys, faults' = 0 PROVE pending'[k] = C(k)'
  BY DEF PendingIsUnanswered
<1>f. ~Fault
  BY DEF Fault, TypeOK
<1>0. faults = 0
  <2>1. faults \in Nat /\ faults' >= faults
    BY <1>f DEF Next, ParseHeaders, RequestFilter, CheckIsRich, CheckQuota, IncrPending,
       CacheRequest, RateLimit, Respond, DeterminCount, FindRequest, DecrPending, IncrCount,
       DelRequest, RedisFails, ReadFails, IncrPendingFails, CacheRequestFails,
       DecrPendingFails, IncrCountFails, DelRequestFails, RespondWithoutId, Abandon,
       Expire, RunnerCrash, Settle, SetRich, vars, TypeOK
  <2> QED
    BY <2>1
<1>1. pending[k] \in Int /\ C(k) \in Nat /\ C(k)' \in Nat /\ pending[k] = C(k)
  BY <1>0, OnType DEF TypeOK, PendingIsUnanswered
<1>2. ASSUME NEW r \in Requests, Moves(r), pc'[r] \in X <=> pc[r] \in X
      PROVE  C(k)' = C(k)
  BY <1>2, StayOn
<1>3. ASSUME NEW r \in Requests, Moves(r)
      PROVE  C(k)' = C(k) - Share(r, k, pc[r], X) + Share(r, k, pc'[r], X)
  BY <1>3, MoveOn
<1>c. \A r \in Requests : cost[r] \in Nat /\ key[r] \in Keys
  BY CostRange DEF TypeOK
<1> HIDE DEF C
<1>4. ASSUME NEW r \in Requests,
             \/ ParseHeaders(r) \/ CheckIsRich(r) \/ CheckQuota(r) \/ CacheRequest(r)
             \/ RateLimit(r) \/ Respond(r) \/ IncrCount(r) \/ DelRequest(r)
      PROVE  pending'[k] = C(k)'
  <2>1. Moves(r) /\ (pc'[r] \in X <=> pc[r] \in X) /\ pending' = pending
    BY <1>4 DEF ParseHeaders, CheckIsRich, CheckQuota, CacheRequest, RateLimit, Respond,
       IncrCount, DelRequest, Goto, Moves, TypeOK, Holding
  <2> QED
    BY <1>1, <1>2, <2>1
<1>5. ASSUME NEW r \in Requests, FindRequest(r)
      PROVE  pending'[k] = C(k)'
  <2>1. r \in rec
    BY <1>0, <1>5 DEF Phases, FindRequest, Goto
  <2>2. Moves(r) /\ (pc'[r] \in X <=> pc[r] \in X) /\ pending' = pending
    BY <1>5, <2>1 DEF FindRequest, Goto, Moves, TypeOK, Holding
  <2> QED
    BY <1>1, <1>2, <2>2
<1>6. ASSUME NEW r \in Requests, IncrPending(r)
      PROVE  pending'[k] = C(k)'
  <2>1. Moves(r) /\ pc[r] = "incr" /\ pc'[r] = "cache"
    BY <1>6 DEF IncrPending, Goto, Moves, TypeOK
  <2>2. pending'[k] = pending[k] + (IF key[r] = k THEN cost[r] ELSE 0)
    BY <1>1, <1>6, <1>c DEF IncrPending, TypeOK
  <2>3. C(k)' = C(k) + (IF key[r] = k THEN cost[r] ELSE 0)
    BY <1>1, <1>3, <1>c, <2>1 DEF Share, Holding
  <2> QED
    BY <1>1, <2>2, <2>3
<1>7. ASSUME NEW r \in Requests, DecrPending(r)
      PROVE  pending'[k] = C(k)'
  <2>1. Moves(r) /\ pc[r] = "decr" /\ pc'[r] \in {"charge", "del"}
    BY <1>7 DEF DecrPending, Goto, Moves, TypeOK
  <2>2. pending'[k] = pending[k] - (IF key[r] = k THEN cost[r] ELSE 0)
    BY <1>1, <1>7, <1>c DEF DecrPending, TypeOK
  <2>3. C(k)' = C(k) - (IF key[r] = k THEN cost[r] ELSE 0)
    BY <1>1, <1>3, <1>c, <2>1 DEF Share, Holding
  <2> QED
    BY <1>1, <2>2, <2>3
<1>8. CASE (\E r \in Requests : Expire(r)) \/ (\E j \in Keys : Settle(j) \/ SetRich(j)) \/ UNCHANGED vars
  <2>1. pc' = pc /\ key' = key /\ cost' = cost /\ pending' = pending
    BY <1>8 DEF Expire, Settle, SetRich, vars, reqVars
  <2>2. C(k)' = C(k)
    BY <2>1 DEF C, On
  <2> QED
    BY <1>1, <2>1, <2>2
<1>9. ASSUME NEW r \in Requests
      PROVE  ~RedisFails(r) /\ ~RespondWithoutId(r) /\ ~Abandon(r) /\ ~RunnerCrash
  BY <1>f DEF RedisFails, ReadFails, IncrPendingFails, CacheRequestFails, DecrPendingFails,
     IncrCountFails, DelRequestFails, RespondWithoutId, Abandon, RunnerCrash
<1>10. ~RunnerCrash
  BY <1>f DEF RunnerCrash
<1> QED
  BY <1>4, <1>5, <1>6, <1>7, <1>8, <1>9, <1>10 DEF Next, RequestFilter, DeterminCount

-----------------------------------------------------------------------------
(* The count key *)

\* A request without a response has no success.
LEMMA NoSuccessYet ==
  ASSUME TypeOK, NEW r \in Requests, resp[r] = NoResponse
  PROVE  Success(r) = 0
<1>1. KindOf[key[r]] \in {"count", "rpc", "scan"}
  BY KindAssumption DEF TypeOK, Kinds
<1> QED
  BY <1>1 DEF Success, SuccessCount, NoResponse

\* Sums of successes are naturals, before and after a step.
LEMMA AnsweredType ==
  ASSUME NEW k
  PROVE  Total(Answered(k), SuccessOf) \in Nat /\ Total(Answered(k), SuccessOf)' \in Nat
<1>1. Answered(k) \in SUBSET Requests /\ Answered(k)' \in SUBSET Requests
  BY DEF Answered, On
<1> QED
  BY <1>1, TotalType

\* What the settlement service has taken and has still to take, against the
\* successful answers: at most equal, and equal as long as nothing failed.
LEMMA NextBilled ==
  ASSUME TypeOK, Phases, NeverOverbilled, BilledExactly, [Next]_vars
  PROVE  NeverOverbilled' /\ BilledExactly'
<1> DEFINE A(k) == Total(Answered(k), SuccessOf)
           Goal(k) == /\ count'[k] + settled'[k] <= A(k)'
                      /\ faults' = 0 => count'[k] + settled'[k] = A(k)'
<1> SUFFICES ASSUME NEW k \in Keys PROVE Goal(k)
  BY DEF NeverOverbilled, BilledExactly
<1>t. TypeOK'
  BY NextTypeOK
<1>1. /\ count[k] \in Nat /\ settled[k] \in Nat
      /\ A(k) \in Nat /\ A(k)' \in Nat
      /\ count[k] + settled[k] <= A(k)
      /\ faults = 0 => count[k] + settled[k] = A(k)
  BY AnsweredType DEF TypeOK, NeverOverbilled, BilledExactly
<1>2. ASSUME NEW r \in Requests, Moves(r), resp' = resp
      PROVE  A(k)' = A(k) - Gain(r, k, pc[r]) + Gain(r, k, pc'[r])
  BY <1>2, <1>t, MoveAnswered
<1>c. \A r \in Requests : Success(r) \in Nat /\ key[r] \in Keys
  BY SuccessRange DEF TypeOK
<1>f. faults \in Nat /\ (Fault => faults' # 0)
  BY DEF Fault, TypeOK
<1> HIDE DEF A
<1>3. ASSUME NEW r \in Requests,
             \/ ParseHeaders(r) \/ RequestFilter(r) \/ IncrPendingFails(r)
             \/ CacheRequestFails(r) \/ RespondWithoutId(r) \/ Abandon(r)
      PROVE  Goal(k)
  <2>1. /\ Moves(r) /\ resp' = resp /\ count' = count /\ settled' = settled
        /\ pc[r] \in {"parse", "upstream"} \cup PreStates
        /\ faults' = faults \/ faults' # 0
    BY <1>3, <1>f DEF ParseHeaders, RequestFilter, CheckIsRich, CheckQuota, IncrPending,
       CacheRequest, RateLimit, IncrPendingFails, CacheRequestFails, RespondWithoutId,
       Abandon, Goto, Moves, TypeOK, PreStates
  <2>2. resp[r] = NoResponse
    BY <2>1 DEF Phases
  <2>3. A(k)' = A(k)
    BY <1>1, <1>2, <2>1, <2>2 DEF Gain
  <2> QED
    BY <1>1, <2>1, <2>3
<1>4. ASSUME NEW r \in Requests, Respond(r)
      PROVE  Goal(k)
  <2>1. resp[r] = NoResponse /\ pc[r] = "upstream" /\ pc'[r] = "find"
    BY <1>4 DEF Phases, Respond, Goto, TypeOK
  <2>2. /\ count' = count /\ settled' = settled /\ faults' = faults /\ Moves(r)
        /\ \A q \in Requests \ {r} : resp'[q] = resp[q]
    BY <1>4 DEF Respond, Goto, Moves, TypeOK
  <2>3. Answered(k)' = Answered(k) /\ r \notin Answered(k)
    BY <2>1, <2>2 DEF Answered, On, Moves
  <2>4. \A q \in Answered(k) : SuccessOf'[q] = SuccessOf[q]
    BY <2>2, <2>3 DEF SuccessOf, Success, Moves, Answered, On
  <2>5. Total(Answered(k), SuccessOf') = Total(Answered(k), SuccessOf)
    BY <2>4, TotalSameWeights
  <2>6. A(k)' = A(k)
    BY <2>3, <2>5 DEF A
  <2> QED
    BY <1>1, <2>2, <2>6
<1>5. ASSUME NEW r \in Requests, FindRequest(r) \/ (ReadFails(r) /\ pc[r] = "find")
      PROVE  Goal(k)
  <2>1. /\ Moves(r) /\ resp' = resp /\ count' = count /\ settled' = settled
        /\ pc[r] = "find" /\ pc'[r] \in {"decr", "del"}
        /\ faults' = 0 => faults = 0 /\ pc'[r] = "decr"
    BY <1>5, <1>f DEF FindRequest, ReadFails, Goto, Moves, TypeOK, Phases
  <2>2. A(k)' >= A(k) /\ (pc'[r] = "decr" => A(k)' = A(k))
    BY <1>1, <1>2, <1>c, <2>1 DEF Gain, Uncharged
  <2> QED
    BY <1>1, <2>1, <2>2
<1>6. ASSUME NEW r \in Requests, ReadFails(r), pc[r] # "find"
      PROVE  Goal(k)
  <2>1. /\ Moves(r) /\ resp' = resp /\ count' = count /\ settled' = settled /\ faults' # 0
        /\ pc[r] \in PreStates
    BY <1>6, <1>f DEF ReadFails, Goto, Moves, TypeOK, PreStates
  <2>2. resp[r] = NoResponse
    BY <2>1 DEF Phases
  <2>3. A(k)' = A(k)
    BY <1>1, <1>2, <2>1, <2>2 DEF Gain
  <2> QED
    BY <1>1, <2>1, <2>3
<1>7. ASSUME NEW r \in Requests, DecrPending(r) \/ DecrPendingFails(r)
      PROVE  Goal(k)
  <2>1. /\ Moves(r) /\ resp' = resp /\ count' = count /\ settled' = settled
        /\ pc[r] = "decr" /\ pc'[r] \in {"charge", "del"}
        /\ faults' = 0 => faults = 0 /\ (pc'[r] = "del" => Success(r) <= 0)
    BY <1>7, <1>f DEF DecrPending, DecrPendingFails, Goto, Moves, TypeOK
  <2>2. A(k)' >= A(k) /\ (faults' = 0 => A(k)' = A(k))
    BY <1>1, <1>2, <1>c, <2>1 DEF Gain, Uncharged
  <2> QED
    BY <1>1, <2>1, <2>2
<1>8. ASSUME NEW r \in Requests, IncrCount(r) \/ IncrCountFails(r)
      PROVE  Goal(k)
  <2>1. /\ Moves(r) /\ resp' = resp /\ settled' = settled
        /\ pc[r] = "charge" /\ pc'[r] = "del"
    BY <1>8 DEF IncrCount, IncrCountFails, Goto, Moves, TypeOK
  <2>2. A(k)' = A(k) + (IF key[r] = k THEN Success(r) ELSE 0)
    <3>1. resp[r] = NoResponse => Success(r) = 0
      BY NoSuccessYet
    <3> QED
      BY <1>1, <1>2, <1>c, <2>1, <3>1 DEF Gain, Uncharged
  <2>3. /\ count'[k] \in {count[k], count[k] + (IF key[r] = k THEN Success(r) ELSE 0)}
        /\ faults' = 0 => faults = 0
             /\ count'[k] = count[k] + (IF key[r] = k THEN Success(r) ELSE 0)
    BY <1>1, <1>8, <1>c, <1>f DEF IncrCount, IncrCountFails, TypeOK
  <2> QED
    BY <1>1, <1>c, <2>1, <2>2, <2>3
<1>9. ASSUME NEW r \in Requests, DelRequest(r) \/ DelRequestFails(r)
      PROVE  Goal(k)
  <2>1. /\ Moves(r) /\ resp' = resp /\ count' = count /\ settled' = settled
        /\ pc[r] = "del" /\ pc'[r] = "done"
        /\ faults' = 0 => faults = 0
    BY <1>9, <1>f DEF DelRequest, DelRequestFails, Goto, Moves, TypeOK
  <2>2. A(k)' = A(k)
    BY <1>1, <1>2, <1>c, <2>1 DEF Gain, Uncharged
  <2> QED
    BY <1>1, <2>1, <2>2
<1>10. CASE RunnerCrash
  <2>1. Answered(k) \in SUBSET Answered(k)' /\ Answered(k)' \in SUBSET Requests
    BY <1>10 DEF RunnerCrash, Answered, On, States, FinalStates
  <2>2. SuccessOf' = SuccessOf
    BY <1>10 DEF RunnerCrash, SuccessOf, Success
  <2>3. Total(Answered(k), SuccessOf) <= Total(Answered(k)', SuccessOf)
    BY <2>1, TotalMonotone
  <2>4. A(k) <= A(k)'
    BY <2>2, <2>3 DEF A
  <2>5. count' = count /\ settled' = settled /\ faults' # 0
    BY <1>10, <1>f DEF RunnerCrash
  <2> QED
    BY <1>1, <2>4, <2>5
<1>11. CASE (\E r \in Requests : Expire(r)) \/ (\E j \in Keys : Settle(j) \/ SetRich(j)) \/ UNCHANGED vars
  <2>1. pc' = pc /\ key' = key /\ cost' = cost /\ resp' = resp
    BY <1>11 DEF Expire, Settle, SetRich, vars, reqVars
  <2>2. Answered(k)' = Answered(k) /\ SuccessOf' = SuccessOf
    BY <2>1 DEF Answered, On, SuccessOf, Success
  <2>3. A(k)' = A(k)
    BY <2>2 DEF A
  <2>4. /\ count'[k] + settled'[k] = count[k] + settled[k]
        /\ faults' = 0 => faults = 0
    BY <1>11, <1>1, <1>f DEF Expire, Settle, SetRich, vars, TypeOK
  <2> QED
    BY <1>1, <2>3, <2>4
<1> HIDE DEF Goal
<1> QED
  BY <1>3, <1>4, <1>5, <1>6, <1>7, <1>8, <1>9, <1>10, <1>11
  DEF Next, DeterminCount, RedisFails

-----------------------------------------------------------------------------
(* The quota *)

\* Multiplying by a natural keeps the order.
LEMMA ScaleMonotone ==
  ASSUME NEW m \in Nat, NEW n \in Nat, NEW c \in Nat, m <= n
  PROVE  m * c <= n * c
OBVIOUS

\* The other open requests cannot hold more than MaxInFlight - 1 full costs.
LEMMA OthersBound ==
  ASSUME TypeOK, Cardinality(Open) <= MaxInFlight,
         NEW r \in Requests, pc[r] = "quota", NEW k
  PROVE  Total(On(k, Admitted), cost) <= (MaxInFlight - 1) * MaxCost
<1> DEFINE S == On(k, Admitted)
           O == Open \ {r}
<1>1. IsFiniteSet(Open) /\ Cardinality(Open) \in Nat
  <2>1. Open \in SUBSET Requests
    BY DEF Open
  <2> QED
    BY <2>1, FS_Subset, FS_CardinalityType, RequestsAssumption
<1>2. r \in Open
  BY DEF Open, OpenStates, RunnerStates, PreStates
<1>3. IsFiniteSet(O) /\ Cardinality(O) = Cardinality(Open) - 1
  BY <1>1, <1>2, FS_RemoveElement
<1>4. S \in SUBSET O /\ S \in SUBSET Requests
  BY DEF On, Open, Admitted, Holding, OpenStates, RunnerStates, PreStates, PostStates
<1>5. IsFiniteSet(S) /\ Cardinality(S) <= Cardinality(O)
  BY <1>3, <1>4, FS_Subset
<1>6. Cardinality(S) \in Nat /\ Cardinality(O) \in Nat
  BY <1>3, <1>5, FS_CardinalityType
<1>7. Total(S, cost) <= Cardinality(S) * MaxCost
  BY <1>4, TotalBound
<1>8. Total(S, cost) \in Nat
  BY <1>4, TotalType
<1> HIDE DEF S, O
<1>9. MaxInFlight - 1 \in Nat /\ Cardinality(S) <= MaxInFlight - 1 /\ MaxCost \in Nat
  BY <1>1, <1>3, <1>5, <1>6, InFlightAssumption, CostAssumption
<1>10. Cardinality(S) * MaxCost <= (MaxInFlight - 1) * MaxCost
  BY <1>6, <1>9, ScaleMonotone
<1>11. Cardinality(S) * MaxCost \in Nat /\ (MaxInFlight - 1) * MaxCost \in Nat
  BY <1>6, <1>9
<1> QED
  BY <1>7, <1>8, <1>10, <1>11 DEF S

\* The quota is overrun by no more than the other open requests can add.
LEMMA NextOvershoot ==
  ASSUME TypeOK, Cardinality(Open) <= MaxInFlight, OvershootBound, [Next]_vars
  PROVE  OvershootBound'
<1> DEFINE C(k) == Total(On(k, Admitted), cost)
           Slack == (MaxInFlight - 1) * MaxCost
<1> SUFFICES ASSUME NEW k \in Keys PROVE count'[k] + C(k)' <= Quota[k] + Slack
  BY DEF OvershootBound
<1>1. /\ count[k] \in Nat /\ C(k) \in Nat /\ C(k)' \in Nat
      /\ count[k] + C(k) <= Quota[k] + Slack
  BY OnType DEF TypeOK, OvershootBound
<1>q. Quota[k] \in Nat /\ Slack \in Int
  BY QuotaAssumption, InFlightAssumption, CostAssumption
<1>2. ASSUME NEW r \in Requests, Moves(r), pc'[r] \in Admitted => pc[r] \in Admitted
      PROVE  C(k)' <= C(k)
  BY <1>2, StayOn
<1>3. ASSUME NEW r \in Requests, Moves(r)
      PROVE  C(k)' = C(k) - Share(r, k, pc[r], Admitted) + Share(r, k, pc'[r], Admitted)
  BY <1>3, MoveOn
<1>c. \A r \in Requests : /\ cost[r] \in Nat /\ key[r] \in Keys
                          /\ Success(r) \in Nat /\ Success(r) <= cost[r]
  BY CostRange, SuccessRange DEF TypeOK
<1>s. ASSUME NEW r \in Requests, pc[r] = "quota"
      PROVE  C(k) <= Slack
  BY <1>s, OthersBound
<1> HIDE DEF C, Slack
<1>4. ASSUME NEW r \in Requests,
             \/ ParseHeaders(r) \/ CheckIsRich(r) \/ IncrPending(r) \/ CacheRequest(r)
             \/ RateLimit(r) \/ Respond(r) \/ FindRequest(r) \/ DecrPending(r) \/ DelRequest(r)
      PROVE  count'[k] + C(k)' <= Quota[k] + Slack
  <2>1. Moves(r) /\ (pc'[r] \in Admitted => pc[r] \in Admitted) /\ count' = count
    BY <1>4 DEF ParseHeaders, CheckIsRich, IncrPending, CacheRequest, RateLimit, Respond,
       FindRequest, DecrPending, DelRequest, Goto, Moves, TypeOK, Admitted, Holding
  <2>2. C(k)' <= C(k)
    BY <1>2, <2>1
  <2> QED
    BY <1>1, <1>q, <2>1, <2>2
<1>5. ASSUME NEW r \in Requests,
             \/ ReadFails(r) \/ IncrPendingFails(r) \/ CacheRequestFails(r)
             \/ DecrPendingFails(r) \/ DelRequestFails(r) \/ RespondWithoutId(r) \/ Abandon(r)
      PROVE  count'[k] + C(k)' <= Quota[k] + Slack
  <2>1. Moves(r) /\ (pc'[r] \in Admitted => pc[r] \in Admitted) /\ count' = count
    BY <1>5 DEF ReadFails, IncrPendingFails, CacheRequestFails, DecrPendingFails,
       DelRequestFails, RespondWithoutId, Abandon, Goto, Moves, TypeOK, Admitted, Holding
  <2>2. C(k)' <= C(k)
    BY <1>2, <2>1
  <2> QED
    BY <1>1, <1>q, <2>1, <2>2
<1>6. ASSUME NEW r \in Requests, CheckQuota(r)
      PROVE  count'[k] + C(k)' <= Quota[k] + Slack
  <2>1. /\ Moves(r) /\ count' = count /\ pc[r] = "quota"
        /\ pc'[r] = IF count[key[r]] + cost[r] > Quota[key[r]] THEN "refused" ELSE "incr"
    BY <1>6 DEF CheckQuota, Goto, Moves, TypeOK
  <2>2. CASE key[r] = k /\ count[k] + cost[r] <= Quota[k]
    <3>1. C(k)' = C(k) + cost[r]
      BY <1>1, <1>3, <1>c, <1>q, <2>1, <2>2 DEF Share, Admitted, Holding
    <3>2. C(k) <= Slack
      BY <1>s, <2>1
    <3> QED
      BY <1>1, <1>c, <1>q, <2>1, <2>2, <3>1, <3>2
  <2>3. CASE ~(key[r] = k /\ count[k] + cost[r] <= Quota[k])
    <3>1. C(k)' = C(k)
      BY <1>1, <1>3, <1>c, <1>q, <2>1, <2>3 DEF Share, Admitted, Holding
    <3> QED
      BY <1>1, <2>1, <3>1
  <2> QED
    BY <2>2, <2>3
<1>7. ASSUME NEW r \in Requests, IncrCount(r) \/ IncrCountFails(r)
      PROVE  count'[k] + C(k)' <= Quota[k] + Slack
  <2>1. Moves(r) /\ pc[r] = "charge" /\ pc'[r] = "del"
    BY <1>7 DEF IncrCount, IncrCountFails, Goto, Moves, TypeOK
  <2>2. count'[k] \in {count[k], count[k] + (IF key[r] = k THEN Success(r) ELSE 0)}
    BY <1>1, <1>7, <1>c DEF IncrCount, IncrCountFails, TypeOK
  <2>3. C(k)' = C(k) - (IF key[r] = k THEN cost[r] ELSE 0)
    BY <1>1, <1>3, <1>c, <2>1 DEF Share, Admitted, Holding
  <2> QED
    BY <1>1, <1>c, <1>q, <2>2, <2>3
<1>8. CASE RunnerCrash
  <2>1. On(k, Admitted)' \in SUBSET On(k, Admitted) /\ On(k, Admitted) \in SUBSET Requests
    BY <1>8 DEF RunnerCrash, On, Admitted, Holding, RunnerStates, PreStates, PostStates
  <2>2. Total(On(k, Admitted)', cost) <= Total(On(k, Admitted), cost)
    BY <2>1, TotalMonotone
  <2>3. C(k)' <= C(k) /\ count' = count
    BY <1>8, <2>2 DEF RunnerCrash, C
  <2> QED
    BY <1>1, <1>q, <2>3
<1>9. CASE (\E r \in Requests : Expire(r)) \/ (\E j \in Keys : Settle(j) \/ SetRich(j)) \/ UNCHANGED vars
  <2>1. pc' = pc /\ key' = key /\ cost' = cost
    BY <1>9 DEF Expire, Settle, SetRich, vars, reqVars
  <2>2. C(k)' = C(k)
    BY <2>1 DEF C, On
  <2>3. count'[k] \in {0, count[k]}
    BY <1>9 DEF Expire, Settle, SetRich, vars, TypeOK
  <2> QED
    BY <1>1, <1>q, <2>2, <2>3
<1> QED
  BY <1>4, <1>5, <1>6, <1>7, <1>8, <1>9 DEF Next, RequestFilter, DeterminCount, RedisFails

-----------------------------------------------------------------------------
(* The theorems *)

\* Nothing is open, pending or counted at the start.
LEMMA InitIInv == Init => IInv
<1> SUFFICES ASSUME Init PROVE IInv
  OBVIOUS
<1>1. TypeOK
  BY InitTypeOK
<1>2. Open = {}
  BY DEF Init, Open, OpenStates, RunnerStates, PreStates, PostStates
<1>3. Cardinality(Open) = 0
  BY <1>2, FS_EmptySet
<1>4. ASSUME NEW w PROVE Total({}, w) = 0
  <2>1. Units({}, w) = {}
    BY DEF Units
  <2> QED
    BY <2>1, FS_EmptySet DEF Total, Units
<1>5. \A k : On(k, Holding) = {} /\ On(k, Holding \cup {"limited"}) = {} /\ On(k, Admitted) = {}
  BY DEF Init, On, Holding, Admitted
<1>6. \A k : Answered(k) = {}
  BY DEF Init, Answered, On
<1>7. \A k \in Keys : Quota[k] \in Nat
  BY QuotaAssumption
<1>8. MaxInFlight - 1 \in Nat /\ MaxCost \in Nat
  BY InFlightAssumption, CostAssumption
<1>9. (MaxInFlight - 1) * MaxCost \in Nat
  BY <1>8
<1>10. \A k \in Keys : pending[k] = 0 /\ count[k] = 0 /\ settled[k] = 0
  BY DEF Init
<1>11. PendingCoversInFlight /\ PendingIsUnanswered
  BY <1>4, <1>5, <1>10 DEF PendingCoversInFlight, PendingIsUnanswered
<1>12. NeverOverbilled /\ BilledExactly
  BY <1>4, <1>6, <1>10 DEF NeverOverbilled, BilledExactly
<1>13. OvershootBound
  <2> DEFINE Slack == (MaxInFlight - 1) * MaxCost
  <2> SUFFICES ASSUME NEW k \in Keys
               PROVE  count[k] + Total(On(k, Admitted), cost) <= Quota[k] + Slack
    BY DEF OvershootBound
  <2>1. count[k] = 0 /\ Total(On(k, Admitted), cost) = 0 /\ Quota[k] \in Nat /\ Slack \in Nat
    BY <1>4, <1>5, <1>7, <1>9, <1>10
  <2> HIDE DEF Slack
  <2> QED
    BY <2>1
<1>14. Phases
  BY DEF Init, Phases, PreStates
<1> QED
  BY <1>1, <1>3, <1>11, <1>12, <1>13, <1>14, InFlightAssumption DEF IInv

\* Every step keeps the inductive invariant.
LEMMA NextIInv == IInv /\ [Next]_vars => IInv'
BY NextTypeOK, NextPhases, NextOpen, NextCovers, NextUnanswered, NextBilled, NextOvershoot
DEF IInv

\* The inductive invariant holds in every reachable state.
THEOREM Invariance == Spec => []IInv
BY InitIInv, NextIInv, PTL DEF Spec

\* The pending key always covers the requests in flight, so it never goes below
\* zero, whatever calls to Redis fail and whenever the runner dies.
THEOREM PendingSafe == Spec => []PendingCoversInFlight
<1>1. IInv => PendingCoversInFlight
  BY DEF IInv
<1> QED
  BY <1>1, Invariance, PTL

\* Until something fails, pending is what the comment of the quota test says.
THEOREM PendingExact == Spec => []PendingIsUnanswered
<1>1. IInv => PendingIsUnanswered
  BY DEF IInv
<1> QED
  BY <1>1, Invariance, PTL

\* No user is ever billed for more than the calls answered successfully.
THEOREM BillingSafe == Spec => []NeverOverbilled
<1>1. IInv => NeverOverbilled
  BY DEF IInv
<1> QED
  BY <1>1, Invariance, PTL

\* Until something fails, every successful call is billed, exactly once.
THEOREM BillingExact == Spec => []BilledExactly
<1>1. IInv => BilledExactly
  BY DEF IInv
<1> QED
  BY <1>1, Invariance, PTL

\* However the requests interleave, the quota is overrun by at most the cost of
\* the other requests open at the same time.
THEOREM QuotaOvershoot == Spec => []OvershootBound
<1>1. IInv => OvershootBound
  BY DEF IInv
<1> QED
  BY <1>1, Invariance, PTL
=============================================================================
