------------------------------ MODULE ToolProofs ------------------------------
(***************************************************************************)
(* Proofs about ToolCalls, for any tools, callers, users, rediscoveries    *)
(* and thresholds.                                                         *)
(***************************************************************************)
EXTENDS ToolCalls, FiniteSetTheorems, TLAPS

Breakers ==
    [state : BreakerStates, failures : 0 .. FailureThreshold,
     successes : 0 .. SuccessThreshold - 1, elapsed : BOOLEAN]

BreakerOK(b) ==
    /\ b \in Breakers
    /\ b.state = "closed" => b.failures < FailureThreshold
    /\ b.state = "open" => b.failures > 0
    /\ b.state # "half_open" => b.successes = 0

(* The operations of a breaker keep it in a state its counters fit. *)
LEMMA ProbedOK ==
    ASSUME NEW b, BreakerOK(b)
    PROVE  BreakerOK(Probed(b))
BY ThresholdAssumption DEF BreakerOK, Breakers, Probed, BreakerStates

LEMMA ElapsedOK ==
    ASSUME NEW b, BreakerOK(b)
    PROVE  BreakerOK([b EXCEPT !.elapsed = TRUE])
BY DEF BreakerOK, Breakers, BreakerStates

LEMMA InitialOK ==
    BreakerOK([state |-> "closed", failures |-> 0, successes |-> 0, elapsed |-> FALSE])
BY ThresholdAssumption DEF BreakerOK, Breakers, BreakerStates

LEMMA AfterSuccessOK ==
    ASSUME NEW b, BreakerOK(b)
    PROVE  BreakerOK(AfterSuccess(b))
<1>0. 0 \in 0 .. SuccessThreshold - 1 /\ BreakerStates = {"closed", "open", "half_open"}
    BY ThresholdAssumption DEF BreakerStates
<1> DEFINE fresh == [b EXCEPT !.failures = 0]
<1>1. /\ fresh \in Breakers
      /\ fresh.state = b.state /\ fresh.successes = b.successes /\ fresh.failures = 0
    BY ThresholdAssumption DEF BreakerOK, Breakers, BreakerStates
<1>2. CASE b.state # "half_open"
    <2>1. AfterSuccess(b) = [fresh EXCEPT !.state = "closed"]
        BY <1>2 DEF AfterSuccess
    <2> HIDE DEF fresh
    <2>2. /\ AfterSuccess(b) \in Breakers /\ AfterSuccess(b).state = "closed"
          /\ AfterSuccess(b).failures = 0 /\ AfterSuccess(b).successes = b.successes
        BY <1>0, <1>1, <2>1 DEF Breakers
    <2> QED BY <1>2, <2>2, ThresholdAssumption DEF BreakerOK
<1>3. CASE b.state = "half_open" /\ b.successes + 1 >= SuccessThreshold
    <2>1. AfterSuccess(b) = [fresh EXCEPT !.state = "closed", !.successes = 0]
        BY <1>3 DEF AfterSuccess
    <2> HIDE DEF fresh
    <2>2. /\ AfterSuccess(b) \in Breakers /\ AfterSuccess(b).state = "closed"
          /\ AfterSuccess(b).failures = 0 /\ AfterSuccess(b).successes = 0
        BY <1>0, <1>1, <2>1 DEF Breakers
    <2> QED BY <2>2, ThresholdAssumption DEF BreakerOK
<1>4. CASE b.state = "half_open" /\ ~(b.successes + 1 >= SuccessThreshold)
    <2>1. AfterSuccess(b) = [fresh EXCEPT !.successes = fresh.successes + 1]
        BY <1>4 DEF AfterSuccess
    <2>2. fresh.successes + 1 \in 0 .. SuccessThreshold - 1
        BY <1>1, <1>4, ThresholdAssumption DEF Breakers
    <2> HIDE DEF fresh
    <2>3. AfterSuccess(b) \in Breakers /\ AfterSuccess(b).state = "half_open"
        BY <1>1, <1>4, <2>1, <2>2 DEF Breakers
    <2> QED BY <2>3 DEF BreakerOK
<1> QED BY <1>2, <1>3, <1>4

LEMMA AfterFailureOK ==
    ASSUME NEW b, BreakerOK(b)
    PROVE  BreakerOK(AfterFailure(b))
<1> DEFINE count == IF b.failures < FailureThreshold THEN b.failures + 1 ELSE b.failures
<1> DEFINE counted == [b EXCEPT !.elapsed = FALSE, !.failures = count]
<1>1. count \in 0 .. FailureThreshold /\ count > 0
    BY ThresholdAssumption DEF BreakerOK, Breakers
<1> HIDE DEF count
<1>2. /\ counted \in Breakers
      /\ counted.failures = count
      /\ counted.state = b.state /\ counted.successes = b.successes
    BY <1>1 DEF BreakerOK, Breakers, BreakerStates
<1>3. AfterFailure(b) =
        IF b.state = "half_open" THEN [counted EXCEPT !.state = "open", !.successes = 0]
        ELSE IF counted.failures >= FailureThreshold THEN [counted EXCEPT !.state = "open"]
        ELSE counted
    BY DEF AfterFailure, count
<1> HIDE DEF counted
<1>4. 0 \in 0 .. SuccessThreshold - 1
    BY ThresholdAssumption
<1>5. CASE b.state = "half_open"
    <2>1. AfterFailure(b) = [counted EXCEPT !.state = "open", !.successes = 0]
        BY <1>3, <1>5
    <2>2. /\ AfterFailure(b) \in Breakers /\ AfterFailure(b).state = "open"
          /\ AfterFailure(b).failures = count /\ AfterFailure(b).successes = 0
        BY <1>2, <1>4, <2>1 DEF Breakers, BreakerStates
    <2> QED BY <1>1, <2>2 DEF BreakerOK
<1>6. CASE b.state # "half_open" /\ counted.failures >= FailureThreshold
    <2>1. AfterFailure(b) = [counted EXCEPT !.state = "open"]
        BY <1>3, <1>6
    <2>2. /\ AfterFailure(b) \in Breakers /\ AfterFailure(b).state = "open"
          /\ AfterFailure(b).failures = count /\ AfterFailure(b).successes = b.successes
        BY <1>2, <2>1 DEF Breakers, BreakerStates
    <2> QED BY <1>1, <1>6, <2>2 DEF BreakerOK
<1>7. CASE b.state # "half_open" /\ ~(counted.failures >= FailureThreshold)
    BY <1>1, <1>2, <1>3, <1>7, ThresholdAssumption DEF BreakerOK
<1> QED BY <1>5, <1>6, <1>7

-----------------------------------------------------------------------------
(* Every step leaves the breakers alone or applies one of the operations   *)
(* to one of them.                                                         *)
BreakersOK == breaker = [t \in Tools |-> breaker[t]] /\ \A t \in Tools : BreakerOK(breaker[t])

TypedRest ==
    /\ registry \subseteq Tools
    /\ drops \in [Rediscoveries -> SUBSET Tools]
    /\ adds \in [Rediscoveries -> SUBSET Tools]
    /\ executing \in [Callers -> Tools \cup {None}]
    /\ calls \in [Users -> Nat]

(* What a rediscovery has still to unregister, it has to register again. *)
DropsAreAdded == \A r \in Rediscoveries : drops[r] \subseteq adds[r]

IInv == TypedRest /\ BreakersOK /\ DropsAreAdded /\ NoToolLost

LEMMA InitInductive == Init => IInv
<1> SUFFICES ASSUME Init PROVE IInv
    OBVIOUS
<1>1. BreakersOK
    BY InitialOK DEF Init, BreakersOK
<1>2. TypedRest /\ DropsAreAdded /\ NoToolLost
    BY DEF Init, TypedRest, DropsAreAdded, NoToolLost
<1> QED BY <1>1, <1>2 DEF IInv

(* One breaker is replaced by one that is in order. *)
LEMMA ReplaceBreaker ==
    ASSUME BreakersOK, NEW t \in Tools, NEW b, BreakerOK(b),
           breaker' = [breaker EXCEPT ![t] = b]
    PROVE  BreakersOK'
BY DEF BreakersOK

LEMMA ProceedInductive ==
    ASSUME IInv, NEW r \in Rediscoveries, NEW listed \in SUBSET Tools, NEW declared \in SUBSET Tools,
           listed \subseteq declared, adds[r] \subseteq declared,
           Proceed(r, listed, declared)
    PROVE  IInv'
<1>1. BreakersOK'
    BY DEF IInv, Proceed, BreakersOK
<1>2. CASE Unregister(r, listed, declared)
    <2>1. PICK t \in listed \cap registry : \E passed \in SUBSET (listed \ registry) :
              /\ registry' = registry \ {t}
              /\ drops' = [drops EXCEPT ![r] = listed \ ({t} \cup passed)]
              /\ adds' = [adds EXCEPT ![r] = declared]
        BY <1>2 DEF Unregister
    <2>2. TypedRest'
        BY <2>1 DEF IInv, TypedRest, Proceed
    <2>3. DropsAreAdded'
        BY <2>1 DEF IInv, TypedRest, DropsAreAdded
    <2>4. NoToolLost'
        BY <2>1 DEF IInv, TypedRest, NoToolLost
    <2> QED BY <1>1, <2>2, <2>3, <2>4 DEF IInv
<1>3. CASE Register(r, listed, declared)
    <2>1. PICK t \in declared :
              /\ registry' = registry \cup {t}
              /\ drops' = [drops EXCEPT ![r] = {}]
              /\ adds' = [adds EXCEPT ![r] = declared \ {t}]
        BY <1>3 DEF Register
    <2>2. TypedRest'
        BY <2>1 DEF IInv, TypedRest, Proceed
    <2>3. DropsAreAdded'
        BY <2>1 DEF IInv, TypedRest, DropsAreAdded
    <2>4. NoToolLost'
        BY <2>1 DEF IInv, TypedRest, NoToolLost
    <2> QED BY <1>1, <2>2, <2>3, <2>4 DEF IInv
<1> QED BY <1>2, <1>3 DEF Proceed

LEMMA NextInductive == IInv /\ [Next]_vars => IInv'
<1> SUFFICES ASSUME IInv, [Next]_vars PROVE IInv'
    OBVIOUS
<1> USE DEF IInv
<1>1. ASSUME NEW c \in Callers, NEW t \in Tools, BeginCall(c, t) PROVE IInv'
    <2>1. BreakersOK'
        BY <1>1, ProbedOK, ReplaceBreaker DEF BeginCall, BreakersOK
    <2>2. TypedRest'
        BY <1>1 DEF BeginCall, TypedRest
    <2> QED BY <1>1, <2>1, <2>2 DEF BeginCall, DropsAreAdded, NoToolLost
<1>2. ASSUME NEW c \in Callers, NEW t \in Tools, TurnAway(c, t) PROVE IInv'
    <2>1. BreakersOK'
        BY <1>2, ProbedOK, AfterFailureOK, ReplaceBreaker DEF TurnAway, BreakersOK
    <2> QED BY <1>2, <2>1 DEF TurnAway, TypedRest, DropsAreAdded, NoToolLost
<1>3. ASSUME NEW c \in Callers, Succeed(c) PROVE IInv'
    <2>1. executing[c] \in Tools
        BY <1>3 DEF Succeed, TypedRest
    <2> DEFINE answered == AfterSuccess(breaker[executing[c]])
    <2>2. BreakersOK'
        <3>1. BreakerOK(answered)
            BY <2>1, AfterSuccessOK DEF BreakersOK
        <3>2. breaker' = [breaker EXCEPT ![executing[c]] = answered]
            BY <1>3 DEF Succeed
        <3> HIDE DEF answered
        <3> QED BY <2>1, <3>1, <3>2, ReplaceBreaker
    <2> DEFINE u == User[c]
    <2>3. calls' \in [Users -> Nat]
        <3>1. u \in Users /\ calls \in [Users -> Nat]
            BY UserAssumption DEF TypedRest
        <3>2. calls' = [calls EXCEPT ![u] = calls[u] + 1]
            BY <1>3 DEF Succeed, RecordCall
        <3> HIDE DEF u
        <3> QED BY <3>1, <3>2
    <2>4. executing' \in [Callers -> Tools \cup {None}]
        BY <1>3 DEF Succeed, TypedRest
    <2>5. TypedRest'
        BY <1>3, <2>3, <2>4 DEF Succeed, TypedRest
    <2> QED BY <1>3, <2>2, <2>5 DEF Succeed, DropsAreAdded, NoToolLost
<1>4. ASSUME NEW c \in Callers, Fail(c) PROVE IInv'
    <2>1. executing[c] \in Tools
        BY <1>4 DEF Fail, TypedRest
    <2>2. BreakersOK'
        BY <1>4, <2>1, AfterFailureOK, ReplaceBreaker DEF Fail, BreakersOK
    <2>3. TypedRest'
        BY <1>4 DEF Fail, TypedRest
    <2> QED BY <1>4, <2>2, <2>3 DEF Fail, DropsAreAdded, NoToolLost
<1>5. ASSUME NEW t \in Tools, RecoveryElapses(t) PROVE IInv'
    <2>1. breaker' = [breaker EXCEPT ![t] = [breaker[t] EXCEPT !.elapsed = TRUE]]
        BY <1>5 DEF RecoveryElapses, BreakersOK
    <2>2. BreakersOK'
        BY <2>1, ElapsedOK, ReplaceBreaker DEF BreakersOK
    <2> QED BY <1>5, <2>2 DEF RecoveryElapses, TypedRest, DropsAreAdded, NoToolLost
<1>6. ASSUME NEW t \in Tools, Reset(t) PROVE IInv'
    <2>1. BreakersOK'
        BY <1>6, InitialOK, ReplaceBreaker DEF Reset
    <2> QED BY <1>6, <2>1 DEF Reset, TypedRest, DropsAreAdded, NoToolLost
<1>7. ASSUME NEW u \in Users, Expire(u) PROVE IInv'
    <2>1. TypedRest'
        BY <1>7 DEF Expire, TypedRest
    <2> QED BY <1>7, <2>1 DEF Expire, BreakersOK, DropsAreAdded, NoToolLost
<1>8. ASSUME NEW r \in Rediscoveries, Rediscover(r) PROVE IInv'
    BY <1>8, ProceedInductive DEF Rediscover, Declared, TypedRest
<1>9. ASSUME NEW r \in Rediscoveries, Continue(r) PROVE IInv'
    BY <1>9, ProceedInductive DEF Continue, TypedRest, DropsAreAdded
<1>10. CASE UNCHANGED vars
    BY <1>10 DEF vars, TypedRest, BreakersOK, DropsAreAdded, NoToolLost
<1> QED BY <1>1, <1>2, <1>3, <1>4, <1>5, <1>6, <1>7, <1>8, <1>9, <1>10 DEF Next

(* The inductive invariant: the counters of every breaker fit its state,   *)
(* and what a rediscovery is about to unregister it will register again.   *)
THEOREM InductiveInvariant == Spec => []IInv
<1> QED BY InitInductive, NextInductive, PTL DEF Spec

(* The state of registry, breakers, calls and rate limits is always of its *)
(* type; no breaker counts successes up to its threshold.                  *)
THEOREM TypeCorrect == Spec => []TypeOK
<1>1. IInv => TypeOK
    BY DEF IInv, TypedRest, BreakersOK, BreakerOK, Breakers, TypeOK
<1> QED BY <1>1, InductiveInvariant, PTL

(* A breaker's counters fit its state, for any thresholds, and however     *)
(* late answers arrive (circuit_breaker.py:92-124).                        *)
THEOREM CountersFit == Spec => []CountersMatchState
<1>1. IInv => CountersMatchState
    BY DEF IInv, BreakersOK, BreakerOK, CountersMatchState
<1> QED BY <1>1, InductiveInvariant, PTL

(* No number of overlapping rediscoveries loses a tool                     *)
(* (tool_discovery.py:56-74).                                              *)
THEOREM ToolsAreKept == Spec => []NoToolLost
<1>1. IInv => NoToolLost
    BY DEF IInv
<1> QED BY <1>1, InductiveInvariant, PTL

-----------------------------------------------------------------------------
(* The rate limit.  A user's calls in flight are among the user's callers, *)
(* of which there are finitely many.                                       *)
LEMMA CallersCounted ==
    ASSUME NEW u \in Users
    PROVE  /\ IsFiniteSet(CallersOf(u)) /\ IsFiniteSet(InFlight(u))
           /\ Cardinality(CallersOf(u)) \in Nat /\ Cardinality(InFlight(u)) \in Nat
           /\ Cardinality(InFlight(u)) <= Cardinality(CallersOf(u))
<1>1. CallersOf(u) \subseteq Callers /\ InFlight(u) \subseteq CallersOf(u)
    BY DEF CallersOf, InFlight
<1>2. IsFiniteSet(CallersOf(u))
    BY <1>1, CallersFinite, FS_Subset
<1> QED BY <1>1, <1>2, FS_Subset, FS_CardinalityType

(* A step that neither starts a call of the user's nor records one.        *)
LEMMA Unaffected ==
    ASSUME NEW u \in Users, calls'[u] <= calls[u], calls[u] \in Nat, calls'[u] \in Nat,
           InFlight(u)' = InFlight(u), RateLimitOvershoot
    PROVE  CallersOf(u) # {} =>
               calls'[u] + Cardinality(InFlight(u)') < MaxCalls + Cardinality(CallersOf(u))
BY CallersCounted, MaxCallsAssumption DEF RateLimitOvershoot

LEMMA BeginRate ==
    ASSUME TypedRest, RateLimitOvershoot,
           NEW c \in Callers, NEW t \in Tools, BeginCall(c, t)
    PROVE  RateLimitOvershoot'
<1> SUFFICES ASSUME NEW u \in Users, CallersOf(u) # {}
             PROVE  calls'[u] + Cardinality(InFlight(u)') < MaxCalls + Cardinality(CallersOf(u))
    BY DEF RateLimitOvershoot, CallersOf
<1>1. CASE u = User[c]
    <2>1. calls'[u] < MaxCalls /\ calls'[u] \in Nat
        BY <1>1 DEF BeginCall, Accepted, WithinLimit, TypedRest
    <2>2. InFlight(u)' \subseteq CallersOf(u)
        BY DEF InFlight, CallersOf
    <2>3. /\ Cardinality(InFlight(u)') \in Nat
          /\ Cardinality(InFlight(u)') <= Cardinality(CallersOf(u))
        BY <2>2, CallersCounted, FS_Subset, FS_CardinalityType
    <2>4. Cardinality(CallersOf(u)) \in Nat
        BY CallersCounted
    <2> HIDE DEF InFlight
    <2> QED BY <2>1, <2>3, <2>4, MaxCallsAssumption
<1>2. CASE u # User[c]
    <2>1. InFlight(u)' = InFlight(u)
        BY <1>2 DEF BeginCall, InFlight, CallersOf, TypedRest
    <2>2. calls' = calls /\ calls[u] \in Nat
        BY DEF BeginCall, TypedRest
    <2> QED BY <2>1, <2>2, Unaffected
<1> QED BY <1>1, <1>2

(* A call that ends leaves the calls in flight, and is recorded at most once. *)
LEMMA EndRate ==
    ASSUME TypedRest, RateLimitOvershoot, NEW c \in Callers, executing[c] # None,
           executing' = [executing EXCEPT ![c] = None],
           RecordCall(User[c]) \/ UNCHANGED calls
    PROVE  RateLimitOvershoot'
<1> SUFFICES ASSUME NEW u \in Users, CallersOf(u) # {}
             PROVE  calls'[u] + Cardinality(InFlight(u)') < MaxCalls + Cardinality(CallersOf(u))
    BY DEF RateLimitOvershoot, CallersOf
<1>1. CASE u = User[c]
    <2>1. c \in InFlight(u) /\ InFlight(u)' = InFlight(u) \ {c}
        BY <1>1, NoneAssumption DEF InFlight, CallersOf, TypedRest
    <2>2. Cardinality(InFlight(u)') = Cardinality(InFlight(u)) - 1
        BY <2>1, CallersCounted, FS_RemoveElement
    <2>3. calls[u] \in Nat /\ (calls'[u] = calls[u] + 1 \/ calls'[u] = calls[u])
        BY <1>1 DEF RecordCall, TypedRest
    <2>4. /\ Cardinality(CallersOf(u)) \in Nat /\ Cardinality(InFlight(u)) \in Nat
          /\ calls[u] + Cardinality(InFlight(u)) < MaxCalls + Cardinality(CallersOf(u))
        BY CallersCounted DEF RateLimitOvershoot
    <2> QED BY <2>2, <2>3, <2>4, MaxCallsAssumption
<1>2. CASE u # User[c]
    <2>1. InFlight(u)' = InFlight(u)
        BY <1>2 DEF InFlight, CallersOf, TypedRest
    <2>2. calls'[u] = calls[u] /\ calls[u] \in Nat
        BY <1>2, UserAssumption DEF RecordCall, TypedRest
    <2> QED BY <2>1, <2>2, Unaffected
<1> QED BY <1>1, <1>2

LEMMA NextRate == TypedRest /\ RateLimitOvershoot /\ [Next]_vars => RateLimitOvershoot'
<1> SUFFICES ASSUME TypedRest, RateLimitOvershoot, [Next]_vars PROVE RateLimitOvershoot'
    OBVIOUS
<1>1. CASE UNCHANGED <<executing, calls>>
    BY <1>1 DEF RateLimitOvershoot, InFlight, CallersOf
<1>2. ASSUME NEW c \in Callers, NEW t \in Tools, BeginCall(c, t) PROVE RateLimitOvershoot'
    BY <1>2, BeginRate
<1>3. ASSUME NEW c \in Callers, Succeed(c) \/ Fail(c) PROVE RateLimitOvershoot'
    BY <1>3, EndRate DEF Succeed, Fail
<1>4. ASSUME NEW v \in Users, Expire(v) PROVE RateLimitOvershoot'
    <2> SUFFICES ASSUME NEW u \in Users, CallersOf(u) # {}
                 PROVE  calls'[u] + Cardinality(InFlight(u)')
                            < MaxCalls + Cardinality(CallersOf(u))
        BY DEF RateLimitOvershoot, CallersOf
    <2>1. InFlight(u)' = InFlight(u)
        BY <1>4 DEF Expire, InFlight, CallersOf
    <2>2. calls'[u] <= calls[u] /\ calls[u] \in Nat /\ calls'[u] \in Nat
        BY <1>4 DEF Expire, TypedRest
    <2> QED BY <2>1, <2>2, Unaffected
<1> QED BY <1>1, <1>2, <1>3, <1>4
        DEF Next, vars, TurnAway, RecoveryElapses, Reset, Rediscover, Continue, Proceed

(* A user's window holds fewer calls than the limit and the user's         *)
(* concurrent callers together, for any limit and any number of callers    *)
(* (tool_invocation.py:104-121).                                           *)
THEOREM RateLimitBounded == Spec => []RateLimitOvershoot
<1>1. Init => RateLimitOvershoot
    <2> SUFFICES ASSUME Init, NEW u \in Users, CallersOf(u) # {}
                 PROVE  calls[u] + Cardinality(InFlight(u)) < MaxCalls + Cardinality(CallersOf(u))
        BY DEF RateLimitOvershoot
    <2>1. calls[u] = 0
        BY DEF Init
    <2> QED BY <2>1, CallersCounted, MaxCallsAssumption
<1>2. IInv => TypedRest
    BY DEF IInv
<1> QED BY <1>1, <1>2, NextRate, InductiveInvariant, PTL DEF Spec
=============================================================================
