---------------------------- MODULE FailoverProofs ----------------------------
(***************************************************************************)
(* Proofs about Failover, for any providers, lists, requests and           *)
(* thresholds.  The list Tries(r) of a request is never looked into: the   *)
(* results hold for whatever order get_ordered() gives.                    *)
(***************************************************************************)
EXTENDS Failover, TLAPS

Breakers ==
    [state : BreakerStates, failures : 0 .. FailureThreshold,
     successes : 0 .. SuccessThreshold, elapsed : BOOLEAN]

BreakerOK(b) ==
    /\ b \in Breakers
    /\ b.state = "closed" => b.failures < FailureThreshold
    /\ b.state = "half_open" => b.successes < SuccessThreshold

(* The breaker of a provider that does not fail never opens. *)
ProviderOK(p, b) == BreakerOK(b) /\ (p \in Reliable => b.state = "closed")

BreakersOK(B) ==
    /\ B = [p \in Providers |-> B[p]]
    /\ \A p \in Providers : ProviderOK(p, B[p])

-----------------------------------------------------------------------------
(* What the operations of a breaker keep. *)
LEMMA ClosedOK == BreakerOK(Closed) /\ Closed.state = "closed"
BY ThresholdAssumption DEF BreakerOK, Breakers, BreakerStates, Closed

LEMMA ProbedOK ==
    ASSUME NEW b, BreakerOK(b)
    PROVE  BreakerOK(Probed(b)) /\ (b.state = "closed" => Probed(b) = b)
<1>1. CASE b.state = "open" /\ b.elapsed
    <2>1. Probed(b) = [b EXCEPT !.state = "half_open", !.successes = 0, !.elapsed = FALSE]
        BY <1>1 DEF Probed
    <2>2. b \in Breakers /\ 0 \in 0 .. SuccessThreshold /\ "half_open" \in BreakerStates
        BY ThresholdAssumption DEF BreakerOK, BreakerStates
    <2>3. /\ Probed(b) \in Breakers
          /\ Probed(b).state = "half_open" /\ Probed(b).successes = 0
        BY <2>1, <2>2 DEF Breakers
    <2> QED BY <1>1, <2>3, ThresholdAssumption DEF BreakerOK
<1>2. CASE ~(b.state = "open" /\ b.elapsed)
    BY <1>2 DEF Probed
<1> QED BY <1>1, <1>2

LEMMA AfterSuccessOK ==
    ASSUME NEW b, BreakerOK(b)
    PROVE  BreakerOK(AfterSuccess(b)) /\ (b.state = "closed" => AfterSuccess(b).state = "closed")
<1>1. CASE b.state # "half_open"
    <2>1. AfterSuccess(b) = [b EXCEPT !.failures = 0]
        BY <1>1 DEF AfterSuccess
    <2> QED BY <1>1, <2>1, ThresholdAssumption DEF BreakerOK, Breakers, BreakerStates
<1>2. CASE b.state = "half_open" /\ b.successes + 1 < SuccessThreshold
    <2>1. AfterSuccess(b) = [b EXCEPT !.successes = b.successes + 1]
        BY <1>2 DEF AfterSuccess
    <2> QED BY <1>2, <2>1, ThresholdAssumption DEF BreakerOK, Breakers, BreakerStates
<1>3. CASE b.state = "half_open" /\ ~(b.successes + 1 < SuccessThreshold)
    <2>1. AfterSuccess(b)
            = [b EXCEPT !.successes = b.successes + 1, !.state = "closed", !.failures = 0]
        BY <1>3 DEF AfterSuccess
    <2>2. b.successes + 1 \in 0 .. SuccessThreshold
        BY <1>3, ThresholdAssumption DEF BreakerOK, Breakers
    <2>3. b \in Breakers /\ 0 \in 0 .. FailureThreshold /\ "closed" \in BreakerStates
        BY ThresholdAssumption DEF BreakerOK, BreakerStates
    <2>4. /\ AfterSuccess(b) \in Breakers
          /\ AfterSuccess(b).state = "closed" /\ AfterSuccess(b).failures = 0
        BY <2>1, <2>2, <2>3 DEF Breakers
    <2> QED BY <2>4, ThresholdAssumption DEF BreakerOK
<1> QED BY <1>1, <1>2, <1>3

LEMMA AfterFailureOK ==
    ASSUME NEW b, BreakerOK(b)
    PROVE  /\ BreakerOK(AfterFailure(b))
           /\ AfterFailure(b).elapsed = FALSE
           /\ b.state = "open" => AfterFailure(b).state = "open"
<1> DEFINE count == IF b.failures < FailureThreshold THEN b.failures + 1 ELSE b.failures
<1> DEFINE counted == [b EXCEPT !.elapsed = FALSE, !.failures = count]
<1>1. count \in 0 .. FailureThreshold
    BY ThresholdAssumption DEF BreakerOK, Breakers
<1> HIDE DEF count
<1>2. /\ counted \in Breakers /\ counted.failures = count
      /\ counted.state = b.state /\ counted.successes = b.successes /\ counted.elapsed = FALSE
    BY <1>1 DEF BreakerOK, Breakers, BreakerStates
<1>3. AfterFailure(b) = IF b.state = "half_open" \/ counted.failures >= FailureThreshold
                        THEN [counted EXCEPT !.state = "open"] ELSE counted
    BY DEF AfterFailure, count
<1> HIDE DEF counted
<1>4. CASE b.state = "half_open" \/ counted.failures >= FailureThreshold
    <2>1. /\ AfterFailure(b) \in Breakers /\ AfterFailure(b).state = "open"
          /\ AfterFailure(b).elapsed = FALSE
        BY <1>2, <1>3, <1>4 DEF Breakers, BreakerStates
    <2> QED BY <2>1 DEF BreakerOK
<1>5. CASE ~(b.state = "half_open" \/ counted.failures >= FailureThreshold)
    <2>1. AfterFailure(b) = counted
        BY <1>3, <1>5
    <2> QED BY <1>1, <1>2, <1>5, <2>1, ThresholdAssumption DEF BreakerOK
<1> QED BY <1>4, <1>5

LEMMA LookedOK ==
    ASSUME NEW r, NEW i, NEW j, NEW B, BreakersOK(B)
    PROVE  BreakersOK(Looked(r, i, j, B))
BY ProbedOK DEF BreakersOK, ProviderOK, Looked

LEMMA RecordedOK ==
    ASSUME NEW B, BreakersOK(B), NEW p, NEW b, p \in Guarded => ProviderOK(p, b)
    PROVE  BreakersOK(Recorded(B, p, b))
BY ProviderAssumption DEF BreakersOK, Recorded

LEMMA SucceededOK ==
    ASSUME NEW B, BreakersOK(B), NEW p
    PROVE  BreakersOK(Recorded(B, p, AfterSuccess(B[p])))
<1>1. p \in Guarded => ProviderOK(p, AfterSuccess(B[p]))
    BY AfterSuccessOK, ProviderAssumption DEF BreakersOK, ProviderOK
<1> QED BY <1>1, RecordedOK

LEMMA FailedOK ==
    ASSUME NEW B, BreakersOK(B), NEW p, p \notin Reliable
    PROVE  BreakersOK(Recorded(B, p, AfterFailure(B[p])))
<1>1. p \in Guarded => ProviderOK(p, AfterFailure(B[p]))
    BY AfterFailureOK, ProviderAssumption DEF BreakersOK, ProviderOK
<1> QED BY <1>1, RecordedOK

(* Only a provider that may raise is charged with a failure. *)
LEMMA PastStreamsOK ==
    ASSUME NEW r, NEW K, BreakersOK(breaker), StreamsRaised(r, K)
    PROVE  BreakersOK(PastStreams(r, K))
<1> SUFFICES ASSUME NEW p \in Providers PROVE ProviderOK(p, PastStreams(r, K)[p])
    BY DEF BreakersOK, PastStreams
<1>1. ProviderOK(p, breaker[p])
    BY DEF BreakersOK
<1>2. BreakerOK(Probed(breaker[p])) /\ BreakerOK(AfterFailure(Probed(breaker[p])))
    BY <1>1, ProbedOK, AfterFailureOK DEF ProviderOK
<1>3. CASE p \in Guarded /\ Usable(p, breaker) /\ \E k \in K : Tries(r)[k] = p
    BY <1>2, <1>3 DEF PastStreams, StreamsRaised, ProviderOK
<1>4. CASE ~(p \in Guarded /\ Usable(p, breaker) /\ \E k \in K : Tries(r)[k] = p)
    BY <1>1, <1>2, <1>4, ProbedOK DEF PastStreams, ProviderOK
<1> QED BY <1>3, <1>4

-----------------------------------------------------------------------------
RequestsOK ==
    /\ awaiting \in [Requests -> Nat]
    /\ \A r \in Requests : awaiting[r] \in Places(r) \cup {0}
    /\ onTrial \subseteq Requests
    /\ outcome \in [Requests -> {"none", "answered", "opened", "exhausted"}]

(* Places below i of a request's list hold no provider sure to answer. *)
NoneBelow(r, i) == \A k \in Places(r) : k < i => Tries(r)[k] \notin Registered \cap Reliable

(* A request has only gone past providers that may fail. *)
WentPast == \A r \in Requests : NoneBelow(r, awaiting[r])

IInv == BreakersOK(breaker) /\ RequestsOK /\ WentPast /\ ReliableProviderAnswers

LEMMA InitInductive == Init => IInv
<1> SUFFICES ASSUME Init PROVE IInv
    OBVIOUS
<1>1. BreakersOK(breaker)
    BY ClosedOK DEF Init, BreakersOK, ProviderOK
<1>2. RequestsOK /\ WentPast /\ ReliableProviderAnswers
    BY DEF Init, RequestsOK, WentPast, NoneBelow, Places, ReliableProviderAnswers
<1> QED BY <1>1, <1>2 DEF IInv

(* A provider that is sure to answer can always be called. *)
LEMMA ReliableUsable ==
    ASSUME NEW B, BreakersOK(B), NEW p \in Registered \cap Reliable
    PROVE  Usable(p, B)
BY ProbedOK, ProviderAssumption DEF BreakersOK, ProviderOK, Usable, CanExecute

(* The loop of execute from place i on, with the breakers B. *)
LEMMA CallInductive ==
    ASSUME RequestsOK, WentPast, ReliableProviderAnswers,
           NEW B, BreakersOK(B), NEW r \in Requests, NEW i \in Nat, NoneBelow(r, i), Call(r, i, B)
    PROVE  IInv'
<1>1. PICK j \in Places(r) :
        /\ Found(r, i, B, j)
        /\ breaker' = Looked(r, i, j, B)
        /\ awaiting' = [awaiting EXCEPT ![r] = j]
        /\ onTrial' \in {onTrial \cup {r}, onTrial \ {r}}
        /\ outcome' = [outcome EXCEPT ![r] = "none"]
    BY DEF Call
<1>2. BreakersOK(breaker')
    BY <1>1, LookedOK
<1>3. j \in Nat
    BY DEF Places
<1>4. RequestsOK'
    BY <1>1, <1>3 DEF RequestsOK, Places
<1>5. NoneBelow(r, j)
    BY <1>1, <1>3, ReliableUsable DEF NoneBelow, Found, Places
<1>6. WentPast'
    BY <1>1, <1>5 DEF WentPast, NoneBelow, Places, RequestsOK
<1>7. ReliableProviderAnswers'
    BY <1>1 DEF ReliableProviderAnswers, RequestsOK
<1> QED BY <1>2, <1>4, <1>6, <1>7 DEF IInv, BreakersOK

LEMMA ExhaustInductive ==
    ASSUME RequestsOK, WentPast, ReliableProviderAnswers,
           NEW B, BreakersOK(B), NEW r \in Requests, NEW i \in Nat, NoneBelow(r, i), Exhaust(r, i, B)
    PROVE  IInv'
<1>1. BreakersOK(breaker')
    BY LookedOK DEF Exhaust
<1>2. RequestsOK'
    BY DEF Exhaust, RequestsOK, Places
<1>3. WentPast'
    BY DEF Exhaust, WentPast, NoneBelow, Places, RequestsOK
<1>4. \A k \in Places(r) : Tries(r)[k] \notin Registered \cap Reliable
    BY ReliableUsable DEF Exhaust, NoneFound, NoneBelow, Places
<1>5. ReliableProviderAnswers'
    BY <1>4 DEF Exhaust, ReliableProviderAnswers, Places, RequestsOK
<1> QED BY <1>1, <1>2, <1>3, <1>5 DEF IInv, BreakersOK

LEMMA NextInductive == IInv /\ [Next]_vars => IInv'
<1> SUFFICES ASSUME IInv, [Next]_vars PROVE IInv'
    OBVIOUS
<1> USE DEF IInv
<1>1. ASSUME NEW r \in Requests, Execute(r) PROVE IInv'
    <2>1. NoneBelow(r, 1)
        BY DEF NoneBelow, Places
    <2> QED BY <1>1, <2>1, CallInductive, ExhaustInductive DEF Execute
<1>2. ASSUME NEW r \in Requests, Answered(r) PROVE IInv'
    <2>1. BreakersOK(breaker')
        BY <1>2, SucceededOK DEF Answered
    <2>2. RequestsOK' /\ WentPast' /\ ReliableProviderAnswers'
        BY <1>2 DEF Answered, RequestsOK, WentPast, NoneBelow, Places,
                    ReliableProviderAnswers
    <2> QED BY <2>1, <2>2 DEF BreakersOK
<1>3. ASSUME NEW r \in Requests, Failed(r) PROVE IInv'
    <2> DEFINE p == Tries(r)[awaiting[r]]
    <2> DEFINE B == Recorded(breaker, p, AfterFailure(breaker[p]))
    <2>1. BreakersOK(B)
        BY <1>3, FailedOK DEF Failed
    <2>2. Following(awaiting[r]) \in Nat /\ NoneBelow(r, Following(awaiting[r]))
        BY <1>3 DEF Failed, Following, WentPast, NoneBelow, RequestsOK, Places
    <2>3. Call(r, Following(awaiting[r]), B) \/ Exhaust(r, Following(awaiting[r]), B)
        BY <1>3 DEF Failed
    <2> HIDE DEF B
    <2> QED BY <2>1, <2>2, <2>3, CallInductive, ExhaustInductive
<1>4. ASSUME NEW r \in Requests, Abandon(r) PROVE IInv'
    BY <1>4 DEF Abandon, BreakersOK, RequestsOK, WentPast, NoneBelow, Places,
                ReliableProviderAnswers
<1>5. ASSUME NEW r \in Requests, OpenStream(r) PROVE IInv'
    <2>1. BreakersOK(breaker')
        <3>1. ASSUME NEW j \in Places(r), StreamsRaised(r, 1 .. j - 1)
              PROVE  BreakersOK(Recorded(PastStreams(r, 1 .. j - 1), Tries(r)[j],
                                         AfterSuccess(Probed(breaker[Tries(r)[j]]))))
            <4>1. BreakersOK(PastStreams(r, 1 .. j - 1))
                BY <3>1, PastStreamsOK
            <4>2. \A q \in Guarded : ProviderOK(q, AfterSuccess(Probed(breaker[q])))
                BY ProbedOK, AfterSuccessOK, ProviderAssumption DEF BreakersOK, ProviderOK
            <4> QED BY <4>1, <4>2, RecordedOK
        <3>2. StreamsRaised(r, Places(r)) => BreakersOK(PastStreams(r, Places(r)))
            BY PastStreamsOK
        <3> QED BY <1>5, <3>1, <3>2 DEF OpenStream
    <2>2. RequestsOK' /\ WentPast'
        BY <1>5 DEF OpenStream, RequestsOK, WentPast, NoneBelow, Places
    <2>3. StreamsRaised(r, Places(r)) =>
              \A k \in Places(r) : Tries(r)[k] \notin Registered \cap Reliable
        <3> SUFFICES ASSUME StreamsRaised(r, Places(r)), NEW k \in Places(r),
                            Tries(r)[k] \in Registered \cap Reliable
                     PROVE  FALSE
            OBVIOUS
        <3>1. Usable(Tries(r)[k], breaker)
            BY ReliableUsable DEF Places
        <3> QED BY <3>1 DEF StreamsRaised
    <2>4. ReliableProviderAnswers'
        BY <1>5, <2>3 DEF OpenStream, ReliableProviderAnswers, Places, RequestsOK
    <2> QED BY <2>1, <2>2, <2>4 DEF BreakersOK
<1>6. ASSUME NEW p \in Guarded, RecoveryElapses(p) PROVE IInv'
    <2>1. BreakersOK(breaker')
        BY <1>6, ProviderAssumption DEF RecoveryElapses, BreakersOK, ProviderOK, BreakerOK, Breakers
    <2>2. RequestsOK' /\ WentPast' /\ ReliableProviderAnswers'
        BY <1>6 DEF RecoveryElapses, RequestsOK, WentPast, NoneBelow, Places,
                    ReliableProviderAnswers
    <2> QED BY <2>1, <2>2 DEF BreakersOK
<1>7. ASSUME NEW p \in Guarded, Reset(p) PROVE IInv'
    <2>1. BreakersOK(breaker')
        BY <1>7, ClosedOK, ProviderAssumption DEF Reset, BreakersOK, ProviderOK
    <2>2. RequestsOK' /\ WentPast' /\ ReliableProviderAnswers'
        BY <1>7 DEF Reset, RequestsOK, WentPast, NoneBelow, Places,
                    ReliableProviderAnswers
    <2> QED BY <2>1, <2>2 DEF BreakersOK
<1>8. CASE UNCHANGED vars
    BY <1>8 DEF vars, BreakersOK, RequestsOK, WentPast, NoneBelow, Places,
                ReliableProviderAnswers
<1> QED BY <1>1, <1>2, <1>3, <1>4, <1>5, <1>6, <1>7, <1>8 DEF Next, Ends

(* The inductive invariant: breakers whose counters fit, closed ones for   *)
(* the providers that do not fail, and requests that have gone past        *)
(* providers that may fail only.                                           *)
THEOREM InductiveInvariant == Spec => []IInv
<1> QED BY InitInductive, NextInductive, PTL DEF Spec

(* The state of breakers and requests is always of its type. *)
THEOREM TypeCorrect == Spec => []TypeOK
<1>1. IInv => TypeOK
    BY DEF IInv, BreakersOK, ProviderOK, BreakerOK, Breakers, RequestsOK, TypeOK
<1> QED BY <1>1, InductiveInvariant, PTL

(* The counters of every breaker fit its state, for any thresholds and     *)
(* however late answers arrive (circuit_breaker.py:72-115).                *)
THEOREM CountersFit == Spec => []CountersMatchState
<1>1. IInv => CountersMatchState
    BY DEF IInv, BreakersOK, ProviderOK, BreakerOK, CountersMatchState
<1> QED BY <1>1, InductiveInvariant, PTL

(* A request with a provider on its list that does not fail is never given *)
(* up, however many requests share the breakers (failover.py:55-128).      *)
THEOREM ReliableAnswers == Spec => []ReliableProviderAnswers
<1>1. IInv => ReliableProviderAnswers
    BY DEF IInv
<1> QED BY <1>1, InductiveInvariant, PTL

-----------------------------------------------------------------------------
(* An OPEN breaker whose timeout has not run out stays one whatever is     *)
(* asked of it or told to it.                                              *)
Waiting(b) == b.state = "open" /\ ~b.elapsed

LEMMA WaitsOn ==
    ASSUME NEW b, BreakerOK(b), Waiting(b)
    PROVE  Probed(b) = b /\ Waiting(AfterSuccess(b)) /\ Waiting(AfterFailure(b))
<1>1. Probed(b) = b
    BY DEF Waiting, Probed
<1>2. Waiting(AfterSuccess(b))
    BY DEF Waiting, AfterSuccess, BreakerOK, Breakers
<1> QED BY <1>1, <1>2, AfterFailureOK DEF Waiting

LEMMA LookedWaits ==
    ASSUME NEW p \in Providers, NEW r, NEW i, NEW j, NEW B, BreakersOK(B), Waiting(B[p])
    PROVE  Waiting(Looked(r, i, j, B)[p])
BY WaitsOn DEF Looked, BreakersOK, ProviderOK

LEMMA RecordedWaits ==
    ASSUME NEW p \in Providers, NEW q, NEW B, BreakersOK(B), Waiting(B[p])
    PROVE  /\ Waiting(Recorded(B, q, AfterSuccess(B[q]))[p])
           /\ Waiting(Recorded(B, q, AfterFailure(B[q]))[p])
<1>1. Waiting(AfterSuccess(B[p])) /\ Waiting(AfterFailure(B[p]))
    BY WaitsOn DEF BreakersOK, ProviderOK
<1> QED BY <1>1 DEF Recorded, BreakersOK

LEMMA PastStreamsWaits ==
    ASSUME NEW p \in Providers, NEW r, NEW K, BreakersOK(breaker), Waiting(breaker[p])
    PROVE  Waiting(PastStreams(r, K)[p])
<1>1. /\ Waiting(breaker[p]) /\ Waiting(Probed(breaker[p]))
      /\ Waiting(AfterFailure(Probed(breaker[p])))
    BY WaitsOn DEF BreakersOK, ProviderOK
<1> QED BY <1>1 DEF PastStreams

LEMMA NextWaits ==
    ASSUME IInv, [Next]_vars, NEW p \in Guarded, Waiting(breaker[p]), ~Reset(p)
    PROVE  breaker'[p].state = "open"
<1>1. p \in Providers /\ BreakersOK(breaker)
    BY ProviderAssumption DEF IInv
<1>2. ASSUME NEW r \in Requests, Execute(r) \/ OpenStream(r) \/ Answered(r)
      PROVE  Waiting(breaker'[p])
    <2>1. CASE Execute(r)
        BY <1>1, <2>1, LookedWaits DEF Execute, Call, Exhaust
    <2>2. CASE OpenStream(r)
        <3>1. \A K : Waiting(PastStreams(r, K)[p])
            BY <1>1, PastStreamsWaits
        <3>2. Waiting(AfterSuccess(Probed(breaker[p])))
            BY <1>1, WaitsOn DEF BreakersOK, ProviderOK
        <3>3. \A K, j : Waiting(Recorded(PastStreams(r, K), Tries(r)[j],
                                         AfterSuccess(Probed(breaker[Tries(r)[j]])))[p])
            BY <1>1, <3>1, <3>2 DEF Recorded, PastStreams
        <3> QED BY <2>2, <3>1, <3>3 DEF OpenStream
    <2>3. CASE Answered(r)
        BY <1>1, <2>3, RecordedWaits DEF Answered
    <2> QED BY <1>2, <2>1, <2>2, <2>3
<1>3. ASSUME NEW r \in Requests, Failed(r) PROVE Waiting(breaker'[p])
    <2> DEFINE q == Tries(r)[awaiting[r]]
    <2> DEFINE B == Recorded(breaker, q, AfterFailure(breaker[q]))
    <2>1. BreakersOK(B) /\ Waiting(B[p])
        BY <1>1, <1>3, FailedOK, RecordedWaits DEF Failed
    <2>2. Call(r, Following(awaiting[r]), B) \/ Exhaust(r, Following(awaiting[r]), B)
        BY <1>3 DEF Failed
    <2> HIDE DEF B
    <2> QED BY <1>1, <2>1, <2>2, LookedWaits DEF Call, Exhaust
<1>4. ASSUME NEW q \in Guarded, RecoveryElapses(q) PROVE breaker'[p].state = "open"
    <2>1. breaker'[p] \in {breaker[p], [breaker[p] EXCEPT !.elapsed = TRUE]}
        BY <1>1, <1>4 DEF RecoveryElapses, BreakersOK
    <2> QED BY <1>1, <2>1 DEF Waiting, BreakersOK, ProviderOK, BreakerOK, Breakers
<1>5. ASSUME NEW q \in Guarded, Reset(q) PROVE breaker'[p].state = "open"
    BY <1>1, <1>5 DEF Reset, Waiting, BreakersOK
<1>6. ASSUME UNCHANGED breaker PROVE breaker'[p].state = "open"
    BY <1>6 DEF Waiting
<1> QED BY <1>2, <1>3, <1>4, <1>5, <1>6 DEF Next, Ends, Abandon, vars, Waiting

(* No answer, however late, closes or probes an OPEN breaker before its    *)
(* recovery timeout (circuit_breaker.py:63-98).                           *)
THEOREM OpenWaits == Spec => OpenWaitsForTimeout
<1>1. IInv /\ [Next]_vars =>
        [\A p \in Guarded :
            breaker[p].state = "open" /\ ~breaker[p].elapsed /\ breaker'[p].state # "open"
                => Reset(p)]_vars
    BY NextWaits DEF Waiting
<1> QED BY <1>1, InductiveInvariant, PTL DEF Spec, OpenWaitsForTimeout
=============================================================================
