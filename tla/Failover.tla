------------------------------- MODULE Failover -------------------------------
(***************************************************************************)
(* Concurrent requests through one FailoverEngine (services/ai-kernel):    *)
(* each walks down its list of providers, past those whose circuit breaker *)
(* refuses, until one answers.  `execute` suspends while it awaits a       *)
(* provider's completion and nowhere else; `execute_stream` not at all.    *)
(* An answer is recorded in whatever state the breaker is by then.         *)
(***************************************************************************)
EXTENDS Naturals, Sequences, FiniteSets

CONSTANTS
    Providers,
    Requests,          \* concurrent callers
    Streaming,         \* those that call execute_stream
    Preferred,         \* preferred_provider of a request, or None
    Order,             \* ProviderPriorityManager.get_ordered()
    Registered,        \* providers the registry knows
    Guarded,           \* providers with a circuit breaker
    Reliable,          \* providers whose complete() and stream() never raise
    FailureThreshold,
    SuccessThreshold,
    HalfOpenMaxCalls,
    None

ASSUME RequestsFinite      == IsFiniteSet(Requests)
ASSUME StreamingAssumption == Streaming \subseteq Requests
ASSUME NoneAssumption      == None \notin Providers
ASSUME PreferredAssumption == Preferred \in [Requests -> Providers \cup {None}]
ASSUME OrderAssumption     ==
    /\ Order \in Seq(Providers)
    /\ \A i, j \in DOMAIN Order : Order[i] = Order[j] => i = j
ASSUME ProviderAssumption  ==
    Registered \subseteq Providers /\ Guarded \subseteq Providers /\ Reliable \subseteq Providers
ASSUME ThresholdAssumption ==
    /\ FailureThreshold \in Nat \ {0} /\ SuccessThreshold \in Nat \ {0}
    /\ HalfOpenMaxCalls \in Nat

VARIABLES
    breaker,   \* CircuitBreaker of every provider
    awaiting,  \* the place in its list of the provider a request awaits, or 0
    onTrial,   \* requests admitted by a HALF_OPEN breaker (not in the code)
    outcome    \* what became of the caller's last request

vars == <<breaker, awaiting, onTrial, outcome>>

BreakerStates == {"closed", "open", "half_open"}
Closed == [state |-> "closed", failures |-> 0, successes |-> 0, elapsed |-> FALSE]

Init ==
    /\ breaker = [p \in Providers |-> Closed]
    /\ awaiting = [r \in Requests |-> 0]
    /\ onTrial = {}
    /\ outcome = [r \in Requests |-> "none"]

-----------------------------------------------------------------------------
(* The circuit breaker.  `elapsed` says whether recovery_timeout has run   *)
(* out since the last failure; it matters while the breaker is OPEN.       *)
Probed(b) ==
    IF b.state = "open" /\ b.elapsed
    THEN [b EXCEPT !.state = "half_open", !.successes = 0, !.elapsed = FALSE] ELSE b

(* _half_open_calls is set to 0 and never incremented. *)
HalfOpenCalls == 0

CanExecute(b) ==
    \/ Probed(b).state = "closed"
    \/ Probed(b).state = "half_open" /\ HalfOpenCalls < HalfOpenMaxCalls

(* Variant: any success closes the breaker. *)
AfterSuccessClosing(b) ==
    [b EXCEPT !.state = "closed", !.failures = 0, !.successes = 0]

(* Variant: one success more than the threshold is waited for. *)
AfterSuccessLate(b) ==
    IF b.state # "half_open" THEN [b EXCEPT !.failures = 0]
    ELSE IF b.successes < SuccessThreshold THEN [b EXCEPT !.successes = @ + 1]
    ELSE [b EXCEPT !.successes = @ + 1, !.state = "closed", !.failures = 0]

(* A success that arrives while OPEN changes the failure count only.       *)
AfterSuccess(b) ==
    IF b.state # "half_open" THEN [b EXCEPT !.failures = 0]
    ELSE IF b.successes + 1 < SuccessThreshold THEN [b EXCEPT !.successes = @ + 1]
    ELSE [b EXCEPT !.successes = @ + 1, !.state = "closed", !.failures = 0]

(* Variant: the breaker opens one failure late. *)
AfterFailureLate(b) ==
    LET counted == [b EXCEPT !.elapsed = FALSE,
                             !.failures = IF @ < FailureThreshold THEN @ + 1 ELSE @]
    IN  IF b.state = "half_open" \/ b.failures >= FailureThreshold
        THEN [counted EXCEPT !.state = "open"] ELSE counted

(* The count is only ever compared with the threshold: it stops there.     *)
(* The timeout starts anew, in every state.                                *)
AfterFailure(b) ==
    LET counted == [b EXCEPT !.elapsed = FALSE,
                             !.failures = IF @ < FailureThreshold THEN @ + 1 ELSE @]
    IN  IF b.state = "half_open" \/ counted.failures >= FailureThreshold
        THEN [counted EXCEPT !.state = "open"] ELSE counted

RecoveryElapses(p) ==
    /\ breaker[p].state = "open" /\ ~breaker[p].elapsed
    /\ breaker' = [breaker EXCEPT ![p].elapsed = TRUE]
    /\ UNCHANGED <<awaiting, onTrial, outcome>>

Reset(p) ==
    /\ breaker' = [breaker EXCEPT ![p] = Closed]
    /\ UNCHANGED <<awaiting, onTrial, outcome>>

-----------------------------------------------------------------------------
(* The list of a request: its preferred provider, then the others in       *)
(* priority order.  It is built once, when the request arrives.            *)
Tries(r) ==
    IF Preferred[r] = None THEN Order
    ELSE <<Preferred[r]>> \o SelectSeq(Order, LAMBDA p : p # Preferred[r])

(* Variant: the last provider is not tried. *)
PlacesButLast(r) == 1 .. Len(Tries(r)) - 1
Places(r) == 1 .. Len(Tries(r))

(* Providers without a breaker are tried whenever they are known. *)
Usable(p, B) == p \in Registered /\ (p \in Guarded => CanExecute(B[p]))

(* The first place from i on whose provider can be called. *)
Found(r, i, B, j) ==
    /\ j \in Places(r) /\ j >= i
    /\ Usable(Tries(r)[j], B)
    /\ \A k \in i .. j - 1 : ~Usable(Tries(r)[k], B)

NoneFound(r, i, B) == \A k \in Places(r) : k >= i => ~Usable(Tries(r)[k], B)

(* Looking at the breakers from place i to place j. *)
Looked(r, i, j, B) ==
    [p \in Providers |->
        IF p \in Guarded /\ \E k \in i .. j : k \in Places(r) /\ Tries(r)[k] = p
        THEN Probed(B[p]) ELSE B[p]]

Recorded(B, p, b) == IF p \in Guarded THEN [B EXCEPT ![p] = b] ELSE B

(* The loop of execute, from place i to the next call or to its end. *)
Call(r, i, B) ==
    \E j \in Places(r) :
        LET p    == Tries(r)[j]
            seen == Looked(r, i, j, B)
        IN  /\ Found(r, i, B, j)
            /\ breaker' = seen
            /\ awaiting' = [awaiting EXCEPT ![r] = j]
            /\ onTrial' = IF p \in Guarded /\ seen[p].state = "half_open"
                          THEN onTrial \cup {r} ELSE onTrial \ {r}
            /\ outcome' = [outcome EXCEPT ![r] = "none"]

(* FailoverError. *)
Exhaust(r, i, B) ==
    /\ NoneFound(r, i, B)
    /\ breaker' = Looked(r, i, Len(Tries(r)), B)
    /\ awaiting' = [awaiting EXCEPT ![r] = 0]
    /\ onTrial' = onTrial \ {r}
    /\ outcome' = [outcome EXCEPT ![r] = "exhausted"]

Execute(r) ==
    /\ r \notin Streaming
    /\ awaiting[r] = 0
    /\ Call(r, 1, breaker) \/ Exhaust(r, 1, breaker)

Answered(r) ==
    LET p == Tries(r)[awaiting[r]]
    IN  /\ awaiting[r] # 0
        /\ breaker' = Recorded(breaker, p, AfterSuccess(breaker[p]))
        /\ awaiting' = [awaiting EXCEPT ![r] = 0]
        /\ onTrial' = onTrial \ {r}
        /\ outcome' = [outcome EXCEPT ![r] = "answered"]

(* Variant: the provider that failed is tried again. *)
FollowingAgain(i) == i
Following(i) == i + 1

(* The provider raises, a timeout of its client included: on to the next. *)
Failed(r) ==
    LET p == Tries(r)[awaiting[r]]
        B == Recorded(breaker, p, AfterFailure(breaker[p]))
    IN  /\ awaiting[r] # 0
        /\ p \notin Reliable
        /\ Call(r, Following(awaiting[r]), B) \/ Exhaust(r, Following(awaiting[r]), B)

(* The caller gives up: CancelledError passes by `except Exception`, and   *)
(* nothing is recorded.                                                    *)
Abandon(r) ==
    /\ awaiting[r] # 0
    /\ awaiting' = [awaiting EXCEPT ![r] = 0]
    /\ onTrial' = onTrial \ {r}
    /\ UNCHANGED <<breaker, outcome>>

(* execute_stream goes down the list without suspending.  At each of the   *)
(* places K the provider has raised, if its breaker let it be asked.       *)
StreamsRaised(r, K) ==
    \A k \in K : Usable(Tries(r)[k], breaker) => Tries(r)[k] \notin Reliable

PastStreams(r, K) ==
    [p \in Providers |->
        IF p \in Guarded /\ \E k \in K : Tries(r)[k] = p
        THEN IF Usable(p, breaker) THEN AfterFailure(Probed(breaker[p])) ELSE Probed(breaker[p])
        ELSE breaker[p]]

(* The first provider whose stream() does not raise is credited with a     *)
(* success as soon as its iterator exists, before anything has been asked  *)
(* of it: whether it works is not known, and its failure is not recorded.  *)
OpenStream(r) ==
    /\ r \in Streaming
    /\ \/ \E j \in Places(r) :
             LET p == Tries(r)[j]
             IN  /\ Usable(p, breaker) /\ StreamsRaised(r, 1 .. j - 1)
                 /\ breaker' = Recorded(PastStreams(r, 1 .. j - 1), p,
                                         AfterSuccess(Probed(breaker[p])))
                 /\ outcome' = [outcome EXCEPT ![r] = "opened"]
       \/ /\ StreamsRaised(r, Places(r))
          /\ breaker' = PastStreams(r, Places(r))
          /\ outcome' = [outcome EXCEPT ![r] = "exhausted"]
    /\ UNCHANGED <<awaiting, onTrial>>

-----------------------------------------------------------------------------
Ends(r) == Answered(r) \/ Failed(r)

Next ==
    \/ \E r \in Requests : Execute(r) \/ Ends(r) \/ Abandon(r) \/ OpenStream(r)
    \/ \E p \in Guarded : RecoveryElapses(p) \/ Reset(p)

(* Every provider client has a timeout, so a completion ends, one way or   *)
(* the other.                                                              *)
Fairness == \A r \in Requests : WF_vars(Ends(r))

Spec == Init /\ [][Next]_vars
FairSpec == Spec /\ Fairness

-----------------------------------------------------------------------------
TypeOK ==
    /\ breaker \in [Providers -> [state : BreakerStates, failures : 0 .. FailureThreshold,
                                  successes : 0 .. SuccessThreshold, elapsed : BOOLEAN]]
    /\ awaiting \in [Requests -> Nat]
    /\ \A r \in Requests : awaiting[r] \in Places(r) \cup {0}
    /\ onTrial \subseteq Requests
    /\ outcome \in [Requests -> {"none", "answered", "opened", "exhausted"}]

(* Whatever answers arrive late, in whatever state: a CLOSED breaker is    *)
(* below its failure threshold - the next failure that reaches it opens it *)
(* - and a HALF_OPEN one below its success threshold.                      *)
CountersMatchState ==
    \A p \in Providers :
        /\ breaker[p].state = "closed" => breaker[p].failures < FailureThreshold
        /\ breaker[p].state = "half_open" => breaker[p].successes < SuccessThreshold

(* What the engine is for ("deliver requests even when individual          *)
(* providers fail", failover.py:35): a request with a registered provider  *)
(* on its list that does not raise is never given up, whatever the others  *)
(* raise, whatever their breakers do and whoever shares them.  A stream    *)
(* that was opened may still turn out not to work.                         *)
ReliableProviderAnswers ==
    \A r \in Requests : outcome[r] = "exhausted" =>
        \A j \in 1 .. Len(Tries(r)) : Tries(r)[j] \notin Registered \cap Reliable

(* An OPEN breaker waits for its recovery timeout: the success of a call   *)
(* that was admitted before it opened does not close it early.  Only an    *)
(* operator's reset does.                                                  *)
OpenWaitsForTimeout ==
    [][\A p \in Guarded :
          breaker[p].state = "open" /\ ~breaker[p].elapsed /\ breaker'[p].state # "open"
              => Reset(p)]_vars

(* A request never circles among its providers: it ends. *)
EveryRequestEnds == \A r \in Requests : awaiting[r] # 0 ~> awaiting[r] = 0

(* "half_open_max_calls: Maximum concurrent calls allowed in HALF_OPEN     *)
(* state" (circuit_breaker.py:31).                                         *)
HalfOpenLimit ==
    \A p \in Guarded : breaker[p].state = "half_open" =>
        Cardinality({r \in onTrial : Tries(r)[awaiting[r]] = p}) <= HalfOpenMaxCalls
=============================================================================
