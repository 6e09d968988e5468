------------------------------ MODULE ToolCalls ------------------------------
(***************************************************************************)
(* Concurrent tool calls through one MCPRuntime (services/mcp-integration) *)
(* to the tools of one server, while the server's tools are discovered     *)
(* anew.  A call passes the tool's circuit breaker, the registry, the      *)
(* permissions, the user's rate limit and the validation of its arguments  *)
(* without suspending; it suspends in the tool's handler only, under       *)
(* wait_for, and is accounted for afterwards.  A rediscovery suspends      *)
(* after every tool it unregisters or registers, to log it.                *)
(***************************************************************************)
EXTENDS Naturals, FiniteSets

CONSTANTS
    Tools,             \* the names in MCPServer.tools
    Callers,           \* concurrent callers of call_tool
    Users,
    User,              \* the user a caller calls for
    Permitted,         \* the users permitted a tool
    Careless,          \* callers whose arguments may not fit the schema
    MaxCalls,          \* UserPermissions.max_calls_per_minute
    Rediscoveries,     \* concurrent callers of discover_tools
    FailureThreshold,
    SuccessThreshold,
    None

ASSUME CallersFinite       == IsFiniteSet(Callers)
ASSUME UserAssumption      == User \in [Callers -> Users]
ASSUME PermittedAssumption == Permitted \in [Tools -> SUBSET Users]
ASSUME CarelessAssumption  == Careless \subseteq Callers
ASSUME MaxCallsAssumption  == MaxCalls \in Nat \ {0}
ASSUME ThresholdAssumption ==
    FailureThreshold \in Nat \ {0} /\ SuccessThreshold \in Nat \ {0}
ASSUME NoneAssumption      == None \notin Tools

VARIABLES
    registry,   \* ToolRegistry._tools
    drops,      \* what a rediscovery has listed and not come to yet
    adds,       \* what it has still to register
    breaker,    \* ToolCircuitBreaker of every tool
    executing,  \* the tool whose handler a caller awaits
    calls       \* the length of _call_timestamps, within the window

vars == <<registry, drops, adds, breaker, executing, calls>>

BreakerStates == {"closed", "open", "half_open"}

Init ==
    /\ registry = Tools
    /\ drops = [r \in Rediscoveries |-> {}]
    /\ adds = [r \in Rediscoveries |-> {}]
    /\ breaker = [t \in Tools |->
                    [state |-> "closed", failures |-> 0, successes |-> 0, elapsed |-> FALSE]]
    /\ executing = [c \in Callers |-> None]
    /\ calls = [u \in Users |-> 0]

-----------------------------------------------------------------------------
(* The circuit breaker.  `elapsed` says whether recovery_timeout has run   *)
(* out since the last failure; it matters while the breaker is OPEN.       *)

(* The state property, which every reader evaluates. *)
Probed(b) ==
    IF b.state = "open" /\ b.elapsed
    THEN [b EXCEPT !.state = "half_open", !.successes = 0, !.elapsed = FALSE] ELSE b

CanExecute(t) == Probed(breaker[t]).state \in {"closed", "half_open"}

(* Variant: a success in HALF_OPEN counts one too many. *)
AfterSuccessUncapped(b) ==
    IF b.state # "half_open" THEN [b EXCEPT !.failures = 0, !.state = "closed"]
    ELSE IF b.successes >= SuccessThreshold
    THEN [b EXCEPT !.failures = 0, !.state = "closed", !.successes = 0]
    ELSE [b EXCEPT !.failures = 0, !.successes = @ + 1]

(* A success that arrives late closes an OPEN breaker. *)
AfterSuccess(b) ==
    LET fresh == [b EXCEPT !.failures = 0]
    IN  IF b.state # "half_open" THEN [fresh EXCEPT !.state = "closed"]
        ELSE IF b.successes + 1 >= SuccessThreshold
        THEN [fresh EXCEPT !.state = "closed", !.successes = 0]
        ELSE [fresh EXCEPT !.successes = @ + 1]

(* Variant: the breaker opens one failure late. *)
AfterFailureLate(b) ==
    LET counted == [b EXCEPT !.elapsed = FALSE,
                             !.failures = IF @ < FailureThreshold THEN @ + 1 ELSE @]
    IN  IF b.state = "half_open" THEN [counted EXCEPT !.state = "open", !.successes = 0]
        ELSE IF b.failures >= FailureThreshold THEN [counted EXCEPT !.state = "open"]
        ELSE counted

(* The count is only ever compared with the threshold: it stops there.     *)
(* The timeout starts anew, in every state.                                *)
AfterFailure(b) ==
    LET counted == [b EXCEPT !.elapsed = FALSE,
                             !.failures = IF @ < FailureThreshold THEN @ + 1 ELSE @]
    IN  IF b.state = "half_open" THEN [counted EXCEPT !.state = "open", !.successes = 0]
        ELSE IF counted.failures >= FailureThreshold THEN [counted EXCEPT !.state = "open"]
        ELSE counted

RecoveryElapses(t) ==
    /\ breaker[t].state = "open" /\ ~breaker[t].elapsed
    /\ breaker' = [breaker EXCEPT ![t].elapsed = TRUE]
    /\ UNCHANGED <<registry, drops, adds, executing, calls>>

Reset(t) ==
    /\ breaker' = [breaker EXCEPT ![t] =
                     [state |-> "closed", failures |-> 0, successes |-> 0, elapsed |-> FALSE]]
    /\ UNCHANGED <<registry, drops, adds, executing, calls>>

-----------------------------------------------------------------------------
(* call_tool.  A call that the breaker refuses changes nothing and is not  *)
(* modelled.                                                               *)

(* Variant: the limit itself is within the limit. *)
WithinOneMore(u) == calls[u] <= MaxCalls
WithinLimit(u) == calls[u] < MaxCalls

Accepted(c, t) ==
    /\ t \in registry
    /\ User[c] \in Permitted[t]
    /\ WithinLimit(User[c])

RecordCall(u) == calls' = [calls EXCEPT ![u] = @ + 1]

BeginCall(c, t) ==
    /\ executing[c] = None
    /\ CanExecute(t)
    /\ Accepted(c, t)
    /\ breaker' = [breaker EXCEPT ![t] = Probed(@)]
    /\ executing' = [executing EXCEPT ![c] = t]
    /\ UNCHANGED <<registry, drops, adds, calls>>

(* The call is turned away before the tool is reached, for a reason of the *)
(* caller's, or because a rediscovery has just unregistered the tool; the  *)
(* breaker counts a failure of the tool.                                   *)
TurnAway(c, t) ==
    /\ executing[c] = None
    /\ CanExecute(t)
    /\ ~Accepted(c, t) \/ c \in Careless
    /\ breaker' = [breaker EXCEPT ![t] = AfterFailure(Probed(@))]
    /\ UNCHANGED <<registry, drops, adds, executing, calls>>

Succeed(c) ==
    /\ executing[c] # None
    /\ RecordCall(User[c])
    /\ breaker' = [breaker EXCEPT ![executing[c]] = AfterSuccess(@)]
    /\ executing' = [executing EXCEPT ![c] = None]
    /\ UNCHANGED <<registry, drops, adds>>

(* The handler raises, there is none, or wait_for runs out: no call is     *)
(* recorded for the user.                                                  *)
Fail(c) ==
    /\ executing[c] # None
    /\ breaker' = [breaker EXCEPT ![executing[c]] = AfterFailure(@)]
    /\ executing' = [executing EXCEPT ![c] = None]
    /\ UNCHANGED <<registry, drops, adds, calls>>

(* A call leaves the window of the last minute. *)
Expire(u) ==
    /\ calls[u] > 0
    /\ calls' = [calls EXCEPT ![u] = @ - 1]
    /\ UNCHANGED <<registry, drops, adds, breaker, executing>>

-----------------------------------------------------------------------------
(* discover_tools: list the server's tools, unregister them one by one,    *)
(* register the tools it declares one by one.                              *)

(* Of the listed tools, the next one that is still there is unregistered;  *)
(* the ones passed over are gone (in any order, here).                     *)
Unregister(r, listed, declared) ==
    \E t \in listed \cap registry : \E passed \in SUBSET (listed \ registry) :
        /\ registry' = registry \ {t}
        /\ drops' = [drops EXCEPT ![r] = listed \ ({t} \cup passed)]
        /\ adds' = [adds EXCEPT ![r] = declared]

Register(r, listed, declared) ==
    /\ listed \cap registry = {}
    /\ \E t \in declared :
          /\ registry' = registry \cup {t}
          /\ drops' = [drops EXCEPT ![r] = {}]
          /\ adds' = [adds EXCEPT ![r] = declared \ {t}]

Proceed(r, listed, declared) ==
    /\ Unregister(r, listed, declared) \/ Register(r, listed, declared)
    /\ UNCHANGED <<breaker, executing, calls>>

(* Variant: only tools that were not listed are registered. *)
DeclaredUnlisted == Tools \ registry
Declared == Tools

Rediscover(r) ==
    /\ adds[r] = {}
    /\ Proceed(r, registry, Declared)

(* Variant: it gives up when a tool it is to register is there already. *)
MoreUnlessThere(r) == adds[r] # {} /\ adds[r] \cap registry = {}
More(r) == adds[r] # {}

Continue(r) ==
    /\ More(r)
    /\ Proceed(r, drops[r], adds[r])

-----------------------------------------------------------------------------
Next ==
    \/ \E c \in Callers :
          \/ \E t \in Tools : BeginCall(c, t) \/ TurnAway(c, t)
          \/ Succeed(c) \/ Fail(c)
    \/ \E t \in Tools : RecoveryElapses(t) \/ Reset(t)
    \/ \E u \in Users : Expire(u)
    \/ \E r \in Rediscoveries : Rediscover(r) \/ Continue(r)

(* Logs are written and the loop runs a rediscovery that is ready. *)
Fairness == \A r \in Rediscoveries : WF_vars(Continue(r))

Spec == Init /\ [][Next]_vars
FairSpec == Spec /\ Fairness

-----------------------------------------------------------------------------
TypeOK ==
    /\ registry \subseteq Tools
    /\ drops \in [Rediscoveries -> SUBSET Tools]
    /\ adds \in [Rediscoveries -> SUBSET Tools]
    /\ breaker \in [Tools -> [state : BreakerStates, failures : 0 .. FailureThreshold,
                              successes : 0 .. SuccessThreshold - 1, elapsed : BOOLEAN]]
    /\ executing \in [Callers -> Tools \cup {None}]
    /\ calls \in [Users -> Nat]

CallersOf(u) == {c \in Callers : User[c] = u}
InFlight(u)  == {c \in CallersOf(u) : executing[c] # None}

(* How far a user exceeds the rate limit: it is checked before the         *)
(* handler runs and the call is recorded after (tool_invocation.py:104 and *)
(* 121), so concurrent calls all pass the check - but a window never holds *)
(* more than the limit plus one less than the user's concurrent callers,   *)
(* whatever they call, fail and retry.                                     *)
RateLimitOvershoot ==
    \A u \in Users : CallersOf(u) # {} =>
        calls[u] + Cardinality(InFlight(u)) < MaxCalls + Cardinality(CallersOf(u))

(* What the counters say of the breaker, with answers arriving in every    *)
(* state: a CLOSED one is below its threshold, an OPEN one has failed      *)
(* since its last success, and successes are counted in HALF_OPEN only.    *)
CountersMatchState ==
    \A t \in Tools :
        LET b == breaker[t]
        IN  /\ b.state = "closed" => b.failures < FailureThreshold
            /\ b.state = "open" => b.failures > 0
            /\ b.state # "half_open" => b.successes = 0

(* Concurrent rediscoveries take tools from under each other, but lose     *)
(* none: a tool that is not registered is about to be, by a rediscovery    *)
(* that is running.                                                        *)
NoToolLost ==
    \A t \in Tools \ registry : \E r \in Rediscoveries : t \in adds[r]

(* However rediscoveries overlap, a tool that is missing comes back. *)
ToolsComeBack == \A t \in Tools : t \notin registry ~> t \in registry
=============================================================================
