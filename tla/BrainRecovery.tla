---------------------------- MODULE BrainRecovery ----------------------------
(***************************************************************************)
(* BrainRuntime.execute_plan (services/brain-os) around the scheduler:     *)
(* recovery from failed steps, dynamic replanning and the reflection loop. *)
(* Recovery and reflection call execute_plan again, from inside the call   *)
(* they belong to, so a request is a stack of calls; all the requests of   *)
(* the runtime share the counter of its ReflectionEngine.                  *)
(*                                                                         *)
(* The scheduler is the only place where a call suspends.  What runs from  *)
(* there to the next such place is a sequence of actions of one request,   *)
(* which has the turn: no other request runs in between.                   *)
(***************************************************************************)
EXTENDS SequencesExt, PlanGraph

CONSTANTS
    Requests,        \* the callers of execute_plan
    Nobody,          \* no request runs: all of them wait
    BrainPlans,      \* the plans they bring
    FallbackModels,  \* the (model, provider) pairs of the replanner, in order
    MaxRounds,       \* ReflectionConfig.max_reflection_rounds
    RecursionLimit   \* calls of execute_plan that fit on the interpreter's stack

(* The plans of the requests and of all the replanning: the fields of an   *)
(* ExecutionPlan that recovery reads, `llm` being its steps of type        *)
(* LLM_CALL.  A request may bring any confidence.                          *)
PlanIds    == UNION {DOMAIN p.deps : p \in BrainPlans}
PlanModels == {p.model : p \in BrainPlans} \cup Range(FallbackModels)

RecoveryPlans ==
    {p \in [steps : SUBSET PlanIds, deps : [PlanIds -> SUBSET PlanIds],
            retryable : SUBSET PlanIds, llm : SUBSET PlanIds,
            model : PlanModels, confident : BOOLEAN] : p.llm \subseteq p.steps}

ASSUME PlansAssumption ==
    /\ BrainPlans \subseteq RecoveryPlans
    /\ \A p \in BrainPlans : IsFiniteSet(p.steps)

(* FALLBACK_MODELS names more than one model: whatever the current one is, *)
(* there is another.                                                       *)
ASSUME FallbackAssumption ==
    /\ FallbackModels \in Seq(Range(FallbackModels))
    /\ \E i, j \in DOMAIN FallbackModels : FallbackModels[i] # FallbackModels[j]

ASSUME NobodyAssumption    == Nobody \notin Requests
ASSUME MaxRoundsAssumption == MaxRounds \in Nat
ASSUME LimitAssumption     == RecursionLimit \in Nat \ {0}

VARIABLES
    stack,            \* the calls of execute_plan open for each request
    reply,            \* the response that the last call to finish returned
    started,          \* ExecutionStartedEvents of each request
    reported,         \* its metrics records, session entries and final events
    ended,            \* "no", "answered" or "crashed"
    reflectionCount,  \* ReflectionEngine._reflection_count
    turn              \* the request whose coroutine runs

vars == <<stack, reply, started, reported, ended, reflectionCount, turn>>

Contents == {"fine", "short", "blank"}
Kinds    == {"timeout", "provider", "model", "other"}
NoReply  == [by |-> 0, content |-> "fine"]
NoPlan   == <<>>

(* A call of execute_plan: its plan, the steps that COMPLETED and FAILED,  *)
(* the state of its ExecutionStateManager, and where it stands.            *)
Call(n, p) == [id |-> n, plan |-> p, ok |-> {}, failed |-> {},
               state |-> "RUNNING", stage |-> "scheduled"]

Top(r) == Last(stack[r])

(* The calls of r, the innermost one changed to c. *)
WithTop(r, c) == Append(Front(stack[r]), c)

-----------------------------------------------------------------------------
(* classify_failure, over the errors of the failed steps.                  *)
(* RETRIES_EXHAUSTED does not occur: the retry_count of the results is 0.  *)
Classify(errors) ==
    CASE "timeout"  \in errors -> "TIMEOUT_FAILURE"
      [] "timeout" \notin errors /\ "provider" \in errors -> "PROVIDER_FAILURE"
      [] errors \cap {"timeout", "provider"} = {} /\ "model" \in errors -> "MODEL_FAILURE"
      [] OTHER -> "UNRECOVERABLE"

HasPartial(c) == c.ok \cap c.plan.llm # {}

(* Variant: a timeout counts as partial whatever has completed. *)
RecommendActionAlwaysPartial(type, c) ==
    CASE type \in {"PROVIDER_FAILURE", "MODEL_FAILURE"} -> "RETRY_DIFFERENT"
      [] type = "TIMEOUT_FAILURE" -> "USE_PARTIAL_RESULTS"
      [] OTHER -> "FAIL_WITH_ERROR"

RecommendAction(type, c) ==
    CASE type \in {"PROVIDER_FAILURE", "MODEL_FAILURE"} -> "RETRY_DIFFERENT"
      [] type = "TIMEOUT_FAILURE" -> IF HasPartial(c) THEN "USE_PARTIAL_RESULTS" ELSE "REPLAN"
      [] OTHER -> "FAIL_WITH_ERROR"

(* The content of aggregate: an output, or nothing at all. *)
Aggregated(c) == IF c.ok = {} THEN {"short"} ELSE Contents

(* The content of create_error_response: a partial one, or the message.    *)
ErrorContent(c) == IF HasPartial(c) THEN Contents ELSE {"fine"}

-----------------------------------------------------------------------------
(* DynamicReplanner: three strategies, each the set of the plan it makes,  *)
(* if it makes one; the first that does decides.  Step ids are kept.       *)

(* Variant: failed LLM steps are removed like the others. *)
RemoveFailedStepsOfAnyType(p, failed) ==
    {[p EXCEPT !.steps = @ \ failed, !.deps = [s \in DOMAIN @ |-> @[s] \ failed]]}

RemoveFailedSteps(p, failed) ==
    LET removable == failed \ p.llm
    IN  {q \in {[p EXCEPT !.steps = @ \ removable,
                          !.deps = [s \in DOMAIN @ |-> @[s] \ removable]]} :
            removable # {} /\ p.llm # {}}

SubstituteModel(p) ==
    LET others == {i \in DOMAIN FallbackModels : FallbackModels[i] # p.model}
    IN  {[p EXCEPT !.model = FallbackModels[i]] :
            i \in {i \in others : \A j \in others : i <= j}}

SimplifyPlan(p) ==
    {q \in {[p EXCEPT !.steps = p.llm, !.deps = [s \in DOMAIN @ |-> {}]]} : p.llm # {}}

Replan(p, failed) ==
    LET without == RemoveFailedSteps(p, failed)
        other   == SubstituteModel(p)
    IN  IF failed = {} THEN {}
        ELSE IF without # {} THEN without
        ELSE IF other # {} THEN other
        ELSE SimplifyPlan(p)

-----------------------------------------------------------------------------
Init ==
    /\ stack = [r \in Requests |-> <<>>]
    /\ reply = [r \in Requests |-> NoReply]
    /\ started = [r \in Requests |-> 0]
    /\ reported = [r \in Requests |-> 0]
    /\ ended = [r \in Requests |-> "no"]
    /\ reflectionCount = 0
    /\ turn = Nobody

(* The reflection counter, after reset() at the start of execute_plan. *)
ResetForgotten(count) == count
Reset(count) == 0

(* execute_plan(p) is called over the given calls of r, and runs up to the *)
(* await of the scheduler.  It resets the reflection counter of everybody. *)
ExecutePlan(r, calls, p, count) ==
    /\ Len(calls) < RecursionLimit
    /\ stack' = [stack EXCEPT ![r] = Append(calls, Call(started[r] + 1, p))]
    /\ started' = [started EXCEPT ![r] = @ + 1]
    /\ reflectionCount' = Reset(count)
    /\ turn' = Nobody
    /\ UNCHANGED <<reply, reported, ended>>

(* RecursionError: no call of r catches it, none reports.  The innermost   *)
(* call may or may not have come to reset the counter, and `count` is what *)
(* evaluate has just made of it.                                           *)
Overflow(r, calls, count) ==
    /\ Len(calls) = RecursionLimit
    /\ stack' = [stack EXCEPT ![r] = <<>>]
    /\ ended' = [ended EXCEPT ![r] = "crashed"]
    /\ reflectionCount' \in {Reset(count), count}
    /\ turn' = Nobody
    /\ UNCHANGED <<reply, started, reported>>

Recurse(r, calls, p, count) ==
    ExecutePlan(r, calls, p, count) \/ Overflow(r, calls, count)

Arrive(r) ==
    /\ turn = Nobody
    /\ ended[r] = "no" /\ started[r] = 0
    /\ \E p \in BrainPlans : ExecutePlan(r, <<>>, p, reflectionCount)

(* The scheduler returns; the request runs on. *)
SchedulerReturns(r) ==
    /\ turn = Nobody
    /\ stack[r] # <<>> /\ Top(r).stage = "scheduled"
    /\ \E res \in Results(Top(r).plan) :
          stack' = [stack EXCEPT ![r] =
                       WithTop(r, [Top(r) EXCEPT !.ok = res.ok, !.failed = res.failed,
                                                 !.stage = "returned"])]
    /\ turn' = r
    /\ UNCHANGED <<reply, started, reported, ended, reflectionCount>>

At(r, stage) == turn = r /\ Top(r).stage = stage

(* Variant: the first response of the request is kept. *)
RespondOnce(r, state, contents) ==
    /\ \E content \in contents :
          reply' = [reply EXCEPT ![r] = IF @.by # 0 THEN @
                                        ELSE [by |-> Top(r).id, content |-> content]]
    /\ stack' = [stack EXCEPT ![r] =
                    WithTop(r, [Top(r) EXCEPT !.state = state, !.stage = "evaluating"])]
    /\ UNCHANGED <<started, reported, ended, reflectionCount, turn>>

(* The call has a response of its own, and goes on to reflect on it. *)
Respond(r, state, contents) ==
    /\ \E content \in contents :
          reply' = [reply EXCEPT ![r] = [by |-> Top(r).id, content |-> content]]
    /\ stack' = [stack EXCEPT ![r] =
                    WithTop(r, [Top(r) EXCEPT !.state = state, !.stage = "evaluating"])]
    /\ UNCHANGED <<started, reported, ended, reflectionCount, turn>>

(* No step FAILED: complete_execution and aggregate. *)
CompletePlan(r) ==
    /\ At(r, "returned")
    /\ Top(r).failed = {}
    /\ Respond(r, "COMPLETED", Aggregated(Top(r)))

(* _handle_failure: the errors of the failed steps decide what is done. *)
HandleFailure(r) ==
    /\ At(r, "returned")
    /\ Top(r).failed # {}
    /\ \E errors \in (SUBSET Kinds) \ {{}} :
        LET action == RecommendAction(Classify(errors), Top(r))
            state  == IF action = "REPLAN" THEN "REPLANNING" ELSE "RUNNING"
            next   == Replan(Top(r).plan, Top(r).failed)
            calls  == WithTop(r, [Top(r) EXCEPT !.state = state, !.stage = "recovering"])
        IN  /\ Cardinality(errors) <= Cardinality(Top(r).failed)
            /\ \/ /\ action = "USE_PARTIAL_RESULTS"
                  /\ Respond(r, "COMPLETED", Aggregated(Top(r)))
               \/ /\ \/ action = "FAIL_WITH_ERROR"
                     \/ action \in {"REPLAN", "RETRY_DIFFERENT"} /\ next = {}
                  /\ Respond(r, "FAILED", ErrorContent(Top(r)))
               \/ /\ action \in {"REPLAN", "RETRY_DIFFERENT"}
                  /\ \E p \in next : Recurse(r, calls, p, reflectionCount)

-----------------------------------------------------------------------------
(* ReflectionEngine.evaluate, of the response in hand but of the plan and  *)
(* the results of this call, which need not be the ones it came from.      *)
HighFailureRatio(c) == 2 * Cardinality(c.failed) > Cardinality(c.ok \cup c.failed)

NoIssue(c, content) == content = "fine" /\ c.plan.confident /\ ~HighFailureRatio(c)

(* _select_retry_strategy, after the count has been raised to `count`. *)
HigherTemp(c, content, count) ==
    count = 1 /\ (content = "short" \/ ~HighFailureRatio(c))

LimitReached == reflectionCount >= MaxRounds

(* The response is accepted: at the limit, without issues, or for want of  *)
(* another plan (replan makes none when no step FAILED).                   *)
Accept(r) ==
    /\ At(r, "evaluating")
    /\ LET c       == Top(r)
           content == reply[r].content
           count   == reflectionCount + 1
       IN  /\ \/ LimitReached /\ UNCHANGED reflectionCount
              \/ ~LimitReached /\ NoIssue(c, content) /\ UNCHANGED reflectionCount
              \/ /\ ~LimitReached /\ ~NoIssue(c, content)
                 /\ ~HigherTemp(c, content, count) /\ Replan(c.plan, c.failed) = {}
                 /\ reflectionCount' = count
           /\ stack' = [stack EXCEPT ![r] = WithTop(r, [c EXCEPT !.stage = "finishing"])]
    /\ UNCHANGED <<reply, started, reported, ended, turn>>

(* The plan is executed again: hotter, or replanned for another model. *)
Reflect(r) ==
    /\ At(r, "evaluating")
    /\ LET c       == Top(r)
           content == reply[r].content
           count   == reflectionCount + 1
           calls   == WithTop(r, [c EXCEPT !.stage = "reflecting"])
           next    == IF HigherTemp(c, content, count) THEN {c.plan}
                      ELSE Replan(c.plan, c.failed)
       IN  /\ ~LimitReached /\ ~NoIssue(c, content)
           /\ \E p \in next : Recurse(r, calls, p, count)

(* Metrics, session entry and final event of the innermost call. *)
ReportOutermostOnly(r) ==
    reported' = [reported EXCEPT ![r] = IF Len(stack[r]) = 1 THEN @ + 1 ELSE @]
Report(r) == reported' = [reported EXCEPT ![r] = @ + 1]

(* The call outside gets the response: it reflects on it or, if it came    *)
(* out of its own reflection, finishes too.                                *)
ResumeNever(outer) == outer
Resume(outer) ==
    [outer EXCEPT ![Len(outer)].stage =
        IF @ = "recovering" THEN "evaluating" ELSE "finishing"]

(* The innermost call reports and returns to the call outside, or the      *)
(* outermost one to the caller.                                            *)
Finish(r) ==
    /\ At(r, "finishing")
    /\ Report(r)
    /\ LET outer == Front(stack[r])
       IN  \/ /\ outer = <<>>
              /\ stack' = [stack EXCEPT ![r] = <<>>]
              /\ ended' = [ended EXCEPT ![r] = "answered"]
              /\ turn' = Nobody
           \/ /\ outer # <<>>
              /\ stack' = [stack EXCEPT ![r] = Resume(outer)]
              /\ UNCHANGED <<ended, turn>>
    /\ UNCHANGED <<reply, started, reflectionCount>>

Runs(r) ==
    \/ SchedulerReturns(r) \/ CompletePlan(r) \/ HandleFailure(r)
    \/ Accept(r) \/ Reflect(r) \/ Finish(r)

(* Every request has ended: nothing is left to do. *)
AllEnded == (\A r \in Requests : ended[r] # "no") /\ UNCHANGED vars

Next == (\E r \in Requests : Arrive(r) \/ Runs(r)) \/ AllEnded

Spec == Init /\ [][Next]_vars

-----------------------------------------------------------------------------
Stages == {"scheduled", "returned", "recovering", "evaluating", "reflecting", "finishing"}

(* Types; only the innermost call of a request is not waiting for another, *)
(* and a request between two awaits is the one that has the turn.          *)
TypeOK ==
    /\ turn \in Requests \cup {Nobody}
    /\ reflectionCount \in 0..MaxRounds
    /\ \A r \in Requests :
          /\ started[r] \in Nat /\ reported[r] \in Nat
          /\ ended[r] \in {"no", "answered", "crashed"}
          /\ reply[r].content \in Contents
          /\ Len(stack[r]) <= RecursionLimit
          /\ \A i \in DOMAIN stack[r] :
                /\ stack[r][i].stage \in Stages
                /\ i < Len(stack[r]) <=> stack[r][i].stage \in {"recovering", "reflecting"}
                /\ i = Len(stack[r]) /\ turn # r => stack[r][i].stage = "scheduled"

(* Every execution that started is reported exactly once, by metrics,      *)
(* session entry and event together, or is still open; only a request that *)
(* crashed leaves executions without a report.                             *)
EveryExecutionReported ==
    \A r \in Requests :
        IF ended[r] = "crashed" THEN reported[r] < started[r]
        ELSE started[r] = reported[r] + Len(stack[r])

(* Recovery never answers with less than the plan asked for: through any   *)
(* depth of replanning, the LLM steps are those of the request's plan, in  *)
(* the same order of dependencies; only other steps are given up, and only *)
(* such that failed in some call outside.                                  *)
RecoveryKeepsLLMSteps ==
    \A r \in Requests : \A i, j \in DOMAIN stack[r] : i < j =>
        LET outer == stack[r][i].plan
            inner == stack[r][j].plan
        IN  /\ inner.llm = outer.llm /\ inner.llm \subseteq inner.steps
            /\ \A s \in inner.steps :
                  InPlanDeps(inner, s) = InPlanDeps(outer, s) \cap inner.steps
            /\ inner.steps \subseteq outer.steps
            /\ outer.steps \ inner.steps \subseteq
                  UNION {stack[r][k].failed : k \in i..(j - 1)}

(* The response a call passes on, and the one the caller gets, is that of  *)
(* the execution that was started last; whatever an earlier one had        *)
(* achieved is gone.                                                       *)
LastExecutionAnswers ==
    \A r \in Requests :
        /\ ended[r] = "answered" => reply[r].by = started[r]
        /\ stack[r] # <<>> /\ Top(r).stage \in {"evaluating", "finishing"} =>
              reply[r].by = started[r]

(* What metrics and events will say of a call: success exactly when no     *)
(* step failed or an LLM output was at hand after a timeout; a call that   *)
(* was recovered by another is reported as a failure.                      *)
ReportJustified ==
    \A r \in Requests : \A i \in DOMAIN stack[r] :
        LET c == stack[r][i]
        IN  /\ c.state = "COMPLETED" => c.failed = {} \/ HasPartial(c)
            /\ c.stage \in {"evaluating", "reflecting", "finishing"} /\ c.state # "COMPLETED" =>
                  c.failed # {}

(* As long as no request has crashed, the counter is 0 whenever evaluate   *)
(* is called: execute_plan resets it before every new round.  The limit is *)
(* never reached, and a plan of low confidence never gets an answer.       *)
LimitNeverReached ==
    (\A r \in Requests : ended[r] # "crashed") /\ MaxRounds > 0 =>
        /\ turn = Nobody => reflectionCount = 0
        /\ turn \in Requests =>
              /\ Top(turn).stage = "evaluating" => reflectionCount = 0
              /\ Top(turn).stage = "finishing" => Top(turn).plan.confident

-----------------------------------------------------------------------------
(* "max_reflection_rounds: Maximum reflection iterations to prevent loops" *)
(* (reflection_engine.py:32): a response is the outcome of at most so many *)
(* rounds of reflection inside one another.                                *)
RoundsBounded ==
    \A r \in Requests :
        Cardinality({i \in DOMAIN stack[r] : stack[r][i].stage = "reflecting"}) <= MaxRounds
=============================================================================
