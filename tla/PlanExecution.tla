---------------------------- MODULE PlanExecution ----------------------------
(***************************************************************************)
(* Concurrent executions of plans by the one ExecutionScheduler of a       *)
(* BrainRuntime (services/brain-os).  The gateway holds a single runtime,  *)
(* so all requests share its RetryManager (attempt counts by step id) and  *)
(* its ParallelExecutor (one semaphore); each call of execute_plan has its *)
(* own ExecutionStateManager.                                              *)
(*                                                                         *)
(* One coroutine runs per execution, and one task per step of a wave of    *)
(* two steps or more.  An action is what runs between two points where a   *)
(* coroutine really suspends: the semaphore, the handler under wait_for,   *)
(* the backoff sleep, gather.  The state manager's lock is no such point:  *)
(* its holder never awaits, so it is always free when it is requested.     *)
(***************************************************************************)
EXTENDS Sequences, PlanGraph

CONSTANTS
    Execs,           \* the calls of execute_plan
    StepIds,         \* step ids; plans of different requests share them
    Plans,           \* the plans a request may bring
    MaxRetries,      \* RetryConfig.max_retries
    MaxConcurrency   \* the semaphore of the ParallelExecutor

ASSUME ExecsFinite           == IsFiniteSet(Execs)
ASSUME StepIdsFinite         == IsFiniteSet(StepIds)
ASSUME PlansAssumption       == Plans \subseteq PlansOver(StepIds)
ASSUME MaxRetriesAssumption  == MaxRetries \in Nat
ASSUME ConcurrencyAssumption == MaxConcurrency \in Nat \ {0}

VARIABLES
    plan,        \* the plan of each execution
    phase,       \* where the coroutine of execute_plan stands
    placed,      \* the steps of the waves it has started
    wave,        \* the wave it awaits
    stepState,   \* StepResult.state, by execution and step
    retryCount,  \* StepResult.retry_count
    task,        \* where the coroutine that runs a step stands
    attempts,    \* RetryState.attempt_count, by step id, for all executions
    permits,     \* value of the semaphore
    waiters      \* its FIFO of waiting tasks, those it has granted left out

execVars == <<plan, phase, placed, wave>>
stepVars == <<stepState, retryCount, task>>
semVars  == <<permits, waiters>>
vars     == <<execVars, stepVars, attempts, semVars>>

Phases == {"idle", "ready", "running", "completed", "recovering"}

StepStates ==
    {"PENDING", "RUNNING", "RETRYING", "COMPLETED", "FAILED", "CANCELLED"}

(* "spawned": created by gather, not yet run; "queued": in the semaphore's *)
(* FIFO; "granted": woken with a permit, not yet run.                      *)
TaskStates == {"none", "spawned", "queued", "granted", "executing",
               "backoff", "returned"}

Settled(e, s) == stepState[e][s] \in {"COMPLETED", "FAILED", "CANCELLED"}
Failed(e)     == {s \in StepIds : stepState[e][s] = "FAILED"}
Completed(e)  == {s \in StepIds : stepState[e][s] = "COMPLETED"}

(* A wave of one step goes to the SequentialExecutor, which runs it in the *)
(* coroutine of the execution and takes no permit.                         *)
Parallel(e) == Cardinality(wave[e]) # 1

Init ==
    /\ plan \in [Execs -> Plans]
    /\ phase = [e \in Execs |-> "idle"]
    /\ placed = [e \in Execs |-> {}]
    /\ wave = [e \in Execs |-> {}]
    /\ stepState = [e \in Execs |-> [s \in StepIds |-> "PENDING"]]
    /\ retryCount = [e \in Execs |-> [s \in StepIds |-> 0]]
    /\ task = [e \in Execs |-> [s \in StepIds |-> "none"]]
    /\ attempts = [s \in StepIds |-> 0]
    /\ permits = MaxConcurrency
    /\ waiters = <<>>

-----------------------------------------------------------------------------
(* The coroutine of an execution. *)

(* execute_plan is called: a state manager with every step PENDING. *)
Start(e) ==
    /\ phase[e] = "idle"
    /\ phase' = [phase EXCEPT ![e] = "ready"]
    /\ UNCHANGED <<plan, placed, wave, stepVars, attempts, semVars>>

(* The only step of a wave starts in the coroutine itself. *)
StartSequential(e) ==
    LET W == NextWave(plan[e], placed[e])
    IN  /\ phase[e] = "ready"
        /\ Cardinality(W) = 1
        /\ phase' = [phase EXCEPT ![e] = "running"]
        /\ placed' = [placed EXCEPT ![e] = @ \cup W]
        /\ wave' = [wave EXCEPT ![e] = W]
        /\ stepState' = [stepState EXCEPT ![e] =
                            [s \in StepIds |-> IF s \in W THEN "RUNNING" ELSE @[s]]]
        /\ task' = [task EXCEPT ![e] =
                            [s \in StepIds |-> IF s \in W THEN "executing" ELSE @[s]]]
        /\ UNCHANGED <<plan, retryCount, attempts, semVars>>

(* gather creates one task per step of the wave. *)
StartParallel(e) ==
    LET W == NextWave(plan[e], placed[e])
    IN  /\ phase[e] = "ready"
        /\ Cardinality(W) > 1
        /\ phase' = [phase EXCEPT ![e] = "running"]
        /\ placed' = [placed EXCEPT ![e] = @ \cup W]
        /\ wave' = [wave EXCEPT ![e] = W]
        /\ task' = [task EXCEPT ![e] =
                            [s \in StepIds |-> IF s \in W THEN "spawned" ELSE @[s]]]
        /\ UNCHANGED <<plan, stepState, retryCount, attempts, semVars>>

WaveReturned(e) ==
    /\ phase[e] = "running"
    /\ \A s \in wave[e] : task[e][s] = "returned"

(* Variant: failures are not looked at. *)
JoinAnyWave(e) ==
    /\ WaveReturned(e)
    /\ phase' = [phase EXCEPT ![e] = "ready"]
    /\ wave' = [wave EXCEPT ![e] = {}]
    /\ UNCHANGED <<plan, placed, stepVars, attempts, semVars>>

(* A wave without a failure: on to the next one. *)
JoinWave(e) ==
    /\ WaveReturned(e)
    /\ wave[e] \cap Failed(e) = {}
    /\ phase' = [phase EXCEPT ![e] = "ready"]
    /\ wave' = [wave EXCEPT ![e] = {}]
    /\ UNCHANGED <<plan, placed, stepVars, attempts, semVars>>

(* The steps to cancel after a failure: those of the remaining waves.  The *)
(* variants cancel nothing, and whatever is still PENDING.                 *)
RemainingNone(e)    == {}
RemainingPending(e) == plan[e].steps \ placed[e]
Remaining(e)        == Schedulable(plan[e]) \ placed[e]

(* A wave with a failure: the steps of the remaining waves are cancelled   *)
(* (steps that are in no wave are not), and the runtime takes over with    *)
(* _handle_failure.                                                        *)
AbortPlan(e) ==
    /\ WaveReturned(e)
    /\ wave[e] \cap Failed(e) # {}
    /\ phase' = [phase EXCEPT ![e] = "recovering"]
    /\ wave' = [wave EXCEPT ![e] = {}]
    /\ stepState' = [stepState EXCEPT ![e] =
            [s \in StepIds |-> IF s \in Remaining(e) THEN "CANCELLED" ELSE @[s]]]
    /\ UNCHANGED <<plan, placed, retryCount, task, attempts, semVars>>

(* No wave is left and none had a failure: complete_execution(). *)
Complete(e) ==
    /\ phase[e] = "ready"
    /\ NextWave(plan[e], placed[e]) = {}
    /\ phase' = [phase EXCEPT ![e] = "completed"]
    /\ UNCHANGED <<plan, placed, wave, stepVars, attempts, semVars>>

-----------------------------------------------------------------------------
(* The coroutine of a step. *)

SetTask(e, s, where)  == task' = [task EXCEPT ![e][s] = where]
SetState(e, s, state) == stepState' = [stepState EXCEPT ![e][s] = state]

(* asyncio's semaphore keeps the future of a waiter among its waiters      *)
(* until the task has resumed, its permit granted long before.  So nobody  *)
(* overtakes a granted task: while there is one, locked() is true and      *)
(* whoever comes queues, even if a permit is free.                         *)
Granted == {x \in Execs \X StepIds : task[x[1]][x[2]] = "granted"}
Locked  == permits = 0 \/ Granted # {} \/ waiters # <<>>

(* With the permit: mark_step_running, then the handler. *)
Execute(e, s) ==
    /\ SetState(e, s, "RUNNING")
    /\ SetTask(e, s, "executing")

(* Variant: the value of the semaphore is not looked at. *)
AcquireAnyPermit(e, s) ==
    /\ task[e][s] = "spawned"
    /\ Granted = {} /\ waiters = <<>>
    /\ permits' = permits - 1
    /\ Execute(e, s)
    /\ UNCHANGED <<execVars, retryCount, attempts, waiters>>

(* `async with semaphore`: a free permit is taken at once, unless others   *)
(* wait already.                                                           *)
AcquirePermit(e, s) ==
    /\ task[e][s] = "spawned"
    /\ ~Locked
    /\ permits' = permits - 1
    /\ Execute(e, s)
    /\ UNCHANGED <<execVars, retryCount, attempts, waiters>>

AwaitPermit(e, s) ==
    /\ task[e][s] = "spawned"
    /\ Locked
    /\ waiters' = Append(waiters, <<e, s>>)
    /\ SetTask(e, s, "queued")
    /\ UNCHANGED <<execVars, stepState, retryCount, attempts, permits>>

(* Variant: whoever has queued meanwhile is left waiting. *)
ResumeWakesNobody(e, s) ==
    /\ task[e][s] = "granted"
    /\ Execute(e, s)
    /\ UNCHANGED <<execVars, retryCount, attempts, semVars>>

(* How many waiters a resuming task wakes: as many as there are permits    *)
(* for; some releases of CPython wake one and leave the rest to it.        *)
Wakes == {n \in 0..Len(waiters) : n <= permits /\ (n = 0 => permits = 0 \/ waiters = <<>>)}

(* A granted task runs on with the permit its waker left it.  Tasks that   *)
(* queued behind it although a permit was free are woken now.              *)
ResumeWithPermit(e, s) ==
    /\ task[e][s] = "granted"
    /\ \E n \in Wakes :
          LET woken == {waiters[i] : i \in 1..n}
          IN  /\ task' = [f \in Execs |-> [t \in StepIds |->
                            IF <<f, t>> = <<e, s>> THEN "executing"
                            ELSE IF <<f, t>> \in woken THEN "granted" ELSE task[f][t]]]
              /\ waiters' = SubSeq(waiters, n + 1, Len(waiters))
              /\ permits' = permits - n
    /\ SetState(e, s, "RUNNING")
    /\ UNCHANGED <<execVars, retryCount, attempts>>

(* Variant: nobody is woken. *)
ReturnWakesNobody(e, s) ==
    /\ SetTask(e, s, "returned")
    /\ permits' = IF Parallel(e) THEN permits + 1 ELSE permits
    /\ UNCHANGED waiters

(* The coroutine of a step returns.  A parallel one gives its permit back, *)
(* straight to the first waiter that has none yet.                         *)
Return(e, s) ==
    IF Parallel(e) /\ waiters # <<>>
    THEN LET next == Head(waiters)
         IN  /\ task' = [task EXCEPT ![e][s] = "returned",
                                     ![next[1]][next[2]] = "granted"]
             /\ waiters' = Tail(waiters)
             /\ UNCHANGED permits
    ELSE /\ SetTask(e, s, "returned")
         /\ permits' = IF Parallel(e) THEN permits + 1 ELSE permits
         /\ UNCHANGED waiters

HandlerSucceeds(e, s) ==
    /\ task[e][s] = "executing"
    /\ SetState(e, s, "COMPLETED")
    /\ Return(e, s)
    /\ UNCHANGED <<execVars, retryCount, attempts>>

(* should_retry: the count is the step id's, whichever execution fails. *)
ShouldRetryOnceMore(e, s) == s \in plan[e].retryable /\ attempts[s] <= MaxRetries
ShouldRetry(e, s)         == s \in plan[e].retryable /\ attempts[s] < MaxRetries

RecordAttempt(s) == attempts' = [attempts EXCEPT ![s] = @ + 1]

(* A timeout or an exception, and a retry is left: backoff, permit in hand. *)
RetryAfterFailure(e, s) ==
    /\ task[e][s] = "executing"
    /\ ShouldRetry(e, s)
    /\ RecordAttempt(s)
    /\ SetState(e, s, "RETRYING")
    /\ retryCount' = [retryCount EXCEPT ![e][s] = @ + 1]
    /\ SetTask(e, s, "backoff")
    /\ UNCHANGED <<execVars, semVars>>

(* A timeout or an exception, and no retry is left. *)
FailForGood(e, s) ==
    /\ task[e][s] = "executing"
    /\ ~ShouldRetry(e, s)
    /\ RecordAttempt(s)
    /\ SetState(e, s, "FAILED")
    /\ Return(e, s)
    /\ UNCHANGED <<execVars, retryCount>>

(* The sleep is over: the handler again; the state remains RETRYING. *)
BackoffOver(e, s) ==
    /\ task[e][s] = "backoff"
    /\ SetTask(e, s, "executing")
    /\ UNCHANGED <<execVars, stepState, retryCount, attempts, semVars>>

-----------------------------------------------------------------------------
Coroutine(e) ==
    StartSequential(e) \/ StartParallel(e) \/ JoinWave(e) \/ AbortPlan(e) \/ Complete(e)

Handler(e, s) ==
    HandlerSucceeds(e, s) \/ RetryAfterFailure(e, s) \/ FailForGood(e, s)

StepTask(e, s) ==
    \/ AcquirePermit(e, s) \/ AwaitPermit(e, s) \/ ResumeWithPermit(e, s)
    \/ Handler(e, s) \/ BackoffOver(e, s)

Over(e) == phase[e] \in {"completed", "recovering"}

(* All requests are served: nothing is left to do. *)
Served == (\A e \in Execs : Over(e)) /\ UNCHANGED vars

Next ==
    \/ \E e \in Execs : Start(e) \/ Coroutine(e)
    \/ \E e \in Execs, s \in StepIds : StepTask(e, s)
    \/ Served

(* The event loop runs every ready coroutine, sleeps end, and wait_for     *)
(* bounds every handler.  Nothing obliges a request to arrive.             *)
Fairness ==
    /\ \A e \in Execs : WF_vars(Coroutine(e))
    /\ \A e \in Execs, s \in StepIds : WF_vars(StepTask(e, s))

Spec == Init /\ [][Next]_vars
FairSpec == Spec /\ Fairness

-----------------------------------------------------------------------------
TypeOK ==
    /\ plan \in [Execs -> Plans]
    /\ phase \in [Execs -> Phases]
    /\ placed \in [Execs -> SUBSET StepIds]
    /\ wave \in [Execs -> SUBSET StepIds]
    /\ stepState \in [Execs -> [StepIds -> StepStates]]
    /\ retryCount \in [Execs -> [StepIds -> Nat]]
    /\ task \in [Execs -> [StepIds -> TaskStates]]
    /\ attempts \in [StepIds -> Nat]
    /\ permits \in Nat
    /\ waiters \in Seq(Execs \X StepIds)

(* "depends_on: List of step_ids that must complete before this step"      *)
(* (execution_plan.py:34): whatever the waves, the retries and the other   *)
(* executions, a step has only ever begun after all the dependencies that  *)
(* its plan contains COMPLETED.                                            *)
DependencyOrder ==
    \A e \in Execs, s \in StepIds :
        stepState[e][s] \in {"RUNNING", "RETRYING", "COMPLETED", "FAILED"} =>
            \A d \in InPlanDeps(plan[e], s) : stepState[e][d] = "COMPLETED"

(* The tasks that have one of the permits. *)
Holders == {x \in Execs \X StepIds :
              /\ Parallel(x[1])
              /\ task[x[1]][x[2]] \in {"granted", "executing", "backoff"}}

Queued == {x \in Execs \X StepIds : task[x[1]][x[2]] = "queued"}

(* The semaphore that all requests share neither leaks nor mints a permit, *)
(* and loses no wakeup: exactly the queued tasks are in its FIFO, once     *)
(* each, and whoever waits while a permit is free waits behind a task that *)
(* has been granted one and wakes others when it resumes.                  *)
PermitAccounting ==
    /\ permits + Cardinality(Holders) = MaxConcurrency
    /\ {waiters[i] : i \in DOMAIN waiters} = Queued
    /\ Len(waiters) = Cardinality(Queued)
    /\ waiters # <<>> /\ permits > 0 => Granted # {}

(* RetryManager counts an attempt for every retry and one more when a step *)
(* gives up.  Since the counts are by step id and never reset, max_retries *)
(* bounds the retries of all the executions together.                      *)
Retries(s) == UNION {{e} \X (1..retryCount[e][s]) : e \in Execs}
GaveUp(s)  == {e \in Execs : s \in Failed(e)}

RetryAccounting ==
    \A s \in StepIds :
        /\ attempts[s] = Cardinality(Retries(s)) + Cardinality(GaveUp(s))
        /\ Cardinality(Retries(s)) <= MaxRetries

(* When the scheduler returns, none of the steps is left half done: after  *)
(* a failure every step of a wave is settled, and the cancelled ones never *)
(* began; without one, every step of a wave is COMPLETED.  Only the steps  *)
(* that are in no wave, those on a dependency cycle or behind one, are     *)
(* still PENDING, and the execution may be COMPLETED all the same.  So what*)
(* completed and what failed is one of the Results of the plan.            *)
Outcome ==
    \A e \in Execs : Over(e) =>
        /\ \A s \in Schedulable(plan[e]) :
              IF phase[e] = "completed" THEN stepState[e][s] = "COMPLETED"
              ELSE Settled(e, s)
        /\ \A s \in Blocked(plan[e]) : stepState[e][s] = "PENDING"
        /\ phase[e] = "recovering" <=> Failed(e) # {}
        /\ \A s \in StepIds :
              /\ task[e][s] \in {"none", "returned"}
              /\ stepState[e][s] = "CANCELLED" => task[e][s] = "none"
        /\ [ok |-> Completed(e), failed |-> Failed(e)] \in Results(plan[e])

(* Every request that arrives is served: no plan, no schedule of the other *)
(* requests and no pattern of failures keeps execute_plan from returning.  *)
EveryRequestServed == \A e \in Execs : phase[e] = "ready" ~> Over(e)

-----------------------------------------------------------------------------
(* The inductive invariant behind DependencyOrder. *)

(* What the state of a step says of its task, and back. *)
TaskMatchesState(e, s) ==
    /\ task[e][s] = "none" => stepState[e][s] \in {"PENDING", "CANCELLED"}
    /\ task[e][s] \in {"spawned", "queued", "granted"} => stepState[e][s] = "PENDING"
    /\ task[e][s] \in {"executing", "backoff"} => stepState[e][s] \in {"RUNNING", "RETRYING"}
    /\ task[e][s] = "returned" => stepState[e][s] \in {"COMPLETED", "FAILED"}

(* Waves: only the current one has tasks in flight, all the earlier ones   *)
(* COMPLETED, and what was placed had its dependencies COMPLETED.  Until   *)
(* the plan is aborted nothing is cancelled.                               *)
WavesInOrder(e) ==
    /\ wave[e] \subseteq placed[e]
    /\ phase[e] # "running" => wave[e] = {}
    /\ phase[e] # "recovering" =>
          /\ \A s \in placed[e] \ wave[e] : stepState[e][s] = "COMPLETED"
          /\ \A s \in StepIds : stepState[e][s] # "CANCELLED"
    /\ \A s \in placed[e] : \A d \in InPlanDeps(plan[e], s) : stepState[e][d] = "COMPLETED"
    /\ \A s \in StepIds :
          /\ task[e][s] # "none" => s \in placed[e]
          /\ task[e][s] \notin {"none", "returned"} => s \in wave[e]

WaitersAreQueued ==
    /\ \A i \in 1..Len(waiters) : task[waiters[i][1]][waiters[i][2]] = "queued"
    /\ \A i, j \in 1..Len(waiters) : waiters[i] = waiters[j] => i = j

IInv ==
    /\ TypeOK
    /\ \A e \in Execs : WavesInOrder(e) /\ \A s \in StepIds : TaskMatchesState(e, s)
    /\ WaitersAreQueued

(* The inductive invariant behind PermitAccounting: only tasks of a wave   *)
(* that is executed in parallel ask for a permit.                          *)
OnlyParallelWaits ==
    \A e \in Execs, s \in StepIds :
        task[e][s] \in {"spawned", "queued", "granted"} => Parallel(e)

PermitIInv == IInv /\ OnlyParallelWaits /\ PermitAccounting

(* The inductive invariant behind RetryAccounting. *)
RetryIInv == IInv /\ RetryAccounting /\ \A s \in StepIds : IsFiniteSet(Retries(s))

(* The inductive invariant behind Outcome and KeepsPromise.  The waves     *)
(* placed are the first ones of the plan; failures are in the last only.   *)
WavesSoFar(e) ==
    \E k \in 0..Cardinality(plan[e].steps) :
        LET before == UpTo(plan[e])[k]
            last   == NextWave(plan[e], before)
        IN  /\ k <= Cardinality(before)
            /\ IF phase[e] \in {"running", "recovering"}
               THEN /\ last # {} /\ placed[e] = before \cup last
                    /\ Failed(e) \subseteq last
                    /\ phase[e] = "running" => wave[e] = last
               ELSE placed[e] = before /\ Failed(e) = {}

(* A placed step has a task; what is over is settled. *)
SettledWhenOver(e) ==
    /\ \A s \in placed[e] : task[e][s] # "none"
    /\ \A s \in StepIds : stepState[e][s] = "CANCELLED" => s \in Schedulable(plan[e])
    /\ phase[e] = "completed" => NextWave(plan[e], placed[e]) = {}
    /\ phase[e] = "recovering" =>
          /\ Failed(e) # {}
          /\ \A s \in Schedulable(plan[e]) : stepState[e][s] # "PENDING"

OutcomeIInv == IInv /\ \A e \in Execs : WavesSoFar(e) /\ SettledWhenOver(e)

-----------------------------------------------------------------------------
(* The promise of the scheduler, kept by every execution at once: a step   *)
(* is active from the moment its wave starts to the moment its coroutine   *)
(* returns, retries and waits for a permit included.                       *)
StatusOf(where, state) ==
    IF where \notin {"none", "returned"} THEN "active"
    ELSE CASE state = "COMPLETED" -> "ok"
           [] state = "FAILED"    -> "failed"
           [] state = "CANCELLED" -> "dropped"
           [] OTHER               -> "waiting"

opened == {e \in Execs : phase[e] # "idle"}
status == [e \in Execs |-> [s \in StepIds |-> StatusOf(task[e][s], stepState[e][s])]]

Promise == INSTANCE PlanPromise WITH open <- opened

(* PlanExecution implements PlanPromise, its liveness included: what the   *)
(* other requests do to the shared semaphore and to the shared attempt     *)
(* counts can delay a step or cost it retries, and nothing else.           *)
KeepsPromise == Promise!Spec

-----------------------------------------------------------------------------
(* What the repository says and the code does not do.                      *)

(* "Stops if a wave fails with non-retryable errors"                       *)
(* (execution_scheduler.py:51), "max_retries: Maximum number of retry      *)
(* attempts per step" (retry_manager.py:24): a step that may be retried    *)
(* fails for good only when its own retries are used up.                   *)
OwnRetriesUsedUp ==
    \A e \in Execs : \A s \in Failed(e) \cap plan[e].retryable :
        retryCount[e][s] = MaxRetries
=============================================================================
