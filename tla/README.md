# SONA AI OS: TLA+ models and proofs

A verification project for the concurrent core of SONA AI OS. It models the
parts of the repository that schedule work, share it out and recover from
failures: the plan scheduler and its recovery (`services/brain-os`, with the plan
objects of `services/thalamus-router`), provider failover (`services/ai-kernel`),
tool calls (`services/mcp-integration`), the agents' workforce
(`services/workforce-os`) and the workflow engine of the older monolith
(`backend/runtime`). TLC checks the models on small instances; TLAPS proves the
central invariants for all instances.

## The system

SONA is a Python monorepo: an older monolith (`backend/`), a set of services
(`services/`), libraries (`libs/`), an HTTP gateway (`gateway/`) and clients
(`apps/`, `frontend/`). A chat request enters the gateway, which holds one
`BrainRuntime` for all requests. `BrainRuntime.execute` builds a plan (steps
with dependencies), the scheduler executes it in waves, failed plans are
recovered by replanning, and a reflection loop may have the answer made again.

| Component | State | Operations | Hard behaviour |
|---|---|---|---|
| Wave computation (`execution_scheduler.py`, `_compute_waves`) | in-degrees, current wave, next ids | one Kahn level per turn | cycles, foreign dependencies, levels |
| Plan execution (`execution_scheduler.py`, `parallel_executor.py`, `sequential_executor.py`, `retry_manager.py`, `state_manager.py`, `step_executor.py`) | step states, attempt counts, semaphore | wave start and join, step tasks, retry, backoff, cancellation of later waves | requests share semaphore and attempt counts; partial failure; timeouts |
| Recovery and reflection (`brain_runtime.py`, `failure_recovery.py`, `dynamic_replanner.py`, `reflection_engine.py`, `result_aggregator.py`, `metrics.py`) | nested calls, reflection counter, metrics, sessions, events | classify, replan, reflect, report | recursion without a bound of its own; a counter all requests share |
| THALAMUS router (`services/thalamus-router`) | provider and model tables | classify, score, build a plan | its plan is discarded by the gateway's call of `execute` |
| AI kernel failover (`failover.py`, `circuit_breaker.py`, `provider_priority.py`) | a breaker per provider, where each request stands on its list | try the next provider, record, stream, reset | answers that arrive after the breaker has changed; several requests on trial at once |
| AI kernel queue and limits (`request_queue.py`, `rate_limiter.py`) | priority queue, permits, windows | enqueue, dequeue | permits of cancelled consumers |
| MCP tool calls (`mcp_runtime.py`, `tool_invocation.py`, `circuit_breaker.py`, `security_manager.py`, `tool_registry.py`, `tool_discovery.py`) | registry, a breaker per tool, a call window per user | call a tool, rediscover a server's tools | limit checked before an await and counted after it; rediscoveries that overlap |
| MCP connections (`connection_manager.py`, sessions, resources) | connection states | connect, disconnect, reconnect | interleavings across transport awaits |
| Workforce OS (`services/workforce-os`) | agents' states and loads, table of running tasks, queue | dispatch, parallel dispatch, delegate | an await between choosing an agent and using it; timeouts at every await of a task; retries |
| Runtime engine (`backend/runtime`) | workflow and task states, worker pool, queue | submit, execute, pause, resume, cancel | API calls while a layer is gathered; a pool that two workflows share |
| Workers (`backend/workers`) | job heap, job states, threads | enqueue, schedule, cancel, run | cancelled jobs in the heap, retries |
| Memory, knowledge, research, workflow-engine, plugin, security, observability and evaluation services; libraries; the rest of the monolith; clients | stores, registries | storage, retrieval, policies, UI | see "Not modelled" |

What makes the modelled components correct: a step begins only after its
dependencies; every step of a plan is settled when the scheduler returns; the
shared semaphore loses no permit and no wakeup; retries are bounded; recovery
keeps what the plan asked for; every execution is reported once; a breaker's
counters fit its state and an open one waits for its timeout; no request is given
up while a provider on its list works; rate limits overshoot by no more than the
concurrency; rediscovery loses no tool; the load of an agent is the number of
its tasks; the worker pool leaks nothing; every request ends. `PROJECT.json` lists the hazards of the code line by line, with the
properties that cover each.

## Modules

| Module | Models |
|---|---|
| `PlanGraph` | a plan as a dependency graph: next wave, steps that a cycle blocks, what an execution may leave behind (`Results`) |
| `WaveComputation` | the loop of `_compute_waves`, one action per relaxed step and per level |
| `PlanExecution` | concurrent `ExecutionScheduler.execute_plan` calls: one coroutine per execution, one task per step of a wave |
| `PlanPromise` | abstract: what the scheduler promises, without executors, retries or semaphore |
| `BrainRecovery` | `BrainRuntime.execute_plan` around the scheduler, as a stack of nested calls |
| `Failover` | concurrent requests and streams through one `FailoverEngine` and its breakers |
| `ToolCalls` | concurrent `call_tool` through one `MCPRuntime`, with rediscoveries of the tools |
| `Workforce` | `dispatch`, `dispatch_parallel` and `delegate` over shared agents |
| `WorkflowRuntime` | `RuntimeEngine` with the DAG executor and one worker pool |
| `MCWaveComputation`, `MCPlanExecution`, `MCBrainRecovery`, `MCFailover`, `MCToolCalls`, `MCWorkforce`, `MCWorkflowRuntime` | instances for TLC |
| `WaveProofs`, `ExecProofs`, `PermitProofs`, `RecoveryProofs`, `FailoverProofs`, `ToolProofs`, `WorkforceProofs`, `RuntimeProofs` | theorems |

The Brain OS modules build on each other. `WaveComputation` shows that each wave is
`PlanGraph!NextWave`; `PlanExecution` schedules with `NextWave`, and its
`Outcome` says that what the scheduler returns is one of `PlanGraph!Results`;
`BrainRecovery` takes the results of the scheduler from that same set, and its
reason to expect that the scheduler returns from `EveryRequestServed`. `PlanExecution` implements `PlanPromise` under a
refinement mapping (`Promise`): `KeepsPromise` is checked by TLC, its safety part
(`Promise!Safe`: the abstract `Init` and `Next`, without the fairness) is proved. The other four stand
alone, as their subjects do: no package outside `ai-kernel`, `mcp-integration` and
`workforce-os` imports one of them, and the monolith's workflow engine knows none.

Definitions named as variants (for example `JoinAnyWave` next to `JoinWave`)
are deliberately wrong forms. No specification uses them; they show that the
properties would notice such a defect.

### Correspondence with the code

*Waves.* `inDegree`, `wave`, `nextIds`, `waves` are the locals `in_degree`,
`current_wave`, `next_wave_ids`, `waves`. The sort inside a wave only orders
the inner loop; the model relaxes in any order. A dependency that is listed
twice is counted and relaxed twice by the code; sets give the same waves.

*Plan execution.* A coroutine can be interrupted only where it suspends: in the
semaphore, in the handler under `wait_for`, in the backoff sleep, in `gather`.
The lock of the state manager is no such place: all its holders run to the
release without an await, so it is free whenever it is requested, and acquiring
a free `asyncio.Lock` does not suspend. Everything between two suspensions is one
action. `StartSequential` is a wave of one step, run by the
SequentialExecutor in the coroutine of the execution, without a permit;
`StartParallel` a wave of several, one task each. Handlers that do not suspend
at all (conditional and group steps) have fewer interleavings than the model
gives them. `JoinWave` and the next `StartSequential`/`StartParallel` are one run
in the code; no other coroutine reads what lies between.

The semaphore is asyncio's since Python 3.12, modelled from its source as external code. It is FIFO. A
release grants its permit to the first waiter without one (`Return`), but that
waiter stays in the semaphore's list until its task runs again, so that
`locked()` is true until then (`Granted`, `Locked`): a task that arrives meanwhile
queues although a further release may have left a permit free
(`AwaitPermit`). Only the granted task, when it resumes, wakes those (`ResumeWithPermit`): the
first of them in the first releases of 3.12, as many as there are
permits since (`Wakes` allows all numbers in between). `waiters` holds
the tasks without a grant; those with one are "granted" in `task`.

`attempts` is `RetryManager._retry_states`, by step id for all requests;
nothing in the repository's code path resets it.

*Recovery.* `stack[r]` holds the open calls of `execute_plan` of a request,
`stage` where each one stands. Between two suspensions a request has the
`turn`. Errors are reduced to the four kinds that `classify_failure` tells
apart, a response to its content being fine, short (under
`min_content_length`) or blank, a plan's confidence to whether it reaches the
threshold. `RETRIES_EXHAUSTED` cannot occur: the results that the executors
return are built without a `retry_count`. With the code's three fallback models
`replan` finds a plan whenever a step failed, and `_simplify_plan` never runs:
there is always a model other than the current one. Two different models in
the list are enough for that, which is `FallbackAssumption`; the model keeps
`_simplify_plan` as the code has it. A raised temperature
changes nothing else, so such a plan is the same plan.

*Failover.* `awaiting[r]` is the place in `_get_providers` that the loop of
`execute` has come to; providers that the registry does not know or whose breaker
refuses are passed in the same action, since nothing suspends. `execute` suspends
in the provider's `complete` only; `execute_stream` does not suspend at all,
because it returns the iterator unread. A provider whose `stream` raises is recorded
as failed and the next one is tried, all in one action (`StreamsRaised`,
`PastStreams`, `OpenStream`); one that returns an iterator is credited with a success, and
the stream is `opened`: whether it works nobody knows then. `Reliable` are the
providers whose `complete` and `stream` do not raise. The recovery timeout is
the flag `elapsed` of a breaker (`RecoveryElapses` may set it at any time after
the breaker opened), and `failures` stops at `FailureThreshold`, above which the
code's count makes no difference. A request whose task is cancelled
leaves its breaker untouched (`Abandon`). `onTrial`, who was admitted by a
HALF_OPEN breaker, is a history variable: the code keeps no such record, which is
what the run `half_open` is about.

*Tool calls.* From the check of the breaker to the start of the handler, and from
its end to the record of the call, nothing suspends; so a call is `BeginCall` or
`TurnAway`, then `Succeed` or `Fail`. A call that the breaker refuses changes
nothing and is not an action. `calls[u]` is the length of the user's window;
`Expire` drops its oldest entry at any time. `discover_tools` unregisters all
the tools it finds listed and registers the server's, with an await for the log
after each: `drops` and `adds` are what it has still to do.

*Workforce.* A `where` per task and a `phase` per request say at which await
the coroutine stands. An await of an asynchronous log is a suspension, because it
hands the record to a thread; there is one between the choice of an agent and its
use, so that several requests can choose the last free place of an agent, and
others inside `process`, where a timeout can strike too. Selection by
state, load, priority and registration order is `Selected`; that of a
delegation, by type or role by role, is `Delegate`. `left` is the loop counter of
`AgentRuntime.execute`. An attempt fails in two ways: `_execute` raises, and the agent is in
ERROR, or it returns a result that says "error" (`Reporting`; no built-in agent
does), and the agent stays IDLE; both are retried. A caller that cancels its
dispatch from outside is left out.

*Workflow runtime.* The executor suspends only in the `gather` of a layer, so
everything from one gather to the next (release, the layers nobody is given a
worker for, the verdict) is one action. The tasks are simulated by the code
(`sleep(0)`), and none fails. Dependencies are lists, because a
dependency listed twice raises the in-degree twice and is relaxed once: such a
task is in no layer (`Blocked`). Pause, resume and cancel write a state that
the executor never reads; the model keeps them as the calls they are. A workflow
is submitted once at most, and not executed twice at the same time.

## Runs

| Run | Question | Instance |
|---|---|---|
| `waves` | Are the waves right on every graph, and does the loop end? | all graphs over 3 ids (self-loops and cycles included), as a plan of 3 or of 2 of them (foreign dependencies); all DAGs of a fixed order over 4; a cycle with a step behind it |
| `plan_execution` | Can concurrent executions disturb each other? Does each keep the scheduler's promise? | 2 executions, 4 shared step ids, 2 permits, 1 retry; a diamond, three parallel steps (more than permits), a plan with a self-cycle and a foreign dependency |
| `retries_shared` (violation) | Does a step get the retries the documentation gives it? | same |
| `recovery` | Does a request survive its nested calls? What does the shared reflection counter do? | 2 requests, 3 nested calls, 3 plans: one of low confidence, an LLM step behind a tool step, an LLM step beside one |
| `reflection_rounds` (violation) | Do `max_reflection_rounds` bound the rounds? | 1 request, 4 nested calls, 5 plans |
| `failover` | Do late answers confuse the breakers? Is a request given up while a provider works? | two requests (one with a preference) and a stream; a primary and a secondary with breakers, a provider the registry does not know, a reliable fallback without a breaker; both thresholds 2 |
| `half_open` (violation) | Does `half_open_max_calls` bound the calls on trial? | same, one call allowed |
| `tool_calls` | What do concurrent calls do to rate limit, breaker and registry? | 3 callers of 2 users (one with arguments that may not fit), 2 tools with different permissions, a limit of 1 call, 2 rediscoveries |
| `workforce` | Do loads, table and agent states stay right? Is every dispatch answered? | 2 agents with 1 and 2 places, the first of which also reports errors as results; a dispatch, a batch of 2 and a delegation, which falls back to the order of roles; 1 retry |
| `workflow_runtime` | Does the pool leak? Are the layers serial? Which tasks are left out? Does an execution end? | a fork and join with a repeated dependency, a chain with a foreign one; 2 workers |
| `dag_order` (violation) | Does a task run after the tasks it depends on? | same |
| `completion` (violation) | Has a COMPLETED workflow run all its tasks? | same |

The bounds make the interesting cases happen. Two executions with two
permits let a task queue behind the other request's tasks, let a failing one
hold a permit through its backoff, and let one exhaust the other's attempts.
One retry distinguishes "retried" from "given up". In `recovery` three
nested calls allow replanning inside reflection and the reverse, and the stack's end at
every stage, while the other request evaluates and resets the shared counter. `RecursionLimit` stands for the
interpreter's recursion limit, which in CPython leaves room for some hundreds of calls;
nothing in the properties depends on its value. Thresholds of 2 separate "one
failure more" from "open"; three concurrent requests let an answer come back
after two others have opened the breaker and the timeout has run out. Two callers
of one user are the fewest that pass a rate limit together, two rediscoveries
the fewest that take tools from under each other. In `workforce`, the batch and
the dispatch want the same agent, which has one place, and the delegation enters
the other without regard to its load. In `workflow_runtime` the fork alone fills
the pool, so that the other workflow is turned away. Step ids and requests are
treated alike by the models; no symmetry is used, since most runs check liveness.
`waves` turns the deadlock check off: the loop ends. In the
other models the final state has an explicit stuttering step (`Served`, `AllEnded`).

*Fairness.* Weak fairness of each coroutine and each step task: the event loop
runs what is ready, sleeps end, and `wait_for` bounds every handler. No
fairness makes a request arrive or a handler succeed. Liveness of requests under shared
permits rests on the FIFO of the semaphore and on its wakeups, which are modelled, not
assumed. `BrainRecovery` states no liveness and no fairness: in the model a request
ends because the recursion limit bounds its stack.
In `Failover`, weak fairness of a request's completion: every provider client has a
timeout. In `ToolCalls`, of each rediscovery; none of the handlers, although
`wait_for` bounds them, since nothing needs it. In `Workforce`, of the steps of
the requests and of those of the tasks, each taken together: the loop does not
idle while a coroutine is ready, and since every run of a coroutine
brings its task closer to its end, that is enough. `wait_for` ends an attempt that
lasts too long; a delegation has no such bound, no fairness makes one end and the
property does not ask for it. In `WorkflowRuntime`, of the coroutines of each
workflow. Nowhere does fairness make a caller call or an operator act.

### What the violated runs show

* `retries_shared`: attempts are counted by step id for all requests and never
  reset. Every default plan uses the id `llm-main`, so after `max_retries`
  failures in the life of the process no request's LLM step is ever retried.
* `reflection_rounds`: the recursive `execute_plan` resets the counter that
  should bound it. `LimitNeverReached`, in the passing run, states the other side:
  as long as no request has crashed, the counter is 0 at every evaluation and
  a plan below the confidence threshold is never accepted; it ends in a
  `RecursionError`.
* `half_open`: `can_execute` compares `_half_open_calls` with the limit, but
  nothing increments it. When the recovery timeout has run out, all requests
  at once are sent to the provider on trial.
* `dag_order`: a task that no worker is free for is put into a queue that nobody
  serves, and the executor goes on with the next layer. A dependent that does
  find a worker there runs before its dependency, which "Executes workflows following DAG
  dependency ordering" (`dag_executor.py:19`) excludes. `NothingRunsAhead`, in the
  passing run, is what remains: the layers are serial, and no dependency is
  waiting for its turn or running.
* `completion`: the verdict is COMPLETED unless a task is FAILED, so a workflow whose
  tasks were all turned away, or are in no layer, is "completed"
  (`runtime_engine.py:78`), and so is one that was cancelled while a layer was
  gathered: the verdict overwrites CANCELLED (line 136, "Cancel a workflow").
  `CompletionAccounts` is what remains: a task is left out for one of these two
  reasons and no other, and no verdict is given while tasks are under way.

What the passing runs say of weaker promises is meant literally.
`RateLimitOvershoot` is how far the limit can be exceeded, and `LostAgentsStayLost` that
an agent in ERROR is out of the workforce for good, as no operation brings it back.
`LoadIsTasksInFlight` says that the load is counted rightly, not that it stays within
`max_concurrent_tasks`: in the same run two tasks enter the agent with one place, although
`agent_scheduler.py:28` speaks of concurrency enforcement. `EntriesAreAlive` says
that the scheduler's table names no dead task, not that it names every live one: tasks
that share an agent overwrite each other, and `active_count` is then too low
(`agent_scheduler.py:49`). `ReliableProviderAnswers` speaks of streams that could be opened;
that the first chunk verifies a stream (the comment at `failover.py:173`) is not what the
code does, as the action `OpenStream` shows. `CountersMatchState` of the tool calls does not
deny that a late success closes an OPEN breaker at once.

Further observations. A step that is alone in its wave is executed without the outputs
of its dependencies: each such wave goes to a fresh `SequentialExecutor.execute`, whose
outputs start empty (`sequential_executor.py:57`), against line 3 of that file; any chain
of two steps shows it, and the models leave outputs out. `max_replan_depth`
is stored and never read (`reports/remediation-report.md` records enforcement as a follow-up);
a call that was recovered is reported as a failure although its request was
answered (`ReportJustified`); and such a call reflects with its own failed
results, so that a recovered answer can be replaced by that of one more
execution. `LastExecutionAnswers` describes this and does not deny it.

## Proofs

All theorems hold for every value of the constants, under the named assumptions
of the modules. For the Brain OS: finitely many executions and step ids, plans
over those ids (cyclic ones and foreign dependencies included), `MaxRetries` a
natural number, at least one permit; for recovery, initial plans with finitely many
steps whose LLM steps are steps of the plan (`PlansAssumption` of `BrainRecovery`) and
at least two different fallback models. Elsewhere: finitely many tasks, agents or
callers where they are counted, thresholds and limits of at least one, each
task of one request or workflow. In every proof module the invariant named
`IInv` is established by `Init`, kept by one lemma per action, and implies the
properties.

*`WaveProofs`.* The invariant `WaveComputation!IInv` says that `inDegree` counts
the dependencies not yet placed or relaxed, that `nextIds` are the unplaced steps
whose count is 0, that the current wave is the next wave of what is placed, and that no
placed step is blocked. The counts alone are not inductive: that a count only
falls when a dependency is newly relaxed needs the current wave to be disjoint
from what is placed. From it follow `TypeCorrect`, `CountsAreExact`,
`WavesAreNextWaves` and, at the end of the loop, `LeavesOutOnlyBlocked`. The last one
is what justifies `NextWave` and `Schedulable` in `PlanExecution`.
`EarliestWaves` is `WavesAreLevels`: each step is in one wave only, the earliest it can
be in. It is inductive together with `IInv` and with the fact that the list ends with
the current wave (`LevelIInv`): a step of the new wave whose dependencies were all in
older waves would already have been in the current one.

*`ExecProofs`.* `PlanExecution!IInv` adds to the types where each task must stand
for each step state (`TaskMatchesState`), that only the current wave has tasks in
flight, that all the earlier ones COMPLETED and that nothing is cancelled before
an abort (`WavesInOrder`), and that the semaphore's queue holds distinct queued tasks
(`WaitersAreQueued`), without which the hand-over of a permit could wake a
task that is not waiting. There is one lemma per action; `StepLocal` and
`ReturnEffect` collect what the actions of a step and the release of a permit
have in common. `StepsRunInOrder` is `DependencyOrder`; `TypeCorrect` includes
that the semaphore never goes below zero.

`SchedulerOutcome` is `Outcome`, with `OutcomeIInv`: what an execution has placed
are the first waves of its plan, up to some number (`WavesSoFar`), failures are in the
last of them only, what is placed has a task, and what is over is settled
(`SettledWhenOver`). That the first waves reach every step outside a cycle
(`AllPlaced`) is shown by cutting the plan at the last wave: what remains is a set each
of whose steps waits for another. `UpTo` is a recursive function; its values come from
`FirstWavesExist`, by the least-number principle over a failing index
(`NatLessThanWellFounded`, `WFMin`) instead of an induction. This closes the gap between
the two Brain OS models: `BrainRecovery` assumes of the scheduler only what
`PlanExecution` is proved to return.

`PromiseKept` is the safety part of the refinement, `Spec => Promise!Safe`: every
action of `PlanExecution` is one abstract action or a stutter under the
mapping. Starting a wave is `Admit`, a task's return is `Settle`, an abort is `Drop` and
an arrival `Open`; retries, backoff and waits for a permit are invisible. The
delicate case is `Admit`, which takes *every* waiting step whose dependencies
succeeded: that this set is the next wave needs `OutcomeIInv`.

*`PermitProofs`.* `PermitsAccounted` is `PermitAccounting`. It is inductive only
together with `IInv` and with `OnlyParallelWaits`: a task that waits for a permit
belongs to a wave that is executed in parallel (`PermitIInv`). Without it a permit
could be handed to a task that never gives it back. Its last part says that no wakeup is
lost: whoever queues while a permit is free is behind a granted task. This is kept
because that task, when it resumes, wakes waiters until no permit or no waiter is left, or
leaves one granted that will (`ResumeAccounts`). The holders and the queued
tasks are finite sets of pairs; each lemma says which pair an action adds or
removes and follows it through cardinalities. `HandOverAccounts` is the case
worth reading: one pair leaves the holders, another enters them and leaves the
queue, and the value of the semaphore does not move. `RetriesAccounted` is
`RetryAccounting`, inductive with `IInv` and the finiteness of the retries
(`RetryIInv`): `should_retry` reads the shared count just before `record_attempt` raises it, and
nothing suspends in between, so that a retry is only granted while the count, the
attempts given up included, is below the limit.

`NobodyWaitsInACircle` puts `OutcomeIInv` and `PermitAccounting` together: a request in
progress can go on, or its tasks queue while the permits are used up or one is granted to
a task about to resume, and everybody who has a permit can go on (`NobodyStuck`). That is the safety side of `EveryRequestServed`, for any number of
requests and permits; that the tasks which can go on also do is fairness, and
with TLC. A holder of a permit that waited for one itself, or a task without a permit that
was not in the queue, would break it.

*`RecoveryProofs`.* `IInv` says of each request that its calls wait for each
other except the innermost one, that what has no report is what is open, and
that the response in hand is of the execution started last. For the last it must
be known that a call before its evaluation *is* the execution started last,
which is what makes the response it then writes the right one; for the report count,
that a crash happens with at least one call open. `Typed` leaves the plans and results
open (some sets that hold them), as replanning makes new ones.
`ReportsJustified` adds `AllJustified`: a call that recovers has failed steps, and
before the evaluation no verdict is set; so that whichever call answers, the
report of each rests on its own steps.

`LLMStepsKept` is `RecoveryKeepsLLMSteps` and `LimitUnreached` is `LimitNeverReached`,
both from `KeptIInv`: `IInv`, the plans of nested calls derived from each other at
any distance and not only from one call to the next (`AllKept`), and the counter
at 0 whenever nobody has crashed, with every call about to finish having a confident
plan (`CountAtZero`). What `replan` returns is read off its definition: the reduced
plan if the failed steps can be left out, else the first other model of the list, which
is the least index of a non-empty set of numbers (`AnotherModel`).

*`FailoverProofs`.* `IInv` adds to the types that counters fit the state of their
breaker, that a reliable provider's breaker has never left CLOSED, and that every
provider a request has gone past is one that may raise; a stream goes past several in one step. Requests share the breakers,
so the last rests on the one before: no answer of another request can have closed the
way to a reliable provider. Each record of an answer is treated in whatever state the
breaker is by then. `OpenWaits` is an action property, from the same invariant. The list of a request is opaque to the proofs except that it is a sequence.

*`ToolProofs`.* The counters are as above. `NoToolLost` is inductive with one more fact:
whatever a rediscovery has listed and not come to yet, it will register again
(`drops` is within `adds`). `RateLimitBounded` counts the
callers in flight, who are among the user's callers: a call begins below the limit only,
which bounds the sum of window and flight, and its end moves it from one to the other.

*`WorkforceProofs`.* `LoadsAreExact` follows the set of tasks inside `process`
through every action, one task entering or leaving. It needs `Shape`: a
task under way has an agent, has a retry left to lose, and a batch is
assigned in order (otherwise a task could be given to an agent twice).
`EntriesLive` needs that what the table names is past its selection and no
delegation. `LostStayLost` is an action property: a state is set by a task of the agent only,
and an agent in ERROR is given no more of them.

*`RuntimeProofs`.* `ReadyIsSafe` justifies the layers: a task whose in-degree has
come down to zero has all its dependencies in earlier layers, whatever it
repeats; the proof maps places of the list onto tasks and compares cardinalities.
The invariant says that a layer's tasks have only settled dependencies, that
what was placed before is settled too, and that a COMPLETED workflow is over.
`PoolKept`, `OrderKept` and `CompletionsAccount` follow from it.

Model-checked only: all liveness (`EveryRequestServed`, `EveryRequestEnds` of `Failover`,
`EveryDispatchAnswered`, `ToolsComeBack`, `EveryExecutionEnds`, `Terminates`) and
the fairness part of `KeepsPromise`, which are out of the prover's reach. Every
invariant and every action property of the passing runs has a theorem.

## Not modelled

In the modelled components: cancellation of `execute_plan` from outside (no code
in the repository does it explicitly, but the server may cancel a streamed
response when its client disconnects); two steps with the same id in one plan
(their results share a record, nothing validates it); outputs and what a handler is given of them, tokens, latencies
and temperatures as data; streaming of the finished response; session and
metrics queries. Of the workforce: cancellation of a dispatch by its caller, registration, the communication bus,
`split_and_delegate`, and the health monitor, whose only write repeats an ERROR
that is there already. Of the MCP integration: `remove_server`'s tools, connections,
sessions, resources and transports; `call_tool` does not read the connection
state. Of the AI kernel: the request queue and the rate limiter, which nothing
connects to the failover. Of the runtime engine: the retry, rollback and recovery
managers, which `execute` never calls, and two executions of one workflow at once.

Not modelled at all: the backend's workers (next in the plan); the memory service,
whose operations await only coroutines that never suspend in the present build, so
that nothing interleaves; the gateway's pipeline, which is linear around the
executions modelled here; THALAMUS routing, text classification and weights whose
plan is discarded; storage, retrieval, policies, API routes, registries, user
interfaces and deployment, which are I/O and data without a protocol between
several actors. `PROJECT.json` gives the reason for each. These make up most of the
repository's lines; the models cover the code that several actors share.

## Plan

Done: waves, plan execution with its abstract specification, recovery and
reflection, failover, tool calls, workforce, workflow runtime, and proofs for each.
Next, in this order:

1. `JobQueue` (backend workers): threads, heap and cancellation; a cancelled job
   that stays in the heap is executed.
2. `McpConnection`: connect, disconnect, reconnect and health check across awaits.
3. `RequestQueue` (AI kernel): permits and futures of the priority queue.
4. Proofs of the safety invariants of these modules, as of the others.
5. A `Cancel` action for a client that disconnects during a streamed execution, if
   the server's behaviour can be read from the code.
