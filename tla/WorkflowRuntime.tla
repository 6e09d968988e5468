--------------------------- MODULE WorkflowRuntime ---------------------------
(***************************************************************************)
(* The backend's RuntimeEngine (backend/runtime): workflows executed layer *)
(* by layer by the DAGExecutor on one shared WorkerPool, while API calls   *)
(* submit, pause, resume and cancel them.                                  *)
(*                                                                         *)
(* `execute` suspends in one place only, the gather over the tasks of a    *)
(* layer that were given a worker.  What lies between two gathers - the    *)
(* release of the workers, the layers nobody gets a worker for, the        *)
(* verdict - is one action.  Tasks are simulated by the code: none fails.  *)
(***************************************************************************)
EXTENDS Naturals, Sequences, FiniteSets

CONSTANTS
    Workflows,
    Tasks,
    Owner,       \* the workflow of a task
    Deps,        \* WorkflowTask.dependencies: a list, repetitions included
    MaxWorkers   \* of the pool

ASSUME TasksFinite          == IsFiniteSet(Tasks)
ASSUME OwnerAssumption      == Owner \in [Tasks -> Workflows]
ASSUME DepsAssumption       == Deps \in [Tasks -> Seq(Tasks)]
ASSUME MaxWorkersAssumption == MaxWorkers \in Nat \ {0}

VARIABLES
    wfState,     \* Workflow.state
    taskState,   \* WorkflowTask.state
    gathering,   \* whether the workflow's execute awaits a gather
    layer,       \* the tasks it awaits
    placed,      \* the tasks of the layers up to this one
    holders,     \* WorkerInfo.current_task of the busy workers
    queue        \* the TaskQueue

vars == <<wfState, taskState, gathering, layer, placed, holders, queue>>

WorkflowStates == {"CREATED", "READY", "RUNNING", "PAUSED", "COMPLETED", "FAILED", "CANCELLED"}
TaskStates     == {"PENDING", "QUEUED", "RUNNING", "COMPLETED", "FAILED"}

Init ==
    /\ wfState = [w \in Workflows |-> "CREATED"]
    /\ taskState = [t \in Tasks |-> "PENDING"]
    /\ gathering = [w \in Workflows |-> FALSE]
    /\ layer = [w \in Workflows |-> {}]
    /\ placed = [w \in Workflows |-> {}]
    /\ holders = {}
    /\ queue = {}

-----------------------------------------------------------------------------
(* The graph of a workflow; dependencies that are not tasks of it are      *)
(* ignored.                                                                *)
TasksOf(w) == {t \in Tasks : Owner[t] = w}
InGraph(t) == {d \in TasksOf(Owner[t]) : \E i \in DOMAIN Deps[t] : Deps[t][i] = d}

(* The in-degree counts a dependency as often as it is listed. *)
InDegree(t) == Cardinality({i \in DOMAIN Deps[t] : Owner[Deps[t][i]] = Owner[t]})

(* Variant: one dependency is enough. *)
ReadySoon(t, done) == InDegree(t) = 0 \/ InGraph(t) \cap done # {}

(* A completed layer lowers the in-degree once per dependency, however     *)
(* often it is listed: with a repetition it never reaches zero.            *)
Ready(t, done) == InDegree(t) = Cardinality(InGraph(t) \cap done)

NextLayer(w, done) == {t \in TasksOf(w) \ done : Ready(t, done)}

(* The tasks of no layer: on a cycle, with a repeated dependency, or       *)
(* behind such a task.                                                     *)
Blocked ==
    {t \in Tasks : \E B \in SUBSET TasksOf(Owner[t]) :
                      t \in B /\ \A u \in B : ~Ready(u, TasksOf(Owner[t]) \ B)}

Layered(w) == TasksOf(w) \ Blocked
Pending(S) == {t \in S : taskState[t] = "PENDING"}

-----------------------------------------------------------------------------
(* execute. *)

(* Variant: a worker too many may be created. *)
FreeWithOneTooMany(H) == MaxWorkers + 1 - Cardinality(H)

(* A worker is there for a task while fewer than MaxWorkers are busy: an   *)
(* idle one is taken or a new one created.                                 *)
Free(H) == MaxWorkers - Cardinality(H)

(* The next layer: its tasks are given workers while there are any, in the *)
(* order the workflow lists them (here: any of them); the others are       *)
(* queued.  Then the ones with a worker are gathered.                      *)
Gather(w, done, H, state) ==
    LET next == Pending(NextLayer(w, done))
    IN  \E granted \in SUBSET next :
            /\ granted # {}
            /\ Cardinality(granted) <= Free(H)
            /\ granted # next => Cardinality(granted) = Free(H)
            /\ wfState' = [wfState EXCEPT ![w] = state]
            /\ gathering' = [gathering EXCEPT ![w] = TRUE]
            /\ layer' = [layer EXCEPT ![w] = granted]
            /\ placed' = [placed EXCEPT ![w] = done \cup next]
            /\ holders' = H \cup granted
            /\ taskState' = [t \in Tasks |-> IF t \in next \ granted THEN "QUEUED" ELSE taskState[t]]
            /\ queue' = queue \cup (next \ granted)

(* Variant: only the layer at hand is queued. *)
TurnedAwayNow(w, done) == Pending(NextLayer(w, done))

(* With no worker free, every task of every layer to come is queued. *)
TurnedAway(w, done) == Pending(Layered(w) \ done)

Verdict(w, states) ==
    IF \A t \in TasksOf(w) : states[t] = "COMPLETED" THEN "COMPLETED"
    ELSE IF \E t \in TasksOf(w) : states[t] = "FAILED" THEN "FAILED" ELSE "COMPLETED"

(* No layer is left that anybody could be given a worker for: the verdict  *)
(* overwrites the state, whatever pause or cancel have made of it.         *)
Finish(w, done, H) ==
    LET away == TurnedAway(w, done)
    IN  /\ Free(H) = 0 \/ Pending(Layered(w) \ done) = {}
        /\ taskState' = [t \in Tasks |-> IF t \in away THEN "QUEUED" ELSE taskState[t]]
        /\ queue' = queue \cup away
        /\ wfState' = [wfState EXCEPT ![w] = Verdict(w, taskState')]
        /\ gathering' = [gathering EXCEPT ![w] = FALSE]
        /\ layer' = [layer EXCEPT ![w] = {}]
        /\ placed' = [placed EXCEPT ![w] = Layered(w)]
        /\ holders' = H

(* The engine executes what it is asked to, in whatever state it is; tasks *)
(* that are not PENDING any more are skipped.                              *)
Execute(w) ==
    /\ ~gathering[w]
    /\ Gather(w, {}, holders, "RUNNING") \/ Finish(w, {}, holders)

(* Variant: only one worker is released. *)
ReleasedFirst(w) == {CHOOSE t \in layer[w] : TRUE}

(* The workers whose task belongs to the layer and is COMPLETED. *)
Released(w) == {t \in layer[w] : taskState[t] = "COMPLETED"}

(* Variant: the queued tasks of the layer are awaited too. *)
LayerOverWithQueued(w) == \A t \in placed[w] : taskState[t] = "COMPLETED"

LayerOver(w) == \A t \in layer[w] : taskState[t] = "COMPLETED"

EndLayer(w) ==
    /\ gathering[w]
    /\ LayerOver(w)
    /\ \/ Gather(w, placed[w], holders \ Released(w), wfState[w])
       \/ Finish(w, placed[w], holders \ Released(w))

(* The coroutine of a task, before and after its sleep(0). *)
BeginTask(w, t) ==
    /\ t \in layer[w] /\ taskState[t] = "PENDING"
    /\ taskState' = [taskState EXCEPT ![t] = "RUNNING"]
    /\ UNCHANGED <<wfState, gathering, layer, placed, holders, queue>>

CompleteTask(w, t) ==
    /\ t \in layer[w] /\ taskState[t] = "RUNNING"
    /\ taskState' = [taskState EXCEPT ![t] = "COMPLETED"]
    /\ UNCHANGED <<wfState, gathering, layer, placed, holders, queue>>

-----------------------------------------------------------------------------
(* The API calls: they set the state, and nothing reads it but they.       *)
SetState(w, state) ==
    /\ wfState' = [wfState EXCEPT ![w] = state]
    /\ UNCHANGED <<taskState, gathering, layer, placed, holders, queue>>

(* The scheduler files the workflow and never hands it out. *)
Submit(w) == wfState[w] = "CREATED" /\ SetState(w, "READY")
Pause(w)  == wfState[w] = "RUNNING" /\ SetState(w, "PAUSED")
Resume(w) == wfState[w] = "PAUSED" /\ SetState(w, "RUNNING")

(* Only workflows the engine knows, submitted or executed ones. *)
Cancel(w) ==
    /\ wfState[w] \notin {"CREATED", "COMPLETED", "CANCELLED"}
    /\ SetState(w, "CANCELLED")

-----------------------------------------------------------------------------
Coroutines(w) == EndLayer(w) \/ \E t \in Tasks : BeginTask(w, t) \/ CompleteTask(w, t)

Next ==
    \E w \in Workflows :
        Execute(w) \/ Coroutines(w) \/ Submit(w) \/ Pause(w) \/ Resume(w) \/ Cancel(w)

(* The loop runs every coroutine that is ready; nothing obliges a call. *)
Fairness == \A w \in Workflows : WF_vars(Coroutines(w))

Spec == Init /\ [][Next]_vars
FairSpec == Spec /\ Fairness

-----------------------------------------------------------------------------
TypeOK ==
    /\ wfState \in [Workflows -> WorkflowStates]
    /\ taskState \in [Tasks -> TaskStates]
    /\ gathering \in [Workflows -> BOOLEAN]
    /\ layer \in [Workflows -> SUBSET Tasks]
    /\ placed \in [Workflows -> SUBSET Tasks]
    /\ holders \in SUBSET Tasks
    /\ queue \in SUBSET Tasks
    /\ Cardinality(holders) <= MaxWorkers

(* The pool neither leaks a worker nor lends one twice: the busy workers   *)
(* are exactly those of the tasks that are being gathered, so an engine    *)
(* that executes nothing has its whole pool.                               *)
WorkersReleased == holders = {t \in Tasks : gathering[Owner[t]] /\ t \in layer[Owner[t]]}

(* The layers are serial, across everything that happens to the pool       *)
(* between them: when a task begins, each of its dependencies was either   *)
(* run or turned away for good; none is waiting for its turn or running.   *)
NothingRunsAhead ==
    \A t \in Tasks : taskState[t] \in {"RUNNING", "COMPLETED"} =>
        \A d \in InGraph(t) : taskState[d] \in {"COMPLETED", "QUEUED"}

(* A task is left out of an execution for two reasons only: it was turned  *)
(* away by a full pool, and is in the queue, or it is in no layer of the   *)
(* graph.  The other workflows, a pause or a cancel lose no task, and no   *)
(* verdict is given while tasks are under way.                             *)
CompletionAccounts ==
    /\ queue = {t \in Tasks : taskState[t] = "QUEUED"}
    /\ \A w \in Workflows : wfState[w] = "COMPLETED" =>
          /\ ~gathering[w]
          /\ \A t \in Layered(w) : taskState[t] \in {"COMPLETED", "QUEUED"}
          /\ \A t \in TasksOf(w) \cap Blocked : taskState[t] = "PENDING"

(* "Executes workflows following DAG dependency ordering"                  *)
(* (dag_executor.py:19): what has begun comes after the tasks it depends   *)
(* on.                                                                     *)
DagOrder ==
    \A t \in Tasks : taskState[t] \in {"RUNNING", "COMPLETED"} =>
        \A d \in InGraph(t) : taskState[d] = "COMPLETED"

(* "Execute a workflow to completion" (runtime_engine.py:78): a workflow   *)
(* that is COMPLETED has run its tasks, all of them.                       *)
ExecutedToCompletion ==
    \A w \in Workflows : wfState[w] = "COMPLETED" =>
        \A t \in TasksOf(w) : taskState[t] = "COMPLETED"

(* No pattern of other workflows, pauses and cancels keeps an execution    *)
(* from ending: it never waits for a worker.                               *)
EveryExecutionEnds == \A w \in Workflows : gathering[w] ~> ~gathering[w]
=============================================================================
