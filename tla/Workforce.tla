------------------------------ MODULE Workforce ------------------------------
(***************************************************************************)
(* Concurrent requests to the agents of one WorkforceManager               *)
(* (services/workforce-os): `dispatch` of a task, `dispatch_parallel` of a *)
(* batch, and `delegate`, by which an agent hands a task to a subordinate. *)
(* All of them share the agents' profiles (state, active_tasks) and the    *)
(* scheduler's table of running tasks.                                     *)
(*                                                                         *)
(* An action is what runs between two points where a coroutine suspends:   *)
(* the execution of the task, gather, and every `await logger.a...()`,     *)
(* which hands the record to a thread.  One such await stands between the  *)
(* choice of an agent and its use, and one before a task's slot is given   *)
(* back.                                                                   *)
(***************************************************************************)
EXTENDS Integers, Sequences, FiniteSets

CONSTANTS
    Agents,
    Tasks,
    Requests,
    Kind,        \* of a request: "dispatch", "parallel" or "delegate"
    Batch,       \* the tasks of a request, in order
    Owner,       \* the request of a task
    OfType,      \* the agents of the type a task asks for
    Delegates,   \* the agents of the role a delegating agent may use
    RoleRank,    \* place of an agent's role among the roles delegated to
    Priority,    \* AgentProfile.priority
    Position,    \* place in the registry's dict
    MaxTasks,    \* AgentProfile.max_concurrent_tasks
    Reporting,   \* agents whose _execute may return a result with status "error"
    MaxRetries,  \* of the AgentRuntime
    None

ASSUME AgentsFinite      == IsFiniteSet(Agents)
ASSUME TasksFinite       == IsFiniteSet(Tasks)
ASSUME NoneAssumption    == None \notin Agents /\ None \notin Tasks
ASSUME KindAssumption    == Kind \in [Requests -> {"dispatch", "parallel", "delegate"}]
ASSUME BatchAssumption   ==
    /\ Batch \in [Requests -> Seq(Tasks) \ {<<>>}]
    /\ \A r \in Requests : Kind[r] # "parallel" => Len(Batch[r]) = 1
    /\ \A r \in Requests : \A i, j \in DOMAIN Batch[r] : Batch[r][i] = Batch[r][j] => i = j
ASSUME OwnerAssumption   ==
    /\ Owner \in [Tasks -> Requests]
    /\ \A r \in Requests : {Batch[r][i] : i \in DOMAIN Batch[r]} = {t \in Tasks : Owner[t] = r}
ASSUME ProfileAssumption ==
    /\ OfType \in [Tasks -> SUBSET Agents]
    /\ Delegates \subseteq Agents
    /\ RoleRank \in [Agents -> Nat]
    /\ Priority \in [Agents -> Nat] /\ Position \in [Agents -> Nat]
    /\ \A a, b \in Agents : Position[a] = Position[b] => a = b
    /\ MaxTasks \in [Agents -> Nat \ {0}]
    /\ Reporting \subseteq Agents
ASSUME RetriesAssumption == MaxRetries \in Nat

VARIABLES
    state,       \* AgentProfile.state
    active,      \* AgentProfile.active_tasks
    processing,  \* AgentScheduler._processing: one task per agent
    queue,       \* AgentScheduler._queue
    phase,       \* where the coroutine of a request stands
    where,       \* where the coroutine of a task stands
    agent,       \* the agent a task was given to
    left,        \* retries_left in AgentRuntime.execute
    result       \* status of the AgentResult

vars == <<state, active, processing, queue, phase, where, agent, left, result>>

AgentStates == {"idle", "processing", "error"}

(* "selected": awaiting the log of its selection; "assigned": in the list  *)
(* dispatch_parallel will gather; "executing", "logging", "erring",        *)
(* "failing": inside process(), the last three awaiting a log - of a       *)
(* result, of a result that says "error", of an exception; "between":      *)
(* awaiting the runtime's log after a failed attempt.                      *)
Places == {"waiting", "selected", "assigned", "executing", "logging", "erring",
           "failing", "between", "queued", "returned"}

InProcess(t)    == where[t] \in {"executing", "logging", "erring", "failing"}
TasksOf(r)      == {t \in Tasks : Owner[t] = r}
Bounded(t)      == Kind[Owner[t]] # "delegate"

Init ==
    /\ state = [a \in Agents |-> "idle"]
    /\ active = [a \in Agents |-> 0]
    /\ processing = [a \in Agents |-> None]
    /\ queue = {}
    /\ phase = [r \in Requests |-> "idle"]
    /\ where = [t \in Tasks |-> "waiting"]
    /\ agent = [t \in Tasks |-> None]
    /\ left = [t \in Tasks |-> MaxRetries]
    /\ result = [t \in Tasks |-> "none"]

-----------------------------------------------------------------------------
(* The choice of an agent. *)

(* Variant: agents in ERROR are candidates too. *)
AvailableInAnyState(A) == {a \in A : active[a] < MaxTasks[a]}
Available(A) == {a \in A : state[a] \in {"idle", "processing"} /\ active[a] < MaxTasks[a]}

(* An agent of the task's type or, if none has room, any agent. *)
Candidates(t) == IF Available(OfType[t]) # {} THEN Available(OfType[t]) ELSE Available(Agents)

(* Fewest active tasks, then priority; sort is stable, so then the order   *)
(* of registration.                                                        *)
Before(a, b) ==
    \/ active[a] < active[b]
    \/ active[a] = active[b] /\ Priority[a] < Priority[b]
    \/ active[a] = active[b] /\ Priority[a] = Priority[b] /\ Position[a] <= Position[b]

Selected(t, a) == a \in Candidates(t) /\ \A b \in Candidates(t) : Before(a, b)

(* _find_delegate: the same fallback among the roles below the delegating  *)
(* agent's, whatever the load.                                             *)
TypedDelegates(t)     == Available(OfType[t] \cap Delegates)
DelegateCandidates(t) == IF TypedDelegates(t) # {} THEN TypedDelegates(t) ELSE Available(Delegates)

(* Agents of the type in registration order; others role by role, and then *)
(* in registration order.                                                  *)
DelegateBefore(t, a, b) ==
    \/ TypedDelegates(t) = {} /\ RoleRank[a] < RoleRank[b]
    \/ /\ TypedDelegates(t) = {} => RoleRank[a] = RoleRank[b]
       /\ Position[a] <= Position[b]

Delegate(t, a) ==
    a \in DelegateCandidates(t) /\ \A b \in DelegateCandidates(t) : DelegateBefore(t, a, b)

Choices(r, t)   == IF Kind[r] = "delegate" THEN DelegateCandidates(t) ELSE Candidates(t)
Choice(r, t, a) == IF Kind[r] = "delegate" THEN Delegate(t, a) ELSE Selected(t, a)

(* The request arrives: its first task is given an agent, and the choice   *)
(* is logged.                                                              *)
Open(r) ==
    LET t == Batch[r][1]
    IN  /\ phase[r] = "idle"
        /\ \E a \in Agents : Choice(r, t, a) /\ agent' = [agent EXCEPT ![t] = a]
        /\ phase' = [phase EXCEPT ![r] = "selecting"]
        /\ where' = [where EXCEPT ![t] = "selected"]
        /\ UNCHANGED <<state, active, processing, queue, left, result>>

(* No agent has room: all the tasks are queued, a delegation is refused.   *)
OpenInVain(r) ==
    /\ phase[r] = "idle"
    /\ Choices(r, Batch[r][1]) = {}
    /\ phase' = [phase EXCEPT ![r] = "returned"]
    /\ IF Kind[r] = "delegate"
       THEN /\ where' = [where EXCEPT ![Batch[r][1]] = "returned"]
            /\ result' = [result EXCEPT ![Batch[r][1]] = "refused"]
            /\ UNCHANGED queue
       ELSE /\ where' = [t \in Tasks |-> IF t \in TasksOf(r) THEN "queued" ELSE where[t]]
            /\ result' = [t \in Tasks |-> IF t \in TasksOf(r) THEN "queued" ELSE result[t]]
            /\ queue' = queue \cup TasksOf(r)
    /\ UNCHANGED <<state, active, processing, agent, left>>

(* dispatch_parallel goes on after the log: mark_processing, then the next *)
(* task is given an agent.  Where none has room now, none has for the rest *)
(* of the batch.                                                           *)
AssignAndSelect(r, i) ==
    LET t == Batch[r][i]  u == Batch[r][i + 1]
    IN  /\ phase[r] = "selecting" /\ Kind[r] = "parallel"
        /\ i + 1 \in DOMAIN Batch[r]
        /\ where[t] = "selected"
        /\ processing' = [processing EXCEPT ![agent[t]] = t]
        /\ \E a \in Agents : Selected(u, a) /\ agent' = [agent EXCEPT ![u] = a]
        /\ where' = [where EXCEPT ![t] = "assigned", ![u] = "selected"]
        /\ UNCHANGED <<state, active, queue, phase, left, result>>

AssignLast(r, i) ==
    LET t    == Batch[r][i]
        rest == {Batch[r][j] : j \in {k \in DOMAIN Batch[r] : k > i}}
    IN  /\ phase[r] = "selecting" /\ Kind[r] = "parallel"
        /\ i \in DOMAIN Batch[r]
        /\ where[t] = "selected"
        /\ rest # {} => Candidates(Batch[r][i + 1]) = {}
        /\ processing' = [processing EXCEPT ![agent[t]] = t]
        /\ phase' = [phase EXCEPT ![r] = "running"]
        /\ where' = [u \in Tasks |-> IF u = t THEN "assigned"
                                     ELSE IF u \in rest THEN "queued" ELSE where[u]]
        /\ queue' = queue \cup rest
        /\ UNCHANGED <<state, active, agent, left, result>>

-----------------------------------------------------------------------------
(* BaseAgent.process, from its start to the next await. *)
Enter(t) ==
    /\ state' = [state EXCEPT ![agent[t]] = "processing"]
    /\ active' = [active EXCEPT ![agent[t]] = @ + 1]
    /\ where' = [where EXCEPT ![t] = "executing"]

(* dispatch and delegate go on after the log.  The agent is used as it was *)
(* chosen: its load and its state are not looked at again.                 *)
BeginSelected(r) ==
    LET t == Batch[r][1]
    IN  /\ phase[r] = "selecting" /\ Kind[r] # "parallel"
        /\ where[t] = "selected"
        /\ phase' = [phase EXCEPT ![r] = "running"]
        /\ processing' = IF Kind[r] = "dispatch"
                         THEN [processing EXCEPT ![agent[t]] = t] ELSE processing
        /\ Enter(t)
        /\ UNCHANGED <<queue, agent, left, result>>

BeginAssigned(r, t) ==
    /\ phase[r] = "running" /\ t \in TasksOf(r)
    /\ where[t] = "assigned"
    /\ Enter(t)
    /\ UNCHANGED <<processing, queue, phase, agent, left, result>>

(* _execute returns, and the completion is logged.  The result of an agent *)
(* that reports its errors may say "error" for all that.                   *)
ExecuteSucceeds(t) ==
    /\ where[t] = "executing"
    /\ \/ where' = [where EXCEPT ![t] = "logging"]
       \/ agent[t] \in Reporting /\ where' = [where EXCEPT ![t] = "erring"]
    /\ UNCHANGED <<state, active, processing, queue, phase, agent, left, result>>

(* _execute raises: the agent is in ERROR, and the failure is logged. *)
ExecuteFails(t) ==
    /\ where[t] = "executing"
    /\ where' = [where EXCEPT ![t] = "failing"]
    /\ state' = [state EXCEPT ![agent[t]] = "error"]
    /\ UNCHANGED <<active, processing, queue, phase, agent, left, result>>

(* Variant: the slot is kept. *)
LeaveKeepsSlot(t) ==
    /\ state' = [state EXCEPT ![agent[t]] = IF @ = "error" THEN "error" ELSE "idle"]
    /\ UNCHANGED active

(* `finally`: the slot is given back, and the agent is IDLE again, other   *)
(* tasks or not, unless it is in ERROR.                                    *)
Leave(t) ==
    /\ active' = [active EXCEPT ![agent[t]] = @ - 1]
    /\ state' = [state EXCEPT ![agent[t]] = IF @ = "error" THEN "error" ELSE "idle"]

(* Variant: the entry of the agent is dropped after a success only. *)
AnswerDropsOnSuccess(t, status) ==
    LET r == Owner[t]
    IN  /\ where' = [where EXCEPT ![t] = "returned"]
        /\ result' = [result EXCEPT ![t] = status]
        /\ phase' = IF Kind[r] = "parallel" THEN phase ELSE [phase EXCEPT ![r] = "returned"]
        /\ processing' = IF Kind[r] = "dispatch" /\ status = "success"
                         THEN [processing EXCEPT ![agent[t]] = None] ELSE processing

(* The runtime returns a result.  dispatch itself runs on: mark_completed  *)
(* drops the entry of the agent, whichever task it names.                  *)
Answer(t, status) ==
    LET r == Owner[t]
    IN  /\ where' = [where EXCEPT ![t] = "returned"]
        /\ result' = [result EXCEPT ![t] = status]
        /\ phase' = IF Kind[r] = "parallel" THEN phase ELSE [phase EXCEPT ![r] = "returned"]
        /\ processing' = IF Kind[r] = "dispatch"
                         THEN [processing EXCEPT ![agent[t]] = None] ELSE processing

ProcessSucceeds(t) ==
    /\ where[t] = "logging"
    /\ Leave(t)
    /\ Answer(t, "success")
    /\ UNCHANGED <<queue, agent, left>>

(* An error, returned or raised, that nobody retries: no retry is left, or *)
(* a delegation.                                                           *)
ProcessFailsForGood(t) ==
    /\ where[t] \in {"erring", "failing"}
    /\ Bounded(t) => left[t] <= 0
    /\ Leave(t)
    /\ Answer(t, "error")
    /\ UNCHANGED <<queue, agent, left>>

ProcessFails(t) ==
    /\ where[t] \in {"erring", "failing"}
    /\ Bounded(t) /\ left[t] > 0
    /\ Leave(t)
    /\ left' = [left EXCEPT ![t] = @ - 1]
    /\ where' = [where EXCEPT ![t] = "between"]
    /\ UNCHANGED <<processing, queue, phase, agent, result>>

(* Variant: a timeout costs no retry. *)
TimesOutForFree(t) ==
    /\ InProcess(t) /\ Bounded(t)
    /\ Leave(t)
    /\ where' = [where EXCEPT ![t] = "between"]
    /\ UNCHANGED <<processing, queue, phase, agent, left, result>>

(* wait_for cancels process() at whichever await it stands, the log of a   *)
(* completed execution included: that execution counts as timed out.       *)
TimesOut(t) ==
    /\ InProcess(t) /\ Bounded(t)
    /\ Leave(t)
    /\ left' = [left EXCEPT ![t] = @ - 1]
    /\ where' = [where EXCEPT ![t] = "between"]
    /\ UNCHANGED <<processing, queue, phase, agent, result>>

(* Variant: one attempt too many. *)
RetryOnceMore(t) ==
    /\ where[t] = "between" /\ left[t] >= -1
    /\ Enter(t)
    /\ UNCHANGED <<processing, queue, phase, agent, left, result>>

(* Another attempt, on the same agent. *)
Retry(t) ==
    /\ where[t] = "between" /\ left[t] >= 0
    /\ Enter(t)
    /\ UNCHANGED <<processing, queue, phase, agent, left, result>>

GiveUp(t) ==
    /\ where[t] = "between" /\ left[t] < 0
    /\ Answer(t, "timeout")
    /\ UNCHANGED <<state, active, queue, agent, left>>

(* gather is over: mark_completed for the agent of every assigned task. *)
CollectBatch(r) ==
    LET assigned == {t \in TasksOf(r) : where[t] # "queued"}
    IN  /\ phase[r] = "running" /\ Kind[r] = "parallel"
        /\ \A t \in assigned : where[t] = "returned"
        /\ phase' = [phase EXCEPT ![r] = "returned"]
        /\ processing' = [a \in Agents |-> IF \E t \in assigned : agent[t] = a
                                           THEN None ELSE processing[a]]
        /\ UNCHANGED <<state, active, queue, where, agent, left, result>>

-----------------------------------------------------------------------------
RequestStep(r) ==
    \/ \E i \in DOMAIN Batch[r] : AssignAndSelect(r, i) \/ AssignLast(r, i)
    \/ BeginSelected(r)
    \/ \E t \in TasksOf(r) : BeginAssigned(r, t)
    \/ CollectBatch(r)

Executed(t) == ExecuteSucceeds(t) \/ ExecuteFails(t)

TaskStep(t) ==
    \/ ProcessSucceeds(t) \/ ProcessFails(t) \/ ProcessFailsForGood(t)
    \/ TimesOut(t) \/ Retry(t) \/ GiveUp(t)

(* All requests are answered. *)
Served == (\A r \in Requests : phase[r] = "returned") /\ UNCHANGED vars

Next ==
    \/ \E r \in Requests : Open(r) \/ OpenInVain(r) \/ RequestStep(r)
    \/ \E t \in Tasks : Executed(t) \/ TaskStep(t)
    \/ Served

(* The loop does not idle while a coroutine is ready, logs are written,    *)
(* and wait_for ends an attempt that lasts too long.  No timeout bounds a  *)
(* delegation, so nothing obliges its execution to end; nor does anything  *)
(* oblige a request to arrive.                                             *)
Fairness ==
    /\ WF_vars(\E r \in Requests : RequestStep(r))
    /\ WF_vars(\E t \in Tasks : TaskStep(t))

Spec == Init /\ [][Next]_vars
FairSpec == Spec /\ Fairness

-----------------------------------------------------------------------------
TypeOK ==
    /\ state \in [Agents -> AgentStates]
    /\ active \in [Agents -> Int]
    /\ processing \in [Agents -> Tasks \cup {None}]
    /\ queue \subseteq Tasks
    /\ phase \in [Requests -> {"idle", "selecting", "running", "returned"}]
    /\ where \in [Tasks -> Places]
    /\ agent \in [Tasks -> Agents \cup {None}]
    /\ left \in [Tasks -> -1 .. MaxRetries]
    /\ result \in [Tasks -> {"none", "success", "error", "timeout", "queued", "refused"}]

(* The load the scheduler balances by is the load there is: active_tasks   *)
(* counts the tasks inside process(), on every way out of it - a result,   *)
(* an exception, a timeout at any of its awaits, a retry - and an agent    *)
(* that is PROCESSING has one.                                             *)
LoadIsTasksInFlight ==
    \A a \in Agents :
        LET inside == {t \in Tasks : agent[t] = a /\ InProcess(t)}
        IN  /\ active[a] = Cardinality(inside)
            /\ state[a] = "processing" => inside # {}

(* Requests that have not been answered keep a task alive. *)
Alive(t) == phase[Owner[t]] \in {"selecting", "running"}

(* active_count is never too high: although tasks that share an agent      *)
(* overwrite and drop each other's entry in the scheduler's table, an      *)
(* entry always names a task of a request that is still being served, and  *)
(* the agent it was given to.                                              *)
EntriesAreAlive ==
    \A a \in Agents : processing[a] # None =>
        Alive(processing[a]) /\ agent[processing[a]] = a

(* An agent in ERROR, all of whose tasks have been answered. *)
Lost(a) == state[a] = "error" /\ \A t \in Tasks : agent[t] = a => where[t] = "returned"

(* What happens to an agent whose last task raised: nothing selects it,    *)
(* and only a call that had it already could have brought it back          *)
(* (process() sets PROCESSING unconditionally).  It is out of the          *)
(* workforce for good.                                                     *)
LostAgentsStayLost == [][\A a \in Agents : Lost(a) => Lost(a)']_vars

(* Every dispatch is answered, whatever the agents, the failures and the   *)
(* other requests do: in the end no caller waits.                          *)
EveryDispatchAnswered ==
    <>[](\A r \in Requests : Kind[r] # "delegate" => phase[r] \notin {"selecting", "running"})
=============================================================================
