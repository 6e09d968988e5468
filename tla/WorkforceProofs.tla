---------------------------- MODULE WorkforceProofs ----------------------------
(***************************************************************************)
(* Proofs about Workforce, for any agents, requests, batches, profiles and *)
(* number of retries.                                                      *)
(***************************************************************************)
EXTENDS Workforce, FiniteSetTheorems, TLAPS

(* Tasks that have been given an agent, and not been answered yet. *)
Given(t) ==
    where[t] \in {"selected", "assigned", "executing", "logging", "erring", "failing", "between"}

(* Every task that is under way has an agent. *)
AgentsGiven == \A t \in Tasks : Given(t) => agent[t] \in Agents

(* An attempt that begins has a retry left to lose. *)
RetriesLeft == \A t \in Tasks : Given(t) /\ where[t] # "between" => left[t] >= 0

WaitingHasAll == \A t \in Tasks : where[t] = "waiting" => left[t] >= 0

(* A request that has not arrived has not touched its tasks. *)
IdleWaits == \A t \in Tasks : phase[Owner[t]] = "idle" => where[t] = "waiting"

(* dispatch_parallel gives agents to the tasks of its batch in order. *)
InOrder ==
    \A r \in Requests : phase[r] = "selecting" =>
        \A i, j \in DOMAIN Batch[r] :
            i < j /\ where[Batch[r][i]] = "selected" => where[Batch[r][j]] = "waiting"

(* What the scheduler's table names. *)
EntriesPlaced ==
    \A a \in Agents : processing[a] # None =>
        /\ where[processing[a]] \notin {"waiting", "selected", "queued"}
        /\ Kind[Owner[processing[a]]] # "delegate"

Inside(a) == {t \in Tasks : agent[t] = a /\ InProcess(t)}

Shape == AgentsGiven /\ RetriesLeft /\ WaitingHasAll /\ IdleWaits /\ InOrder
IInv  == TypeOK /\ Shape /\ EntriesPlaced /\ EntriesAreAlive /\ LoadIsTasksInFlight

-----------------------------------------------------------------------------
(* The tasks of a request. *)
LEMMA BatchTasks ==
    ASSUME NEW r \in Requests, NEW i \in DOMAIN Batch[r]
    PROVE  Batch[r][i] \in Tasks /\ Owner[Batch[r][i]] = r
BY OwnerAssumption

LEMMA BatchPlaces ==
    ASSUME NEW r \in Requests
    PROVE  /\ 1 \in DOMAIN Batch[r] /\ DOMAIN Batch[r] \subseteq Nat \ {0}
           /\ \A i \in DOMAIN Batch[r] : i > 1 => i - 1 \in DOMAIN Batch[r]
           /\ \A i, j \in DOMAIN Batch[r] : Batch[r][i] = Batch[r][j] => i = j
           /\ Kind[r] # "parallel" => DOMAIN Batch[r] = {1}
<1>1. Batch[r] \in Seq(Tasks) /\ Batch[r] # <<>> /\ (Kind[r] # "parallel" => Len(Batch[r]) = 1)
    BY BatchAssumption
<1>2. Len(Batch[r]) \in Nat \ {0} /\ DOMAIN Batch[r] = 1 .. Len(Batch[r])
    BY <1>1
<1> QED BY <1>1, <1>2, BatchAssumption

LEMMA FirstTask ==
    ASSUME NEW r \in Requests
    PROVE  /\ Batch[r][1] \in Tasks /\ Owner[Batch[r][1]] = r
           /\ Kind[r] # "parallel" => \A t \in TasksOf(r) : t = Batch[r][1]
<1>1. Batch[r][1] \in Tasks /\ Owner[Batch[r][1]] = r
    BY BatchTasks, BatchPlaces
<1>2. ASSUME Kind[r] # "parallel", NEW t \in TasksOf(r) PROVE t = Batch[r][1]
    <2>1. t \in {Batch[r][i] : i \in DOMAIN Batch[r]}
        BY OwnerAssumption DEF TasksOf
    <2> QED BY <1>2, <2>1, BatchPlaces
<1> QED BY <1>1, <1>2

LEMMA ChoicesAgents ==
    ASSUME NEW r \in Requests, NEW t \in Tasks, NEW a, Choice(r, t, a) \/ Selected(t, a)
    PROVE  a \in Agents /\ state[a] # "error"
BY ProfileAssumption
   DEF Choice, Selected, Delegate, Candidates, DelegateCandidates, TypedDelegates, Available

-----------------------------------------------------------------------------
(* Types. *)
LEMMA PlaceNames ==
    {"waiting", "selected", "assigned", "executing", "logging", "erring",
     "failing", "between", "queued", "returned"} \subseteq Places
BY DEF Places

LEMMA EnterTyped ==
    ASSUME TypeOK, NEW t \in Tasks, Enter(t)
    PROVE  /\ state' \in [Agents -> AgentStates] /\ active' \in [Agents -> Int]
           /\ where' \in [Tasks -> Places]
<1> DEFINE a == agent[t]
<1>1. /\ active' = [active EXCEPT ![a] = active[a] + 1]
      /\ state' = [state EXCEPT ![a] = "processing"]
    BY DEF Enter
<1> HIDE DEF a
<1>2. active' = [b \in Agents |-> IF b = a THEN active[b] + 1 ELSE active[b]]
    BY <1>1 DEF TypeOK
<1>3. active' \in [Agents -> Int]
    BY <1>2 DEF TypeOK
<1>4. state' \in [Agents -> AgentStates]
    BY <1>1 DEF TypeOK, AgentStates
<1>5. where' \in [Tasks -> Places]
    BY PlaceNames DEF Enter, TypeOK
<1> QED BY <1>3, <1>4, <1>5

LEMMA LeaveTyped ==
    ASSUME TypeOK, NEW t \in Tasks, Leave(t)
    PROVE  state' \in [Agents -> AgentStates] /\ active' \in [Agents -> Int]
<1> DEFINE a == agent[t]
<1>1. /\ active' = [active EXCEPT ![a] = active[a] - 1]
      /\ state' = [state EXCEPT ![a] = IF state[a] = "error" THEN "error" ELSE "idle"]
    BY DEF Leave
<1> HIDE DEF a
<1>2. active' \in [Agents -> Int]
    <2>1. active' = [b \in Agents |-> IF b = a THEN active[b] - 1 ELSE active[b]]
        BY <1>1 DEF TypeOK
    <2> QED BY <2>1 DEF TypeOK
<1>3. state' \in [Agents -> AgentStates]
    BY <1>1 DEF TypeOK, AgentStates
<1> QED BY <1>2, <1>3

LEMMA AnswerTyped ==
    ASSUME TypeOK, NEW t \in Tasks, NEW status \in {"success", "error", "timeout"},
           Answer(t, status)
    PROVE  /\ where' \in [Tasks -> Places]
           /\ result' \in [Tasks -> {"none", "success", "error", "timeout", "queued", "refused"}]
           /\ phase' \in [Requests -> {"idle", "selecting", "running", "returned"}]
           /\ processing' \in [Agents -> Tasks \cup {None}]
<1>1. where' \in [Tasks -> Places]
    BY PlaceNames DEF Answer, TypeOK
<1>2. result' \in [Tasks -> {"none", "success", "error", "timeout", "queued", "refused"}]
    BY DEF Answer, TypeOK
<1>3. phase' \in [Requests -> {"idle", "selecting", "running", "returned"}]
    BY DEF Answer, TypeOK
<1>4. processing' \in [Agents -> Tasks \cup {None}]
    BY DEF Answer, TypeOK
<1> QED BY <1>1, <1>2, <1>3, <1>4

LEMMA OpenTyped ==
    ASSUME TypeOK, NEW r \in Requests,
           Open(r) \/ OpenInVain(r) \/ BeginSelected(r) \/ CollectBatch(r)
    PROVE  TypeOK'
<1>1. CASE Open(r)
    BY <1>1 DEF Open, TypeOK, Places
<1>2. CASE OpenInVain(r)
    <2>1. phase' \in [Requests -> {"idle", "selecting", "running", "returned"}]
        BY <1>2 DEF OpenInVain, TypeOK
    <2>2. where' \in [Tasks -> Places]
        BY <1>2, PlaceNames DEF OpenInVain, TypeOK
    <2>3. result' \in [Tasks -> {"none", "success", "error", "timeout", "queued", "refused"}]
        BY <1>2 DEF OpenInVain, TypeOK
    <2>4. queue' \subseteq Tasks
        BY <1>2 DEF OpenInVain, TypeOK, TasksOf
    <2> QED BY <1>2, <2>1, <2>2, <2>3, <2>4 DEF OpenInVain, TypeOK
<1>3. CASE BeginSelected(r)
    <2>1. Batch[r][1] \in Tasks /\ Enter(Batch[r][1])
        BY <1>3, FirstTask DEF BeginSelected
    <2>2. phase' \in [Requests -> {"idle", "selecting", "running", "returned"}]
        BY <1>3 DEF BeginSelected, TypeOK
    <2>3. processing' \in [Agents -> Tasks \cup {None}]
        BY <1>3, <2>1 DEF BeginSelected, TypeOK
    <2> QED BY <1>3, <2>1, <2>2, <2>3, EnterTyped DEF BeginSelected, TypeOK
<1>4. CASE CollectBatch(r)
    BY <1>4 DEF CollectBatch, TypeOK
<1> QED BY <1>1, <1>2, <1>3, <1>4

LEMMA AssignTyped ==
    ASSUME TypeOK, NEW r \in Requests, NEW i \in DOMAIN Batch[r],
           AssignAndSelect(r, i) \/ AssignLast(r, i)
    PROVE  TypeOK'
<1>1. CASE AssignAndSelect(r, i)
    <2>1. Batch[r][i] \in Tasks /\ Batch[r][i + 1] \in Tasks
        BY <1>1, BatchTasks DEF AssignAndSelect
    <2>2. processing' \in [Agents -> Tasks \cup {None}]
        BY <1>1, <2>1 DEF AssignAndSelect, TypeOK
    <2>3. agent' \in [Tasks -> Agents \cup {None}]
        BY <1>1, <2>1 DEF AssignAndSelect, TypeOK
    <2>4. where' \in [Tasks -> Places]
        BY <1>1, <2>1, PlaceNames DEF AssignAndSelect, TypeOK
    <2> QED BY <1>1, <2>2, <2>3, <2>4 DEF AssignAndSelect, TypeOK
<1>2. CASE AssignLast(r, i)
    <2> DEFINE rest == {Batch[r][j] : j \in {k \in DOMAIN Batch[r] : k > i}}
    <2>1. Batch[r][i] \in Tasks /\ rest \subseteq Tasks
        BY BatchTasks
    <2>2. processing' \in [Agents -> Tasks \cup {None}]
        BY <1>2, <2>1 DEF AssignLast, TypeOK
    <2>3. queue' \subseteq Tasks
        BY <1>2, <2>1 DEF AssignLast, TypeOK
    <2>4. phase' \in [Requests -> {"idle", "selecting", "running", "returned"}]
        BY <1>2 DEF AssignLast, TypeOK
    <2>5. where' \in [Tasks -> Places]
        <3>1. where' = [u \in Tasks |-> IF u = Batch[r][i] THEN "assigned"
                                        ELSE IF u \in rest THEN "queued" ELSE where[u]]
            BY <1>2 DEF AssignLast
        <3> HIDE DEF rest
        <3> QED BY <3>1, PlaceNames DEF TypeOK
    <2> HIDE DEF rest
    <2> QED BY <1>2, <2>2, <2>3, <2>4, <2>5 DEF AssignLast, TypeOK
<1> QED BY <1>1, <1>2

LEMMA TaskTyped ==
    ASSUME TypeOK, RetriesLeft, NEW t \in Tasks,
           Executed(t) \/ TaskStep(t) \/ \E r \in Requests : BeginAssigned(r, t)
    PROVE  TypeOK'
<1>1. CASE Executed(t)
    BY <1>1, PlaceNames DEF Executed, ExecuteSucceeds, ExecuteFails, TypeOK, AgentStates
<1>2. CASE ProcessSucceeds(t)
    BY <1>2, LeaveTyped, AnswerTyped DEF ProcessSucceeds, TypeOK
<1>3. CASE ProcessFailsForGood(t)
    BY <1>3, LeaveTyped, AnswerTyped DEF ProcessFailsForGood, TypeOK
<1>4. CASE ProcessFails(t) \/ TimesOut(t)
    <2>1. left[t] >= 0
        BY <1>4 DEF ProcessFails, TimesOut, InProcess, RetriesLeft, Given
    <2>2. left' \in [Tasks -> -1 .. MaxRetries]
        BY <1>4, <2>1, RetriesAssumption DEF ProcessFails, TimesOut, TypeOK
    <2>3. where' \in [Tasks -> Places]
        BY <1>4, PlaceNames DEF ProcessFails, TimesOut, TypeOK
    <2> QED BY <1>4, <2>2, <2>3, LeaveTyped DEF ProcessFails, TimesOut, TypeOK
<1>5. CASE Retry(t)
    BY <1>5, EnterTyped DEF Retry, TypeOK
<1>6. CASE GiveUp(t)
    BY <1>6, AnswerTyped DEF GiveUp, TypeOK
<1>7. CASE \E r \in Requests : BeginAssigned(r, t)
    BY <1>7, EnterTyped DEF BeginAssigned, TypeOK
<1> QED BY <1>1, <1>2, <1>3, <1>4, <1>5, <1>6, <1>7 DEF TaskStep

(* The steps of the system, one request's or one task's. *)
LEMMA StepCases ==
    ASSUME [Next]_vars
    PROVE  \/ \E r \in Requests : Open(r) \/ OpenInVain(r) \/ BeginSelected(r) \/ CollectBatch(r)
           \/ \E r \in Requests : \E i \in DOMAIN Batch[r] : AssignAndSelect(r, i) \/ AssignLast(r, i)
           \/ \E t \in Tasks : Executed(t) \/ TaskStep(t) \/ \E r \in Requests : BeginAssigned(r, t)
           \/ UNCHANGED vars
BY DEF Next, RequestStep, TasksOf, Served

LEMMA NextTyped == TypeOK /\ RetriesLeft /\ [Next]_vars => TypeOK'
<1> SUFFICES ASSUME TypeOK, RetriesLeft, [Next]_vars PROVE TypeOK'
    OBVIOUS
<1>1. CASE UNCHANGED vars
    BY <1>1 DEF vars, TypeOK
<1> QED BY <1>1, StepCases, OpenTyped, AssignTyped, TaskTyped

-----------------------------------------------------------------------------
(* The shape of requests and of their tasks. *)
LEMMA OpenShape ==
    ASSUME TypeOK, Shape, NEW r \in Requests,
           Open(r) \/ OpenInVain(r) \/ BeginSelected(r) \/ CollectBatch(r)
    PROVE  Shape'
<1> USE DEF Shape
<1>1. CASE Open(r)
    <2>1. PICK a \in Agents : agent' = [agent EXCEPT ![Batch[r][1]] = a]
        BY <1>1 DEF Open
    <2>2. where[Batch[r][1]] = "waiting"
        BY <1>1, FirstTask DEF Open, IdleWaits
    <2>3. where' = [where EXCEPT ![Batch[r][1]] = "selected"] /\ left' = left
        BY <1>1 DEF Open
    <2>4. AgentsGiven' /\ RetriesLeft' /\ WaitingHasAll'
        BY <2>1, <2>2, <2>3, FirstTask DEF AgentsGiven, RetriesLeft, WaitingHasAll, Given, TypeOK
    <2>5. phase' = [phase EXCEPT ![r] = "selecting"]
        BY <1>1 DEF Open
    <2>6. IdleWaits'
        BY <2>3, <2>5, FirstTask, OwnerAssumption DEF IdleWaits, TypeOK
    <2>7. InOrder'
        <3> SUFFICES ASSUME NEW q \in Requests, phase'[q] = "selecting",
                            NEW i \in DOMAIN Batch[q], NEW j \in DOMAIN Batch[q],
                            i < j, where'[Batch[q][i]] = "selected"
                     PROVE  where'[Batch[q][j]] = "waiting"
            BY DEF InOrder
        <3>1. CASE q = r
            <4>1. phase[r] = "idle"
                BY <1>1 DEF Open
            <4>2. where[Batch[q][j]] = "waiting" /\ Batch[q][j] # Batch[r][1]
                BY <3>1, <4>1, BatchTasks, BatchPlaces DEF IdleWaits
            <4> QED BY <2>3, <4>2, BatchTasks DEF TypeOK
        <3>2. CASE q # r
            <4>1. Batch[q][i] # Batch[r][1] /\ Batch[q][j] # Batch[r][1]
                BY <3>2, BatchTasks, FirstTask
            <4> QED BY <2>3, <2>5, <3>2, <4>1, BatchTasks DEF TypeOK, InOrder
        <3> QED BY <3>1, <3>2
    <2> QED BY <2>4, <2>6, <2>7
<1>2. CASE OpenInVain(r)
    <2>1. /\ phase[r] = "idle" /\ phase' = [phase EXCEPT ![r] = "returned"]
          /\ agent' = agent /\ left' = left
        BY <1>2 DEF OpenInVain
    <2>2. \A t \in Tasks : /\ where'[t] \in {where[t], "queued", "returned"}
                           /\ Owner[t] # r => where'[t] = where[t]
        BY <1>2, FirstTask DEF OpenInVain, TasksOf, TypeOK
    <2>3. AgentsGiven' /\ RetriesLeft' /\ WaitingHasAll'
        BY <2>1, <2>2 DEF AgentsGiven, RetriesLeft, WaitingHasAll, Given
    <2>4. IdleWaits'
        BY <2>1, <2>2, OwnerAssumption DEF IdleWaits, TypeOK
    <2>5. InOrder'
        BY <2>1, <2>2, BatchTasks DEF InOrder, TypeOK
    <2> QED BY <2>3, <2>4, <2>5
<1>3. CASE BeginSelected(r)
    <2>1. /\ where[Batch[r][1]] = "selected"
          /\ phase' = [phase EXCEPT ![r] = "running"]
          /\ where' = [where EXCEPT ![Batch[r][1]] = "executing"]
          /\ agent' = agent /\ left' = left
        BY <1>3 DEF BeginSelected, Enter
    <2>2. AgentsGiven' /\ RetriesLeft' /\ WaitingHasAll'
        BY <2>1, FirstTask DEF AgentsGiven, RetriesLeft, WaitingHasAll, Given, TypeOK
    <2>3. IdleWaits'
        BY <2>1, FirstTask, OwnerAssumption DEF IdleWaits, TypeOK
    <2>4. InOrder'
        BY <2>1, FirstTask, BatchTasks DEF InOrder, TypeOK
    <2> QED BY <2>2, <2>3, <2>4
<1>4. CASE CollectBatch(r)
    BY <1>4, BatchTasks, OwnerAssumption
       DEF CollectBatch, AgentsGiven, RetriesLeft, WaitingHasAll, Given, IdleWaits, InOrder, TypeOK
<1> QED BY <1>1, <1>2, <1>3, <1>4

(* A step of a task that is under way. *)
LEMMA TaskShape ==
    ASSUME TypeOK, Shape, TypeOK', NEW t \in Tasks,
           Executed(t) \/ TaskStep(t) \/ \E r \in Requests : BeginAssigned(r, t)
    PROVE  Shape'
<1>1. /\ Given(t) /\ where[t] # "selected" /\ where[t] # "waiting"
      /\ \E w \in Places \ {"waiting", "selected"} : where' = [where EXCEPT ![t] = w]
      /\ agent' = agent
      /\ phase' = phase \/ phase' = [phase EXCEPT ![Owner[t]] = "returned"]
    BY DEF Executed, ExecuteSucceeds, ExecuteFails, TaskStep, ProcessSucceeds, ProcessFails,
           ProcessFailsForGood, TimesOut, Retry, GiveUp, BeginAssigned, Enter, Answer,
           InProcess, Given, Places
<1>2. \A u \in Tasks : u # t => left'[u] = left[u]
    BY DEF Executed, ExecuteSucceeds, ExecuteFails, TaskStep, ProcessSucceeds, ProcessFails,
           ProcessFailsForGood, TimesOut, Retry, GiveUp, BeginAssigned, Enter, Answer, TypeOK
<1>3. Given(t)' /\ where'[t] # "between" => left'[t] >= 0
    BY DEF Executed, ExecuteSucceeds, ExecuteFails, TaskStep, ProcessSucceeds, ProcessFails,
           ProcessFailsForGood, TimesOut, Retry, GiveUp, BeginAssigned, Enter, Answer,
           InProcess, Given, Shape, RetriesLeft, TypeOK
<1>4. AgentsGiven' /\ RetriesLeft' /\ WaitingHasAll'
    BY <1>1, <1>2, <1>3 DEF Shape, AgentsGiven, RetriesLeft, WaitingHasAll, Given, TypeOK
<1>5. IdleWaits'
    BY ZenonT(60), <1>1, OwnerAssumption DEF Shape, IdleWaits, TypeOK
<1>6. InOrder'
    <2> SUFFICES ASSUME NEW q \in Requests, phase'[q] = "selecting",
                        NEW i \in DOMAIN Batch[q], NEW j \in DOMAIN Batch[q],
                        i < j, where'[Batch[q][i]] = "selected"
                 PROVE  where'[Batch[q][j]] = "waiting"
        BY DEF InOrder
    <2>1. phase[q] = "selecting"
        BY <1>1, OwnerAssumption DEF TypeOK
    <2>2. where[Batch[q][i]] = "selected"
        BY <1>1, BatchTasks DEF TypeOK
    <2>3. where[Batch[q][j]] = "waiting"
        BY <2>1, <2>2 DEF Shape, InOrder
    <2> QED BY <1>1, <2>3, BatchTasks DEF TypeOK
<1> QED BY <1>4, <1>5, <1>6 DEF Shape

LEMMA AssignShape ==
    ASSUME TypeOK, Shape, NEW r \in Requests, NEW i \in DOMAIN Batch[r],
           AssignAndSelect(r, i) \/ AssignLast(r, i)
    PROVE  Shape'
<1> DEFINE t == Batch[r][i]
<1>0. /\ t \in Tasks /\ Owner[t] = r /\ where[t] = "selected" /\ phase[r] = "selecting"
      /\ \A j \in DOMAIN Batch[r] : i < j => where[Batch[r][j]] = "waiting"
    BY BatchTasks DEF AssignAndSelect, AssignLast, Shape, InOrder
<1> HIDE DEF t
<1>1. CASE AssignAndSelect(r, i)
    <2> DEFINE u == Batch[r][i + 1]
    <2>1. i + 1 \in DOMAIN Batch[r] /\ u \in Tasks /\ Owner[u] = r
        BY <1>1, BatchTasks DEF AssignAndSelect
    <2>2. where[u] = "waiting" /\ u # t
        BY <1>0, <2>1, BatchPlaces DEF t
    <2>3. /\ \E a \in Agents : agent' = [agent EXCEPT ![u] = a]
          /\ where' = [where EXCEPT ![t] = "assigned", ![u] = "selected"]
          /\ phase' = phase /\ left' = left
        BY <1>1 DEF AssignAndSelect, t
    <2>4. InOrder'
        <3> SUFFICES ASSUME NEW q \in Requests, phase[q] = "selecting",
                            NEW m \in DOMAIN Batch[q], NEW n \in DOMAIN Batch[q],
                            m < n, where'[Batch[q][m]] = "selected"
                     PROVE  where'[Batch[q][n]] = "waiting"
            BY <2>3 DEF InOrder
        <3>1. CASE q = r
            <4>1. m \in Nat /\ n \in Nat /\ i \in Nat
                BY <3>1, BatchPlaces
            <4>2. m = i + 1
                <5>1. CASE m < i
                    <6>1. Batch[q][m] # t /\ Batch[q][m] # u
                        BY <3>1, <4>1, <5>1, <2>1, BatchPlaces DEF t
                    <6>2. where[Batch[q][m]] = "selected"
                        BY <2>3, <6>1, BatchTasks DEF TypeOK
                    <6> QED BY <1>0, <3>1, <5>1, <6>2 DEF Shape, InOrder, t
                <5>2. CASE m = i
                    BY <1>0, <2>1, <2>2, <2>3, <3>1, <5>2 DEF TypeOK, t
                <5>3. CASE m > i + 1
                    <6>1. where[Batch[q][m]] = "waiting"
                        BY <1>0, <3>1, <4>1, <5>3
                    <6>2. Batch[q][m] # t /\ Batch[q][m] # u
                        BY <3>1, <4>1, <5>3, <2>1, BatchPlaces DEF t
                    <6> QED BY <2>3, <6>1, <6>2, BatchTasks DEF TypeOK
                <5> QED BY <4>1, <5>1, <5>2, <5>3
            <4>3. where[Batch[q][n]] = "waiting"
                BY <1>0, <3>1, <4>1, <4>2
            <4>4. Batch[q][n] # t /\ Batch[q][n] # u
                BY <3>1, <4>1, <4>2, <2>1, BatchPlaces DEF t
            <4> QED BY <2>3, <4>3, <4>4, BatchTasks DEF TypeOK
        <3>2. CASE q # r
            <4>1. Batch[q][m] \notin {t, u} /\ Batch[q][n] \notin {t, u}
                BY <1>0, <2>1, <3>2, BatchTasks
            <4> HIDE DEF u
            <4> QED BY <2>3, <4>1, BatchTasks DEF TypeOK, Shape, InOrder
        <3> QED BY <3>1, <3>2
    <2> HIDE DEF u
    <2>5. AgentsGiven' /\ RetriesLeft' /\ WaitingHasAll'
        BY <1>0, <2>1, <2>2, <2>3
           DEF Shape, AgentsGiven, RetriesLeft, WaitingHasAll, Given, TypeOK
    <2>6. IdleWaits'
        BY <1>0, <2>1, <2>3 DEF Shape, IdleWaits, TypeOK
    <2> QED BY <2>4, <2>5, <2>6 DEF Shape
<1>2. CASE AssignLast(r, i)
    <2> DEFINE rest == {Batch[r][j] : j \in {k \in DOMAIN Batch[r] : k > i}}
    <2>1. \A v \in rest : v \in Tasks /\ Owner[v] = r /\ where[v] = "waiting"
        BY <1>0, BatchTasks, BatchPlaces
    <2>2. where' = [v \in Tasks |-> IF v = t THEN "assigned"
                                    ELSE IF v \in rest THEN "queued" ELSE where[v]]
        BY <1>2 DEF AssignLast, t
    <2>3. phase' = [phase EXCEPT ![r] = "running"] /\ agent' = agent /\ left' = left
        BY <1>2 DEF AssignLast
    <2> HIDE DEF rest
    <2>4. AgentsGiven' /\ RetriesLeft' /\ WaitingHasAll'
        BY <1>0, <2>1, <2>2, <2>3
           DEF Shape, AgentsGiven, RetriesLeft, WaitingHasAll, Given
    <2>5. IdleWaits'
        BY <1>0, <2>1, <2>2, <2>3, OwnerAssumption DEF Shape, IdleWaits, TypeOK
    <2>6. InOrder'
        BY <1>0, <2>1, <2>2, <2>3, BatchTasks DEF Shape, InOrder, TypeOK
    <2> QED BY <2>4, <2>5, <2>6 DEF Shape
<1> QED BY <1>1, <1>2

LEMMA NextShape == TypeOK /\ Shape /\ [Next]_vars => Shape'
<1> SUFFICES ASSUME TypeOK, Shape, [Next]_vars PROVE Shape'
    OBVIOUS
<1>1. TypeOK'
    BY NextTyped DEF Shape
<1>2. CASE UNCHANGED vars
    BY <1>2 DEF vars, Shape, AgentsGiven, RetriesLeft, WaitingHasAll, Given, IdleWaits, InOrder
<1> QED BY <1>1, <1>2, StepCases, OpenShape, AssignShape, TaskShape

-----------------------------------------------------------------------------
(* The load of the agents. *)
LEMMA InsideFinite ==
    ASSUME NEW a
    PROVE  IsFiniteSet(Inside(a))
BY TasksFinite, FS_Subset DEF Inside

LEMMA LoadDef ==
    LoadIsTasksInFlight <=>
        \A a \in Agents : /\ active[a] = Cardinality(Inside(a))
                          /\ state[a] = "processing" => Inside(a) # {}
BY DEF LoadIsTasksInFlight, Inside

(* No task enters process() or leaves it. *)
LEMMA LoadSame ==
    ASSUME LoadIsTasksInFlight,
           \A t \in Tasks : \/ agent'[t] = agent[t] /\ (InProcess(t)' <=> InProcess(t))
                            \/ ~InProcess(t) /\ ~InProcess(t)',
           active' = active,
           \A a \in Agents : state'[a] = "processing" => state[a] = "processing"
    PROVE  LoadIsTasksInFlight'
<1>1. \A a \in Agents : Inside(a)' = Inside(a)
    BY DEF Inside
<1> QED BY <1>1, LoadDef DEF LoadIsTasksInFlight, Inside

LEMMA LoadEnters ==
    ASSUME TypeOK, LoadIsTasksInFlight, NEW t \in Tasks, agent[t] \in Agents, ~InProcess(t),
           Enter(t), agent' = agent
    PROVE  LoadIsTasksInFlight'
<1> SUFFICES ASSUME NEW a \in Agents
             PROVE  /\ active'[a] = Cardinality(Inside(a)')
                    /\ state'[a] = "processing" => Inside(a)' # {}
    BY DEF LoadIsTasksInFlight, Inside
<1>1. active[a] = Cardinality(Inside(a)) /\ (state[a] = "processing" => Inside(a) # {})
    BY LoadDef
<1>2. InProcess(t)' /\ \A u \in Tasks \ {t} : InProcess(u)' <=> InProcess(u)
    BY DEF Enter, InProcess, TypeOK
<1>3. CASE a = agent[t]
    <2>1. Inside(a)' = Inside(a) \cup {t} /\ t \notin Inside(a)
        BY <1>2, <1>3 DEF Inside
    <2>2. Cardinality(Inside(a)') = Cardinality(Inside(a)) + 1
        BY <2>1, InsideFinite, FS_AddElement
    <2>3. active'[a] = active[a] + 1
        BY <1>3 DEF Enter, TypeOK
    <2> QED BY <1>1, <2>1, <2>2, <2>3
<1>4. CASE a # agent[t]
    <2>1. Inside(a)' = Inside(a)
        BY <1>2, <1>4 DEF Inside
    <2>2. active'[a] = active[a] /\ state'[a] = state[a]
        BY <1>4 DEF Enter, TypeOK
    <2> QED BY <1>1, <2>1, <2>2
<1> QED BY <1>3, <1>4

LEMMA LoadLeaves ==
    ASSUME TypeOK, LoadIsTasksInFlight, NEW t \in Tasks, agent[t] \in Agents, InProcess(t),
           Leave(t), agent' = agent,
           NEW w \in {"returned", "between"}, where' = [where EXCEPT ![t] = w]
    PROVE  LoadIsTasksInFlight'
<1> SUFFICES ASSUME NEW a \in Agents
             PROVE  /\ active'[a] = Cardinality(Inside(a)')
                    /\ state'[a] = "processing" => Inside(a)' # {}
    BY DEF LoadIsTasksInFlight, Inside
<1>1. active[a] = Cardinality(Inside(a)) /\ (state[a] = "processing" => Inside(a) # {})
    BY LoadDef
<1>2. ~InProcess(t)' /\ \A u \in Tasks \ {t} : InProcess(u)' <=> InProcess(u)
    BY DEF InProcess, TypeOK
<1>3. CASE a = agent[t]
    <2>1. Inside(a)' = Inside(a) \ {t} /\ t \in Inside(a)
        BY <1>2, <1>3 DEF Inside
    <2>2. Cardinality(Inside(a)') = Cardinality(Inside(a)) - 1
        BY <2>1, InsideFinite, FS_RemoveElement
    <2>3. active'[a] = active[a] - 1 /\ state'[a] # "processing"
        BY <1>3 DEF Leave, TypeOK
    <2> QED BY <1>1, <2>2, <2>3
<1>4. CASE a # agent[t]
    <2>1. Inside(a)' = Inside(a)
        BY <1>2, <1>4 DEF Inside
    <2>2. active'[a] = active[a] /\ state'[a] = state[a]
        BY <1>4 DEF Leave, TypeOK
    <2> QED BY <1>1, <2>1, <2>2
<1> QED BY <1>3, <1>4

LEMMA NextLoad ==
    TypeOK /\ Shape /\ LoadIsTasksInFlight /\ [Next]_vars => LoadIsTasksInFlight'
<1> SUFFICES ASSUME TypeOK, Shape, LoadIsTasksInFlight, [Next]_vars
             PROVE  LoadIsTasksInFlight'
    OBVIOUS
<1>1. ASSUME NEW r \in Requests, Open(r) PROVE LoadIsTasksInFlight'
    <2>1. where[Batch[r][1]] = "waiting"
        BY <1>1, FirstTask DEF Open, Shape, IdleWaits
    <2> QED BY <1>1, <2>1, FirstTask, LoadSame DEF Open, InProcess, TypeOK
<1>2. ASSUME NEW r \in Requests, OpenInVain(r) PROVE LoadIsTasksInFlight'
    <2>1. \A t \in Tasks : Owner[t] = r => where[t] = "waiting"
        BY <1>2 DEF OpenInVain, Shape, IdleWaits
    <2>2. \A t \in Tasks : /\ where'[t] \in {where[t], "queued", "returned"}
                           /\ Owner[t] # r => where'[t] = where[t]
        BY <1>2, FirstTask DEF OpenInVain, TasksOf, TypeOK
    <2>3. agent' = agent /\ active' = active /\ state' = state
        BY <1>2 DEF OpenInVain
    <2> QED BY <2>1, <2>2, <2>3, LoadSame DEF InProcess
<1>3. ASSUME NEW r \in Requests, NEW i \in DOMAIN Batch[r], AssignAndSelect(r, i)
      PROVE  LoadIsTasksInFlight'
    <2>1. /\ Batch[r][i + 1] \in Tasks /\ where[Batch[r][i + 1]] = "waiting"
          /\ Batch[r][i] \in Tasks /\ where[Batch[r][i]] = "selected"
        BY <1>3, BatchTasks, BatchPlaces DEF AssignAndSelect, Shape, InOrder
    <2> QED BY <1>3, <2>1, LoadSame DEF AssignAndSelect, InProcess, TypeOK
<1>4. ASSUME NEW r \in Requests, NEW i \in DOMAIN Batch[r], AssignLast(r, i)
      PROVE  LoadIsTasksInFlight'
    <2> DEFINE rest == {Batch[r][j] : j \in {k \in DOMAIN Batch[r] : k > i}}
    <2>1. /\ \A v \in rest : where[v] = "waiting"
          /\ where[Batch[r][i]] = "selected"
        BY <1>4, BatchPlaces DEF AssignLast, Shape, InOrder
    <2>2. /\ where' = [v \in Tasks |-> IF v = Batch[r][i] THEN "assigned"
                                       ELSE IF v \in rest THEN "queued" ELSE where[v]]
          /\ agent' = agent /\ active' = active /\ state' = state
        BY <1>4 DEF AssignLast
    <2> HIDE DEF rest
    <2> QED BY <2>1, <2>2, LoadSame DEF InProcess
<1>5. ASSUME NEW r \in Requests, BeginSelected(r) PROVE LoadIsTasksInFlight'
    <2>1. /\ Batch[r][1] \in Tasks /\ agent[Batch[r][1]] \in Agents /\ ~InProcess(Batch[r][1])
          /\ Enter(Batch[r][1]) /\ agent' = agent
        BY <1>5, FirstTask DEF BeginSelected, InProcess, Shape, AgentsGiven, Given
    <2> QED BY <2>1, LoadEnters
<1>6. ASSUME NEW t \in Tasks, Retry(t) \/ \E r \in Requests : BeginAssigned(r, t)
      PROVE  LoadIsTasksInFlight'
    <2>1. agent[t] \in Agents /\ ~InProcess(t) /\ Enter(t) /\ agent' = agent
        BY <1>6 DEF Retry, BeginAssigned, InProcess, Shape, AgentsGiven, Given
    <2> QED BY <2>1, LoadEnters
<1>7. ASSUME NEW t \in Tasks,
             ProcessSucceeds(t) \/ ProcessFailsForGood(t) \/ ProcessFails(t) \/ TimesOut(t)
      PROVE  LoadIsTasksInFlight'
    <2>1. /\ agent[t] \in Agents /\ InProcess(t) /\ Leave(t) /\ agent' = agent
          /\ \E w \in {"returned", "between"} : where' = [where EXCEPT ![t] = w]
        BY <1>7 DEF ProcessSucceeds, ProcessFailsForGood, ProcessFails, TimesOut, Answer,
                    InProcess, Shape, AgentsGiven, Given
    <2> QED BY <2>1, LoadLeaves
<1>8. ASSUME NEW t \in Tasks, Executed(t) PROVE LoadIsTasksInFlight'
    <2>1. /\ \A u \in Tasks : InProcess(u)' <=> InProcess(u)
          /\ agent' = agent /\ active' = active
        BY <1>8 DEF Executed, ExecuteSucceeds, ExecuteFails, InProcess, TypeOK
    <2>2. \A a \in Agents : state'[a] = "processing" => state[a] = "processing"
        BY <1>8 DEF Executed, ExecuteSucceeds, ExecuteFails, TypeOK
    <2> QED BY <2>1, <2>2, LoadSame
<1>9. ASSUME NEW t \in Tasks, GiveUp(t) PROVE LoadIsTasksInFlight'
    <2>1. \A u \in Tasks : InProcess(u)' <=> InProcess(u)
        BY <1>9 DEF GiveUp, Answer, InProcess, TypeOK
    <2> QED BY <1>9, <2>1, LoadSame DEF GiveUp
<1>10. ASSUME NEW r \in Requests, CollectBatch(r) PROVE LoadIsTasksInFlight'
    BY <1>10, LoadSame DEF CollectBatch, InProcess
<1>11. CASE UNCHANGED vars
    BY <1>11, LoadSame DEF vars, InProcess
<1> QED BY <1>1, <1>2, <1>3, <1>4, <1>5, <1>6, <1>7, <1>8, <1>9, <1>10, <1>11, StepCases
        DEF TaskStep

-----------------------------------------------------------------------------
(* The scheduler's table of running tasks. *)
Listed(a, t, place, phases, given) ==
    /\ place[t] \notin {"waiting", "selected", "queued"}
    /\ Kind[Owner[t]] # "delegate"
    /\ phases[Owner[t]] \in {"selecting", "running"}
    /\ given[t] = a

Entry(a, t) == Listed(a, t, where, phase, agent)

LEMMA EntryDef ==
    EntriesPlaced /\ EntriesAreAlive <=>
        \A a \in Agents : processing[a] # None => Entry(a, processing[a])
BY DEF EntriesPlaced, EntriesAreAlive, Entry, Listed, Alive

LEMMA NextEntries ==
    TypeOK /\ Shape /\ EntriesPlaced /\ EntriesAreAlive /\ [Next]_vars
        => EntriesPlaced' /\ EntriesAreAlive'
<1> SUFFICES ASSUME TypeOK, Shape, EntriesPlaced, EntriesAreAlive, [Next]_vars,
                    NEW a \in Agents, processing'[a] # None
             PROVE  Listed(a, processing'[a], where', phase', agent')
    BY DEF EntriesPlaced, EntriesAreAlive, Alive, Listed
<1> DEFINE x == processing[a]
<1>0. /\ x # None => x \in Tasks /\ Entry(a, x)
      /\ \A t \in Tasks : Owner[t] \in Requests
    BY EntryDef, OwnerAssumption DEF TypeOK
<1>1. CASE \E r \in Requests : Open(r)
    <2>1. PICK r \in Requests : Open(r)
        BY <1>1
    <2>2. phase[r] = "idle" /\ processing' = processing
        BY <2>1 DEF Open
    <2>3. x \in Tasks /\ Entry(a, x) /\ x # Batch[r][1]
        BY <1>0, <2>2, FirstTask DEF Entry, Listed
    <2> QED BY <1>0, <2>1, <2>2, <2>3 DEF Open, Entry, Listed, TypeOK
<1>2. CASE \E r \in Requests : OpenInVain(r)
    <2>1. PICK r \in Requests : OpenInVain(r)
        BY <1>2
    <2>2. /\ phase[r] = "idle" /\ phase' = [phase EXCEPT ![r] = "returned"]
          /\ processing' = processing /\ agent' = agent
        BY <2>1 DEF OpenInVain
    <2>3. x \in Tasks /\ Entry(a, x) /\ Owner[x] # r
        BY <1>0, <2>2 DEF Entry, Listed
    <2>4. where'[x] = where[x]
        BY <2>1, <2>3, FirstTask DEF OpenInVain, TasksOf, TypeOK
    <2> QED BY <1>0, <2>2, <2>3, <2>4 DEF Entry, Listed, TypeOK
<1>3. CASE \E r \in Requests : \E i \in DOMAIN Batch[r] : AssignAndSelect(r, i)
    <2>0. PICK r \in Requests : \E i \in DOMAIN Batch[r] : AssignAndSelect(r, i)
        BY <1>3
    <2>1. PICK i \in DOMAIN Batch[r] : AssignAndSelect(r, i)
        BY <2>0
    <2> DEFINE t == Batch[r][i]
               u == Batch[r][i + 1]
    <2>2. /\ t \in Tasks /\ Owner[t] = r /\ where[t] = "selected"
          /\ u \in Tasks /\ where[u] = "waiting"
          /\ phase[r] = "selecting" /\ Kind[r] = "parallel"
        BY <2>1, BatchTasks, BatchPlaces DEF AssignAndSelect, Shape, InOrder
    <2>3. /\ \E b \in Agents : agent' = [agent EXCEPT ![u] = b]
          /\ where' = [where EXCEPT ![t] = "assigned", ![u] = "selected"]
          /\ processing' = [processing EXCEPT ![agent[t]] = t]
          /\ phase' = phase
        BY <2>1 DEF AssignAndSelect
    <2> HIDE DEF t, u, x
    <2>4. CASE a = agent[t]
        BY <2>2, <2>3, <2>4 DEF Entry, Listed, TypeOK
    <2>5. CASE a # agent[t]
        <3>1. processing'[a] = x
            BY <2>3, <2>5 DEF TypeOK, x
        <3>2. x \in Tasks /\ Entry(a, x) /\ x # t /\ x # u
            BY <1>0, <2>2, <3>1 DEF Entry, Listed
        <3> QED BY <2>3, <3>1, <3>2 DEF Entry, Listed, TypeOK
    <2> QED BY <2>4, <2>5
<1>4. CASE \E r \in Requests : \E i \in DOMAIN Batch[r] : AssignLast(r, i)
    <2>0. PICK r \in Requests : \E i \in DOMAIN Batch[r] : AssignLast(r, i)
        BY <1>4
    <2>1. PICK i \in DOMAIN Batch[r] : AssignLast(r, i)
        BY <2>0
    <2> DEFINE t == Batch[r][i]
               rest == {Batch[r][j] : j \in {k \in DOMAIN Batch[r] : k > i}}
    <2>2. /\ t \in Tasks /\ Owner[t] = r /\ where[t] = "selected" /\ Kind[r] = "parallel"
          /\ \A v \in rest : where[v] = "waiting"
        BY <2>1, BatchTasks, BatchPlaces DEF AssignLast, Shape, InOrder
    <2>3. /\ where' = [v \in Tasks |-> IF v = t THEN "assigned"
                                       ELSE IF v \in rest THEN "queued" ELSE where[v]]
          /\ processing' = [processing EXCEPT ![agent[t]] = t]
          /\ phase' = [phase EXCEPT ![r] = "running"] /\ agent' = agent
        BY <2>1 DEF AssignLast
    <2> HIDE DEF t, rest, x
    <2>4. CASE a = agent[t]
        BY <2>2, <2>3, <2>4 DEF Entry, Listed, TypeOK
    <2>5. CASE a # agent[t]
        <3>1. processing'[a] = x
            BY <2>3, <2>5 DEF TypeOK, x
        <3>2. x \in Tasks /\ Entry(a, x) /\ x # t /\ x \notin rest
            BY <1>0, <2>2, <3>1 DEF Entry, Listed
        <3> QED BY <1>0, <2>3, <3>1, <3>2 DEF Entry, Listed, TypeOK
    <2> QED BY <2>4, <2>5
<1>5. CASE \E r \in Requests : BeginSelected(r)
    <2>1. PICK r \in Requests : BeginSelected(r)
        BY <1>5
    <2> DEFINE t == Batch[r][1]
    <2>2. t \in Tasks /\ Owner[t] = r /\ where[t] = "selected"
        BY <2>1, FirstTask DEF BeginSelected
    <2>3. /\ where' = [where EXCEPT ![t] = "executing"]
          /\ processing' = IF Kind[r] = "dispatch"
                           THEN [processing EXCEPT ![agent[t]] = t] ELSE processing
          /\ phase' = [phase EXCEPT ![r] = "running"] /\ agent' = agent
        BY <2>1 DEF BeginSelected, Enter
    <2> HIDE DEF t, x
    <2>4. CASE a = agent[t] /\ Kind[r] = "dispatch"
        BY <2>2, <2>3, <2>4 DEF Entry, Listed, TypeOK
    <2>5. CASE ~(a = agent[t] /\ Kind[r] = "dispatch")
        <3>1. processing'[a] = x
            BY <2>3, <2>5 DEF TypeOK, x
        <3>2. x \in Tasks /\ Entry(a, x) /\ x # t
            BY <1>0, <2>2, <3>1 DEF Entry, Listed
        <3> QED BY <1>0, <2>3, <3>1, <3>2 DEF Entry, Listed, TypeOK
    <2> QED BY <2>4, <2>5
<1>6. CASE \E r \in Requests : CollectBatch(r)
    <2>1. PICK r \in Requests : CollectBatch(r)
        BY <1>6
    <2>2. /\ phase' = [phase EXCEPT ![r] = "returned"] /\ agent' = agent /\ where' = where
          /\ processing'[a] = x
          /\ ~\E t \in Tasks : Owner[t] = r /\ where[t] # "queued" /\ agent[t] = a
        BY <2>1 DEF CollectBatch, TasksOf
    <2>3. x \in Tasks /\ Entry(a, x) /\ Owner[x] # r
        BY <1>0, <2>2 DEF Entry, Listed
    <2> QED BY <1>0, <2>2, <2>3 DEF Entry, Listed, TypeOK
<1>7. CASE \E t \in Tasks : \/ Executed(t) \/ Retry(t) \/ TimesOut(t) \/ ProcessFails(t)
                            \/ \E r \in Requests : BeginAssigned(r, t)
    <2>1. PICK t \in Tasks :
            /\ \E w \in {"executing", "logging", "erring", "failing", "between"} :
                   where' = [where EXCEPT ![t] = w]
            /\ processing' = processing /\ phase' = phase /\ agent' = agent
        BY <1>7 DEF Executed, ExecuteSucceeds, ExecuteFails, Retry, TimesOut, ProcessFails,
                    BeginAssigned, Enter
    <2> QED BY <1>0, <2>1 DEF Entry, Listed, TypeOK
<1>8. CASE \E t \in Tasks : ProcessSucceeds(t) \/ ProcessFailsForGood(t) \/ GiveUp(t)
    <2>1. PICK t \in Tasks : /\ agent[t] \in Agents /\ agent' = agent
                             /\ \E status \in {"success", "error", "timeout"} : Answer(t, status)
        BY <1>8 DEF ProcessSucceeds, ProcessFailsForGood, GiveUp, InProcess,
                    Shape, AgentsGiven, Given
    <2> DEFINE r == Owner[t]
    <2>2. /\ where' = [where EXCEPT ![t] = "returned"]
          /\ phase' = IF Kind[r] = "parallel" THEN phase ELSE [phase EXCEPT ![r] = "returned"]
          /\ processing' = IF Kind[r] = "dispatch"
                           THEN [processing EXCEPT ![agent[t]] = None] ELSE processing
        BY <2>1 DEF Answer
    <2>3. processing'[a] = x /\ x \in Tasks /\ Entry(a, x)
        BY <1>0, <2>1, <2>2 DEF TypeOK
    <2>4. Kind[r] = "dispatch" => a # agent[t]
        BY <2>1, <2>2 DEF TypeOK
    <2>5. Kind[r] # "parallel" => Owner[x] # r
        <3> SUFFICES ASSUME Kind[r] # "parallel", Owner[x] = r PROVE FALSE
            OBVIOUS
        <3>1. x = t
            BY <1>0, <2>3, FirstTask DEF TasksOf
        <3> QED BY <1>0, <2>3, <2>4, <3>1, KindAssumption DEF Entry, Listed
    <2> HIDE DEF r, x
    <2> QED BY <1>0, <2>1, <2>2, <2>3, <2>5 DEF Entry, Listed, TypeOK
<1>9. CASE UNCHANGED vars
    BY <1>0, <1>9 DEF vars, Entry, Listed
<1> QED BY <1>1, <1>2, <1>3, <1>4, <1>5, <1>6, <1>7, <1>8, <1>9, StepCases DEF TaskStep

-----------------------------------------------------------------------------
LEMMA InitInductive == Init => IInv
<1> SUFFICES ASSUME Init PROVE IInv
    OBVIOUS
<1>1. TypeOK
    BY RetriesAssumption DEF Init, TypeOK, AgentStates, Places
<1>2. Shape
    BY RetriesAssumption, BatchTasks
       DEF Init, Shape, AgentsGiven, RetriesLeft, WaitingHasAll, IdleWaits, InOrder, Given
<1>3. EntriesPlaced /\ EntriesAreAlive
    BY DEF Init, EntriesPlaced, EntriesAreAlive
<1>4. LoadIsTasksInFlight
    <2>1. \A a \in Agents : Inside(a) = {}
        BY DEF Init, Inside, InProcess
    <2> QED BY <2>1, LoadDef, FS_EmptySet DEF Init
<1> QED BY <1>1, <1>2, <1>3, <1>4 DEF IInv

LEMMA NextInductive == IInv /\ [Next]_vars => IInv'
BY NextTyped, NextShape, NextEntries, NextLoad DEF IInv, Shape

(* The inductive invariant: loads count tasks in process, entries name     *)
(* tasks under way, and batches are assigned in order.                     *)
THEOREM InductiveInvariant == Spec => []IInv
<1> QED BY InitInductive, NextInductive, PTL DEF Spec

(* The workforce's state is always of its type; a task never has fewer     *)
(* than -1 retries left.                                                   *)
THEOREM TypeCorrect == Spec => []TypeOK
<1>1. IInv => TypeOK
    BY DEF IInv
<1> QED BY <1>1, InductiveInvariant, PTL

(* active_tasks counts the tasks an agent is processing, on every way into *)
(* process() and out of it, for any number of agents, tasks and retries    *)
(* (base_agent.py:94-149).                                                 *)
THEOREM LoadsAreExact == Spec => []LoadIsTasksInFlight
<1>1. IInv => LoadIsTasksInFlight
    BY DEF IInv
<1> QED BY <1>1, InductiveInvariant, PTL

(* An entry of the scheduler's table always names a task of a request that *)
(* is being served, and the agent the task was given to                    *)
(* (agent_scheduler.py:113-119).                                           *)
THEOREM EntriesLive == Spec => []EntriesAreAlive
<1>1. IInv => EntriesAreAlive
    BY DEF IInv
<1> QED BY <1>1, InductiveInvariant, PTL

(* An agent in ERROR with no task under way is never used again.           *)
LEMMA NextLost ==
    ASSUME IInv, [Next]_vars, NEW a \in Agents, Lost(a)
    PROVE  Lost(a)'
<1>0. TypeOK /\ Shape /\ state[a] = "error" /\ \A t \in Tasks : agent[t] = a => where[t] = "returned"
    BY DEF IInv, Lost
<1>1. ASSUME NEW r \in Requests, Open(r) PROVE Lost(a)'
    <2>0. PICK b \in Agents : /\ Choice(r, Batch[r][1], b)
                              /\ agent' = [agent EXCEPT ![Batch[r][1]] = b]
        BY <1>1 DEF Open
    <2>1. b # a
        BY <1>0, <2>0, ChoicesAgents, FirstTask
    <2>2. /\ Batch[r][1] \in Tasks /\ state' = state
          /\ where' = [where EXCEPT ![Batch[r][1]] = "selected"]
        BY <1>1, FirstTask DEF Open
    <2> QED BY <1>0, <2>0, <2>1, <2>2 DEF Lost, TypeOK
<1>2. ASSUME NEW r \in Requests, OpenInVain(r) PROVE Lost(a)'
    <2>1. \A t \in Tasks : Owner[t] = r => where[t] = "waiting"
        BY <1>0, <1>2 DEF OpenInVain, Shape, IdleWaits
    <2>2. \A t \in Tasks : Owner[t] # r => where'[t] = where[t]
        BY <1>0, <1>2, FirstTask DEF OpenInVain, TasksOf, TypeOK
    <2> QED BY <1>0, <1>2, <2>1, <2>2 DEF OpenInVain, Lost
<1>3. ASSUME NEW r \in Requests, NEW i \in DOMAIN Batch[r], AssignAndSelect(r, i) PROVE Lost(a)'
    <2>1. /\ Batch[r][i] \in Tasks /\ where[Batch[r][i]] = "selected"
          /\ Batch[r][i + 1] \in Tasks
        BY <1>3, BatchTasks DEF AssignAndSelect
    <2>2. PICK b \in Agents : b # a /\ agent' = [agent EXCEPT ![Batch[r][i + 1]] = b]
        BY <1>0, <1>3, <2>1, ChoicesAgents DEF AssignAndSelect
    <2>3. where' = [where EXCEPT ![Batch[r][i]] = "assigned", ![Batch[r][i + 1]] = "selected"]
          /\ state' = state
        BY <1>3 DEF AssignAndSelect
    <2> QED BY <1>0, <2>1, <2>2, <2>3 DEF Lost, TypeOK
<1>4. ASSUME NEW r \in Requests, NEW i \in DOMAIN Batch[r], AssignLast(r, i) PROVE Lost(a)'
    <2> DEFINE rest == {Batch[r][j] : j \in {k \in DOMAIN Batch[r] : k > i}}
    <2>1. where[Batch[r][i]] = "selected" /\ \A v \in rest : where[v] = "waiting"
        BY <1>0, <1>4, BatchPlaces DEF AssignLast, Shape, InOrder
    <2>2. /\ where' = [v \in Tasks |-> IF v = Batch[r][i] THEN "assigned"
                                       ELSE IF v \in rest THEN "queued" ELSE where[v]]
          /\ agent' = agent /\ state' = state
        BY <1>4 DEF AssignLast
    <2> HIDE DEF rest
    <2> QED BY <1>0, <2>1, <2>2 DEF Lost
<1>5. ASSUME NEW t \in Tasks, where[t] # "returned", agent' = agent,
             \A u \in Tasks : u # t => where'[u] = where[u],
             \A b \in Agents : b # agent[t] => state'[b] = state[b]
      PROVE  Lost(a)'
    BY <1>0, <1>5 DEF Lost
<1>6. ASSUME NEW r \in Requests, BeginSelected(r) PROVE Lost(a)'
    <2>1. Batch[r][1] \in Tasks /\ where[Batch[r][1]] = "selected"
        BY <1>6, FirstTask DEF BeginSelected
    <2>2. /\ agent' = agent
          /\ \A u \in Tasks : u # Batch[r][1] => where'[u] = where[u]
          /\ \A b \in Agents : b # agent[Batch[r][1]] => state'[b] = state[b]
        BY <1>0, <1>6 DEF BeginSelected, Enter, TypeOK
    <2> QED BY <1>5, <2>1, <2>2
<1>7. ASSUME NEW t \in Tasks, Executed(t) \/ TaskStep(t) \/ \E r \in Requests : BeginAssigned(r, t)
      PROVE  Lost(a)'
    <2>1. where[t] # "returned" /\ agent' = agent
        BY <1>7 DEF Executed, ExecuteSucceeds, ExecuteFails, TaskStep, ProcessSucceeds,
                    ProcessFails, ProcessFailsForGood, TimesOut, Retry, GiveUp, BeginAssigned,
                    InProcess
    <2>2. \A u \in Tasks : u # t => where'[u] = where[u]
        BY <1>0, <1>7
           DEF Executed, ExecuteSucceeds, ExecuteFails, TaskStep, ProcessSucceeds,
               ProcessFails, ProcessFailsForGood, TimesOut, Retry, GiveUp, BeginAssigned,
               Enter, Answer, TypeOK
    <2>3. \A b \in Agents : b # agent[t] => state'[b] = state[b]
        BY <1>0, <1>7
           DEF Executed, ExecuteSucceeds, ExecuteFails, TaskStep, ProcessSucceeds,
               ProcessFails, ProcessFailsForGood, TimesOut, Retry, GiveUp, BeginAssigned,
               Enter, Leave, TypeOK
    <2> QED BY <1>5, <2>1, <2>2, <2>3
<1>8. ASSUME NEW r \in Requests, CollectBatch(r) PROVE Lost(a)'
    BY <1>0, <1>8 DEF CollectBatch, Lost
<1>9. CASE UNCHANGED vars
    BY <1>0, <1>9 DEF vars, Lost
<1> QED BY <1>1, <1>2, <1>3, <1>4, <1>6, <1>7, <1>8, <1>9, StepCases

(* An agent whose last task failed for good is out of the workforce for    *)
(* good (base_agent.py:126-149, agent_scheduler.py:90-111).                *)
THEOREM LostStayLost == Spec => LostAgentsStayLost
<1>1. IInv /\ [Next]_vars => [\A a \in Agents : Lost(a) => Lost(a)']_vars
    BY NextLost
<1> QED BY <1>1, InductiveInvariant, PTL DEF Spec, LostAgentsStayLost
=============================================================================
