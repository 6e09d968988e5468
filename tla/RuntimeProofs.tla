---------------------------- MODULE RuntimeProofs ----------------------------
(***************************************************************************)
(* Proofs about WorkflowRuntime, for any workflows, dependency lists and   *)
(* number of workers.                                                      *)
(***************************************************************************)
EXTENDS WorkflowRuntime, FiniteSetTheorems, TLAPS

Settled(t) == taskState[t] \in {"COMPLETED", "QUEUED"}

Typed ==
    /\ wfState \in [Workflows -> WorkflowStates]
    /\ taskState \in [Tasks -> TaskStates]
    /\ gathering \in [Workflows -> BOOLEAN]
    /\ layer \in [Workflows -> SUBSET Tasks]
    /\ placed \in [Workflows -> SUBSET Tasks]
    /\ holders \in SUBSET Tasks
    /\ queue \in SUBSET Tasks

PoolBound == Cardinality(holders) <= MaxWorkers

(* The layer of a workflow that is executed: tasks of its own, all of whose *)
(* dependencies are settled; what it placed before is settled too.          *)
LayersOrdered ==
    \A w \in Workflows :
        /\ layer[w] \subseteq TasksOf(w)
        /\ ~gathering[w] => layer[w] = {}
        /\ \A t \in layer[w] : \A d \in InGraph(t) : Settled(d)
        /\ gathering[w] =>
              /\ layer[w] \subseteq placed[w] /\ placed[w] \subseteq Layered(w)
              /\ \A t \in placed[w] \ layer[w] : Settled(t)

(* What can be said of any task. *)
TasksInOrder ==
    /\ queue = {t \in Tasks : taskState[t] = "QUEUED"}
    /\ \A t \in Tasks :
          /\ taskState[t] # "FAILED"
          /\ taskState[t] = "RUNNING" => t \in layer[Owner[t]]
          /\ t \in Blocked => taskState[t] = "PENDING"

(* A COMPLETED workflow is over. *)
Over ==
    \A w \in Workflows : wfState[w] = "COMPLETED" =>
        ~gathering[w] /\ \A t \in Layered(w) : Settled(t)

IInv == Typed /\ PoolBound /\ WorkersReleased /\ LayersOrdered
              /\ TasksInOrder /\ NothingRunsAhead /\ Over

-----------------------------------------------------------------------------
(* A task whose in-degree has come down to zero has all its dependencies   *)
(* in the layers: a repetition only ever makes the in-degree too high.     *)
LEMMA ReadyIsSafe ==
    ASSUME NEW t \in Tasks, NEW S, Ready(t, S)
    PROVE  InGraph(t) \subseteq S
<1> DEFINE I == {i \in DOMAIN Deps[t] : Owner[Deps[t][i]] = Owner[t]}
<1> DEFINE f == [i \in I |-> Deps[t][i]]
<1>1. Deps[t] \in Seq(Tasks)
    BY DepsAssumption
<1>2. Len(Deps[t]) \in Nat /\ DOMAIN Deps[t] = 1 .. Len(Deps[t])
    BY <1>1
<1>3. I \subseteq Nat /\ \A i \in I : i <= Len(Deps[t])
    BY <1>2
<1>4. IsFiniteSet(I)
    BY <1>2, <1>3, FS_BoundedSetOfNaturals
<1>5. f \in Surjection(I, InGraph(t))
    <2>1. f \in [I -> InGraph(t)]
        BY <1>1 DEF InGraph, TasksOf
    <2>2. \A d \in InGraph(t) : \E i \in I : f[i] = d
        BY DEF InGraph, TasksOf
    <2> QED BY <2>1, <2>2 DEF Surjection
<1>6. IsFiniteSet(InGraph(t)) /\ Cardinality(InGraph(t)) <= Cardinality(I)
    BY <1>4, <1>5, FS_Surjection
<1>7. /\ IsFiniteSet(InGraph(t) \cap S) /\ InGraph(t) \cap S \subseteq InGraph(t)
      /\ Cardinality(InGraph(t) \cap S) = Cardinality(I)
    BY <1>6, FS_Subset DEF Ready, InDegree
<1>8. /\ Cardinality(InGraph(t) \cap S) <= Cardinality(InGraph(t))
      /\ Cardinality(InGraph(t)) = Cardinality(InGraph(t) \cap S) => InGraph(t) = InGraph(t) \cap S
    BY <1>6, <1>7, FS_Subset
<1>9. Cardinality(I) \in Nat /\ Cardinality(InGraph(t)) \in Nat
    BY <1>4, <1>6, FS_CardinalityType
<1> QED BY <1>6, <1>7, <1>8, <1>9

(* The layers never reach a task of no layer. *)
LEMMA LayersAvoidBlocked ==
    ASSUME NEW w \in Workflows, NEW S \in SUBSET Layered(w)
    PROVE  NextLayer(w, S) \subseteq Layered(w)
<1> SUFFICES ASSUME NEW t \in NextLayer(w, S), t \in Blocked PROVE FALSE
    BY DEF NextLayer, Layered
<1>1. t \in Tasks /\ Owner[t] = w /\ Ready(t, S)
    BY DEF NextLayer, TasksOf
<1>2. PICK B \in SUBSET TasksOf(w) : t \in B /\ \A u \in B : ~Ready(u, TasksOf(w) \ B)
    BY <1>1 DEF Blocked
<1>3. B \subseteq Blocked
    BY <1>2 DEF Blocked, TasksOf
<1>4. S \subseteq TasksOf(w) \ B
    BY <1>3 DEF Layered
<1>5. InGraph(t) \cap S = InGraph(t) \cap (TasksOf(w) \ B)
    BY <1>1, <1>4, ReadyIsSafe
<1> QED BY <1>1, <1>2, <1>5 DEF Ready

-----------------------------------------------------------------------------
(* Where `execute` stands between two gathers: the layers `done` are over, *)
(* and H are the workers that other workflows hold.                        *)
Between(w, done, H) ==
    /\ done \in SUBSET Layered(w)
    /\ \A t \in done : Settled(t)
    /\ \A t \in TasksOf(w) : taskState[t] # "RUNNING"
    /\ H = {t \in Tasks : Owner[t] # w /\ gathering[Owner[t]] /\ t \in layer[Owner[t]]}
    /\ Cardinality(H) <= MaxWorkers

LEMMA PoolCount ==
    ASSUME NEW H \in SUBSET Tasks, NEW G \in SUBSET Tasks,
           Cardinality(H) <= MaxWorkers, Cardinality(G) <= Free(H)
    PROVE  Cardinality(H \cup G) <= MaxWorkers
<1>1. IsFiniteSet(H) /\ IsFiniteSet(G)
    BY TasksFinite, FS_Subset
<1>2. IsFiniteSet(H \cap G)
    BY <1>1, FS_Intersection
<1>3. Cardinality(H) \in Nat /\ Cardinality(G) \in Nat /\ Cardinality(H \cap G) \in Nat
    BY <1>1, <1>2, FS_CardinalityType
<1>4. Cardinality(H \cup G) = Cardinality(H) + Cardinality(G) - Cardinality(H \cap G)
    BY <1>1, FS_Union
<1> QED BY <1>3, <1>4, MaxWorkersAssumption DEF Free

LEMMA GatherInductive ==
    ASSUME Typed, LayersOrdered, TasksInOrder, NothingRunsAhead, Over,
           NEW w \in Workflows, NEW done, NEW H, Between(w, done, H),
           NEW state \in WorkflowStates \ {"COMPLETED"}, Gather(w, done, H, state)
    PROVE  IInv'
<1> DEFINE next == Pending(NextLayer(w, done))
<1>1. PICK granted \in SUBSET next :
        /\ Cardinality(granted) <= Free(H)
        /\ wfState' = [wfState EXCEPT ![w] = state]
        /\ gathering' = [gathering EXCEPT ![w] = TRUE]
        /\ layer' = [layer EXCEPT ![w] = granted]
        /\ placed' = [placed EXCEPT ![w] = done \cup next]
        /\ holders' = H \cup granted
        /\ taskState' = [t \in Tasks |-> IF t \in next \ granted THEN "QUEUED" ELSE taskState[t]]
        /\ queue' = queue \cup (next \ granted)
    BY DEF Gather
<1>2. /\ next \subseteq Layered(w)
      /\ \A t \in next : taskState[t] = "PENDING" /\ InGraph(t) \subseteq done
    <2>1. next \subseteq Layered(w)
        BY LayersAvoidBlocked DEF Between, Pending
    <2>2. ASSUME NEW t \in next PROVE taskState[t] = "PENDING" /\ t \in Tasks /\ Ready(t, done)
        BY <2>2 DEF Pending, NextLayer, TasksOf
    <2> QED BY <2>1, <2>2, ReadyIsSafe
<1> HIDE DEF next
<1>3. /\ Layered(w) \subseteq TasksOf(w) /\ Layered(w) \cap Blocked = {}
      /\ \A t \in TasksOf(w) : t \in Tasks /\ Owner[t] = w
    BY DEF Layered, TasksOf
<1>4. \A t \in Tasks : Settled(t) => Settled(t)'
    BY <1>1 DEF Settled
<1>5. Typed'
    BY <1>1, <1>2, <1>3 DEF Typed, TaskStates, Between
<1>6. PoolBound'
    BY <1>1, <1>2, <1>3, PoolCount DEF PoolBound, Between
<1>7. WorkersReleased'
    BY <1>1, <1>2, <1>3, OwnerAssumption DEF WorkersReleased, Between, Typed
<1>8. LayersOrdered'
    <2> SUFFICES ASSUME NEW v \in Workflows
                 PROVE  /\ layer'[v] \subseteq TasksOf(v)
                        /\ ~gathering'[v] => layer'[v] = {}
                        /\ \A t \in layer'[v] : \A d \in InGraph(t) : Settled(d)'
                        /\ gathering'[v] =>
                              /\ layer'[v] \subseteq placed'[v]
                              /\ placed'[v] \subseteq Layered(v)
                              /\ \A t \in placed'[v] \ layer'[v] : Settled(t)'
        BY DEF LayersOrdered, Settled
    <2>1. CASE v # w
        <3>1. layer'[v] = layer[v] /\ gathering'[v] = gathering[v] /\ placed'[v] = placed[v]
            BY <1>1, <2>1 DEF Typed
        <3>2. \A t : InGraph(t) \subseteq Tasks
            BY DEF InGraph, TasksOf
        <3>3. Layered(v) \subseteq Tasks
            BY DEF Layered, TasksOf
        <3> QED BY <1>4, <3>1, <3>2, <3>3 DEF LayersOrdered
    <2>2. CASE v = w
        <3>1. layer'[w] = granted /\ gathering'[w] /\ placed'[w] = done \cup next
            BY <1>1 DEF Typed
        <3>2. \A t \in done : Settled(t)'
            BY <1>3, <1>4 DEF Between
        <3>3. \A t \in next \ granted : Settled(t)'
            BY <1>1, <1>2, <1>3 DEF Settled
        <3> QED BY <1>2, <1>3, <2>2, <3>1, <3>2, <3>3 DEF Between
    <2> QED BY <2>1, <2>2
<1>9. TasksInOrder'
    <2>1. queue' = {t \in Tasks : taskState'[t] = "QUEUED"}
        BY <1>1, <1>2, <1>3 DEF TasksInOrder
    <2> SUFFICES ASSUME NEW t \in Tasks
                 PROVE  /\ taskState'[t] # "FAILED"
                        /\ taskState'[t] = "RUNNING" => t \in layer'[Owner[t]]
                        /\ t \in Blocked => taskState'[t] = "PENDING"
        BY <2>1 DEF TasksInOrder
    <2>2. taskState'[t] # "FAILED" /\ (t \in Blocked => taskState'[t] = "PENDING")
        BY <1>1, <1>2, <1>3 DEF TasksInOrder
    <2>3. ASSUME taskState'[t] = "RUNNING" PROVE t \in layer'[Owner[t]]
        <3>1. taskState[t] = "RUNNING"
            BY <1>1, <2>3
        <3>2. Owner[t] # w
            BY <3>1 DEF Between, TasksOf
        <3> QED BY <1>1, <3>1, <3>2, OwnerAssumption DEF TasksInOrder, Typed
    <2> QED BY <2>2, <2>3
<1>10. NothingRunsAhead'
    <2> SUFFICES ASSUME NEW t \in Tasks, taskState'[t] \in {"RUNNING", "COMPLETED"},
                        NEW d \in InGraph(t)
                 PROVE  Settled(d)'
        BY DEF NothingRunsAhead, Settled
    <2>1. taskState[t] \in {"RUNNING", "COMPLETED"} /\ d \in Tasks
        BY <1>1 DEF InGraph, TasksOf
    <2> QED BY <1>4, <2>1 DEF NothingRunsAhead, Settled
<1>11. Over'
    <2> SUFFICES ASSUME NEW v \in Workflows, wfState'[v] = "COMPLETED"
                 PROVE  ~gathering'[v] /\ \A t \in Layered(v) : Settled(t)'
        BY DEF Over, Settled
    <2>1. v # w /\ wfState[v] = "COMPLETED" /\ gathering'[v] = gathering[v]
        BY <1>1 DEF Typed
    <2>2. Layered(v) \subseteq Tasks
        BY DEF Layered, TasksOf
    <2> QED BY <1>4, <2>1, <2>2 DEF Over
<1> QED BY <1>5, <1>6, <1>7, <1>8, <1>9, <1>10, <1>11 DEF IInv

LEMMA FinishInductive ==
    ASSUME Typed, LayersOrdered, TasksInOrder, NothingRunsAhead, Over,
           NEW w \in Workflows, NEW done, NEW H, Between(w, done, H), Finish(w, done, H)
    PROVE  IInv'
<1> DEFINE away == TurnedAway(w, done)
<1>1. /\ taskState' = [t \in Tasks |-> IF t \in away THEN "QUEUED" ELSE taskState[t]]
      /\ queue' = queue \cup away
      /\ wfState' = [wfState EXCEPT ![w] = Verdict(w, taskState')]
      /\ gathering' = [gathering EXCEPT ![w] = FALSE]
      /\ layer' = [layer EXCEPT ![w] = {}]
      /\ placed' = [placed EXCEPT ![w] = Layered(w)]
      /\ holders' = H
    BY DEF Finish
<1>2. away = {t \in Layered(w) \ done : taskState[t] = "PENDING"}
    BY DEF TurnedAway, Pending
<1> HIDE DEF away
<1>3. /\ Layered(w) \subseteq TasksOf(w) /\ Layered(w) \cap Blocked = {}
      /\ \A t \in TasksOf(w) : t \in Tasks /\ Owner[t] = w
    BY DEF Layered, TasksOf
<1>4. \A t \in Tasks : Settled(t) => Settled(t)'
    BY <1>1 DEF Settled
<1>5. Typed'
    <2>1. Verdict(w, taskState') \in WorkflowStates
        BY DEF Verdict, WorkflowStates
    <2>2. taskState' \in [Tasks -> TaskStates]
        BY <1>1 DEF Typed, TaskStates
    <2> HIDE DEF Verdict
    <2> QED BY <1>1, <1>2, <1>3, <2>1, <2>2 DEF Typed, Between
<1>6. PoolBound'
    BY <1>1 DEF PoolBound, Between
<1>7. WorkersReleased'
    BY <1>1, OwnerAssumption DEF WorkersReleased, Between, Typed
<1>8. LayersOrdered'
    <2> SUFFICES ASSUME NEW v \in Workflows
                 PROVE  /\ layer'[v] \subseteq TasksOf(v)
                        /\ ~gathering'[v] => layer'[v] = {}
                        /\ \A t \in layer'[v] : \A d \in InGraph(t) : Settled(d)'
                        /\ gathering'[v] =>
                              /\ layer'[v] \subseteq placed'[v]
                              /\ placed'[v] \subseteq Layered(v)
                              /\ \A t \in placed'[v] \ layer'[v] : Settled(t)'
        BY DEF LayersOrdered, Settled
    <2>1. CASE v # w
        <3>1. layer'[v] = layer[v] /\ gathering'[v] = gathering[v] /\ placed'[v] = placed[v]
            BY <1>1, <2>1 DEF Typed
        <3>2. \A t : InGraph(t) \subseteq Tasks
            BY DEF InGraph, TasksOf
        <3>3. Layered(v) \subseteq Tasks
            BY DEF Layered, TasksOf
        <3> QED BY <1>4, <3>1, <3>2, <3>3 DEF LayersOrdered
    <2>2. CASE v = w
        BY <1>1, <2>2 DEF Typed
    <2> QED BY <2>1, <2>2
<1>9. TasksInOrder'
    <2>1. queue' = {t \in Tasks : taskState'[t] = "QUEUED"}
        BY <1>1, <1>2, <1>3 DEF TasksInOrder
    <2> SUFFICES ASSUME NEW t \in Tasks
                 PROVE  /\ taskState'[t] # "FAILED"
                        /\ taskState'[t] = "RUNNING" => t \in layer'[Owner[t]]
                        /\ t \in Blocked => taskState'[t] = "PENDING"
        BY <2>1 DEF TasksInOrder
    <2>2. taskState'[t] # "FAILED" /\ (t \in Blocked => taskState'[t] = "PENDING")
        BY <1>1, <1>2, <1>3 DEF TasksInOrder
    <2>3. ASSUME taskState'[t] = "RUNNING" PROVE t \in layer'[Owner[t]]
        <3>1. taskState[t] = "RUNNING"
            BY <1>1, <2>3
        <3>2. Owner[t] # w
            BY <3>1 DEF Between, TasksOf
        <3> QED BY <1>1, <3>1, <3>2, OwnerAssumption DEF TasksInOrder, Typed
    <2> QED BY <2>2, <2>3
<1>10. NothingRunsAhead'
    <2> SUFFICES ASSUME NEW t \in Tasks, taskState'[t] \in {"RUNNING", "COMPLETED"},
                        NEW d \in InGraph(t)
                 PROVE  Settled(d)'
        BY DEF NothingRunsAhead, Settled
    <2>1. taskState[t] \in {"RUNNING", "COMPLETED"} /\ d \in Tasks
        BY <1>1 DEF InGraph, TasksOf
    <2> QED BY <1>4, <2>1 DEF NothingRunsAhead, Settled
<1>11. Over'
    <2> SUFFICES ASSUME NEW v \in Workflows, wfState'[v] = "COMPLETED"
                 PROVE  ~gathering'[v] /\ \A t \in Layered(v) : Settled(t)'
        BY DEF Over, Settled
    <2>1. CASE v # w
        <3>1. wfState[v] = "COMPLETED" /\ gathering'[v] = gathering[v]
            BY <1>1, <2>1 DEF Typed
        <3>2. Layered(v) \subseteq Tasks
            BY DEF Layered, TasksOf
        <3> QED BY <1>4, <3>1, <3>2 DEF Over
    <2>2. CASE v = w
        <3>1. ~gathering'[w]
            BY <1>1 DEF Typed
        <3>2. ASSUME NEW t \in Layered(w) PROVE Settled(t)'
            <4>1. t \in Tasks /\ taskState[t] \in TaskStates \ {"FAILED", "RUNNING"}
                BY <1>3, <3>2 DEF Between, TasksInOrder, Typed
            <4>2. CASE t \in done
                BY <1>4, <4>1, <4>2 DEF Between
            <4>3. CASE t \notin done
                BY <1>1, <1>2, <3>2, <4>1, <4>3 DEF Settled, TaskStates
            <4> QED BY <4>2, <4>3
        <3> QED BY <2>2, <3>1, <3>2
    <2> QED BY <2>1, <2>2
<1> QED BY <1>5, <1>6, <1>7, <1>8, <1>9, <1>10, <1>11 DEF IInv

-----------------------------------------------------------------------------
LEMMA InitInductive == Init => IInv
<1> SUFFICES ASSUME Init PROVE IInv
    OBVIOUS
<1>1. PoolBound
    BY MaxWorkersAssumption, FS_EmptySet DEF Init, PoolBound
<1>2. Typed
    BY DEF Init, Typed, WorkflowStates, TaskStates
<1>3. WorkersReleased /\ LayersOrdered
    BY OwnerAssumption DEF Init, WorkersReleased, LayersOrdered
<1>4. TasksInOrder /\ NothingRunsAhead /\ Over
    BY DEF Init, TasksInOrder, NothingRunsAhead, Over
<1> QED BY <1>1, <1>2, <1>3, <1>4 DEF IInv

(* One task of a layer goes on. *)
LEMMA TaskInductive ==
    ASSUME IInv, NEW w \in Workflows, NEW t \in Tasks, BeginTask(w, t) \/ CompleteTask(w, t)
    PROVE  IInv'
<1>1. /\ t \in layer[w] /\ Owner[t] = w /\ t \notin Blocked
      /\ taskState[t] \in {"PENDING", "RUNNING"}
      /\ \E state \in {"RUNNING", "COMPLETED"} : taskState' = [taskState EXCEPT ![t] = state]
      /\ UNCHANGED <<wfState, gathering, layer, placed, holders, queue>>
    <2>1. t \in layer[w] /\ taskState[t] \in {"PENDING", "RUNNING"}
        BY DEF BeginTask, CompleteTask
    <2>2. Owner[t] = w
        BY <2>1 DEF IInv, LayersOrdered, TasksOf
    <2>3. t \notin Blocked
        BY <2>1 DEF IInv, LayersOrdered, Layered
    <2> QED BY <2>1, <2>2, <2>3 DEF BeginTask, CompleteTask
<1>2. \A u \in Tasks : Settled(u) => Settled(u)'
    BY <1>1 DEF Settled, IInv, Typed
<1>3. Typed' /\ PoolBound' /\ WorkersReleased'
    BY <1>1 DEF IInv, Typed, TaskStates, PoolBound, WorkersReleased
<1>4. LayersOrdered'
    <2>1. \A u : InGraph(u) \subseteq Tasks
        BY DEF InGraph, TasksOf
    <2>2. \A v \in Workflows : Layered(v) \subseteq Tasks
        BY DEF Layered, TasksOf
    <2> QED BY <1>1, <1>2, <2>1, <2>2 DEF IInv, LayersOrdered, Settled
<1>5. TasksInOrder'
    BY <1>1 DEF IInv, TasksInOrder, Typed
<1>6. NothingRunsAhead'
    <2> SUFFICES ASSUME NEW u \in Tasks, taskState'[u] \in {"RUNNING", "COMPLETED"},
                        NEW d \in InGraph(u)
                 PROVE  Settled(d)'
        BY DEF NothingRunsAhead, Settled
    <2>1. d \in Tasks
        BY DEF InGraph, TasksOf
    <2>2. Settled(d)
        BY <1>1 DEF IInv, NothingRunsAhead, LayersOrdered, Settled, Typed
    <2> QED BY <1>2, <2>1, <2>2
<1>7. Over'
    <2>1. \A v \in Workflows : Layered(v) \subseteq Tasks
        BY DEF Layered, TasksOf
    <2> QED BY <1>1, <1>2, <2>1 DEF IInv, Over, Settled
<1> QED BY <1>3, <1>4, <1>5, <1>6, <1>7 DEF IInv

LEMMA NextInductive == IInv /\ [Next]_vars => IInv'
<1> SUFFICES ASSUME IInv, [Next]_vars PROVE IInv'
    OBVIOUS
<1>1. ASSUME NEW w \in Workflows, Execute(w) PROVE IInv'
    <2>1. Between(w, {}, holders)
        BY <1>1 DEF Execute, Between, IInv, PoolBound, WorkersReleased, LayersOrdered,
                    TasksInOrder, TasksOf
    <2>2. "RUNNING" \in WorkflowStates \ {"COMPLETED"}
        BY DEF WorkflowStates
    <2> QED BY <1>1, <2>1, <2>2, GatherInductive, FinishInductive DEF Execute, IInv
<1>2. ASSUME NEW w \in Workflows, EndLayer(w) PROVE IInv'
    <2> DEFINE H == holders \ Released(w)
    <2>1. gathering[w] /\ Released(w) = layer[w] /\ \A t \in layer[w] : taskState[t] = "COMPLETED"
        BY <1>2 DEF EndLayer, LayerOver, Released
    <2>2. H = {t \in Tasks : Owner[t] # w /\ gathering[Owner[t]] /\ t \in layer[Owner[t]]}
        BY <2>1 DEF IInv, WorkersReleased, LayersOrdered, TasksOf
    <2>3. Cardinality(H) <= MaxWorkers
        <3>1. IsFiniteSet(holders)
            BY TasksFinite, FS_Subset DEF IInv, Typed
        <3>2. IsFiniteSet(H) /\ Cardinality(H) <= Cardinality(holders)
            BY <3>1, FS_Subset
        <3> QED BY <3>1, <3>2, FS_CardinalityType, MaxWorkersAssumption DEF IInv, PoolBound
    <2>4. Between(w, placed[w], H)
        <3>1. placed[w] \in SUBSET Layered(w) /\ \A t \in placed[w] : Settled(t)
            BY <2>1 DEF IInv, LayersOrdered, Settled
        <3>2. \A t \in TasksOf(w) : taskState[t] # "RUNNING"
            BY <2>1 DEF IInv, TasksInOrder, TasksOf
        <3> HIDE DEF H
        <3> QED BY <2>2, <2>3, <3>1, <3>2 DEF Between
    <2>5. wfState[w] \in WorkflowStates \ {"COMPLETED"}
        BY <2>1 DEF IInv, Typed, Over
    <2>6. Gather(w, placed[w], H, wfState[w]) \/ Finish(w, placed[w], H)
        BY <1>2 DEF EndLayer
    <2> HIDE DEF H
    <2> QED BY <2>4, <2>5, <2>6, GatherInductive, FinishInductive DEF IInv
<1>3. ASSUME NEW w \in Workflows, Submit(w) \/ Pause(w) \/ Resume(w) \/ Cancel(w) PROVE IInv'
    <2>1. /\ \E state \in WorkflowStates \ {"COMPLETED"} : wfState' = [wfState EXCEPT ![w] = state]
          /\ UNCHANGED <<taskState, gathering, layer, placed, holders, queue>>
        BY <1>3 DEF Submit, Pause, Resume, Cancel, SetState, WorkflowStates
    <2>2. Typed' /\ Over'
        BY <2>1 DEF IInv, Typed, Over, Settled
    <2>3. PoolBound' /\ WorkersReleased' /\ LayersOrdered' /\ TasksInOrder' /\ NothingRunsAhead'
        BY <2>1 DEF IInv, PoolBound, WorkersReleased, LayersOrdered, Settled,
                    TasksInOrder, NothingRunsAhead
    <2> QED BY <2>2, <2>3 DEF IInv
<1>4. CASE UNCHANGED vars
    BY <1>4 DEF vars, IInv, Typed, Over, PoolBound, WorkersReleased, LayersOrdered, Settled,
                TasksInOrder, NothingRunsAhead
<1> QED BY <1>1, <1>2, <1>3, <1>4, TaskInductive DEF Next, Coroutines

(* The inductive invariant: layers hold tasks whose dependencies are       *)
(* settled, workers are those of the tasks gathered, queued tasks are in   *)
(* the queue, and a COMPLETED workflow is over.                            *)
THEOREM InductiveInvariant == Spec => []IInv
<1> QED BY InitInductive, NextInductive, PTL DEF Spec

(* The runtime's state is always of its type, and no more than MaxWorkers  *)
(* workers are busy (worker_pool.py:27-52).                                *)
THEOREM TypeCorrect == Spec => []TypeOK
<1>1. IInv => TypeOK
    BY DEF IInv, Typed, PoolBound, TypeOK
<1> QED BY <1>1, InductiveInvariant, PTL

(* Busy workers are exactly those of the tasks being gathered, for any     *)
(* number of workflows on the pool (dag_executor.py:79-109).                *)
THEOREM PoolKept == Spec => []WorkersReleased
<1>1. IInv => WorkersReleased
    BY DEF IInv
<1> QED BY <1>1, InductiveInvariant, PTL

(* No task begins before its dependencies have run or been turned away, in *)
(* any graph, repeated and foreign dependencies included                   *)
(* (workflow_graph.py:55-77, dag_executor.py:24-109).                       *)
THEOREM OrderKept == Spec => []NothingRunsAhead
<1>1. IInv => NothingRunsAhead
    BY DEF IInv
<1> QED BY <1>1, InductiveInvariant, PTL

(* A workflow that is COMPLETED accounts for all of its tasks: run, turned *)
(* away into the queue, or in no layer (runtime_engine.py:77-112).         *)
THEOREM CompletionsAccount == Spec => []CompletionAccounts
<1>1. IInv => CompletionAccounts
    BY DEF IInv, Over, TasksInOrder, CompletionAccounts, Settled, TasksOf
<1> QED BY <1>1, InductiveInvariant, PTL
=============================================================================
