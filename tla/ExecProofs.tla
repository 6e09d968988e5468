------------------------------ MODULE ExecProofs ------------------------------
(***************************************************************************)
(* Proofs about PlanExecution, for any number of requests, any plans and   *)
(* any values of max_retries and max_concurrency.                          *)
(***************************************************************************)
EXTENDS PlanExecution, FiniteSetTheorems, SequenceTheorems, TLAPS

(* The steps of a plan are step ids. *)
LEMMA PlanSteps ==
    ASSUME TypeOK, NEW e \in Execs, NEW S
    PROVE  /\ NextWave(plan[e], S) \subseteq StepIds
           /\ Schedulable(plan[e]) \subseteq StepIds
BY PlansAssumption DEF TypeOK, PlansOver, NextWave, Schedulable

(* A waiter is a pair of an execution and one of its steps. *)
LEMMA WaiterPairs ==
    ASSUME TypeOK
    PROVE  /\ Len(waiters) \in Nat
           /\ \A i \in 1..Len(waiters) :
                 /\ waiters[i] \in Execs \X StepIds
                 /\ waiters[i] = <<waiters[i][1], waiters[i][2]>>
<1>1. waiters \in Seq(Execs \X StepIds)
  BY DEF TypeOK
<1>2. Len(waiters) \in Nat /\ \A i \in 1..Len(waiters) : waiters[i] \in Execs \X StepIds
  BY <1>1, LenProperties, ElementOfSeq
<1> QED BY <1>2

LEMMA InitIInv == Init => IInv
<1> SUFFICES ASSUME Init PROVE IInv
  OBVIOUS
<1>1. TypeOK
  BY ConcurrencyAssumption, EmptySeq
     DEF Init, TypeOK, Phases, StepStates, TaskStates
<1>2. ASSUME NEW e \in Execs
      PROVE  WavesInOrder(e) /\ \A s \in StepIds : TaskMatchesState(e, s)
  BY DEF Init, WavesInOrder, TaskMatchesState
<1>3. WaitersAreQueued
  BY DEF Init, WaitersAreQueued
<1> QED BY <1>1, <1>2, <1>3 DEF IInv

-----------------------------------------------------------------------------
(* The coroutine of an execution changes only that execution, and leaves   *)
(* the semaphore alone.                                                    *)

(* The waiters stay queued if no queued task moves. *)
LEMMA WaitersKept ==
    ASSUME TypeOK, WaitersAreQueued, UNCHANGED waiters,
           \A f \in Execs, t \in StepIds :
              task[f][t] = "queued" => task'[f][t] = "queued"
    PROVE  WaitersAreQueued'
BY WaiterPairs DEF WaitersAreQueued

(* What the other executions look like is not touched. *)
LEMMA OthersKept ==
    ASSUME IInv, NEW e \in Execs, UNCHANGED plan,
           \A f \in Execs \ {e} :
              /\ phase'[f] = phase[f] /\ placed'[f] = placed[f] /\ wave'[f] = wave[f]
              /\ stepState'[f] = stepState[f] /\ task'[f] = task[f]
    PROVE  \A f \in Execs \ {e} :
              WavesInOrder(f)' /\ \A t \in StepIds : TaskMatchesState(f, t)'
BY DEF IInv, WavesInOrder, TaskMatchesState

LEMMA StartIInv ==
    ASSUME IInv, NEW e \in Execs, Start(e)
    PROVE  IInv'
<1>1. TypeOK'
  BY DEF IInv, TypeOK, Start, stepVars, semVars, Phases
<1>2. \A f \in Execs : WavesInOrder(f)' /\ \A t \in StepIds : TaskMatchesState(f, t)'
  <2>1. phase[e] = "idle" /\ \A f \in Execs : phase'[f] = IF f = e THEN "ready" ELSE phase[f]
    BY DEF Start, IInv, TypeOK
  <2> QED BY <2>1 DEF IInv, WavesInOrder, TaskMatchesState, Start, stepVars
<1>3. WaitersAreQueued'
  BY WaitersKept DEF IInv, Start, stepVars, semVars
<1> QED BY <1>1, <1>2, <1>3 DEF IInv

(* A wave starts: its dependencies are in the waves before, all COMPLETED. *)
LEMMA StartWaveOrder ==
    ASSUME IInv, NEW e \in Execs, phase[e] = "ready",
           NEW W, W = NextWave(plan[e], placed[e]),
           UNCHANGED plan,
           phase'[e] = "running", placed'[e] = placed[e] \cup W, wave'[e] = W,
           \A t \in StepIds \ W : stepState'[e][t] = stepState[e][t] /\ task'[e][t] = task[e][t],
           \A t \in W : TaskMatchesState(e, t)' /\ stepState'[e][t] # "CANCELLED"
    PROVE  WavesInOrder(e)' /\ \A t \in StepIds : TaskMatchesState(e, t)'
<1>1. W \cap placed[e] = {} /\ W \subseteq StepIds /\ wave[e] = {}
  BY PlanSteps DEF NextWave, IInv, WavesInOrder
<1>2. \A s \in placed[e] : s \in StepIds /\ s \notin W /\ stepState[e][s] = "COMPLETED"
                           /\ stepState'[e][s] = "COMPLETED"
  BY ZenonT(60), <1>1 DEF IInv, WavesInOrder, TypeOK
<1>3. \A s \in placed'[e] \ wave'[e] : stepState'[e][s] = "COMPLETED"
  BY <1>1, <1>2
<1>4. \A s \in W : InPlanDeps(plan[e], s) \subseteq placed[e]
  BY DEF NextWave
<1>5. \A s \in placed[e] : \A d \in InPlanDeps(plan[e], s) :
          d \in StepIds /\ stepState[e][d] = "COMPLETED"
  BY PlansAssumption DEF IInv, WavesInOrder, TypeOK, PlansOver, InPlanDeps
<1>6. \A d \in StepIds : stepState[e][d] = "COMPLETED" => d \notin W
  <2> SUFFICES ASSUME NEW d \in W, stepState[e][d] = "COMPLETED" PROVE FALSE
    OBVIOUS
  <2>1. d \in StepIds /\ d \notin placed[e]
    BY <1>1
  <2>2. task[e][d] = "none"
    BY <2>1 DEF IInv, WavesInOrder
  <2> QED BY <2>1, <2>2 DEF IInv, TaskMatchesState
<1>7. \A s \in placed'[e] : \A d \in InPlanDeps(plan'[e], s) : stepState'[e][d] = "COMPLETED"
  BY <1>2, <1>4, <1>5, <1>6
<1>8. \A s \in StepIds :
          /\ task'[e][s] # "none" => s \in placed'[e]
          /\ task'[e][s] \notin {"none", "returned"} => s \in wave'[e]
  BY <1>1 DEF IInv, WavesInOrder
<1>9. \A s \in StepIds : stepState'[e][s] # "CANCELLED"
  BY DEF IInv, WavesInOrder
<1>10. WavesInOrder(e)'
  BY <1>1, <1>3, <1>7, <1>8, <1>9 DEF WavesInOrder
<1>11. \A t \in StepIds : TaskMatchesState(e, t)'
  BY DEF IInv, TaskMatchesState
<1> QED BY <1>10, <1>11

LEMMA StartSequentialIInv ==
    ASSUME IInv, NEW e \in Execs, StartSequential(e)
    PROVE  IInv'
<1> DEFINE W == NextWave(plan[e], placed[e])
<1>1. W \subseteq StepIds
  BY PlanSteps DEF IInv
<1>2. TypeOK'
  BY <1>1 DEF IInv, TypeOK, StartSequential, semVars, Phases, StepStates, TaskStates
<1>3. /\ phase'[e] = "running" /\ placed'[e] = placed[e] \cup W /\ wave'[e] = W
      /\ \A t \in StepIds \ W : stepState'[e][t] = stepState[e][t] /\ task'[e][t] = task[e][t]
      /\ \A t \in W : stepState'[e][t] = "RUNNING" /\ task'[e][t] = "executing"
      /\ \A f \in Execs \ {e} :
              /\ phase'[f] = phase[f] /\ placed'[f] = placed[f] /\ wave'[f] = wave[f]
              /\ stepState'[f] = stepState[f] /\ task'[f] = task[f]
  BY <1>1 DEF IInv, TypeOK, StartSequential
<1>4. WavesInOrder(e)' /\ \A t \in StepIds : TaskMatchesState(e, t)'
  <2>1. \A t \in W : TaskMatchesState(e, t)' /\ stepState'[e][t] # "CANCELLED"
    BY <1>3 DEF TaskMatchesState
  <2> HIDE DEF W
  <2> QED BY <1>3, <2>1, StartWaveOrder DEF StartSequential, W
<1>5. \A f \in Execs \ {e} : WavesInOrder(f)' /\ \A t \in StepIds : TaskMatchesState(f, t)'
  BY <1>3, OthersKept DEF StartSequential
<1>6. WaitersAreQueued'
  <2>1. \A t \in W : task[e][t] = "none"
    BY <1>1 DEF NextWave, IInv, WavesInOrder
  <2>2. \A f \in Execs, t \in StepIds : task[f][t] = "queued" => task'[f][t] = "queued"
    BY <1>3, <2>1
  <2> QED BY <2>2, WaitersKept DEF IInv, StartSequential, semVars
<1> QED BY <1>2, <1>4, <1>5, <1>6 DEF IInv

LEMMA StartParallelIInv ==
    ASSUME IInv, NEW e \in Execs, StartParallel(e)
    PROVE  IInv'
<1> DEFINE W == NextWave(plan[e], placed[e])
<1>1. W \subseteq StepIds /\ \A t \in W : task[e][t] = "none"
  <2>1. W \subseteq StepIds
    BY PlanSteps DEF IInv
  <2> QED BY <2>1 DEF NextWave, IInv, WavesInOrder
<1>2. TypeOK'
  BY <1>1 DEF IInv, TypeOK, StartParallel, semVars, Phases, TaskStates
<1>3. /\ phase'[e] = "running" /\ placed'[e] = placed[e] \cup W /\ wave'[e] = W
      /\ stepState' = stepState
      /\ \A t \in StepIds \ W : task'[e][t] = task[e][t]
      /\ \A t \in W : task'[e][t] = "spawned"
      /\ \A f \in Execs \ {e} :
              /\ phase'[f] = phase[f] /\ placed'[f] = placed[f] /\ wave'[f] = wave[f]
              /\ task'[f] = task[f]
  BY <1>1 DEF IInv, TypeOK, StartParallel
<1>4. WavesInOrder(e)' /\ \A t \in StepIds : TaskMatchesState(e, t)'
  <2>1. \A t \in W : stepState[e][t] = "PENDING"
    BY <1>1 DEF IInv, TaskMatchesState, WavesInOrder, StartParallel
  <2>2. \A t \in W : TaskMatchesState(e, t)' /\ stepState'[e][t] # "CANCELLED"
    BY <1>3, <2>1 DEF TaskMatchesState
  <2> HIDE DEF W
  <2> QED BY <1>3, <2>2, StartWaveOrder DEF StartParallel, W
<1>5. \A f \in Execs \ {e} : WavesInOrder(f)' /\ \A t \in StepIds : TaskMatchesState(f, t)'
  BY <1>3, OthersKept DEF StartParallel
<1>6. WaitersAreQueued'
  <2>1. \A f \in Execs, t \in StepIds : task[f][t] = "queued" => task'[f][t] = "queued"
    BY <1>1, <1>3
  <2> QED BY <2>1, WaitersKept DEF IInv, StartParallel, semVars
<1> QED BY <1>2, <1>4, <1>5, <1>6 DEF IInv

LEMMA JoinWaveIInv ==
    ASSUME IInv, NEW e \in Execs, JoinWave(e)
    PROVE  IInv'
<1>1. TypeOK'
  BY DEF IInv, TypeOK, JoinWave, stepVars, semVars, Phases
<1>2. /\ phase[e] = "running" /\ phase'[e] = "ready" /\ wave'[e] = {}
      /\ UNCHANGED <<plan, placed, stepState, task, waiters>>
      /\ \A f \in Execs \ {e} : phase'[f] = phase[f] /\ wave'[f] = wave[f]
  BY DEF IInv, TypeOK, JoinWave, WaveReturned, stepVars, semVars
<1>3. \A s \in wave[e] : task[e][s] = "returned" /\ stepState[e][s] = "COMPLETED" /\ s \in StepIds
  BY DEF IInv, TypeOK, JoinWave, WaveReturned, Failed, TaskMatchesState
<1>4. WavesInOrder(e)' /\ \A t \in StepIds : TaskMatchesState(e, t)'
  <2>1. \A s \in placed[e] : stepState[e][s] = "COMPLETED"
    BY <1>2, <1>3 DEF IInv, WavesInOrder
  <2>2. \A s \in StepIds : task[e][s] \in {"none", "returned"}
    BY <1>3 DEF IInv, WavesInOrder
  <2> QED BY <1>2, <2>1, <2>2 DEF IInv, WavesInOrder, TaskMatchesState
<1>5. \A f \in Execs \ {e} : WavesInOrder(f)' /\ \A t \in StepIds : TaskMatchesState(f, t)'
  BY <1>2, OthersKept
<1>6. WaitersAreQueued'
  BY <1>2, WaitersKept DEF IInv
<1> QED BY <1>1, <1>4, <1>5, <1>6 DEF IInv

LEMMA AbortPlanIInv ==
    ASSUME IInv, NEW e \in Execs, AbortPlan(e)
    PROVE  IInv'
<1> DEFINE R == Schedulable(plan[e]) \ placed[e]
<1>1. TypeOK'
  BY DEF IInv, TypeOK, AbortPlan, stepVars, semVars, Phases, StepStates
<1>2. /\ phase[e] = "running" /\ phase'[e] = "recovering" /\ wave'[e] = {}
      /\ UNCHANGED <<plan, placed, task, waiters>>
      /\ \A t \in StepIds : stepState'[e][t] = IF t \in R THEN "CANCELLED" ELSE stepState[e][t]
      /\ \A f \in Execs \ {e} :
            phase'[f] = phase[f] /\ wave'[f] = wave[f] /\ stepState'[f] = stepState[f]
  BY DEF IInv, TypeOK, AbortPlan, Remaining, WaveReturned, semVars
<1>3. \A t \in StepIds \cap R : task[e][t] = "none" /\ stepState[e][t] = "PENDING"
  BY <1>2 DEF IInv, WavesInOrder, TaskMatchesState
<1>4. \A s \in placed[e] : \A d \in InPlanDeps(plan[e], s) :
          d \in StepIds /\ stepState[e][d] = "COMPLETED"
  BY PlansAssumption DEF IInv, WavesInOrder, TypeOK, PlansOver, InPlanDeps
<1>5. \A s \in placed'[e] : \A d \in InPlanDeps(plan'[e], s) : stepState'[e][d] = "COMPLETED"
  BY <1>2, <1>3, <1>4
<1>6. \A s \in StepIds : task[e][s] \in {"none", "returned"}
  BY DEF IInv, WavesInOrder, AbortPlan, WaveReturned
<1>7. WavesInOrder(e)'
  BY <1>2, <1>5, <1>6 DEF IInv, WavesInOrder
<1>8. \A t \in StepIds : TaskMatchesState(e, t)'
  BY <1>2, <1>3 DEF IInv, TaskMatchesState
<1>9. \A f \in Execs \ {e} : WavesInOrder(f)' /\ \A t \in StepIds : TaskMatchesState(f, t)'
  BY <1>2, OthersKept
<1>10. WaitersAreQueued'
  BY <1>2, WaitersKept DEF IInv
<1> QED BY <1>1, <1>7, <1>8, <1>9, <1>10 DEF IInv

LEMMA CompleteIInv ==
    ASSUME IInv, NEW e \in Execs, Complete(e)
    PROVE  IInv'
<1>1. TypeOK'
  BY DEF IInv, TypeOK, Complete, stepVars, semVars, Phases
<1>2. /\ phase[e] = "ready" /\ phase'[e] = "completed"
      /\ UNCHANGED <<plan, placed, wave, stepState, task, waiters>>
      /\ \A f \in Execs \ {e} : phase'[f] = phase[f]
  BY DEF IInv, TypeOK, Complete, stepVars, semVars
<1>3. WavesInOrder(e)' /\ \A t \in StepIds : TaskMatchesState(e, t)'
  BY <1>2 DEF IInv, WavesInOrder, TaskMatchesState
<1>4. \A f \in Execs \ {e} : WavesInOrder(f)' /\ \A t \in StepIds : TaskMatchesState(f, t)'
  BY <1>2, OthersKept
<1>5. WaitersAreQueued'
  BY <1>2, WaitersKept DEF IInv
<1> QED BY <1>1, <1>3, <1>4, <1>5 DEF IInv

-----------------------------------------------------------------------------
(* The coroutine of a step changes the state of that step alone, and may   *)
(* wake one queued task.                                                   *)

LEMMA StepLocal ==
    ASSUME IInv, NEW e \in Execs, NEW s \in StepIds,
           UNCHANGED execVars,
           task[e][s] \notin {"none", "returned"},
           TaskMatchesState(e, s)', task'[e][s] \in TaskStates \ {"none"},
           \A f \in Execs, t \in StepIds : <<f, t>> # <<e, s>> =>
              /\ stepState'[f][t] = stepState[f][t]
              /\ \/ task'[f][t] = task[f][t]
                 \/ task[f][t] = "queued" /\ task'[f][t] = "granted"
    PROVE  \A f \in Execs : WavesInOrder(f)' /\ \A t \in StepIds : TaskMatchesState(f, t)'
<1> SUFFICES ASSUME NEW f \in Execs
             PROVE  WavesInOrder(f)' /\ \A t \in StepIds : TaskMatchesState(f, t)'
  OBVIOUS
<1>1. s \in wave[e] /\ s \in placed[e] /\ stepState[e][s] # "COMPLETED"
      /\ stepState'[e][s] # "CANCELLED"
  <2>1. s \in wave[e] /\ s \in placed[e]
    BY DEF IInv, WavesInOrder
  <2>2. task[e][s] \in {"spawned", "queued", "granted", "executing", "backoff"}
    BY DEF IInv, TypeOK, TaskStates
  <2>3. stepState[e][s] # "COMPLETED"
    BY <2>2 DEF IInv, TaskMatchesState
  <2>4. stepState'[e][s] # "CANCELLED"
    BY DEF TaskMatchesState, TaskStates
  <2> QED BY <2>1, <2>3, <2>4
<1>2. \A t \in StepIds : TaskMatchesState(f, t)'
  BY DEF IInv, TaskMatchesState
<1>3. placed[f] \subseteq StepIds
  BY DEF IInv, TypeOK
<1>4. plan' = plan /\ phase' = phase /\ placed' = placed /\ wave' = wave
  BY DEF execVars
<1>5. \A t \in StepIds : stepState[f][t] = "COMPLETED" => stepState'[f][t] = "COMPLETED"
  BY <1>1
<1>6. phase'[f] # "recovering" => \A t \in placed'[f] \ wave'[f] : stepState'[f][t] = "COMPLETED"
  BY <1>3, <1>4, <1>5 DEF IInv, WavesInOrder
<1>7. phase'[f] # "recovering" => \A t \in StepIds : stepState'[f][t] # "CANCELLED"
  BY <1>1, <1>4 DEF IInv, WavesInOrder
<1>8. \A t \in placed'[f] : \A d \in InPlanDeps(plan'[f], t) : stepState'[f][d] = "COMPLETED"
  <2> SUFFICES ASSUME NEW t \in placed[f], NEW d \in InPlanDeps(plan[f], t)
               PROVE  stepState'[f][d] = "COMPLETED"
    BY <1>4
  <2>1. d \in StepIds
    BY PlansAssumption DEF IInv, TypeOK, PlansOver, InPlanDeps
  <2>2. stepState[f][d] = "COMPLETED"
    BY DEF IInv, WavesInOrder
  <2> QED BY <2>1, <2>2, <1>5
<1>9. \A t \in StepIds :
          /\ task'[f][t] # "none" => t \in placed'[f]
          /\ task'[f][t] \notin {"none", "returned"} => t \in wave'[f]
  BY <1>1, <1>4 DEF IInv, WavesInOrder
<1>10. wave'[f] \subseteq placed'[f] /\ (phase'[f] # "running" => wave'[f] = {})
  BY <1>4 DEF IInv, WavesInOrder
<1> QED BY <1>2, <1>6, <1>7, <1>8, <1>9, <1>10 DEF WavesInOrder

LEMMA AcquirePermitIInv ==
    ASSUME IInv, NEW e \in Execs, NEW s \in StepIds, AcquirePermit(e, s)
    PROVE  IInv'
<1>1. TypeOK'
  BY DEF IInv, TypeOK, AcquirePermit, Locked, Execute, SetState, SetTask, execVars,
         StepStates, TaskStates
<1>2. /\ stepState'[e][s] = "RUNNING" /\ task'[e][s] = "executing"
      /\ \A f \in Execs, t \in StepIds : <<f, t>> # <<e, s>> =>
            stepState'[f][t] = stepState[f][t] /\ task'[f][t] = task[f][t]
  BY DEF IInv, TypeOK, AcquirePermit, Execute, SetState, SetTask
<1>3. \A f \in Execs : WavesInOrder(f)' /\ \A t \in StepIds : TaskMatchesState(f, t)'
  BY <1>2, StepLocal DEF AcquirePermit, TaskMatchesState, TaskStates
<1>4. WaitersAreQueued'
  BY <1>2, WaitersKept DEF IInv, AcquirePermit
<1> QED BY <1>1, <1>3, <1>4 DEF IInv

(* Resuming wakes the first n waiters and leaves the others in their order. *)
LEMMA ResumeEffect ==
    ASSUME IInv, NEW e \in Execs, NEW s \in StepIds, ResumeWithPermit(e, s)
    PROVE  /\ task' \in [Execs -> [StepIds -> TaskStates]]
           /\ task[e][s] = "granted" /\ task'[e][s] = "executing"
           /\ \E n \in Wakes :
                /\ n \in Nat /\ permits' = permits - n
                /\ waiters' \in Seq(Execs \X StepIds)
                /\ Len(waiters') = Len(waiters) - n
                /\ \A i \in 1..Len(waiters') : waiters'[i] = waiters[i + n]
                /\ \A f \in Execs, t \in StepIds : <<f, t>> # <<e, s>> =>
                      task'[f][t] = IF \E i \in 1..n : waiters[i] = <<f, t>>
                                    THEN "granted" ELSE task[f][t]
<1>1. PICK n \in Wakes :
        /\ task' = [f \in Execs |-> [t \in StepIds |->
                      IF <<f, t>> = <<e, s>> THEN "executing"
                      ELSE IF <<f, t>> \in {waiters[i] : i \in 1..n}
                           THEN "granted" ELSE task[f][t]]]
        /\ waiters' = SubSeq(waiters, n + 1, Len(waiters))
        /\ permits' = permits - n
  BY DEF ResumeWithPermit
<1>2. /\ Len(waiters) \in Nat /\ n \in 0..Len(waiters)
      /\ \A i \in 1..Len(waiters) : waiters[i] \in Execs \X StepIds
  BY WaiterPairs DEF IInv, Wakes
<1>3. \A i \in (n + 1)..Len(waiters) : waiters[i] \in Execs \X StepIds
  BY <1>2
<1>4. /\ waiters' \in Seq(Execs \X StepIds)
      /\ Len(waiters') = Len(waiters) - n
      /\ \A i \in 1..Len(waiters') : waiters'[i] = waiters[i + n]
  <2>1. n + 1 \in Int /\ Len(waiters) \in Int
    BY <1>2
  <2>2. /\ waiters' \in Seq(Execs \X StepIds)
        /\ Len(waiters') = IF n + 1 <= Len(waiters) THEN Len(waiters) - (n + 1) + 1 ELSE 0
        /\ \A i \in 1..(Len(waiters) - (n + 1) + 1) : waiters'[i] = waiters[(n + 1) + i - 1]
    BY <1>1, <1>3, <2>1, SubSeqProperties
  <2>3. Len(waiters') = Len(waiters) - n
    BY <1>2, <2>2
  <2>4. \A i \in 1..(Len(waiters) - n) : (n + 1) + i - 1 = i + n
    BY <1>2
  <2>5. Len(waiters) - (n + 1) + 1 = Len(waiters) - n
    BY <1>2
  <2> QED BY <2>2, <2>3, <2>4, <2>5
<1>5. \A f \in Execs, t \in StepIds :
          task'[f][t] = IF <<f, t>> = <<e, s>> THEN "executing"
                        ELSE IF <<f, t>> \in {waiters[i] : i \in 1..n}
                             THEN "granted" ELSE task[f][t]
  BY <1>1
<1>6. task' \in [Execs -> [StepIds -> TaskStates]]
  BY <1>1 DEF IInv, TypeOK, TaskStates
<1>7. task[e][s] = "granted" /\ task'[e][s] = "executing"
  BY <1>5 DEF ResumeWithPermit
<1>8. \A f \in Execs, t \in StepIds : <<f, t>> # <<e, s>> =>
          task'[f][t] = IF \E i \in 1..n : waiters[i] = <<f, t>> THEN "granted" ELSE task[f][t]
  BY <1>5
<1>9. n \in Nat
  BY <1>2
<1> QED BY <1>1, <1>4, <1>6, <1>7, <1>8, <1>9

(* So the only other tasks that move are queued ones, which are granted. *)
LEMMA ResumeWakesQueued ==
    ASSUME IInv, NEW e \in Execs, NEW s \in StepIds, ResumeWithPermit(e, s)
    PROVE  \A f \in Execs, t \in StepIds : <<f, t>> # <<e, s>> =>
              \/ task'[f][t] = task[f][t]
              \/ task[f][t] = "queued" /\ task'[f][t] = "granted"
<1>1. PICK n \in Wakes :
        /\ n \in Nat /\ permits' = permits - n
        /\ waiters' \in Seq(Execs \X StepIds)
        /\ Len(waiters') = Len(waiters) - n
        /\ \A i \in 1..Len(waiters') : waiters'[i] = waiters[i + n]
        /\ \A f \in Execs, t \in StepIds : <<f, t>> # <<e, s>> =>
              task'[f][t] = IF \E i \in 1..n : waiters[i] = <<f, t>>
                            THEN "granted" ELSE task[f][t]
  BY ResumeEffect
<1>2. n \in 0..Len(waiters) /\ Len(waiters) \in Nat
  BY WaiterPairs DEF IInv, Wakes
<1>3. \A i \in 1..n : task[waiters[i][1]][waiters[i][2]] = "queued"
  BY <1>2 DEF IInv, WaitersAreQueued
<1>4. \A f \in Execs, t \in StepIds :
          (\E i \in 1..n : waiters[i] = <<f, t>>) => task[f][t] = "queued"
  BY <1>3
<1> QED BY <1>1, <1>4

LEMMA ResumeWithPermitIInv ==
    ASSUME IInv, NEW e \in Execs, NEW s \in StepIds, ResumeWithPermit(e, s)
    PROVE  IInv'
<1>1. PICK n \in Wakes :
        /\ n \in Nat /\ permits' = permits - n
        /\ waiters' \in Seq(Execs \X StepIds)
        /\ Len(waiters') = Len(waiters) - n
        /\ \A i \in 1..Len(waiters') : waiters'[i] = waiters[i + n]
        /\ \A f \in Execs, t \in StepIds : <<f, t>> # <<e, s>> =>
              task'[f][t] = IF \E i \in 1..n : waiters[i] = <<f, t>>
                            THEN "granted" ELSE task[f][t]
  BY ResumeEffect
<1>2. n <= permits /\ n <= Len(waiters) /\ Len(waiters) \in Nat
  BY <1>1, WaiterPairs DEF IInv, Wakes
<1>3. TypeOK'
  <2>1. permits' \in Nat
    BY <1>1, <1>2 DEF IInv, TypeOK
  <2> QED BY <1>1, <2>1, ResumeEffect
          DEF IInv, TypeOK, ResumeWithPermit, SetState, execVars, StepStates
<1>4. /\ task[e][s] = "granted" /\ task'[e][s] = "executing"
      /\ stepState'[e][s] = "RUNNING"
      /\ \A f \in Execs, t \in StepIds : <<f, t>> # <<e, s>> =>
            /\ stepState'[f][t] = stepState[f][t]
            /\ \/ task'[f][t] = task[f][t]
               \/ task[f][t] = "queued" /\ task'[f][t] = "granted"
  <2>1. stepState' = [stepState EXCEPT ![e][s] = "RUNNING"]
    BY DEF ResumeWithPermit, SetState
  <2>2. /\ stepState'[e][s] = "RUNNING"
        /\ \A f \in Execs, t \in StepIds : <<f, t>> # <<e, s>> =>
              stepState'[f][t] = stepState[f][t]
    BY <2>1 DEF IInv, TypeOK
  <2>3. task[e][s] = "granted" /\ task'[e][s] = "executing"
    BY ResumeEffect
  <2>4. \A f \in Execs, t \in StepIds : <<f, t>> # <<e, s>> =>
            \/ task'[f][t] = task[f][t]
            \/ task[f][t] = "queued" /\ task'[f][t] = "granted"
    BY ResumeWakesQueued
  <2> QED BY <2>2, <2>3, <2>4
<1>5. \A f \in Execs : WavesInOrder(f)' /\ \A t \in StepIds : TaskMatchesState(f, t)'
  <2>1. TaskMatchesState(e, s)'
    BY <1>4 DEF TaskMatchesState
  <2>2. UNCHANGED execVars
    BY DEF ResumeWithPermit
  <2> QED BY <1>4, <2>1, <2>2, StepLocal DEF TaskStates
<1>6. WaitersAreQueued'
  <2>1. ASSUME NEW i \in 1..Len(waiters')
        PROVE  /\ i + n \in 1..Len(waiters) /\ waiters'[i] = waiters[i + n]
               /\ task'[waiters'[i][1]][waiters'[i][2]] = "queued"
    <3>1. i + n \in 1..Len(waiters) /\ i + n \notin 1..n /\ waiters'[i] = waiters[i + n]
      BY <1>1, <1>2
    <3> DEFINE w == waiters[i + n]
    <3>2. w \in Execs \X StepIds /\ w = <<w[1], w[2]>> /\ task[w[1]][w[2]] = "queued"
      BY <3>1, WaiterPairs DEF IInv, WaitersAreQueued
    <3>3. \A k \in 1..n : waiters[k] # w
      BY <1>1, <1>2, <3>1 DEF IInv, WaitersAreQueued
    <3>4. w # <<e, s>>
      BY <1>4, <3>2
    <3> HIDE DEF w
    <3>5. task'[w[1]][w[2]] = task[w[1]][w[2]]
      <4>1. w[1] \in Execs /\ w[2] \in StepIds /\ <<w[1], w[2]>> # <<e, s>>
        BY <3>2, <3>4
      <4>2. ~\E k \in 1..n : waiters[k] = <<w[1], w[2]>>
        BY <3>2, <3>3
      <4> QED BY <1>1, <4>1, <4>2
    <3> QED BY <3>1, <3>2, <3>5 DEF w
  <2>2. ASSUME NEW i \in 1..Len(waiters'), NEW j \in 1..Len(waiters'),
               waiters'[i] = waiters'[j]
        PROVE  i = j
    <3>1. i + n = j + n
      BY <2>1, <2>2 DEF IInv, WaitersAreQueued
    <3> QED BY <1>1, <3>1
  <2> QED BY <2>1, <2>2 DEF WaitersAreQueued
<1> QED BY <1>3, <1>5, <1>6 DEF IInv

LEMMA AwaitPermitIInv ==
    ASSUME IInv, NEW e \in Execs, NEW s \in StepIds, AwaitPermit(e, s)
    PROVE  IInv'
<1>1. /\ waiters \in Seq(Execs \X StepIds)
      /\ waiters' = Append(waiters, <<e, s>>)
      /\ <<e, s>> \in Execs \X StepIds
  BY DEF IInv, TypeOK, AwaitPermit
<1>2. /\ waiters' \in Seq(Execs \X StepIds)
      /\ Len(waiters') = Len(waiters) + 1
      /\ \A i \in 1..Len(waiters) : waiters'[i] = waiters[i]
      /\ waiters'[Len(waiters) + 1] = <<e, s>>
  BY <1>1, AppendProperties
<1>3. TypeOK'
  BY <1>2 DEF IInv, TypeOK, AwaitPermit, SetTask, execVars, TaskStates
<1>4. /\ task[e][s] = "spawned" /\ task'[e][s] = "queued" /\ stepState' = stepState
      /\ \A f \in Execs, t \in StepIds : <<f, t>> # <<e, s>> => task'[f][t] = task[f][t]
  BY DEF IInv, TypeOK, AwaitPermit, SetTask
<1>5. \A f \in Execs : WavesInOrder(f)' /\ \A t \in StepIds : TaskMatchesState(f, t)'
  <2>1. TaskMatchesState(e, s)'
    BY <1>4 DEF IInv, TaskMatchesState
  <2> QED BY <1>4, <2>1, StepLocal DEF AwaitPermit, TaskStates
<1>6. WaitersAreQueued'
  <2>1. \A i \in 1..Len(waiters) :
          /\ waiters[i] # <<e, s>>
          /\ task'[waiters[i][1]][waiters[i][2]] = "queued"
    BY <1>4, WaiterPairs DEF IInv, WaitersAreQueued
  <2>2. Len(waiters) \in Nat
    BY WaiterPairs DEF IInv
  <2>3. 1..Len(waiters') = 1..Len(waiters) \cup {Len(waiters) + 1}
    BY <1>2, <2>2
  <2>4. \A i \in 1..Len(waiters') : task'[waiters'[i][1]][waiters'[i][2]] = "queued"
    BY <1>2, <1>4, <2>1, <2>3
  <2>5. \A i, j \in 1..Len(waiters') : waiters'[i] = waiters'[j] => i = j
    BY <1>2, <2>1, <2>3 DEF IInv, WaitersAreQueued
  <2> QED BY <2>4, <2>5 DEF WaitersAreQueued
<1> QED BY <1>3, <1>5, <1>6 DEF IInv

(* Returning wakes the first waiter or gives the permit back. *)
LEMMA ReturnEffect ==
    ASSUME IInv, NEW e \in Execs, NEW s \in StepIds,
           task[e][s] = "executing", Return(e, s)
    PROVE  /\ task' \in [Execs -> [StepIds -> TaskStates]]
           /\ permits' \in Nat
           /\ waiters' \in Seq(Execs \X StepIds)
           /\ WaitersAreQueued'
           /\ task'[e][s] = "returned"
           /\ \A f \in Execs, t \in StepIds : <<f, t>> # <<e, s>> =>
                \/ task'[f][t] = task[f][t]
                \/ task[f][t] = "queued" /\ task'[f][t] = "granted"
<1>1. CASE Parallel(e) /\ waiters # <<>>
  <2> DEFINE next == Head(waiters)
             g == next[1]
             u == next[2]
  <2>1. /\ waiters \in Seq(Execs \X StepIds)
        /\ waiters' = Tail(waiters)
        /\ permits' = permits /\ permits \in Nat
        /\ task' = [task EXCEPT ![e][s] = "returned", ![g][u] = "granted"]
        /\ task \in [Execs -> [StepIds -> TaskStates]]
    BY <1>1 DEF IInv, TypeOK, Return
  <2>2. /\ waiters' \in Seq(Execs \X StepIds)
        /\ next = waiters[1]
        /\ Len(waiters) \in Nat \ {0}
        /\ Len(waiters') = Len(waiters) - 1
        /\ \A i \in 1..Len(waiters') : waiters'[i] = waiters[i + 1]
    BY <1>1, <2>1, HeadTailProperties, EmptySeq
  <2>3. /\ g \in Execs /\ u \in StepIds /\ next = <<g, u>>
        /\ task[g][u] = "queued"
    BY <2>2, WaiterPairs DEF IInv, WaitersAreQueued
  <2>4. <<g, u>> # <<e, s>>
    BY <2>3
  <2> HIDE DEF next, g, u
  <2>5. /\ task' \in [Execs -> [StepIds -> TaskStates]]
        /\ task'[e][s] = "returned"
        /\ task'[g][u] = "granted"
        /\ \A f \in Execs, t \in StepIds :
              <<f, t>> # <<e, s>> /\ <<f, t>> # <<g, u>> => task'[f][t] = task[f][t]
    BY <2>1, <2>3, <2>4 DEF TaskStates
  <2>6. \A f \in Execs, t \in StepIds : <<f, t>> # <<e, s>> =>
                \/ task'[f][t] = task[f][t]
                \/ task[f][t] = "queued" /\ task'[f][t] = "granted"
    BY <2>3, <2>5
  <2>7. WaitersAreQueued'
    <3>1. ASSUME NEW i \in 1..Len(waiters')
          PROVE  /\ i + 1 \in 1..Len(waiters) /\ waiters'[i] = waiters[i + 1]
                 /\ task'[waiters'[i][1]][waiters'[i][2]] = "queued"
      <4>1. i + 1 \in 1..Len(waiters) /\ i + 1 # 1 /\ waiters'[i] = waiters[i + 1]
        BY <2>2
      <4>2. waiters[i + 1] # <<g, u>>
        <5>1. 1 \in 1..Len(waiters) /\ waiters[1] = <<g, u>>
          BY <2>2, <2>3
        <5> QED BY <4>1, <5>1 DEF IInv, WaitersAreQueued
      <4> DEFINE w == waiters[i + 1]
      <4>3. /\ w \in Execs \X StepIds /\ w = <<w[1], w[2]>>
            /\ task[w[1]][w[2]] = "queued"
        BY <4>1, WaiterPairs DEF IInv, WaitersAreQueued
      <4>4. w # <<e, s>>
        BY <4>3
      <4> HIDE DEF w
      <4>5. task'[w[1]][w[2]] = task[w[1]][w[2]]
        BY <4>2, <4>3, <4>4, <2>5 DEF w
      <4> QED BY <4>1, <4>3, <4>5 DEF w
    <3>2. ASSUME NEW i \in 1..Len(waiters'), NEW j \in 1..Len(waiters'),
                 waiters'[i] = waiters'[j]
          PROVE  i = j
      <4>1. i + 1 \in 1..Len(waiters) /\ waiters'[i] = waiters[i + 1]
        BY <3>1
      <4>2. j + 1 \in 1..Len(waiters) /\ waiters'[j] = waiters[j + 1]
        BY <3>1
      <4>3. i + 1 = j + 1
        BY <4>1, <4>2, <3>2 DEF IInv, WaitersAreQueued
      <4> QED BY <4>3
    <3> QED BY <3>1, <3>2 DEF WaitersAreQueued
  <2> QED BY <2>1, <2>2, <2>5, <2>6, <2>7
<1>2. CASE ~(Parallel(e) /\ waiters # <<>>)
  <2>1. /\ task' = [task EXCEPT ![e][s] = "returned"]
        /\ permits' = IF Parallel(e) THEN permits + 1 ELSE permits
        /\ waiters' = waiters
    BY <1>2 DEF Return, SetTask
  <2>2. /\ task' \in [Execs -> [StepIds -> TaskStates]]
        /\ task'[e][s] = "returned"
        /\ \A f \in Execs, t \in StepIds : <<f, t>> # <<e, s>> => task'[f][t] = task[f][t]
    BY <2>1 DEF IInv, TypeOK, TaskStates
  <2>3. permits' \in Nat
    BY <2>1 DEF IInv, TypeOK
  <2>4. WaitersAreQueued'
    BY <2>1, <2>2, WaitersKept DEF IInv
  <2> QED BY <2>1, <2>2, <2>3, <2>4 DEF IInv, TypeOK
<1> QED BY <1>1, <1>2

LEMMA HandlerSucceedsIInv ==
    ASSUME IInv, NEW e \in Execs, NEW s \in StepIds, HandlerSucceeds(e, s)
    PROVE  IInv'
<1>1. /\ task[e][s] = "executing" /\ Return(e, s)
      /\ stepState' = [stepState EXCEPT ![e][s] = "COMPLETED"]
      /\ UNCHANGED <<execVars, retryCount, attempts>>
  BY DEF HandlerSucceeds, SetState
<1>2. TypeOK'
  BY <1>1, ReturnEffect DEF IInv, TypeOK, execVars, StepStates
<1>3. /\ stepState'[e][s] = "COMPLETED"
      /\ \A f \in Execs, t \in StepIds :
            <<f, t>> # <<e, s>> => stepState'[f][t] = stepState[f][t]
  BY <1>1 DEF IInv, TypeOK
<1>4. \A f \in Execs : WavesInOrder(f)' /\ \A t \in StepIds : TaskMatchesState(f, t)'
  <2>1. TaskMatchesState(e, s)'
    BY <1>1, <1>3, ReturnEffect DEF TaskMatchesState
  <2>2. /\ UNCHANGED execVars
        /\ task'[e][s] \in TaskStates \ {"none"}
        /\ task[e][s] \notin {"none", "returned"}
        /\ \A f \in Execs, t \in StepIds : <<f, t>> # <<e, s>> =>
              /\ stepState'[f][t] = stepState[f][t]
              /\ \/ task'[f][t] = task[f][t]
                 \/ task[f][t] = "queued" /\ task'[f][t] = "granted"
    BY <1>1, <1>3, ReturnEffect DEF TaskStates
  <2> QED BY <2>1, <2>2, StepLocal
<1> QED BY <1>1, <1>2, <1>4, ReturnEffect DEF IInv

LEMMA FailForGoodIInv ==
    ASSUME IInv, NEW e \in Execs, NEW s \in StepIds, FailForGood(e, s)
    PROVE  IInv'
<1>1. /\ task[e][s] = "executing" /\ Return(e, s)
      /\ stepState' = [stepState EXCEPT ![e][s] = "FAILED"]
      /\ attempts' = [attempts EXCEPT ![s] = @ + 1]
      /\ UNCHANGED <<execVars, retryCount>>
  BY DEF FailForGood, SetState, RecordAttempt
<1>2. TypeOK'
  BY <1>1, ReturnEffect DEF IInv, TypeOK, execVars, StepStates
<1>3. /\ stepState'[e][s] = "FAILED"
      /\ \A f \in Execs, t \in StepIds :
            <<f, t>> # <<e, s>> => stepState'[f][t] = stepState[f][t]
  BY <1>1 DEF IInv, TypeOK
<1>4. \A f \in Execs : WavesInOrder(f)' /\ \A t \in StepIds : TaskMatchesState(f, t)'
  <2>1. TaskMatchesState(e, s)'
    BY <1>1, <1>3, ReturnEffect DEF TaskMatchesState
  <2>2. /\ UNCHANGED execVars
        /\ task'[e][s] \in TaskStates \ {"none"}
        /\ task[e][s] \notin {"none", "returned"}
        /\ \A f \in Execs, t \in StepIds : <<f, t>> # <<e, s>> =>
              /\ stepState'[f][t] = stepState[f][t]
              /\ \/ task'[f][t] = task[f][t]
                 \/ task[f][t] = "queued" /\ task'[f][t] = "granted"
    BY <1>1, <1>3, ReturnEffect DEF TaskStates
  <2> QED BY <2>1, <2>2, StepLocal
<1> QED BY <1>1, <1>2, <1>4, ReturnEffect DEF IInv

LEMMA RetryAfterFailureIInv ==
    ASSUME IInv, NEW e \in Execs, NEW s \in StepIds, RetryAfterFailure(e, s)
    PROVE  IInv'
<1>1. TypeOK'
  <2>1. stepState' \in [Execs -> [StepIds -> StepStates]]
    BY DEF IInv, TypeOK, RetryAfterFailure, SetState, StepStates
  <2>2. task' \in [Execs -> [StepIds -> TaskStates]]
    BY DEF IInv, TypeOK, RetryAfterFailure, SetTask, TaskStates
  <2>3. retryCount' \in [Execs -> [StepIds -> Nat]]
    BY DEF IInv, TypeOK, RetryAfterFailure
  <2>4. attempts' \in [StepIds -> Nat]
    BY DEF IInv, TypeOK, RetryAfterFailure, RecordAttempt
  <2> QED BY <2>1, <2>2, <2>3, <2>4 DEF IInv, TypeOK, RetryAfterFailure, execVars, semVars
<1>2. /\ stepState'[e][s] = "RETRYING" /\ task'[e][s] = "backoff"
      /\ \A f \in Execs, t \in StepIds : <<f, t>> # <<e, s>> =>
            stepState'[f][t] = stepState[f][t] /\ task'[f][t] = task[f][t]
  BY DEF IInv, TypeOK, RetryAfterFailure, SetState, SetTask
<1>3. \A f \in Execs : WavesInOrder(f)' /\ \A t \in StepIds : TaskMatchesState(f, t)'
  BY <1>2, StepLocal DEF RetryAfterFailure, TaskMatchesState, TaskStates
<1>4. WaitersAreQueued'
  BY <1>2, WaitersKept DEF IInv, RetryAfterFailure, semVars
<1> QED BY <1>1, <1>3, <1>4 DEF IInv

LEMMA BackoffOverIInv ==
    ASSUME IInv, NEW e \in Execs, NEW s \in StepIds, BackoffOver(e, s)
    PROVE  IInv'
<1>1. TypeOK'
  BY DEF IInv, TypeOK, BackoffOver, SetTask, execVars, semVars, TaskStates
<1>2. /\ task[e][s] = "backoff" /\ task'[e][s] = "executing" /\ stepState' = stepState
      /\ \A f \in Execs, t \in StepIds : <<f, t>> # <<e, s>> => task'[f][t] = task[f][t]
  BY DEF IInv, TypeOK, BackoffOver, SetTask
<1>3. \A f \in Execs : WavesInOrder(f)' /\ \A t \in StepIds : TaskMatchesState(f, t)'
  <2>1. TaskMatchesState(e, s)'
    BY <1>2 DEF IInv, TaskMatchesState
  <2> QED BY <1>2, <2>1, StepLocal DEF BackoffOver, TaskStates
<1>4. WaitersAreQueued'
  BY <1>2, WaitersKept DEF IInv, BackoffOver, semVars
<1> QED BY <1>1, <1>3, <1>4 DEF IInv

-----------------------------------------------------------------------------
(* The invariant the other theorems rest on: every interleaving of every   *)
(* number of executions keeps each of them in wave order.                  *)
THEOREM InductiveInvariant == Spec => []IInv
<1>1. Init => IInv
  BY InitIInv
<1>2. IInv /\ [Next]_vars => IInv'
  <2> SUFFICES ASSUME IInv, [Next]_vars PROVE IInv'
    OBVIOUS
  <2>1. ASSUME NEW e \in Execs, Start(e) \/ Coroutine(e) PROVE IInv'
    BY <2>1, StartIInv, StartSequentialIInv, StartParallelIInv, JoinWaveIInv,
       AbortPlanIInv, CompleteIInv DEF Coroutine
  <2>2. ASSUME NEW e \in Execs, NEW s \in StepIds, StepTask(e, s) PROVE IInv'
    BY <2>2, AcquirePermitIInv, AwaitPermitIInv, ResumeWithPermitIInv,
       HandlerSucceedsIInv, RetryAfterFailureIInv, FailForGoodIInv, BackoffOverIInv
       DEF StepTask, Handler
  <2>3. CASE UNCHANGED vars
    BY <2>3 DEF vars, execVars, stepVars, semVars, IInv, TypeOK, WavesInOrder,
       TaskMatchesState, WaitersAreQueued
  <2> QED BY <2>1, <2>2, <2>3 DEF Next, Served
<1> QED BY <1>1, <1>2, PTL DEF Spec

(* The type invariant of PlanExecution. *)
THEOREM TypeCorrect == Spec => []TypeOK
<1>1. IInv => TypeOK
  BY DEF IInv
<1> QED BY <1>1, InductiveInvariant, PTL

(* No step of any execution begins before the dependencies that its plan   *)
(* contains have COMPLETED, whatever the other executions do.              *)
THEOREM StepsRunInOrder == Spec => []DependencyOrder
<1>1. IInv => DependencyOrder
  <2> SUFFICES ASSUME IInv, NEW e \in Execs, NEW s \in StepIds,
                      stepState[e][s] \in {"RUNNING", "RETRYING", "COMPLETED", "FAILED"}
               PROVE  \A d \in InPlanDeps(plan[e], s) : stepState[e][d] = "COMPLETED"
    BY DEF DependencyOrder
  <2>1. task[e][s] # "none"
    BY DEF IInv, TaskMatchesState
  <2>2. s \in placed[e]
    BY <2>1 DEF IInv, WavesInOrder
  <2> QED BY <2>2 DEF IInv, WavesInOrder
<1> QED BY <1>1, InductiveInvariant, PTL

-----------------------------------------------------------------------------
(* The first waves of a plan. *)

(* The least-number principle, for sets of numbers. *)
LEMMA Smallest ==
    ASSUME NEW T \in SUBSET Nat, T # {}
    PROVE  \E m \in T : \A k \in T : m <= k
<1> DEFINE R == {x \in Nat \X Nat : x[1] < x[2]}
<1>1. IsWellFoundedOn(R, Nat)
  BY NatLessThanWellFounded DEF OpToRel
<1> HIDE DEF R
<1>2. PICK m \in T : \A k \in T : <<k, m>> \notin R
  BY <1>1, WFMin
<1>3. ASSUME NEW k \in T PROVE m <= k
  <2>1. ~(k < m)
    BY <1>2 DEF R
  <2> QED BY <2>1
<1> QED BY <1>3

(* A finite plan has a list of its first waves, as UpTo defines it. *)
LEMMA FirstWavesExist ==
    ASSUME NEW p, NEW N \in Nat
    PROVE  \E g \in [0..N -> SUBSET p.steps] : \A k \in 0..N :
              g[k] = IF k = 0 THEN {} ELSE g[k - 1] \cup NextWave(p, g[k - 1])
<1> DEFINE Lists(g, m) ==
              \A k \in 0..m : g[k] = IF k = 0 THEN {} ELSE g[k - 1] \cup NextWave(p, g[k - 1])
           T == {m \in 0..N : ~ \E g \in [0..m -> SUBSET p.steps] : Lists(g, m)}
<1> HIDE DEF T
<1>0. T \in SUBSET Nat /\ T \subseteq 0..N
  BY DEF T
<1>1. ASSUME T # {} PROVE FALSE
  <2>1. PICK m \in T : \A k \in T : m <= k
    BY <1>0, <1>1, Smallest
  <2>2. CASE m = 0
    <3> DEFINE g == [k \in 0..0 |-> {}]
    <3>1. g \in [0..0 -> SUBSET p.steps] /\ Lists(g, 0)
      OBVIOUS
    <3> QED BY <2>1, <2>2, <3>1 DEF T
  <2>3. CASE m # 0
    <3>1. m - 1 \in 0..N /\ m - 1 \notin T /\ m \in Nat
      <4>1. m \in 0..N
        BY <1>0, <2>1
      <4>2. m - 1 \in 0..N /\ ~(m <= m - 1)
        BY <2>3, <4>1
      <4> QED BY <2>1, <4>1, <4>2
    <3>2. PICK g \in [0..(m - 1) -> SUBSET p.steps] : Lists(g, m - 1)
      BY <3>1 DEF T
    <3> DEFINE top == g[m - 1] \cup NextWave(p, g[m - 1])
               h == [k \in 0..m |-> IF k = m THEN top ELSE g[k]]
    <3>3. g[m - 1] \in SUBSET p.steps
      BY <2>3, <3>1, <3>2
    <3>4. top \in SUBSET p.steps
      BY <3>3 DEF NextWave
    <3>5. \A k \in 0..m : k # m => k \in 0..(m - 1) /\ g[k] \in SUBSET p.steps
      BY <3>1, <3>2
    <3>6. h \in [0..m -> SUBSET p.steps]
      BY <3>4, <3>5
    <3>7. \A k \in 0..m : h[k] = IF k = m THEN top ELSE g[k]
      OBVIOUS
    <3> HIDE DEF h
    <3>8. ASSUME NEW k \in 0..m
          PROVE  h[k] = IF k = 0 THEN {} ELSE h[k - 1] \cup NextWave(p, h[k - 1])
      <4>1. CASE k = m
        <5>1. m - 1 \in 0..m /\ m - 1 # m /\ k # 0
          BY <2>3, <3>1, <4>1
        <5>2. h[k - 1] = g[m - 1] /\ h[k] = top
          BY <3>7, <4>1, <5>1
        <5> QED BY <5>1, <5>2
      <4>2. CASE k # m
        <5>1. /\ k \in 0..(m - 1) /\ h[k] = g[k]
              /\ k # 0 => k - 1 \in 0..m /\ k - 1 # m /\ h[k - 1] = g[k - 1]
          BY <3>1, <3>7, <4>2
        <5> QED BY <3>2, <5>1
      <4> QED BY <4>1, <4>2
    <3> QED BY <2>1, <3>6, <3>8 DEF T
  <2> QED BY <2>2, <2>3
<1>2. N \in 0..N /\ N \notin T
  BY <1>1
<1> QED BY <1>2 DEF T

LEMMA UpToWaves ==
    ASSUME NEW p, IsFiniteSet(p.steps)
    PROVE  /\ UpTo(p) \in [0..Cardinality(p.steps) -> SUBSET p.steps]
           /\ UpTo(p)[0] = {}
           /\ \A k \in 0..(Cardinality(p.steps) - 1) :
                 UpTo(p)[k + 1] = UpTo(p)[k] \cup NextWave(p, UpTo(p)[k])
<1> DEFINE N == Cardinality(p.steps)
           Waves(g) == [k \in 0..N |->
                           IF k = 0 THEN {} ELSE g[k - 1] \cup NextWave(p, g[k - 1])]
<1>1. N \in Nat
  BY FS_CardinalityType
<1>2. UpTo(p) = CHOOSE g : g = Waves(g)
  BY DEF UpTo
<1> HIDE DEF N
<1>3. PICK g \in [0..N -> SUBSET p.steps] : g = Waves(g)
  <2>1. PICK g \in [0..N -> SUBSET p.steps] : \A k \in 0..N :
              g[k] = IF k = 0 THEN {} ELSE g[k - 1] \cup NextWave(p, g[k - 1])
    BY ZenonT(60), <1>1, FirstWavesExist
  <2> QED BY <2>1
<1>4. UpTo(p) = Waves(UpTo(p))
  BY <1>2, <1>3
<1> DEFINE u == UpTo(p)
<1> HIDE DEF u
<1>5. u = Waves(u)
  BY <1>4 DEF u
<1>6. \A k \in 0..N : u[k] = IF k = 0 THEN {} ELSE u[k - 1] \cup NextWave(p, u[k - 1])
  BY <1>5
<1>7. u[0] = {} /\ \A k \in 0..(N - 1) : u[k + 1] = u[k] \cup NextWave(p, u[k])
  <2>1. u[0] = {}
    <3>1. 0 \in 0..N
      BY <1>1
    <3> QED BY <1>6, <3>1
  <2>2. ASSUME NEW k \in 0..(N - 1) PROVE u[k + 1] = u[k] \cup NextWave(p, u[k])
    <3>1. k + 1 \in 0..N /\ k + 1 # 0 /\ (k + 1) - 1 = k
      BY <1>1
    <3> QED BY <1>6, <3>1
  <2> QED BY <2>1, <2>2
<1> DEFINE T == {k \in 0..N : ~(u[k] \subseteq p.steps)}
<1> HIDE DEF T
<1>0. T \in SUBSET Nat /\ T \subseteq 0..N
  BY DEF T
<1>8. ASSUME T # {} PROVE FALSE
  <2>1. PICK m \in T : \A k \in T : m <= k
    BY <1>0, <1>8, Smallest
  <2>2. m # 0
    BY <1>7, <2>1 DEF T
  <2>3. m - 1 \in 0..(N - 1) /\ m - 1 \notin T /\ (m - 1) + 1 = m
    <3>1. m \in 0..N
      BY <1>0, <2>1
    <3>2. m - 1 \in 0..(N - 1) /\ (m - 1) + 1 = m /\ ~(m <= m - 1)
      BY <1>1, <2>2, <3>1
    <3> QED BY <2>1, <3>2
  <2>4. u[m - 1] \subseteq p.steps
    BY <1>1, <2>3 DEF T
  <2>5. u[m] \subseteq p.steps
    BY <1>7, <2>3, <2>4 DEF NextWave
  <2> QED BY <2>1, <2>5 DEF T
<1>9. u \in [0..N -> SUBSET p.steps]
  <2>1. \A k \in 0..N : u[k] \subseteq p.steps
    BY <1>8 DEF T
  <2> QED BY <1>5, <2>1
<1> QED BY <1>7, <1>9 DEF u, N

(* A wave after waves without blocked steps has none. *)
LEMMA BlockedStaysOut ==
    ASSUME NEW p, NEW P \in SUBSET p.steps, P \cap Blocked(p) = {}
    PROVE  NextWave(p, P) \cap Blocked(p) = {}
<1> SUFFICES ASSUME NEW s \in NextWave(p, P), NEW C \in SUBSET p.steps,
                    Deadlocked(p, C), s \in C
             PROVE  FALSE
  BY DEF Blocked
<1>1. PICK d \in InPlanDeps(p, s) : d \in C
  BY DEF Deadlocked
<1>2. d \in P
  BY <1>1 DEF NextWave
<1>3. d \in Blocked(p)
  BY <1>1 DEF Blocked
<1> QED BY <1>2, <1>3

(* No blocked step is ever in one of the first waves. *)
LEMMA UpToUnblocked ==
    ASSUME NEW p, IsFiniteSet(p.steps), NEW k \in 0..Cardinality(p.steps)
    PROVE  UpTo(p)[k] \in SUBSET p.steps /\ UpTo(p)[k] \cap Blocked(p) = {}
<1> DEFINE N == Cardinality(p.steps)
           u == UpTo(p)
           T == {m \in 0..N : u[m] \cap Blocked(p) # {}}
<1>1. /\ N \in Nat /\ u \in [0..N -> SUBSET p.steps] /\ u[0] = {}
      /\ \A m \in 0..(N - 1) : u[m + 1] = u[m] \cup NextWave(p, u[m])
  BY UpToWaves, FS_CardinalityType
<1> HIDE DEF N, u
<1>2. ASSUME T # {} PROVE FALSE
  <2>1. T \in SUBSET Nat /\ T \subseteq 0..N
    BY <1>1
  <2> HIDE DEF T
  <2>2. PICK m \in T : \A j \in T : m <= j
    BY <1>2, <2>1, Smallest
  <2>3. m # 0
    BY <1>1, <2>2 DEF T
  <2>4. m - 1 \in 0..(N - 1) /\ m - 1 \notin T /\ (m - 1) + 1 = m
    <3>1. m \in 0..N
      BY <2>1, <2>2
    <3>2. m - 1 \in 0..(N - 1) /\ (m - 1) + 1 = m /\ ~(m <= m - 1)
      BY <1>1, <2>3, <3>1
    <3> QED BY <2>2, <3>2
  <2> DEFINE before == u[m - 1]
  <2>5. /\ before \in SUBSET p.steps /\ before \cap Blocked(p) = {}
        /\ u[m] = before \cup NextWave(p, before)
    <3>1. m - 1 \in 0..N
      BY <1>1, <2>4
    <3> QED BY <1>1, <2>4, <3>1 DEF T
  <2> HIDE DEF before
  <2>6. u[m] \cap Blocked(p) = {}
    BY <2>5, BlockedStaysOut
  <2> QED BY <2>2, <2>6 DEF T
<1>3. u[k] \cap Blocked(p) = {}
  BY <1>2 DEF N
<1> QED BY <1>1, <1>3 DEF N, u

(* When no wave follows, what is left out is blocked. *)
LEMMA AllPlaced ==
    ASSUME NEW p, NEW P \in SUBSET p.steps, P \cap Blocked(p) = {}, NextWave(p, P) = {}
    PROVE  P = Schedulable(p)
<1> DEFINE C == p.steps \ P
<1>1. Deadlocked(p, C)
  <2> SUFFICES ASSUME NEW s \in C PROVE InPlanDeps(p, s) \cap C # {}
    BY DEF Deadlocked
  <2>1. ~(InPlanDeps(p, s) \subseteq P)
    BY DEF NextWave
  <2>2. InPlanDeps(p, s) \subseteq p.steps
    BY DEF InPlanDeps
  <2> QED BY <2>1, <2>2
<1>2. C \subseteq Blocked(p)
  BY <1>1 DEF Blocked
<1> QED BY <1>2 DEF Schedulable

(* The plan of a request is finite, and its steps are step ids. *)
LEMMA PlanIsFinite ==
    ASSUME TypeOK, NEW e \in Execs
    PROVE  plan[e].steps \subseteq StepIds /\ IsFiniteSet(plan[e].steps)
<1>1. plan[e].steps \subseteq StepIds
  BY PlansAssumption DEF TypeOK, PlansOver
<1> QED BY <1>1, StepIdsFinite, FS_Subset

(* Where the waves of an execution stand, with the wave last started. *)
LEMMA WavesFacts ==
    ASSUME OutcomeIInv, NEW e \in Execs
    PROVE  /\ placed[e] \in SUBSET plan[e].steps
           /\ placed[e] \cap Blocked(plan[e]) = {}
           /\ Failed(e) \subseteq placed[e]
<1> DEFINE p == plan[e]
<1>1. PICK k \in 0..Cardinality(p.steps) :
        LET before == UpTo(p)[k]
            last   == NextWave(p, before)
        IN  IF phase[e] \in {"running", "recovering"}
            THEN placed[e] = before \cup last /\ Failed(e) \subseteq last
            ELSE placed[e] = before /\ Failed(e) = {}
  BY DEF OutcomeIInv, WavesSoFar
<1>2. IsFiniteSet(p.steps)
  BY PlanIsFinite DEF OutcomeIInv, IInv
<1> HIDE DEF p
<1> DEFINE before == UpTo(p)[k]
<1>3. before \in SUBSET p.steps /\ before \cap Blocked(p) = {}
  BY <1>2, UpToUnblocked
<1>4. \/ placed[e] = before /\ Failed(e) = {}
      \/ placed[e] = before \cup NextWave(p, before) /\ Failed(e) \subseteq NextWave(p, before)
  BY <1>1
<1> HIDE DEF before
<1>5. NextWave(p, before) \cap Blocked(p) = {} /\ NextWave(p, before) \subseteq p.steps
  BY <1>3, BlockedStaysOut DEF NextWave
<1> QED BY <1>3, <1>4, <1>5 DEF p

-----------------------------------------------------------------------------
(* What an execution leaves behind: OutcomeIInv is inductive. *)

LEMMA InitOutcome == Init => OutcomeIInv
<1> SUFFICES ASSUME Init PROVE OutcomeIInv
  OBVIOUS
<1>1. IInv
  BY InitIInv
<1>2. ASSUME NEW e \in Execs PROVE WavesSoFar(e) /\ SettledWhenOver(e)
  <2>1. IsFiniteSet(plan[e].steps)
    BY <1>1, PlanIsFinite DEF IInv
  <2>2. 0 \in 0..Cardinality(plan[e].steps) /\ UpTo(plan[e])[0] = {} /\ Cardinality({}) = 0
    BY <2>1, FS_CardinalityType, UpToWaves, FS_EmptySet
  <2>3. placed[e] = {} /\ phase[e] = "idle" /\ Failed(e) = {}
        /\ \A s \in StepIds : stepState[e][s] = "PENDING"
    BY DEF Init, Failed
  <2> DEFINE before == UpTo(plan[e])[0]
  <2>4. 0 <= Cardinality(before) /\ placed[e] = before
    BY <2>2, <2>3
  <2>5. ~(phase[e] \in {"running", "recovering"})
    BY <2>3
  <2>6. WavesSoFar(e)
    BY <2>2, <2>3, <2>4, <2>5 DEF WavesSoFar
  <2>7. SettledWhenOver(e)
    BY <2>3 DEF SettledWhenOver
  <2> QED BY <2>6, <2>7
<1> QED BY <1>1, <1>2 DEF OutcomeIInv

(* An execution of which nothing changes. *)
LEMMA SameOutcome ==
    ASSUME OutcomeIInv, NEW f \in Execs, UNCHANGED plan,
           phase'[f] = phase[f], placed'[f] = placed[f], wave'[f] = wave[f],
           stepState'[f] = stepState[f], task'[f] = task[f]
    PROVE  WavesSoFar(f)' /\ SettledWhenOver(f)'
<1>1. Failed(f)' = Failed(f)
  BY DEF Failed
<1>2. WavesSoFar(f)'
  BY <1>1 DEF OutcomeIInv, WavesSoFar
<1>3. SettledWhenOver(f)'
  BY <1>1 DEF OutcomeIInv, SettledWhenOver
<1> QED BY <1>2, <1>3

(* A request arrives. *)
LEMMA StartOutcome ==
    ASSUME OutcomeIInv, NEW e \in Execs, Start(e)
    PROVE  \A f \in Execs : WavesSoFar(f)' /\ SettledWhenOver(f)'
<1>1. /\ phase[e] = "idle" /\ phase'[e] = "ready"
      /\ UNCHANGED <<plan, placed, wave, stepState, task>>
      /\ \A f \in Execs \ {e} : phase'[f] = phase[f]
  BY DEF OutcomeIInv, IInv, TypeOK, Start, stepVars
<1>2. Failed(e)' = Failed(e)
  BY <1>1 DEF Failed
<1>3. WavesSoFar(e)'
  BY <1>1, <1>2 DEF OutcomeIInv, WavesSoFar
<1>4. SettledWhenOver(e)'
  BY <1>1, <1>2 DEF OutcomeIInv, SettledWhenOver
<1> QED BY <1>1, <1>3, <1>4, SameOutcome

(* No wave is left. *)
LEMMA CompleteOutcome ==
    ASSUME OutcomeIInv, NEW e \in Execs, Complete(e)
    PROVE  \A f \in Execs : WavesSoFar(f)' /\ SettledWhenOver(f)'
<1>1. /\ phase[e] = "ready" /\ phase'[e] = "completed"
      /\ NextWave(plan[e], placed[e]) = {}
      /\ UNCHANGED <<plan, placed, wave, stepState, task>>
      /\ \A f \in Execs \ {e} : phase'[f] = phase[f]
  BY DEF OutcomeIInv, IInv, TypeOK, Complete, stepVars
<1>2. Failed(e)' = Failed(e)
  BY <1>1 DEF Failed
<1>3. WavesSoFar(e)'
  BY <1>1, <1>2 DEF OutcomeIInv, WavesSoFar
<1>4. SettledWhenOver(e)'
  BY <1>1, <1>2 DEF OutcomeIInv, SettledWhenOver
<1> QED BY <1>1, <1>3, <1>4, SameOutcome

(* A wave starts, all its steps with a task. *)
LEMMA StartWaveOutcome ==
    ASSUME OutcomeIInv, NEW e \in Execs, UNCHANGED plan,
           NEW W, W = NextWave(plan[e], placed[e]), W # {},
           phase[e] = "ready", phase'[e] = "running",
           placed'[e] = placed[e] \cup W, wave'[e] = W,
           \A t \in StepIds \ W : stepState'[e][t] = stepState[e][t] /\ task'[e][t] = task[e][t],
           \A t \in W : stepState'[e][t] \in {"PENDING", "RUNNING"} /\ task'[e][t] # "none"
    PROVE  WavesSoFar(e)' /\ SettledWhenOver(e)'
<1>1. Failed(e) = {} /\ placed[e] \subseteq StepIds
  BY DEF OutcomeIInv, IInv, TypeOK, WavesSoFar
<1>2. Failed(e)' = {} /\ \A t \in StepIds : stepState'[e][t] # "CANCELLED"
  BY <1>1 DEF Failed, OutcomeIInv, IInv, WavesInOrder
<1>3. PICK k \in 0..Cardinality(plan[e].steps) :
            k <= Cardinality(UpTo(plan[e])[k]) /\ placed[e] = UpTo(plan[e])[k]
  BY DEF OutcomeIInv, WavesSoFar
<1>4. WavesSoFar(e)'
  BY <1>2, <1>3 DEF WavesSoFar
<1>5. SettledWhenOver(e)'
  BY <1>1, <1>2 DEF OutcomeIInv, SettledWhenOver
<1> QED BY <1>4, <1>5

(* Both executors start the next wave. *)
LEMMA StartWavesOutcome ==
    ASSUME OutcomeIInv, NEW e \in Execs, StartSequential(e) \/ StartParallel(e)
    PROVE  \A f \in Execs : WavesSoFar(f)' /\ SettledWhenOver(f)'
<1> DEFINE W == NextWave(plan[e], placed[e])
<1>1. W \subseteq StepIds
  BY PlanSteps DEF OutcomeIInv, IInv
<1>2. W # {}
  <2>1. Cardinality(W) # 0
    BY DEF StartSequential, StartParallel
  <2> QED BY <2>1, FS_EmptySet
<1>3. /\ plan' = plan /\ phase[e] = "ready" /\ phase'[e] = "running"
      /\ placed'[e] = placed[e] \cup W /\ wave'[e] = W
      /\ \A t \in StepIds \ W : stepState'[e][t] = stepState[e][t] /\ task'[e][t] = task[e][t]
      /\ \A f \in Execs \ {e} :
              /\ phase'[f] = phase[f] /\ placed'[f] = placed[f] /\ wave'[f] = wave[f]
              /\ stepState'[f] = stepState[f] /\ task'[f] = task[f]
  BY <1>1 DEF OutcomeIInv, IInv, TypeOK, StartSequential, StartParallel
<1>4. \A t \in W : task[e][t] = "none" /\ stepState[e][t] = "PENDING"
  BY <1>1, <1>3 DEF NextWave, OutcomeIInv, IInv, WavesInOrder, TaskMatchesState
<1>5. \A t \in W : stepState'[e][t] \in {"PENDING", "RUNNING"} /\ task'[e][t] # "none"
  BY <1>1, <1>4 DEF OutcomeIInv, IInv, TypeOK, StartSequential, StartParallel
<1> HIDE DEF W
<1>6. WavesSoFar(e)' /\ SettledWhenOver(e)'
  BY <1>2, <1>3, <1>5, StartWaveOutcome DEF W
<1> QED BY <1>3, <1>6, SameOutcome

(* A wave without a failure is one more of the first waves. *)
LEMMA JoinOutcome ==
    ASSUME OutcomeIInv, NEW e \in Execs, JoinWave(e)
    PROVE  \A f \in Execs : WavesSoFar(f)' /\ SettledWhenOver(f)'
<1> DEFINE p == plan[e]
           N == Cardinality(p.steps)
<1>1. /\ phase[e] = "running" /\ phase'[e] = "ready"
      /\ wave[e] \cap Failed(e) = {}
      /\ UNCHANGED <<plan, placed, stepState, task>>
      /\ \A f \in Execs \ {e} : phase'[f] = phase[f] /\ wave'[f] = wave[f]
  BY DEF OutcomeIInv, IInv, TypeOK, JoinWave, WaveReturned, stepVars
<1>2. Failed(e)' = Failed(e)
  BY <1>1 DEF Failed
<1>3. PICK k \in 0..N :
            /\ k <= Cardinality(UpTo(p)[k])
            /\ NextWave(p, UpTo(p)[k]) # {}
            /\ placed[e] = UpTo(p)[k] \cup NextWave(p, UpTo(p)[k])
            /\ Failed(e) \subseteq NextWave(p, UpTo(p)[k])
            /\ wave[e] = NextWave(p, UpTo(p)[k])
  BY <1>1 DEF OutcomeIInv, WavesSoFar
<1>4. IsFiniteSet(p.steps)
  BY PlanIsFinite DEF OutcomeIInv, IInv
<1> HIDE DEF p
<1> DEFINE before == UpTo(p)[k]
           last   == NextWave(p, before)
<1>5. before \in SUBSET p.steps
  BY <1>4, UpToUnblocked
<1>6. Failed(e) = {}
  BY <1>1, <1>3
<1> HIDE DEF before
<1>7. /\ k + 1 \in 0..N
      /\ k + 1 <= Cardinality(before \cup last)
  <2>1. PICK s \in last : TRUE
    BY <1>3 DEF before
  <2>2. s \in p.steps /\ s \notin before /\ last \subseteq p.steps
    BY <2>1 DEF NextWave
  <2> HIDE DEF last
  <2>3. IsFiniteSet(before)
    BY <1>4, <1>5, FS_Subset
  <2>4. Cardinality(before \cup {s}) = Cardinality(before) + 1
    BY <2>2, <2>3, FS_AddElement
  <2>5. /\ IsFiniteSet(before \cup last)
        /\ Cardinality(before \cup last) <= N
        /\ Cardinality(before \cup {s}) <= Cardinality(before \cup last)
    <3>1. before \cup last \subseteq p.steps
      BY <1>5, <2>2
    <3>2. before \cup {s} \subseteq before \cup last
      BY <2>1
    <3>3. IsFiniteSet(before \cup last) /\ Cardinality(before \cup last) <= N
      BY <1>4, <3>1, FS_Subset
    <3> QED BY <3>2, <3>3, FS_Subset
  <2>6. Cardinality(before) \in Nat /\ Cardinality(before \cup last) \in Nat /\ N \in Nat
    BY <1>4, <2>3, <2>5, FS_CardinalityType
  <2>7. k <= Cardinality(before) /\ k \in Nat
    BY <1>3 DEF before
  <2> HIDE DEF N
  <2> QED BY <2>4, <2>5, <2>6, <2>7
<1>8. UpTo(p)[k + 1] = before \cup last
  <2>1. k \in 0..(N - 1)
    <3>1. N \in Nat
      BY <1>4, FS_CardinalityType
    <3> HIDE DEF N
    <3> QED BY <1>3, <1>7, <3>1
  <2> QED BY <1>4, <2>1, UpToWaves DEF before
<1>9. placed[e] = UpTo(p)[k + 1] /\ k + 1 <= Cardinality(UpTo(p)[k + 1])
  BY <1>3, <1>7, <1>8 DEF before
<1>10. WavesSoFar(e)'
  BY <1>1, <1>2, <1>6, <1>7, <1>9 DEF WavesSoFar, p
<1>11. SettledWhenOver(e)'
  BY <1>1, <1>2 DEF OutcomeIInv, SettledWhenOver
<1> QED BY <1>1, <1>10, <1>11, SameOutcome

(* After a failure what is left of the schedulable steps is cancelled. *)
LEMMA AbortOutcome ==
    ASSUME OutcomeIInv, NEW e \in Execs, AbortPlan(e)
    PROVE  \A f \in Execs : WavesSoFar(f)' /\ SettledWhenOver(f)'
<1> DEFINE R == Schedulable(plan[e]) \ placed[e]
<1>1. /\ phase[e] = "running" /\ phase'[e] = "recovering"
      /\ wave[e] \cap Failed(e) # {}
      /\ UNCHANGED <<plan, placed, task>>
      /\ \A t \in StepIds : stepState'[e][t] = IF t \in R THEN "CANCELLED" ELSE stepState[e][t]
      /\ \A f \in Execs \ {e} :
            phase'[f] = phase[f] /\ wave'[f] = wave[f] /\ stepState'[f] = stepState[f]
  BY DEF OutcomeIInv, IInv, TypeOK, AbortPlan, Remaining, WaveReturned
<1>2. Failed(e) \subseteq placed[e]
  BY WavesFacts
<1>3. Failed(e)' = Failed(e)
  BY <1>1, <1>2 DEF Failed
<1>4. WavesSoFar(e)'
  BY <1>1, <1>3 DEF OutcomeIInv, WavesSoFar
<1>5. \A s \in placed[e] : s \in StepIds /\ stepState[e][s] # "PENDING"
  <2>1. \A s \in StepIds : task[e][s] \in {"none", "returned"}
    BY DEF OutcomeIInv, IInv, WavesInOrder, AbortPlan, WaveReturned
  <2> QED BY <2>1 DEF OutcomeIInv, IInv, TypeOK, SettledWhenOver, TaskMatchesState
<1>6. Schedulable(plan[e]) \subseteq StepIds
  BY PlanSteps DEF OutcomeIInv, IInv
<1>7. \A s \in Schedulable(plan[e]) : stepState'[e][s] # "PENDING"
  BY <1>1, <1>5, <1>6
<1>8. \A s \in StepIds : stepState'[e][s] = "CANCELLED" => s \in Schedulable(plan[e])
  BY <1>1 DEF OutcomeIInv, SettledWhenOver
<1>9. SettledWhenOver(e)'
  BY <1>1, <1>3, <1>7, <1>8 DEF OutcomeIInv, SettledWhenOver
<1> QED BY <1>1, <1>4, <1>9, SameOutcome

(* What a step's coroutine does to its own step and to the others. *)
LEMMA StepEffect ==
    ASSUME IInv, NEW e \in Execs, NEW s \in StepIds, StepTask(e, s)
    PROVE  /\ UNCHANGED execVars
           /\ task[e][s] \notin {"none", "returned"}
           /\ task'[e][s] # "none"
           /\ \A f \in Execs, t \in StepIds : <<f, t>> # <<e, s>> =>
                 /\ stepState'[f][t] = stepState[f][t]
                 /\ \/ task'[f][t] = task[f][t]
                    \/ task[f][t] = "queued" /\ task'[f][t] = "granted"
<1>1. CASE AcquirePermit(e, s)
  BY <1>1 DEF IInv, TypeOK, AcquirePermit, Execute, SetState, SetTask
<1>5. CASE ResumeWithPermit(e, s)
  <2>1. /\ UNCHANGED execVars
        /\ \A f \in Execs, t \in StepIds : <<f, t>> # <<e, s>> =>
              stepState'[f][t] = stepState[f][t]
    BY <1>5 DEF IInv, TypeOK, ResumeWithPermit, SetState
  <2> QED BY <1>5, <2>1, ResumeEffect, ResumeWakesQueued
<1>2. CASE AwaitPermit(e, s)
  BY <1>2 DEF IInv, TypeOK, AwaitPermit, SetTask
<1>3. CASE RetryAfterFailure(e, s) \/ BackoffOver(e, s)
  BY <1>3 DEF IInv, TypeOK, RetryAfterFailure, BackoffOver, SetState, SetTask
<1>4. CASE HandlerSucceeds(e, s) \/ FailForGood(e, s)
  <2>1. /\ task[e][s] = "executing" /\ Return(e, s) /\ UNCHANGED execVars
        /\ \A f \in Execs, t \in StepIds : <<f, t>> # <<e, s>> =>
              stepState'[f][t] = stepState[f][t]
    BY <1>4 DEF IInv, TypeOK, HandlerSucceeds, FailForGood, SetState
  <2> QED BY <2>1, ReturnEffect
<1> QED BY <1>1, <1>2, <1>3, <1>4, <1>5 DEF StepTask, Handler

(* A step moves within the wave that runs. *)
LEMMA StepOutcome ==
    ASSUME OutcomeIInv, IInv', NEW e \in Execs, NEW s \in StepIds, StepTask(e, s),
           NEW f \in Execs
    PROVE  WavesSoFar(f)' /\ SettledWhenOver(f)'
<1>1. /\ plan' = plan /\ phase' = phase /\ placed' = placed /\ wave' = wave
      /\ task[e][s] \notin {"none", "returned"}
      /\ task'[e][s] # "none"
      /\ \A g \in Execs, t \in StepIds : <<g, t>> # <<e, s>> =>
            /\ stepState'[g][t] = stepState[g][t]
            /\ \/ task'[g][t] = task[g][t]
               \/ task[g][t] = "queued" /\ task'[g][t] = "granted"
  BY StepEffect DEF OutcomeIInv, execVars
<1>2. phase[e] = "running" /\ s \in wave[e]
  BY <1>1 DEF OutcomeIInv, IInv, WavesInOrder
<1>3. placed[f] \subseteq StepIds
  BY DEF OutcomeIInv, IInv, TypeOK
<1>4. \A t \in placed[f] : task'[f][t] # "none"
  BY <1>1, <1>3 DEF OutcomeIInv, SettledWhenOver
<1>5. CASE f # e
  <2>1. \A t \in StepIds : stepState'[f][t] = stepState[f][t]
    BY <1>1, <1>5
  <2>2. Failed(f)' = Failed(f)
    BY <2>1 DEF Failed
  <2>3. WavesSoFar(f)'
    BY <1>1, <2>2 DEF OutcomeIInv, WavesSoFar
  <2>4. Schedulable(plan[f]) \subseteq StepIds
    BY PlanSteps DEF OutcomeIInv, IInv
  <2>5. SettledWhenOver(f)'
    BY <1>1, <1>4, <2>1, <2>2, <2>4 DEF OutcomeIInv, SettledWhenOver
  <2> QED BY <2>3, <2>5
<1>6. CASE f = e
  <2>1. Failed(f)' \subseteq Failed(f) \cup {s}
    BY <1>1, <1>6 DEF Failed
  <2>2. WavesSoFar(f)'
    <3>1. PICK k \in 0..Cardinality(plan[f].steps) :
            /\ k <= Cardinality(UpTo(plan[f])[k])
            /\ NextWave(plan[f], UpTo(plan[f])[k]) # {}
            /\ placed[f] = UpTo(plan[f])[k] \cup NextWave(plan[f], UpTo(plan[f])[k])
            /\ Failed(f) \subseteq NextWave(plan[f], UpTo(plan[f])[k])
            /\ wave[f] = NextWave(plan[f], UpTo(plan[f])[k])
      BY <1>2, <1>6 DEF OutcomeIInv, WavesSoFar
    <3>2. Failed(f)' \subseteq NextWave(plan[f], UpTo(plan[f])[k])
      BY <1>2, <1>6, <2>1, <3>1
    <3>3. phase'[f] = "running"
      BY <1>1, <1>2, <1>6
    <3>4. plan'[f] = plan[f] /\ placed'[f] = placed[f] /\ wave'[f] = wave[f]
      BY <1>1
    <3> QED BY <3>1, <3>2, <3>3, <3>4 DEF WavesSoFar
  <2>3. \A t \in StepIds : stepState'[f][t] # "CANCELLED"
    BY <1>1, <1>2, <1>6 DEF IInv, WavesInOrder
  <2>4. SettledWhenOver(f)'
    BY <1>1, <1>2, <1>4, <1>6, <2>3 DEF SettledWhenOver
  <2> QED BY <2>2, <2>4
<1> QED BY <1>5, <1>6

(* Every step keeps the invariant. *)
LEMMA NextOutcome == OutcomeIInv /\ IInv' /\ [Next]_vars => OutcomeIInv'
<1> SUFFICES ASSUME OutcomeIInv, IInv', [Next]_vars
             PROVE  \A f \in Execs : WavesSoFar(f)' /\ SettledWhenOver(f)'
  BY DEF OutcomeIInv
<1>1. ASSUME NEW e \in Execs, Start(e) \/ Coroutine(e)
      PROVE  \A f \in Execs : WavesSoFar(f)' /\ SettledWhenOver(f)'
  BY <1>1, StartOutcome, StartWavesOutcome, JoinOutcome, AbortOutcome, CompleteOutcome
     DEF Coroutine
<1>2. ASSUME NEW e \in Execs, NEW s \in StepIds, StepTask(e, s)
      PROVE  \A f \in Execs : WavesSoFar(f)' /\ SettledWhenOver(f)'
  BY <1>2, StepOutcome
<1>3. CASE UNCHANGED vars
  BY <1>3, SameOutcome DEF vars, execVars, stepVars
<1> QED BY <1>1, <1>2, <1>3 DEF Next, Served

LEMMA OutcomeInvariant == Spec => []OutcomeIInv
<1>1. OutcomeIInv => IInv
  BY DEF OutcomeIInv
<1> QED BY <1>1, InductiveInvariant, InitOutcome, NextOutcome, PTL DEF Spec

(* An execution that is over, of the two kinds. *)
LEMMA CompletedOutcome ==
    ASSUME OutcomeIInv, NEW e \in Execs, phase[e] = "completed"
    PROVE  /\ placed[e] = Schedulable(plan[e]) /\ Completed(e) = Schedulable(plan[e])
           /\ Failed(e) = {}
<1>1. placed[e] = Schedulable(plan[e])
  <2>1. NextWave(plan[e], placed[e]) = {}
    BY DEF OutcomeIInv, SettledWhenOver
  <2> QED BY <2>1, WavesFacts, AllPlaced
<1>2. Failed(e) = {}
  BY DEF OutcomeIInv, WavesSoFar
<1>3. wave[e] = {} /\ placed[e] \subseteq StepIds
  BY DEF OutcomeIInv, IInv, TypeOK, WavesInOrder
<1>4. Completed(e) \subseteq placed[e]
  BY DEF OutcomeIInv, IInv, WavesInOrder, TaskMatchesState, Completed
<1>5. placed[e] \subseteq Completed(e)
  BY <1>3 DEF OutcomeIInv, IInv, WavesInOrder, Completed
<1> QED BY <1>1, <1>2, <1>4, <1>5

(* Every step of the waves started before a failure COMPLETED or FAILED. *)
LEMMA AbortedOutcome ==
    ASSUME OutcomeIInv, NEW e \in Execs, phase[e] = "recovering"
    PROVE  Completed(e) = placed[e] \ Failed(e) /\ Failed(e) \subseteq placed[e]
<1>1. wave[e] = {} /\ placed[e] \subseteq StepIds
  BY DEF OutcomeIInv, IInv, TypeOK, WavesInOrder
<1>2. \A s \in StepIds : task[e][s] \in {"none", "returned"}
  BY <1>1 DEF OutcomeIInv, IInv, TypeOK, WavesInOrder
<1>3. \A s \in placed[e] : stepState[e][s] \in {"COMPLETED", "FAILED"}
  BY <1>1, <1>2 DEF OutcomeIInv, IInv, SettledWhenOver, TaskMatchesState
<1>4. \A s \in StepIds : stepState[e][s] \in {"COMPLETED", "FAILED"} => s \in placed[e]
  BY DEF OutcomeIInv, IInv, WavesInOrder, TaskMatchesState
<1> QED BY <1>1, <1>3, <1>4 DEF Completed, Failed

(* Whatever the waves and their failures, the outcome is one of the plan's *)
(* Results.                                                                *)
LEMMA OutcomeIsResult ==
    ASSUME OutcomeIInv, NEW e \in Execs, Over(e)
    PROVE  [ok |-> Completed(e), failed |-> Failed(e)] \in Results(plan[e])
<1> DEFINE p == plan[e]
           N == Cardinality(p.steps)
           x == [ok |-> Completed(e), failed |-> Failed(e)]
<1>1. CASE phase[e] = "completed"
  <2>1. Schedulable(plan[e]) \subseteq plan[e].steps
    BY DEF Schedulable
  <2> QED BY <1>1, <2>1, CompletedOutcome DEF Results
<1>2. CASE phase[e] = "recovering"
  <2>1. PICK k \in 0..N :
            /\ k <= Cardinality(UpTo(p)[k])
            /\ NextWave(p, UpTo(p)[k]) # {}
            /\ placed[e] = UpTo(p)[k] \cup NextWave(p, UpTo(p)[k])
            /\ Failed(e) \subseteq NextWave(p, UpTo(p)[k])
    BY <1>2 DEF OutcomeIInv, WavesSoFar
  <2>2. /\ Completed(e) = (UpTo(p)[k] \cup NextWave(p, UpTo(p)[k])) \ Failed(e)
        /\ Failed(e) # {}
    BY <1>2, <2>1, AbortedOutcome DEF OutcomeIInv, SettledWhenOver
  <2>3. placed[e] \subseteq p.steps
    BY WavesFacts
  <2>4. IsFiniteSet(p.steps)
    BY PlanIsFinite DEF OutcomeIInv, IInv
  <2>5. k \in 0..(N - 1)
    <3> HIDE DEF p
    <3> DEFINE before == UpTo(p)[k]
    <3>1. before \in SUBSET p.steps
      BY <2>4, UpToUnblocked
    <3>2. before # p.steps
      BY <2>1 DEF NextWave
    <3> HIDE DEF before
    <3>3. /\ Cardinality(before) <= N
          /\ Cardinality(before) = N => before = p.steps
      BY <2>4, <3>1, FS_Subset
    <3>4. IsFiniteSet(before) /\ Cardinality(before) \in Nat /\ N \in Nat
      BY <2>4, <3>1, FS_Subset, FS_CardinalityType
    <3>5. k <= Cardinality(before) /\ k \in Nat
      BY <2>1 DEF before
    <3> HIDE DEF N
    <3> QED BY <3>2, <3>3, <3>4, <3>5
  <2>6. Completed(e) \in SUBSET p.steps /\ Failed(e) \in SUBSET p.steps
    BY <1>2, <2>3, AbortedOutcome
  <2>7. x \in [ok : SUBSET p.steps, failed : SUBSET p.steps]
        /\ x.ok = Completed(e) /\ x.failed = Failed(e)
    BY <2>6
  <2> HIDE DEF x
  <2> QED BY <2>1, <2>2, <2>5, <2>7 DEF Results, x
<1> QED BY <1>1, <1>2 DEF Over

(* What execute_plan leaves behind when it returns, for every plan and     *)
(* every interleaving: nothing half done, only the steps behind a cycle    *)
(* still PENDING, and one of the Results BrainRecovery goes on from.       *)
THEOREM SchedulerOutcome == Spec => []Outcome
<1>1. OutcomeIInv => Outcome
  <2> SUFFICES ASSUME OutcomeIInv, NEW e \in Execs, Over(e)
               PROVE  /\ \A s \in Schedulable(plan[e]) :
                            IF phase[e] = "completed" THEN stepState[e][s] = "COMPLETED"
                            ELSE Settled(e, s)
                      /\ \A s \in Blocked(plan[e]) : stepState[e][s] = "PENDING"
                      /\ phase[e] = "recovering" <=> Failed(e) # {}
                      /\ \A s \in StepIds :
                            /\ task[e][s] \in {"none", "returned"}
                            /\ stepState[e][s] = "CANCELLED" => task[e][s] = "none"
                      /\ [ok |-> Completed(e), failed |-> Failed(e)] \in Results(plan[e])
    BY DEF Outcome
  <2>1. plan[e].steps \subseteq StepIds
    BY PlanIsFinite DEF OutcomeIInv, IInv
  <2>2. \A s \in StepIds : task[e][s] \in {"none", "returned"}
    BY DEF OutcomeIInv, IInv, WavesInOrder, Over
  <2>3. \A s \in StepIds : stepState[e][s] = "CANCELLED" => task[e][s] = "none"
    BY <2>2 DEF OutcomeIInv, IInv, TaskMatchesState
  <2>4. ASSUME NEW s \in Schedulable(plan[e])
        PROVE  IF phase[e] = "completed" THEN stepState[e][s] = "COMPLETED" ELSE Settled(e, s)
    <3>1. CASE phase[e] = "completed"
      BY <3>1, CompletedOutcome DEF Completed
    <3>2. CASE phase[e] = "recovering"
      <4>1. s \in StepIds /\ stepState[e][s] # "PENDING"
        BY <2>1, <3>2 DEF OutcomeIInv, SettledWhenOver, Schedulable
      <4>2. stepState[e][s] \in {"COMPLETED", "FAILED", "CANCELLED"}
        BY <2>2, <4>1 DEF OutcomeIInv, IInv, TaskMatchesState
      <4> QED BY <3>2, <4>2 DEF Settled
    <3> QED BY <3>1, <3>2 DEF Over
  <2>5. ASSUME NEW s \in Blocked(plan[e]) PROVE stepState[e][s] = "PENDING"
    <3>1. s \in plan[e].steps
      BY DEF Blocked
    <3>2. s \notin placed[e] /\ s \notin Schedulable(plan[e])
      BY WavesFacts DEF Schedulable
    <3>3. task[e][s] = "none"
      BY <2>1, <3>1, <3>2 DEF OutcomeIInv, IInv, WavesInOrder
    <3> QED BY <2>1, <3>1, <3>2, <3>3 DEF OutcomeIInv, IInv, TaskMatchesState, SettledWhenOver
  <2>6. phase[e] = "recovering" <=> Failed(e) # {}
    BY CompletedOutcome DEF OutcomeIInv, SettledWhenOver, Over
  <2> QED BY <2>2, <2>3, <2>4, <2>5, <2>6, OutcomeIsResult
<1> QED BY <1>1, OutcomeInvariant, PTL

-----------------------------------------------------------------------------
(* PlanExecution implements PlanPromise: what may happen. *)

(* The five statuses. *)
LEMMA StatusMeaning ==
    ASSUME NEW where \in TaskStates, NEW state \in StepStates
    PROVE  /\ where \notin {"none", "returned"} => StatusOf(where, state) = "active"
           /\ where \in {"none", "returned"} =>
                 /\ state = "COMPLETED" => StatusOf(where, state) = "ok"
                 /\ state = "FAILED"    => StatusOf(where, state) = "failed"
                 /\ state = "CANCELLED" => StatusOf(where, state) = "dropped"
                 /\ state \notin {"COMPLETED", "FAILED", "CANCELLED"} =>
                       StatusOf(where, state) = "waiting"
BY DEF StatusOf

(* The status of a step, task by task. *)
LEMMA StatusValue ==
    ASSUME IInv, NEW e \in Execs, NEW s \in StepIds
    PROVE  /\ status[e][s] = StatusOf(task[e][s], stepState[e][s])
           /\ status[e][s] = "active"  <=> task[e][s] \notin {"none", "returned"}
           /\ status[e][s] = "ok"      <=> task[e][s] = "returned" /\ stepState[e][s] = "COMPLETED"
           /\ status[e][s] = "failed"  <=> task[e][s] = "returned" /\ stepState[e][s] = "FAILED"
           /\ status[e][s] = "waiting" <=> task[e][s] = "none" /\ stepState[e][s] = "PENDING"
<1>1. task[e][s] \in TaskStates /\ stepState[e][s] \in StepStates
  BY DEF IInv, TypeOK
<1>2. status[e][s] = StatusOf(task[e][s], stepState[e][s])
  BY DEF status
<1>3. /\ task[e][s] = "none" => stepState[e][s] \in {"PENDING", "CANCELLED"}
      /\ task[e][s] = "returned" => stepState[e][s] \in {"COMPLETED", "FAILED"}
  BY DEF IInv, TaskMatchesState
<1> QED BY <1>1, <1>2, <1>3, StatusMeaning

(* What changes the status of some steps of one execution. *)
LEMMA StatusChange ==
    ASSUME NEW e \in Execs, NEW S, NEW st,
           UNCHANGED plan, \A f \in Execs : phase[f] = "idle" <=> phase'[f] = "idle",
           \A f \in Execs, t \in StepIds :
              StatusOf(task'[f][t], stepState'[f][t]) =
                 IF f = e /\ t \in S THEN st ELSE StatusOf(task[f][t], stepState[f][t])
    PROVE  Promise!SetAll(e, S, st)
<1>1. opened' = opened
  BY DEF opened
<1>2. status' = [status EXCEPT ![e] = [s \in StepIds |-> IF s \in S THEN st ELSE @[s]]]
  BY DEF status
<1> QED BY <1>1, <1>2 DEF Promise!SetAll

(* What changes no status. *)
LEMMA StatusSame ==
    ASSUME UNCHANGED plan, \A f \in Execs : phase[f] = "idle" <=> phase'[f] = "idle",
           \A f \in Execs, t \in StepIds :
              StatusOf(task'[f][t], stepState'[f][t]) = StatusOf(task[f][t], stepState[f][t])
    PROVE  UNCHANGED Promise!vars
<1>1. opened' = opened
  BY DEF opened
<1>2. status' = status
  BY DEF status
<1> QED BY <1>1, <1>2 DEF Promise!vars

(* The graph operators of the promise are those of the plans. *)
LEMMA SameGraph ==
    ASSUME NEW p
    PROVE  /\ Promise!Blocked(p) = Blocked(p)
           /\ \A s : Promise!InPlanDeps(p, s) = InPlanDeps(p, s)
BY DEF Promise!Blocked, Blocked, Promise!Deadlocked, Deadlocked, Promise!InPlanDeps, InPlanDeps

(* Initially every step waits. *)
LEMMA InitKeeps == Init => Promise!Init
<1> SUFFICES ASSUME Init PROVE Promise!Init
  OBVIOUS
<1>1. opened = {}
  BY DEF Init, opened
<1>2. StatusOf("none", "PENDING") = "waiting"
  BY StatusMeaning DEF TaskStates, StepStates
<1>3. status = [e \in Execs |-> [s \in StepIds |-> "waiting"]]
  BY <1>2 DEF Init, status
<1> QED BY <1>1, <1>3 DEF Promise!Init, Init

(* The arrival of a request. *)
LEMMA StartKeeps ==
    ASSUME IInv, NEW e \in Execs, Start(e)
    PROVE  Promise!Open(e)
<1>1. /\ phase[e] = "idle" /\ phase' = [phase EXCEPT ![e] = "ready"]
      /\ UNCHANGED <<plan, stepState, task>>
      /\ phase \in [Execs -> Phases]
  BY DEF IInv, TypeOK, Start, stepVars
<1>2. e \notin opened /\ opened' = opened \cup {e}
  BY <1>1 DEF opened
<1>3. status' = status
  BY <1>1 DEF status
<1> QED BY <1>1, <1>2, <1>3 DEF Promise!Open

(* Between two waves, what is placed is ok and the rest waits. *)
LEMMA ReadyStatus ==
    ASSUME OutcomeIInv, NEW e \in Execs, phase[e] = "ready"
    PROVE  /\ Promise!With(e, {"active", "failed"}) = {}
           /\ {s \in Promise!With(e, {"waiting"}) :
                  InPlanDeps(plan[e], s) \subseteq Promise!With(e, {"ok"})}
                = NextWave(plan[e], placed[e])
<1>1. placed[e] \subseteq plan[e].steps /\ plan[e].steps \subseteq StepIds
  BY WavesFacts, PlanIsFinite DEF OutcomeIInv, IInv
<1>2. \A s \in placed[e] : task[e][s] = "returned" /\ stepState[e][s] = "COMPLETED"
  BY <1>1 DEF OutcomeIInv, IInv, WavesInOrder, SettledWhenOver
<1>3. \A s \in plan[e].steps \ placed[e] : task[e][s] = "none" /\ stepState[e][s] = "PENDING"
  BY <1>1 DEF OutcomeIInv, IInv, WavesInOrder, TaskMatchesState
<1>4. \A s \in plan[e].steps : status[e][s] = IF s \in placed[e] THEN "ok" ELSE "waiting"
  BY <1>1, <1>2, <1>3, StatusValue DEF OutcomeIInv
<1>5. /\ Promise!With(e, {"waiting"}) = plan[e].steps \ placed[e]
      /\ Promise!With(e, {"ok"}) = placed[e]
      /\ Promise!With(e, {"active", "failed"}) = {}
  BY <1>1, <1>4 DEF Promise!With
<1> QED BY <1>5 DEF NextWave

(* Starting a wave admits the batch of all steps whose dependencies are ok. *)
LEMMA StartWaveKeeps ==
    ASSUME OutcomeIInv, NEW e \in Execs, StartSequential(e) \/ StartParallel(e)
    PROVE  Promise!Admit(e)
<1> DEFINE W == NextWave(plan[e], placed[e])
<1>1. W \subseteq StepIds
  BY PlanSteps DEF OutcomeIInv, IInv
<1>2. W # {}
  <2>1. Cardinality(W) # 0
    BY DEF StartSequential, StartParallel
  <2> QED BY <2>1, FS_EmptySet
<1>3. /\ plan' = plan /\ phase[e] = "ready"
      /\ \A f \in Execs : phase'[f] = IF f = e THEN "running" ELSE phase[f]
      /\ \A t \in W : task'[e][t] \in {"executing", "spawned"}
                      /\ stepState'[e][t] \in {"RUNNING", stepState[e][t]}
      /\ \A f \in Execs, t \in StepIds : ~(f = e /\ t \in W) =>
              stepState'[f][t] = stepState[f][t] /\ task'[f][t] = task[f][t]
  BY <1>1 DEF OutcomeIInv, IInv, TypeOK, StartSequential, StartParallel
<1> HIDE DEF W
<1>4. \A t \in W : StatusOf(task'[e][t], stepState'[e][t]) = "active"
  <2> SUFFICES ASSUME NEW t \in W PROVE StatusOf(task'[e][t], stepState'[e][t]) = "active"
    OBVIOUS
  <2>1. stepState'[e][t] \in StepStates
    BY <1>1, <1>3 DEF OutcomeIInv, IInv, TypeOK, StepStates
  <2>2. task'[e][t] \in TaskStates /\ task'[e][t] \notin {"none", "returned"}
    BY <1>3 DEF TaskStates
  <2> QED BY <2>1, <2>2, StatusMeaning
<1>5. \A f \in Execs, t \in StepIds :
         StatusOf(task'[f][t], stepState'[f][t]) =
            IF f = e /\ t \in W THEN "active" ELSE StatusOf(task[f][t], stepState[f][t])
  BY <1>3, <1>4
<1>6. Promise!SetAll(e, W, "active")
  BY <1>3, <1>5, StatusChange
<1>7. e \in opened
  BY <1>3 DEF opened
<1>8. {s \in Promise!With(e, {"waiting"}) :
          Promise!InPlanDeps(plan[e], s) \subseteq Promise!With(e, {"ok"})} = W
  <2>1. \A s : Promise!InPlanDeps(plan[e], s) = InPlanDeps(plan[e], s)
    BY SameGraph
  <2>2. {s \in Promise!With(e, {"waiting"}) :
            InPlanDeps(plan[e], s) \subseteq Promise!With(e, {"ok"})} = W
    BY <1>3, ReadyStatus DEF W
  <2> QED BY <2>1, <2>2
<1>9. Promise!With(e, {"active", "failed"}) = {}
  BY <1>3, ReadyStatus
<1> QED BY <1>2, <1>6, <1>7, <1>8, <1>9 DEF Promise!Admit

(* Everything of a wave has returned and a step of it has failed. *)
LEMMA AbortStatus ==
    ASSUME OutcomeIInv, NEW e \in Execs, AbortPlan(e)
    PROVE  /\ Promise!With(e, {"active"}) = {}
           /\ Promise!With(e, {"failed"}) # {}
           /\ Promise!With(e, {"waiting"}) \ Blocked(plan[e]) = Remaining(e)
<1>1. placed[e] \subseteq plan[e].steps /\ plan[e].steps \subseteq StepIds
  BY WavesFacts, PlanIsFinite DEF OutcomeIInv, IInv
<1>2. phase[e] = "running" /\ \A s \in wave[e] : task[e][s] = "returned"
  BY DEF AbortPlan, WaveReturned
<1>3. \A s \in StepIds : task[e][s] \in {"none", "returned"}
  BY <1>2 DEF OutcomeIInv, IInv, WavesInOrder
<1>4. \A s \in StepIds : task[e][s] = "none" <=> s \notin placed[e]
  BY <1>1 DEF OutcomeIInv, IInv, WavesInOrder, SettledWhenOver
<1>5. \A s \in StepIds : task[e][s] = "none" => stepState[e][s] = "PENDING"
  BY <1>2 DEF OutcomeIInv, IInv, WavesInOrder, TaskMatchesState
<1>6. \A s \in plan[e].steps : status[e][s] # "active"
                               /\ (status[e][s] = "waiting" <=> s \notin placed[e])
  BY <1>1, <1>3, <1>4, <1>5, StatusValue DEF OutcomeIInv
<1>7. PICK s \in wave[e] : s \in Failed(e)
  BY DEF AbortPlan
<1>8. s \in plan[e].steps /\ status[e][s] = "failed"
  <2>1. s \in placed[e] /\ s \in StepIds /\ stepState[e][s] = "FAILED"
    BY <1>7 DEF OutcomeIInv, IInv, WavesInOrder, Failed
  <2> QED BY <1>1, <1>2, <1>7, <2>1, StatusValue DEF OutcomeIInv
<1> QED BY <1>6, <1>8 DEF Promise!With, Remaining, Schedulable

(* Aborting drops what waits, unless nothing does. *)
LEMMA AbortKeeps ==
    ASSUME OutcomeIInv, NEW e \in Execs, AbortPlan(e)
    PROVE  Promise!Drop(e) \/ UNCHANGED Promise!vars
<1>1. /\ plan' = plan /\ task' = task /\ phase[e] = "running"
      /\ \A f \in Execs : phase'[f] = IF f = e THEN "recovering" ELSE phase[f]
      /\ \A f \in Execs, t \in StepIds :
            stepState'[f][t] = IF f = e /\ t \in Remaining(e) THEN "CANCELLED"
                               ELSE stepState[f][t]
  BY DEF OutcomeIInv, IInv, TypeOK, AbortPlan, WaveReturned
<1>2. Remaining(e) \subseteq StepIds /\ Remaining(e) \cap placed[e] = {}
  BY PlanIsFinite DEF OutcomeIInv, IInv, Remaining, Schedulable
<1>3. \A t \in Remaining(e) : StatusOf(task'[e][t], stepState'[e][t]) = "dropped"
  <2> SUFFICES ASSUME NEW t \in Remaining(e)
               PROVE  StatusOf(task'[e][t], stepState'[e][t]) = "dropped"
    OBVIOUS
  <2>1. task[e][t] = "none"
    BY <1>2 DEF OutcomeIInv, IInv, WavesInOrder
  <2>2. task'[e][t] \in TaskStates /\ task'[e][t] = "none"
        /\ stepState'[e][t] \in StepStates /\ stepState'[e][t] = "CANCELLED"
    BY <1>1, <1>2, <2>1 DEF TaskStates, StepStates
  <2> QED BY <2>2, StatusMeaning
<1>4. \A f \in Execs, t \in StepIds :
         StatusOf(task'[f][t], stepState'[f][t]) =
            IF f = e /\ t \in Remaining(e) THEN "dropped" ELSE StatusOf(task[f][t], stepState[f][t])
  BY <1>1, <1>3
<1>5. Promise!SetAll(e, Remaining(e), "dropped")
  BY <1>1, <1>4, StatusChange
<1>6. CASE Remaining(e) # {}
  BY <1>5, <1>6, AbortStatus, SameGraph DEF Promise!Drop
<1>7. CASE Remaining(e) = {}
  BY <1>1, <1>4, <1>7, StatusSame
<1> QED BY <1>6, <1>7

(* A task settles its step when it returns; all it does before is invisible. *)
LEMMA StepKeeps ==
    ASSUME OutcomeIInv, IInv', NEW e \in Execs, NEW s \in StepIds, StepTask(e, s)
    PROVE  Promise!Settle(e, s) \/ UNCHANGED Promise!vars
<1>1. /\ plan' = plan /\ phase' = phase
      /\ task[e][s] \notin {"none", "returned"} /\ task'[e][s] # "none"
      /\ \A f \in Execs, t \in StepIds : <<f, t>> # <<e, s>> =>
            /\ stepState'[f][t] = stepState[f][t]
            /\ \/ task'[f][t] = task[f][t]
               \/ task[f][t] = "queued" /\ task'[f][t] = "granted"
  BY StepEffect DEF OutcomeIInv, execVars
<1>2. \A f \in Execs, t \in StepIds : /\ task[f][t] \in TaskStates /\ task'[f][t] \in TaskStates
                                      /\ stepState[f][t] \in StepStates
                                      /\ stepState'[f][t] \in StepStates
  BY DEF OutcomeIInv, IInv, TypeOK
<1>3. ASSUME NEW f \in Execs, NEW t \in StepIds, <<f, t>> # <<e, s>>
      PROVE  StatusOf(task'[f][t], stepState'[f][t]) = StatusOf(task[f][t], stepState[f][t])
  <2>1. stepState'[f][t] = stepState[f][t]
    BY <1>1, <1>3
  <2>2. CASE task'[f][t] = task[f][t]
    BY <2>1, <2>2
  <2>3. CASE task[f][t] = "queued" /\ task'[f][t] = "granted"
    BY <1>2, <2>3, StatusMeaning
  <2> QED BY <1>1, <1>3, <2>2, <2>3
<1>4. StatusOf(task[e][s], stepState[e][s]) = "active"
  BY <1>1, <1>2, StatusMeaning
<1>5. CASE task'[e][s] # "returned"
  <2>1. StatusOf(task'[e][s], stepState'[e][s]) = "active"
    BY <1>1, <1>2, <1>5, StatusMeaning
  <2>2. \A f \in Execs, t \in StepIds :
           StatusOf(task'[f][t], stepState'[f][t]) = StatusOf(task[f][t], stepState[f][t])
    BY <1>3, <1>4, <2>1
  <2> QED BY <1>1, <2>2, StatusSame
<1>6. CASE task'[e][s] = "returned"
  <2>1. PICK st \in {"ok", "failed"} : StatusOf(task'[e][s], stepState'[e][s]) = st
    <3>1. stepState'[e][s] \in {"COMPLETED", "FAILED"}
      BY <1>6 DEF IInv, TaskMatchesState
    <3> QED BY <1>2, <1>6, <3>1, StatusMeaning
  <2>2. \A f \in Execs, t \in StepIds :
           StatusOf(task'[f][t], stepState'[f][t]) =
              IF f = e /\ t \in {s} THEN st ELSE StatusOf(task[f][t], stepState[f][t])
    BY <1>3, <2>1
  <2>3. Promise!SetAll(e, {s}, st)
    BY <1>1, <2>2, StatusChange
  <2>4. s \in Promise!With(e, {"active"})
    <3>1. s \in plan[e].steps
      BY <1>1, WavesFacts DEF OutcomeIInv, IInv, WavesInOrder
    <3> QED BY <1>4, <3>1 DEF Promise!With, status
  <2> QED BY <2>3, <2>4 DEF Promise!Settle
<1> QED BY <1>5, <1>6

(* Every step is one of the promise or changes nothing of it. *)
LEMMA NextKeeps ==
    ASSUME OutcomeIInv, IInv', [Next]_vars
    PROVE  [Promise!Next]_(Promise!vars)
<1>1. ASSUME NEW e \in Execs, Start(e) \/ Coroutine(e) PROVE [Promise!Next]_(Promise!vars)
  <2>1. CASE Start(e)
    BY <2>1, StartKeeps DEF OutcomeIInv, Promise!Next
  <2>2. CASE StartSequential(e) \/ StartParallel(e)
    BY <2>2, StartWaveKeeps DEF Promise!Next
  <2>3. CASE AbortPlan(e)
    BY <2>3, AbortKeeps DEF Promise!Next
  <2>4. CASE JoinWave(e) \/ Complete(e)
    <3>1. /\ UNCHANGED <<plan, stepState, task>> /\ phase[e] # "idle"
          /\ \A f \in Execs : phase'[f] = phase[f] \/ (f = e /\ phase'[f] # "idle")
      BY <2>4 DEF OutcomeIInv, IInv, TypeOK, JoinWave, WaveReturned, Complete, stepVars
    <3> QED BY <3>1, StatusSame
  <2> QED BY <1>1, <2>1, <2>2, <2>3, <2>4 DEF Coroutine
<1>2. ASSUME NEW e \in Execs, NEW s \in StepIds, StepTask(e, s)
      PROVE  [Promise!Next]_(Promise!vars)
  BY <1>2, StepKeeps DEF Promise!Next
<1>3. CASE UNCHANGED vars
  BY <1>3, StatusSame DEF vars, execVars, stepVars
<1> QED BY <1>1, <1>2, <1>3 DEF Next, Served

(* Whatever the other requests do to the semaphore and to the attempt      *)
(* counts, an execution does only what the promise allows: batches in      *)
(* dependency order, one at a time, none after a failure, and only steps   *)
(* that wait are dropped.                                                  *)
THEOREM PromiseKept == Spec => Promise!Safe
<1>1. OutcomeIInv => IInv
  BY DEF OutcomeIInv
<1> QED BY <1>1, OutcomeInvariant, InitKeeps, NextKeeps, PTL DEF Spec, Promise!Safe
===============================================================================
