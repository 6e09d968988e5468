------------------------------ MODULE PlanGraph ------------------------------
(***************************************************************************)
(* The dependency graph of an execution plan                               *)
(* (services/thalamus-router/.../domain/execution_plan.py), as the Brain   *)
(* OS scheduler reads it.  A plan is a record                              *)
(*   steps     the ids of its steps,                                       *)
(*   deps      depends_on of every step; it may name ids that are not in   *)
(*             the plan, and may be cyclic: nothing validates a plan,      *)
(*   retryable the steps that may be retried.                              *)
(* Targets, parameters, priorities and timeouts are not kept: they change  *)
(* neither which wave a step is in nor what the scheduler does with it.    *)
(***************************************************************************)
EXTENDS Integers, FiniteSets

(* Every plan over a set of step ids. *)
PlansOver(StepIds) ==
    {p \in [steps : SUBSET StepIds, deps : [StepIds -> SUBSET StepIds],
            retryable : SUBSET StepIds] : p.retryable \subseteq p.steps}

(* The dependencies that count: the ones on a step of the same plan. *)
InPlanDeps(p, s) == p.deps[s] \cap p.steps

(* The steps that wait for s. *)
Dependents(p, s) == {t \in p.steps : s \in p.deps[t]}

(* The wave that follows when the steps of `placed` are in earlier waves. *)
NextWave(p, placed) ==
    {s \in p.steps \ placed : InPlanDeps(p, s) \subseteq placed}

(* A set of steps each of which waits for a step of the same set: no wave  *)
(* ever holds one of them.  Blocked is the largest, the steps on a cycle   *)
(* and the steps behind one.                                               *)
Deadlocked(p, C) == \A s \in C : InPlanDeps(p, s) \cap C # {}
Blocked(p)       == UNION {C \in SUBSET p.steps : Deadlocked(p, C)}
Schedulable(p)   == p.steps \ Blocked(p)

(* The steps of the first k waves. *)
UpTo(p) ==
    LET steps[k \in 0..Cardinality(p.steps)] ==
            IF k = 0 THEN {} ELSE steps[k - 1] \cup NextWave(p, steps[k - 1])
    IN  steps

(* What the scheduler may return of a plan: every step of a wave COMPLETED;*)
(* or everything before some wave COMPLETED and some steps of that wave    *)
(* FAILED.  PlanExecution returns nothing else (Outcome), and BrainRecovery*)
(* relies on it.                                                           *)
Results(p) ==
    LET first == UpTo(p)
    IN  {x \in [ok : SUBSET p.steps, failed : SUBSET p.steps] :
            \/ x.ok = Schedulable(p) /\ x.failed = {}
            \/ \E k \in 0..(Cardinality(p.steps) - 1) :
                  /\ x.failed # {} /\ x.failed \subseteq NextWave(p, first[k])
                  /\ x.ok = (first[k] \cup NextWave(p, first[k])) \ x.failed}
=============================================================================
