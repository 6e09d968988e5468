--------------------------- MODULE WaveComputation ---------------------------
(***************************************************************************)
(* ExecutionScheduler._compute_waves (execution_scheduler.py): Kahn's      *)
(* algorithm by levels.  in_degree counts, for each step, the dependencies *)
(* inside the plan that are not yet placed; a wave is the set of steps     *)
(* whose count has reached zero.  The inner loop over current_wave is one  *)
(* action per step, the outer loop one action per wave.  The order inside  *)
(* a wave (priority, then step_id) only fixes the order of the inner loop, *)
(* so the model relaxes the steps of a wave in any order.                  *)
(***************************************************************************)
EXTENDS Integers, FiniteSets, Sequences, PlanGraph

CONSTANT StepIds, Plans

ASSUME StepIdsFinite == IsFiniteSet(StepIds)
ASSUME PlansAssumption == Plans \subseteq PlansOver(StepIds)

VARIABLES
    plan,      \* the argument `steps`, with their depends_on
    inDegree,  \* in_degree
    wave,      \* current_wave
    relaxed,   \* the steps of current_wave the inner loop is done with
    nextIds,   \* next_wave_ids
    waves      \* the waves appended so far, current_wave included

vars == <<plan, inDegree, wave, relaxed, nextIds, waves>>

(* The steps of a list of waves. *)
StepsOf(ws) == UNION {ws[k] : k \in DOMAIN ws}

(* The steps of the waves before the current one. *)
Placed == StepsOf(waves) \ wave

(* The initial counts: one per dependency inside the plan (lines 132-141). *)
(* The variants count whether there is a dependency, and those outside the *)
(* plan too.                                                               *)
InitialDegreesAtMostOne(p) == [s \in p.steps |-> IF InPlanDeps(p, s) = {} THEN 0 ELSE 1]
InitialDegreesAllDeps(p)   == [s \in p.steps |-> Cardinality(p.deps[s])]
InitialDegrees(p) == [s \in p.steps |-> Cardinality(InPlanDeps(p, s))]

FirstWaveTooLarge(p) == {s \in p.steps : InitialDegrees(p)[s] <= 1}
FirstWave(p) == {s \in p.steps : InitialDegrees(p)[s] = 0}

AppendWave(ws, w) == IF w = {} THEN ws ELSE Append(ws, w)

Init ==
    /\ plan \in Plans
    /\ inDegree = InitialDegrees(plan)
    /\ wave = FirstWave(plan)
    /\ relaxed = {}
    /\ nextIds = {}
    /\ waves = AppendWave(<<>>, wave)

(* Variant: the count is tested before it is lowered. *)
RelaxTestsFirst(s) ==
    LET D == Dependents(plan, s)
    IN  /\ s \in wave \ relaxed
        /\ inDegree' = [t \in plan.steps |->
                           IF t \in D THEN inDegree[t] - 1 ELSE inDegree[t]]
        /\ nextIds' = nextIds \cup {t \in D : inDegree[t] = 0}
        /\ relaxed' = relaxed \cup {s}
        /\ UNCHANGED <<plan, wave, waves>>

(* The inner loop body for one step of the wave: each dependent has one    *)
(* dependency fewer, and joins the next wave when none is left.            *)
Relax(s) ==
    LET D == Dependents(plan, s)
    IN  /\ s \in wave \ relaxed
        /\ inDegree' = [t \in plan.steps |->
                           IF t \in D THEN inDegree[t] - 1 ELSE inDegree[t]]
        /\ nextIds' = nextIds \cup {t \in D : inDegree[t] = 1}
        /\ relaxed' = relaxed \cup {s}
        /\ UNCHANGED <<plan, wave, waves>>

(* Variants: next_wave_ids is not emptied; an empty next wave does not end *)
(* the loop.                                                               *)
NextLevelKeepsIds ==
    /\ wave # {}
    /\ relaxed = wave
    /\ wave' = nextIds
    /\ relaxed' = {}
    /\ waves' = AppendWave(waves, nextIds)
    /\ UNCHANGED <<plan, inDegree, nextIds>>

NextLevelNeverEmpty ==
    /\ wave # {}
    /\ relaxed = wave
    /\ wave' = IF nextIds = {} THEN wave ELSE nextIds
    /\ relaxed' = {}
    /\ nextIds' = {}
    /\ waves' = AppendWave(waves, nextIds)
    /\ UNCHANGED <<plan, inDegree>>

(* The end of the outer loop body: next_wave_ids becomes current_wave. *)
NextLevel ==
    /\ wave # {}
    /\ relaxed = wave
    /\ wave' = nextIds
    /\ relaxed' = {}
    /\ nextIds' = {}
    /\ waves' = AppendWave(waves, nextIds)
    /\ UNCHANGED <<plan, inDegree>>

Done == wave = {}

Next == NextLevel \/ \E s \in StepIds : Relax(s)

Spec == Init /\ [][Next]_vars /\ WF_vars(Next)

-----------------------------------------------------------------------------
(* All states are values the Python code can hold; counts never go below   *)
(* zero.                                                                   *)
TypeOK ==
    /\ plan \in Plans
    /\ inDegree \in [plan.steps -> Nat]
    /\ wave \subseteq plan.steps
    /\ relaxed \subseteq wave
    /\ nextIds \subseteq plan.steps
    /\ waves \in Seq(SUBSET plan.steps)

(* in_degree counts the in-plan dependencies the inner loop has not yet    *)
(* counted down, and next_wave_ids collects exactly the unplaced steps     *)
(* whose count has reached zero: a step is appended once, when its last    *)
(* dependency is placed, and never forgotten.                              *)
DegreesCount ==
    \A s \in plan.steps :
        inDegree[s] = Cardinality(InPlanDeps(plan, s) \ (Placed \cup relaxed))

FrontierExact ==
    nextIds = {s \in plan.steps \ (Placed \cup wave) : inDegree[s] = 0}

LoopInvariant == DegreesCount /\ FrontierExact

(* Every wave is what a reader of the docstring expects: the unplaced      *)
(* steps all of whose dependencies are in earlier waves.  PlanExecution    *)
(* schedules with NextWave on the strength of this.                        *)
WaveIsNextWave == wave = NextWave(plan, Placed)

(* Waves are disjoint, and a step of wave k > 1 waits for a step of wave   *)
(* k - 1 and for none of wave k or later: it is in the earliest wave it    *)
(* can be in (its level is the length of its longest dependency chain).    *)
WavesAreLevels ==
    \A k \in DOMAIN waves : \A s \in waves[k] :
        /\ \A j \in DOMAIN waves : j # k => s \notin waves[j]
        /\ \A d \in InPlanDeps(plan, s) : \E j \in 1..(k - 1) : d \in waves[j]
        /\ k > 1 => InPlanDeps(plan, s) \cap waves[k - 1] # {}

(* When the loop ends, the steps in no wave are exactly those on a         *)
(* dependency cycle or behind one: they are dropped without an error.      *)
LeftOutIsBlocked == Done => plan.steps \ Placed = Blocked(plan)

(* The inductive invariant: the current wave is the last one appended, and *)
(* the placed steps are closed under dependencies.                         *)
IInv ==
    /\ TypeOK
    /\ wave \subseteq StepsOf(waves)
    /\ LoopInvariant
    /\ WaveIsNextWave
    /\ \A s \in Placed : InPlanDeps(plan, s) \subseteq Placed
    /\ StepsOf(waves) \cap Blocked(plan) = {}

(* The inductive invariant behind WavesAreLevels: as long as the loop runs, *)
(* the current wave is the last of the waves appended.                     *)
LastIsCurrent == wave # {} => waves # <<>> /\ waves[Len(waves)] = wave

LevelIInv == IInv /\ LastIsCurrent /\ WavesAreLevels

(* The loop ends on every plan, the cyclic ones included. *)
Terminates == <>Done
=============================================================================
