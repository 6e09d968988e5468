------------------------------ MODULE WaveProofs ------------------------------
(***************************************************************************)
(* Proofs about WaveComputation, for every finite set of steps and every   *)
(* dependency graph, cyclic or not.                                        *)
(***************************************************************************)
EXTENDS WaveComputation, FiniteSetTheorems, SequenceTheorems, TLAPS

(* What a plan's fields are. *)
LEMMA PlanFields ==
    ASSUME NEW p \in Plans
    PROVE  /\ p.steps \subseteq StepIds
           /\ p.deps \in [StepIds -> SUBSET StepIds]
BY PlansAssumption DEF PlansOver

(* The dependencies of a step inside its plan are finitely many. *)
LEMMA DepsFinite ==
    ASSUME NEW p \in Plans, NEW s, NEW S
    PROVE  /\ IsFiniteSet(InPlanDeps(p, s) \ S)
           /\ InPlanDeps(p, s) \subseteq p.steps
<1>1. InPlanDeps(p, s) \ S \in SUBSET StepIds
  BY PlanFields DEF InPlanDeps
<1>2. IsFiniteSet(InPlanDeps(p, s) \ S)
  BY <1>1, StepIdsFinite, FS_Subset
<1> QED BY <1>2 DEF InPlanDeps

(* Appending a wave adds its steps, and an empty wave is not appended. *)
LEMMA AppendWaveSteps ==
    ASSUME NEW S, NEW w \in S, NEW ws \in Seq(S)
    PROVE  /\ AppendWave(ws, w) \in Seq(S)
           /\ StepsOf(AppendWave(ws, w)) = StepsOf(ws) \cup w
<1>1. CASE w = {}
  BY <1>1 DEF AppendWave
<1>2. CASE w # {}
  <2> DEFINE vs == Append(ws, w)
  <2>1. AppendWave(ws, w) = vs
    BY <1>2 DEF AppendWave
  <2>2. /\ vs \in Seq(S)
        /\ DOMAIN vs = 1..(Len(ws) + 1)
        /\ DOMAIN ws = 1..Len(ws)
        /\ Len(ws) \in Nat
        /\ vs[Len(ws) + 1] = w
        /\ \A k \in 1..Len(ws) : vs[k] = ws[k]
    BY AppendProperties, LenProperties
  <2>3. StepsOf(vs) \subseteq StepsOf(ws) \cup w
    <3> SUFFICES ASSUME NEW k \in DOMAIN vs
                 PROVE  vs[k] \subseteq StepsOf(ws) \cup w
      BY DEF StepsOf
    <3>1. CASE k = Len(ws) + 1
      BY <3>1, <2>2
    <3>2. CASE k # Len(ws) + 1
      <4>1. k \in 1..Len(ws)
        BY <3>2, <2>2
      <4> QED BY <4>1, <2>2 DEF StepsOf
    <3> QED BY <3>1, <3>2
  <2>4. StepsOf(ws) \subseteq StepsOf(vs)
    <3> SUFFICES ASSUME NEW k \in DOMAIN ws
                 PROVE  ws[k] \subseteq StepsOf(vs)
      BY DEF StepsOf
    <3>1. k \in DOMAIN vs /\ vs[k] = ws[k]
      BY <2>2
    <3> QED BY <3>1 DEF StepsOf
  <2>5. w \subseteq StepsOf(vs)
    <3>1. Len(ws) + 1 \in DOMAIN vs
      BY <2>2
    <3> QED BY <3>1, <2>2 DEF StepsOf
  <2> QED BY <2>1, <2>2, <2>3, <2>4, <2>5
<1> QED BY <1>1, <1>2

(* A set of steps that wait for one another stays out of every wave. *)
LEMMA BlockedStaysOut ==
    ASSUME NEW p \in Plans, NEW P \in SUBSET p.steps, P \cap Blocked(p) = {}
    PROVE  NextWave(p, P) \cap Blocked(p) = {}
<1> SUFFICES ASSUME NEW s \in NextWave(p, P), NEW C \in SUBSET p.steps,
                    Deadlocked(p, C), s \in C
             PROVE  FALSE
  BY DEF Blocked
<1>1. PICK d \in InPlanDeps(p, s) : d \in C
  BY DEF Deadlocked
<1>2. d \in P
  BY <1>1 DEF NextWave
<1>3. d \in Blocked(p)
  BY <1>1 DEF Blocked
<1> QED BY <1>2, <1>3

(* The inductive invariant holds initially. *)
LEMMA InitIInv == Init => IInv
<1> SUFFICES ASSUME Init PROVE IInv
  OBVIOUS
<1>1. /\ plan \in Plans
      /\ wave \in SUBSET plan.steps
      /\ <<>> \in Seq(SUBSET plan.steps)
      /\ StepsOf(<<>>) = {}
  BY EmptySeq DEF Init, FirstWave, StepsOf
<1>2. /\ waves \in Seq(SUBSET plan.steps)
      /\ StepsOf(waves) = wave
  <2>1. waves = AppendWave(<<>>, wave)
    BY DEF Init
  <2>2. /\ AppendWave(<<>>, wave) \in Seq(SUBSET plan.steps)
        /\ StepsOf(AppendWave(<<>>, wave)) = StepsOf(<<>>) \cup wave
    <3> HIDE DEF Init
    <3> QED BY ONLY <1>1, AppendWaveSteps
  <2> QED BY <1>1, <2>1, <2>2
<1>3. Placed = {}
  BY <1>2 DEF Placed
<1>4. \A s \in plan.steps :
        /\ inDegree[s] = Cardinality(InPlanDeps(plan, s))
        /\ inDegree[s] \in Nat
        /\ inDegree[s] = 0 <=> InPlanDeps(plan, s) = {}
        /\ InPlanDeps(plan, s) \ ({} \cup {}) = InPlanDeps(plan, s)
  <2> SUFFICES ASSUME NEW s \in plan.steps
               PROVE  /\ inDegree[s] = Cardinality(InPlanDeps(plan, s))
                      /\ inDegree[s] \in Nat
                      /\ inDegree[s] = 0 <=> InPlanDeps(plan, s) = {}
                      /\ InPlanDeps(plan, s) \ ({} \cup {}) = InPlanDeps(plan, s)
    OBVIOUS
  <2>1. InPlanDeps(plan, s) \ {} = InPlanDeps(plan, s)
    OBVIOUS
  <2>2. IsFiniteSet(InPlanDeps(plan, s))
    BY <1>1, <2>1, DepsFinite
  <2>3. inDegree[s] = Cardinality(InPlanDeps(plan, s))
    BY DEF Init, InitialDegrees
  <2> QED BY <2>1, <2>2, <2>3, FS_CardinalityType, FS_EmptySet
<1>5. TypeOK
  BY <1>1, <1>2, <1>4 DEF TypeOK, Init, InitialDegrees
<1>6. DegreesCount
  BY <1>3, <1>4 DEF DegreesCount, Init
<1>7. wave = {s \in plan.steps : inDegree[s] = 0}
  BY DEF Init, FirstWave
<1>8. FrontierExact
  BY <1>7, <1>3 DEF FrontierExact, Init
<1>9. WaveIsNextWave
  BY <1>7, <1>3, <1>4 DEF WaveIsNextWave, NextWave
<1>10. wave \cap Blocked(plan) = {}
  BY <1>1, <1>3, <1>9, BlockedStaysOut DEF WaveIsNextWave
<1> QED
  BY <1>2, <1>3, <1>5, <1>6, <1>8, <1>9, <1>10 DEF IInv, LoopInvariant

(* Relaxing a step counts one dependency down for each of its dependents.  *)
LEMMA RelaxIInv ==
    ASSUME IInv, NEW s \in StepIds, Relax(s)
    PROVE  IInv'
<1> DEFINE D == Dependents(plan, s)
<1>1. /\ plan \in Plans /\ plan' = plan /\ wave' = wave /\ waves' = waves
      /\ Placed' = Placed /\ StepsOf(waves)' = StepsOf(waves)
      /\ s \in wave /\ s \notin relaxed /\ s \notin Placed /\ s \in plan.steps
      /\ relaxed' = relaxed \cup {s}
      /\ D \subseteq plan.steps
      /\ inDegree \in [plan.steps -> Nat]
  BY DEF IInv, TypeOK, Relax, Placed, StepsOf, Dependents
<1>2. ASSUME NEW t \in plan.steps
      PROVE  /\ inDegree[t] = Cardinality(InPlanDeps(plan, t) \ (Placed \cup relaxed))
             /\ IsFiniteSet(InPlanDeps(plan, t) \ (Placed \cup relaxed))
             /\ t \in D <=> s \in InPlanDeps(plan, t) \ (Placed \cup relaxed)
  <2>1. inDegree[t] = Cardinality(InPlanDeps(plan, t) \ (Placed \cup relaxed))
    BY DEF IInv, LoopInvariant, DegreesCount
  <2>2. IsFiniteSet(InPlanDeps(plan, t) \ (Placed \cup relaxed))
    BY <1>1, DepsFinite
  <2>3. t \in D <=> s \in InPlanDeps(plan, t) \ (Placed \cup relaxed)
    BY <1>1 DEF Dependents, InPlanDeps
  <2> QED BY <2>1, <2>2, <2>3
<1>3. ASSUME NEW t \in plan.steps
      PROVE  /\ inDegree'[t] = Cardinality(InPlanDeps(plan, t) \ (Placed \cup relaxed'))
             /\ inDegree'[t] \in Nat
             /\ t \in D => inDegree[t] # 0 /\ inDegree'[t] = inDegree[t] - 1
             /\ t \notin D => inDegree'[t] = inDegree[t]
  <2> DEFINE A == InPlanDeps(plan, t) \ (Placed \cup relaxed)
  <2>1. InPlanDeps(plan, t) \ (Placed \cup relaxed') = A \ {s}
    BY <1>1
  <2>2. /\ IsFiniteSet(A) /\ IsFiniteSet(A \ {s})
        /\ Cardinality(A \ {s}) = IF s \in A THEN Cardinality(A) - 1 ELSE Cardinality(A)
    BY <1>2, FS_RemoveElement
  <2>3. /\ Cardinality(A) \in Nat /\ Cardinality(A \ {s}) \in Nat
        /\ Cardinality(A) = 0 <=> A = {}
    BY <2>2, FS_CardinalityType, FS_EmptySet
  <2>4. inDegree'[t] = IF t \in D THEN inDegree[t] - 1 ELSE inDegree[t]
    BY DEF Relax
  <2>5. inDegree[t] = Cardinality(A) /\ (t \in D <=> s \in A)
    BY <1>2
  <2> HIDE DEF A, D
  <2> QED BY <2>1, <2>2, <2>3, <2>4, <2>5
<1>4. TypeOK'
  <2>1. inDegree' \in [plan.steps -> Nat]
    BY <1>3 DEF Relax
  <2>2. relaxed' \subseteq wave'
    BY <1>1 DEF IInv, TypeOK
  <2>3. nextIds' \subseteq plan.steps
    BY <1>1 DEF IInv, TypeOK, Relax
  <2> QED BY <1>1, <2>1, <2>2, <2>3 DEF IInv, TypeOK
<1>5. DegreesCount'
  BY <1>1, <1>3 DEF DegreesCount
<1>6. D \cap (Placed \cup wave) = {}
  <2> SUFFICES ASSUME NEW t \in D, t \in Placed \cup wave PROVE FALSE
    OBVIOUS
  <2>1. InPlanDeps(plan, t) \subseteq Placed
    BY DEF IInv, WaveIsNextWave, NextWave
  <2>2. s \in InPlanDeps(plan, t)
    BY <1>1 DEF Dependents, InPlanDeps
  <2> QED BY <1>1, <2>1, <2>2
<1>7. FrontierExact'
  <2> DEFINE U == plan.steps \ (Placed \cup wave)
  <2>1. nextIds = {t \in U : inDegree[t] = 0}
    BY DEF IInv, LoopInvariant, FrontierExact
  <2>2. nextIds' = nextIds \cup {t \in D : inDegree[t] = 1}
    BY DEF Relax
  <2>3. D \subseteq U
    BY <1>1, <1>6
  <2>4. \A t \in U : inDegree'[t] = 0 <=>
                       (t \in D /\ inDegree[t] = 1) \/ (t \notin D /\ inDegree[t] = 0)
    <3> SUFFICES ASSUME NEW t \in plan.steps
                 PROVE  inDegree'[t] = 0 <=>
                       (t \in D /\ inDegree[t] = 1) \/ (t \notin D /\ inDegree[t] = 0)
      OBVIOUS
    <3>1. inDegree[t] \in Nat
      BY <1>1
    <3>2. /\ t \in D => inDegree[t] # 0 /\ inDegree'[t] = inDegree[t] - 1
          /\ t \notin D => inDegree'[t] = inDegree[t]
      BY <1>3
    <3> HIDE DEF D
    <3> QED BY <3>1, <3>2
  <2>5. \A t \in D : inDegree[t] # 0
    BY <1>1, <1>3
  <2>6. U' = U
    BY <1>1
  <2> HIDE DEF U, D
  <2>7. nextIds' = {t \in U : inDegree'[t] = 0}
    BY <2>1, <2>2, <2>3, <2>4, <2>5
  <2> QED BY <2>6, <2>7, <1>1 DEF FrontierExact, U
<1>8. WaveIsNextWave'
  BY <1>1 DEF IInv, WaveIsNextWave
<1> QED
  BY <1>1, <1>4, <1>5, <1>7, <1>8 DEF IInv, LoopInvariant

(* When the inner loop is done, what it collected is the next wave. *)
LEMMA NextLevelIInv ==
    ASSUME IInv, NextLevel
    PROVE  IInv'
<1>1. /\ plan \in Plans /\ plan' = plan /\ inDegree' = inDegree
      /\ wave' = nextIds /\ relaxed' = {} /\ nextIds' = {} /\ relaxed = wave
      /\ nextIds \in SUBSET plan.steps /\ waves \in Seq(SUBSET plan.steps)
      /\ waves' = AppendWave(waves, nextIds)
  BY DEF IInv, TypeOK, NextLevel
<1>2. /\ waves' \in Seq(SUBSET plan.steps)
      /\ StepsOf(waves') = StepsOf(waves) \cup nextIds
  <2>1. /\ AppendWave(waves, nextIds) \in Seq(SUBSET plan.steps)
        /\ StepsOf(AppendWave(waves, nextIds)) = StepsOf(waves) \cup nextIds
    BY ONLY <1>1, AppendWaveSteps
  <2> QED BY <1>1, <2>1
<1>3. StepsOf(waves) = Placed \cup wave /\ nextIds \cap (Placed \cup wave) = {}
  BY DEF IInv, LoopInvariant, FrontierExact, Placed
<1>4. Placed' = Placed \cup wave
  BY <1>1, <1>2, <1>3 DEF Placed
<1>5. \A t \in plan.steps :
        inDegree[t] = 0 <=> InPlanDeps(plan, t) \subseteq Placed \cup wave
  <2> SUFFICES ASSUME NEW t \in plan.steps
               PROVE  inDegree[t] = 0 <=> InPlanDeps(plan, t) \subseteq Placed \cup wave
    OBVIOUS
  <2>1. inDegree[t] = Cardinality(InPlanDeps(plan, t) \ (Placed \cup wave))
    BY <1>1 DEF IInv, LoopInvariant, DegreesCount
  <2>2. IsFiniteSet(InPlanDeps(plan, t) \ (Placed \cup wave))
    BY <1>1, DepsFinite
  <2> QED BY <2>1, <2>2, FS_EmptySet
<1>6. nextIds = {t \in plan.steps \ (Placed \cup wave) : inDegree[t] = 0}
  BY DEF IInv, LoopInvariant, FrontierExact
<1>7. WaveIsNextWave'
  BY <1>1, <1>4, <1>5, <1>6 DEF WaveIsNextWave, NextWave
<1>8. TypeOK'
  BY <1>1, <1>2 DEF IInv, TypeOK
<1>9. DegreesCount'
  <2>1. Placed' \cup relaxed' = Placed \cup relaxed
    BY <1>1, <1>4
  <2> QED BY <1>1, <2>1 DEF IInv, LoopInvariant, DegreesCount
<1>10. FrontierExact'
  <2>1. \A t \in plan.steps \ (Placed' \cup wave') : inDegree'[t] # 0
    BY <1>1, <1>4, <1>6
  <2> QED BY <1>1, <2>1 DEF FrontierExact
<1>11. \A t \in Placed' : InPlanDeps(plan', t) \subseteq Placed'
  BY <1>1, <1>4 DEF IInv, WaveIsNextWave, NextWave
<1>12. StepsOf(waves') \cap Blocked(plan') = {}
  <2>1. Placed \cup wave \in SUBSET plan.steps /\ (Placed \cup wave) \cap Blocked(plan) = {}
    <3>1. StepsOf(waves) \subseteq plan.steps
      BY <1>1, LenProperties, ElementOfSeq DEF StepsOf
    <3> QED BY <3>1, <1>3 DEF IInv
  <2>2. nextIds = NextWave(plan, Placed \cup wave)
    BY <1>5, <1>6 DEF NextWave
  <2>3. nextIds \cap Blocked(plan) = {}
    BY <1>1, <2>1, <2>2, BlockedStaysOut
  <2> QED BY <1>1, <1>2, <2>3 DEF IInv
<1>13. wave' \subseteq StepsOf(waves')
  BY <1>1, <1>2
<1> QED
  BY <1>7, <1>8, <1>9, <1>10, <1>11, <1>12, <1>13 DEF IInv, LoopInvariant

(* The invariant the other theorems rest on, on every plan. *)
THEOREM InductiveInvariant == Spec => []IInv
<1>1. Init => IInv
  BY InitIInv
<1>2. IInv /\ [Next]_vars => IInv'
  <2> SUFFICES ASSUME IInv, [Next]_vars PROVE IInv'
    OBVIOUS
  <2>1. CASE NextLevel
    BY <2>1, NextLevelIInv
  <2>2. ASSUME NEW s \in StepIds, Relax(s) PROVE IInv'
    BY <2>2, RelaxIInv
  <2>3. CASE UNCHANGED vars
    BY <2>3 DEF vars, IInv, TypeOK, LoopInvariant, DegreesCount, FrontierExact,
       WaveIsNextWave, Placed, StepsOf
  <2> QED BY <2>1, <2>2, <2>3 DEF Next
<1> QED BY <1>1, <1>2, PTL DEF Spec

(* The type invariant; the counts of the Python code never go below zero.  *)
THEOREM TypeCorrect == Spec => []TypeOK
<1>1. IInv => TypeOK
  BY DEF IInv
<1> QED BY <1>1, InductiveInvariant, PTL

(* in_degree and next_wave_ids mean what the loop uses them for. *)
THEOREM CountsAreExact == Spec => []LoopInvariant
<1>1. IInv => LoopInvariant
  BY DEF IInv
<1> QED BY <1>1, InductiveInvariant, PTL

(* Every wave of _compute_waves holds the unplaced steps whose in-plan     *)
(* dependencies are all placed: PlanExecution may use NextWave for it.     *)
THEOREM WavesAreNextWaves == Spec => []WaveIsNextWave
<1>1. IInv => WaveIsNextWave
  BY DEF IInv
<1> QED BY <1>1, InductiveInvariant, PTL

(* What the algorithm leaves out is what waits for a cycle, and no more.   *)
THEOREM LeavesOutOnlyBlocked == Spec => []LeftOutIsBlocked
<1>1. IInv => LeftOutIsBlocked
  <2> SUFFICES ASSUME IInv, Done PROVE plan.steps \ Placed = Blocked(plan)
    BY DEF LeftOutIsBlocked
  <2> DEFINE C == plan.steps \ Placed
  <2>1. Blocked(plan) \subseteq C
    BY DEF IInv, Blocked, Placed
  <2>2. Deadlocked(plan, C)
    <3> SUFFICES ASSUME NEW s \in C PROVE InPlanDeps(plan, s) \cap C # {}
      BY DEF Deadlocked
    <3>1. s \notin NextWave(plan, Placed)
      BY DEF IInv, WaveIsNextWave, Done
    <3>2. PICK d \in InPlanDeps(plan, s) : d \notin Placed
      BY <3>1 DEF NextWave
    <3>3. d \in plan.steps
      BY <3>2 DEF InPlanDeps
    <3> QED BY <3>2, <3>3
  <2>3. C \subseteq Blocked(plan)
    BY <2>2 DEF Blocked
  <2> QED BY <2>1, <2>3
<1> QED BY <1>1, InductiveInvariant, PTL

-----------------------------------------------------------------------------
(* Levels.  The waves of a list are told apart by their steps. *)
Levels(p, ws) ==
    \A k \in DOMAIN ws : \A s \in ws[k] :
        /\ \A j \in DOMAIN ws : j # k => s \notin ws[j]
        /\ \A d \in InPlanDeps(p, s) : \E j \in 1..(k - 1) : d \in ws[j]
        /\ k > 1 => InPlanDeps(p, s) \cap ws[k - 1] # {}

(* One more wave of steps that wait for the last wave and for none outside *)
(* of the list. *)
LEMMA OneMoreLevel ==
    ASSUME NEW p, NEW S, NEW w \in S, NEW ws \in Seq(S), Levels(p, ws),
           w \cap StepsOf(ws) = {},
           \A s \in w : InPlanDeps(p, s) \subseteq StepsOf(ws),
           ws # <<>> => \A s \in w : InPlanDeps(p, s) \cap ws[Len(ws)] # {}
    PROVE  Levels(p, Append(ws, w))
<1> DEFINE vs == Append(ws, w)
           n == Len(ws)
<1>1. /\ n \in Nat /\ (n > 0 => ws # <<>>)
      /\ DOMAIN ws = 1..n /\ DOMAIN vs = 1..(n + 1)
      /\ vs[n + 1] = w /\ \A k \in 1..n : vs[k] = ws[k]
  <2>1. /\ vs \in Seq(S) /\ Len(vs) = n + 1 /\ vs[n + 1] = w
        /\ \A k \in 1..n : vs[k] = ws[k]
    BY AppendProperties
  <2> QED BY <2>1, LenProperties
<1> HIDE DEF vs, n
<1>2. \A k \in 1..n : ws[k] \subseteq StepsOf(ws)
  BY <1>1 DEF StepsOf
<1>3. ASSUME NEW k \in 1..n, NEW s \in vs[k]
      PROVE  /\ \A j \in DOMAIN vs : j # k => s \notin vs[j]
             /\ \A d \in InPlanDeps(p, s) : \E j \in 1..(k - 1) : d \in vs[j]
             /\ k > 1 => InPlanDeps(p, s) \cap vs[k - 1] # {}
  <2>1. s \in ws[k] /\ s \notin w
    BY <1>1, <1>2, <1>3
  <2>2. /\ \A j \in 1..n : j # k => s \notin ws[j]
        /\ \A d \in InPlanDeps(p, s) : \E j \in 1..(k - 1) : d \in ws[j]
        /\ k > 1 => InPlanDeps(p, s) \cap ws[k - 1] # {}
    BY <1>1, <2>1 DEF Levels
  <2>3. \A j \in DOMAIN vs : j # k => s \notin vs[j]
    BY <1>1, <2>1, <2>2
  <2>4. \A j \in 1..(k - 1) : j \in 1..n /\ vs[j] = ws[j]
    BY <1>1
  <2>5. k > 1 => vs[k - 1] = ws[k - 1]
    BY <1>1
  <2> QED BY <2>2, <2>3, <2>4, <2>5
<1>4. ASSUME NEW s \in w
      PROVE  /\ \A j \in DOMAIN vs : j # n + 1 => s \notin vs[j]
             /\ \A d \in InPlanDeps(p, s) : \E j \in 1..n : d \in vs[j]
             /\ n + 1 > 1 => InPlanDeps(p, s) \cap vs[n] # {}
  <2>1. \A j \in DOMAIN vs : j # n + 1 => s \notin vs[j]
    BY <1>1, <1>2
  <2>2. ASSUME NEW d \in InPlanDeps(p, s) PROVE \E j \in 1..n : d \in vs[j]
    <3>1. PICK j \in DOMAIN ws : d \in ws[j]
      BY <2>2 DEF StepsOf
    <3> QED BY <1>1, <3>1
  <2>3. n > 0 => InPlanDeps(p, s) \cap vs[n] # {}
    BY <1>1 DEF n
  <2> QED BY <1>1, <2>1, <2>2, <2>3
<1>5. ASSUME NEW k \in DOMAIN vs, NEW s \in vs[k]
      PROVE  /\ \A j \in DOMAIN vs : j # k => s \notin vs[j]
             /\ \A d \in InPlanDeps(p, s) : \E j \in 1..(k - 1) : d \in vs[j]
             /\ k > 1 => InPlanDeps(p, s) \cap vs[k - 1] # {}
  <2>1. CASE k = n + 1
    <3>1. s \in w /\ k - 1 = n
      BY <1>1, <1>5, <2>1
    <3> QED BY <1>4, <2>1, <3>1
  <2>2. CASE k # n + 1
    <3>1. k \in 1..n
      BY <1>1, <2>2
    <3> QED BY <1>3, <1>5, <3>1
  <2> QED BY <2>1, <2>2
<1>6. Levels(p, vs)
  BY <1>5 DEF Levels
<1> QED BY <1>6 DEF vs

LEMMA OneWave ==
    ASSUME NEW S, NEW w \in S
    PROVE  /\ Append(<<>>, w) \in Seq(S) /\ Len(Append(<<>>, w)) = 1
           /\ Append(<<>>, w)[1] = w
OBVIOUS

LEMMA InitLevels == Init => LastIsCurrent /\ WavesAreLevels
<1> SUFFICES ASSUME Init PROVE LastIsCurrent /\ WavesAreLevels
  OBVIOUS
<1>1. IInv /\ waves = AppendWave(<<>>, wave)
  BY InitIInv DEF Init
<1>2. CASE wave = {}
  BY <1>1, <1>2, EmptySeq DEF AppendWave, LastIsCurrent, WavesAreLevels
<1>3. CASE wave # {}
  <2>1. /\ waves = Append(<<>>, wave) /\ wave \in SUBSET plan.steps
        /\ <<>> \in Seq(SUBSET plan.steps) /\ Len(<<>>) = 0
    BY <1>1, <1>3, EmptySeq DEF AppendWave, IInv, TypeOK
  <2>2. waves \in Seq(SUBSET plan.steps) /\ Len(waves) = 1 /\ waves[1] = wave
    BY ONLY <2>1, OneWave
  <2>3. LastIsCurrent
    BY <2>2, EmptySeq DEF LastIsCurrent
  <2>4. Levels(plan, <<>>) /\ StepsOf(<<>>) = {}
    BY DEF Levels, StepsOf
  <2>5. \A s \in wave : InPlanDeps(plan, s) \subseteq StepsOf(<<>>)
    <3>1. Placed = {}
      BY <2>2, LenProperties DEF Placed, StepsOf
    <3> QED BY <1>1, <3>1 DEF IInv, WaveIsNextWave, NextWave
  <2>6. Levels(plan, Append(<<>>, wave))
    BY <2>1, <2>4, <2>5, OneMoreLevel
  <2> QED BY <2>1, <2>3, <2>6 DEF Levels, WavesAreLevels
<1> QED BY <1>2, <1>3

(* The next wave waits for the wave that ends. *)
LEMMA NextLevelLevels ==
    ASSUME LevelIInv, NextLevel
    PROVE  LastIsCurrent' /\ WavesAreLevels'
<1>1. /\ IInv /\ LastIsCurrent /\ Levels(plan, waves) /\ plan \in Plans
      /\ plan' = plan /\ wave' = nextIds /\ waves' = AppendWave(waves, nextIds)
      /\ waves \in Seq(SUBSET plan.steps) /\ nextIds \in SUBSET plan.steps
      /\ waves # <<>> /\ waves[Len(waves)] = wave
  BY DEF LevelIInv, IInv, TypeOK, NextLevel, LastIsCurrent, WavesAreLevels, Levels
<1>2. IInv' /\ StepsOf(waves)' = StepsOf(waves) \cup nextIds
  BY <1>1, NextLevelIInv, AppendWaveSteps
<1>3. CASE nextIds = {}
  BY <1>1, <1>3 DEF AppendWave, LastIsCurrent, WavesAreLevels, Levels
<1>4. CASE nextIds # {}
  <2>1. waves' = Append(waves, nextIds)
    BY <1>1, <1>4 DEF AppendWave
  <2>2. LastIsCurrent'
    <3>1. Append(waves, nextIds) # <<>> /\ Len(Append(waves, nextIds)) = Len(waves) + 1
          /\ Append(waves, nextIds)[Len(waves) + 1] = nextIds
      BY <1>1, AppendProperties, LenProperties, EmptySeq
    <3> QED BY <1>1, <2>1, <3>1 DEF LastIsCurrent
  <2>3. /\ nextIds \cap StepsOf(waves) = {}
        /\ nextIds \cap NextWave(plan, Placed) = {}
        /\ nextIds \cap Placed = {}
    BY DEF LevelIInv, IInv, LoopInvariant, FrontierExact, WaveIsNextWave, Placed
  <2>4. StepsOf(waves) = Placed \cup wave
    BY <1>1 DEF IInv, Placed
  <2>5. \A s \in nextIds : InPlanDeps(plan, s) \subseteq StepsOf(waves)
    <3>1. Placed' = StepsOf(waves)
      BY <1>1, <1>2, <2>3 DEF Placed
    <3> QED BY <1>1, <1>2, <3>1 DEF IInv, WaveIsNextWave, NextWave
  <2>6. \A s \in nextIds : InPlanDeps(plan, s) \cap wave # {}
    <3> SUFFICES ASSUME NEW s \in nextIds PROVE InPlanDeps(plan, s) \cap wave # {}
      OBVIOUS
    <3>1. ~(InPlanDeps(plan, s) \subseteq Placed)
      BY <1>1, <2>3 DEF NextWave
    <3> QED BY <2>4, <2>5, <3>1
  <2>7. Levels(plan, Append(waves, nextIds))
    BY <1>1, <2>3, <2>5, <2>6, OneMoreLevel
  <2> QED BY <1>1, <2>1, <2>2, <2>7 DEF Levels, WavesAreLevels
<1> QED BY <1>3, <1>4

(* Every step is in the earliest wave it can be in, and in one wave only,  *)
(* whatever the order in which the inner loop takes the steps of a wave.   *)
THEOREM EarliestWaves == Spec => []WavesAreLevels
<1>1. Init => LastIsCurrent /\ WavesAreLevels
  BY InitLevels
<1>2. IInv /\ LastIsCurrent /\ WavesAreLevels /\ [Next]_vars
        => LastIsCurrent' /\ WavesAreLevels'
  <2>1. ASSUME LevelIInv, NextLevel PROVE LastIsCurrent' /\ WavesAreLevels'
    BY <2>1, NextLevelLevels
  <2>2. ASSUME LevelIInv, UNCHANGED <<plan, wave, waves>>
        PROVE  LastIsCurrent' /\ WavesAreLevels'
    BY <2>2 DEF LevelIInv, LastIsCurrent, WavesAreLevels, InPlanDeps
  <2>3. ASSUME LevelIInv, [Next]_vars PROVE LastIsCurrent' /\ WavesAreLevels'
    BY <2>1, <2>2, <2>3 DEF Next, Relax, vars
  <2> QED BY <2>3 DEF LevelIInv
<1> QED BY <1>1, <1>2, InductiveInvariant, PTL DEF Spec
===============================================================================
