----------------------------- MODULE PermitProofs -----------------------------
(***************************************************************************)
(* What all executions share: the semaphore loses no permit and no wakeup, *)
(* and the attempt counts of the RetryManager are those of all executions  *)
(* together, for any number of requests, plans, permits and retries.       *)
(***************************************************************************)
EXTENDS ExecProofs, FunctionTheorems

(* A task of a parallel wave that has a permit. *)
Holds(e, s) == Parallel(e) /\ task[e][s] \in {"granted", "executing", "backoff"}

LEMMA Members ==
    ASSUME NEW e \in Execs, NEW s \in StepIds
    PROVE  /\ <<e, s>> \in Holders <=> Holds(e, s)
           /\ <<e, s>> \in Queued <=> task[e][s] = "queued"
BY DEF Holders, Queued, Holds

LEMMA MembersPrimed ==
    ASSUME NEW e \in Execs, NEW s \in StepIds
    PROVE  /\ <<e, s>> \in Holders' <=> Holds(e, s)'
           /\ <<e, s>> \in Queued' <=> task'[e][s] = "queued"
BY DEF Holders, Queued, Holds

(* Both sets are sets of pairs, and finite. *)
LEMMA PairSets ==
    /\ Holders \subseteq Execs \X StepIds /\ Holders' \subseteq Execs \X StepIds
    /\ Queued \subseteq Execs \X StepIds /\ Queued' \subseteq Execs \X StepIds
BY DEF Holders, Queued

LEMMA FinitePairs ==
    /\ IsFiniteSet(Holders) /\ Cardinality(Holders) \in Nat
    /\ IsFiniteSet(Queued) /\ Cardinality(Queued) \in Nat
<1>1. IsFiniteSet(Execs \X StepIds)
  BY ExecsFinite, StepIdsFinite, FS_Product
<1>2. IsFiniteSet(Holders) /\ IsFiniteSet(Queued)
  BY <1>1, PairSets, FS_Subset
<1> QED BY <1>2, FS_CardinalityType

(* Two sets of pairs are equal when they have the same pairs. *)
LEMMA PairsEqual ==
    ASSUME NEW A \in SUBSET (Execs \X StepIds), NEW B \in SUBSET (Execs \X StepIds),
           \A e \in Execs, s \in StepIds : <<e, s>> \in A <=> <<e, s>> \in B
    PROVE  A = B
OBVIOUS

(* A granted task that has not resumed keeps the semaphore locked. *)
LEMMA GrantedKept ==
    ASSUME \A e \in Execs, s \in StepIds :
              task[e][s] = "granted" => task'[e][s] = "granted"
    PROVE  Granted # {} => Granted' # {}
<1> SUFFICES ASSUME NEW x \in Granted PROVE \E y : y \in Granted'
  OBVIOUS
<1>1. x[1] \in Execs /\ x[2] \in StepIds /\ x \in Execs \X StepIds
  BY DEF Granted
<1>2. task'[x[1]][x[2]] = "granted"
  BY <1>1 DEF Granted
<1> QED BY <1>1, <1>2 DEF Granted

(* A step that moves no permit and no waiter. *)
LEMMA PermitsUntouched ==
    ASSUME PermitAccounting, UNCHANGED semVars,
           \A e \in Execs, s \in StepIds :
              /\ Holds(e, s)' <=> Holds(e, s)
              /\ task'[e][s] = "queued" <=> task[e][s] = "queued"
              /\ task[e][s] = "granted" => task'[e][s] = "granted"
    PROVE  PermitAccounting'
<1>1. \A e \in Execs, s \in StepIds :
          /\ <<e, s>> \in Holders' <=> <<e, s>> \in Holders
          /\ <<e, s>> \in Queued' <=> <<e, s>> \in Queued
  BY Members, MembersPrimed
<1>2. Holders' = Holders /\ Queued' = Queued
  BY <1>1, PairSets, PairsEqual
<1>3. Granted # {} => Granted' # {}
  BY GrantedKept
<1> QED BY <1>1, <1>2, <1>3 DEF PermitAccounting, semVars

LEMMA InitPermits ==
    ASSUME Init
    PROVE  OnlyParallelWaits /\ PermitAccounting
<1>1. Holders = {} /\ Queued = {}
  BY DEF Init, Holders, Queued
<1>2. waiters = <<>> /\ Len(waiters) = 0 /\ DOMAIN waiters = {} /\ permits = MaxConcurrency
  BY EmptySeq DEF Init
<1>3. Cardinality({}) = 0
  BY FS_EmptySet
<1>4. PermitAccounting
  BY <1>1, <1>2, <1>3, ConcurrencyAssumption DEF PermitAccounting
<1>5. OnlyParallelWaits
  BY DEF Init, OnlyParallelWaits
<1> QED BY <1>4, <1>5

-----------------------------------------------------------------------------
(* The coroutine of an execution moves no permit: it changes its own wave  *)
(* only when none of its tasks is in flight.                               *)
LEMMA CoroutinePermits ==
    ASSUME PermitIInv, NEW e \in Execs, Start(e) \/ Coroutine(e)
    PROVE  OnlyParallelWaits' /\ PermitAccounting'
<1>1. ASSUME UNCHANGED <<wave, task, semVars>>
      PROVE  OnlyParallelWaits' /\ PermitAccounting'
  <2>1. \A f \in Execs : Parallel(f)' <=> Parallel(f)
    BY <1>1 DEF Parallel
  <2>2. \A f \in Execs, t \in StepIds : Holds(f, t)' <=> Holds(f, t)
    BY <1>1, <2>1 DEF Holds
  <2> QED BY <1>1, <2>1, <2>2, PermitsUntouched DEF PermitIInv, OnlyParallelWaits
<1>2. ASSUME UNCHANGED semVars,
             \A f \in Execs \ {e} : wave'[f] = wave[f] /\ task'[f] = task[f],
             \A t \in StepIds : task[e][t] \in {"none", "returned"},
             \/ \A t \in StepIds : task'[e][t] \in {"none", "returned"}
             \/ Parallel(e)' /\ \A t \in StepIds : task'[e][t] \in {"none", "returned", "spawned"}
             \/ ~Parallel(e)' /\ \A t \in StepIds : task'[e][t] \in {"none", "returned", "executing"}
      PROVE  OnlyParallelWaits' /\ PermitAccounting'
  <2>1. \A f \in Execs \ {e} : Parallel(f)' <=> Parallel(f)
    BY <1>2 DEF Parallel
  <2>2. \A f \in Execs, t \in StepIds :
            /\ Holds(f, t)' <=> Holds(f, t)
            /\ task'[f][t] = "queued" <=> task[f][t] = "queued"
            /\ task[f][t] = "granted" => task'[f][t] = "granted"
    <3> SUFFICES ASSUME NEW f \in Execs, NEW t \in StepIds
                 PROVE  /\ Holds(f, t)' <=> Holds(f, t)
                        /\ task'[f][t] = "queued" <=> task[f][t] = "queued"
                        /\ task[f][t] = "granted" => task'[f][t] = "granted"
      OBVIOUS
    <3>1. CASE f = e
      BY <1>2, <3>1 DEF Holds
    <3>2. CASE f # e
      BY <1>2, <2>1, <3>2 DEF Holds
    <3> QED BY <3>1, <3>2
  <2>3. OnlyParallelWaits'
    BY <1>2, <2>1 DEF PermitIInv, OnlyParallelWaits
  <2> QED BY <1>2, <2>2, <2>3, PermitsUntouched DEF PermitIInv
<1>3. ASSUME phase[e] = "ready" PROVE \A t \in StepIds : task[e][t] \in {"none", "returned"}
  BY <1>3 DEF PermitIInv, IInv, WavesInOrder
<1>4. ASSUME WaveReturned(e) PROVE \A t \in StepIds : task[e][t] \in {"none", "returned"}
  BY <1>4 DEF WaveReturned, PermitIInv, IInv, WavesInOrder
<1>5. CASE Start(e)
  BY <1>5, <1>1 DEF Start, stepVars
<1>6. CASE Complete(e)
  BY <1>6, <1>1 DEF Complete, stepVars
<1>7. CASE JoinWave(e)
  <2>1. \A f \in Execs \ {e} : wave'[f] = wave[f]
    BY <1>7 DEF JoinWave, PermitIInv, IInv, TypeOK
  <2> QED BY <1>7, <1>4, <1>2, <2>1 DEF JoinWave, stepVars
<1>8. CASE AbortPlan(e)
  <2>1. \A f \in Execs \ {e} : wave'[f] = wave[f]
    BY <1>8 DEF AbortPlan, PermitIInv, IInv, TypeOK
  <2> QED BY <1>8, <1>4, <1>2, <2>1 DEF AbortPlan
<1>9. CASE StartSequential(e)
  <2>1. /\ UNCHANGED semVars /\ phase[e] = "ready"
        /\ \A f \in Execs \ {e} : wave'[f] = wave[f] /\ task'[f] = task[f]
        /\ \A t \in StepIds : task'[e][t] \in {"executing", task[e][t]}
    BY <1>9 DEF StartSequential, PermitIInv, IInv, TypeOK
  <2>2. ~Parallel(e)'
    BY <1>9 DEF StartSequential, Parallel, PermitIInv, IInv, TypeOK
  <2> QED BY <2>1, <2>2, <1>2, <1>3
<1>10. CASE StartParallel(e)
  <2>1. /\ UNCHANGED semVars /\ phase[e] = "ready"
        /\ \A f \in Execs \ {e} : wave'[f] = wave[f] /\ task'[f] = task[f]
        /\ \A t \in StepIds : task'[e][t] \in {"spawned", task[e][t]}
    BY <1>10 DEF StartParallel, PermitIInv, IInv, TypeOK
  <2>2. Parallel(e)'
    BY <1>10 DEF StartParallel, Parallel, PermitIInv, IInv, TypeOK
  <2> QED BY <2>1, <2>2, <1>2, <1>3
<1> QED BY <1>5, <1>6, <1>7, <1>8, <1>9, <1>10 DEF Coroutine

-----------------------------------------------------------------------------
(* The coroutine of a step: the waves stay as they are, so only the task   *)
(* that moves, and the one it wakes, enter or leave the two sets.          *)

LEMMA SameWaves ==
    ASSUME UNCHANGED execVars
    PROVE  \A f \in Execs : Parallel(f)' <=> Parallel(f)
BY DEF execVars, Parallel

(* A spawned task takes a free permit: nobody waits, granted or not. *)
LEMMA AcquirePermitAccounts ==
    ASSUME PermitIInv, NEW e \in Execs, NEW s \in StepIds, AcquirePermit(e, s)
    PROVE  OnlyParallelWaits' /\ PermitAccounting'
<1>1. /\ task[e][s] = "spawned" /\ task'[e][s] = "executing" /\ Parallel(e)
      /\ \A f \in Execs, t \in StepIds : <<f, t>> # <<e, s>> => task'[f][t] = task[f][t]
      /\ permits \in Nat /\ permits' = permits - 1 /\ waiters = <<>> /\ waiters' = waiters
      /\ \A f \in Execs : Parallel(f)' <=> Parallel(f)
  BY SameWaves DEF PermitIInv, OnlyParallelWaits, IInv, TypeOK, AcquirePermit, Locked,
     Execute, SetTask
<1>2. \A f \in Execs, t \in StepIds :
          /\ <<f, t>> \in Holders' <=> <<f, t>> \in Holders \cup {<<e, s>>}
          /\ <<f, t>> \in Queued' <=> <<f, t>> \in Queued
  BY ZenonT(60), <1>1, Members, MembersPrimed DEF Holds
<1>3. Holders' = Holders \cup {<<e, s>>} /\ Queued' = Queued
  <2>1. Holders \cup {<<e, s>>} \in SUBSET (Execs \X StepIds)
    BY PairSets
  <2>2. Holders' = Holders \cup {<<e, s>>}
    BY <1>2, <2>1, PairSets, PairsEqual
  <2>3. Queued' = Queued
    BY <1>2, PairSets, PairsEqual
  <2> QED BY <2>2, <2>3
<1>4. <<e, s>> \notin Holders
  BY <1>1, Members DEF Holds
<1>5. Cardinality(Holders') = Cardinality(Holders) + 1
  BY <1>3, <1>4, FinitePairs, FS_AddElement
<1>6. PermitAccounting'
  BY <1>1, <1>3, <1>5, FinitePairs, ConcurrencyAssumption DEF PermitIInv, PermitAccounting
<1>7. OnlyParallelWaits'
  BY <1>1 DEF PermitIInv, OnlyParallelWaits
<1> QED BY <1>6, <1>7

(* A spawned task finds the semaphore locked. *)
LEMMA AwaitPermitAccounts ==
    ASSUME PermitIInv, NEW e \in Execs, NEW s \in StepIds, AwaitPermit(e, s)
    PROVE  OnlyParallelWaits' /\ PermitAccounting'
<1>1. /\ task[e][s] = "spawned" /\ task'[e][s] = "queued" /\ Parallel(e)
      /\ \A f \in Execs, t \in StepIds : <<f, t>> # <<e, s>> => task'[f][t] = task[f][t]
      /\ permits' = permits /\ waiters' = Append(waiters, <<e, s>>)
      /\ permits = 0 \/ Granted # {} \/ waiters # <<>>
      /\ \A f \in Execs : Parallel(f)' <=> Parallel(f)
  BY SameWaves DEF PermitIInv, OnlyParallelWaits, IInv, TypeOK, AwaitPermit, Locked, SetTask
<1>2. \A f \in Execs, t \in StepIds :
          /\ <<f, t>> \in Holders' <=> <<f, t>> \in Holders
          /\ <<f, t>> \in Queued' <=> <<f, t>> \in Queued \cup {<<e, s>>}
  BY ZenonT(60), <1>1, Members, MembersPrimed DEF Holds
<1>3. Holders' = Holders /\ Queued' = Queued \cup {<<e, s>>}
  BY <1>2, PairSets, PairsEqual
<1>4. <<e, s>> \notin Queued
  BY <1>1, Members
<1>5. Cardinality(Queued') = Cardinality(Queued) + 1
  BY <1>3, <1>4, FinitePairs, FS_AddElement
<1>6. /\ waiters \in Seq(Execs \X StepIds) /\ Len(waiters) \in Nat
      /\ DOMAIN waiters = 1..Len(waiters)
      /\ waiters' \in Seq(Execs \X StepIds)
      /\ Len(waiters') = Len(waiters) + 1
      /\ DOMAIN waiters' = 1..(Len(waiters) + 1)
      /\ \A i \in 1..Len(waiters) : waiters'[i] = waiters[i]
      /\ waiters'[Len(waiters) + 1] = <<e, s>>
  <2>1. waiters \in Seq(Execs \X StepIds) /\ <<e, s>> \in Execs \X StepIds
    BY DEF PermitIInv, IInv, TypeOK
  <2>2. /\ waiters' \in Seq(Execs \X StepIds)
        /\ Len(waiters') = Len(waiters) + 1
        /\ \A i \in 1..Len(waiters) : waiters'[i] = waiters[i]
        /\ waiters'[Len(waiters) + 1] = <<e, s>>
    BY <1>1, <2>1, AppendProperties
  <2> QED BY <2>1, <2>2, LenProperties
<1>7. {waiters'[i] : i \in DOMAIN waiters'} = {waiters[i] : i \in DOMAIN waiters} \cup {<<e, s>>}
  <2>1. 1..(Len(waiters) + 1) = 1..Len(waiters) \cup {Len(waiters) + 1}
    BY <1>6
  <2>2. \A i \in DOMAIN waiters' :
          waiters'[i] \in {waiters[j] : j \in DOMAIN waiters} \cup {<<e, s>>}
    BY <1>6, <2>1
  <2>3. \A i \in DOMAIN waiters : i \in DOMAIN waiters' /\ waiters[i] = waiters'[i]
    BY <1>6, <2>1
  <2>4. Len(waiters) + 1 \in DOMAIN waiters'
    BY <1>6, <2>1
  <2> QED BY <1>6, <2>2, <2>3, <2>4
<1>8. permits' > 0 => Granted' # {}
  <2>1. permits > 0 => Granted # {}
    BY <1>1 DEF PermitIInv, PermitAccounting
  <2>2. \A f \in Execs, t \in StepIds : task[f][t] = "granted" => task'[f][t] = "granted"
    BY <1>1
  <2> QED BY <1>1, <2>1, <2>2, GrantedKept
<1>9. PermitAccounting'
  BY <1>1, <1>3, <1>5, <1>6, <1>7, <1>8 DEF PermitIInv, PermitAccounting
<1>10. OnlyParallelWaits'
  BY <1>1 DEF PermitIInv, OnlyParallelWaits
<1> QED BY <1>9, <1>10

(* A task that fails, or whose backoff ends, keeps its permit. *)
LEMMA KeepPermitAccounts ==
    ASSUME PermitIInv, NEW e \in Execs, NEW s \in StepIds,
           RetryAfterFailure(e, s) \/ BackoffOver(e, s)
    PROVE  OnlyParallelWaits' /\ PermitAccounting'
<1>1. /\ task[e][s] \in {"executing", "backoff"}
      /\ task'[e][s] \in {"executing", "backoff"}
      /\ \A f \in Execs, t \in StepIds : <<f, t>> # <<e, s>> => task'[f][t] = task[f][t]
      /\ UNCHANGED semVars
      /\ \A f \in Execs : Parallel(f)' <=> Parallel(f)
  BY SameWaves DEF PermitIInv, IInv, TypeOK, RetryAfterFailure, BackoffOver, SetTask
<1>2. \A f \in Execs, t \in StepIds :
          /\ Holds(f, t)' <=> Holds(f, t)
          /\ task'[f][t] = "queued" <=> task[f][t] = "queued"
          /\ task[f][t] = "granted" => task'[f][t] = "granted"
  BY <1>1 DEF Holds
<1>3. PermitAccounting'
  BY <1>1, <1>2, PermitsUntouched DEF PermitIInv
<1>4. OnlyParallelWaits'
  BY <1>1 DEF PermitIInv, OnlyParallelWaits
<1> QED BY <1>3, <1>4

(* The first n waiters are n tasks: none of them waits twice. *)
LEMMA WokenCounted ==
    ASSUME WaitersAreQueued, NEW n \in 0..Len(waiters), Len(waiters) \in Nat
    PROVE  /\ IsFiniteSet({waiters[i] : i \in 1..n})
           /\ Cardinality({waiters[i] : i \in 1..n}) = n
<1> DEFINE W == {waiters[i] : i \in 1..n}
           f == [i \in 1..n |-> waiters[i]]
<1>1. \A i \in 1..n : i \in 1..Len(waiters)
  OBVIOUS
<1>2. \A i, j \in 1..n : f[i] = f[j] => i = j
  BY <1>1 DEF WaitersAreQueued
<1>3. f \in [1..n -> W] /\ \A x \in W : \E i \in 1..n : f[i] = x
  OBVIOUS
<1>4. f \in Bijection(1..n, W)
  BY <1>2, <1>3, Fun_IsBij
<1>5. ExistsBijection(1..n, W)
  BY <1>4 DEF ExistsBijection
<1>6. IsFiniteSet(1..n) /\ Cardinality(1..n) = n
  BY FS_Interval
<1> QED BY <1>5, <1>6, FS_Bijection

(* A granted task goes on, and wakes those there are permits for. *)
LEMMA ResumeAccounts ==
    ASSUME PermitIInv, NEW e \in Execs, NEW s \in StepIds, ResumeWithPermit(e, s)
    PROVE  OnlyParallelWaits' /\ PermitAccounting'
<1>0. IInv /\ TypeOK /\ WaitersAreQueued /\ OnlyParallelWaits
  BY DEF PermitIInv, IInv
<1>1. PICK n \in Wakes :
        /\ n \in Nat /\ permits' = permits - n
        /\ waiters' \in Seq(Execs \X StepIds)
        /\ Len(waiters') = Len(waiters) - n
        /\ \A i \in 1..Len(waiters') : waiters'[i] = waiters[i + n]
        /\ \A f \in Execs, t \in StepIds : <<f, t>> # <<e, s>> =>
              task'[f][t] = IF \E i \in 1..n : waiters[i] = <<f, t>>
                            THEN "granted" ELSE task[f][t]
  BY <1>0, ResumeEffect
<1>2. /\ n \in 0..Len(waiters) /\ n <= permits
      /\ n = 0 => permits = 0 \/ waiters = <<>>
      /\ Len(waiters) \in Nat /\ permits \in Nat
      /\ DOMAIN waiters = 1..Len(waiters) /\ DOMAIN waiters' = 1..Len(waiters')
  BY <1>0, <1>1, WaiterPairs, LenProperties DEF Wakes, TypeOK
<1>3. task[e][s] = "granted" /\ task'[e][s] = "executing"
  BY <1>0, ResumeEffect
<1> DEFINE W == {waiters[i] : i \in 1..n}
<1>4. /\ W \subseteq Execs \X StepIds
      /\ \A f \in Execs, t \in StepIds : <<f, t>> \in W => task[f][t] = "queued"
  <2>1. \A i \in 1..n : i \in 1..Len(waiters)
    BY <1>2
  <2>2. W \subseteq Execs \X StepIds
    BY <1>0, <2>1, WaiterPairs
  <2>3. ASSUME NEW f \in Execs, NEW t \in StepIds, <<f, t>> \in W
        PROVE  task[f][t] = "queued"
    <3>1. PICK i \in 1..n : <<f, t>> = waiters[i]
      BY <2>3
    <3>2. waiters[i][1] = f /\ waiters[i][2] = t
      BY <3>1
    <3> QED BY <1>0, <2>1, <3>2 DEF WaitersAreQueued
  <2> QED BY <2>2, <2>3
<1>5. IsFiniteSet(W) /\ Cardinality(W) = n
  BY <1>0, <1>2, WokenCounted
<1>6. \A f \in Execs, t \in StepIds : <<f, t>> # <<e, s>> =>
          task'[f][t] = IF <<f, t>> \in W THEN "granted" ELSE task[f][t]
  <2> SUFFICES ASSUME NEW f \in Execs, NEW t \in StepIds, <<f, t>> # <<e, s>>
               PROVE  task'[f][t] = IF <<f, t>> \in W THEN "granted" ELSE task[f][t]
    OBVIOUS
  <2>1. <<f, t>> \in W <=> \E i \in 1..n : waiters[i] = <<f, t>>
    OBVIOUS
  <2>2. task'[f][t] = IF \E i \in 1..n : waiters[i] = <<f, t>> THEN "granted" ELSE task[f][t]
    BY <1>1
  <2> QED BY <2>1, <2>2
<1>7. <<e, s>> \notin W
  BY <1>3, <1>4
<1>8. \A i \in 1..Len(waiters) : (i \in 1..n <=> waiters[i] \in W)
  BY <1>0, <1>2 DEF WaitersAreQueued
<1> HIDE DEF W
<1>9. UNCHANGED execVars
  BY DEF ResumeWithPermit
<1>10. \A f \in Execs, t \in StepIds :
          /\ <<f, t>> \in Holders' <=> <<f, t>> \in Holders \cup W
          /\ <<f, t>> \in Queued' <=> <<f, t>> \in Queued \ W
  <2> SUFFICES ASSUME NEW f \in Execs, NEW t \in StepIds
               PROVE  /\ Holds(f, t)' <=> Holds(f, t) \/ <<f, t>> \in W
                      /\ task'[f][t] = "queued" <=> task[f][t] = "queued" /\ <<f, t>> \notin W
    BY ZenonT(60), Members, MembersPrimed
  <2>1. Parallel(f)' <=> Parallel(f)
    BY <1>9, SameWaves
  <2>2. CASE <<f, t>> = <<e, s>>
    BY <1>3, <1>7, <2>1, <2>2 DEF Holds
  <2>3. CASE <<f, t>> # <<e, s>> /\ <<f, t>> \in W
    BY <1>0, <1>4, <1>6, <2>1, <2>3 DEF Holds, OnlyParallelWaits
  <2>4. CASE <<f, t>> # <<e, s>> /\ <<f, t>> \notin W
    BY <1>6, <2>1, <2>4 DEF Holds
  <2> QED BY <2>2, <2>3, <2>4
<1>11. Holders' = Holders \cup W /\ Queued' = Queued \ W
  BY <1>4, <1>10, PairSets, PairsEqual
<1>12. W \subseteq Queued /\ Holders \cap W = {}
  <2>1. \A f \in Execs, t \in StepIds :
           <<f, t>> \in W => <<f, t>> \in Queued /\ <<f, t>> \notin Holders
    BY <1>4, Members DEF Holds
  <2> QED BY <1>4, <2>1, PairSets
<1>13. Cardinality(Holders') = Cardinality(Holders) + n
  <2>1. Cardinality(Holders \cap W) = 0
    BY <1>12, FS_EmptySet
  <2>2. Cardinality(Holders') = Cardinality(Holders) + Cardinality(W) - 0
    BY <1>5, <1>11, <2>1, FinitePairs, FS_Union
  <2> QED BY <1>1, <1>5, <2>2, FinitePairs
<1>14. Cardinality(Queued') = Cardinality(Queued) - n
  <2>1. Queued \cap W = W
    BY <1>12
  <2> QED BY <1>5, <1>11, <2>1, FinitePairs, FS_Difference
<1>15. {waiters'[i] : i \in DOMAIN waiters'} = Queued'
  <2>1. \A i \in 1..Len(waiters') : i + n \in 1..Len(waiters) /\ i + n \notin 1..n
    BY <1>1, <1>2
  <2>2. \A i \in 1..Len(waiters) : waiters[i] \in Queued
    BY <1>2 DEF PermitIInv, PermitAccounting
  <2>3. \A x \in Queued : \E i \in 1..Len(waiters) : x = waiters[i]
    BY <1>2 DEF PermitIInv, PermitAccounting
  <2>4. \A i \in 1..Len(waiters') : waiters'[i] \in Queued'
    BY <1>1, <1>8, <1>11, <2>1, <2>2
  <2>5. ASSUME NEW x \in Queued' PROVE \E i \in 1..Len(waiters') : x = waiters'[i]
    <3>1. PICK j \in 1..Len(waiters) : x = waiters[j]
      BY <1>11, <2>3
    <3>2. j \notin 1..n
      BY <1>8, <1>11, <3>1
    <3>3. j - n \in 1..Len(waiters') /\ (j - n) + n = j
      BY <1>1, <1>2, <3>2
    <3> QED BY <1>1, <3>1, <3>3
  <2> QED BY <1>2, <2>4, <2>5
<1>16. waiters' # <<>> /\ permits' > 0 => Granted' # {}
  <2> SUFFICES ASSUME waiters' # <<>>, permits' > 0 PROVE \E y : y \in Granted'
    OBVIOUS
  <2>1. n # 0
    <3>1. CASE n = 0
      <4>1. waiters = <<>>
        BY <1>1, <1>2, <3>1
      <4>2. Len(waiters') = 0
        BY <1>1, <3>1, <4>1, EmptySeq
      <4> QED BY <1>1, <4>2, EmptySeq
    <3> QED BY <3>1
  <2>2. 1 \in 1..n /\ 1 \in 1..Len(waiters)
    BY <1>2, <2>1
  <2>3. PICK f \in Execs, t \in StepIds : <<f, t>> = waiters[1]
    BY <1>0, <2>2, WaiterPairs
  <2>4. <<f, t>> \in W /\ <<f, t>> # <<e, s>>
    BY <1>7, <1>8, <2>2, <2>3
  <2>5. task'[f][t] = "granted"
    BY <1>6, <2>4
  <2>6. <<f, t>> \in Granted'
    BY <2>5 DEF Granted
  <2> QED BY <2>6
<1>17. PermitAccounting'
  BY <1>1, <1>2, <1>11, <1>13, <1>14, <1>15, <1>16, FinitePairs
     DEF PermitIInv, PermitAccounting
<1>18. OnlyParallelWaits'
  <2> SUFFICES ASSUME NEW f \in Execs, NEW t \in StepIds,
                      task'[f][t] \in {"spawned", "queued", "granted"}
               PROVE  Parallel(f)
    BY <1>9, SameWaves DEF OnlyParallelWaits
  <2>1. <<f, t>> # <<e, s>>
    BY <1>3
  <2>2. task[f][t] \in {"spawned", "queued", "granted"}
    BY <1>4, <1>6, <2>1
  <2> QED BY <1>0, <2>2 DEF OnlyParallelWaits
<1> QED BY <1>17, <1>18

(* A task that returns hands its permit to the first waiter. *)
LEMMA HandOverAccounts ==
    ASSUME PermitIInv, NEW e \in Execs, NEW s \in StepIds,
           task[e][s] = "executing", Return(e, s), UNCHANGED execVars,
           Parallel(e), waiters # <<>>
    PROVE  OnlyParallelWaits' /\ PermitAccounting'
<1> DEFINE next == Head(waiters)
           g == next[1]
           u == next[2]
<1>1. /\ waiters \in Seq(Execs \X StepIds)
      /\ waiters' = Tail(waiters) /\ permits' = permits
      /\ task' = [task EXCEPT ![e][s] = "returned", ![g][u] = "granted"]
      /\ task \in [Execs -> [StepIds -> TaskStates]]
  BY DEF PermitIInv, IInv, TypeOK, Return
<1>2. /\ waiters' \in Seq(Execs \X StepIds)
      /\ next = waiters[1]
      /\ Len(waiters) \in Nat \ {0}
      /\ Len(waiters') = Len(waiters) - 1
      /\ \A i \in 1..Len(waiters') : waiters'[i] = waiters[i + 1]
      /\ DOMAIN waiters = 1..Len(waiters) /\ DOMAIN waiters' = 1..Len(waiters')
  BY <1>1, HeadTailProperties, EmptySeq, LenProperties
<1>3. g \in Execs /\ u \in StepIds /\ next = <<g, u>> /\ task[g][u] = "queued"
  BY <1>2, WaiterPairs DEF PermitIInv, IInv, WaitersAreQueued
<1>4. <<g, u>> # <<e, s>> /\ Parallel(g)
  BY <1>3 DEF PermitIInv, OnlyParallelWaits
<1> HIDE DEF next, g, u
<1>5. /\ task'[e][s] = "returned" /\ task'[g][u] = "granted"
      /\ \A f \in Execs, t \in StepIds :
            <<f, t>> # <<e, s>> /\ <<f, t>> # <<g, u>> => task'[f][t] = task[f][t]
  BY <1>1, <1>3, <1>4
<1>6. \A f \in Execs, t \in StepIds :
          /\ <<f, t>> \in Holders' <=> <<f, t>> \in (Holders \ {<<e, s>>}) \cup {<<g, u>>}
          /\ <<f, t>> \in Queued' <=> <<f, t>> \in Queued \ {<<g, u>>}
  <2> SUFFICES ASSUME NEW f \in Execs, NEW t \in StepIds
               PROVE  /\ Holds(f, t)' <=> /\ Holds(f, t) \/ <<f, t>> = <<g, u>>
                                          /\ <<f, t>> # <<e, s>>
                      /\ task'[f][t] = "queued" <=> /\ task[f][t] = "queued"
                                                    /\ <<f, t>> # <<g, u>>
    BY <1>4, Members, MembersPrimed
  <2>1. Parallel(f)' <=> Parallel(f)
    BY SameWaves
  <2>2. CASE <<f, t>> = <<e, s>>
    BY <1>4, <1>5, <2>1, <2>2 DEF Holds
  <2>3. CASE <<f, t>> = <<g, u>>
    BY <1>4, <1>5, <2>1, <2>3 DEF Holds
  <2>4. CASE <<f, t>> # <<e, s>> /\ <<f, t>> # <<g, u>>
    BY <1>5, <2>1, <2>4 DEF Holds
  <2> QED BY <2>2, <2>3, <2>4
<1>7. Holders' = (Holders \ {<<e, s>>}) \cup {<<g, u>>} /\ Queued' = Queued \ {<<g, u>>}
  BY <1>3, <1>6, PairSets, PairsEqual
<1>8. <<e, s>> \in Holders /\ <<g, u>> \notin Holders /\ <<g, u>> \in Queued
  BY <1>3, Members DEF Holds
<1>9. Cardinality(Holders') = Cardinality(Holders)
  <2>1. /\ IsFiniteSet(Holders \ {<<e, s>>})
        /\ Cardinality(Holders \ {<<e, s>>}) = Cardinality(Holders) - 1
    BY <1>8, FinitePairs, FS_RemoveElement
  <2>2. <<g, u>> \notin Holders \ {<<e, s>>}
    BY <1>8
  <2>3. Cardinality((Holders \ {<<e, s>>}) \cup {<<g, u>>}) = Cardinality(Holders) - 1 + 1
    BY <2>1, <2>2, FS_AddElement
  <2> QED BY <1>7, <2>3, FinitePairs
<1>10. Cardinality(Queued') = Cardinality(Queued) - 1
  BY <1>7, <1>8, FinitePairs, FS_RemoveElement
<1>11. {waiters'[i] : i \in DOMAIN waiters'} = Queued'
  <2>1. \A i \in 1..Len(waiters') : i + 1 \in 1..Len(waiters) /\ i + 1 # 1
    BY <1>2
  <2>2. \A i \in 1..Len(waiters) : waiters[i] = <<g, u>> => i = 1
    <3>1. 1 \in 1..Len(waiters) /\ waiters[1] = <<g, u>>
      BY <1>2, <1>3
    <3>2. WaitersAreQueued
      BY DEF PermitIInv, IInv
    <3> QED BY <3>1, <3>2 DEF WaitersAreQueued
  <2>3. \A i \in 1..Len(waiters) : waiters[i] \in Queued
    BY <1>2 DEF PermitIInv, PermitAccounting
  <2>4. \A x \in Queued : \E i \in 1..Len(waiters) : x = waiters[i]
    BY <1>2 DEF PermitIInv, PermitAccounting
  <2>5. \A i \in 1..Len(waiters') : waiters'[i] \in Queued'
    BY <1>2, <1>7, <2>1, <2>2, <2>3
  <2>6. ASSUME NEW x \in Queued' PROVE \E i \in 1..Len(waiters') : x = waiters'[i]
    <3>1. PICK j \in 1..Len(waiters) : x = waiters[j]
      BY <1>7, <2>4
    <3>2. j # 1
      BY <1>2, <1>3, <1>7, <3>1
    <3>3. j - 1 \in 1..Len(waiters') /\ waiters'[j - 1] = waiters[(j - 1) + 1]
      BY <1>2, <3>2
    <3> QED BY <3>1, <3>3
  <2> QED BY <1>2, <2>5, <2>6
<1>12. Granted' # {}
  <2>1. <<g, u>> \in Granted'
    BY <1>3, <1>5 DEF Granted
  <2> QED BY <2>1
<1>13. PermitAccounting'
  BY <1>1, <1>2, <1>9, <1>10, <1>11, <1>12, FinitePairs DEF PermitIInv, PermitAccounting
<1>14. OnlyParallelWaits'
  BY <1>4, <1>5, SameWaves DEF PermitIInv, OnlyParallelWaits
<1> QED BY <1>13, <1>14

(* A task that returns when nobody waits, or that never had a permit. *)
LEMMA GiveBackAccounts ==
    ASSUME PermitIInv, NEW e \in Execs, NEW s \in StepIds,
           task[e][s] = "executing", Return(e, s), UNCHANGED execVars,
           ~(Parallel(e) /\ waiters # <<>>)
    PROVE  OnlyParallelWaits' /\ PermitAccounting'
<1>1. /\ task'[e][s] = "returned" /\ waiters' = waiters /\ permits \in Nat
      /\ permits' = IF Parallel(e) THEN permits + 1 ELSE permits
      /\ \A f \in Execs, t \in StepIds : <<f, t>> # <<e, s>> => task'[f][t] = task[f][t]
      /\ \A f \in Execs : Parallel(f)' <=> Parallel(f)
  BY SameWaves DEF PermitIInv, IInv, TypeOK, Return, SetTask
<1>2. OnlyParallelWaits'
  BY <1>1 DEF PermitIInv, OnlyParallelWaits
<1>3. CASE ~Parallel(e)
  <2>1. UNCHANGED semVars
    BY <1>1, <1>3 DEF semVars
  <2>2. \A f \in Execs, t \in StepIds :
          /\ Holds(f, t)' <=> Holds(f, t)
          /\ task'[f][t] = "queued" <=> task[f][t] = "queued"
          /\ task[f][t] = "granted" => task'[f][t] = "granted"
    BY <1>1, <1>3 DEF Holds
  <2> QED BY <1>2, <2>1, <2>2, PermitsUntouched DEF PermitIInv
<1>4. CASE Parallel(e)
  <2>1. \A f \in Execs, t \in StepIds :
          /\ <<f, t>> \in Holders' <=> <<f, t>> \in Holders \ {<<e, s>>}
          /\ <<f, t>> \in Queued' <=> <<f, t>> \in Queued
    BY ZenonT(60), <1>1, Members, MembersPrimed DEF Holds
  <2>2. Holders' = Holders \ {<<e, s>>} /\ Queued' = Queued
    BY <2>1, PairSets, PairsEqual
  <2>3. <<e, s>> \in Holders
    BY <1>4, Members DEF Holds
  <2>4. Cardinality(Holders') = Cardinality(Holders) - 1
    BY <2>2, <2>3, FinitePairs, FS_RemoveElement
  <2>5. waiters = <<>>
    BY <1>4
  <2> QED BY <1>1, <1>2, <1>4, <2>2, <2>4, <2>5, FinitePairs DEF PermitIInv, PermitAccounting
<1> QED BY <1>3, <1>4

LEMMA StepPermits ==
    ASSUME PermitIInv, NEW e \in Execs, NEW s \in StepIds, StepTask(e, s)
    PROVE  OnlyParallelWaits' /\ PermitAccounting'
<1>1. CASE HandlerSucceeds(e, s) \/ FailForGood(e, s)
  <2>1. task[e][s] = "executing" /\ Return(e, s) /\ UNCHANGED execVars
    BY <1>1 DEF HandlerSucceeds, FailForGood
  <2> QED BY <2>1, HandOverAccounts, GiveBackAccounts
<1> QED BY <1>1, AcquirePermitAccounts, AwaitPermitAccounts, KeepPermitAccounts,
           ResumeAccounts
        DEF StepTask, Handler

-----------------------------------------------------------------------------
(* The shared semaphore neither leaks nor mints a permit and loses no      *)
(* wakeup, whatever the requests, their plans and their failures.          *)
THEOREM PermitsAccounted == Spec => []PermitAccounting
<1>1. Init => OnlyParallelWaits /\ PermitAccounting
  BY InitPermits
<1>2. IInv /\ OnlyParallelWaits /\ PermitAccounting /\ [Next]_vars
        => OnlyParallelWaits' /\ PermitAccounting'
  <2> SUFFICES ASSUME PermitIInv, [Next]_vars
               PROVE  OnlyParallelWaits' /\ PermitAccounting'
    BY DEF PermitIInv
  <2>1. ASSUME NEW e \in Execs, Start(e) \/ Coroutine(e)
        PROVE  OnlyParallelWaits' /\ PermitAccounting'
    BY <2>1, CoroutinePermits
  <2>2. ASSUME NEW e \in Execs, NEW s \in StepIds, StepTask(e, s)
        PROVE  OnlyParallelWaits' /\ PermitAccounting'
    BY <2>2, StepPermits
  <2>3. CASE UNCHANGED vars
    BY <2>3 DEF vars, execVars, stepVars, semVars, PermitIInv, OnlyParallelWaits,
       PermitAccounting, Holders, Queued, Granted, Parallel
  <2> QED BY <2>1, <2>2, <2>3 DEF Next, Served
<1> QED BY <1>1, <1>2, InductiveInvariant, PTL DEF Spec

-----------------------------------------------------------------------------
(* The attempt counts that all executions share. *)
Counted == RetryAccounting /\ \A s \in StepIds : IsFiniteSet(Retries(s))

LEMMA RetryMembers ==
    ASSUME NEW s, NEW x
    PROVE  x \in Retries(s) <=>
              \E e \in Execs : \E n \in 1..retryCount[e][s] : x = <<e, n>>
BY DEF Retries

LEMMA RetryMembersPrimed ==
    ASSUME NEW s, NEW x
    PROVE  x \in Retries(s)' <=>
              \E e \in Execs : \E n \in 1..retryCount'[e][s] : x = <<e, n>>
BY DEF Retries

LEMMA GaveUpFinite ==
    ASSUME NEW s
    PROVE  IsFiniteSet(GaveUp(s)) /\ Cardinality(GaveUp(s)) \in Nat
<1>1. GaveUp(s) \in SUBSET Execs
  BY DEF GaveUp
<1>2. IsFiniteSet(GaveUp(s))
  BY <1>1, ExecsFinite, FS_Subset
<1> QED BY <1>2, FS_CardinalityType

(* A step that records no attempt and neither fails nor unfails a step. *)
LEMMA CountsUntouched ==
    ASSUME Counted, UNCHANGED <<retryCount, attempts>>,
           \A e \in Execs, s \in StepIds :
              stepState'[e][s] = "FAILED" <=> stepState[e][s] = "FAILED"
    PROVE  Counted'
<1>1. ASSUME NEW s \in StepIds PROVE Retries(s)' = Retries(s) /\ GaveUp(s)' = GaveUp(s)
  BY DEF Retries, GaveUp, Failed
<1> QED BY <1>1 DEF Counted, RetryAccounting

LEMMA InitCounts ==
    ASSUME Init
    PROVE  Counted
<1>1. ASSUME NEW s \in StepIds PROVE Retries(s) = {} /\ GaveUp(s) = {} /\ attempts[s] = 0
  <2>1. \A x : x \notin Retries(s)
    BY RetryMembers DEF Init
  <2> QED BY <2>1 DEF Init, GaveUp, Failed
<1> QED BY <1>1, FS_EmptySet, MaxRetriesAssumption DEF Counted, RetryAccounting

(* One more retry, while the count shows that one is left. *)
LEMMA RetryCounts ==
    ASSUME IInv, Counted, NEW e \in Execs, NEW s \in StepIds, RetryAfterFailure(e, s)
    PROVE  Counted'
<1>1. /\ attempts[s] \in Nat /\ attempts[s] < MaxRetries
      /\ retryCount[e][s] \in Nat
      /\ attempts' = [attempts EXCEPT ![s] = attempts[s] + 1]
      /\ retryCount' = [retryCount EXCEPT ![e][s] = retryCount[e][s] + 1]
      /\ attempts \in [StepIds -> Nat]
      /\ retryCount \in [Execs -> [StepIds -> Nat]]
  BY DEF IInv, TypeOK, RetryAfterFailure, ShouldRetry, RecordAttempt
<1>2. /\ attempts'[s] = attempts[s] + 1
      /\ \A t \in StepIds \ {s} : attempts'[t] = attempts[t]
      /\ retryCount'[e][s] = retryCount[e][s] + 1
      /\ \A f \in Execs, t \in StepIds :
            <<f, t>> # <<e, s>> => retryCount'[f][t] = retryCount[f][t]
  BY <1>1
<1>3. ASSUME NEW t \in StepIds PROVE GaveUp(t)' = GaveUp(t)
  <2>1. \A f \in Execs : stepState'[f][t] = "FAILED" <=> stepState[f][t] = "FAILED"
    BY DEF IInv, TypeOK, TaskMatchesState, RetryAfterFailure, SetState
  <2> QED BY <2>1 DEF GaveUp, Failed
<1>4. ASSUME NEW t \in StepIds \ {s} PROVE Retries(t)' = Retries(t)
  <2>1. \A f \in Execs : retryCount'[f][t] = retryCount[f][t]
    BY <1>2
  <2> QED BY <2>1 DEF Retries
<1> DEFINE n == retryCount[e][s] + 1
<1>5. Retries(s)' = Retries(s) \cup {<<e, n>>} /\ <<e, n>> \notin Retries(s)
  <2>1. 1..retryCount'[e][s] = 1..retryCount[e][s] \cup {n} /\ n \notin 1..retryCount[e][s]
    <3>1. \A k \in Nat : 1..(k + 1) = 1..k \cup {k + 1} /\ k + 1 \notin 1..k
      OBVIOUS
    <3>2. retryCount'[e][s] = n /\ retryCount[e][s] \in Nat
      BY <1>1, <1>2
    <3> QED BY <3>1, <3>2
  <2>2. <<e, n>> \notin Retries(s)
    BY <2>1, RetryMembers
  <2>3. \A f \in Execs \ {e} : retryCount'[f][s] = retryCount[f][s]
    BY <1>2
  <2> HIDE DEF n
  <2>4. \A x : x \in Retries(s)' <=> x \in Retries(s) \/ x = <<e, n>>
    BY <2>1, <2>3, RetryMembers, RetryMembersPrimed
  <2> QED BY <2>2, <2>4
<1> HIDE DEF n
<1>6. IsFiniteSet(Retries(s)) /\ Cardinality(Retries(s)) \in Nat
  BY FS_CardinalityType DEF Counted
<1>7. IsFiniteSet(Retries(s)') /\ Cardinality(Retries(s)') = Cardinality(Retries(s)) + 1
  <2>1. /\ IsFiniteSet(Retries(s) \cup {<<e, n>>})
        /\ Cardinality(Retries(s) \cup {<<e, n>>}) = Cardinality(Retries(s)) + 1
    BY <1>5, <1>6, FS_AddElement
  <2> QED BY <1>5, <2>1
<1>8. Cardinality(Retries(s)') <= MaxRetries
  BY <1>1, <1>6, <1>7, GaveUpFinite, MaxRetriesAssumption DEF Counted, RetryAccounting
<1>9. attempts'[s] = Cardinality(Retries(s)') + Cardinality(GaveUp(s)')
  BY <1>2, <1>3, <1>6, <1>7, GaveUpFinite DEF Counted, RetryAccounting
<1>10. ASSUME NEW t \in StepIds
       PROVE  /\ attempts'[t] = Cardinality(Retries(t)') + Cardinality(GaveUp(t)')
              /\ Cardinality(Retries(t)') <= MaxRetries
              /\ IsFiniteSet(Retries(t)')
  <2>1. CASE t = s
    BY <1>7, <1>8, <1>9, <2>1
  <2>2. CASE t # s
    BY <1>2, <1>3, <1>4, <2>2 DEF Counted, RetryAccounting
  <2> QED BY <2>1, <2>2
<1> QED BY <1>10 DEF Counted, RetryAccounting

(* One more execution has given the step up. *)
LEMMA FailureCounts ==
    ASSUME IInv, Counted, NEW e \in Execs, NEW s \in StepIds, FailForGood(e, s)
    PROVE  Counted'
<1>1. /\ attempts'[s] = attempts[s] + 1
      /\ \A t \in StepIds \ {s} : attempts'[t] = attempts[t]
      /\ retryCount' = retryCount
      /\ stepState[e][s] # "FAILED" /\ stepState'[e][s] = "FAILED"
      /\ \A f \in Execs, t \in StepIds :
            <<f, t>> # <<e, s>> => stepState'[f][t] = stepState[f][t]
  BY DEF IInv, TypeOK, TaskMatchesState, FailForGood, RecordAttempt, SetState
<1>2. ASSUME NEW t \in StepIds PROVE Retries(t)' = Retries(t)
  BY <1>1 DEF Retries
<1>3. ASSUME NEW t \in StepIds \ {s} PROVE GaveUp(t)' = GaveUp(t)
  BY <1>1 DEF GaveUp, Failed
<1>4. GaveUp(s)' = GaveUp(s) \cup {e} /\ e \notin GaveUp(s)
  BY <1>1 DEF GaveUp, Failed
<1>5. Cardinality(GaveUp(s)') = Cardinality(GaveUp(s)) + 1
  BY <1>4, GaveUpFinite, FS_AddElement
<1>6. Cardinality(Retries(s)) \in Nat
  BY FS_CardinalityType DEF Counted
<1>7. ASSUME NEW t \in StepIds
      PROVE  /\ attempts'[t] = Cardinality(Retries(t)') + Cardinality(GaveUp(t)')
             /\ Cardinality(Retries(t)') <= MaxRetries
             /\ IsFiniteSet(Retries(t)')
  <2>1. CASE t = s
    BY <1>1, <1>2, <1>5, <1>6, <2>1, GaveUpFinite DEF Counted, RetryAccounting
  <2>2. CASE t # s
    BY <1>1, <1>2, <1>3, <2>2 DEF Counted, RetryAccounting
  <2> QED BY <2>1, <2>2
<1> QED BY <1>7 DEF Counted, RetryAccounting

LEMMA CoroutineCounts ==
    ASSUME IInv, Counted, NEW e \in Execs, Start(e) \/ Coroutine(e)
    PROVE  Counted'
<1>1. UNCHANGED <<retryCount, attempts>>
  BY DEF Start, Coroutine, StartSequential, StartParallel, JoinWave, AbortPlan, Complete,
     stepVars
<1>2. CASE UNCHANGED stepState
  BY <1>1, <1>2, CountsUntouched
<1>3. CASE StartSequential(e)
  <2>1. \A t \in NextWave(plan[e], placed[e]) : t \notin placed[e]
    BY DEF NextWave
  <2>2. \A t \in StepIds : t \in NextWave(plan[e], placed[e]) => stepState[e][t] # "FAILED"
    BY <2>1 DEF IInv, WavesInOrder, TaskMatchesState
  <2>3. \A f \in Execs, t \in StepIds :
           stepState'[f][t] = IF f = e /\ t \in NextWave(plan[e], placed[e])
                              THEN "RUNNING" ELSE stepState[f][t]
    BY <1>3 DEF StartSequential, IInv, TypeOK
  <2> QED BY <1>1, <2>2, <2>3, CountsUntouched
<1>4. CASE AbortPlan(e)
  <2>1. \A t \in StepIds : t \in Remaining(e) => stepState[e][t] # "FAILED"
    BY DEF IInv, WavesInOrder, TaskMatchesState, Remaining
  <2>2. \A f \in Execs, t \in StepIds :
           stepState'[f][t] = IF f = e /\ t \in Remaining(e)
                              THEN "CANCELLED" ELSE stepState[f][t]
    BY <1>4 DEF AbortPlan, IInv, TypeOK
  <2> QED BY <1>1, <2>1, <2>2, CountsUntouched
<1> QED BY <1>2, <1>3, <1>4 DEF Coroutine, Start, StartParallel, JoinWave, Complete, stepVars

LEMMA StepCounts ==
    ASSUME IInv, Counted, NEW e \in Execs, NEW s \in StepIds, StepTask(e, s)
    PROVE  Counted'
<1>1. CASE AwaitPermit(e, s) \/ BackoffOver(e, s)
  BY <1>1, CountsUntouched DEF AwaitPermit, BackoffOver
<1>2. CASE AcquirePermit(e, s) \/ ResumeWithPermit(e, s) \/ HandlerSucceeds(e, s)
  <2>1. UNCHANGED <<retryCount, attempts>>
    BY <1>2 DEF AcquirePermit, ResumeWithPermit, HandlerSucceeds
  <2>2. stepState[e][s] # "FAILED"
    BY <1>2 DEF AcquirePermit, ResumeWithPermit, HandlerSucceeds, IInv, TaskMatchesState
  <2>3. \E state \in {"RUNNING", "COMPLETED"} :
           stepState' = [stepState EXCEPT ![e][s] = state]
    BY <1>2 DEF AcquirePermit, ResumeWithPermit, HandlerSucceeds, Execute, SetState
  <2>4. \A f \in Execs, t \in StepIds :
           stepState'[f][t] = "FAILED" <=> stepState[f][t] = "FAILED"
    BY <2>2, <2>3 DEF IInv, TypeOK
  <2> QED BY <2>1, <2>4, CountsUntouched
<1> QED BY <1>1, <1>2, RetryCounts, FailureCounts DEF StepTask, Handler

(* The attempt counts of the shared RetryManager are exactly the retries   *)
(* and the failures of all executions, and max_retries bounds the retries  *)
(* that they have of one step id together.                                 *)
THEOREM RetriesAccounted == Spec => []RetryAccounting
<1>1. Init => Counted
  BY InitCounts
<1>2. IInv /\ Counted /\ [Next]_vars => Counted'
  <2> SUFFICES ASSUME IInv, Counted, [Next]_vars PROVE Counted'
    OBVIOUS
  <2>1. ASSUME UNCHANGED vars PROVE Counted'
    BY <2>1, CountsUntouched DEF vars, stepVars
  <2> QED BY <2>1, CoroutineCounts, StepCounts DEF Next, Served
<1>3. Counted => RetryAccounting
  BY DEF Counted
<1> QED BY <1>1, <1>2, <1>3, InductiveInvariant, PTL DEF Spec

-----------------------------------------------------------------------------
(* Requests do not wait for each other in a circle. *)

(* The task can go on by itself: begin, or ask for a permit, or take the   *)
(* one it was handed, or have its handler answer, or end its backoff.  A   *)
(* queued task cannot: it goes on when somebody returns.                   *)
CanGoOn(e, s) == task[e][s] \in {"spawned", "granted", "executing", "backoff"}

(* The run of an execution: its coroutine is ready, or its wave returned. *)
CoroutineReady(e) == phase[e] = "ready" \/ WaveReturned(e)

(* No request in progress is stuck: its coroutine is ready, or a task of   *)
(* its own can go on, or its tasks queue, all permits that are out are     *)
(* with tasks that can go on, and either none is left or one of those      *)
(* tasks has been granted its permit and wakes others when it resumes.     *)
NobodyStuck ==
    \A e \in Execs : phase[e] \in {"ready", "running"} =>
        \/ CoroutineReady(e)
        \/ \E s \in wave[e] : CanGoOn(e, s)
        \/ /\ \E s \in wave[e] : task[e][s] = "queued"
           /\ Cardinality(Holders) = MaxConcurrency \/ Granted # {}
           /\ \A x \in Holders : CanGoOn(x[1], x[2])

LEMMA StuckNowhere ==
    ASSUME OutcomeIInv, PermitAccounting
    PROVE  NobodyStuck
<1> SUFFICES ASSUME NEW e \in Execs, phase[e] = "running", ~WaveReturned(e),
                    \A s \in wave[e] : ~CanGoOn(e, s)
             PROVE  /\ \E s \in wave[e] : task[e][s] = "queued"
                    /\ Cardinality(Holders) = MaxConcurrency \/ Granted # {}
                    /\ \A x \in Holders : CanGoOn(x[1], x[2])
  BY DEF NobodyStuck, CoroutineReady
<1>1. PICK s \in wave[e] : task[e][s] # "returned"
  BY DEF WaveReturned
<1>2. s \in StepIds /\ s \in placed[e]
  BY <1>1 DEF OutcomeIInv, IInv, TypeOK, WavesInOrder
<1>3. task[e][s] # "none" /\ task[e][s] \in TaskStates
  BY <1>2 DEF OutcomeIInv, IInv, TypeOK, SettledWhenOver
<1>4. task[e][s] = "queued"
  BY <1>1, <1>3 DEF TaskStates, CanGoOn
<1>5. <<e, s>> \in Queued
  BY <1>2, <1>4, Members
<1>6. waiters # <<>>
  BY <1>5 DEF PermitAccounting
<1>7. Cardinality(Holders) = MaxConcurrency \/ Granted # {}
  <2>1. permits \in Nat
    BY DEF OutcomeIInv, IInv, TypeOK
  <2> QED BY <1>6, <2>1, FinitePairs DEF PermitAccounting
<1>8. \A x \in Holders : CanGoOn(x[1], x[2])
  BY DEF Holders, CanGoOn
<1> QED BY <1>1, <1>4, <1>7, <1>8

(* Whatever the plans, the failures and the number of permits, requests    *)
(* that share the semaphore never wait for each other in a circle: a wave  *)
(* whose tasks all queue waits for tasks that queue for nothing.           *)
THEOREM NobodyWaitsInACircle == Spec => []NobodyStuck
<1>1. OutcomeIInv /\ PermitAccounting => NobodyStuck
  BY StuckNowhere
<1> QED BY <1>1, OutcomeInvariant, PermitsAccounted, PTL
===============================================================================
