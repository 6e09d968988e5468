---------------------------- MODULE RecoveryProofs ----------------------------
(***************************************************************************)
(* Proofs about BrainRecovery, for any requests, plans, fallback models,   *)
(* number of rounds and depth of the interpreter's stack.                  *)
(***************************************************************************)
EXTENDS BrainRecovery, FiniteSetTheorems, SequenceTheorems, TLAPS

Waiting == {"recovering", "reflecting"}
States  == {"RUNNING", "REPLANNING", "COMPLETED", "FAILED"}

(* The plans that replanning comes to and the sets of steps that fail are  *)
(* of no concern here: some sets P and U hold those that have occurred.    *)
CallSet(P, U) ==
    [id : Nat, plan : P, ok : U, failed : U, state : States, stage : Stages]

Typed(P, U) ==
    /\ stack \in [Requests -> Seq(CallSet(P, U))]
    /\ reply \in [Requests -> [by : Nat, content : Contents]]
    /\ started \in [Requests -> Nat]
    /\ reported \in [Requests -> Nat]
    /\ ended \in [Requests -> {"no", "answered", "crashed"}]
    /\ reflectionCount \in 0..MaxRounds
    /\ turn \in Requests \cup {Nobody}

(* The calls of a request wait for each other, the innermost one for the   *)
(* scheduler unless the request has the turn. *)
Nested(q) ==
    LET n == Len(stack[q])
    IN  /\ n <= RecursionLimit
        /\ \A i \in 1..(n - 1) : stack[q][i].stage \in Waiting
        /\ n > 0 => stack[q][n].stage \in Stages \ Waiting
        /\ n > 0 /\ turn # q => stack[q][n].stage = "scheduled"
        /\ turn = q => n > 0
        /\ ended[q] # "no" => n = 0

(* Executions without a report are those still open. *)
Accounted(q) ==
    IF ended[q] = "crashed" THEN reported[q] < started[q]
    ELSE started[q] = reported[q] + Len(stack[q])

(* The innermost call is the execution started last; once it is past the   *)
(* scheduler and has a response, that response is of the last execution,   *)
(* be it its own or that of a call it made. *)
Answers(q) ==
    LET n == Len(stack[q])
    IN  /\ ended[q] = "answered" => reply[q].by = started[q]
        /\ n > 0 /\ stack[q][n].stage \in {"scheduled", "returned"} =>
              stack[q][n].id = started[q]
        /\ n > 0 /\ stack[q][n].stage \in {"evaluating", "finishing"} =>
              reply[q].by = started[q]

Sane(q) == Nested(q) /\ Accounted(q) /\ Answers(q)

IInv == (\E P, U : Typed(P, U)) /\ \A q \in Requests : Sane(q)

-----------------------------------------------------------------------------
(* Stacks of calls. *)
LEMMA Lengths ==
    ASSUME NEW S, NEW s \in Seq(S)
    PROVE  /\ Len(s) \in Nat /\ (s # <<>> <=> Len(s) > 0)
           /\ \A i \in 1..Len(s) : s[i] \in S
OBVIOUS

LEMMA Pushed ==
    ASSUME NEW S, NEW s \in Seq(S), NEW c \in S
    PROVE  /\ Append(s, c) \in Seq(S)
           /\ Len(Append(s, c)) = Len(s) + 1
           /\ Append(s, c)[Len(s) + 1] = c
           /\ \A i \in 1..Len(s) : Append(s, c)[i] = s[i]
OBVIOUS

LEMMA Fronted ==
    ASSUME NEW S, NEW s \in Seq(S), s # <<>>
    PROVE  /\ Front(s) \in Seq(S)
           /\ Len(Front(s)) = Len(s) - 1
           /\ \A i \in 1..(Len(s) - 1) : Front(s)[i] = s[i]
<1> DEFINE n == Len(s) - 1
<1>1. n \in Int /\ 0 <= n /\ \A i \in 1..n : s[i] \in S
    OBVIOUS
<1>2. Front(s) = SubSeq(s, 1, n)
    BY DEF Front
<1> HIDE DEF n
<1>3. /\ SubSeq(s, 1, n) \in Seq(S)
      /\ Len(SubSeq(s, 1, n)) = IF 1 <= n THEN n - 1 + 1 ELSE 0
      /\ \A i \in 1..(n - 1 + 1) : SubSeq(s, 1, n)[i] = s[1 + i - 1]
    BY <1>1, SubSeqProperties
<1>4. Front(s) \in Seq(S) /\ Len(Front(s)) = n /\ \A i \in 1..n : Front(s)[i] = s[i]
    BY <1>1, <1>2, <1>3
<1> QED BY <1>4 DEF n

LEMMA PlaceReplaced ==
    ASSUME NEW S, NEW s \in Seq(S), NEW m \in 1..Len(s), NEW c \in S
    PROVE  /\ [s EXCEPT ![m] = c] \in Seq(S)
           /\ Len([s EXCEPT ![m] = c]) = Len(s)
           /\ [s EXCEPT ![m] = c][m] = c
           /\ \A i \in 1..Len(s) : i # m => [s EXCEPT ![m] = c][i] = s[i]
OBVIOUS

LEMMA TopReplaced ==
    ASSUME NEW S, NEW s \in Seq(S), s # <<>>, NEW c \in S
    PROVE  /\ Append(Front(s), c) \in Seq(S)
           /\ Len(Append(Front(s), c)) = Len(s)
           /\ Append(Front(s), c)[Len(s)] = c
           /\ \A i \in 1..(Len(s) - 1) : Append(Front(s), c)[i] = s[i]
<1>1. Len(s) \in Nat /\ Len(s) > 0
    BY Lengths
<1> DEFINE f == Front(s)
<1>2. f \in Seq(S) /\ Len(f) = Len(s) - 1 /\ \A i \in 1..(Len(s) - 1) : f[i] = s[i]
    BY Fronted
<1> HIDE DEF f
<1>3. /\ Append(f, c) \in Seq(S) /\ Len(Append(f, c)) = Len(f) + 1
      /\ Append(f, c)[Len(f) + 1] = c /\ \A i \in 1..Len(f) : Append(f, c)[i] = f[i]
    BY <1>2, Pushed
<1>4. Len(f) + 1 = Len(s)
    BY <1>1, <1>2
<1>5. Append(f, c) \in Seq(S) /\ Len(Append(f, c)) = Len(s) /\ Append(f, c)[Len(s)] = c
    BY <1>3, <1>4
<1>6. \A i \in 1..(Len(s) - 1) : Append(f, c)[i] = s[i]
    BY <1>1, <1>2, <1>3
<1> QED BY <1>5, <1>6 DEF f

(* More plans and results in the account of types. *)
LEMMA TypedWidens ==
    ASSUME NEW P, NEW U, NEW Q, NEW V, P \subseteq Q, U \subseteq V, Typed(P, U)
    PROVE  Typed(Q, V)
<1>1. CallSet(P, U) \subseteq CallSet(Q, V)
    BY DEF CallSet
<1>2. Seq(CallSet(P, U)) \subseteq Seq(CallSet(Q, V))
    BY <1>1, SeqMonotonic
<1>3. stack \in [Requests -> Seq(CallSet(Q, V))]
    BY <1>2 DEF Typed
<1> QED BY <1>3 DEF Typed

(* The innermost call of a request that has the turn. *)
LEMMA TopOf ==
    ASSUME NEW P, NEW U, Typed(P, U), NEW r \in Requests, stack[r] # <<>>
    PROVE  /\ Len(stack[r]) \in Nat \ {0}
           /\ Top(r) = stack[r][Len(stack[r])]
           /\ Top(r) \in CallSet(P, U)
<1>1. stack[r] \in Seq(CallSet(P, U))
    BY DEF Typed
<1>2. Len(stack[r]) \in Nat /\ Len(stack[r]) > 0
    BY <1>1, Lengths
<1>3. Top(r) = stack[r][Len(stack[r])]
    BY DEF Top, Last
<1> QED BY <1>1, <1>2, <1>3, Lengths

LEMMA HasTurn ==
    ASSUME IInv, NEW r \in Requests, turn = r
    PROVE  stack[r] # <<>> /\ ended[r] = "no"
<1>1. PICK P, U : Typed(P, U)
    BY DEF IInv
<1>2. stack[r] \in Seq(CallSet(P, U)) /\ ended[r] \in {"no", "answered", "crashed"}
    BY <1>1 DEF Typed
<1>3. Len(stack[r]) > 0 /\ (ended[r] # "no" => Len(stack[r]) = 0)
    BY DEF IInv, Sane, Nested
<1>4. Len(stack[r]) \in Nat
    BY <1>2, Lengths
<1> QED BY <1>2, <1>3, <1>4, Lengths

-----------------------------------------------------------------------------
(* A request that does not take the step. *)
LEMMA OthersSane ==
    ASSUME NEW q \in Requests, Sane(q), turn # q, turn' # q,
           stack'[q] = stack[q], reply'[q] = reply[q], started'[q] = started[q],
           reported'[q] = reported[q], ended'[q] = ended[q]
    PROVE  Sane(q)'
BY DEF Sane, Nested, Accounted, Answers

LEMMA SplitRequests ==
    ASSUME NEW r \in Requests, Sane(r)', \A q \in Requests \ {r} : Sane(q)',
           NEW P, NEW U, Typed(P, U)'
    PROVE  IInv'
BY DEF IInv

LEMMA OthersKept ==
    ASSUME IInv, NEW r \in Requests, turn \in {r, Nobody}, turn' \in {r, Nobody},
           \A q \in Requests \ {r} :
              /\ stack'[q] = stack[q] /\ reply'[q] = reply[q]
              /\ started'[q] = started[q] /\ reported'[q] = reported[q]
              /\ ended'[q] = ended[q]
    PROVE  \A q \in Requests \ {r} : Sane(q)'
<1> SUFFICES ASSUME NEW q \in Requests \ {r} PROVE Sane(q)'
    OBVIOUS
<1>1. turn # q /\ turn' # q
    BY NobodyAssumption
<1>2. Sane(q)
    BY DEF IInv
<1> QED BY <1>1, <1>2, OthersSane

(* The innermost call of a request changes, and nothing else of its stack. *)
LEMMA TopChanged ==
    ASSUME NEW P, NEW U, NEW V, U \subseteq V, Typed(P, U), NEW r \in Requests,
           stack[r] # <<>>, NEW c \in CallSet(P, V)
    PROVE  /\ WithTop(r, c) \in Seq(CallSet(P, V))
           /\ Len(WithTop(r, c)) = Len(stack[r])
           /\ WithTop(r, c)[Len(stack[r])] = c
           /\ \A i \in 1..(Len(stack[r]) - 1) : WithTop(r, c)[i] = stack[r][i]
<1>1. stack \in [Requests -> Seq(CallSet(P, V))]
    BY TypedWidens DEF Typed
<1> DEFINE s == stack[r]
<1> HIDE DEF s
<1>2. /\ Append(Front(s), c) \in Seq(CallSet(P, V)) /\ Len(Append(Front(s), c)) = Len(s)
      /\ Append(Front(s), c)[Len(s)] = c
      /\ \A i \in 1..(Len(s) - 1) : Append(Front(s), c)[i] = s[i]
    <2>1. s \in Seq(CallSet(P, V)) /\ s # <<>>
        BY <1>1 DEF s
    <2> QED BY <2>1, TopReplaced
<1> QED BY <1>2 DEF s, WithTop

(* The calls over which execute_plan is called again all wait. *)
LEMMA CallsWait ==
    ASSUME NEW P, NEW U, Typed(P, U), NEW r \in Requests, Sane(r),
           stack[r] # <<>>, NEW c \in CallSet(P, U), c.stage \in Waiting
    PROVE  /\ WithTop(r, c) \in Seq(CallSet(P, U))
           /\ Len(WithTop(r, c)) = Len(stack[r])
           /\ \A i \in 1..Len(stack[r]) : WithTop(r, c)[i].stage \in Waiting
<1>1. /\ WithTop(r, c) \in Seq(CallSet(P, U)) /\ Len(WithTop(r, c)) = Len(stack[r])
      /\ WithTop(r, c)[Len(stack[r])] = c
      /\ \A i \in 1..(Len(stack[r]) - 1) : WithTop(r, c)[i] = stack[r][i]
    BY TopChanged
<1>2. \A i \in 1..(Len(stack[r]) - 1) : stack[r][i].stage \in Waiting
    BY DEF Sane, Nested
<1>3. Len(stack[r]) \in Nat
    BY TopOf
<1>4. ASSUME NEW i \in 1..Len(stack[r]) PROVE WithTop(r, c)[i].stage \in Waiting
    <2>1. CASE i = Len(stack[r])
        BY <2>1, <1>1
    <2>2. CASE i # Len(stack[r])
        <3>1. i \in 1..(Len(stack[r]) - 1)
            BY <2>2, <1>3
        <3> QED BY <3>1, <1>1, <1>2
    <2> QED BY <2>1, <2>2
<1> QED BY <1>1, <1>4

-----------------------------------------------------------------------------
(* execute_plan is called, with success or not. *)
LEMMA ExecutePlanKeeps ==
    ASSUME IInv, NEW P, NEW U, Typed(P, U), NEW r \in Requests,
           ended[r] = "no", turn \in {r, Nobody},
           NEW calls \in Seq(CallSet(P, U)), Len(calls) = Len(stack[r]),
           \A i \in 1..Len(calls) : calls[i].stage \in Waiting,
           NEW p, NEW count, ExecutePlan(r, calls, p, count)
    PROVE  IInv'
<1> DEFINE Q == P \cup {p}
<1> DEFINE V == U \cup {{}}
<1> DEFINE new == Call(started[r] + 1, p)
<1> DEFINE n == Len(calls)
<1>1. /\ n < RecursionLimit /\ turn' = Nobody /\ reflectionCount' = 0
      /\ stack' = [stack EXCEPT ![r] = Append(calls, new)]
      /\ started' = [started EXCEPT ![r] = started[r] + 1]
      /\ reply' = reply /\ reported' = reported /\ ended' = ended
    BY DEF ExecutePlan, Reset
<1>2. P \subseteq Q /\ U \subseteq V /\ p \in Q /\ {} \in V
    OBVIOUS
<1> HIDE DEF Q, V
<1>3. CallSet(P, U) \subseteq CallSet(Q, V)
    BY <1>2 DEF CallSet
<1>4. started[r] \in Nat /\ reported[r] \in Nat /\ ended[r] = "no"
    BY DEF Typed
<1>5. new \in CallSet(Q, V) /\ new.stage = "scheduled" /\ new.id = started[r] + 1
    BY <1>2, <1>4 DEF Call, CallSet, States, Stages
<1> HIDE DEF new
<1>6. calls \in Seq(CallSet(Q, V)) /\ n \in Nat
    BY <1>3, SeqMonotonic, Lengths
<1>7. /\ Append(calls, new) \in Seq(CallSet(Q, V)) /\ Len(Append(calls, new)) = n + 1
      /\ Append(calls, new)[n + 1] = new
      /\ \A i \in 1..n : Append(calls, new)[i] = calls[i]
    BY <1>5, <1>6, Pushed
<1>8. Typed(Q, V)
    BY <1>2, TypedWidens
<1>9. /\ stack'[r] = Append(calls, new) /\ started'[r] = started[r] + 1
      /\ \A q \in Requests \ {r} : stack'[q] = stack[q] /\ started'[q] = started[q]
    BY <1>1, <1>8 DEF Typed
<1>10. Typed(Q, V)'
    <2>1. stack' \in [Requests -> Seq(CallSet(Q, V))]
        BY <1>1, <1>7, <1>8 DEF Typed
    <2>2. started' \in [Requests -> Nat]
        BY <1>1, <1>4, <1>8 DEF Typed
    <2> QED BY <1>1, <1>8, <2>1, <2>2, MaxRoundsAssumption DEF Typed
<1>11. Sane(r)'
    <2>1. Len(stack'[r]) = n + 1 /\ stack'[r][n + 1] = new
          /\ \A i \in 1..n : stack'[r][i].stage \in Waiting
        BY <1>7, <1>9
    <2>2. Nested(r)'
        BY <1>1, <1>4, <1>5, <1>6, <2>1, NobodyAssumption, LimitAssumption
           DEF Nested, Stages, Waiting
    <2>3. Accounted(r)'
        BY <1>1, <1>4, <1>6, <1>9, <2>1 DEF IInv, Sane, Accounted
    <2>4. Answers(r)'
        BY <1>1, <1>4, <1>5, <1>6, <1>9, <2>1 DEF Answers
    <2> QED BY <2>2, <2>3, <2>4 DEF Sane
<1>12. \A q \in Requests \ {r} : Sane(q)'
    BY <1>1, <1>9, OthersKept
<1> QED BY <1>10, <1>11, <1>12, SplitRequests

(* A RecursionError: the calls that were open are never reported. *)
LEMMA OverflowKeeps ==
    ASSUME IInv, NEW P, NEW U, Typed(P, U), NEW r \in Requests,
           ended[r] = "no", turn \in {r, Nobody}, NEW calls, Len(calls) = Len(stack[r]),
           NEW count \in 0..MaxRounds, Overflow(r, calls, count)
    PROVE  IInv'
<1>1. /\ Len(stack[r]) = RecursionLimit /\ turn' = Nobody
      /\ stack' = [stack EXCEPT ![r] = <<>>] /\ ended' = [ended EXCEPT ![r] = "crashed"]
      /\ reflectionCount' \in 0..MaxRounds
      /\ reply' = reply /\ reported' = reported /\ started' = started
    BY MaxRoundsAssumption DEF Overflow, Reset
<1>2. started[r] \in Nat /\ reported[r] \in Nat /\ stack[r] \in Seq(CallSet(P, U))
    BY DEF Typed
<1>3. /\ stack'[r] = <<>> /\ ended'[r] = "crashed"
      /\ \A q \in Requests \ {r} : stack'[q] = stack[q] /\ ended'[q] = ended[q]
    BY <1>1 DEF Typed
<1>4. Typed(P, U)'
    <2>1. <<>> \in Seq(CallSet(P, U))
        OBVIOUS
    <2>2. stack' \in [Requests -> Seq(CallSet(P, U))]
        BY <1>1, <2>1 DEF Typed
    <2> QED BY <1>1, <2>2 DEF Typed
<1>5. Sane(r)'
    <2>1. reported[r] < started[r]
        BY <1>1, <1>2, LimitAssumption DEF IInv, Sane, Accounted
    <2>2. Len(stack'[r]) = 0
        BY <1>3
    <2> QED BY <1>1, <1>3, <2>1, <2>2, LimitAssumption, NobodyAssumption
            DEF Sane, Nested, Accounted, Answers
<1>6. \A q \in Requests \ {r} : Sane(q)'
    BY <1>1, <1>3, OthersKept
<1> QED BY <1>4, <1>5, <1>6, SplitRequests

LEMMA RecurseKeeps ==
    ASSUME IInv, NEW P, NEW U, Typed(P, U), NEW r \in Requests, turn = r,
           NEW c \in CallSet(P, U), c.stage \in Waiting,
           NEW p, NEW count \in 0..MaxRounds, Recurse(r, WithTop(r, c), p, count)
    PROVE  IInv'
<1>1. stack[r] # <<>> /\ ended[r] = "no" /\ Sane(r)
    BY HasTurn DEF IInv
<1> DEFINE calls == WithTop(r, c)
<1>2. /\ calls \in Seq(CallSet(P, U)) /\ Len(calls) = Len(stack[r])
      /\ \A i \in 1..Len(calls) : calls[i].stage \in Waiting
    BY <1>1, CallsWait
<1>3. ExecutePlan(r, calls, p, count) \/ Overflow(r, calls, count)
    BY DEF Recurse
<1> HIDE DEF calls
<1> QED BY <1>1, <1>2, <1>3, ExecutePlanKeeps, OverflowKeeps

-----------------------------------------------------------------------------
(* The innermost call goes on, without a call of its own: one lemma for    *)
(* the steps that change its stage, its results or its response.           *)
LEMMA TopSteps ==
    ASSUME IInv, NEW P, NEW U, NEW V, U \subseteq V, Typed(P, U), NEW r \in Requests,
           stack[r] # <<>>, NEW c \in CallSet(P, V), turn \in {r, Nobody}, turn' = r,
           c.stage \notin Waiting, c.id = Top(r).id,
           c.stage \in {"scheduled", "returned"} => Top(r).stage \in {"scheduled", "returned"},
           c.stage \in {"evaluating", "finishing"} => reply'[r].by = started[r],
           stack' = [stack EXCEPT ![r] = WithTop(r, c)],
           reply' \in [Requests -> [by : Nat, content : Contents]],
           \A q \in Requests \ {r} : reply'[q] = reply[q],
           started' = started, reported' = reported, ended' = ended,
           reflectionCount' \in 0..MaxRounds
    PROVE  IInv'
<1> DEFINE new == WithTop(r, c)
<1>a. /\ new \in Seq(CallSet(P, V)) /\ Len(new) = Len(stack[r]) /\ new[Len(stack[r])] = c
      /\ \A i \in 1..(Len(stack[r]) - 1) : new[i] = stack[r][i]
    BY TopChanged
<1>b. stack' = [stack EXCEPT ![r] = new]
    OBVIOUS
<1> HIDE DEF new
<1>c. stack \in [Requests -> Seq(CallSet(P, V))]
    BY TypedWidens DEF Typed
<1>1. /\ stack' \in [Requests -> Seq(CallSet(P, V))]
      /\ Len(stack'[r]) = Len(stack[r]) /\ stack'[r][Len(stack[r])] = c
      /\ \A i \in 1..(Len(stack[r]) - 1) : stack'[r][i] = stack[r][i]
      /\ \A q \in Requests \ {r} : stack'[q] = stack[q]
    BY <1>a, <1>b, <1>c
<1>2. Typed(P, V)'
    BY <1>1 DEF Typed
<1>3. Len(stack[r]) \in Nat \ {0} /\ Top(r) = stack[r][Len(stack[r])]
    BY TopOf
<1>4. c.stage \in Stages
    BY DEF CallSet
<1>5. Sane(r)
    BY DEF IInv
<1>6. ended[r] = "no"
    BY <1>3, <1>5 DEF Sane, Nested, Typed
<1>7. Sane(r)'
    <2>1. Nested(r)'
        BY <1>1, <1>3, <1>4, <1>5, <1>6 DEF Sane, Nested
    <2>2. Accounted(r)'
        BY <1>1, <1>5 DEF Sane, Accounted
    <2>3. Answers(r)'
        BY <1>1, <1>3, <1>5, <1>6 DEF Sane, Answers
    <2> QED BY <2>1, <2>2, <2>3 DEF Sane
<1>8. \A q \in Requests \ {r} : Sane(q)'
    BY <1>1, OthersKept
<1> QED BY <1>2, <1>7, <1>8, SplitRequests

LEMMA SchedulerReturnsKeeps ==
    ASSUME IInv, NEW r \in Requests, SchedulerReturns(r)
    PROVE  IInv'
<1>1. PICK P, U : Typed(P, U)
    BY DEF IInv
<1>2. PICK res \in Results(Top(r).plan) :
          stack' = [stack EXCEPT ![r] =
                       WithTop(r, [Top(r) EXCEPT !.ok = res.ok, !.failed = res.failed,
                                                 !.stage = "returned"])]
    BY DEF SchedulerReturns
<1>3. /\ stack[r] # <<>> /\ Top(r).stage = "scheduled" /\ turn = Nobody /\ turn' = r
      /\ reply' = reply /\ started' = started /\ reported' = reported
      /\ ended' = ended /\ reflectionCount' = reflectionCount
    BY DEF SchedulerReturns
<1> DEFINE V == U \cup {res.ok, res.failed}
<1> DEFINE c == [Top(r) EXCEPT !.ok = res.ok, !.failed = res.failed, !.stage = "returned"]
<1>4. U \subseteq V /\ res.ok \in V /\ res.failed \in V
    OBVIOUS
<1> HIDE DEF V
<1>5. Top(r) \in CallSet(P, U)
    BY <1>1, <1>3, TopOf
<1>6. c \in CallSet(P, V) /\ c.stage = "returned" /\ c.id = Top(r).id
    BY <1>4, <1>5 DEF CallSet, Stages
<1>7. stack' = [stack EXCEPT ![r] = WithTop(r, c)]
    BY <1>2
<1>8. reflectionCount \in 0..MaxRounds /\ reply \in [Requests -> [by : Nat, content : Contents]]
    BY <1>1 DEF Typed
<1> HIDE DEF c
<1> QED BY <1>1, <1>3, <1>4, <1>6, <1>7, <1>8, TopSteps DEF Waiting

LEMMA RespondKeeps ==
    ASSUME IInv, NEW r \in Requests, At(r, "returned"),
           NEW state \in States, NEW contents \in SUBSET Contents, Respond(r, state, contents)
    PROVE  IInv'
<1>1. PICK P, U : Typed(P, U)
    BY DEF IInv
<1>2. turn = r /\ Top(r).stage = "returned" /\ stack[r] # <<>>
    BY HasTurn DEF At
<1>3. PICK content \in contents :
          reply' = [reply EXCEPT ![r] = [by |-> Top(r).id, content |-> content]]
    BY DEF Respond
<1> DEFINE c == [Top(r) EXCEPT !.state = state, !.stage = "evaluating"]
<1>4. /\ stack' = [stack EXCEPT ![r] = WithTop(r, c)] /\ turn' = turn
      /\ started' = started /\ reported' = reported
      /\ ended' = ended /\ reflectionCount' = reflectionCount
    BY DEF Respond
<1>5. /\ Top(r) \in CallSet(P, U) /\ Len(stack[r]) \in Nat \ {0}
      /\ Top(r) = stack[r][Len(stack[r])]
    BY <1>1, <1>2, TopOf
<1>6. c \in CallSet(P, U) /\ c.stage = "evaluating" /\ c.id = Top(r).id
    BY <1>5 DEF CallSet, Stages
<1> HIDE DEF c
<1>7. Top(r).id = started[r]
    BY <1>2, <1>5 DEF IInv, Sane, Answers
<1>8. Top(r).id \in Nat
    BY <1>5 DEF CallSet
<1>9. /\ reply' \in [Requests -> [by : Nat, content : Contents]]
      /\ reply'[r].by = started[r] /\ \A q \in Requests \ {r} : reply'[q] = reply[q]
    BY <1>1, <1>3, <1>7, <1>8 DEF Typed
<1>10. reflectionCount \in 0..MaxRounds
    BY <1>1 DEF Typed
<1> QED BY <1>1, <1>2, <1>4, <1>6, <1>9, <1>10, TopSteps DEF Waiting

LEMMA CompletePlanKeeps ==
    ASSUME IInv, NEW r \in Requests, CompletePlan(r)
    PROVE  IInv'
<1>1. At(r, "returned") /\ Respond(r, "COMPLETED", Aggregated(Top(r)))
    BY DEF CompletePlan
<1>2. Aggregated(Top(r)) \in SUBSET Contents /\ "COMPLETED" \in States
    BY DEF Aggregated, Contents, States
<1> QED BY <1>1, <1>2, RespondKeeps

LEMMA HandleFailureKeeps ==
    ASSUME IInv, NEW r \in Requests, HandleFailure(r)
    PROVE  IInv'
<1>1. PICK errors \in (SUBSET Kinds) \ {{}} :
        LET action == RecommendAction(Classify(errors), Top(r))
            state  == IF action = "REPLAN" THEN "REPLANNING" ELSE "RUNNING"
            next   == Replan(Top(r).plan, Top(r).failed)
            calls  == WithTop(r, [Top(r) EXCEPT !.state = state, !.stage = "recovering"])
        IN  \/ Respond(r, "COMPLETED", Aggregated(Top(r)))
            \/ Respond(r, "FAILED", ErrorContent(Top(r)))
            \/ \E p \in next : Recurse(r, calls, p, reflectionCount)
    BY DEF HandleFailure
<1>2. At(r, "returned") /\ turn = r /\ stack[r] # <<>>
    BY HasTurn DEF HandleFailure, At
<1>3. CASE Respond(r, "COMPLETED", Aggregated(Top(r)))
    <2>1. Aggregated(Top(r)) \in SUBSET Contents /\ "COMPLETED" \in States
        BY DEF Aggregated, Contents, States
    <2> QED BY <1>2, <1>3, <2>1, RespondKeeps
<1>4. CASE Respond(r, "FAILED", ErrorContent(Top(r)))
    <2>1. ErrorContent(Top(r)) \in SUBSET Contents /\ "FAILED" \in States
        BY DEF ErrorContent, Contents, States
    <2> QED BY <1>2, <1>4, <2>1, RespondKeeps
<1>5. ASSUME NEW state \in {"REPLANNING", "RUNNING"}, NEW p,
             Recurse(r, WithTop(r, [Top(r) EXCEPT !.state = state, !.stage = "recovering"]),
                     p, reflectionCount)
      PROVE  IInv'
    <2>1. PICK P, U : Typed(P, U)
        BY DEF IInv
    <2>2. Top(r) \in CallSet(P, U)
        BY <1>2, <2>1, TopOf
    <2> DEFINE c == [Top(r) EXCEPT !.state = state, !.stage = "recovering"]
    <2>3. c \in CallSet(P, U) /\ c.stage \in Waiting
        BY <2>2 DEF CallSet, Stages, States, Waiting
    <2>4. reflectionCount \in 0..MaxRounds
        BY <2>1 DEF Typed
    <2>5. Recurse(r, WithTop(r, c), p, reflectionCount)
        BY <1>5
    <2> HIDE DEF c
    <2> QED BY <1>2, <2>1, <2>3, <2>4, <2>5, RecurseKeeps
<1> QED BY <1>1, <1>3, <1>4, <1>5

LEMMA AcceptKeeps ==
    ASSUME IInv, NEW r \in Requests, Accept(r)
    PROVE  IInv'
<1>1. PICK P, U : Typed(P, U)
    BY DEF IInv
<1>2. turn = r /\ Top(r).stage = "evaluating" /\ stack[r] # <<>>
    BY HasTurn DEF Accept, At
<1> DEFINE c == [Top(r) EXCEPT !.stage = "finishing"]
<1>3. /\ stack' = [stack EXCEPT ![r] = WithTop(r, c)] /\ turn' = turn /\ reply' = reply
      /\ started' = started /\ reported' = reported /\ ended' = ended
    BY DEF Accept
<1>4. reflectionCount' \in 0..MaxRounds
    BY <1>1, MaxRoundsAssumption DEF Accept, LimitReached, Typed
<1>5. /\ Top(r) \in CallSet(P, U) /\ Len(stack[r]) \in Nat \ {0}
      /\ Top(r) = stack[r][Len(stack[r])]
    BY <1>1, <1>2, TopOf
<1>6. c \in CallSet(P, U) /\ c.stage = "finishing" /\ c.id = Top(r).id
    BY <1>5 DEF CallSet, Stages
<1> HIDE DEF c
<1>7. reply[r].by = started[r] /\ reply \in [Requests -> [by : Nat, content : Contents]]
    BY <1>1, <1>2, <1>5 DEF IInv, Sane, Answers, Typed
<1> QED BY <1>1, <1>2, <1>3, <1>4, <1>6, <1>7, TopSteps DEF Waiting

LEMMA ReflectKeeps ==
    ASSUME IInv, NEW r \in Requests, Reflect(r)
    PROVE  IInv'
<1>1. PICK P, U : Typed(P, U)
    BY DEF IInv
<1>2. turn = r /\ stack[r] # <<>>
    BY HasTurn DEF Reflect, At
<1> DEFINE c == [Top(r) EXCEPT !.stage = "reflecting"]
<1>3. ~LimitReached
      /\ \E p : Recurse(r, WithTop(r, c), p, reflectionCount + 1)
    BY DEF Reflect
<1>4. reflectionCount + 1 \in 0..MaxRounds
    BY <1>1, <1>3, MaxRoundsAssumption DEF LimitReached, Typed
<1>5. Top(r) \in CallSet(P, U)
    BY <1>1, <1>2, TopOf
<1>6. c \in CallSet(P, U) /\ c.stage \in Waiting
    BY <1>5 DEF CallSet, Stages, Waiting
<1> HIDE DEF c
<1>7. PICK p : Recurse(r, WithTop(r, c), p, reflectionCount + 1)
    BY <1>3
<1> QED BY <1>1, <1>2, <1>4, <1>6, <1>7, RecurseKeeps

(* The innermost call returns: what the call outside does next depends on  *)
(* why it made the call, and the response passes through unchanged.        *)
LEMMA FinishKeeps ==
    ASSUME IInv, NEW r \in Requests, Finish(r)
    PROVE  IInv'
<1>1. PICK P, U : Typed(P, U)
    BY DEF IInv
<1>2. turn = r /\ Top(r).stage = "finishing" /\ stack[r] # <<>> /\ ended[r] = "no"
    BY HasTurn DEF Finish, At
<1> DEFINE n == Len(stack[r])
<1> DEFINE outer == Front(stack[r])
<1>3. n \in Nat \ {0} /\ stack[r][n].stage = "finishing"
    BY <1>1, <1>2, TopOf
<1>4. stack[r] \in Seq(CallSet(P, U)) /\ started[r] \in Nat /\ reported[r] \in Nat
    BY <1>1 DEF Typed
<1>5. outer \in Seq(CallSet(P, U)) /\ Len(outer) = n - 1 /\ \A i \in 1..(n - 1) : outer[i] = stack[r][i]
    BY <1>2, <1>4, Fronted
<1>6. Sane(r)
    BY DEF IInv
<1>7. /\ reported' = [reported EXCEPT ![r] = @ + 1]
      /\ reply' = reply /\ started' = started /\ reflectionCount' = reflectionCount
    BY DEF Finish, Report
<1>8. reply[r].by = started[r] /\ started[r] = reported[r] + n
    BY <1>2, <1>3, <1>6 DEF Sane, Accounted, Answers
<1>9. \/ /\ outer = <<>> /\ stack' = [stack EXCEPT ![r] = <<>>]
         /\ ended' = [ended EXCEPT ![r] = "answered"] /\ turn' = Nobody
      \/ /\ outer # <<>> /\ stack' = [stack EXCEPT ![r] = Resume(outer)]
         /\ ended' = ended /\ turn' = turn
    BY DEF Finish
<1> HIDE DEF outer
<1>10. reported' \in [Requests -> Nat] /\ reported'[r] = reported[r] + 1
       /\ \A q \in Requests \ {r} : reported'[q] = reported[q]
    BY <1>1, <1>4, <1>7 DEF Typed
<1>11. CASE /\ outer = <<>> /\ stack' = [stack EXCEPT ![r] = <<>>]
            /\ ended' = [ended EXCEPT ![r] = "answered"] /\ turn' = Nobody
    <2>1. n = 1
        BY <1>3, <1>5, <1>11
    <2>2. <<>> \in Seq(CallSet(P, U))
        OBVIOUS
    <2>3. /\ stack' \in [Requests -> Seq(CallSet(P, U))] /\ stack'[r] = <<>>
          /\ ended'[r] = "answered"
          /\ \A q \in Requests \ {r} : stack'[q] = stack[q] /\ ended'[q] = ended[q]
        BY <1>1, <1>11, <2>2 DEF Typed
    <2>4. Typed(P, U)'
        BY <1>1, <1>7, <1>10, <1>11, <2>3 DEF Typed
    <2>5. Len(stack'[r]) = 0
        BY <2>3
    <2>6. Sane(r)'
        BY <1>4, <1>7, <1>8, <1>10, <1>11, <2>1, <2>3, <2>5, NobodyAssumption, LimitAssumption
           DEF Sane, Nested, Accounted, Answers
    <2>7. \A q \in Requests \ {r} : Sane(q)'
        BY <1>2, <1>7, <1>10, <1>11, <2>3, OthersKept
    <2> QED BY <2>4, <2>6, <2>7, SplitRequests
<1>12. CASE /\ outer # <<>> /\ stack' = [stack EXCEPT ![r] = Resume(outer)]
            /\ ended' = ended /\ turn' = turn
    <2> DEFINE m == n - 1
    <2> DEFINE stage == IF outer[m].stage = "recovering" THEN "evaluating" ELSE "finishing"
    <2> DEFINE c == [outer[m] EXCEPT !.stage = stage]
    <2>1. m \in Nat \ {0} /\ Len(outer) = m
        BY <1>3, <1>5, <1>12
    <2>2. outer[m] \in CallSet(P, U)
        <3>1. \A i \in 1..Len(outer) : outer[i] \in CallSet(P, U)
            BY <1>5, Lengths
        <3> HIDE DEF m, c, stage
        <3> QED BY <2>1, <3>1
    <2>3. c \in CallSet(P, U) /\ c.stage \in {"evaluating", "finishing"}
        BY <2>2 DEF CallSet, Stages
    <2>4. Resume(outer) = [outer EXCEPT ![m] = c]
        BY <2>1 DEF Resume
    <2> HIDE DEF c
    <2>5. /\ Resume(outer) \in Seq(CallSet(P, U)) /\ Len(Resume(outer)) = m
          /\ Resume(outer)[m] = c
          /\ \A i \in 1..(m - 1) : Resume(outer)[i] = stack[r][i]
        <3> HIDE DEF m
        <3>1. m \in 1..Len(outer)
            BY <2>1
        <3>2. /\ [outer EXCEPT ![m] = c] \in Seq(CallSet(P, U))
              /\ Len([outer EXCEPT ![m] = c]) = Len(outer) /\ [outer EXCEPT ![m] = c][m] = c
              /\ \A i \in 1..Len(outer) : i # m => [outer EXCEPT ![m] = c][i] = outer[i]
            BY <1>5, <2>3, <3>1, PlaceReplaced
        <3>3. ASSUME NEW i \in 1..(m - 1) PROVE [outer EXCEPT ![m] = c][i] = stack[r][i]
            <4>1. i \in 1..Len(outer) /\ i # m /\ i \in 1..(n - 1)
                BY <2>1 DEF m
            <4> QED BY <1>5, <3>2, <4>1
        <3> QED BY <2>1, <2>4, <3>2, <3>3
    <2>6. /\ stack' \in [Requests -> Seq(CallSet(P, U))] /\ stack'[r] = Resume(outer)
          /\ \A q \in Requests \ {r} : stack'[q] = stack[q]
        BY <1>1, <1>12, <2>5 DEF Typed
    <2>7. Typed(P, U)'
        BY <1>1, <1>7, <1>10, <1>12, <2>6 DEF Typed
    <2>8. Nested(r)'
        <3>1. /\ n <= RecursionLimit /\ \A i \in 1..(n - 1) : stack[r][i].stage \in Waiting
            BY <1>6 DEF Sane, Nested
        <3>2. \A i \in 1..(m - 1) : stack'[r][i].stage \in Waiting
            BY <1>3, <2>5, <2>6, <3>1
        <3> QED BY <1>2, <1>3, <1>12, <2>1, <2>3, <2>5, <2>6, <3>1, <3>2, LimitAssumption
                DEF Nested, Stages, Waiting
    <2>9. Accounted(r)' /\ Answers(r)'
        <3>1. /\ Len(stack'[r]) = m /\ stack'[r][m] = c /\ started'[r] = reported'[r] + m
              /\ ended'[r] = "no" /\ reply'[r].by = started'[r]
            BY <1>2, <1>3, <1>4, <1>7, <1>8, <1>10, <1>12, <2>5, <2>6
        <3> QED BY <2>3, <3>1 DEF Accounted, Answers
    <2>10. \A q \in Requests \ {r} : Sane(q)'
        BY <1>2, <1>7, <1>10, <1>12, <2>6, OthersKept
    <2> QED BY <2>7, <2>8, <2>9, <2>10, SplitRequests DEF Sane
<1> QED BY <1>9, <1>11, <1>12

LEMMA ArriveKeeps ==
    ASSUME IInv, NEW r \in Requests, Arrive(r)
    PROVE  IInv'
<1>1. PICK P, U : Typed(P, U)
    BY DEF IInv
<1>2. PICK p \in BrainPlans : ExecutePlan(r, <<>>, p, reflectionCount)
    BY DEF Arrive
<1>3. turn = Nobody /\ ended[r] = "no" /\ started[r] = 0
    BY DEF Arrive
<1>4. stack[r] \in Seq(CallSet(P, U)) /\ reported[r] \in Nat
    BY <1>1 DEF Typed
<1>5. Len(stack[r]) \in Nat
    BY <1>4, Lengths
<1>6. Len(stack[r]) = 0
    BY <1>3, <1>4, <1>5 DEF IInv, Sane, Accounted
<1> DEFINE none == <<>>
<1>7. none \in Seq(CallSet(P, U)) /\ Len(none) = 0
    OBVIOUS
<1>8. ExecutePlan(r, none, p, reflectionCount)
    BY <1>2
<1> HIDE DEF none
<1>9. \A i \in 1..Len(none) : none[i].stage \in Waiting
    BY <1>7
<1> QED BY <1>1, <1>3, <1>6, <1>7, <1>8, <1>9, ExecutePlanKeeps

-----------------------------------------------------------------------------
LEMMA InitEstablishes == Init => IInv
<1> SUFFICES ASSUME Init PROVE IInv
    OBVIOUS
<1> DEFINE none == <<>>
<1>1. none \in Seq(CallSet({}, {})) /\ Len(none) = 0
    OBVIOUS
<1>2. stack = [r \in Requests |-> none]
    BY DEF Init
<1> HIDE DEF none
<1>3. Typed({}, {})
    BY <1>1, <1>2, MaxRoundsAssumption DEF Init, Typed, NoReply, Contents
<1>4. ASSUME NEW q \in Requests PROVE Sane(q)
    <2>1. Len(stack[q]) = 0
        BY <1>1, <1>2
    <2> QED BY <2>1, NobodyAssumption, LimitAssumption
            DEF Init, Sane, Nested, Accounted, Answers
<1> QED BY <1>3, <1>4 DEF IInv

LEMMA NextKeeps ==
    ASSUME IInv, [Next]_vars
    PROVE  IInv'
<1>1. CASE UNCHANGED vars
    BY <1>1 DEF vars, IInv, Typed, Sane, Nested, Accounted, Answers
<1>2. ASSUME NEW r \in Requests, Arrive(r) PROVE IInv'
    BY <1>2, ArriveKeeps
<1>3. ASSUME NEW r \in Requests, Runs(r) PROVE IInv'
    BY <1>3, SchedulerReturnsKeeps, CompletePlanKeeps, HandleFailureKeeps,
       AcceptKeeps, ReflectKeeps, FinishKeeps DEF Runs
<1> QED BY <1>1, <1>2, <1>3 DEF Next, AllEnded

(* At any depth of recovery and reflection, for any number of requests:    *)
(* the calls of a request wait for each other, what has no report is still *)
(* open, and the response in hand is that of the execution started last.   *)
THEOREM InductiveInvariant == Spec => []IInv
<1>1. Init => IInv
    BY InitEstablishes
<1>2. IInv /\ [Next]_vars => IInv'
    BY NextKeeps
<1> QED BY <1>1, <1>2, PTL DEF Spec

LEMMA TypesOfIInv == IInv => TypeOK
<1> SUFFICES ASSUME IInv PROVE TypeOK
    OBVIOUS
<1>1. PICK P, U : Typed(P, U)
    BY DEF IInv
<1>2. turn \in Requests \cup {Nobody} /\ reflectionCount \in 0..MaxRounds
    BY <1>1 DEF Typed
<1>3. ASSUME NEW r \in Requests
      PROVE  /\ started[r] \in Nat /\ reported[r] \in Nat
             /\ ended[r] \in {"no", "answered", "crashed"}
             /\ reply[r].content \in Contents
             /\ Len(stack[r]) <= RecursionLimit
    BY <1>1 DEF Typed, IInv, Sane, Nested
<1>4. ASSUME NEW r \in Requests, NEW i \in DOMAIN stack[r]
      PROVE  /\ stack[r][i].stage \in Stages
             /\ i < Len(stack[r]) <=> stack[r][i].stage \in Waiting
             /\ i = Len(stack[r]) /\ turn # r => stack[r][i].stage = "scheduled"
    <2>1. stack[r] \in Seq(CallSet(P, U))
        BY <1>1 DEF Typed
    <2>2. Len(stack[r]) \in Nat /\ DOMAIN stack[r] = 1..Len(stack[r]) /\ stack[r][i] \in CallSet(P, U)
        BY <2>1
    <2>3. Nested(r)
        BY DEF IInv, Sane
    <2>4. stack[r][i].stage \in Stages
        BY <2>2 DEF CallSet
    <2>5. CASE i < Len(stack[r])
        <3>1. i \in 1..(Len(stack[r]) - 1)
            BY <2>2, <2>5
        <3> QED BY <2>2, <2>3, <2>4, <2>5, <3>1 DEF Nested
    <2>6. CASE i = Len(stack[r])
        BY <2>2, <2>3, <2>4, <2>6 DEF Nested
    <2> QED BY <2>2, <2>5, <2>6
<1> QED BY <1>2, <1>3, <1>4 DEF TypeOK, Waiting

(* Type correctness of BrainRecovery; only the innermost call of a request *)
(* is not waiting for another one, and no request goes over the limit of   *)
(* the interpreter's stack.                                                *)
THEOREM TypeCorrect == Spec => []TypeOK
BY InductiveInvariant, TypesOfIInv, PTL

(* Metrics, session and events report every execution once, however deep   *)
(* replanning and reflection nest; a crash is the only way to lose one.    *)
THEOREM EachReported == Spec => []EveryExecutionReported
<1>1. IInv => EveryExecutionReported
    BY DEF IInv, Sane, Accounted, EveryExecutionReported
<1> QED BY <1>1, InductiveInvariant, PTL

(* The answer of a request is that of the execution started last: whatever *)
(* recovery and reflection had achieved before is not returned.            *)
THEOREM LastAnswers == Spec => []LastExecutionAnswers
<1>1. ASSUME IInv, NEW r \in Requests
      PROVE  /\ ended[r] = "answered" => reply[r].by = started[r]
             /\ stack[r] # <<>> /\ Top(r).stage \in {"evaluating", "finishing"} =>
                   reply[r].by = started[r]
    <2>1. PICK P, U : Typed(P, U)
        BY <1>1 DEF IInv
    <2>2. Answers(r)
        BY <1>1 DEF IInv, Sane
    <2>3. CASE stack[r] # <<>>
        BY <2>1, <2>2, <2>3, TopOf DEF Answers
    <2> QED BY <2>2, <2>3 DEF Answers
<1>2. IInv => LastExecutionAnswers
    BY <1>1 DEF LastExecutionAnswers
<1> QED BY <1>2, InductiveInvariant, PTL

-----------------------------------------------------------------------------
(* What the call has been set to, at each stage.  ReportJustified is about *)
(* the calls that have a state to report; that a call which recovers has   *)
(* failed, and one before its evaluation has no verdict, is needed too.    *)
Justified(c) ==
    /\ c.state = "COMPLETED" => c.failed = {} \/ HasPartial(c)
    /\ c.stage \in {"scheduled", "returned"} => c.state = "RUNNING"
    /\ c.stage = "recovering" => c.state # "COMPLETED" /\ c.failed # {}
    /\ c.stage \in {"evaluating", "reflecting", "finishing"} /\ c.state # "COMPLETED" =>
          c.failed # {}

AllJustified == \A q \in Requests : \A i \in 1..Len(stack[q]) : Justified(stack[q][i])

LEMMA StackJustified ==
    ASSUME NEW P, NEW U, Typed(P, U), AllJustified, NEW r \in Requests, NEW new,
           stack' = [stack EXCEPT ![r] = new], \A i \in 1..Len(new) : Justified(new[i])
    PROVE  AllJustified'
<1>1. stack'[r] = new /\ \A q \in Requests \ {r} : stack'[q] = stack[q]
    BY DEF Typed
<1> QED BY <1>1 DEF AllJustified

LEMMA TopJustified ==
    ASSUME NEW P, NEW U, NEW V, U \subseteq V, Typed(P, U), AllJustified, NEW r \in Requests,
           stack[r] # <<>>, NEW c \in CallSet(P, V), Justified(c)
    PROVE  \A i \in 1..Len(WithTop(r, c)) : Justified(WithTop(r, c)[i])
<1>1. /\ Len(WithTop(r, c)) = Len(stack[r]) /\ WithTop(r, c)[Len(stack[r])] = c
      /\ \A i \in 1..(Len(stack[r]) - 1) : WithTop(r, c)[i] = stack[r][i]
    BY TopChanged
<1>2. Len(stack[r]) \in Nat
    BY TopOf
<1>3. \A i \in 1..(Len(stack[r]) - 1) : Justified(stack[r][i])
    BY <1>2 DEF AllJustified
<1>4. ASSUME NEW i \in 1..Len(stack[r]) PROVE Justified(WithTop(r, c)[i])
    <2>1. CASE i = Len(stack[r])
        BY <2>1, <1>1
    <2>2. CASE i # Len(stack[r])
        <3>1. i \in 1..(Len(stack[r]) - 1)
            BY <2>2, <1>2
        <3> QED BY <3>1, <1>1, <1>3
    <2> QED BY <2>1, <2>2
<1> QED BY <1>1, <1>4

LEMMA TopIsJustified ==
    ASSUME NEW P, NEW U, Typed(P, U), AllJustified, NEW r \in Requests, stack[r] # <<>>
    PROVE  Top(r) \in CallSet(P, U) /\ Justified(Top(r))
<1>1. Len(stack[r]) \in Nat \ {0} /\ Top(r) = stack[r][Len(stack[r])] /\ Top(r) \in CallSet(P, U)
    BY TopOf
<1>2. Len(stack[r]) \in 1..Len(stack[r])
    BY <1>1
<1> QED BY <1>1, <1>2 DEF AllJustified

(* A call of execute_plan begins without a verdict; a crash leaves none. *)
LEMMA RecurseJustified ==
    ASSUME NEW P, NEW U, Typed(P, U), AllJustified, NEW r \in Requests,
           NEW calls \in Seq(CallSet(P, U)), \A i \in 1..Len(calls) : Justified(calls[i]),
           NEW p, NEW count, Recurse(r, calls, p, count)
    PROVE  AllJustified'
<1>1. CASE ExecutePlan(r, calls, p, count)
    <2> DEFINE new == Call(started[r] + 1, p)
    <2>1. stack' = [stack EXCEPT ![r] = Append(calls, new)]
        BY <1>1 DEF ExecutePlan
    <2>2. new.state = "RUNNING" /\ new.stage = "scheduled"
        BY DEF Call
    <2>3. Justified(new)
        BY <2>2 DEF Justified
    <2> HIDE DEF new
    <2>4. Len(calls) \in Nat /\ Len(Append(calls, new)) = Len(calls) + 1
          /\ Append(calls, new)[Len(calls) + 1] = new
          /\ \A i \in 1..Len(calls) : Append(calls, new)[i] = calls[i]
        OBVIOUS
    <2>5. \A i \in 1..Len(Append(calls, new)) : Justified(Append(calls, new)[i])
        BY <2>3, <2>4
    <2> QED BY <2>1, <2>5, StackJustified
<1>2. CASE Overflow(r, calls, count)
    <2>1. stack' = [stack EXCEPT ![r] = <<>>]
        BY <1>2 DEF Overflow
    <2>2. stack'[r] = <<>> /\ \A q \in Requests \ {r} : stack'[q] = stack[q]
        BY <2>1 DEF Typed
    <2>3. Len(stack'[r]) = 0
        BY <2>2
    <2> QED BY <2>2, <2>3 DEF AllJustified
<1> QED BY <1>1, <1>2 DEF Recurse

LEMMA RespondJustified ==
    ASSUME IInv, AllJustified, NEW r \in Requests, At(r, "returned"),
           NEW state \in States, NEW contents, Respond(r, state, contents),
           state = "COMPLETED" => Top(r).failed = {} \/ HasPartial(Top(r)),
           state # "COMPLETED" => Top(r).failed # {}
    PROVE  AllJustified'
<1>1. PICK P, U : Typed(P, U)
    BY DEF IInv
<1>2. stack[r] # <<>>
    BY HasTurn DEF At
<1>3. Top(r) \in CallSet(P, U)
    BY <1>1, <1>2, TopIsJustified
<1> DEFINE c == [Top(r) EXCEPT !.state = state, !.stage = "evaluating"]
<1>4. stack' = [stack EXCEPT ![r] = WithTop(r, c)]
    BY DEF Respond
<1>5. c \in CallSet(P, U) /\ c.failed = Top(r).failed /\ c.ok = Top(r).ok
      /\ c.plan = Top(r).plan /\ c.state = state /\ c.stage = "evaluating"
    BY <1>3 DEF CallSet, Stages
<1> HIDE DEF c
<1>6. Justified(c)
    BY <1>5 DEF Justified, HasPartial
<1>7. \A i \in 1..Len(WithTop(r, c)) : Justified(WithTop(r, c)[i])
    BY <1>1, <1>2, <1>5, <1>6, TopJustified
<1> QED BY <1>1, <1>4, <1>7, StackJustified

LEMMA HandleFailureJustified ==
    ASSUME IInv, AllJustified, NEW r \in Requests, HandleFailure(r)
    PROVE  AllJustified'
<1>1. PICK P, U : Typed(P, U)
    BY DEF IInv
<1>2. At(r, "returned") /\ stack[r] # <<>> /\ Top(r).failed # {}
    BY HasTurn DEF HandleFailure, At
<1>3. Top(r) \in CallSet(P, U) /\ Justified(Top(r))
    BY <1>1, <1>2, TopIsJustified
<1>4. PICK errors \in (SUBSET Kinds) \ {{}} :
        LET action == RecommendAction(Classify(errors), Top(r))
            state  == IF action = "REPLAN" THEN "REPLANNING" ELSE "RUNNING"
            next   == Replan(Top(r).plan, Top(r).failed)
            calls  == WithTop(r, [Top(r) EXCEPT !.state = state, !.stage = "recovering"])
        IN  \/ action = "USE_PARTIAL_RESULTS" /\ Respond(r, "COMPLETED", Aggregated(Top(r)))
            \/ Respond(r, "FAILED", ErrorContent(Top(r)))
            \/ \E p \in next : Recurse(r, calls, p, reflectionCount)
    BY DEF HandleFailure
<1>5. ASSUME NEW type, RecommendAction(type, Top(r)) = "USE_PARTIAL_RESULTS"
      PROVE  HasPartial(Top(r))
    BY <1>5 DEF RecommendAction
<1>6. CASE RecommendAction(Classify(errors), Top(r)) = "USE_PARTIAL_RESULTS"
           /\ Respond(r, "COMPLETED", Aggregated(Top(r)))
    <2>1. HasPartial(Top(r)) /\ "COMPLETED" \in States
        BY <1>5, <1>6 DEF States
    <2> QED BY <1>2, <1>6, <2>1, RespondJustified
<1>7. CASE Respond(r, "FAILED", ErrorContent(Top(r)))
    <2>1. "FAILED" \in States
        BY DEF States
    <2> QED BY <1>2, <1>7, <2>1, RespondJustified
<1>8. ASSUME NEW state \in {"REPLANNING", "RUNNING"}, NEW p,
             Recurse(r, WithTop(r, [Top(r) EXCEPT !.state = state, !.stage = "recovering"]),
                     p, reflectionCount)
      PROVE  AllJustified'
    <2> DEFINE c == [Top(r) EXCEPT !.state = state, !.stage = "recovering"]
    <2>1. c \in CallSet(P, U) /\ c.failed = Top(r).failed /\ c.state = state
          /\ c.stage = "recovering"
        BY <1>3 DEF CallSet, Stages, States
    <2>2. Recurse(r, WithTop(r, c), p, reflectionCount)
        BY <1>8
    <2> HIDE DEF c
    <2>3. Justified(c)
        BY <1>2, <2>1 DEF Justified
    <2>4. /\ \A i \in 1..Len(WithTop(r, c)) : Justified(WithTop(r, c)[i])
          /\ WithTop(r, c) \in Seq(CallSet(P, U))
        BY <1>1, <1>2, <2>1, <2>3, TopJustified, TopChanged
    <2> QED BY <1>1, <2>2, <2>4, RecurseJustified
<1> QED BY <1>4, <1>6, <1>7, <1>8

LEMMA FinishJustified ==
    ASSUME IInv, AllJustified, NEW r \in Requests, Finish(r)
    PROVE  AllJustified'
<1>1. PICK P, U : Typed(P, U)
    BY DEF IInv
<1>2. stack[r] # <<>>
    BY HasTurn DEF Finish, At
<1> DEFINE n == Len(stack[r])
<1> DEFINE outer == Front(stack[r])
<1>3. stack[r] \in Seq(CallSet(P, U)) /\ n \in Nat \ {0}
    BY <1>1, <1>2, TopOf DEF Typed
<1>4. outer \in Seq(CallSet(P, U)) /\ Len(outer) = n - 1 /\ \A i \in 1..(n - 1) : outer[i] = stack[r][i]
    BY <1>2, <1>3, Fronted
<1>5. \A i \in 1..(n - 1) : Justified(stack[r][i]) /\ stack[r][i].stage \in Waiting
    BY <1>3 DEF AllJustified, IInv, Sane, Nested
<1>6. \A i \in 1..Len(outer) : /\ outer[i] \in CallSet(P, U)
                               /\ Justified(outer[i]) /\ outer[i].stage \in Waiting
    BY <1>4, <1>5, Lengths
<1>7. \/ outer = <<>> /\ stack' = [stack EXCEPT ![r] = <<>>]
      \/ outer # <<>> /\ stack' = [stack EXCEPT ![r] = Resume(outer)]
    BY DEF Finish
<1> HIDE DEF outer
<1>8. CASE outer = <<>> /\ stack' = [stack EXCEPT ![r] = <<>>]
    <2>1. stack'[r] = <<>> /\ \A q \in Requests \ {r} : stack'[q] = stack[q]
        BY <1>1, <1>8 DEF Typed
    <2>2. Len(stack'[r]) = 0
        BY <2>1
    <2> QED BY <2>1, <2>2 DEF AllJustified
<1>9. CASE outer # <<>> /\ stack' = [stack EXCEPT ![r] = Resume(outer)]
    <2> DEFINE m == Len(outer)
    <2> DEFINE stage == IF outer[m].stage = "recovering" THEN "evaluating" ELSE "finishing"
    <2> DEFINE c == [outer[m] EXCEPT !.stage = stage]
    <2>1. m \in Nat /\ m \in 1..m
        BY <1>4, <1>9, Lengths
    <2>2. outer[m] \in CallSet(P, U) /\ Justified(outer[m]) /\ outer[m].stage \in Waiting
        BY <1>6, <2>1
    <2>3. Resume(outer) = [outer EXCEPT ![m] = c]
        BY DEF Resume
    <2>4. c \in CallSet(P, U) /\ c.failed = outer[m].failed /\ c.ok = outer[m].ok
          /\ c.plan = outer[m].plan /\ c.state = outer[m].state /\ c.stage = stage
        BY <2>2 DEF CallSet, Stages
    <2>5. Justified(c)
        BY <2>2, <2>4 DEF Justified, HasPartial, Waiting
    <2> HIDE DEF c
    <2>6. /\ Len(Resume(outer)) = m /\ Resume(outer)[m] = c
          /\ \A i \in 1..m : i # m => Resume(outer)[i] = outer[i]
        BY <1>4, <2>1, <2>3, <2>4, PlaceReplaced
    <2>7. \A i \in 1..Len(Resume(outer)) : Justified(Resume(outer)[i])
        BY <1>6, <2>5, <2>6
    <2> QED BY <1>1, <1>9, <2>7, StackJustified
<1> QED BY <1>7, <1>8, <1>9

LEMMA RunsJustified ==
    ASSUME IInv, AllJustified, NEW r \in Requests, Runs(r)
    PROVE  AllJustified'
<1>1. PICK P, U : Typed(P, U)
    BY DEF IInv
<1>2. CASE SchedulerReturns(r)
    <2>1. PICK res \in Results(Top(r).plan) :
              stack' = [stack EXCEPT ![r] =
                           WithTop(r, [Top(r) EXCEPT !.ok = res.ok, !.failed = res.failed,
                                                     !.stage = "returned"])]
        BY <1>2 DEF SchedulerReturns
    <2>2. stack[r] # <<>> /\ Top(r).stage = "scheduled"
        BY <1>2 DEF SchedulerReturns
    <2>3. Top(r) \in CallSet(P, U) /\ Justified(Top(r))
        BY <1>1, <2>2, TopIsJustified
    <2> DEFINE V == U \cup {res.ok, res.failed}
    <2> DEFINE c == [Top(r) EXCEPT !.ok = res.ok, !.failed = res.failed, !.stage = "returned"]
    <2>4. U \subseteq V /\ res.ok \in V /\ res.failed \in V
        OBVIOUS
    <2> HIDE DEF V
    <2>5. c \in CallSet(P, V) /\ c.state = Top(r).state /\ c.stage = "returned"
        BY <2>3, <2>4 DEF CallSet, Stages
    <2>6. stack' = [stack EXCEPT ![r] = WithTop(r, c)]
        BY <2>1
    <2> HIDE DEF c
    <2>7. Justified(c)
        BY <2>2, <2>3, <2>5 DEF Justified
    <2>8. \A i \in 1..Len(WithTop(r, c)) : Justified(WithTop(r, c)[i])
        BY <1>1, <2>2, <2>4, <2>5, <2>7, TopJustified
    <2> QED BY <1>1, <2>6, <2>8, StackJustified
<1>3. CASE CompletePlan(r)
    <2>1. At(r, "returned") /\ Top(r).failed = {} /\ Respond(r, "COMPLETED", Aggregated(Top(r)))
        BY <1>3 DEF CompletePlan
    <2>2. "COMPLETED" \in States
        BY DEF States
    <2> QED BY <2>1, <2>2, RespondJustified
<1>4. CASE HandleFailure(r)
    BY <1>4, HandleFailureJustified
<1>5. ASSUME NEW stage \in {"finishing", "reflecting"}, stack[r] # <<>>, Top(r).stage = "evaluating"
      PROVE  LET c == [Top(r) EXCEPT !.stage = stage]
             IN  /\ WithTop(r, c) \in Seq(CallSet(P, U))
                 /\ \A i \in 1..Len(WithTop(r, c)) : Justified(WithTop(r, c)[i])
    <2> DEFINE c == [Top(r) EXCEPT !.stage = stage]
    <2>1. Top(r) \in CallSet(P, U) /\ Justified(Top(r))
        BY <1>1, <1>5, TopIsJustified
    <2>2. c \in CallSet(P, U) /\ c.failed = Top(r).failed /\ c.ok = Top(r).ok
          /\ c.plan = Top(r).plan /\ c.state = Top(r).state /\ c.stage = stage
        BY <2>1 DEF CallSet, Stages
    <2> HIDE DEF c
    <2>3. Justified(c)
        BY <1>5, <2>1, <2>2 DEF Justified, HasPartial
    <2>4. /\ WithTop(r, c) \in Seq(CallSet(P, U))
          /\ \A i \in 1..Len(WithTop(r, c)) : Justified(WithTop(r, c)[i])
        BY <1>1, <1>5, <2>2, <2>3, TopJustified, TopChanged
    <2> QED BY <2>4 DEF c
<1>6. CASE Accept(r)
    <2>1. stack[r] # <<>> /\ Top(r).stage = "evaluating"
        BY <1>6, HasTurn DEF Accept, At
    <2> DEFINE new == WithTop(r, [Top(r) EXCEPT !.stage = "finishing"])
    <2>2. stack' = [stack EXCEPT ![r] = new]
        BY <1>6 DEF Accept
    <2>3. \A i \in 1..Len(new) : Justified(new[i])
        BY <1>5, <2>1
    <2> HIDE DEF new
    <2> QED BY <1>1, <2>2, <2>3, StackJustified
<1>7. CASE Reflect(r)
    <2>1. stack[r] # <<>> /\ Top(r).stage = "evaluating"
        BY <1>7, HasTurn DEF Reflect, At
    <2> DEFINE calls == WithTop(r, [Top(r) EXCEPT !.stage = "reflecting"])
    <2>2. PICK p : Recurse(r, calls, p, reflectionCount + 1)
        BY <1>7 DEF Reflect
    <2>3. calls \in Seq(CallSet(P, U)) /\ \A i \in 1..Len(calls) : Justified(calls[i])
        BY <1>5, <2>1
    <2> HIDE DEF calls
    <2> QED BY <1>1, <2>2, <2>3, RecurseJustified
<1>8. CASE Finish(r)
    BY <1>8, FinishJustified
<1> QED BY <1>2, <1>3, <1>4, <1>6, <1>7, <1>8 DEF Runs

LEMMA NextJustified ==
    ASSUME IInv, AllJustified, [Next]_vars
    PROVE  AllJustified'
<1>1. CASE UNCHANGED vars
    BY <1>1 DEF vars, AllJustified
<1>2. ASSUME NEW r \in Requests, Arrive(r) PROVE AllJustified'
    <2>1. PICK P, U : Typed(P, U)
        BY DEF IInv
    <2> DEFINE none == <<>>
    <2>2. none \in Seq(CallSet(P, U)) /\ Len(none) = 0
        OBVIOUS
    <2>3. PICK p : Recurse(r, none, p, reflectionCount)
        BY <1>2 DEF Arrive, Recurse
    <2> HIDE DEF none
    <2>4. \A i \in 1..Len(none) : Justified(none[i])
        BY <2>2
    <2> QED BY <2>1, <2>2, <2>3, <2>4, RecurseJustified
<1>3. ASSUME NEW r \in Requests, Runs(r) PROVE AllJustified'
    BY <1>3, RunsJustified
<1> QED BY <1>1, <1>2, <1>3 DEF Next, AllEnded

(* What metrics and events say of a call is justified by its own steps:    *)
(* success only if none failed or an LLM output was at hand, failure only  *)
(* if one did, however many other calls answered in between.               *)
THEOREM ReportsJustified == Spec => []ReportJustified
<1>1. Init => AllJustified
    <2> SUFFICES ASSUME Init, NEW q \in Requests PROVE Len(stack[q]) = 0
        BY DEF AllJustified
    <2>1. stack[q] = <<>>
        BY DEF Init
    <2> QED BY <2>1
<1>2. IInv /\ AllJustified /\ [Next]_vars => AllJustified'
    BY NextJustified
<1>3. ASSUME IInv, AllJustified, NEW q \in Requests, NEW i \in DOMAIN stack[q]
      PROVE  Justified(stack[q][i])
    <2>1. PICK P, U : Typed(P, U)
        BY <1>3 DEF IInv
    <2>2. stack[q] \in Seq(CallSet(P, U))
        BY <2>1 DEF Typed
    <2>3. DOMAIN stack[q] = 1..Len(stack[q])
        BY <2>2
    <2> QED BY <1>3, <2>3 DEF AllJustified
<1>4. IInv /\ AllJustified => ReportJustified
    BY <1>3 DEF Justified, ReportJustified
<1> QED BY <1>1, <1>2, <1>4, InductiveInvariant, PTL DEF Spec

-----------------------------------------------------------------------------
(* What replanning keeps. *)

(* Plans as recovery knows them, and results of steps of the plan.         *)
Planned(c) ==
    /\ c.plan \in RecoveryPlans /\ IsFiniteSet(c.plan.steps)
    /\ c.ok \subseteq c.plan.steps /\ c.failed \subseteq c.plan.steps

(* The plan of call j, replanned from that of call i outside it: its LLM   *)
(* steps, its order and its confidence are kept, and what it lacks failed. *)
Kept(s, i, j) ==
    LET outer == s[i].plan
        inner == s[j].plan
    IN  /\ inner.llm = outer.llm /\ inner.confident = outer.confident
        /\ \A t \in inner.steps :
              InPlanDeps(inner, t) = InPlanDeps(outer, t) \cap inner.steps
        /\ inner.steps \subseteq outer.steps
        /\ outer.steps \ inner.steps \subseteq UNION {s[k].failed : k \in i..(j - 1)}

WellKept(s) ==
    /\ \A i \in 1..Len(s) : Planned(s[i])
    /\ \A i, j \in 1..Len(s) : i < j => Kept(s, i, j)

AllKept == \A q \in Requests : WellKept(stack[q])

(* Without a crash nobody leaves a count behind, and who answers is sure.  *)
NoCrash == \A r \in Requests : ended[r] # "crashed"

CountAtZero ==
    NoCrash /\ MaxRounds > 0 =>
        /\ reflectionCount = 0
        /\ \A q \in Requests : \A i \in 1..Len(stack[q]) :
              stack[q][i].stage = "finishing" => stack[q][i].plan.confident

(* The least-number principle, for sets of numbers. *)
LEMMA Smallest ==
    ASSUME NEW T \in SUBSET Nat, T # {}
    PROVE  \E m \in T : \A k \in T : m <= k
<1> DEFINE R == {x \in Nat \X Nat : x[1] < x[2]}
<1>1. IsWellFoundedOn(R, Nat)
    BY NatLessThanWellFounded DEF OpToRel
<1> HIDE DEF R
<1>2. PICK m \in T : \A k \in T : <<k, m>> \notin R
    BY <1>1, WFMin
<1>3. ASSUME NEW k \in T PROVE m <= k
    <2>1. ~(k < m)
        BY <1>2 DEF R
    <2> QED BY <2>1
<1> QED BY <1>3

(* There is always another model: the plan is never simplified. *)
LEMMA AnotherModel ==
    ASSUME NEW p
    PROVE  /\ SubstituteModel(p) # {}
           /\ \A q \in SubstituteModel(p) : \E m \in Range(FallbackModels) :
                 q = [p EXCEPT !.model = m]
<1> DEFINE others == {i \in DOMAIN FallbackModels : FallbackModels[i] # p.model}
<1>1. DOMAIN FallbackModels \subseteq Nat
    BY FallbackAssumption
<1>2. others # {} /\ others \in SUBSET Nat
    BY <1>1, FallbackAssumption
<1>3. PICK i \in others : \A j \in others : i <= j
    <2> HIDE DEF others
    <2> QED BY <1>2, Smallest
<1>4. \A k \in others : FallbackModels[k] \in Range(FallbackModels)
    BY DEF Range
<1> QED BY <1>3, <1>4 DEF SubstituteModel

(* A failed step always leads to another plan. *)
LEMMA ReplanFinds ==
    ASSUME NEW p, NEW failed, failed # {}
    PROVE  Replan(p, failed) # {}
BY AnotherModel DEF Replan

LEMMA ReplanMakes ==
    ASSUME NEW p, NEW failed, NEW q \in Replan(p, failed)
    PROVE  \/ q \in RemoveFailedSteps(p, failed)
           \/ \E m \in Range(FallbackModels) : q = [p EXCEPT !.model = m]
BY AnotherModel DEF Replan

(* What one replanning makes of a plan. *)
LEMMA ReplanDerives ==
    ASSUME NEW p \in RecoveryPlans, IsFiniteSet(p.steps),
           NEW failed \in SUBSET p.steps, NEW q \in Replan(p, failed)
    PROVE  /\ q \in RecoveryPlans /\ IsFiniteSet(q.steps)
           /\ q.llm = p.llm /\ q.confident = p.confident
           /\ \A t \in q.steps : InPlanDeps(q, t) = InPlanDeps(p, t) \cap q.steps
           /\ q.steps \subseteq p.steps /\ p.steps \ q.steps \subseteq failed
<1>1. CASE q \in RemoveFailedSteps(p, failed)
    <2> DEFINE gone == failed \ p.llm
    <2>1. q = [p EXCEPT !.steps = p.steps \ gone,
                        !.deps = [s \in DOMAIN p.deps |-> p.deps[s] \ gone]]
        BY <1>1 DEF RemoveFailedSteps
    <2>2. p.llm \subseteq p.steps /\ p.deps \in [PlanIds -> SUBSET PlanIds]
        BY DEF RecoveryPlans
    <2>3. /\ q.steps = p.steps \ gone /\ q.llm = p.llm /\ q.confident = p.confident
          /\ q.deps = [s \in PlanIds |-> p.deps[s] \ gone]
        BY <2>1, <2>2 DEF RecoveryPlans
    <2>4. q \in RecoveryPlans
        BY <2>1, <2>2, <2>3 DEF RecoveryPlans
    <2>5. IsFiniteSet(q.steps)
        BY <2>3, FS_Subset
    <2>6. p.steps \subseteq PlanIds
        BY DEF RecoveryPlans
    <2>7. \A t \in q.steps : InPlanDeps(q, t) = InPlanDeps(p, t) \cap q.steps
        BY <2>3, <2>6 DEF InPlanDeps
    <2> QED BY <2>3, <2>4, <2>5, <2>7
<1>2. ASSUME NEW m \in Range(FallbackModels), q = [p EXCEPT !.model = m]
      PROVE  /\ q \in RecoveryPlans
             /\ q.steps = p.steps /\ q.deps = p.deps /\ q.llm = p.llm
             /\ q.confident = p.confident
    <2>1. m \in PlanModels
        BY DEF PlanModels
    <2> QED BY <1>2, <2>1 DEF RecoveryPlans
<1>3. CASE \E m \in Range(FallbackModels) : q = [p EXCEPT !.model = m]
    BY <1>2, <1>3 DEF InPlanDeps
<1> QED BY <1>1, <1>3, ReplanMakes

-----------------------------------------------------------------------------
(* Stacks of kept plans. *)

(* Fewer calls, of the same plans, only the last of them with new results. *)
LEMMA SamePlans ==
    ASSUME NEW S, NEW T, NEW s \in Seq(S), NEW t \in Seq(T), Len(t) <= Len(s), WellKept(s),
           \A i \in 1..Len(t) :
              /\ t[i].plan = s[i].plan /\ Planned(t[i])
              /\ i < Len(t) => t[i].failed = s[i].failed
    PROVE  WellKept(t)
<1>1. Len(s) \in Nat /\ Len(t) \in Nat
    BY Lengths
<1>2. ASSUME NEW i \in 1..Len(t), NEW j \in 1..Len(t), i < j
      PROVE  Kept(t, i, j)
    <2>1. i \in 1..Len(s) /\ j \in 1..Len(s) /\ t[i].plan = s[i].plan /\ t[j].plan = s[j].plan
        BY <1>1
    <2>2. \A k \in i..(j - 1) : t[k].failed = s[k].failed
        <3>1. \A k \in i..(j - 1) : k \in 1..Len(t) /\ k < Len(t)
            BY <1>1
        <3> QED BY <3>1
    <2>3. UNION {t[k].failed : k \in i..(j - 1)} = UNION {s[k].failed : k \in i..(j - 1)}
        BY <2>2
    <2>4. Kept(s, i, j)
        BY <1>2, <2>1 DEF WellKept
    <2> QED BY <2>1, <2>3, <2>4 DEF Kept
<1> QED BY <1>2 DEF WellKept

(* One call more, of a plan made from that of the last. *)
LEMMA OneMoreCall ==
    ASSUME NEW S, NEW s \in Seq(S), NEW c \in S, WellKept(s), Planned(c),
           s # <<>> => \E failed \in SUBSET s[Len(s)].failed : c.plan \in Replan(s[Len(s)].plan, failed)
                       \/ c.plan = s[Len(s)].plan
    PROVE  WellKept(Append(s, c))
<1> DEFINE n == Len(s)
           t == Append(s, c)
<1>1. /\ n \in Nat /\ (s # <<>> <=> n > 0)
      /\ Len(t) = n + 1 /\ t[n + 1] = c /\ \A i \in 1..n : t[i] = s[i]
    BY Lengths, Pushed
<1> HIDE DEF n, t
<1>2. \A i \in 1..n : Planned(s[i])
    BY DEF WellKept, n
<1>3. \A i, j \in 1..n : i < j => Kept(s, i, j)
    BY DEF WellKept, n
<1>4. ASSUME NEW i \in 1..n, NEW j \in 1..n, i < j PROVE Kept(t, i, j)
    <2>1. t[i] = s[i] /\ t[j] = s[j] /\ \A k \in i..(j - 1) : t[k] = s[k]
        <3>1. \A k \in i..(j - 1) : k \in 1..n
            BY <1>1
        <3> QED BY <1>1, <3>1
    <2>2. {t[k].failed : k \in i..(j - 1)} = {s[k].failed : k \in i..(j - 1)}
        BY <2>1
    <2>3. Kept(s, i, j)
        BY <1>3, <1>4
    <2> QED BY <2>1, <2>2, <2>3 DEF Kept
<1> DEFINE Derived(p, q, lost) ==
              /\ q.llm = p.llm /\ q.confident = p.confident
              /\ \A x \in q.steps : InPlanDeps(q, x) = InPlanDeps(p, x) \cap q.steps
              /\ q.steps \subseteq p.steps /\ p.steps \ q.steps \subseteq lost
<1>5. CASE n > 0
    <2>1. n \in 1..n /\ s # <<>>
        BY <1>1, <1>5
    <2>2. Planned(s[n])
        BY <1>2, <2>1
    <2>3. Derived(s[n].plan, c.plan, s[n].failed)
        <3>1. CASE c.plan = s[n].plan
            BY <3>1 DEF InPlanDeps
        <3>2. ASSUME NEW failed \in SUBSET s[n].failed, c.plan \in Replan(s[n].plan, failed)
              PROVE  Derived(s[n].plan, c.plan, s[n].failed)
            <4>1. failed \in SUBSET s[n].plan.steps
                BY <2>2 DEF Planned
            <4> QED BY <2>2, <3>2, <4>1, ReplanDerives DEF Planned
        <3> QED BY <2>1, <3>1, <3>2 DEF n
    <2>4. ASSUME NEW i \in 1..n PROVE Kept(t, i, n + 1)
        <3> DEFINE lost == UNION {t[k].failed : k \in i..n}
        <3>1. t[i] = s[i] /\ t[n] = s[n] /\ t[n + 1] = c /\ (n + 1) - 1 = n
            BY <1>1, <2>1
        <3>2. s[n].failed \subseteq lost
            <4>1. n \in i..n
                BY <1>1
            <4> QED BY <3>1, <4>1
        <3>3. CASE i = n
            BY <2>3, <3>1, <3>2, <3>3 DEF Kept
        <3>4. CASE i # n
            <4>1. i < n
                BY <1>1, <3>4
            <4>2. Kept(t, i, n)
                BY <1>4, <2>1, <4>1
            <4>3. UNION {t[k].failed : k \in i..(n - 1)} \subseteq lost
                <5>1. i..(n - 1) \subseteq i..n
                    BY <1>1
                <5> QED BY <5>1
            <4>4. Derived(s[i].plan, s[n].plan, lost)
                BY <3>1, <4>2, <4>3 DEF Kept
            <4> HIDE DEF lost
            <4>5. Derived(s[i].plan, c.plan, lost)
                BY <2>3, <3>2, <4>4
            <4> QED BY <3>1, <4>5 DEF Kept, lost
        <3> QED BY <3>3, <3>4
    <2>5. ASSUME NEW i \in 1..(n + 1), NEW j \in 1..(n + 1), i < j PROVE Kept(t, i, j)
        <3>1. i \in 1..n /\ (j \in 1..n \/ j = n + 1)
            BY <1>1, <2>5
        <3> QED BY <1>4, <2>4, <2>5, <3>1
    <2>6. \A i \in 1..(n + 1) : Planned(t[i])
        BY <1>1, <1>2
    <2> QED BY <1>1, <2>5, <2>6 DEF WellKept, t
<1>6. CASE n = 0
    <2>1. \A i \in 1..Len(t) : i = 1 /\ t[i] = c
        BY <1>1, <1>6
    <2> QED BY <2>1 DEF WellKept, t
<1> QED BY <1>1, <1>5, <1>6

-----------------------------------------------------------------------------
(* What the calls of a request do to it. *)

LEMMA StackKept ==
    ASSUME NEW P, NEW U, Typed(P, U), AllKept, NEW r \in Requests, NEW new,
           stack' = [stack EXCEPT ![r] = new], WellKept(new)
    PROVE  AllKept'
<1>1. stack'[r] = new /\ \A q \in Requests \ {r} : stack'[q] = stack[q]
    BY DEF Typed
<1> QED BY <1>1 DEF AllKept

LEMMA TopIsPlanned ==
    ASSUME NEW P, NEW U, Typed(P, U), AllKept, NEW r \in Requests, stack[r] # <<>>
    PROVE  /\ Len(stack[r]) \in Nat \ {0} /\ stack[r] \in Seq(CallSet(P, U))
           /\ Top(r) = stack[r][Len(stack[r])]
           /\ Top(r) \in CallSet(P, U) /\ Planned(Top(r))
<1>1. Len(stack[r]) \in Nat \ {0} /\ Top(r) = stack[r][Len(stack[r])] /\ Top(r) \in CallSet(P, U)
    BY TopOf
<1>2. Len(stack[r]) \in 1..Len(stack[r])
    BY <1>1
<1>3. stack[r] \in Seq(CallSet(P, U))
    BY DEF Typed
<1> QED BY <1>1, <1>2, <1>3 DEF AllKept, WellKept

(* The innermost call goes on with its plan. *)
LEMMA TopKept ==
    ASSUME NEW P, NEW U, NEW V, U \subseteq V, Typed(P, U), AllKept, NEW r \in Requests,
           stack[r] # <<>>, NEW c \in CallSet(P, V), c.plan = Top(r).plan, Planned(c)
    PROVE  WellKept(WithTop(r, c))
<1> DEFINE s == stack[r]
           n == Len(s)
           t == WithTop(r, c)
<1>1. /\ n \in Nat \ {0} /\ s \in Seq(CallSet(P, U)) /\ Top(r) = s[n]
    BY TopIsPlanned
<1>2. /\ t \in Seq(CallSet(P, V)) /\ Len(t) = n /\ t[n] = c /\ \A i \in 1..(n - 1) : t[i] = s[i]
    BY TopChanged
<1>3. WellKept(s)
    BY DEF AllKept
<1>4. \A i \in 1..n : Planned(s[i])
    BY <1>3 DEF WellKept
<1> HIDE DEF s, t, n
<1>5. ASSUME NEW i \in 1..n
      PROVE  t[i].plan = s[i].plan /\ Planned(t[i]) /\ (i < n => t[i].failed = s[i].failed)
    <2>1. CASE i = n
        BY <1>1, <1>2, <2>1
    <2>2. CASE i # n
        <3>1. i \in 1..(n - 1)
            BY <1>1, <2>2
        <3> QED BY <1>2, <1>4, <3>1
    <2> QED BY <2>1, <2>2
<1>6. Len(t) <= Len(s)
    BY <1>1, <1>2 DEF n
<1>7. WellKept(t)
    BY <1>1, <1>2, <1>3, <1>5, <1>6, SamePlans
<1> QED BY <1>7 DEF t

(* execute_plan is called over the calls of r, for a plan of the last one. *)
LEMMA RecurseKept ==
    ASSUME NEW P, NEW U, Typed(P, U), AllKept, NEW r \in Requests,
           NEW calls \in Seq(CallSet(P, U)), WellKept(calls),
           NEW p \in RecoveryPlans, IsFiniteSet(p.steps),
           calls # <<>> => \/ p \in Replan(calls[Len(calls)].plan, calls[Len(calls)].failed)
                           \/ p = calls[Len(calls)].plan,
           NEW count, Recurse(r, calls, p, count)
    PROVE  AllKept'
<1>1. CASE ExecutePlan(r, calls, p, count)
    <2> DEFINE new == Call(started[r] + 1, p)
               S == CallSet(P, U) \cup {new}
    <2>1. stack' = [stack EXCEPT ![r] = Append(calls, new)]
        BY <1>1 DEF ExecutePlan
    <2>2. new.plan = p /\ Planned(new)
        BY DEF Call, Planned
    <2>3. CallSet(P, U) \subseteq S /\ new \in S
        OBVIOUS
    <2> HIDE DEF new, S
    <2>4. calls \in Seq(S)
        BY <2>3, SeqMonotonic
    <2>5. calls # <<>> => \E failed \in SUBSET calls[Len(calls)].failed :
                             \/ new.plan \in Replan(calls[Len(calls)].plan, failed)
                             \/ new.plan = calls[Len(calls)].plan
        BY <2>2
    <2>6. WellKept(Append(calls, new))
        BY <2>2, <2>3, <2>4, <2>5, OneMoreCall
    <2> QED BY <2>1, <2>6, StackKept
<1>2. CASE Overflow(r, calls, count)
    <2>1. stack' = [stack EXCEPT ![r] = <<>>]
        BY <1>2 DEF Overflow
    <2>2. WellKept(<<>>)
        BY DEF WellKept
    <2> QED BY <2>1, <2>2, StackKept
<1> QED BY <1>1, <1>2 DEF Recurse

(* Its reset forgets the count, unless it crashes. *)
LEMMA RecurseCount ==
    ASSUME NEW P, NEW U, Typed(P, U), CountAtZero, NEW r \in Requests,
           NEW calls \in Seq(CallSet(P, U)), \A i \in 1..Len(calls) : calls[i].stage \in Waiting,
           NEW p, NEW count, Recurse(r, calls, p, count)
    PROVE  CountAtZero'
<1>1. CASE ExecutePlan(r, calls, p, count)
    <2> DEFINE new == Call(started[r] + 1, p)
               t == Append(calls, new)
    <2>1. /\ stack' = [stack EXCEPT ![r] = t]
          /\ reflectionCount' = 0 /\ ended' = ended
        BY <1>1 DEF ExecutePlan, Reset
    <2>2. new.stage = "scheduled"
        BY DEF Call
    <2> HIDE DEF new
    <2>3. Len(calls) \in Nat /\ Len(t) = Len(calls) + 1 /\ t[Len(calls) + 1] = new
          /\ \A i \in 1..Len(calls) : t[i] = calls[i]
        OBVIOUS
    <2>4. \A i \in 1..Len(t) : t[i].stage # "finishing"
        BY <2>2, <2>3 DEF Waiting
    <2>5. stack'[r] = t /\ \A q \in Requests \ {r} : stack'[q] = stack[q]
        BY <2>1 DEF Typed
    <2> HIDE DEF t
    <2>6. NoCrash' => NoCrash
        BY <2>1 DEF NoCrash
    <2> QED BY <2>1, <2>4, <2>5, <2>6 DEF CountAtZero
<1>2. CASE Overflow(r, calls, count)
    <2>1. ended' = [ended EXCEPT ![r] = "crashed"]
        BY <1>2 DEF Overflow
    <2>2. ended'[r] = "crashed"
        BY <2>1 DEF Typed
    <2> QED BY <2>2 DEF CountAtZero, NoCrash
<1> QED BY <1>1, <1>2 DEF Recurse

(* The innermost call goes on, and the count stays. *)
LEMMA TopCount ==
    ASSUME NEW P, NEW U, NEW V, U \subseteq V, Typed(P, U), IInv, CountAtZero, NEW r \in Requests,
           stack[r] # <<>>, NEW c \in CallSet(P, V),
           stack' = [stack EXCEPT ![r] = WithTop(r, c)], ended' = ended,
           NoCrash /\ MaxRounds > 0 =>
              reflectionCount' = reflectionCount /\ (c.stage = "finishing" => c.plan.confident)
    PROVE  CountAtZero'
<1> DEFINE n == Len(stack[r])
<1>1. /\ Len(WithTop(r, c)) = n /\ WithTop(r, c)[n] = c
      /\ \A i \in 1..(n - 1) : WithTop(r, c)[i] = stack[r][i]
    BY TopChanged
<1>2. stack'[r] = WithTop(r, c) /\ \A q \in Requests \ {r} : stack'[q] = stack[q]
    BY DEF Typed
<1>3. n \in Nat
    BY TopOf
<1>4. NoCrash' => NoCrash
    BY DEF NoCrash
<1> SUFFICES ASSUME NoCrash, MaxRounds > 0
             PROVE  /\ reflectionCount' = 0
                    /\ \A q \in Requests : \A i \in 1..Len(stack'[q]) :
                          stack'[q][i].stage = "finishing" => stack'[q][i].plan.confident
    BY <1>4 DEF CountAtZero
<1>5. reflectionCount' = 0 /\ (c.stage = "finishing" => c.plan.confident)
    BY DEF CountAtZero
<1>6. ASSUME NEW i \in 1..n, WithTop(r, c)[i].stage = "finishing"
      PROVE  WithTop(r, c)[i].plan.confident
    <2>1. CASE i = n
        BY <1>1, <1>5, <1>6, <2>1
    <2>2. CASE i # n
        <3>1. i \in 1..(n - 1) /\ i \in 1..n
            BY <1>3, <2>2
        <3> QED BY <1>1, <1>6, <3>1 DEF CountAtZero
    <2> QED BY <2>1, <2>2
<1> HIDE DEF n
<1> QED BY <1>1, <1>2, <1>5, <1>6 DEF CountAtZero

-----------------------------------------------------------------------------
(* The inductive invariant of both. *)
KeptIInv == IInv /\ AllKept /\ CountAtZero

LEMMA ArriveKept ==
    ASSUME KeptIInv, NEW r \in Requests, Arrive(r)
    PROVE  AllKept' /\ CountAtZero'
<1>1. PICK P, U : Typed(P, U)
    BY DEF KeptIInv, IInv
<1>2. PICK p \in BrainPlans : ExecutePlan(r, <<>>, p, reflectionCount)
    BY DEF Arrive
<1> DEFINE none == <<>>
<1>3. none \in Seq(CallSet(P, U)) /\ Len(none) = 0 /\ WellKept(none)
      /\ \A i \in 1..Len(none) : none[i].stage \in Waiting
    BY DEF WellKept
<1>4. Recurse(r, none, p, reflectionCount)
    BY <1>2 DEF Recurse
<1>5. p \in RecoveryPlans /\ IsFiniteSet(p.steps) /\ none = <<>>
    BY PlansAssumption
<1> HIDE DEF none
<1> QED BY <1>1, <1>3, <1>4, <1>5, RecurseKept, RecurseCount DEF KeptIInv

LEMMA SchedulerReturnsKept ==
    ASSUME KeptIInv, NEW r \in Requests, SchedulerReturns(r)
    PROVE  AllKept' /\ CountAtZero'
<1>1. PICK P, U : Typed(P, U)
    BY DEF KeptIInv, IInv
<1>2. PICK res \in Results(Top(r).plan) :
          stack' = [stack EXCEPT ![r] =
                       WithTop(r, [Top(r) EXCEPT !.ok = res.ok, !.failed = res.failed,
                                                 !.stage = "returned"])]
    BY DEF SchedulerReturns
<1>3. stack[r] # <<>> /\ ended' = ended /\ reflectionCount' = reflectionCount
    BY DEF SchedulerReturns
<1>4. Top(r) \in CallSet(P, U) /\ Planned(Top(r))
    BY <1>1, <1>3, TopIsPlanned DEF KeptIInv
<1>5. res.ok \subseteq Top(r).plan.steps /\ res.failed \subseteq Top(r).plan.steps
    BY DEF Results
<1> DEFINE V == U \cup {res.ok, res.failed}
<1> DEFINE c == [Top(r) EXCEPT !.ok = res.ok, !.failed = res.failed, !.stage = "returned"]
<1>6. U \subseteq V /\ res.ok \in V /\ res.failed \in V
    OBVIOUS
<1> HIDE DEF V
<1>7. c \in CallSet(P, V) /\ c.plan = Top(r).plan /\ c.ok = res.ok /\ c.failed = res.failed
      /\ c.stage = "returned"
    BY <1>4, <1>6 DEF CallSet, Stages
<1>8. stack' = [stack EXCEPT ![r] = WithTop(r, c)]
    BY <1>2
<1> HIDE DEF c
<1>9. Planned(c)
    BY <1>4, <1>5, <1>7 DEF Planned
<1>10. WellKept(WithTop(r, c))
    BY <1>1, <1>3, <1>6, <1>7, <1>9, TopKept DEF KeptIInv
<1>11. AllKept'
    BY <1>1, <1>8, <1>10, StackKept DEF KeptIInv
<1>12. CountAtZero'
    BY <1>1, <1>3, <1>6, <1>7, <1>8, TopCount DEF KeptIInv
<1> QED BY <1>11, <1>12

(* The innermost call moves to another stage or state. *)
LEMMA TopMoves ==
    ASSUME NEW P, NEW U, Typed(P, U), AllKept, NEW r \in Requests, stack[r] # <<>>,
           NEW c \in CallSet(P, U),
           c.plan = Top(r).plan, c.ok = Top(r).ok, c.failed = Top(r).failed
    PROVE  WellKept(WithTop(r, c))
<1>1. Planned(Top(r))
    BY TopIsPlanned
<1>2. Planned(c)
    BY <1>1 DEF Planned
<1> QED BY <1>2, TopKept

LEMMA RespondKept ==
    ASSUME KeptIInv, NEW r \in Requests, At(r, "returned"),
           NEW state \in States, NEW contents, Respond(r, state, contents)
    PROVE  AllKept' /\ CountAtZero'
<1>1. PICK P, U : Typed(P, U)
    BY DEF KeptIInv, IInv
<1>2. stack[r] # <<>>
    BY HasTurn DEF At, KeptIInv
<1>3. Top(r) \in CallSet(P, U)
    BY <1>1, <1>2, TopIsPlanned DEF KeptIInv
<1> DEFINE c == [Top(r) EXCEPT !.state = state, !.stage = "evaluating"]
<1>4. /\ stack' = [stack EXCEPT ![r] = WithTop(r, c)] /\ ended' = ended
      /\ reflectionCount' = reflectionCount
    BY DEF Respond
<1>5. /\ c \in CallSet(P, U) /\ c.stage = "evaluating"
      /\ c.plan = Top(r).plan /\ c.ok = Top(r).ok /\ c.failed = Top(r).failed
    BY <1>3 DEF CallSet, Stages
<1> HIDE DEF c
<1>6. WellKept(WithTop(r, c))
    BY <1>1, <1>2, <1>5, TopMoves DEF KeptIInv
<1>7. AllKept'
    BY <1>1, <1>4, <1>6, StackKept DEF KeptIInv
<1>8. CountAtZero'
    BY <1>1, <1>2, <1>4, <1>5, TopCount DEF KeptIInv
<1> QED BY <1>7, <1>8

(* Recovery and reflection call execute_plan for a plan made from that of  *)
(* the innermost call, or for that plan itself.                            *)
LEMMA CallAgainKept ==
    ASSUME KeptIInv, NEW P, NEW U, Typed(P, U), NEW r \in Requests, stack[r] # <<>>,
           NEW c \in CallSet(P, U), c.stage \in Waiting,
           c.plan = Top(r).plan, c.ok = Top(r).ok, c.failed = Top(r).failed,
           NEW p \in Replan(c.plan, c.failed) \cup {c.plan},
           NEW count, Recurse(r, WithTop(r, c), p, count)
    PROVE  AllKept' /\ CountAtZero'
<1> DEFINE calls == WithTop(r, c)
<1>1. WellKept(calls)
    BY TopMoves DEF KeptIInv
<1>2. /\ calls \in Seq(CallSet(P, U)) /\ Len(calls) = Len(stack[r])
      /\ \A i \in 1..Len(stack[r]) : calls[i].stage \in Waiting
    BY CallsWait DEF KeptIInv, IInv
<1>3. calls[Len(stack[r])] = c
    BY TopChanged
<1>4. Recurse(r, calls, p, count)
    OBVIOUS
<1> HIDE DEF calls
<1>5. p \in RecoveryPlans /\ IsFiniteSet(p.steps)
    <2>1. Planned(Top(r))
        BY TopIsPlanned DEF KeptIInv
    <2>2. c.plan \in RecoveryPlans /\ IsFiniteSet(c.plan.steps) /\ c.failed \in SUBSET c.plan.steps
        BY <2>1 DEF Planned
    <2>3. CASE p \in Replan(c.plan, c.failed)
        BY <2>2, <2>3, ReplanDerives
    <2> QED BY <2>2, <2>3
<1>6. \/ p \in Replan(calls[Len(calls)].plan, calls[Len(calls)].failed)
      \/ p = calls[Len(calls)].plan
    BY <1>2, <1>3
<1>7. AllKept'
    BY <1>1, <1>2, <1>4, <1>5, <1>6, RecurseKept DEF KeptIInv
<1>8. CountAtZero'
    BY <1>2, <1>4, RecurseCount DEF KeptIInv
<1> QED BY <1>7, <1>8

LEMMA HandleFailureKept ==
    ASSUME KeptIInv, NEW r \in Requests, HandleFailure(r)
    PROVE  AllKept' /\ CountAtZero'
<1>1. PICK errors \in (SUBSET Kinds) \ {{}} :
        LET action == RecommendAction(Classify(errors), Top(r))
            state  == IF action = "REPLAN" THEN "REPLANNING" ELSE "RUNNING"
            next   == Replan(Top(r).plan, Top(r).failed)
            calls  == WithTop(r, [Top(r) EXCEPT !.state = state, !.stage = "recovering"])
        IN  \/ Respond(r, "COMPLETED", Aggregated(Top(r)))
            \/ Respond(r, "FAILED", ErrorContent(Top(r)))
            \/ \E p \in next : Recurse(r, calls, p, reflectionCount)
    BY DEF HandleFailure
<1>2. At(r, "returned") /\ stack[r] # <<>>
    BY HasTurn DEF HandleFailure, At, KeptIInv
<1>3. {"COMPLETED", "FAILED", "REPLANNING", "RUNNING"} \subseteq States
    BY DEF States
<1>4. CASE Respond(r, "COMPLETED", Aggregated(Top(r)))
    BY <1>2, <1>3, <1>4, RespondKept
<1>5. CASE Respond(r, "FAILED", ErrorContent(Top(r)))
    BY <1>2, <1>3, <1>5, RespondKept
<1>6. ASSUME NEW state \in {"REPLANNING", "RUNNING"},
             NEW p \in Replan(Top(r).plan, Top(r).failed),
             Recurse(r, WithTop(r, [Top(r) EXCEPT !.state = state, !.stage = "recovering"]),
                     p, reflectionCount)
      PROVE  AllKept' /\ CountAtZero'
    <2>1. PICK P, U : Typed(P, U)
        BY DEF KeptIInv, IInv
    <2>2. Top(r) \in CallSet(P, U)
        BY <1>2, <2>1, TopIsPlanned DEF KeptIInv
    <2> DEFINE c == [Top(r) EXCEPT !.state = state, !.stage = "recovering"]
    <2>3. /\ c \in CallSet(P, U) /\ c.stage \in Waiting
          /\ c.plan = Top(r).plan /\ c.ok = Top(r).ok /\ c.failed = Top(r).failed
        BY <2>2 DEF CallSet, Stages, States, Waiting
    <2>4. Recurse(r, WithTop(r, c), p, reflectionCount)
        BY <1>6
    <2> HIDE DEF c
    <2>5. p \in Replan(c.plan, c.failed) \cup {c.plan}
        BY <2>3
    <2> QED BY <1>2, <2>1, <2>3, <2>4, <2>5, CallAgainKept
<1> QED BY <1>1, <1>4, <1>5, <1>6

(* A response is not accepted for want of another plan: evaluate finds an  *)
(* issue other than the ratio of failures and asks for more heat, or more  *)
(* steps failed than not, and then there is another plan.                  *)
LEMMA NeverForWantOfPlan ==
    ASSUME NEW c, Planned(c), NEW content, ~HigherTemp(c, content, 1),
           Replan(c.plan, c.failed) = {}
    PROVE  FALSE
<1>1. HighFailureRatio(c)
    BY DEF HigherTemp
<1>2. c.failed = {}
    BY ReplanFinds
<1>3. IsFiniteSet(c.ok)
    BY FS_Subset DEF Planned
<1>4. Cardinality(c.failed) = 0 /\ c.ok \cup c.failed = c.ok /\ Cardinality(c.ok) \in Nat
    BY <1>2, <1>3, FS_EmptySet, FS_CardinalityType
<1> QED BY <1>1, <1>4 DEF HighFailureRatio

LEMMA AcceptKept ==
    ASSUME KeptIInv, NEW r \in Requests, Accept(r)
    PROVE  AllKept' /\ CountAtZero'
<1>1. PICK P, U : Typed(P, U)
    BY DEF KeptIInv, IInv
<1>2. stack[r] # <<>>
    BY HasTurn DEF Accept, At, KeptIInv
<1>3. Top(r) \in CallSet(P, U) /\ Planned(Top(r))
    BY <1>1, <1>2, TopIsPlanned DEF KeptIInv
<1> DEFINE c == [Top(r) EXCEPT !.stage = "finishing"]
<1>4. stack' = [stack EXCEPT ![r] = WithTop(r, c)] /\ ended' = ended
    BY DEF Accept
<1>5. /\ c \in CallSet(P, U)
      /\ c.plan = Top(r).plan /\ c.ok = Top(r).ok /\ c.failed = Top(r).failed
    BY <1>3 DEF CallSet, Stages
<1> HIDE DEF c
<1>6. WellKept(WithTop(r, c))
    BY <1>1, <1>2, <1>5, TopMoves DEF KeptIInv
<1>7. AllKept'
    BY <1>1, <1>4, <1>6, StackKept DEF KeptIInv
<1>8. ASSUME NoCrash, MaxRounds > 0
      PROVE  reflectionCount' = reflectionCount /\ Top(r).plan.confident
    <2>1. reflectionCount = 0
        BY <1>8 DEF KeptIInv, CountAtZero
    <2>2. ~LimitReached
        BY <1>8, <2>1, MaxRoundsAssumption DEF LimitReached
    <2> DEFINE content == reply[r].content
    <2>3. ~(~HigherTemp(Top(r), content, reflectionCount + 1)
            /\ Replan(Top(r).plan, Top(r).failed) = {})
        BY <1>3, <2>1, NeverForWantOfPlan
    <2>4. NoIssue(Top(r), content) /\ reflectionCount' = reflectionCount
        BY <2>2, <2>3 DEF Accept
    <2> QED BY <2>4 DEF NoIssue
<1>9. CountAtZero'
    BY <1>1, <1>2, <1>4, <1>5, <1>8, TopCount DEF KeptIInv
<1> QED BY <1>7, <1>9

LEMMA ReflectKept ==
    ASSUME KeptIInv, NEW r \in Requests, Reflect(r)
    PROVE  AllKept' /\ CountAtZero'
<1>1. PICK P, U : Typed(P, U)
    BY DEF KeptIInv, IInv
<1>2. stack[r] # <<>>
    BY HasTurn DEF Reflect, At, KeptIInv
<1>3. Top(r) \in CallSet(P, U)
    BY <1>1, <1>2, TopIsPlanned DEF KeptIInv
<1> DEFINE c == [Top(r) EXCEPT !.stage = "reflecting"]
<1>4. PICK p \in Replan(Top(r).plan, Top(r).failed) \cup {Top(r).plan} :
          Recurse(r, WithTop(r, c), p, reflectionCount + 1)
    BY DEF Reflect
<1>5. /\ c \in CallSet(P, U) /\ c.stage \in Waiting
      /\ c.plan = Top(r).plan /\ c.ok = Top(r).ok /\ c.failed = Top(r).failed
    BY <1>3 DEF CallSet, Stages, Waiting
<1> HIDE DEF c
<1>6. p \in Replan(c.plan, c.failed) \cup {c.plan}
    BY <1>4, <1>5
<1> QED BY <1>1, <1>2, <1>4, <1>5, <1>6, CallAgainKept

LEMMA FinishKept ==
    ASSUME KeptIInv, NEW r \in Requests, Finish(r)
    PROVE  AllKept' /\ CountAtZero'
<1>1. PICK P, U : Typed(P, U)
    BY DEF KeptIInv, IInv
<1>2. stack[r] # <<>> /\ Top(r).stage = "finishing" /\ ended[r] = "no"
    BY HasTurn DEF Finish, At, KeptIInv
<1> DEFINE s == stack[r]
           n == Len(s)
           outer == Front(s)
<1>3. s \in Seq(CallSet(P, U)) /\ n \in Nat \ {0} /\ s[n].stage = "finishing"
    BY <1>1, <1>2, TopIsPlanned DEF KeptIInv
<1>4. outer \in Seq(CallSet(P, U)) /\ Len(outer) = n - 1 /\ \A i \in 1..(n - 1) : outer[i] = s[i]
    BY <1>2, <1>3, Fronted
<1>5. /\ WellKept(s)
      /\ \A i \in 1..(n - 1) : s[i].stage \in Waiting
    BY DEF KeptIInv, AllKept, IInv, Sane, Nested
<1>6. reflectionCount' = reflectionCount
    BY DEF Finish
<1>7. \/ outer = <<>> /\ stack' = [stack EXCEPT ![r] = <<>>]
         /\ ended' = [ended EXCEPT ![r] = "answered"]
      \/ outer # <<>> /\ stack' = [stack EXCEPT ![r] = Resume(outer)] /\ ended' = ended
    BY DEF Finish
<1>8. NoCrash' => NoCrash
    BY <1>1, <1>2, <1>7 DEF NoCrash, Typed
<1>9. \A i \in 1..n : Planned(s[i])
    BY <1>5 DEF WellKept
<1>10. NoCrash /\ MaxRounds > 0 => s[n].plan.confident
    BY <1>3 DEF KeptIInv, CountAtZero
<1> HIDE DEF s, n, outer
<1>11. CASE outer = <<>> /\ stack' = [stack EXCEPT ![r] = <<>>]
    <2>1. WellKept(<<>>)
        BY DEF WellKept
    <2>2. AllKept'
        BY <1>1, <1>11, <2>1, StackKept DEF KeptIInv
    <2>3. stack'[r] = <<>> /\ \A q \in Requests \ {r} : stack'[q] = stack[q]
        BY <1>1, <1>11 DEF Typed
    <2>4. Len(stack'[r]) = 0
        BY <2>3
    <2>5. CountAtZero'
        BY <1>6, <1>8, <2>3, <2>4 DEF KeptIInv, CountAtZero
    <2> QED BY <2>2, <2>5
<1>12. CASE outer # <<>> /\ stack' = [stack EXCEPT ![r] = Resume(outer)]
    <2> DEFINE m == n - 1
    <2> DEFINE stage == IF outer[m].stage = "recovering" THEN "evaluating" ELSE "finishing"
    <2> DEFINE c == [outer[m] EXCEPT !.stage = stage]
               t == Resume(outer)
    <2>1. m \in Nat \ {0} /\ Len(outer) = m /\ m \in 1..n /\ m < n
        BY <1>3, <1>4, <1>12
    <2>2. t = [outer EXCEPT ![m] = c]
        BY <2>1 DEF Resume
    <2>3. outer[m] \in CallSet(P, U) /\ outer[m] = s[m]
        <3>1. m \in 1..Len(outer) /\ m \in 1..(n - 1)
            BY <2>1
        <3> HIDE DEF m
        <3> QED BY <1>4, <3>1, Lengths
    <2>4. /\ c \in CallSet(P, U)
          /\ c.plan = s[m].plan /\ c.ok = s[m].ok /\ c.failed = s[m].failed /\ c.stage = stage
        BY <2>3 DEF CallSet, Stages
    <2> HIDE DEF c, t, m, stage
    <2>5. /\ t \in Seq(CallSet(P, U)) /\ Len(t) = m /\ t[m] = c
          /\ \A i \in 1..m : i # m => t[i] = s[i]
        <3>1. m \in 1..Len(outer)
            BY <2>1
        <3>2. t \in Seq(CallSet(P, U)) /\ Len(t) = Len(outer) /\ t[m] = c
              /\ \A i \in 1..Len(outer) : i # m => t[i] = outer[i]
            BY <1>4, <2>2, <2>4, <3>1, PlaceReplaced
        <3> QED BY <1>4, <2>1, <3>2
    <2>6. WellKept(t)
        <3>1. \A i \in 1..m : /\ t[i].plan = s[i].plan /\ Planned(t[i])
                              /\ i < m => t[i].failed = s[i].failed
            <4>1. \A i \in 1..m : i \in 1..n
                BY <1>3, <2>1
            <4> QED BY <1>9, <2>4, <2>5, <4>1 DEF Planned
        <3>2. Len(t) <= Len(s)
            BY <1>3, <2>1, <2>5 DEF n
        <3> QED BY <1>3, <1>5, <2>5, <3>1, <3>2, SamePlans
    <2>7. AllKept'
        BY <1>1, <1>12, <2>6, StackKept DEF KeptIInv, t
    <2>8. stack'[r] = t /\ \A q \in Requests \ {r} : stack'[q] = stack[q]
        BY <1>1, <1>12 DEF Typed, t
    <2>9. s[m].plan.confident = s[n].plan.confident
        <3>1. Kept(s, m, n)
            BY <1>3, <1>5, <2>1 DEF WellKept, n
        <3> QED BY <3>1 DEF Kept
    <2>10. ASSUME NoCrash, MaxRounds > 0, NEW i \in 1..m, t[i].stage = "finishing"
           PROVE  t[i].plan.confident
        <3>1. CASE i = m
            BY <1>10, <2>4, <2>5, <2>9, <2>10, <3>1
        <3>2. CASE i # m
            <4>1. i \in 1..(n - 1)
                BY <1>3, <2>1
            <4>2. t[i].stage \in Waiting
                BY <1>5, <2>5, <3>2, <4>1 DEF s, n
            <4> QED BY <2>10, <4>2 DEF Waiting
        <3> QED BY <3>1, <3>2
    <2>11. CountAtZero'
        <3> SUFFICES ASSUME NoCrash', MaxRounds > 0
                     PROVE  /\ reflectionCount' = 0
                            /\ \A q \in Requests : \A i \in 1..Len(stack'[q]) :
                                  stack'[q][i].stage = "finishing" => stack'[q][i].plan.confident
            BY DEF CountAtZero
        <3>1. NoCrash
            BY <1>8
        <3>2. /\ reflectionCount = 0
              /\ \A q \in Requests : \A i \in 1..Len(stack[q]) :
                    stack[q][i].stage = "finishing" => stack[q][i].plan.confident
            BY <3>1 DEF KeptIInv, CountAtZero
        <3> QED BY <1>6, <2>5, <2>8, <2>10, <3>1, <3>2
    <2> QED BY <2>7, <2>11
<1> QED BY <1>7, <1>11, <1>12

LEMMA NextKept ==
    ASSUME KeptIInv, [Next]_vars
    PROVE  AllKept' /\ CountAtZero'
<1>1. CASE UNCHANGED vars
    BY <1>1 DEF vars, KeptIInv, AllKept, CountAtZero, NoCrash
<1>2. ASSUME NEW r \in Requests, Arrive(r) PROVE AllKept' /\ CountAtZero'
    BY <1>2, ArriveKept
<1>3. ASSUME NEW r \in Requests, Runs(r) PROVE AllKept' /\ CountAtZero'
    <2>1. CASE SchedulerReturns(r)
        BY <2>1, SchedulerReturnsKept
    <2>2. CASE CompletePlan(r)
        <3>1. At(r, "returned") /\ Respond(r, "COMPLETED", Aggregated(Top(r)))
            BY <2>2 DEF CompletePlan
        <3>2. "COMPLETED" \in States
            BY DEF States
        <3> QED BY <3>1, <3>2, RespondKept
    <2>3. CASE HandleFailure(r)
        BY <2>3, HandleFailureKept
    <2>4. CASE Accept(r)
        BY <2>4, AcceptKept
    <2>5. CASE Reflect(r)
        BY <2>5, ReflectKept
    <2>6. CASE Finish(r)
        BY <2>6, FinishKept
    <2> QED BY <1>3, <2>1, <2>2, <2>3, <2>4, <2>5, <2>6 DEF Runs
<1> QED BY <1>1, <1>2, <1>3 DEF Next, AllEnded

LEMMA KeptInvariant == Spec => []KeptIInv
<1>1. Init => AllKept /\ CountAtZero
    <2> SUFFICES ASSUME Init PROVE AllKept /\ CountAtZero
        OBVIOUS
    <2>1. reflectionCount = 0 /\ \A q \in Requests : stack[q] = <<>>
        BY DEF Init
    <2>2. \A q \in Requests : Len(stack[q]) = 0
        BY <2>1
    <2> QED BY <2>1, <2>2 DEF AllKept, WellKept, CountAtZero
<1>2. KeptIInv /\ [Next]_vars => AllKept' /\ CountAtZero'
    BY NextKept
<1>3. KeptIInv <=> IInv /\ AllKept /\ CountAtZero
    BY DEF KeptIInv
<1>4. IInv /\ AllKept /\ CountAtZero /\ [Next]_vars => AllKept' /\ CountAtZero'
    BY <1>2, <1>3
<1>5. Spec => [](IInv /\ AllKept /\ CountAtZero)
    BY <1>1, <1>4, InductiveInvariant, PTL DEF Spec
<1> QED BY <1>3, <1>5, PTL

(* However deep replanning and reflection nest, no LLM step of the         *)
(* request's plan is lost, no dependency changed, and only steps that      *)
(* failed are left out.                                                    *)
THEOREM LLMStepsKept == Spec => []RecoveryKeepsLLMSteps
<1>1. ASSUME KeptIInv, NEW r \in Requests, NEW i \in DOMAIN stack[r], NEW j \in DOMAIN stack[r],
             i < j
      PROVE  /\ Kept(stack[r], i, j)
             /\ stack[r][j].plan.llm \subseteq stack[r][j].plan.steps
    <2>1. PICK P, U : Typed(P, U)
        BY <1>1 DEF KeptIInv, IInv
    <2>2. stack[r] \in Seq(CallSet(P, U))
        BY <2>1 DEF Typed
    <2>3. DOMAIN stack[r] = 1..Len(stack[r])
        BY <2>2
    <2>4. Planned(stack[r][j]) /\ Kept(stack[r], i, j)
        BY <1>1, <2>3 DEF KeptIInv, AllKept, WellKept
    <2> QED BY <2>4 DEF Planned, RecoveryPlans
<1>2. KeptIInv => RecoveryKeepsLLMSteps
    BY <1>1 DEF Kept, RecoveryKeepsLLMSteps
<1> QED BY <1>2, KeptInvariant, PTL

(* Without a crash no reflection ever reaches its limit: every call of     *)
(* execute_plan resets the count, so the only answers are those evaluate   *)
(* finds no issue with, and none is of a plan of low confidence.           *)
THEOREM LimitUnreached == Spec => []LimitNeverReached
<1>1. ASSUME KeptIInv, NoCrash, MaxRounds > 0
      PROVE  /\ reflectionCount = 0
             /\ turn \in Requests /\ Top(turn).stage = "finishing" => Top(turn).plan.confident
    <2>1. reflectionCount = 0
        BY <1>1 DEF KeptIInv, CountAtZero
    <2>2. ASSUME turn \in Requests, Top(turn).stage = "finishing"
          PROVE  Top(turn).plan.confident
        <3>1. PICK P, U : Typed(P, U)
            BY <1>1 DEF KeptIInv, IInv
        <3>2. stack[turn] # <<>>
            BY <1>1, <2>2, HasTurn DEF KeptIInv
        <3>3. Len(stack[turn]) \in Nat \ {0} /\ Top(turn) = stack[turn][Len(stack[turn])]
            BY <2>2, <3>1, <3>2, TopOf
        <3>4. Len(stack[turn]) \in 1..Len(stack[turn])
            BY <3>3
        <3> QED BY <1>1, <2>2, <3>3, <3>4 DEF KeptIInv, CountAtZero
    <2> QED BY <2>1, <2>2
<1>2. KeptIInv => LimitNeverReached
    BY <1>1 DEF LimitNeverReached, NoCrash
<1> QED BY <1>2, KeptInvariant, PTL
=============================================================================
