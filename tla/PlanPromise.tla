----------------------------- MODULE PlanPromise -----------------------------
(***************************************************************************)
(* What the Brain OS scheduler promises of the steps of a plan, without    *)
(* executors, retries or semaphore ("Waves execute sequentially. [...]     *)
(* Stops if a wave fails", execution_scheduler.py:26 and 51): steps are    *)
(* admitted in batches.  A batch begins only when nothing is in flight and *)
(* nothing has failed, and takes every step whose dependencies are met;    *)
(* after a failure the steps not yet admitted are dropped; every step that *)
(* no cycle blocks is settled or dropped in the end.                       *)
(***************************************************************************)
EXTENDS PlanGraph

CONSTANTS Execs, StepIds, Plans

VARIABLES
    plan,    \* the plan of each execution
    open,    \* the executions that have been asked for
    status   \* of each step

vars == <<plan, open, status>>

Statuses == {"waiting", "active", "ok", "failed", "dropped"}

With(e, S) == {s \in plan[e].steps : status[e][s] \in S}

Init ==
    /\ plan \in [Execs -> Plans]
    /\ open = {}
    /\ status = [e \in Execs |-> [s \in StepIds |-> "waiting"]]

Open(e) ==
    /\ e \notin open
    /\ open' = open \cup {e}
    /\ UNCHANGED <<plan, status>>

SetAll(e, S, st) ==
    /\ status' = [status EXCEPT ![e] = [s \in StepIds |-> IF s \in S THEN st ELSE @[s]]]
    /\ UNCHANGED <<plan, open>>

(* The steps whose dependencies have all succeeded begin, together. *)
Admit(e) ==
    LET batch == {s \in With(e, {"waiting"}) : InPlanDeps(plan[e], s) \subseteq With(e, {"ok"})}
    IN  /\ e \in open
        /\ With(e, {"active", "failed"}) = {}
        /\ batch # {}
        /\ SetAll(e, batch, "active")

Settle(e, s) ==
    /\ s \in With(e, {"active"})
    /\ \E st \in {"ok", "failed"} : SetAll(e, {s}, st)

(* No step is in flight and one has failed: the others are given up. *)
Drop(e) ==
    LET rest == With(e, {"waiting"}) \ Blocked(plan[e])
    IN  /\ With(e, {"active"}) = {}
        /\ With(e, {"failed"}) # {}
        /\ rest # {}
        /\ SetAll(e, rest, "dropped")

Next ==
    \E e \in Execs : Open(e) \/ Admit(e) \/ Drop(e) \/ \E s \in StepIds : Settle(e, s)

Fairness ==
    \A e \in Execs :
        /\ WF_vars(Admit(e))
        /\ WF_vars(Drop(e))
        /\ \A s \in StepIds : WF_vars(Settle(e, s))

(* What may happen, and what must. *)
Safe == Init /\ [][Next]_vars
Spec == Safe /\ Fairness
=============================================================================
