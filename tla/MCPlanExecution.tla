--------------------------- MODULE MCPlanExecution ---------------------------
(* Two requests with plans over four step ids, which the requests share.   *)
EXTENDS PlanExecution

CONSTANTS a, b, c, d
MCStepIds == {a, b, c, d}
Plan(S, E, R) ==
    [steps |-> S, deps |-> [s \in MCStepIds |-> {t \in MCStepIds : <<s, t>> \in E}],
     retryable |-> R]

(* a, then b || c, then d. *)
Diamond == Plan({a, b, c, d}, {<<b, a>>, <<c, a>>, <<d, b>>, <<d, c>>}, {b})
(* a || b || c: more tasks than permits. *)
Wide    == Plan({a, b, c}, {}, {b})
(* a, then b, which also names c, no step of the plan; c and d never. *)
Cycle   == Plan({a, b, d}, {<<b, a>>, <<b, c>>, <<d, d>>}, {a})
MCPlans == {Diamond, Wide, Cycle}
=============================================================================
