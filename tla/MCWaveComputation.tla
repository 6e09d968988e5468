-------------------------- MODULE MCWaveComputation --------------------------
(* WaveComputation on every dependency graph over three steps, self-loops  *)
(* and cycles included, and every subset of them as the plan's own steps,  *)
(* so that dependencies on ids outside the plan occur too.                 *)
EXTENDS WaveComputation

CONSTANTS a, b, c, d
AllIds == {a, b, c, d}
(* Every graph over three ids, and over four ids the acyclic ones and a    *)
(* cycle with a step behind it.                                            *)
Edges(E) == [s \in AllIds |-> {t \in AllIds : <<s, t>> \in E}]
Plan(S, E) == [steps |-> S, deps |-> Edges(E), retryable |-> {}]
Three == {a, b, c}
MCPlans ==
    {Plan(S, E) : S \in {Three, {a, b}}, E \in SUBSET (Three \X Three)}
    \cup {Plan(AllIds, E) :
            E \in SUBSET {<<b, a>>, <<c, a>>, <<c, b>>, <<d, a>>, <<d, b>>, <<d, c>>}}
    \cup {Plan(AllIds, {<<a, b>>, <<b, a>>, <<c, b>>, <<c, d>>})}
=============================================================================
