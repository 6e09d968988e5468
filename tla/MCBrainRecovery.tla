--------------------------- MODULE MCBrainRecovery ---------------------------
(* Plans over an LLM step and up to two tool steps.                        *)
EXTENDS BrainRecovery

CONSTANTS ask, search, lookup, llama, gpt, claude
Ids == {ask, search, lookup}

BrainPlan(S, E, L, sure) ==
    [steps |-> S, deps |-> [s \in Ids |-> {t \in Ids : <<s, t>> \in E}],
     retryable |-> {}, llm |-> L, model |-> llama, confident |-> sure]

(* The default plan of execute(), and the same without confidence. *)
Default == BrainPlan({ask}, {}, {ask}, TRUE)
Unsure  == BrainPlan({ask}, {}, {ask}, FALSE)
(* search || lookup, then ask; and ask || search, then lookup. *)
Informed == BrainPlan(Ids, {<<ask, search>>, <<ask, lookup>>}, {ask}, TRUE)
Acting   == BrainPlan(Ids, {<<lookup, ask>>}, {ask}, TRUE)
(* No LLM step at all. *)
Tool == BrainPlan({search}, {}, {}, TRUE)

AllPlans == {Default, Unsure, Informed, Acting, Tool}

(* For two requests: no confidence, and search before ask or beside it.    *)
Before == BrainPlan({ask, search}, {<<ask, search>>}, {ask}, TRUE)
Beside == BrainPlan({ask, search}, {}, {ask}, TRUE)
FewPlans == {Unsure, Before, Beside}
MCFallbackModels == <<gpt, claude, llama>>
=============================================================================
