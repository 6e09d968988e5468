----------------------------- MODULE MCWorkforce -----------------------------
(* A dispatch, a batch of two and a delegation compete for two agents.  No *)
(* agent is of the type of the delegated task, and the first in the order  *)
(* of roles is the last registered.                                        *)
EXTENDS Workforce, TLC

CONSTANTS a1, a2, t1, t2, t3, t4, single, batch, handed

MCKind      == (single :> "dispatch") @@ (batch :> "parallel") @@ (handed :> "delegate")
MCBatch     == (single :> <<t1>>) @@ (batch :> <<t2, t3>>) @@ (handed :> <<t4>>)
MCOwner     == (t1 :> single) @@ (t2 :> batch) @@ (t3 :> batch) @@ (t4 :> handed)
MCOfType    == (t1 :> {a1}) @@ (t2 :> {a1}) @@ (t3 :> {a2}) @@ (t4 :> {})
MCRoleRank  == (a1 :> 2) @@ (a2 :> 1)
MCPriority  == (a1 :> 3) @@ (a2 :> 5)
MCPosition  == (a1 :> 1) @@ (a2 :> 2)
MCMaxTasks  == (a1 :> 1) @@ (a2 :> 2)
=============================================================================
