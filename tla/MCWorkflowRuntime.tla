-------------------------- MODULE MCWorkflowRuntime --------------------------
(* Two workflows compete for two workers.  The first is a fork of two      *)
(* tasks, joined by a third, and a task that lists the join twice; the     *)
(* second a chain, whose first task names a task of the first workflow and *)
(* whose last depends on both others.                                      *)
EXTENDS WorkflowRuntime, TLC

CONSTANTS w1, w2, a, b, c, d, x, y, z

MCOwner == (a :> w1) @@ (b :> w1) @@ (c :> w1) @@ (d :> w1)
           @@ (x :> w2) @@ (y :> w2) @@ (z :> w2)
MCDeps  == (a :> <<>>) @@ (b :> <<>>) @@ (c :> <<a, b>>) @@ (d :> <<c, c>>)
           @@ (x :> <<a>>) @@ (y :> <<x>>) @@ (z :> <<x, y>>)
=============================================================================
