---------------------------- MODULE MCToolCalls ----------------------------
(* Two tools, the second permitted to the second user only; two callers of *)
(* one user, one of them careless, and one of the other; two rediscoveries *)
(* that overlap.                                                           *)
EXTENDS ToolCalls, TLC

CONSTANTS t1, t2, c1, c2, c3, u1, u2

MCUser      == (c1 :> u1) @@ (c2 :> u1) @@ (c3 :> u2)
MCPermitted == (t1 :> {u1}) @@ (t2 :> {u2})
=============================================================================
