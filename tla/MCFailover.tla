----------------------------- MODULE MCFailover -----------------------------
(* A primary and a secondary provider with a breaker each, a third that    *)
(* the registry does not know, and a reliable fallback without a breaker.  *)
(* One request prefers the secondary provider, one has no preference, and  *)
(* one streams.                                                            *)
EXTENDS Failover, TLC

CONSTANTS primary, secondary, unknown, fallback, ra, rb, rs

MCOrder     == <<unknown, primary, secondary, fallback>>
MCPreferred == (ra :> None) @@ (rb :> secondary) @@ (rs :> None)
=============================================================================
