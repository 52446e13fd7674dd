-------------------------- MODULE MCResponseCache --------------------------
(***************************************************************************)
(* ResponseCache, instantiated for TLC: a request that asks again and again,  *)
(* and an operator who also stands for the deployment's probes.            *)
(***************************************************************************)
EXTENDS ResponseCache, TLC

CONSTANTS r1, o1, k1, k2, m1, m2, x, y

MCModelOf == [k \in Keys |-> IF k = k1 THEN m1 ELSE m2]
MCScopes == {[by |-> "all", what |-> x], [by |-> "label", what |-> x]}
=============================================================================
