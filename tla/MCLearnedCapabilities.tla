------------------- MODULE MCLearnedCapabilities -------------------
(***************************************************************************)
(* Small instance of LearnedCapabilities: one model under two ids that     *)
(* share a key, and one whose configuration says that it takes a           *)
(* temperature whatever its provider answers.                              *)
(***************************************************************************)
EXTENDS LearnedCapabilities

CONSTANTS m, prefixed, forced, r1, r2, a1, a2

MCModels     == {m, prefixed, forced}
MCKeyOf      == [id \in MCModels |-> IF id = prefixed THEN m ELSE id]
MCConfigured == [id \in MCModels |-> IF id = forced THEN {TRUE} ELSE {}]
=============================================================================
