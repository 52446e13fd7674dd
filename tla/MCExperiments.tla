--------------------------- MODULE MCExperiments ---------------------------
(***************************************************************************)
(* Experiments, instantiated for TLC: one that retains its content for a   *)
(* day after its close, beside earlier rows of no experiment; two users    *)
(* with the same correlation id.                                           *)
(***************************************************************************)
EXTENDS Experiments, TLC

CONSTANTS kept, r1, a1, c1, p1, u1, u2

MCSettings == [e \in Exps |-> [expires |-> 1, retain |-> TRUE, days |-> 1]]

RunOf(u) == [user |-> u, id |-> 1]

MCProfile == [r \in Requests |-> [run |-> RunOf(u1), exp |-> {kept}, noLog |-> FALSE,
                                  allowed |-> TRUE]]
MCEarlier == <<[run |-> RunOf(u2), exp |-> {}]>>
=============================================================================
