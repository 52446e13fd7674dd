-------------------------- MODULE AbstractBreaker ---------------------------
(***************************************************************************)
(* What a circuit breaker promises, without saying how: a provider is      *)
(* taken out of service by `Threshold` failures in a row and in no other   *)
(* way; it returns to full service only by a success, and can only be      *)
(* tried again ("probing") after having been out of service.               *)
(***************************************************************************)
EXTENDS Naturals

CONSTANTS Providers, Threshold

VARIABLES
    phase,      \* provider -> "serving", "refusing" or "probing"
    streak      \* provider -> failures in a row, counted up to Threshold

Init ==
    /\ phase = [p \in Providers |-> "serving"]
    /\ streak = [p \in Providers |-> 0]

Succeed(p) ==
    /\ phase' = [phase EXCEPT ![p] = "serving"]
    /\ streak' = [streak EXCEPT ![p] = 0]

\* A failure short of the threshold is only counted.
Strike(p) ==
    /\ phase[p] = "serving" /\ streak[p] + 1 < Threshold
    /\ streak' = [streak EXCEPT ![p] = @ + 1]
    /\ UNCHANGED phase

\* The failure that reaches it, and every later one, means no service.
Trip(p) ==
    /\ phase[p] = "serving" => streak[p] + 1 = Threshold
    /\ phase' = [phase EXCEPT ![p] = "refusing"]
    /\ streak' = [streak EXCEPT ![p] = Threshold]

Probe(p) ==
    /\ phase[p] = "refusing"
    /\ phase' = [phase EXCEPT ![p] = "probing"]
    /\ UNCHANGED streak

Next == \E p \in Providers : Succeed(p) \/ Strike(p) \/ Trip(p) \/ Probe(p)

Spec == Init /\ [][Next]_<<phase, streak>>
=============================================================================
