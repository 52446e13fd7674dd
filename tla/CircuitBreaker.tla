--------------------------- MODULE CircuitBreaker ---------------------------
(***************************************************************************)
(* The per-provider circuit breaker (router/circuit_breaker.rs): one       *)
(* circuit per provider name, shared by every request in the process.      *)
(* Each method takes the circuit's mutex for its whole body, so a method   *)
(* call is one atomic step.                                                *)
(*                                                                         *)
(* Time is kept only as far as the code reads it: `opened_at` is "never"   *)
(* (None), "recent" (less than `cooldown` ago) or "elapsed".               *)
(***************************************************************************)
EXTENDS Naturals

CONSTANTS
    Providers,          \* provider names, the keys of `circuits`
    FailureThreshold    \* `failure_threshold`: failures that open a circuit

ASSUME ThresholdAssumption == FailureThreshold \in Nat \ {0}

VARIABLE circuits       \* provider -> its circuit; absent and fresh are the same

CircuitState == {"Closed", "Open", "HalfOpen"}

Circuit == [state         : CircuitState,
            failure_count : 0..FailureThreshold,
            opened_at     : {"never", "recent", "elapsed"},
            seen_open     : BOOLEAN]

\* `or_insert_with`: what is_open and record_failure insert for a new provider.
NewCircuit == [state |-> "Closed", failure_count |-> 0,
               opened_at |-> "never", seen_open |-> FALSE]

-----------------------------------------------------------------------------
(* What one method call returns and leaves behind.                         *)

\* The answer of is_open on circuit c.
Refuses(c) == c.state = "Open" /\ ~(c.seen_open /\ c.opened_at = "elapsed")

\* Mutant: is_open as a pure read.
AfterIsOpenPure(c) == c

\* is_open is not a pure read: the first refusal after opening is noted, and
\* only a later call may find the cooldown over and let the probes through.
AfterIsOpen(c) ==
    IF c.state # "Open" THEN c
    ELSE IF ~c.seen_open THEN [c EXCEPT !.seen_open = TRUE]
    ELSE IF c.opened_at = "elapsed" THEN [c EXCEPT !.state = "HalfOpen"]
    ELSE c

\* Mutant: a success closes the circuit and leaves its count of failures.
AfterSuccessUncleared(c) == [NewCircuit EXCEPT !.failure_count = c.failure_count]

AfterSuccess(c) == NewCircuit

Opened(n) == [state |-> "Open", failure_count |-> n,
              opened_at |-> "recent", seen_open |-> FALSE]

\* A failure while half-open or open re-opens with a fresh cooldown.
AfterFailure(c) ==
    IF c.state # "Closed" THEN Opened(1)
    ELSE IF c.failure_count + 1 >= FailureThreshold THEN Opened(c.failure_count + 1)
    ELSE [c EXCEPT !.failure_count = @ + 1]

-----------------------------------------------------------------------------
(* The methods, as steps.                                                  *)

IsOpen(p)        == circuits' = [circuits EXCEPT ![p] = AfterIsOpen(@)]
RecordSuccess(p) == circuits' = [circuits EXCEPT ![p] = AfterSuccess(@)]
RecordFailure(p) == circuits' = [circuits EXCEPT ![p] = AfterFailure(@)]

\* Time passes: `opened_at.elapsed() >= cooldown` becomes true.
CooldownElapses(p) ==
    /\ circuits[p].opened_at = "recent"
    /\ circuits' = [circuits EXCEPT ![p].opened_at = "elapsed"]

BreakerInit == circuits = [p \in Providers |-> NewCircuit]

BreakerNext == \E p \in Providers :
    IsOpen(p) \/ RecordSuccess(p) \/ RecordFailure(p) \/ CooldownElapses(p)

BreakerSpec == BreakerInit /\ [][BreakerNext]_circuits

-----------------------------------------------------------------------------
(* Type and bookkeeping: the four fields of a circuit always agree.        *)

BreakerTypeOK == circuits \in [Providers -> Circuit]

\* A closed circuit is below its threshold and remembers no opening; an open
\* or half-open one has an opening time, and a half-open one was refused once
\* and has cooled down.
CircuitConsistent(c) ==
    /\ c.state = "Closed" => /\ c.failure_count < FailureThreshold
                             /\ c.opened_at = "never"
                             /\ ~c.seen_open
    /\ c.state # "Closed" => c.opened_at # "never"
    /\ c.state = "HalfOpen" => c.seen_open /\ c.opened_at = "elapsed"

BreakerInv == BreakerTypeOK /\ \A p \in Providers : CircuitConsistent(circuits[p])

-----------------------------------------------------------------------------
(* The bookkeeping of failure_count, opened_at and seen_open implements    *)
(* the three-phase promise of AbstractBreaker.                             *)

Phase(c) == CASE c.state = "Closed"   -> "serving"
              [] c.state = "Open"     -> "refusing"
              [] c.state = "HalfOpen" -> "probing"

Streak(c) == IF c.state = "Closed" THEN c.failure_count ELSE FailureThreshold

Promise == INSTANCE AbstractBreaker WITH
    Threshold <- FailureThreshold,
    phase     <- [p \in Providers |-> Phase(circuits[p])],
    streak    <- [p \in Providers |-> Streak(circuits[p])]

\* Whatever the callers do, in whatever order, every step of the breaker is a
\* step of the promise: only FailureThreshold failures with no success between
\* them take a provider out, and it is never probed before it was refused.
KeepsPromise == Promise!Spec
=============================================================================
