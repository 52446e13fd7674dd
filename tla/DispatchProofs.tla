--------------------------- MODULE DispatchProofs ---------------------------
(***************************************************************************)
(* The safety properties of Dispatch, for every number of providers,       *)
(* requests in flight, targets and chains, looping chains included.        *)
(***************************************************************************)
EXTENDS Dispatch, TLAPS

-----------------------------------------------------------------------------
(* The circuit breaker by itself: its fields stay consistent and it        *)
(* implements AbstractBreaker, whoever calls it.                           *)


\* What the methods leave behind is a circuit, and a consistent one.
LEMMA AfterIsOpenConsistent ==
    ASSUME NEW c \in Circuit, CircuitConsistent(c)
    PROVE  AfterIsOpen(c) \in Circuit /\ CircuitConsistent(AfterIsOpen(c))
BY ThresholdAssumption
   DEF AfterIsOpen, Circuit, CircuitState, CircuitConsistent

\* The same of a failure, which may open the circuit.
LEMMA AfterFailureConsistent ==
    ASSUME NEW c \in Circuit, CircuitConsistent(c)
    PROVE  AfterFailure(c) \in Circuit /\ CircuitConsistent(AfterFailure(c))
<1>1. CASE c.state # "Closed"
  BY <1>1, ThresholdAssumption
     DEF AfterFailure, Opened, Circuit, CircuitState, CircuitConsistent
<1>2. CASE c.state = "Closed"
  BY <1>2, ThresholdAssumption
     DEF AfterFailure, Opened, Circuit, CircuitState, CircuitConsistent
<1> QED BY <1>1, <1>2

\* The same of a circuit that is new or has just seen a success.
LEMMA NewCircuitConsistent ==
    NewCircuit \in Circuit /\ CircuitConsistent(NewCircuit)
BY ThresholdAssumption
   DEF NewCircuit, Circuit, CircuitState, CircuitConsistent

\* One method call, or the passing of time, keeps the fields in agreement.
LEMMA BreakerStepKeepsInv ==
    ASSUME BreakerInv, [BreakerNext]_circuits
    PROVE  BreakerInv'
<1>1. CASE UNCHANGED circuits
  BY <1>1 DEF BreakerInv, BreakerTypeOK
<1>2. ASSUME NEW p \in Providers, IsOpen(p) PROVE BreakerInv'
  BY <1>2, AfterIsOpenConsistent DEF BreakerInv, BreakerTypeOK, IsOpen
<1>3. ASSUME NEW p \in Providers, RecordSuccess(p) PROVE BreakerInv'
  BY <1>3, NewCircuitConsistent DEF BreakerInv, BreakerTypeOK, RecordSuccess, AfterSuccess
<1>4. ASSUME NEW p \in Providers, RecordFailure(p) PROVE BreakerInv'
  BY <1>4, AfterFailureConsistent DEF BreakerInv, BreakerTypeOK, RecordFailure
<1>5. ASSUME NEW p \in Providers, CooldownElapses(p) PROVE BreakerInv'
  BY <1>5 DEF BreakerInv, BreakerTypeOK, CooldownElapses, Circuit, CircuitConsistent
<1> QED BY <1>1, <1>2, <1>3, <1>4, <1>5 DEF BreakerNext

\* The breaker's fields agree in every state, for any number of providers and
\* any threshold.
THEOREM BreakerAlwaysConsistent == BreakerSpec => []BreakerInv
<1>1. BreakerInit => BreakerInv
  BY NewCircuitConsistent DEF BreakerInit, BreakerInv, BreakerTypeOK
<1>2. BreakerInv /\ [BreakerNext]_circuits => BreakerInv'
  BY BreakerStepKeepsInv
<1> QED BY <1>1, <1>2, PTL DEF BreakerSpec

-----------------------------------------------------------------------------
(* The refinement.                                                         *)

\* A step that changes one circuit changes the mapped functions at it alone.
LEMMA MappedAt ==
    ASSUME NEW p \in Providers, NEW c, BreakerTypeOK,
           circuits' = [circuits EXCEPT ![p] = c]
    PROVE  /\ [q \in Providers |-> Phase(circuits[q])]'
                = [[q \in Providers |-> Phase(circuits[q])] EXCEPT ![p] = Phase(c)]
           /\ [q \in Providers |-> Streak(circuits[q])]'
                = [[q \in Providers |-> Streak(circuits[q])] EXCEPT ![p] = Streak(c)]
<1>1. \A q \in Providers : circuits'[q] = IF q = p THEN c ELSE circuits[q]
  BY DEF BreakerTypeOK
<1>2. \A q \in Providers :
        /\ Phase(circuits'[q]) = IF q = p THEN Phase(c) ELSE Phase(circuits[q])
        /\ Streak(circuits'[q]) = IF q = p THEN Streak(c) ELSE Streak(circuits[q])
  BY <1>1
<1> QED BY <1>2

\* A change that the mapping does not see is a stutter of the promise.
LEMMA Unseen ==
    ASSUME NEW p \in Providers, NEW c, BreakerTypeOK,
           circuits' = [circuits EXCEPT ![p] = c],
           Phase(c) = Phase(circuits[p]), Streak(c) = Streak(circuits[p])
    PROVE  UNCHANGED <<[q \in Providers |-> Phase(circuits[q])],
                       [q \in Providers |-> Streak(circuits[q])]>>
<1>1. \A q \in Providers : circuits'[q] = IF q = p THEN c ELSE circuits[q]
  BY DEF BreakerTypeOK
<1>2. \A q \in Providers : /\ Phase(circuits'[q]) = Phase(circuits[q])
                            /\ Streak(circuits'[q]) = Streak(circuits[q])
  BY <1>1
<1> QED BY <1>2

\* A method call on p, or the passing of time, is a step of the promise or a
\* stutter of it.
LEMMA StepImplementsPromise ==
    ASSUME BreakerInv, [BreakerNext]_circuits
    PROVE  [Promise!Next]_<<[p \in Providers |-> Phase(circuits[p])],
                            [p \in Providers |-> Streak(circuits[p])]>>
<1> DEFINE phase  == [p \in Providers |-> Phase(circuits[p])]
           streak == [p \in Providers |-> Streak(circuits[p])]
<1>1. CASE UNCHANGED circuits
  BY <1>1
<1>2. ASSUME NEW p \in Providers,
             \/ IsOpen(p) \/ RecordSuccess(p) \/ RecordFailure(p) \/ CooldownElapses(p)
      PROVE  \/ Promise!Next
             \/ UNCHANGED <<phase, streak>>
  <2> DEFINE c == circuits[p]
  <2>0. /\ c \in Circuit /\ CircuitConsistent(c) /\ BreakerTypeOK
        /\ phase[p] = Phase(c) /\ streak[p] = Streak(c)
    BY DEF BreakerInv, BreakerTypeOK
  <2>1. CASE IsOpen(p)
    <3>0. circuits' = [circuits EXCEPT ![p] = AfterIsOpen(c)]
      BY <2>1 DEF IsOpen
    <3>1. CASE c.state = "Open" /\ c.seen_open /\ c.opened_at = "elapsed"
      <4>1. /\ Phase(c) = "refusing" /\ Phase(AfterIsOpen(c)) = "probing"
            /\ Streak(AfterIsOpen(c)) = Streak(c)
        BY <3>1, <2>0 DEF AfterIsOpen, Phase, Streak, Circuit
      <4>2. /\ phase' = [phase EXCEPT ![p] = Phase(AfterIsOpen(c))]
            /\ streak' = [streak EXCEPT ![p] = Streak(AfterIsOpen(c))]
        BY <3>0, <2>0, MappedAt
      <4>3. streak' = streak
        BY <4>1, <4>2, <2>0
      <4>4. Promise!Probe(p)
        BY <4>1, <4>2, <4>3, <2>0 DEF Promise!Probe
      <4> QED BY <4>4 DEF Promise!Next
    <3>2. CASE ~(c.state = "Open" /\ c.seen_open /\ c.opened_at = "elapsed")
      <4>1. Phase(AfterIsOpen(c)) = Phase(c) /\ Streak(AfterIsOpen(c)) = Streak(c)
        BY <3>2, <2>0 DEF AfterIsOpen, Phase, Streak, Circuit
      <4> QED BY <3>0, <4>1, <2>0, Unseen
    <3> QED BY <3>1, <3>2
  <2>2. CASE RecordSuccess(p)
    <3>1. circuits' = [circuits EXCEPT ![p] = NewCircuit]
      BY <2>2 DEF RecordSuccess, AfterSuccess
    <3>2. Phase(NewCircuit) = "serving" /\ Streak(NewCircuit) = 0
      BY DEF NewCircuit, Phase, Streak
    <3>3. /\ phase' = [phase EXCEPT ![p] = "serving"]
          /\ streak' = [streak EXCEPT ![p] = 0]
      <4>1. /\ phase' = [phase EXCEPT ![p] = Phase(NewCircuit)]
            /\ streak' = [streak EXCEPT ![p] = Streak(NewCircuit)]
        BY <3>1, <2>0, MappedAt
      <4> QED BY ONLY <3>2, <4>1
    <3>4. Promise!Succeed(p)
      BY <3>3 DEF Promise!Succeed
    <3> QED BY <3>4 DEF Promise!Next
  <2>3. CASE RecordFailure(p)
    <3>0. circuits' = [circuits EXCEPT ![p] = AfterFailure(c)]
      BY <2>3 DEF RecordFailure
    <3>1. CASE c.state = "Closed" /\ c.failure_count + 1 < FailureThreshold
      <4>1. /\ Phase(c) = "serving" /\ Phase(AfterFailure(c)) = "serving"
            /\ Streak(c) = c.failure_count
            /\ Streak(AfterFailure(c)) = c.failure_count + 1
        BY <3>1, <2>0, ThresholdAssumption DEF AfterFailure, Phase, Streak, Circuit
      <4>2. /\ phase' = [phase EXCEPT ![p] = Phase(AfterFailure(c))]
            /\ streak' = [streak EXCEPT ![p] = Streak(AfterFailure(c))]
        BY <3>0, <2>0, MappedAt
      <4>3. phase' = phase
        BY <4>1, <4>2, <2>0
      <4>4. Promise!Strike(p)
        BY <3>1, <4>1, <4>2, <4>3, <2>0 DEF Promise!Strike
      <4> QED BY <4>4 DEF Promise!Next
    <3>2. CASE ~(c.state = "Closed" /\ c.failure_count + 1 < FailureThreshold)
      <4>1. /\ Phase(AfterFailure(c)) = "refusing"
            /\ Streak(AfterFailure(c)) = FailureThreshold
        BY <3>2, <2>0, ThresholdAssumption
           DEF AfterFailure, Opened, Phase, Streak, Circuit, CircuitState
      <4>2. Phase(c) = "serving" => Streak(c) + 1 = FailureThreshold
        BY <3>2, <2>0, ThresholdAssumption
           DEF Phase, Streak, Circuit, CircuitState, CircuitConsistent
      <4>3. /\ phase' = [phase EXCEPT ![p] = "refusing"]
            /\ streak' = [streak EXCEPT ![p] = FailureThreshold]
        <5>1. /\ phase' = [phase EXCEPT ![p] = Phase(AfterFailure(c))]
              /\ streak' = [streak EXCEPT ![p] = Streak(AfterFailure(c))]
          BY <3>0, <2>0, MappedAt
        <5> QED BY ONLY <4>1, <5>1
      <4>4. Promise!Trip(p)
        BY <4>2, <4>3, <2>0 DEF Promise!Trip
      <4> QED BY <4>4 DEF Promise!Next
    <3> QED BY <3>1, <3>2
  <2>4. CASE CooldownElapses(p)
    <3>1. circuits' = [circuits EXCEPT ![p] = [c EXCEPT !.opened_at = "elapsed"]]
      BY <2>4 DEF CooldownElapses
    <3>2. /\ Phase([c EXCEPT !.opened_at = "elapsed"]) = Phase(c)
          /\ Streak([c EXCEPT !.opened_at = "elapsed"]) = Streak(c)
      BY <2>0 DEF Phase, Streak, Circuit
    <3> QED BY <3>1, <3>2, <2>0, Unseen
  <2> QED BY <1>2, <2>1, <2>2, <2>3, <2>4
<1> QED BY <1>1, <1>2 DEF BreakerNext

\* Whatever is called in whatever order, the breaker takes a provider out of
\* service only after FailureThreshold failures without a success between
\* them, probes only what was out, and serves again only after a success.
THEOREM BreakerKeepsPromise == BreakerSpec => KeepsPromise
<1>1. BreakerInit => Promise!Init
  BY DEF BreakerInit, Promise!Init, Phase, Streak, NewCircuit
<1>2. BreakerInv /\ [BreakerNext]_circuits
        => [Promise!Next]_<<[p \in Providers |-> Phase(circuits[p])],
                            [p \in Providers |-> Streak(circuits[p])]>>
  BY StepImplementsPromise
<1> QED
  BY <1>1, <1>2, BreakerAlwaysConsistent, PTL DEF BreakerSpec, KeepsPromise, Promise!Spec

-----------------------------------------------------------------------------
(* What the helpers return.                                                *)

\* next_after only ever names a model that some chain spells.
LEMMA NextAfterType ==
    ASSUME NEW chains \in Seq(Entry), NEW n
    PROVE  NextAfter(chains, n) \subseteq Names
<1>1. ASSUME NEW e \in Entry PROVE Following(e, n) \subseteq Names
  BY DEF Following, Entry
<1>2. /\ \A i \in 1..Len(chains) : chains[i] \in Entry
      /\ \A i \in 1..Len(ConfigChains) : ConfigChains[i] \in Entry
  BY ChainAssumption
<1>3. /\ First(Places(chains, n)) \subseteq 1..Len(chains)
      /\ First(Places(ConfigChains, n)) \subseteq 1..Len(ConfigChains)
      /\ First(KeyPlaces(ConfigChains, n)) \subseteq 1..Len(ConfigChains)
  BY DEF First, Places, KeyPlaces
<1> QED BY <1>1, <1>2, <1>3 DEF NextAfter

\* A slot between requests is a request record.
LEMMA VacantType ==
    ASSUME NEW t \in Targets
    PROVE  Vacant(t) \in Request
BY ChainAssumption DEF Vacant, Request, Stages, Kinds, Embeds

-----------------------------------------------------------------------------
(* What each step does to the request it is about.                         *)

\* Nothing is owed by a slot between requests.
LEMMA VacantInv ==
    ASSUME NEW t \in Targets
    PROVE  RequestInv(Vacant(t))
BY VacantType, DispatchAssumption
   DEF RequestInv, Vacant, StageFitsKind, Spent, DoneWith, RightfulTarget, Embeds

\* A request starts with nothing spent, whatever it may later fall back to.
LEMMA ArriveInv ==
    ASSUME NEW t \in Targets, NEW kind \in Kinds, NEW g \in SUBSET Targets
    PROVE  RequestInv([Vacant(t) EXCEPT
                !.pc = IF kind \in Embeds THEN "embedding" ELSE "breaker",
                !.kind = kind, !.allowed = g])
<1> DEFINE stage == IF kind \in Embeds THEN "embedding" ELSE "breaker"
           next  == [Vacant(t) EXCEPT !.pc = stage, !.kind = kind, !.allowed = g]
<1>1. stage \in Stages
  BY DEF Stages
<1>2. next \in Request
  <2>1. \A v \in Request, s \in Stages :
          [v EXCEPT !.pc = s, !.kind = kind, !.allowed = g] \in Request
    BY DEF Request
  <2> HIDE DEF stage
  <2> QED BY <1>1, <2>1, VacantType
<1>3. /\ next.pc = stage /\ next.kind = kind /\ next.asked = t /\ next.target = t
      /\ next.allowed = g /\ next.attempts = 0 /\ next.fallbacks = 0 /\ next.retry = 0
  BY DEF Vacant
<1> HIDE DEF next
<1>4. DoneWith(next) = 0
  BY <1>3, DispatchAssumption DEF DoneWith
<1>5. StageFitsKind(next) /\ RightfulTarget(next)
  BY <1>3 DEF StageFitsKind, RightfulTarget
<1>6. Spent(next)
  BY <1>3, <1>4, DispatchAssumption DEF Spent
<1> QED BY <1>2, <1>5, <1>6 DEF RequestInv, next

\* The parts of a request that the proofs below count with.
LEMMA RequestFields ==
    ASSUME NEW q, RequestInv(q)
    PROVE  /\ q \in Request
           /\ q.pc \in Stages /\ q.kind \in Kinds
           /\ q.asked \in Targets /\ q.target \in Targets
           /\ q.allowed \in SUBSET Targets /\ q.cursor \in Names
           /\ q.attempts \in Nat /\ q.fallbacks \in Nat
           /\ q.retry \in Nat /\ q.hops \in Nat
           /\ DoneWith(q) \in Nat /\ MaxRetries \in Nat
<1>1. q \in Request
  BY DEF RequestInv
<1>2. /\ q.pc \in Stages /\ q.kind \in Kinds
      /\ q.asked \in Targets /\ q.target \in Targets
      /\ q.allowed \in SUBSET Targets /\ q.cursor \in Names
      /\ q.attempts \in Nat /\ q.fallbacks \in Nat
      /\ q.retry \in Nat /\ q.hops \in Nat
  BY <1>1 DEF Request
<1>3. MaxRetries \in Nat /\ q.fallbacks * (MaxRetries + 1) \in Nat
  BY <1>2, DispatchAssumption
<1> QED BY <1>1, <1>2, <1>3 DEF DoneWith

\* A call is paid for by the stage it is made from: the first call at a target,
\* a turn of the embeddings loop, or the end of a backoff.
LEMMA CallInv ==
    ASSUME NEW q, RequestInv(q), q.pc \in {"breaker", "backoff", "embedding"}
    PROVE  RequestInv([q EXCEPT !.pc = "calling", !.attempts = @ + 1])
<1> DEFINE next == [q EXCEPT !.pc = "calling", !.attempts = @ + 1]
<1>1. q \in Request /\ q.attempts + 1 \in Nat
  BY RequestFields
<1>2. \A n \in Nat : [q EXCEPT !.pc = "calling", !.attempts = n] \in Request
  BY <1>1 DEF Request, Stages, Awaiting
<1>3. next \in Request
  BY <1>1, <1>2
<1>4. /\ next.pc = "calling" /\ next.attempts = q.attempts + 1
      /\ next.kind = q.kind /\ next.asked = q.asked /\ next.target = q.target
      /\ next.allowed = q.allowed /\ next.fallbacks = q.fallbacks /\ next.retry = q.retry
  BY <1>1 DEF Request
<1> HIDE DEF next
<1>5. DoneWith(next) = DoneWith(q)
  BY <1>4 DEF DoneWith
<1>6. StageFitsKind(next) /\ RightfulTarget(next)
  BY <1>4 DEF RequestInv, StageFitsKind, RightfulTarget, Embeds
<1>7. Spent(next)
  <2>1. q.attempts <= DoneWith(q) + q.retry
    BY RequestFields DEF RequestInv, Spent
  <2> QED BY <1>4, <1>5, <2>1, RequestFields DEF RequestInv, Spent
<1> QED BY <1>3, <1>6, <1>7 DEF RequestInv, next

\* Turning to the chain leaves the target with its MaxRetries + 1 calls spent.
LEMMA SelectInv ==
    ASSUME NEW q, RequestInv(q), q.pc \in {"breaker", "calling"}, q.kind = "chat"
    PROVE  RequestInv([q EXCEPT !.pc = "selecting", !.retry = 0, !.hops = 0,
                                !.cursor = Canonical[q.target]])
<1> DEFINE next == [q EXCEPT !.pc = "selecting", !.retry = 0, !.hops = 0,
                             !.cursor = Canonical[q.target]]
<1>1. q \in Request /\ Canonical[q.target] \in Names
  BY RequestFields, ChainAssumption
<1>2. \A n \in Names : [q EXCEPT !.pc = "selecting", !.retry = 0, !.hops = 0,
                                  !.cursor = n] \in Request
  BY <1>1 DEF Request, Stages
<1>3. next \in Request
  BY <1>1, <1>2
<1>4. /\ next.pc = "selecting" /\ next.attempts = q.attempts
      /\ next.kind = q.kind /\ next.asked = q.asked /\ next.target = q.target
      /\ next.allowed = q.allowed /\ next.fallbacks = q.fallbacks /\ next.retry = 0
  BY <1>1 DEF Request
<1> HIDE DEF next
<1>5. DoneWith(next) = DoneWith(q)
  BY <1>4 DEF DoneWith
<1>6. StageFitsKind(next) /\ RightfulTarget(next)
  BY <1>4 DEF RequestInv, StageFitsKind, RightfulTarget, Embeds
<1>7. Spent(next)
  <2>1. q.attempts <= DoneWith(q) + MaxRetries + 1
    BY RequestFields DEF RequestInv, Spent
  <2> QED BY <1>4, <1>5, <2>1, RequestFields DEF Spent, Embeds
<1> QED BY <1>3, <1>6, <1>7 DEF RequestInv, next

\* An embeddings hop trades the one call made for one more hop.
LEMMA EmbedAdvanceInv ==
    ASSUME NEW q, RequestInv(q), q.pc \in {"embedding", "calling"}, q.kind = "embed",
           q.fallbacks < MaxEmbedHops, NEW t \in Targets
    PROVE  RequestInv([q EXCEPT !.pc = "embedding", !.target = t, !.fallbacks = @ + 1])
<1> DEFINE next == [q EXCEPT !.pc = "embedding", !.target = t, !.fallbacks = @ + 1]
<1>1. q \in Request /\ q.fallbacks + 1 \in Nat
  BY RequestFields
<1>2. \A n \in Nat : [q EXCEPT !.pc = "embedding", !.target = t, !.fallbacks = n] \in Request
  BY <1>1 DEF Request, Stages
<1>3. next \in Request
  BY <1>1, <1>2
<1>4. /\ next.pc = "embedding" /\ next.attempts = q.attempts /\ next.kind = "embed"
      /\ next.fallbacks = q.fallbacks + 1 /\ next.retry = q.retry
  BY <1>1 DEF Request
<1> HIDE DEF next
<1>5. DoneWith(q) = q.fallbacks /\ DoneWith(next) = q.fallbacks + 1
  BY <1>4 DEF DoneWith, Embeds
<1>6. StageFitsKind(next) /\ RightfulTarget(next)
  BY <1>4 DEF StageFitsKind, RightfulTarget, Embeds
<1>7. Spent(next)
  <2>1. q.attempts <= q.fallbacks + 1 /\ q.retry = 0
    BY <1>5, RequestFields DEF RequestInv, Spent, Embeds
  <2>2. q.fallbacks + 1 <= MaxEmbedHops
    BY RequestFields, DispatchAssumption
  <2> QED BY <1>4, <1>5, <2>1, <2>2, RequestFields DEF Spent, Embeds
<1> QED BY <1>3, <1>6, <1>7 DEF RequestInv, next

\* A backoff is taken only while retries are left.
LEMMA BackoffInv ==
    ASSUME NEW q, RequestInv(q), q.pc = "calling", NEW a, Retries(q, a)
    PROVE  RequestInv([q EXCEPT !.pc = "backoff", !.retry = @ + 1])
<1> DEFINE next == [q EXCEPT !.pc = "backoff", !.retry = @ + 1]
<1>1. q \in Request /\ q.retry + 1 \in Nat
  BY RequestFields
<1>2. \A n \in Nat : [q EXCEPT !.pc = "backoff", !.retry = n] \in Request
  BY <1>1 DEF Request, Stages, Awaiting
<1>3. next \in Request
  BY <1>1, <1>2
<1>4. /\ next.pc = "backoff" /\ next.attempts = q.attempts
      /\ next.kind = q.kind /\ next.asked = q.asked /\ next.target = q.target
      /\ next.allowed = q.allowed /\ next.fallbacks = q.fallbacks
      /\ next.retry = q.retry + 1
  BY <1>1 DEF Request
<1> HIDE DEF next
<1>5. DoneWith(next) = DoneWith(q)
  BY <1>4 DEF DoneWith
<1>6. StageFitsKind(next) /\ RightfulTarget(next)
  BY <1>4 DEF RequestInv, StageFitsKind, RightfulTarget, Embeds, Retries
<1>7. Spent(next)
  <2>1. q.attempts <= DoneWith(q) + q.retry + 1 /\ q.retry + 1 <= MaxRetries
    BY RequestFields DEF RequestInv, Spent, Retries
  <2> QED BY <1>4, <1>5, <2>1, RequestFields DEF Spent, Embeds, Retries
<1> QED BY <1>3, <1>6, <1>7 DEF RequestInv, next

\* A skipped, a chosen and a denied candidate change nothing that is counted.
LEMMA WalkInv ==
    ASSUME NEW q, RequestInv(q), q.pc \in {"selecting", "policy"},
           NEW next \in Request, next.pc \in {"selecting", "policy"},
           next.attempts = q.attempts, next.kind = q.kind, next.asked = q.asked,
           next.target = q.target, next.allowed = q.allowed,
           next.fallbacks = q.fallbacks, next.retry = q.retry
    PROVE  RequestInv(next)
<1>1. DoneWith(next) = DoneWith(q)
  BY DEF DoneWith
<1>2. q.kind = "chat"
  BY DEF RequestInv, StageFitsKind
<1>3. StageFitsKind(next) /\ RightfulTarget(next)
  BY <1>2 DEF RequestInv, StageFitsKind, RightfulTarget, Embeds
<1>4. Spent(next)
  BY <1>1, <1>2, RequestFields DEF RequestInv, Spent, Embeds
<1> QED BY <1>3, <1>4 DEF RequestInv

\* Looking at a candidate moves the cursor and nothing that is counted.
LEMMA ConsiderInv ==
    ASSUME NEW q, RequestInv(q), q.pc = "selecting", NEW n \in Names
    PROVE  /\ RequestInv([q EXCEPT !.pc = "policy", !.cursor = n])
           /\ RequestInv([q EXCEPT !.cursor = n, !.hops = @ + 1])
<1>1. q \in Request /\ q.hops + 1 \in Nat
  BY RequestFields
<1>2. RequestInv([q EXCEPT !.pc = "policy", !.cursor = n])
  <2> DEFINE next == [q EXCEPT !.pc = "policy", !.cursor = n]
  <2>1. /\ next \in Request
        /\ next.pc = "policy" /\ next.attempts = q.attempts /\ next.kind = q.kind
        /\ next.asked = q.asked /\ next.target = q.target /\ next.allowed = q.allowed
        /\ next.fallbacks = q.fallbacks /\ next.retry = q.retry
    BY <1>1 DEF Request, Stages, Awaiting
  <2> HIDE DEF next
  <2>2. RequestInv(next)
    BY <2>1, WalkInv
  <2> QED BY <2>2 DEF next
<1>3. RequestInv([q EXCEPT !.cursor = n, !.hops = @ + 1])
  <2> DEFINE next == [q EXCEPT !.cursor = n, !.hops = @ + 1]
  <2>1. \A h \in Nat : [q EXCEPT !.cursor = n, !.hops = h] \in Request
    BY <1>1 DEF Request
  <2>2. /\ next.pc = q.pc /\ next.attempts = q.attempts /\ next.kind = q.kind
        /\ next.asked = q.asked /\ next.target = q.target /\ next.allowed = q.allowed
        /\ next.fallbacks = q.fallbacks /\ next.retry = q.retry
    BY <1>1 DEF Request
  <2>3. next \in Request
    BY <1>1, <2>1
  <2> HIDE DEF next
  <2>4. RequestInv(next)
    BY <2>2, <2>3, WalkInv
  <2> QED BY <2>4 DEF next
<1> QED BY <1>2, <1>3

\* A denied candidate sends the walk on.
LEMMA DeniedInv ==
    ASSUME NEW q, RequestInv(q), q.pc = "policy"
    PROVE  RequestInv([q EXCEPT !.pc = "selecting", !.hops = @ + 1])
<1> DEFINE next == [q EXCEPT !.pc = "selecting", !.hops = @ + 1]
<1>1. q \in Request /\ q.hops + 1 \in Nat
  BY RequestFields
<1>2. \A h \in Nat : [q EXCEPT !.pc = "selecting", !.hops = h] \in Request
  BY <1>1 DEF Request, Stages
<1>3. /\ next.pc = "selecting" /\ next.attempts = q.attempts /\ next.kind = q.kind
      /\ next.asked = q.asked /\ next.target = q.target /\ next.allowed = q.allowed
      /\ next.fallbacks = q.fallbacks /\ next.retry = q.retry
  BY <1>1 DEF Request
<1>4. next \in Request
  BY <1>1, <1>2
<1> HIDE DEF next
<1>5. RequestInv(next)
  BY <1>3, <1>4, WalkInv
<1> QED BY <1>5 DEF next

\* The one step that needs arithmetic: a hop adds MaxRetries + 1 to the budget.
LEMMA HopInv ==
    ASSUME NEW q, RequestInv(q), q.pc = "policy", NEW t \in q.allowed
    PROVE  RequestInv([q EXCEPT !.pc = "breaker", !.target = t,
                                !.fallbacks = @ + 1, !.hops = 0])
<1> DEFINE next == [q EXCEPT !.pc = "breaker", !.target = t, !.fallbacks = @ + 1, !.hops = 0]
<1>1. /\ q \in Request /\ q.kind = "chat" /\ q.retry = 0
      /\ q.fallbacks + 1 \in Nat /\ t \in Targets
  BY RequestFields DEF RequestInv, StageFitsKind, Spent
<1>2. \A n \in Nat : [q EXCEPT !.pc = "breaker", !.target = t, !.fallbacks = n,
                               !.hops = 0] \in Request
  BY <1>1 DEF Request, Stages
<1>3. next \in Request
  BY <1>1, <1>2
<1>4. /\ next.pc = "breaker" /\ next.attempts = q.attempts /\ next.kind = "chat"
      /\ next.target = t /\ next.allowed = q.allowed
      /\ next.fallbacks = q.fallbacks + 1 /\ next.retry = 0
  BY <1>1 DEF Request
<1> HIDE DEF next
<1>5. DoneWith(next) = DoneWith(q) + MaxRetries + 1
  <2>1. (q.fallbacks + 1) * (MaxRetries + 1) = q.fallbacks * (MaxRetries + 1) + MaxRetries + 1
    BY RequestFields
  <2> QED BY <1>1, <1>4, <2>1 DEF DoneWith, Embeds
<1>6. StageFitsKind(next) /\ RightfulTarget(next)
  BY <1>4 DEF StageFitsKind, RightfulTarget, Embeds
<1>7. Spent(next)
  <2>1. q.attempts <= DoneWith(q) + MaxRetries + 1
    BY RequestFields DEF RequestInv, Spent
  <2> QED BY <1>4, <1>5, <2>1, RequestFields DEF Spent, Embeds
<1> QED BY <1>3, <1>6, <1>7 DEF RequestInv, next

-----------------------------------------------------------------------------
(* Every step keeps the requests sound.                                    *)

RequestsSound == req \in [Requests -> Request] /\ \A r \in Requests : RequestInv(req[r])

\* Writing a sound request into one slot.
LEMMA WriteInv ==
    ASSUME RequestsSound, NEW r \in Requests, NEW q, RequestInv(q),
           Becomes(r, q)
    PROVE  RequestsSound'
<1>1. q \in Request
  BY DEF RequestInv
<1>2. req' \in [Requests -> Request] /\ \A s \in Requests : req'[s] = IF s = r THEN q ELSE req[s]
  BY <1>1 DEF RequestsSound, Becomes
<1> QED BY <1>2 DEF RequestsSound

\* A settled request leaves a sound slot.
LEMMA SettleInv ==
    ASSUME RequestsSound, NEW r \in Requests, Settle(r)
    PROVE  RequestsSound'
<1>1. req[r].asked \in Targets
  BY DEF RequestsSound, Request
<1> QED BY <1>1, VacantInv, WriteInv DEF Settle

\* Giving up on a target leaves the request sound, settled or walking its chain.
LEMMA GiveUpInv ==
    ASSUME RequestsSound, NEW r \in Requests, req[r].pc \in {"breaker", "calling"},
           GiveUpOn(r)
    PROVE  RequestsSound'
<1>1. CASE req[r].kind # "chat"
  BY <1>1, SettleInv DEF GiveUpOn
<1>2. CASE req[r].kind = "chat"
  BY <1>2, SelectInv, WriteInv DEF GiveUpOn, RequestsSound
<1> QED BY <1>1, <1>2

\* Calling leaves the request sound.
LEMMA CalledInv ==
    ASSUME RequestsSound, NEW r \in Requests,
           req[r].pc \in {"breaker", "backoff", "embedding"}, Call(r)
    PROVE  RequestsSound'
<1> DEFINE next == [req[r] EXCEPT !.pc = "calling", !.attempts = @ + 1]
<1>1. RequestInv(next)
  BY CallInv DEF RequestsSound
<1>2. Becomes(r, next)
  BY DEF Call
<1> HIDE DEF next
<1> QED BY <1>1, <1>2, WriteInv

\* A turn of the embeddings walk leaves the request sound, hop or end.
LEMMA EmbedAdvancedInv ==
    ASSUME RequestsSound, NEW r \in Requests, req[r].pc \in {"embedding", "calling"},
           dbChains \in Seq(Entry), EmbedAdvance(r)
    PROVE  RequestsSound'
<1> DEFINE q    == req[r]
           next == NextAfter(dbChains, Canonical[q.target])
<1>1. CASE Settle(r)
  BY <1>1, SettleInv
<1>2. CASE ~Settle(r)
  <2>1. PICK n \in next :
          /\ q.kind = "embed" /\ q.fallbacks < MaxEmbedHops
          /\ Becomes(r, [q EXCEPT !.pc = "embedding", !.target = Resolve[n],
                                  !.fallbacks = @ + 1])
    BY <1>2 DEF EmbedAdvance
  <2>2. Resolve[n] \in Targets
    BY NextAfterType, ChainAssumption
  <2>3. RequestInv(q)
    BY DEF RequestsSound
  <2> DEFINE moved == [q EXCEPT !.pc = "embedding", !.target = Resolve[n],
                                !.fallbacks = @ + 1]
  <2>4. RequestInv(moved)
    BY <2>1, <2>2, <2>3, EmbedAdvanceInv
  <2>5. Becomes(r, moved)
    BY <2>1
  <2> HIDE DEF moved
  <2> QED BY <2>4, <2>5, WriteInv
<1> QED BY <1>1, <1>2

\* Every step of the system keeps every request sound: one case per action.
LEMMA RequestsStayOK ==
    ASSUME RequestsSound, dbChains \in ChainConfigs, [Next]_vars
    PROVE  RequestsSound'
<1>0. dbChains \in Seq(Entry)
  BY DispatchAssumption
<1>1. CASE UNCHANGED req
  BY <1>1 DEF RequestsSound
<1>2. ASSUME NEW r \in Requests, NEW kind \in Kinds, NEW t \in Targets, Arrive(r, kind, t)
      PROVE  RequestsSound'
  <2>1. PICK g \in (IF kind = "chat" THEN Grants ELSE {{}}) :
          Becomes(r, [Vacant(t) EXCEPT
                        !.pc = IF kind \in Embeds THEN "embedding" ELSE "breaker",
                        !.kind = kind, !.allowed = g])
    BY <1>2 DEF Arrive
  <2>2. g \in SUBSET Targets
    BY DispatchAssumption
  <2> QED BY <2>1, <2>2, ArriveInv, WriteInv
<1>3. ASSUME NEW r \in Requests, BreakerCheck(r) PROVE RequestsSound'
  BY <1>3, GiveUpInv, SettleInv, CalledInv DEF BreakerCheck
<1>4. ASSUME NEW r \in Requests, EmbedTry(r) PROVE RequestsSound'
  BY <1>0, <1>4, CalledInv, EmbedAdvancedInv DEF EmbedTry
<1>5. ASSUME NEW r \in Requests, NEW a \in Answers, UpstreamAnswers(r, a) PROVE RequestsSound'
  <2>1. CASE Retries(req[r], a)
    <3> DEFINE next == [req[r] EXCEPT !.pc = "backoff", !.retry = @ + 1]
    <3>1. RequestInv(next)
      BY <1>5, <2>1, BackoffInv DEF UpstreamAnswers, RequestsSound
    <3>2. Becomes(r, next)
      BY <1>5, <2>1 DEF UpstreamAnswers
    <3> HIDE DEF next
    <3> QED BY <3>1, <3>2, WriteInv
  <2>2. CASE ~Retries(req[r], a)
    BY <1>0, <1>5, <2>2, SettleInv, EmbedAdvancedInv, GiveUpInv DEF UpstreamAnswers
  <2> QED BY <2>1, <2>2
<1>6. ASSUME NEW r \in Requests, BackoffEnds(r) PROVE RequestsSound'
  BY <1>6, CalledInv DEF BackoffEnds
<1>7. ASSUME NEW r \in Requests, ConsiderNext(r) PROVE RequestsSound'
  <2>1. CASE Settle(r)
    BY <2>1, SettleInv
  <2>2. CASE ~Settle(r)
    <3>1. PICK n \in NextAfter(dbChains, req[r].cursor) :
            \/ Becomes(r, [req[r] EXCEPT !.pc = "policy", !.cursor = n])
            \/ Becomes(r, [req[r] EXCEPT !.cursor = n, !.hops = @ + 1])
      BY <1>7, <2>2 DEF ConsiderNext
    <3>2. n \in Names /\ req[r].pc = "selecting" /\ RequestInv(req[r])
      BY <1>0, <1>7, NextAfterType DEF ConsiderNext, RequestsSound
    <3> DEFINE chosen  == [req[r] EXCEPT !.pc = "policy", !.cursor = n]
               skipped == [req[r] EXCEPT !.cursor = n, !.hops = @ + 1]
    <3>3. RequestInv(chosen) /\ RequestInv(skipped)
      BY <3>2, ConsiderInv
    <3>4. Becomes(r, chosen) \/ Becomes(r, skipped)
      BY <3>1
    <3> HIDE DEF chosen, skipped
    <3> QED BY <3>3, <3>4, WriteInv
  <2> QED BY <2>1, <2>2
<1>8. ASSUME NEW r \in Requests, PolicyAnswers(r) PROVE RequestsSound'
  <2> DEFINE q == req[r]
             t == Resolve[q.cursor]
  <2>1. RequestInv(q) /\ q.pc = "policy"
    BY <1>8 DEF PolicyAnswers, RequestsSound
  <2>2. CASE t \in q.allowed
    <3> DEFINE next == [q EXCEPT !.pc = "breaker", !.target = t,
                                 !.fallbacks = @ + 1, !.hops = 0]
    <3>1. RequestInv(next)
      BY <2>1, <2>2, HopInv
    <3>2. Becomes(r, next)
      BY <1>8, <2>2 DEF PolicyAnswers
    <3> HIDE DEF next
    <3> QED BY <3>1, <3>2, WriteInv
  <2>3. CASE t \notin q.allowed
    <3> DEFINE next == [q EXCEPT !.pc = "selecting", !.hops = @ + 1]
    <3>1. RequestInv(next)
      BY <2>1, DeniedInv
    <3>2. Becomes(r, next)
      BY <1>8, <2>3 DEF PolicyAnswers
    <3> HIDE DEF next
    <3> QED BY <3>1, <3>2, WriteInv
  <2> QED BY <2>2, <2>3
<1>9. ASSUME NEW r \in Requests, Disconnect(r) PROVE RequestsSound'
  BY <1>9, SettleInv DEF Disconnect
<1> QED
  BY <1>1, <1>2, <1>3, <1>4, <1>5, <1>6, <1>7, <1>8, <1>9
     DEF Next, Proceed, SetChains, Switch, Cool, vars

-----------------------------------------------------------------------------
(* The circuit breaker under its callers.                                  *)

\* All a step does to the breaker is call one of its methods, or let time pass.
LEMMA StepUsesBreaker ==
    ASSUME RequestsSound, [Next]_vars
    PROVE  [BreakerNext]_circuits
<1>1. CASE UNCHANGED circuits
  BY <1>1
<1>2. ASSUME NEW r \in Requests, BreakerCheck(r) PROVE BreakerNext
  BY <1>2, DispatchAssumption DEF BreakerCheck, BreakerNext, RequestsSound, Request, Upstream
<1>3. ASSUME NEW r \in Requests, NEW a \in Answers, UpstreamAnswers(r, a)
      PROVE  [BreakerNext]_circuits
  <2>1. Upstream(req[r]) \in Providers
    BY DispatchAssumption DEF RequestsSound, Request, Upstream
  <2> QED BY <1>3, <2>1 DEF UpstreamAnswers, Report, BreakerNext
<1>4. ASSUME NEW p \in Providers, Cool(p) PROVE BreakerNext
  BY <1>4 DEF Cool, BreakerNext
<1> QED
  BY <1>1, <1>2, <1>3, <1>4
     DEF Next, Proceed, Arrive, EmbedTry, BackoffEnds, ConsiderNext, PolicyAnswers,
         Disconnect, SetChains, Switch, vars

\* A step of the breaker that counts no failure keeps `Earned`.
LEMMA CalmStepsKeepEarned ==
    ASSUME BreakerInv, Earned, UNCHANGED blame, NEW p \in Providers,
           IsOpen(p) \/ CooldownElapses(p)
    PROVE  Earned'
<1>1. PICK c : /\ circuits' = [circuits EXCEPT ![p] = c]
               /\ c.state = "Closed" <=> circuits[p].state = "Closed"
               /\ c.failure_count = circuits[p].failure_count
  BY DEF IsOpen, CooldownElapses, AfterIsOpen, BreakerInv, BreakerTypeOK, Circuit
<1> QED BY <1>1 DEF Earned, BreakerInv, BreakerTypeOK

\* A reported answer: a charged one raises the history with the count, and a
\* success is the only answer that takes the history back.
LEMMA AnswersKeepEarned ==
    ASSUME BreakerInv, Earned, blame \in [Providers -> 0..FailureThreshold],
           NEW p \in Providers, NEW kind \in Kinds, NEW a \in Answers,
           \/ Report(kind, p, a)
           \/ UNCHANGED circuits /\ a # "ok",
           blame' = Blame(kind, p, a)
    PROVE  Earned' /\ blame' \in [Providers -> 0..FailureThreshold]
<1> DEFINE c == circuits[p]
           b == blame[p]
<1>0. /\ c \in Circuit /\ CircuitConsistent(c) /\ b \in 0..FailureThreshold
      /\ IF c.state = "Closed" THEN c.failure_count <= b ELSE b = FailureThreshold
      /\ FailureThreshold \in Nat /\ FailureThreshold > 0
  BY ThresholdAssumption DEF BreakerInv, BreakerTypeOK, Earned
<1>1. blame' \in [Providers -> 0..FailureThreshold]
  BY <1>0 DEF Blame
<1>2. \A x \in Providers \ {p} : circuits'[x] = circuits[x] /\ blame'[x] = blame[x]
  BY DEF Report, RecordSuccess, RecordFailure, Blame, BreakerInv, BreakerTypeOK
<1>3. IF circuits'[p].state = "Closed" THEN circuits'[p].failure_count <= blame'[p]
                                      ELSE blame'[p] = FailureThreshold
  <2>1. CASE UNCHANGED circuits /\ UNCHANGED blame
    BY <1>0, <2>1
  <2>2. CASE RecordSuccess(p)
    <3>1. circuits'[p] = NewCircuit
      BY <2>2 DEF RecordSuccess, AfterSuccess, BreakerInv, BreakerTypeOK
    <3>2. circuits'[p].state = "Closed" /\ circuits'[p].failure_count = 0
      BY <3>1 DEF NewCircuit
    <3> QED BY <1>1, <3>2
  <2>3. CASE UNCHANGED circuits /\ blame'[p] = IF b < FailureThreshold THEN b + 1 ELSE b
    BY <1>0, <2>3 DEF Circuit
  <2>4. CASE RecordFailure(p) /\ blame'[p] = IF b < FailureThreshold THEN b + 1 ELSE b
    <3>1. circuits'[p] = AfterFailure(c)
      BY <2>4 DEF RecordFailure, BreakerInv, BreakerTypeOK
    <3>2. CASE c.state # "Closed"
      <4>1. AfterFailure(c).state = "Open"
        BY <3>2 DEF AfterFailure, Opened
      <4> QED BY <1>0, <2>4, <3>1, <3>2, <4>1
    <3>3. CASE c.state = "Closed" /\ c.failure_count + 1 >= FailureThreshold
      <4>1. AfterFailure(c).state = "Open"
        BY <3>3 DEF AfterFailure, Opened
      <4>2. b + 1 >= FailureThreshold
        BY <1>0, <3>3 DEF Circuit
      <4> QED BY <1>0, <2>4, <3>1, <4>1, <4>2
    <3>4. CASE c.state = "Closed" /\ ~(c.failure_count + 1 >= FailureThreshold)
      <4>1. /\ AfterFailure(c).state = "Closed"
            /\ AfterFailure(c).failure_count = c.failure_count + 1
        BY <1>0, <3>4 DEF AfterFailure, Circuit
      <4> QED BY <1>0, <2>4, <3>1, <3>4, <4>1 DEF Circuit
    <3> QED BY <3>2, <3>3, <3>4
  <2>5. \/ UNCHANGED circuits /\ UNCHANGED blame
        \/ RecordSuccess(p)
        \/ /\ UNCHANGED circuits \/ RecordFailure(p)
           /\ blame'[p] = IF b < FailureThreshold THEN b + 1 ELSE b
    <3>1. CASE kind \in Embeds \/ a = "rejected"
      BY <3>1 DEF Blame, Report, Charged, Absolved, Embeds
    <3>2. CASE ~(kind \in Embeds \/ a = "rejected") /\ a = "ok"
      BY <3>2 DEF Report, Charged, Absolved, Embeds, Answers
    <3>3. CASE ~(kind \in Embeds \/ a = "rejected") /\ a # "ok"
      <4>1. blame'[p] = IF b < FailureThreshold THEN b + 1 ELSE b
        BY <3>3 DEF Blame
      <4> QED BY <4>1 DEF Report
    <3> QED BY <3>1, <3>2, <3>3
  <2> QED BY <2>1, <2>2, <2>3, <2>4, <2>5
<1> QED BY <1>1, <1>2, <1>3 DEF Earned

-----------------------------------------------------------------------------
(* The inductive invariant and what follows from it.                       *)

\* The invariant holds when the process starts.
LEMMA InitEstablishesInv == Init => DispatchInv
<1> SUFFICES ASSUME Init PROVE DispatchInv
  OBVIOUS
<1>1. PICK t \in Targets : req = [r \in Requests |-> Vacant(t)]
  BY DEF Init
<1>2. RequestsSound
  BY <1>1, VacantType, VacantInv DEF RequestsSound
<1>3. BreakerInv
  BY NewCircuitConsistent DEF Init, BreakerInit, BreakerInv, BreakerTypeOK
<1>4. Earned /\ blame \in [Providers -> 0..FailureThreshold]
  BY ThresholdAssumption DEF Init, BreakerInit, Earned, NewCircuit
<1> QED BY <1>2, <1>3, <1>4 DEF Init, DispatchInv, TypeOK, RequestsSound

\* Every step of the system keeps each circuit earned.
LEMMA StepKeepsEarned ==
    ASSUME DispatchInv, [Next]_vars
    PROVE  Earned' /\ blame' \in [Providers -> 0..FailureThreshold]
<1>0. /\ BreakerInv /\ Earned /\ blame \in [Providers -> 0..FailureThreshold]
      /\ \A r \in Requests : Upstream(req[r]) \in Providers /\ req[r].kind \in Kinds
  BY DispatchAssumption DEF DispatchInv, TypeOK, Request, Upstream
<1>1. CASE UNCHANGED <<circuits, blame>>
  BY <1>0, <1>1 DEF Earned
<1>2. ASSUME NEW r \in Requests, BreakerCheck(r)
      PROVE  Earned' /\ blame' \in [Providers -> 0..FailureThreshold]
  <2>1. UNCHANGED blame /\ IsOpen(Upstream(req[r]))
    BY <1>2 DEF BreakerCheck
  <2> QED BY <1>0, <2>1, CalmStepsKeepEarned
<1>3. ASSUME NEW p \in Providers, Cool(p)
      PROVE  Earned' /\ blame' \in [Providers -> 0..FailureThreshold]
  <2>1. UNCHANGED blame /\ CooldownElapses(p)
    BY <1>3 DEF Cool
  <2> QED BY <1>0, <2>1, CalmStepsKeepEarned
<1>4. ASSUME NEW r \in Requests, NEW a \in Answers, UpstreamAnswers(r, a)
      PROVE  Earned' /\ blame' \in [Providers -> 0..FailureThreshold]
  <2> DEFINE p == Upstream(req[r])
  <2>1. blame' = Blame(req[r].kind, p, a)
    BY <1>4 DEF UpstreamAnswers
  <2>2. Report(req[r].kind, p, a) \/ (UNCHANGED circuits /\ a # "ok")
    BY <1>4 DEF UpstreamAnswers, Retries
  <2>3. p \in Providers /\ req[r].kind \in Kinds
    BY <1>0
  <2> HIDE DEF p
  <2> QED BY <1>0, <2>1, <2>2, <2>3, AnswersKeepEarned
<1> QED
  BY <1>1, <1>2, <1>3, <1>4
     DEF Next, Proceed, Arrive, EmbedTry, BackoffEnds, ConsiderNext, PolicyAnswers,
         Disconnect, SetChains, Switch, vars

\* The invariant is inductive.
LEMMA StepKeepsInv == DispatchInv /\ [Next]_vars => DispatchInv'
<1> SUFFICES ASSUME DispatchInv, [Next]_vars PROVE DispatchInv'
  OBVIOUS
<1>1. RequestsSound /\ dbChains \in ChainConfigs /\ disabled \subseteq Switchable /\ BreakerInv
  BY DEF DispatchInv, TypeOK, RequestsSound
<1>2. RequestsSound'
  BY <1>1, RequestsStayOK
<1>3. BreakerInv'
  BY <1>1, StepUsesBreaker, BreakerStepKeepsInv
<1>4. Earned' /\ blame' \in [Providers -> 0..FailureThreshold]'
  BY StepKeepsEarned
<1>5. dbChains' \in ChainConfigs /\ disabled' \subseteq Switchable
  BY <1>1 DEF Next, Proceed, Arrive, BreakerCheck, EmbedTry, UpstreamAnswers, BackoffEnds,
              ConsiderNext, PolicyAnswers, Disconnect, SetChains, Switch, Cool, vars
<1> QED BY <1>2, <1>3, <1>4, <1>5 DEF DispatchInv, TypeOK, RequestsSound

\* DispatchInv holds in every state, with looping chains and any number of
\* requests, providers, edits and failures.
THEOREM DispatchInvariant == Spec => []DispatchInv
BY InitEstablishesInv, StepKeepsInv, PTL DEF Spec

\* Every variable keeps its shape.
THEOREM DispatchTypeCorrect == Spec => []TypeOK
<1>1. DispatchInv => TypeOK
  BY DEF DispatchInv
<1> QED BY <1>1, DispatchInvariant, PTL

\* A provider is refused to callers only after FailureThreshold failures of its
\* own since it last served one.
THEOREM CircuitsOpenOnlyWhenEarned == Spec => []OpenIsEarned
<1>1. DispatchInv => OpenIsEarned
  BY DEF DispatchInv, Earned, OpenIsEarned
<1> QED BY <1>1, DispatchInvariant, PTL

\* A request never costs more than MaxRetries + 1 calls per model it tries.
THEOREM CallsAreBounded == Spec => []AttemptsBounded
<1>1. ASSUME NEW q, RequestInv(q) PROVE WithinBudget(q)
  <2>1. q.attempts <= DoneWith(q) + MaxRetries + 1
    BY <1>1, RequestFields DEF RequestInv, Spent, Stages, Awaiting
  <2>2. CASE q.kind \in Embeds
    <3>1. /\ DoneWith(q) = q.fallbacks /\ q.fallbacks <= MaxEmbedHops
          /\ q.attempts <= q.fallbacks + 1
      BY <1>1, <2>2, RequestFields DEF RequestInv, StageFitsKind, Spent, DoneWith
    <3>2. q.fallbacks + 1 <= (q.fallbacks + 1) * (MaxRetries + 1)
      <4>1. /\ q.fallbacks * MaxRetries \in Nat
            /\ (q.fallbacks + 1) * (MaxRetries + 1)
                 = q.fallbacks * MaxRetries + q.fallbacks + MaxRetries + 1
        BY <1>1, RequestFields
      <4> QED BY <1>1, <4>1, RequestFields
    <3>3. (q.fallbacks + 1) * (MaxRetries + 1) \in Nat
      BY <1>1, RequestFields
    <3> QED BY <1>1, <3>1, <3>2, <3>3, RequestFields DEF WithinBudget
  <2>3. CASE q.kind \notin Embeds
    <3>1. DoneWith(q) + MaxRetries + 1 = (q.fallbacks + 1) * (MaxRetries + 1)
      BY <1>1, <2>3, RequestFields DEF DoneWith
    <3> QED BY <2>1, <2>3, <3>1 DEF WithinBudget
  <2> QED BY <2>2, <2>3
<1>2. DispatchInv => AttemptsBounded
  BY <1>1 DEF DispatchInv, AttemptsBounded
<1> QED BY <1>2, DispatchInvariant, PTL

\* No bound request, stream, image or audio request is answered by a
\* substitute, and no chat request by one its caller may not use.
THEOREM SubstitutesAreRightful == Spec => []OnlyRightfulSubstitutes
<1>1. DispatchInv => OnlyRightfulSubstitutes
  BY DEF DispatchInv, RequestInv, OnlyRightfulSubstitutes
<1> QED BY <1>1, DispatchInvariant, PTL

\* The endpoints, with all their ways to report and to forget to report an
\* answer, drive the breaker only through steps that keep its promise.
THEOREM DispatchKeepsPromise == Spec => KeepsPromise
<1>1. Init => Promise!Init
  BY DEF Init, BreakerInit, Promise!Init, Phase, Streak, NewCircuit
<1>2. DispatchInv /\ [Next]_vars
        => [Promise!Next]_<<[p \in Providers |-> Phase(circuits[p])],
                            [p \in Providers |-> Streak(circuits[p])]>>
  BY StepUsesBreaker, StepImplementsPromise DEF DispatchInv, TypeOK, RequestsSound
<1> QED BY <1>1, <1>2, DispatchInvariant, PTL DEF Spec, KeepsPromise, Promise!Spec
=============================================================================
