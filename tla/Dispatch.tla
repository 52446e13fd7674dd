------------------------------ MODULE Dispatch ------------------------------
(***************************************************************************)
(* How a request that passed admission reaches a provider: the breaker     *)
(* check, the call, retries with backoff, the walk along the fallback      *)
(* chain, and the answer, for every endpoint that calls a provider, with   *)
(* all requests in flight sharing the circuit breaker, the failover        *)
(* chains and the operator's disable list.                                 *)
(*                                                                         *)
(* A step ends where the handler awaits (the provider call, the backoff    *)
(* sleep, the policy query); what runs between two awaits is one action.   *)
(***************************************************************************)
EXTENDS CircuitBreaker, FallbackChain

CONSTANTS
    Requests,           \* slots; a slot serves one request after another
    Workload,           \* slot -> the set of <<kind, target>> it may be asked for
    ProviderOf,         \* target -> provider
    MessagesProvider,   \* "anthropic", the one provider /v1/messages calls
    Adapters,           \* providers in the chat and the embedding registry
    Grants,             \* target sets a caller's policy and tools may allow
    ChainConfigs,       \* the DB failover chains an admin may install
    Switchable,         \* models (targets) and providers an admin may disable
    MaxRetries,         \* RetryPolicy::max_retries
    MaxSelectHops,      \* MAX_FALLBACK_HOPS of next_available_fallback_with_policy
    MaxEmbedHops,       \* MAX_FALLBACK_HOPS of the embeddings walk
    HopBound            \* bound: fallback hops of one chat request

VARIABLES
    req,        \* slot -> the request it serves
    dbChains,   \* FallbackChain::db_chains
    disabled,   \* the availability snapshot: disabled targets and providers
    blame       \* history: provider -> failures on its part since it last served

vars == <<circuits, req, dbChains, disabled, blame>>

\* "chat" and "pinned" (bound to an experiment) run the retry and fallback
\* loop; "single" is a streamed chat or a /v1/responses call; "embed", and
\* "pinned_embed" when bound, walk chains without a breaker.
Embeds == {"embed", "pinned_embed"}
Kinds == {"chat", "pinned", "single", "messages", "images", "audio"} \cup Embeds

\* What a provider call comes back with: "transient" is a 429 or 5xx,
\* "unauthorized" a 401 or 403, "rejected" any other client error or an
\* expired credential, "fatal" anything else (a refused connection, a timeout).
Answers == {"ok", "transient", "unauthorized", "rejected", "fatal"}

Awaiting == {"calling", "backoff", "policy"}
Stages == Awaiting \cup {"idle", "breaker", "selecting", "embedding"}

ASSUME DispatchAssumption ==
    /\ ProviderOf \in [Targets -> Providers] /\ MessagesProvider \in Providers
    /\ Adapters \subseteq Providers
    /\ Grants \subseteq SUBSET Targets
    /\ ChainConfigs \subseteq Seq(Entry)
    /\ Workload \in [Requests -> SUBSET (Kinds \X Targets)]
    /\ MaxRetries \in Nat /\ MaxSelectHops \in Nat /\ MaxEmbedHops \in Nat
    /\ HopBound \in Nat

Request == [pc        : Stages,
            kind      : Kinds,
            asked     : Targets,            \* what the request resolved to
            target    : Targets,            \* what is tried now
            allowed   : SUBSET Targets,     \* fallbacks policy and tools permit
            attempts  : Nat,                \* provider calls made
            fallbacks : Nat,                \* hops to another model
            retry     : Nat,                \* retry_attempt at this target
            cursor    : Names,              \* where the chain walk stands
            hops      : Nat]                \* candidates considered in this walk

\* A slot between requests, left by one for t.
Vacant(t) == [pc |-> "idle", kind |-> "chat", asked |-> t, target |-> t,
              allowed |-> {}, attempts |-> 0, fallbacks |-> 0, retry |-> 0,
              cursor |-> Canonical[t], hops |-> 0]

Becomes(r, q) == req' = [req EXCEPT ![r] = q]

\* The handler returns, with an answer or an error, and its locals are gone.
Settle(r) == Becomes(r, Vacant(req[r].asked))

-----------------------------------------------------------------------------
(* Which answers the handlers report to the breaker, and as what.          *)

\* Mutant: every failed call is charged to the provider.
ChargedAll(kind) == IF kind \in Embeds THEN {} ELSE Answers \ {"ok"}

\* record_provider_error and record_provider_failure classify the error,
\* record_upstream_status reads the status, audio records transport errors.
Charged(kind) ==
    CASE kind \in Embeds   -> {}
      [] kind = "audio"    -> {"fatal"}
      [] kind = "messages" -> {"transient", "fatal"}
      [] OTHER             -> {"transient", "unauthorized", "fatal"}

\* The audio handlers record a success for any HTTP response, before they
\* look at its status.
Absolved(kind) ==
    CASE kind \in Embeds -> {}
      [] kind = "audio"  -> Answers \ {"fatal"}
      [] OTHER           -> {"ok"}

Report(kind, p, a) ==
    \/ a \in Absolved(kind) /\ RecordSuccess(p)
    \/ a \in Charged(kind) /\ RecordFailure(p)
    \/ a \notin Absolved(kind) \cup Charged(kind) /\ UNCHANGED circuits

\* The history: a failure is the provider's own unless it refused the request.
Blame(kind, p, a) ==
    IF kind \in Embeds \/ a = "rejected" THEN blame
    ELSE IF a = "ok" THEN [blame EXCEPT ![p] = 0]
    ELSE [blame EXCEPT ![p] = IF @ < FailureThreshold THEN @ + 1 ELSE @]

\* Mutant: one retry too many.
RetriesOnceMore(q, a) == /\ q.kind \in {"chat", "pinned"}
                         /\ a = "transient"
                         /\ q.retry <= MaxRetries

\* should_retry: only the chat loop retries, and only a 429 or 5xx.
Retries(q, a) == /\ q.kind \in {"chat", "pinned"}
                 /\ a = "transient"
                 /\ q.retry < MaxRetries

\* The provider whose breaker is asked, whose client is called and to whom the
\* answer is charged: /v1/messages always turns to MessagesProvider, whatever
\* provider its model resolved to.
Upstream(q) == IF q.kind = "messages" THEN MessagesProvider ELSE ProviderOf[q.target]

Available(t) == t \notin disabled /\ ProviderOf[t] \notin disabled

\* The image and audio handlers have no operator-disable gate.
Gated(kind) == kind \notin {"images", "audio"}

\* Those handlers and /v1/messages build their own client: no registry lookup.
NeedsAdapter(kind) == kind \notin {"images", "audio", "messages"}

-----------------------------------------------------------------------------
(* Requests: from admission to the provider call.                          *)

\* A request arrives and passes everything ahead of dispatch: the disable
\* gate is the last check that reads shared state modelled here.
Arrive(r, kind, t) ==
    /\ req[r].pc = "idle"
    /\ <<kind, t>> \in Workload[r]
    /\ Gated(kind) => Available(t)
    /\ \E g \in IF kind = "chat" THEN Grants ELSE {{}} :
         Becomes(r, [Vacant(t) EXCEPT
                       !.pc = IF kind \in Embeds THEN "embedding" ELSE "breaker",
                       !.kind = kind, !.allowed = g])
    /\ UNCHANGED <<circuits, dbChains, disabled, blame>>

\* A chat request turns to the fallback chain; a bound one, and every other
\* endpoint, reports the failure.
GiveUpOn(r) ==
    \/ req[r].kind # "chat" /\ Settle(r)
    \/ /\ req[r].kind = "chat"
       /\ Becomes(r, [req[r] EXCEPT !.pc = "selecting", !.retry = 0, !.hops = 0,
                                    !.cursor = Canonical[req[r].target]])

Call(r) == Becomes(r, [req[r] EXCEPT !.pc = "calling", !.attempts = @ + 1])

BreakerCheck(r) ==
    LET q == req[r]
        p == Upstream(q)
    IN  /\ q.pc = "breaker"
        /\ IsOpen(p)
        /\ \/ Refuses(circuits[p]) /\ GiveUpOn(r)
           \/ /\ ~Refuses(circuits[p])
              /\ NeedsAdapter(q.kind) /\ p \notin Adapters
              /\ Settle(r)
           \/ /\ ~Refuses(circuits[p])
              /\ NeedsAdapter(q.kind) => p \in Adapters
              /\ Call(r)
        /\ UNCHANGED <<dbChains, disabled, blame>>

\* Mutant: the walk forgets that the request is bound to its model.
EmbedAdvanceUnbound(r) ==
    LET q    == req[r]
        next == NextAfter(dbChains, Canonical[q.target])
    IN  IF q.fallbacks >= MaxEmbedHops THEN Settle(r)
        ELSE \/ next = {} /\ Settle(r)
             \/ \E n \in next :
                  Becomes(r, [q EXCEPT !.pc = "embedding", !.target = Resolve[n],
                                       !.fallbacks = @ + 1])

\* The next model of an embeddings walk, or its end.
EmbedAdvance(r) ==
    LET q    == req[r]
        next == NextAfter(dbChains, Canonical[q.target])
    IN  \/ /\ q.kind = "pinned_embed" \/ q.fallbacks >= MaxEmbedHops \/ next = {}
           /\ Settle(r)
        \/ /\ q.kind = "embed" /\ q.fallbacks < MaxEmbedHops
           /\ \E n \in next :
                Becomes(r, [q EXCEPT !.pc = "embedding", !.target = Resolve[n],
                                     !.fallbacks = @ + 1])

\* Mutant: the loop does not look at the disable list.
EmbedTryUngated(r) ==
    /\ req[r].pc = "embedding"
    /\ IF ProviderOf[req[r].target] \in Adapters THEN Call(r) ELSE EmbedAdvance(r)
    /\ UNCHANGED <<circuits, dbChains, disabled, blame>>

\* One turn of the embeddings loop: a disabled model or a missing adapter is
\* a failed attempt.
EmbedTry(r) ==
    LET t == req[r].target
    IN  /\ req[r].pc = "embedding"
        /\ IF Available(t) /\ ProviderOf[t] \in Adapters THEN Call(r) ELSE EmbedAdvance(r)
        /\ UNCHANGED <<circuits, dbChains, disabled, blame>>

-----------------------------------------------------------------------------
(* Requests: the answer.                                                   *)

\* The call returns. A retryable error only sleeps; any other outcome is
\* reported to the breaker and settles the request or moves it on.
UpstreamAnswers(r, a) ==
    LET q == req[r]
        p == Upstream(q)
    IN  /\ q.pc = "calling"
        /\ \/ /\ Retries(q, a)
              /\ Becomes(r, [q EXCEPT !.pc = "backoff", !.retry = @ + 1])
              /\ UNCHANGED circuits
           \/ /\ ~Retries(q, a)
              /\ Report(q.kind, p, a)
              /\ \/ a = "ok" /\ Settle(r)
                 \/ a # "ok" /\ q.kind \in Embeds /\ EmbedAdvance(r)
                 \/ a # "ok" /\ q.kind \notin Embeds /\ GiveUpOn(r)
        /\ blame' = Blame(q.kind, p, a)
        /\ UNCHANGED <<dbChains, disabled>>

\* The backoff sleep ends: the same target is called again, without another
\* look at the breaker or the disable list.
BackoffEnds(r) ==
    /\ req[r].pc = "backoff"
    /\ Call(r)
    /\ UNCHANGED <<circuits, dbChains, disabled, blame>>

\* The client goes away while the handler awaits, and the handler is dropped:
\* a provider call under way is never reported to the breaker.
Disconnect(r) ==
    /\ req[r].pc \in Awaiting
    /\ Settle(r)
    /\ UNCHANGED <<circuits, dbChains, disabled, blame>>

-----------------------------------------------------------------------------
(* Chat requests: the walk along the fallback chain.                       *)

\* Mutant: a skipped candidate neither moves the cursor nor counts as a hop.
ConsiderNextStuck(r) ==
    LET q    == req[r]
        next == NextAfter(dbChains, q.cursor)
    IN  /\ q.pc = "selecting"
        /\ IF q.hops >= MaxSelectHops \/ next = {} THEN Settle(r)
           ELSE \E n \in next :
                  IF Available(Resolve[n])
                  THEN Becomes(r, [q EXCEPT !.pc = "policy", !.cursor = n])
                  ELSE Becomes(r, q)
        /\ UNCHANGED <<circuits, dbChains, disabled, blame>>

\* The next candidate is skipped when disabled, else its policy is queried.
ConsiderNext(r) ==
    LET q    == req[r]
        next == NextAfter(dbChains, q.cursor)
    IN  /\ q.pc = "selecting"
        /\ \/ /\ q.hops >= MaxSelectHops \/ next = {}
              /\ Settle(r)
           \/ /\ q.hops < MaxSelectHops
              /\ \E n \in next :
                   IF Available(Resolve[n])
                   THEN Becomes(r, [q EXCEPT !.pc = "policy", !.cursor = n])
                   ELSE Becomes(r, [q EXCEPT !.cursor = n, !.hops = @ + 1])
        /\ UNCHANGED <<circuits, dbChains, disabled, blame>>

\* The policy answer for the candidate at the cursor; a denial skips it.
PolicyAnswers(r) ==
    LET q == req[r]
        t == Resolve[q.cursor]
    IN  /\ q.pc = "policy"
        /\ \/ /\ t \in q.allowed
              /\ q.fallbacks < HopBound
              /\ Becomes(r, [q EXCEPT !.pc = "breaker", !.target = t,
                                      !.fallbacks = @ + 1, !.hops = 0])
           \/ /\ t \notin q.allowed
              /\ Becomes(r, [q EXCEPT !.pc = "selecting", !.hops = @ + 1])
        /\ UNCHANGED <<circuits, dbChains, disabled, blame>>

-----------------------------------------------------------------------------
(* The administrator and the clock.                                        *)

SetChains(c) ==
    /\ dbChains' = c
    /\ UNCHANGED <<circuits, req, disabled, blame>>

\* An enable or a disable, as installed by update_availability.
Switch(x) ==
    /\ disabled' = IF x \in disabled THEN disabled \ {x} ELSE disabled \cup {x}
    /\ UNCHANGED <<circuits, req, dbChains, blame>>

Cool(p) ==
    /\ CooldownElapses(p)
    /\ UNCHANGED <<req, dbChains, disabled, blame>>

-----------------------------------------------------------------------------
Init ==
    /\ BreakerInit
    /\ \E t \in Targets : req = [r \in Requests |-> Vacant(t)]
    /\ dbChains \in ChainConfigs
    /\ disabled = {}
    /\ blame = [p \in Providers |-> 0]

\* The steps a request takes by itself once it is in.
Proceed(r) ==
    \/ BreakerCheck(r)
    \/ EmbedTry(r)
    \/ \E a \in Answers : UpstreamAnswers(r, a)
    \/ BackoffEnds(r)
    \/ ConsiderNext(r)
    \/ PolicyAnswers(r)

Next ==
    \/ \E r \in Requests : Proceed(r) \/ Disconnect(r)
    \/ \E r \in Requests, kind \in Kinds, t \in Targets : Arrive(r, kind, t)
    \/ \E c \in ChainConfigs : SetChains(c)
    \/ \E x \in Switchable : Switch(x)
    \/ \E p \in Providers : Cool(p)

Spec == Init /\ [][Next]_vars

\* Adapters bound their calls by timeout_secs; the audio handlers' client has
\* no timeout, and a provider that stays silent holds the request for ever.
Timed(kind) == kind # "audio"

\* Every handler runs on (timed calls, sleeps and queries return) and time
\* passes.  Nothing is assumed of clients or of the administrator.
FairSpec ==
    /\ Spec
    /\ \A r \in Requests :
         WF_vars((req[r].pc = "calling" => Timed(req[r].kind)) /\ Proceed(r))
    /\ \A p \in Providers : WF_vars(Cool(p))

-----------------------------------------------------------------------------
(* Properties.                                                             *)

\* Every variable keeps its shape, and the fields of each circuit agree.
TypeOK ==
    /\ BreakerInv
    /\ req \in [Requests -> Request]
    /\ dbChains \in ChainConfigs
    /\ disabled \subseteq Switchable
    /\ blame \in [Providers -> 0..FailureThreshold]

\* A provider is out of service (or on probation) only because, since it last
\* served a request, FailureThreshold answers were its own failures: client
\* errors and expired credentials, whoever sent them, never open a circuit
\* that denies every other caller (circuit_breaker.rs record_provider_error).
OpenIsEarned ==
    \A p \in Providers :
        circuits[p].state # "Closed" => blame[p] = FailureThreshold

\* However requests interleave, one request costs at most MaxRetries + 1
\* provider calls per model it tries, and an embeddings request, which does
\* not retry, at most one call per hop and MaxEmbedHops hops.
WithinBudget(q) ==
    /\ q.attempts <= (q.fallbacks + 1) * (MaxRetries + 1)
    /\ q.kind \in Embeds => q.attempts <= q.fallbacks + 1 /\ q.fallbacks <= MaxEmbedHops

AttemptsBounded == \A r \in Requests : WithinBudget(req[r])

\* Only unbound chat and embeddings requests are ever answered by another
\* model than the one they resolved to (an experiment's result, a stream, an
\* image or an audio answer is the asked model's own), and a chat request only
\* by one its caller's policy permits.
RightfulTarget(q) ==
    /\ q.kind \notin {"chat", "embed"} => q.target = q.asked
    /\ q.kind = "chat" => q.fallbacks = 0 \/ q.target \in q.allowed

OnlyRightfulSubstitutes == \A r \in Requests : RightfulTarget(req[r])

\* Every request whose calls are timed is settled in the end, with chains that
\* do not loop: retries, refusals and skipped candidates run out.
EveryRequestSettles ==
    \A r \in Requests :
        req[r].pc # "idle" /\ Timed(req[r].kind) ~> req[r].pc = "idle"

\* A provider whose requests keep coming is let back in: an open circuit
\* cannot stay open for ever once its failures are over, although each caller
\* only reads it and the first read after opening always refuses.
BreakerRecovers ==
    \A p \in Providers :
        ([]<>\E r \in Requests : req[r].pc = "breaker" /\ Upstream(req[r]) = p)
            => []<>(circuits[p].state # "Open")

\* Once an operator has disabled a model or a provider for good, the calls made
\* for what resolved to it die out on every gated endpoint: neither a retry
\* loop nor a chain walk that was under way keeps it in use.  It speaks of what
\* a request resolved to, which is what the gates look at.  On all endpoints
\* but one that is also what is called; /v1/messages calls MessagesProvider for
\* models of any other provider too, so disabling MessagesProvider leaves
\* those calls to it running (messages.rs:228, 271), which is not claimed.
DisableDrains ==
    \A x \in Switchable :
        <>[](x \in disabled) =>
            <>[](\A r \in Requests : ~ /\ Gated(req[r].kind)
                                       /\ req[r].pc = "calling"
                                       /\ x \in {req[r].target, ProviderOf[req[r].target]})

-----------------------------------------------------------------------------
(* The inductive strengthenings of the safety properties.                  *)

\* A closed circuit has counted no more failures than the history has.
Earned ==
    \A p \in Providers :
        IF circuits[p].state = "Closed" THEN circuits[p].failure_count <= blame[p]
                                        ELSE blame[p] = FailureThreshold

\* Which kind of request may be at which stage.
StageFitsKind(q) ==
    /\ q.pc \in {"selecting", "policy"} => q.kind = "chat"
    /\ q.pc = "backoff" => q.kind \in {"chat", "pinned"}
    /\ q.kind \in Embeds => q.pc \in {"embedding", "calling"}
    /\ q.pc = "embedding" => q.kind \in Embeds

\* The calls a request can have made at each stage: the targets it is done with
\* cost MaxRetries + 1 calls each, the current one a call per retry so far.
DoneWith(q) ==
    IF q.kind \in Embeds THEN q.fallbacks ELSE q.fallbacks * (MaxRetries + 1)

Spent(q) ==
    /\ q.retry <= MaxRetries
    /\ q.pc \notin {"calling", "backoff"} => q.retry = 0
    /\ q.pc \in {"idle", "breaker", "embedding"} => q.attempts <= DoneWith(q)
    /\ q.pc = "calling" => q.attempts <= DoneWith(q) + q.retry + 1
    /\ q.pc = "backoff" => q.attempts <= DoneWith(q) + q.retry
    /\ q.pc \in {"selecting", "policy"} => q.attempts <= DoneWith(q) + MaxRetries + 1
    /\ q.kind \in Embeds => q.retry = 0 /\ q.fallbacks <= MaxEmbedHops

RequestInv(q) == q \in Request /\ StageFitsKind(q) /\ Spent(q) /\ RightfulTarget(q)

DispatchInv ==
    /\ TypeOK
    /\ Earned
    /\ \A r \in Requests : RequestInv(req[r])
=============================================================================
