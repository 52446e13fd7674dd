# A verification project for modelrouter

modelrouter is an LLM gateway written in Rust (axum, tokio, sqlx): it authenticates a
caller, applies policy, chooses a provider and model, calls it with retries and
fallbacks, and accounts for the call. This directory holds TLA+ models of its core,
the TLC runs that check them on small instances, and TLAPS proofs of what matters
most for every instance. Paths below are relative to the repository; a path without
a directory is found under `src/src/`.

Contents: [inventory](#inventory), [modules and code](#modules-and-code),
[runs](#runs), [fairness](#fairness), [proofs](#proofs),
[disagreements found](#disagreements-found), [left out](#left-out),
[plan](#plan).

## Inventory

One process serves everything. A request is a tokio task; handlers share `AppState`
(the breaker, the chain maps, the availability snapshot, the response cache, the
limiters) and the database. What a handler must not wait for (ledger rows, callbacks,
captured streams) it hands to spawned tasks. An administrator changes chains, aliases,
disables, policies and the storage policy while requests run: each write goes to the
database and is then installed in shared memory by an atomic pointer swap.

| component | state | operations | what is hard, and what makes it correct |
|---|---|---|---|
| circuit breaker (`router/circuit_breaker.rs`) | per provider: state, failure count, opened-at, first-open flag | `is_open` (which changes state), `record_success`, `record_failure` by three classifications | calls under way when it opens report later, in any order; it must open only for the provider's own failures and must let a provider back |
| fallback chains (`router/fallback.rs`) | config chains; admin chains in an `ArcSwap` | `next_after`, reload | rewritten under running walks; chains may loop; names have spellings |
| request dispatch (`completions.rs`, `embeddings.rs`, `images.rs`, `audio.rs`, `responses.rs`, `messages.rs`, `router/retry.rs`) | the handler's locals | gate, breaker check, call, retry with backoff, next candidate, policy query for it | six hand-written variants of one protocol; each await lets the world change; clients leave; calls must stay bounded, substitutes rightful |
| availability (`router/availability.rs`, `router/engine.rs`) | snapshot of disabled models and providers | check, replace | checked once, used long after; a disable must drain |
| metering (`spawn_completion_logging`, `StreamLogger`, and every handler's copy of it; `db/prompt_store.rs`) | stream accumulator; ledger, prompt and failure rows | settle, spawn, insert, notify | streams end in several ways, tasks run after the answer, inserts fail, the process exits: charge once, at the told cost, with consent |
| stream reading, translation and capture (`providers/sse_lines.rs`, `providers/anthropic.rs`, `providers/vertex/`, `router/cache/stream.rs`, `parse_sse_chunk`) | partial line; a translator's usage and tool numbers; the assembled answer | feed a line, translate it, finish, store, replay | chunks are cut anywhere; blocks and calls are numbered apart; a streamed, a plain and a replayed answer share one cache entry and must agree |
| response cache (`router/cache/`, `api/admin/cache.rs`) | entries with TTL, in memory or in Redis; one connection behind a lock, a dial cooldown | eligibility, key, get, put, four purges, probe | whose answer is replayed to whom; purges of several calls beside traffic; a server that goes and comes back under every operation |
| credential chain (`providers/credentials.rs`) | active fallback, last probe, last expiry, probe lock | token fetch, fallback probe, switch, health report | bursts of refused requests, cancellation under the lock, memory that outlives the failure |
| admission (`router/policy.rs`, `router/declarative_policy.rs`, `enforce_policy`) | rules; per-minute counts; spend sums in the database | check, re-check a candidate | checks read what later tasks write |
| concurrency and session limits (`router/concurrency.rs`, `router/session_limits.rs`) | semaphore per user; bucket per session | acquire, drop; check and record | permits across streams; u32 sums; window turns |
| load balancer, session affinity (`router/load_balancer.rs`, `router/session_affinity.rs`) | ring counter; pins and an approximate count | next available; get, set, sweep | counters shared by scans; check-then-act on a concurrent map |
| experiments, retention, feedback, archival (`router/experiments.rs`, `api/admin/experiments.rs`, `db/retention.rs`, `feedback.rs`, `archival/`) | registry snapshot; experiment, prompt, failure and outcome rows | create, close, expire, reload, bind, stamp, sweep, redact | a sweep against a changing list; closes by several processes; content that must stay and then must go |
| learned capabilities (`router/learned_capabilities.rs`, `api/admin/learned_capabilities.rs`) | keys in force, in memory; the table | consult, learn, persist, clear, load at start | memory and table written in two steps by two writers, and read by every request that is built |
| aliases and administrative refresh (`api/admin/models.rs`, `api/admin/aliases.rs`) | alias map, chain table, disable list, in tables and in memory | write, rebuild, install, start | read-rebuild-store races; non-transactional rewrites |
| search (`api/routes/search.rs`) | engine registry | walk engines | one more fallback protocol |
| adapters (but for their streams), registries, catalogs, credential sources | none that changes at run time | translate and call | pure I/O |
| complexity router, cost calculator, guardrails, hooks | none | score, price, decide | stateless or external |
| auth, admin UI, configuration, database layers, CLI, telemetry | sessions, forms, files, tables | CRUD, start, stop | around the core |

Interactions. Dispatch calls the breaker and the chains, reads the availability
snapshot, and gets tokens from a credential chain inside its provider call. Its
outcome (answer, stream or failure) is what metering starts from; metering reads the
storage policy, feeds the cache and writes the rows that admission sums for the next
request. An operator's writes go to tables, and each is followed by a rebuild of what
requests read in memory. `PROJECT.json` lists the hazards one by one, each at its line, with the
property that covers it, or why none does.

## Modules and code

A step of every module runs from one `await` (or one lock released) to the next, so an
interleaving of the model is an interleaving the runtime can produce. Whole handlers
are kept: a failing branch, an early return or a dropped future is a step like any other.

* **`CircuitBreaker`** — `ProviderCircuit` field by field; `AfterIsOpen`,
  `AfterSuccess`, `AfterFailure` are what the methods do under the map lock. Time is
  one bit per circuit, whether `opened_at.elapsed()` has passed the cooldown. Both
  oddities of the code are there: the first `is_open` after an opening always refuses
  (it notes `opened_notified`), and a half-open circuit admits everybody.
* **`AbstractBreaker`** — the promise: a provider is in service, refused, or on trial;
  it is refused after a full run of failures and served again after a success.
  `CircuitBreaker` implements it under a refinement mapping (`KeepsPromise`).
* **`FallbackChain`** — `next_after` as an operator: config chains and admin chains as
  sequences of entries, the following name of the first chain that mentions the
  current one. The order in which a HashMap is scanned is a choice.
* **`Dispatch`** (extends both) — request slots, each serving one request after
  another, of eight kinds: a plain chat and one bound to an experiment run
  `complete_with_retry_and_fallback`; a streamed chat and `/v1/responses` make a single
  call; `/v1/messages`, images and audio have clients and breaker reports of their own, and
  those of `/v1/messages` are always `anthropic`'s, whatever its model resolved to (`Upstream`);
  embeddings walk the chain without a breaker. Answers of a provider are the classes
  `retry.rs` distinguishes, and `Charged`/`Absolved` say per endpoint which of them
  reach the breaker. The administrator's `SetChains` and `Switch`, the clock, and a
  client's `Disconnect` at any await interleave with them. `blame` is a history
  variable: failures on a provider's part since it last served.
* **`Metering`** — a call from the moment its handler loads the storage policy: cache
  hit, answer of each endpoint, guardrail verdict, awaited cache store; the stream
  logger reading a script of SSE lines whose bytes arrive in chunks cut anywhere
  (head, tail and newline of a line are three units; a cut inside a multi-byte
  character makes both chunks unreadable, as `from_utf8` does); the spawned tasks with
  failing inserts; policy reloads; exit. `told` is the cost in the answer.
* **`CredentialChain`** — `CredentialChain::fetch`: the active fallback, the remembered
  expiry, the configured source, and `try_fallback` under its lock with the probe
  stamp; cancellation at each await releases the lock. Ages are kept up to `Interval`.
* **`Admission`** — a request from authentication to the end of its handler:
  declarative rules, then the rules of key and user in the order `check` visits them,
  each with its per-minute count (an increment and a reading, two statements), its
  dollar and token sums and its permit figure; then the backstops of the project
  and the global rule; the permit; the session bucket; the call; the ledger row
  written by a spawned task after the answer. An administrator adds, edits and deletes
  rules and resets spend, the minute and the day turn. `counted`, `passed` and `doomed`
  are history variables. A fallback candidate's check (`model_permitted`) is a step.
* **`Operator`** — model rows, provider states, aliases and chains in the database, and
  the three maps the router reads. Each administrative handler is a program of its
  statements, ending in the refreshes it makes; every query can fail, every handler can
  be dropped at an await; a restart seeds the maps from rows and configuration.
  `settled` is the history of writes that met no other administrator's.
* **`Routing`** (extends `Operator`) — requests against those maps: a draw from a pool
  by the shared counter, skipping what is off; the alias walk of `resolve`; the pin of
  a session; the gate. What is asked for is a model, an alias or a pool.
* **`Experiments`** — experiment rows, the registry, and prompt, ledger, failure and
  outcome rows. Administrators, the command line (another process) and the lifecycle
  tick create, close and reload; a request is bound, called and logged; a report goes
  through its three steps; the retention tick sweeps, redacts and clears notes. Time is
  in days.
* **`RedisLink`** — `RedisStore::conn`, `mark_broken` and `ReconnectGate`: the held
  connection, the write lock across a dial, the cooldown, and where each task is. A
  task works on its clone of a connection, sound or dead; the server is up, busy or
  down. `quiet` is the history: time since a dial failed.
* **`ResponseCache`** (extends `RedisLink`) — requests that look up, ask the provider
  and store; operators who purge by key, label, model or everything, and probe. One
  specification for both stores: a command runs in the process, or over the link and
  then may fail, be taken for failed although Redis carried it out, or not be sent.
* **`Streams`** — one streamed answer from the provider's lines to a later caller. Its
  state is how much has come (`at`, in half lines), what was cut inside a character
  (`torn`), and the fields of `MessagesStreamCapture`, `ChatStreamCapture` and the two
  translators; `Deliver` feeds the lines a chunk completes, as the code does on each poll,
  `Closes`, `Lost` and `Put` end the body, drop it, and store what was captured. `FeedLine`,
  `FeedChunk`, `TranslateAnthropic` and `TranslateGemini` are the functions of a line;
  `ReplayMessage` and `ReplayChat` what a hit plays back. `PlainMessage` and `PlainChat`
  are the reference: what a call that did not stream stores. `Metering` has the same
  captures as seen by billing; `Streams` has what is in them.
* **`LearnedCapabilities`** — requests that are built (`temperature_allowed`), rejected,
  learn in memory and then write the table, and are built and sent anew by the
  retry; administrators who delete the row and then the live entry; the process, which
  starts from the table; providers that change their mind. A failing write, and a client
  who leaves between the two halves, are steps; `unsaved` and `alone` are history.
* **`MCDispatch`, `MCMetering`, `MCCredentialChain`, `MCAdmission`, `MCRouting`,
  `MCExperiments`, `MCResponseCache`, `MCStreams`, `MCLearnedCapabilities`** — the instances.
* **`DispatchProofs`** (breaker and dispatch), **`MeteringProofs`**, **`CredentialChainProofs`**,
  **`AdmissionProofs`**, **`RoutingProofs`** (operator and routing), **`ResponseCacheProofs`**
  (link and stores), **`ExperimentsProofs`**, **`AdapterProofs`** (learned capabilities and
  streams) — the proofs.

## Runs

| run | what it asks | instance and why it is enough |
|---|---|---|
| `dispatch` | `OpenIsEarned`: a circuit opens only for failures of the provider itself; `AttemptsBounded`: a request costs at most `MaxRetries + 1` calls per model tried; `OnlyRightfulSubstitutes`; `KeepsPromise`: the shared breaker implements `AbstractBreaker` | two slots that both call two providers (so one sees the breaker the other opened), a third without adapter; threshold 2; one retry; chains with a skipped candidate, in alias and prefixed spelling; one model to disable; two grants. Slots are re-used, so requests follow one another without end |
| `dispatch_live` | `EveryRequestSettles`, `BreakerRecovers`, `DisableDrains` | the kinds that can keep a slot busy; threshold 1; a disable of a whole provider |
| `metering` | `ChargedExactlyOnce`, `ToldIsCharged`, `ConsentHonoured`, `CacheHoldsWholeAnswers`, `StreamsAreCharged` | one call of any sort beside a plain cacheable chat, which is what it takes for one to be answered from the other's entry; three scripts (complete, without usage, with a line the capture does not know) cut in every way; both storage gates |
| `credentials` | `TransientsPassThrough`, `SwitchesOnce`: no fallback is probed once one serves, however many queued on the lock; `OneProbePerInterval`, `EveryFetchEnds`, `ExpiryWearsOff` | three requests: one probing, one queued on the lock, one beginning; an interval of two ticks, so that "young" and "old" differ |
| `admission` | `RateCeiling`: however counts interleave, no more requests pass a per-minute limit than it says, and sessions stay within theirs; `RateRefusalEarned`: whoever is refused by one, the user's requests were counted more often than it says in that minute; `ExhaustedStaysShut`: a request that begins when a budget is used up never gets through while that lasts; `PermitsHeldByHandlers` | three requests of two users, with rules of every scope between them; two of the requests meet a per-minute limit of their key and one of their user, the third the user's alone, and an administrator may add one more; an administrator's one act; two minutes; a session of one request and one token |
| `routing` | `SettledWritesHold`: a write that met no other administrator's rules the live router, whatever refreshes and restarts follow; `AcceptedAliasResolves`: an alias the write's check lets through has an end within the router's depth; `DisabledNotCalled`; `PoolRefusalEarned`; `SettledAliasFollowed` | two administrators, rows and aliases of one name, configured aliases of two hops, aliases of a model's id, which close a cycle with one another or are a hop too long once a row is gone; two providers, a pool of two, two requests of one session, a restart |
| `experiments` | `EvidenceKept`: what a retaining experiment may keep is not swept before its window is over; `ContentGoesForGood`: then it goes, and late rows and reports do not bring it back for good; `CloseReachesRequests`; `StampsOfTheRun` | one retaining experiment that expires, beside earlier rows without one; an administrator and the command line, one act and one failing query between them; three days, which is expiry, the window and what is after it |
| `cache` | `PurgeHolds`: a purge that met no failure has removed all that was in its scope when it began; `DialsSpaced`: no dial within the cooldown of a failed one; `Heals`: once Redis stays up and probes go on, a sound connection is held for good | a request and an operator, which is what it takes for one to fail late on the connection the other has replaced; two keys, two labels; scopes "everything" and "label", the ones of two and three calls; a cooldown of one tick |
| `streams` | `NativeCaptureExact`: a native stream is stored exactly when it came whole and was understood, and then as the plain answer; `StreamKeepsAnswer`: a translated stream that came whole is stored with the plain call's text, calls, output tokens and cached tokens, and the finish that clients dispatch on; `ReplayRebuilds`: an entry played back and assembled again is the entry | four answers: text in two pieces with a wide character; thinking, redacted thinking and a cited text, cut by the token limit; text, two calls and one of the provider's own tools between them; a call whose input was cut short. Each on each of four ways, clean or with a keep-alive, an unknown event or an error at every place, or as a JSON body; delivered in chunks cut in every way, ended anywhere |
| `learned` | `LiveIsStored`: what is in force is stored, or somebody is about to write or clear it, or a write of it failed; `ClearHolds`: a deletion that no rejection crossed has removed the entry from both places; `RejectionsRunOut`: no model is rejected again and again | two requests and two administrators, which lets each cross the other's halves; one model under two ids that share a key, one forced by configuration; two deletions, restarts or changes of mind, one failing query |
| `routing_sticky`, `streams_text` | one documented statement each, violated | [below](#disagreements-found) |

Bounds: `HopBound` caps the hops of one chat request (the code has no bound, see
below); `MaxSelectHops` and `MaxEmbedHops` stand for the two `MAX_FALLBACK_HOPS` and
are small in the passing runs because the chains are; `MaxAliasDepth` stands for
`MAX_ALIAS_DEPTH` (ten), and is two in the instance so that aliases of three hops are too
long; failure counts stop at the
threshold, ages at `Interval`. `MaxActs`, `MaxJobs` and `MaxFaults` cap what
administrators do and how many queries fail, `MaxNow` the clock of the modules that
date rows. Nothing else is bounded. Every property of a passing run
has a mutant (`RetriesOnceMore`, `EmbedTryUngated` and so on, each defined just before
the definition it would replace): a plausible bug with which the run fails.

A slot that waits for a request that never comes, a call that is over, a process that
has exited: none of them is a deadlock of the specifications, since the clock, the
administrator or a further fetch can always step. `admission`, `routing` and
`experiments` come to an end by their bounds (the requests are served, the acts spent,
the clock at `MaxNow`), and a stream of `streams` ends, so these switch the deadlock
check off; what must still happen there is stated as liveness or as an action property.

The runs check no type invariant but that of `credentials`. Every module has its
type invariant but `Streams`, whose fields are sequences of the parts that its properties
compare in full; each is proved for every instance. The runs are left to what a type does
not say.

## Fairness

* `Dispatch`: weak fairness of each request's own steps, and of the clock. Handlers are
  run by tokio, sleeps and queries return, and adapters build their clients with
  `timeout_secs`. The audio handlers do not: `reqwest::Client::new()` (`audio.rs:106`)
  has no timeout, so a call of theirs is not assumed to return (`Timed`), and
  `EveryRequestSettles` does not speak of it. Clients and administrators are free.
* `Metering`: a stream's body ends or is dropped (the provider client's timeout bounds
  the whole response), and spawned tasks run. Handlers are free. For Bedrock the SDK's
  operation timeout stands in for the client's.
* `CredentialChain`: sources and probes answer (`FALLBACK_PROBE_TIMEOUT`, the HTTP
  clients' limits), ticks happen, and the tokio mutex is first come, first served,
  which is strong fairness of winning it. No request is obliged to fetch.
* `Experiments`: the ticks come round (tokio intervals), a step under way goes on, and
  the clock moves; administrators, requests and reports are free. That a tick comes
  often enough between two others' steps to find them done is weak fairness of it.
* `ResponseCache`: weak fairness of each task's steps, since a command ends in a reply,
  an error or the client's response limit (`store.rs:421`), and of the cooldown's clock. Strong
  fairness of *some* task starting a dial, and of some dial succeeding: tries that could
  take the lock are not unlucky for ever, and not every dial is abandoned by its
  caller. `Heals` has the premise that Redis stays up and that probes keep coming; the
  Helm chart's liveness and readiness probes (`deployment.yaml:86`, `:93`) ask `/health`,
  which pings the cache.

`Admission` and `Routing` state no liveness: each of their steps is a query or a
computation that returns. `RejectionsRunOut` needs no fairness: it says what cannot go on
for ever, and a process that stops does not go on.

`BreakerRecovers` is conditional: `is_open` is what moves a circuit on, so a circuit
nobody calls stays as it is.

## Proofs

All are checked by TLAPS for every value of the constants under the named assumptions,
each in the module that declares the constants, and each evaluated by TLC on the run's
instance. They say what the constants are, and what the code makes of them:

* `ThresholdAssumption`: the threshold is a positive number. `ChainAssumption`: names
  resolve to targets, targets have canonical names. `DispatchAssumption`: types of the
  workload, grants, chains and bounds.
* `MeteringAssumption`: the workload is made of calls that a handler can serve (a call bound
  to a retaining experiment is not answered from the cache), scripts are sequences of lines.
* `CredentialAssumption`: the interval is positive, nobody is not a request.
* `AdmissionAssumption`: finitely many requests; rules have the fields of the table and ids
  of their own, below the next one to be given; windows have a length.
* `OperatorAssumption`, `RoutingAssumption`: rows are of models, models of providers; a name
  that is no model's id is told from one (ids have a `/`), while aliases may be of either;
  the depth of a walk is positive; the rows at the start have no alias twice
  (`models.alias` is `UNIQUE`, `migrations/016_models.sql:6`); rings are sequences of models.
* `LinkAssumption`, `CacheAssumption`: nobody is not a task, the cooldown is positive; a task
  is a request or an operator; a scope by key names a key.
* `ExperimentsAssumption`: an experiment that retains its content has an expiry
  (`parse_create` refuses it otherwise), the tick is neither an administrator nor the
  command line. `LearnedAssumption`: every model has a key.
* `StreamsAssumption`: what the providers' APIs say of an answer. Thinking is signed once and
  a tool use carries nothing beside its input, an answer says why it ends, in the provider's
  own words (`none` and `tool_calls` are not among them), and its last event counts the
  output; counts are natural numbers.

Each component has one inductive invariant (or one per concern), and its properties follow:

* **`DispatchProofs`**. Of the breaker by itself: every method keeps a circuit's fields in
  agreement (`BreakerAlwaysConsistent`), and each of its steps is a step or a stutter of
  `AbstractBreaker` under the mapping (`BreakerKeepsPromise`). Of dispatch: `DispatchInv` is
  `TypeOK`, with `Earned` (a closed circuit has not counted more failures than the
  history; without it nothing is known of the count at the moment a circuit opens) and
  `RequestInv` for each request: which kind can be at which stage, and how much of its
  budget it can have spent there (`Spent`; the plain bound is not inductive, since a
  request about to call could have used its last call). The four safety properties of
  the run follow, and the breaker theorem is carried over to the shared breaker
  (`DispatchKeepsPromise`): every request step is a step of the breaker or leaves it alone.
* **`MeteringProofs`**. `MeterInv` says of each call by itself where its charge is at each
  stage: `Counted` (ledger rows, losses, tasks on their way and a logger that has not
  recorded add up to one from the moment the call is owed for, and to none before),
  `Placed` (which stage has a stream, an answer, a cost told), `Truthful` (whatever carries
  a charge carries the one that was told) and `Consented`. "At most one row" is not
  inductive: it needs to know that a logger which has recorded will not record again when
  it is dropped, and that a handler which closes has no stream. A step is proved to touch
  one call (`Moves`), so each action is a matter of one record. `CachedAnswersAreWhole` has
  an invariant of its own, `StoresTrue`, about the entries and those on their way; it needs
  `DoneIsLast`, that a script has nothing after `[DONE]`, since the capture closes there
  (the instance's scripts are like that).
* **`CredentialChainProofs`**: `ChainInv` joins the type invariant, in which the lock is
  held by the one request that is probing or joining, with the two safety properties and with
  `StampTrue`: `last_probe` has the age of the last probe there was. `OneProbePerInterval`
  is an action property that follows from the last conjunct.
* **`AdmissionProofs`**. `RateCeiling` from `RatesTrue`: a minute's counter is at least the
  number of requests that have incremented it, so of those who passed a limit the last to
  read the counter had them all in it; and from `SessionsTrue`: a bucket holds what the
  chats of its minute were charged, and none is charged in a later one.
  `PermitsHeldByHandlers` is inductive with the types. `ExhaustedStaysShut` from
  `BudgetsTrue`: a rule that was used up when a request began, and has not changed, is still
  ahead of the request (`Ahead`): among its rules to come, or, if its dollars were passed,
  over in tokens; the project's and the global one come after them. The sums only grow
  while the rule stays live, whatever is edited, deleted and reset meanwhile.
  `RefusalsAreEarned` is the other direction of `RateCeiling`, from `LimitsTrue`: a minute's
  counter is at most the number of counts made in it, because no handler counts twice for
  one rule. A request counts once for each per-minute limit it meets, so with two it counts
  twice in the user's one counter (`policy.rs:93`): the theorem holds for any composition of
  limits and says just that much. That one request is one count is false (below).
* **`RoutingProofs`**. `RoutingInv` joins three parts. `OperatorInv`: types (with what each
  handler's job must be for its program counter, and one row for an alias), and, as long as
  no query has failed, `SettledTrue` (a settled write is in the tables and in the router, and whoever is on
  the way to store a copy has read it so) with `AloneTrue` (how far the job of a handler
  that met nobody has come, in the tables and in what it has read). Neither is inductive
  without the other: a store puts into the router what was read some steps ago.
  `PoolTrue`: whatever a scan that nothing came into has drawn is off; how many draws ago a
  place of the ring was drawn is told from the shared counter (`ScanTrue`, `Behind`), so a full
  round has met every place. `SettledWritesRule`, `DisabledAreNotCalled`,
  `AcceptedAliasesResolve` and `SettledAliasesAreFollowed` speak of executions in which no query
  failed (`faults = 0`, or `MaxFaults = 0` where the property is an action property): with a
  failing list query they are false, because `aliases.rs:69` takes it for an empty table
  (below). The run has the same bound. `PoolsAreRefusedForCause` has no such condition.
  `AcceptedAliasesResolve` needs, beside the two, that the tables the check read are those
  the refresh reads again but for the alias written (`Accepted`), and `AcceptedWalk`: if the
  walk from the target, of one hop less than the router's, ends without coming to the alias,
  then the walk from the alias over the new map ends within the router's depth. The check
  and the walk are two loops in the code, and the lemma is about both, for any depth.
* **`ResponseCacheProofs`**. `LinkInv` is `LinkTypeOK` with `GateTrue`: while the cooldown of a failed
  dial lasts the gate says so, and whoever dials found it over. Steps of
  the cache are proved to be steps of the link (`CacheStepsAreLinkSteps`), so `DialsSpaced`
  is proved of the link once. `CacheInv` adds `AtWork` (who is inside the link has a command
  to run) and `PurgeTrue`: an entry that was there when the purge began, and still is, is in
  its scope, and from the listing of the keys on among those it found and will delete.
* **`ExperimentsProofs`**. `EvidenceInv`: `Known` (what is bound, registered or read to be
  registered is in the table), `Sheltered` (during a sweep an experiment whose window is
  open was listed as protected, or came later than the list, and then has no row as old as
  the cutoff) and `Elapsed` (what is about to be redacted is closed, and over at the time
  the tick began). `EvidenceKept` alone is not inductive: a sweep deletes by a list made some
  queries ago. `StampsAreOfTheRun` needs `Carried`, the same of the stamps that reports carry.
* **`AdapterProofs`**, learned capabilities. `LearnedInv`: `TypeOK`, `LiveIsStored`, and
  `ClearHalfDone`: a clear that has deleted the row, and was not crossed, has no writer of
  its key against it. `ClearHolds` is an action property of it.
* **`AdapterProofs`**, streams. `StreamsInv` says what the process holds by what has come:
  `NativeReads` (the capture is the run of `FeedLine` over the lines so far, and an entry
  exists only if they were a whole answer) and `ChatReads` (the same of translator and chat
  capture). The rest is what such a run makes of a whole script, and that is proved of the
  code's functions, without the process. A fold is unrolled line by line; then, by induction
  on the lines: a block read event by event is the block that was sent, the tool translator
  numbers the calls in the order of their blocks whatever blocks lie between, the chat
  capture gathers the same calls from their pieces, and the text is the text of all the
  blocks. Each disturbance is then a run that is the clean one (a keep-alive), stops (an
  error, or an unknown event on the native way), or never starts (a JSON body). The
  replays are runs too, of the lines that the replay makes of an entry.

  The library's induction theorems take an operator, which the provers cannot instantiate.
  `FromTheLeast` is induction over a *set* of numbers instead, from the well-foundedness
  of `<`: the set of the lengths for which the claim holds. It reaches recursive
  functions and folds alike.

Two findings of the proofs were about the models, and are repaired there: the guards of two
`CASE` expressions overlapped (`Operator.Written`, and the readers of lines in `Streams`),
where TLC takes the first and TLA+ leaves the choice open; and `Operator` allowed, at the
start, an alias on two rows, which the table does not.

Only model-checked:

* All liveness, since fairness and `ENABLED` are out of the prover's reach:
  `EveryRequestSettles`, `BreakerRecovers`, `DisableDrains`, `StreamsAreCharged`,
  `EveryFetchEnds`, `ExpiryWearsOff`, `ContentGoesForGood`, `CloseReachesRequests`, `Heals`,
  `RejectionsRunOut`.

Every safety property of every passing run is a theorem, some under a condition named
above: `CacheHoldsWholeAnswers` (`DoneIsLast`) and the four of `routing` that a failing list query breaks (`faults = 0`, `MaxFaults = 0`). Each
instance meets its condition.

## Disagreements found

Each is a run of its own whose single property restates the quoted text.

1. `routing_sticky`: "every subsequent request with the same `session_id` goes to the
   same provider" (`README.md:61`); `resolve_with_pin` returns what it resolved anew in
   every case (`session_affinity.rs:88-125`), so a pin never steers a request.
2. `streams_text`: "a stream that completes cleanly is assembled into the same payload a
   non-streamed call would have stored" (`router/cache/stream.rs:3-4`); the Vertex adapter
   decodes each piece of the body by itself (`vertex/adapter.rs:425`), so a character cut
   over two pieces is replaced, and stored so. `providers/sse_lines.rs:3-6` says why
   a chunk must not be parsed by itself.

Found with a model, and kept here in words (each was a run with one property, and comes
back as one by stating it):

* "The walk is bounded at 8 hops" (`README.md:1197`, `completions.rs:1179`); the hop
  counter restarts with every candidate chosen (`completions.rs:829`), so chains that
  point at each other keep a chat request going. *No request hops more than eight times*,
  with chains a to b and b to a.
* A disabled model "is excluded everywhere it could be reached" (`README.md:1256`); images
  and audio do not look. *Whoever arrives with a disabled target is refused.*
* Likewise a disabled provider; `/v1/messages` looks at the provider the model resolved to or
  the pool drew (`messages.rs:201-229`) and then asks the breaker of `anthropic`, calls it
  and reports to it, whichever that was (`messages.rs:270-330`, `409-441`). With `anthropic`
  disabled it goes on being called for models of other providers; with another one
  disabled, calls that would not have gone there are refused. `DisableDrains` speaks of what a
  request resolved to. *No gated request is at a call to a provider disabled for good.*
* Streams "are metered with provider-counted tokens" unless the upstream reports none
  (`README.md:1723`); a usage line cut by a chunk boundary is lost. *A stream that was read
  to its end and reported usage is charged by it.*
* `X-No-Log` is honoured "on any request" (`README.md:47`); only `/v1/chat/completions`
  reads it. *For every call, `noLog` leaves no prompt row and no callback.*
* The stream's ledger writer "mirrors the non-streaming write" (`completions.rs:1697`);
  the non-streaming one drops the ledger row when the prompt insert fails.
* `expired` is "cleared by the next successful fetch" (`credentials.rs:159`); a token of
  the active fallback does not clear it, and health goes on saying "expired".
* Limit types "compose freely" (`README.md:426`); a per-minute limit on the key beside
  one on its user counts each request twice, and refuses one that nobody accompanied
  (`policy.rs:93`). *A request that no other one of its user accompanied in its minute is
  not refused by a limit of one or more.*
* A disable "never auto-recovers, it survives a restart, and only an explicit enable
  clears it" (`README.md:1266-1269`); a list query that fails in any later refresh is
  taken for an empty table (`aliases.rs:69`) and re-enables everything. *`SettledWritesHold`
  with `MaxFaults` = 1.*
* An outcome "is stamped with the experiment and variant of the run's earliest bound
  request" (`docs/experiments.md:314-316`); that of a run known only by its failures is
  stamped with nothing (`feedback.rs:155`), and counts for no experiment.
* "If another task is already dialling, this operation misses immediately instead of
  queueing" (`store.rs:408-410`); the read lock before it (`store.rs:405`) waits for the
  dial's write lock, up to a second. *No task is at `read` while there is a `writer`.*
* The permit is held "for the duration of the upstream call" (`concurrency.rs:24`); a
  streaming handler returns, and drops it, as the stream begins (`completions.rs:355`).
  `PermitsHeldByHandlers` leaves open which is meant. *Whoever is `streaming` under a limit
  holds a permit.*
* "Writes that would create a cycle are rejected" (`README.md:1151`); the check sees the
  tables as they are before its own write. Two administrators who overlap may each write one
  half of a cycle; a row that carries an alias is written without a check; deleting a table
  alias, or disabling a row, can expose a configured alias that closes one; and an alias that
  was accepted grows too long when another is added at its end, of which only its own
  length is checked. The router walks ten hops and takes
  the model it stands at, or the default one.
  *`AcceptedAliasResolves` of every alias in force, and not only of the one that settles.*
* "The same payload a non-streamed call would have stored" (`router/cache/stream.rs:3-4`)
  is not so of translated streams, beside the cut characters of `streams_text`: prompt
  tokens include the cached ones on the two Anthropic ways where the plain ones do not; the
  finish is "stop" or "tool_calls" where the plain one is the provider's own; tokens
  written to the provider's cache are lost; a call without input has the arguments "" for
  "{}"; Gemini's thinking tokens are lost. `StreamKeepsAnswer` compares what is left. *The
  entry equals `PlainChat(answer)`.*

Seen while modelling, without a run:

* Dispatch and metering. `config.example.toml:38-42` says client errors surface without
  failover, whereas any error falls back; a chain spelled with provider prefixes is
  followed for one hop, since canonical names are looked up afterwards; `README.md:1196`
  walks the chain "when the provider has no configured adapter", whereas chat returns at
  once (`completions.rs:848-851`); the audio handlers report a success to the breaker for
  any HTTP response; a rejected `temperature` makes a second call on the wire within one
  attempt; a streamed message is charged on a guess that is not marked as one
  (`messages.rs:384`); a blocked answer of a plain chat leaves no ledger row.
* Admission. Two simultaneous requests under a limit of one may both be refused
  (`policy.rs:186` calls increment and reading atomic); a token budget over the "total"
  window is summed over the month; "budget sums are model-independent"
  (`policy.rs:358-362`) does not hold for declarative rules that match on the model;
  session buckets and old minute counts are never cleaned; two administrators may create
  the same rule, which is then enforced twice.
* Operator and routing. Overlapping refreshes lose one of two administrators' updates
  live, until the next refresh (`aliases.rs:99`); a handler dropped between its write and
  its refresh leaves the router as it was; a disabled model deleted and created again
  stays refused when it is the snapshot that failed to follow; a pool is refused as "every model disabled" when other requests moved the shared
  counter under its scan (`load_balancer.rs:44-58`, `README.md:1261`).
* Experiments. A later report may replace a stamped outcome by an unstamped one, whose
  note is then never cleared (`docs/experiments.md:525`); a failure row derives its
  binding again when the call fails (`failure_log.rs:62-69`); overlapping reloads may
  leave an older registry until the next tick.
* Cache. A purge during an outage or the cooldown answers 200 with nothing removed, and
  the entries come back (`README.md:1037-1039`); a late failure noted after the link is up
  again logs "unreachable" and nothing afterwards says "reachable"
  (`store.rs:287`: "exactly once"); `MemoryStore::get` drops by key the entry it found expired
  even if a fresh one has replaced it (`store.rs:214-218`); `update_policy` loads and
  stores, so one of two concurrent updates loses fields it did not name
  (`mod.rs:295-323`); a slower, older answer overwrites a refresh; the bound of tracked
  namespaces is checked before it is used; a fallback's answer is cached under the asked
  model's key.
* Streams. `MessagesStreamCapture` refuses a tool input that the token
  limit cut short; the chat capture stores it. A Gemini body that ends early or with an
  error frame is closed with a finish chunk and `[DONE]` like a whole one, and stored
  (`vertex/gemini.rs:172`, `vertex/adapter.rs:490`). The `settings` of a stream are taken
  from the request as first built, although a retry may have dropped its `temperature`
  (`completions.rs:319`, `README.md:1624`: "actually sent").
* Learned capabilities. Any client error that names `temperature`, one about a value out of
  range included, is learned as a rejection for everybody (`model_capabilities.rs:95-101`). A
  write that lands after an administrator's deletion brings the entry back with the next start;
  `ClearHolds` speaks of deletions that were not crossed. A client who leaves between the
  two halves leaves the entry unsaved. A model whose configuration says "supported" is
  rejected and sent again every time.

## Left out

What the components table of `PROJECT.json` calls not modelled, with the reason there:
request formats and the HTTP of adapters and identity providers; price arithmetic; stateless
scoring; forms, queries and telemetry; authentication, which comes ahead of everything
here. Within the modelled parts:

* Dispatch, metering: tool-support filtering of a fallback candidate is part of its
  grant; the learned `temperature` retry is part of one call; the text of answers is a
  count of deltas; latency figures are not modelled.
* Streams: event names and what lies between data lines; a response guardrail that
  rewrites a text before it is stored; the translators of the other adapters (an
  OpenAI-shaped stream passes as it is, in `Metering`; Bedrock's comes from its SDK).
* Learned capabilities: the counters of stripped parameters, the list page, and the
  reasoning controls of `model_capabilities.rs`.
* Admission: the sum and the rule list of the project and the global scope are read in
  one step; total rules have no end date; the IP limiter (a tower layer in front)
  and the removal of old counts are left out.
* Operator, routing: `validate_alias` makes its reads in one step; a fault at start-up is
  all or nothing; a draw's `fetch_add` and its availability check are one step; ids of
  models whose provider is not configured are left out; the affinity map's approximate count, which only
  tells when to sweep, is left out, and so is a write that fails before it did anything.
* Experiments: variants, overlays, the hash that chooses one, the gates of creation and
  the results page; the stamp is the experiment. Failing prompt and ledger inserts are
  `Metering`'s. The audit rows are steps without a table. A process that crashes between
  two statements is not modelled, a failing query is.
* Cache: which requests take part (eligibility, directives, policy), the values of
  lifetimes (an entry may expire at any moment), counters and answers; lists of more than
  200 keys, which Redis gets in several commands; the log's notion of the link
  (`LinkState`); a restart of the router, which begins with no connection as `Init` does.

## Plan

Done, in this order: breaker and promise, chains, dispatch, metering, credentials;
admission; operator and routing; experiments and retention; the cache's stores and link;
stream translation, capture and replay; learned capabilities; proofs of every safety
property that a run checks. Next, most important first:

1. The adapters' translation of requests against each other's dialects; cache
   eligibility and keys.
2. The search walk; the reload of the configuration.
