----------------------------- MODULE Admission -----------------------------
(***************************************************************************)
(* Who may call a provider now: the policy engine (declarative rules, then *)
(* the budget rules of the key, the user, the project and everybody), the  *)
(* per-minute counts, the per-user concurrency permits and the session     *)
(* limiter, with the administrators who edit the rules meanwhile.          *)
(*                                                                         *)
(* A request awaits the database at every rule, and what it spends reaches *)
(* the ledger from a task spawned after its answer, so requests of a user  *)
(* pass each other between a count and its reading and between a sum and   *)
(* the charge that would have raised it.                                   *)
(*                                                                         *)
(* The clock ticks in minutes.  An optional value is a set of at most one. *)
(* Every call costs one dollar and one token.                              *)
(***************************************************************************)
EXTENDS Naturals, Sequences, FiniteSets

CONSTANTS
    Requests, Users, Sessions, Models, Admins,
    Names,              \* of users, keys and projects
    Profile,            \* request -> who asks for what
    PolicyRules,        \* [[policy_rules]], highest priority first
    InitialRules,       \* the rows of budget_rules at the start
    NewRules,           \* what an administrator may add
    Edits,              \* the dollar limits an administrator may write into a rule
    FirstId,            \* the first id not given to an initial row
    MaxActs,            \* bound: what administrators do
    Length,             \* calendar window -> its length in minutes
    SessionRpm, SessionTpm,
    MaxNow              \* bound: the last minute looked at

VARIABLES
    req,                \* request -> its handler
    rules,              \* budget_rules
    counts,             \* rate_limit_state: user -> minute -> count
    ledger,             \* request -> the minute its cost row was written
    resetAt,            \* users.spend_reset_at
    cap,                \* user -> the capacity its semaphore was made with
    permits,            \* user -> the requests that hold one
    buckets,            \* SessionLimiter::buckets
    admin,              \* administrator -> the rule about to be inserted
    nextId,
    acts,               \* how often administrators have acted
    now

vars == <<req, rules, counts, ledger, resetAt, cap, permits, buckets, admin, nextId, acts, now>>

Opt(S) == {s \in SUBSET S : \A x, y \in s : x = y}

Windows == {"daily", "monthly", "total", "target"}

\* Whom a rule is about: a key, a user, a project (attributed calls), or all.
Scope == [kind : {"key", "user", "project", "global"}, of : Names]

Rule == [id : Nat, scope : Scope, window : Windows, usd : Opt(Nat), tokens : Opt(Nat),
         rpm : Opt(Nat), conc : Opt(Nat), allow : SUBSET Models, deny : SUBSET Models]

\* "chat" passes every gate, "other" endpoints have no session limiter, and
\* embeddings and search ("open") take no permit either.
Asked == [user : Users, key : Names, project : Names, model : Models,
          kind : {"chat", "other", "open"}, stream : BOOLEAN,
          session : Opt(Sessions), tokens : Nat]

Condition == [tag : Opt(Names), user : Opt(Users), model : Opt(Models)]
PolicyRule == [condition : Condition, allow : SUBSET Models, usd : Opt(Nat),
               window : Windows]

ASSUME AdmissionAssumption ==
    /\ IsFiniteSet(Requests)
    /\ MaxActs \in Nat /\ MaxNow \in Nat /\ SessionRpm \in Nat /\ SessionTpm \in Nat
    /\ Users \subseteq Names
    /\ Profile \in [Requests -> Asked]
    /\ PolicyRules \in Seq(PolicyRule)
    /\ InitialRules \subseteq Rule /\ \A q \in InitialRules : q.id < FirstId
    /\ \A p, q \in InitialRules : p.id = q.id => p = q
    /\ NewRules \subseteq Rule /\ Edits \subseteq Nat
    /\ FirstId \in Nat
    /\ Length \in [{"daily", "monthly"} -> Nat \ {0}]

-----------------------------------------------------------------------------
(* Windows and sums.                                                       *)

\* window_start_for: any window that is not daily (or weekly) is the month.
WindowStart(w) ==
    LET calendar == IF w = "daily" THEN "daily" ELSE "monthly"
    IN  (now \div Length[calendar]) * Length[calendar]

Later(s, t) == IF s > t THEN s ELSE t

\* effective_window_start, with the reset the request's user was loaded with.
EffectiveStart(reset, w) == Later(reset, WindowStart(w))

\* check_usd_budget sums a "total" rule from its own start.
UsdStart(reset, w) == IF w = "total" THEN 0 ELSE EffectiveStart(reset, w)

Covers(scope, r) ==
    CASE scope.kind = "key"     -> scope.of = Profile[r].key
      [] scope.kind = "user"    -> scope.of = Profile[r].user
      [] scope.kind = "project" -> scope.of = Profile[r].project
      [] scope.kind = "global"  -> TRUE

\* The sums of the ledger: what the calls in scope have cost since.
Spent(scope, since) ==
    Cardinality({r \in Requests : Covers(scope, r) /\ \E t \in ledger[r] : t >= since})

Exceeded(limit, spent) == \E l \in limit : spent >= l

-----------------------------------------------------------------------------
(* Rules.                                                                  *)

\* condition_matches: every field that is set.
ConditionMatches(c, r, model) ==
    /\ \A tag \in c.tag : tag = Profile[r].project
    /\ \A u \in c.user : u = Profile[r].user
    /\ \A m \in c.model : m = model

\* find_matching_rule.
Matching(r, model) ==
    LET matches == {i \in 1..Len(PolicyRules) :
                        ConditionMatches(PolicyRules[i].condition, r, model)}
    IN  {PolicyRules[i] : i \in {j \in matches : \A k \in matches : j <= k}}

InScope(kind, r) == {q \in rules : q.scope.kind = kind /\ Covers(q.scope, r)}

\* Mutant: the rules of the key take the place of the user's.
OwnRulesOfKeyFirst(r) == IF InScope("key", r) # {} THEN InScope("key", r)
                         ELSE InScope("user", r)

OwnRules(r) == InScope("key", r) \cup InScope("user", r)

\* The order they are looked at: list_for_key ahead of list_for_user, by id.
Before(p, q) == \/ p.scope.kind = "key" /\ q.scope.kind = "user"
                \/ p.scope.kind = q.scope.kind /\ p.id < q.id
Foremost(S) == {q \in S : \A p \in S \ {q} : Before(q, p)}

\* check_model_lists_denial.
ListsPermit(q, model) ==
    /\ q.allow # {} => model \in q.allow
    /\ model \notin q.deny

\* model_permitted_denial: the lists alone, for a model a request fails over to.
ModelPermitted(r, model) ==
    IF Matching(r, model) # {}
    THEN \A p \in Matching(r, model) : p.allow # {} => model \in p.allow
    ELSE \A q \in OwnRules(r) : q.window # "target" => ListsPermit(q, model)

\* A project or global rule: dollars only, and no reset.
BackstopSpent(q) == Spent(q.scope, IF q.window = "total" THEN 0 ELSE WindowStart(q.window))

\* What would stop a request, were it checked in one step now.
Exhausted(q, r) ==
    LET reset == resetAt[Profile[r].user]
    IN  IF q.scope.kind \in {"project", "global"}
        THEN Exceeded(q.usd, BackstopSpent(q))
        ELSE /\ q.window # "target"
             /\ \/ Exceeded(q.usd, Spent(q.scope, UsdStart(reset, q.window)))
                \/ Exceeded(q.tokens, Spent(q.scope, EffectiveStart(reset, q.window)))

Applicable(r) == IF Matching(r, Profile[r].model) # {} THEN {}
                 ELSE {q \in rules : Covers(q.scope, r)}

-----------------------------------------------------------------------------
(* A request, from its user's row to its charge.                           *)

Stages == {"new", "policy", "listing", "rules", "counted", "spend", "tokens", "project",
           "global", "gate", "limits", "calling", "streaming", "charging", "done", "refused"}

Handler == [pc : Stages, model : Models,
            reset   : Nat,              \* spend_reset_at as it was loaded
            todo    : SUBSET Rule,      \* rules still to be looked at
            minute  : 0..MaxNow,        \* the bucket it counted itself in
            conc    : Opt(Nat),         \* min_concurrent so far
            counted : SUBSET [minute : 0..MaxNow, rule : Nat],  \* where it was counted
            passed  : SUBSET [minute : 0..MaxNow, rpm : Nat],
            doomed  : SUBSET Nat,       \* the rules exhausted when it began
            session : Opt(0..MaxNow)]   \* the minute its session was charged in

Goto(r, pc) == req' = [req EXCEPT ![r].pc = pc]

\* Every way out of a handler drops its permit.
Release(r) == permits' = [permits EXCEPT ![Profile[r].user] = @ \ {r}]

\* AuthenticatedUser: the key's user is loaded, its reset with it.
Start(r) ==
    /\ req[r].pc = "new"
    /\ req' = [req EXCEPT ![r].pc = "policy", ![r].reset = resetAt[Profile[r].user],
                          ![r].doomed = {q.id : q \in {p \in Applicable(r) : Exhausted(p, r)}}]
    /\ UNCHANGED <<rules, counts, ledger, resetAt, cap, permits, buckets, admin, nextId, acts, now>>

\* check_declarative_rules: a rule that matches decides, and the rules of the
\* database are skipped, their caps too.
CheckDeclarative(r) ==
    /\ req[r].pc = "policy"
    /\ LET found   == Matching(r, req[r].model)
           denies(p) == \/ p.allow # {} /\ req[r].model \notin p.allow
                        \/ Exceeded(p.usd, Spent([kind |-> "user", of |-> Profile[r].user],
                                                 WindowStart(p.window)))
       IN  Goto(r, IF found = {} THEN "listing"
                   ELSE IF \E p \in found : denies(p) THEN "refused" ELSE "gate")
    /\ UNCHANGED <<rules, counts, ledger, resetAt, cap, permits, buckets, admin, nextId, acts, now>>

ListRules(r) ==
    /\ req[r].pc = "listing"
    /\ req' = [req EXCEPT ![r].pc = "rules", ![r].todo = OwnRules(r)]
    /\ UNCHANGED <<rules, counts, ledger, resetAt, cap, permits, buckets, admin, nextId, acts, now>>

\* The loop head: target rules are skipped; the lists; then the increment of
\* increment_and_get_count, its first statement.
Consider(r) ==
    /\ req[r].pc = "rules"
    /\ \E q \in Foremost(req[r].todo) :
          \/ /\ q.window = "target"
             /\ req' = [req EXCEPT ![r].todo = @ \ {q}]
             /\ UNCHANGED counts
          \/ /\ q.window # "target" /\ ~ListsPermit(q, req[r].model)
             /\ Goto(r, "refused")
             /\ UNCHANGED counts
          \/ /\ q.window # "target" /\ ListsPermit(q, req[r].model) /\ q.rpm = {}
             /\ Goto(r, "spend")
             /\ UNCHANGED counts
          \/ /\ q.window # "target" /\ ListsPermit(q, req[r].model) /\ q.rpm # {}
             /\ counts' = [counts EXCEPT ![Profile[r].user][now] = @ + 1]
             /\ req' = [req EXCEPT ![r].pc = "counted", ![r].minute = now,
                                   ![r].counted = @ \cup {[minute |-> now, rule |-> q.id]}]
    /\ UNCHANGED <<rules, ledger, resetAt, cap, permits, buckets, admin, nextId, acts, now>>

\* Mutants: the limit is let through once more, or is itself too many.
OverLimitByOne(count, rpm) == count > rpm + 1
OverLimitAtLimit(count, rpm) == count >= rpm

OverLimit(count, rpm) == count > rpm

\* Its second statement reads the count back, others' increments included.
ReadBack(r) ==
    /\ req[r].pc = "counted"
    /\ \E q \in Foremost(req[r].todo) : \E rpm \in q.rpm :
          IF OverLimit(counts[Profile[r].user][req[r].minute], rpm)
          THEN Goto(r, "refused")
          ELSE req' = [req EXCEPT ![r].pc = "spend",
                         ![r].passed = @ \cup {[minute |-> req[r].minute, rpm |-> rpm]}]
    /\ UNCHANGED <<rules, counts, ledger, resetAt, cap, permits, buckets, admin, nextId, acts, now>>

\* The strictest max_concurrent so far.
Strictest(held, conc) == {c \in held \cup conc : \A d \in held \cup conc : c <= d}

\* check_usd_budget, and max_concurrent.
CheckUsd(r) ==
    /\ req[r].pc = "spend"
    /\ \E q \in Foremost(req[r].todo) :
          IF Exceeded(q.usd, Spent(q.scope, UsdStart(req[r].reset, q.window)))
          THEN Goto(r, "refused")
          ELSE req' = [req EXCEPT ![r].pc = "tokens",
                         ![r].conc = Strictest(req[r].conc, q.conc)]
    /\ UNCHANGED <<rules, counts, ledger, resetAt, cap, permits, buckets, admin, nextId, acts, now>>

CheckTokens(r) ==
    /\ req[r].pc = "tokens"
    /\ \E q \in Foremost(req[r].todo) :
          IF Exceeded(q.tokens, Spent(q.scope, EffectiveStart(req[r].reset, q.window)))
          THEN Goto(r, "refused")
          ELSE req' = [req EXCEPT ![r].pc = "rules", ![r].todo = @ \ {q}]
    /\ UNCHANGED <<rules, counts, ledger, resetAt, cap, permits, buckets, admin, nextId, acts, now>>

\* check_backstop_rules, for the project and then for everybody.
CheckBackstop(r, kind, at, then) ==
    /\ req[r].pc = at
    /\ Goto(r, IF \E q \in InScope(kind, r) : Exceeded(q.usd, BackstopSpent(q))
               THEN "refused" ELSE then)
    /\ UNCHANGED <<rules, counts, ledger, resetAt, cap, permits, buckets, admin, nextId, acts, now>>

OwnRulesPass(r) ==
    /\ req[r].pc = "rules" /\ req[r].todo = {}
    /\ Goto(r, "project")
    /\ UNCHANGED <<rules, counts, ledger, resetAt, cap, permits, buckets, admin, nextId, acts, now>>

CheckProject(r) == CheckBackstop(r, "project", "project", "global")
CheckGlobal(r)  == CheckBackstop(r, "global", "global", "gate")

\* try_acquire: the semaphore keeps the capacity it was first made with.
Capacity(u, max) == IF cap[u] = {} THEN {max} ELSE cap[u]

Gate(r) ==
    LET u == Profile[r].user
    IN  /\ req[r].pc = "gate"
        /\ \/ /\ req[r].conc = {} \/ Profile[r].kind = "open"
              /\ Goto(r, "limits")
              /\ UNCHANGED <<cap, permits>>
           \/ /\ req[r].conc = {0} /\ Profile[r].kind # "open"
              /\ Goto(r, "refused")
              /\ UNCHANGED <<cap, permits>>
           \/ /\ Profile[r].kind # "open"
              /\ \E max \in req[r].conc \ {0} :
                    /\ cap' = [cap EXCEPT ![u] = Capacity(u, max)]
                    /\ \E n \in Capacity(u, max) :
                          IF Cardinality(permits[u]) < n
                          THEN /\ permits' = [permits EXCEPT ![u] = @ \cup {r}]
                               /\ Goto(r, "limits")
                          ELSE Goto(r, "refused") /\ UNCHANGED permits
        /\ UNCHANGED <<rules, counts, ledger, resetAt, buckets, admin, nextId, acts, now>>

EmptyBucket == [minute |-> now, requests |-> 0, tokens |-> 0]
Bucket(s) == IF buckets[s].minute = now THEN buckets[s] ELSE EmptyBucket

\* check_and_record's two limits; zero is no limit.
WithinSession(bucket, tokens) ==
    /\ SessionRpm > 0 => bucket.requests < SessionRpm
    /\ SessionTpm > 0 => bucket.tokens + tokens <= SessionTpm

Fill(s, tokens) == [Bucket(s) EXCEPT !.requests = @ + 1, !.tokens = @ + tokens]

\* Mutant: a session over its limit keeps its permit.
RefusedKeepsPermit(r) == Goto(r, "refused") /\ UNCHANGED permits

\* A handler that ends without an answer.
Refuse(r) == Goto(r, "refused") /\ Release(r)

\* check_session_rate_limit, for a chat that names a session.
Limit(r) ==
    /\ req[r].pc = "limits"
    /\ \/ /\ Profile[r].kind # "chat" \/ Profile[r].session = {} \/ SessionRpm + SessionTpm = 0
          /\ Goto(r, "calling")
          /\ UNCHANGED <<permits, buckets>>
       \/ /\ Profile[r].kind = "chat" /\ SessionRpm + SessionTpm > 0
          /\ \E s \in Profile[r].session :
                IF WithinSession(Bucket(s), Profile[r].tokens)
                THEN /\ req' = [req EXCEPT ![r].pc = "calling", ![r].session = {now}]
                     /\ buckets' = [buckets EXCEPT ![s] = Fill(s, Profile[r].tokens)]
                     /\ UNCHANGED permits
                ELSE /\ Refuse(r)
                     /\ buckets' = [buckets EXCEPT ![s] = Bucket(s)]
    /\ UNCHANGED <<rules, counts, ledger, resetAt, cap, admin, nextId, acts, now>>

\* A malformed request, a guardrail, a disabled model, or no provider answered:
\* whatever ends the handler with an error, or drops it.
Fails(r) ==
    /\ req[r].pc \in {"limits", "calling"}
    /\ Refuse(r)
    /\ UNCHANGED <<rules, counts, ledger, resetAt, cap, buckets, admin, nextId, acts, now>>

\* The model fails and the chain offers another: its lists are looked at, and
\* nothing is counted or summed again.
FailOver(r, m) ==
    /\ req[r].pc = "calling" /\ m # req[r].model
    /\ ModelPermitted(r, m)
    /\ req' = [req EXCEPT ![r].model = m]
    /\ UNCHANGED <<rules, counts, ledger, resetAt, cap, permits, buckets, admin, nextId, acts, now>>

\* The handler returns, with its answer or with a body that goes on streaming.
Answers(r) ==
    /\ req[r].pc = "calling"
    /\ Goto(r, IF Profile[r].stream THEN "streaming" ELSE "charging")
    /\ Release(r)
    /\ UNCHANGED <<rules, counts, ledger, resetAt, cap, buckets, admin, nextId, acts, now>>

StreamEnds(r) ==
    /\ req[r].pc = "streaming"
    /\ Goto(r, "charging")
    /\ UNCHANGED <<rules, counts, ledger, resetAt, cap, permits, buckets, admin, nextId, acts, now>>

\* The spawned task writes the ledger row.
Charge(r) ==
    /\ req[r].pc = "charging"
    /\ Goto(r, "done")
    /\ ledger' = [ledger EXCEPT ![r] = {now}]
    /\ UNCHANGED <<rules, counts, resetAt, cap, permits, buckets, admin, nextId, acts, now>>

-----------------------------------------------------------------------------
(* Administrators and the clock.                                           *)

\* What is known of a rule, or of all of them, no longer holds.
Forget(ids) == req' = [r \in Requests |-> [req[r] EXCEPT !.doomed = @ \ ids]]

Act == acts < MaxActs /\ acts' = acts + 1

\* post_create_budget looks for a rule of the scope with that window, and
\* inserts afterwards.
DraftRule(a, q) ==
    /\ Act
    /\ admin[a] = {} /\ q \in NewRules
    /\ ~\E p \in rules : p.scope = q.scope /\ p.window = q.window
    /\ admin' = [admin EXCEPT ![a] = {q}]
    /\ UNCHANGED <<req, rules, counts, ledger, resetAt, cap, permits, buckets, nextId, now>>

InsertRule(a) ==
    /\ \E q \in admin[a] : rules' = rules \cup {[q EXCEPT !.id = nextId]}
    /\ admin' = [admin EXCEPT ![a] = {}]
    /\ nextId' = nextId + 1
    /\ UNCHANGED <<req, counts, ledger, resetAt, cap, permits, buckets, acts, now>>

\* post_edit_budget; a field left empty keeps its value.
EditRule(q, usd) ==
    /\ Act
    /\ q \in rules /\ usd \in Edits
    /\ rules' = (rules \ {q}) \cup {[q EXCEPT !.usd = {usd}]}
    /\ Forget({q.id})
    /\ UNCHANGED <<counts, ledger, resetAt, cap, permits, buckets, admin, nextId, now>>

DeleteRule(q) ==
    /\ Act
    /\ q \in rules
    /\ rules' = rules \ {q}
    /\ UNCHANGED <<req, counts, ledger, resetAt, cap, permits, buckets, admin, nextId, now>>

\* reset_spend.
ResetSpend(u) ==
    /\ Act
    /\ resetAt' = [resetAt EXCEPT ![u] = now]
    /\ UNCHANGED <<req, rules, counts, ledger, cap, permits, buckets, admin, nextId, now>>

\* A rule exhausted in a window that closes need not be so in the next.
Tick ==
    /\ now < MaxNow
    /\ now' = now + 1
    /\ Forget({q.id : q \in {p \in rules : WindowStart(p.window) # WindowStart(p.window)'}})
    /\ UNCHANGED <<rules, counts, ledger, resetAt, cap, permits, buckets, admin, nextId, acts>>

-----------------------------------------------------------------------------
NewHandler(r) == [pc |-> "new", model |-> Profile[r].model, reset |-> 0, todo |-> {},
                  minute |-> 0, conc |-> {}, counted |-> {}, passed |-> {},
                  doomed |-> {}, session |-> {}]

Init ==
    /\ now = 0 /\ nextId = FirstId /\ acts = 0
    /\ req = [r \in Requests |-> NewHandler(r)]
    /\ rules = InitialRules
    /\ counts = [u \in Users |-> [m \in 0..MaxNow |-> 0]]
    /\ ledger = [r \in Requests |-> {}]
    /\ resetAt = [u \in Users |-> 0]
    /\ cap = [u \in Users |-> {}]
    /\ permits = [u \in Users |-> {}]
    /\ buckets = [s \in Sessions |-> EmptyBucket]
    /\ admin = [a \in Admins |-> {}]

Handle(r) ==
    \/ Start(r) \/ CheckDeclarative(r) \/ ListRules(r)
    \/ Consider(r) \/ ReadBack(r) \/ CheckUsd(r) \/ CheckTokens(r) \/ OwnRulesPass(r)
    \/ CheckProject(r) \/ CheckGlobal(r) \/ Gate(r) \/ Limit(r)
    \/ Fails(r) \/ (\E m \in Models : FailOver(r, m))
    \/ Answers(r) \/ StreamEnds(r) \/ Charge(r)

Administer ==
    \/ \E a \in Admins : (\E q \in NewRules : DraftRule(a, q)) \/ InsertRule(a)
    \/ \E q \in rules : (\E usd \in Edits : EditRule(q, usd)) \/ DeleteRule(q)
    \/ \E u \in Users : ResetSpend(u)

Next == (\E r \in Requests : Handle(r)) \/ Administer \/ Tick

Spec == Init /\ [][Next]_vars

-----------------------------------------------------------------------------
(* Properties.                                                             *)

TypeOK ==
    /\ req \in [Requests -> Handler]
    /\ rules \subseteq Rule
    /\ counts \in [Users -> [0..MaxNow -> Nat]]
    /\ ledger \in [Requests -> Opt(0..MaxNow)]
    /\ resetAt \in [Users -> 0..MaxNow]
    /\ cap \in [Users -> Opt(Nat)]
    /\ permits \in [Users -> SUBSET Requests]
    /\ buckets \in [Sessions -> [minute : 0..MaxNow, requests : Nat, tokens : Nat]]
    /\ admin \in [Admins -> Opt(Rule)]
    /\ nextId \in Nat /\ acts \in 0..MaxActs /\ now \in 0..MaxNow

\* However the increments, readings and checks of requests interleave, in one
\* minute no more requests of a user pass a per-minute limit than it says, and
\* a session's chats stay within its requests and tokens (rate_limits.rs,
\* session_limits.rs).
PassedIn(u, minute, rpm) ==
    {r \in Requests : Profile[r].user = u
        /\ \E p \in req[r].passed : p.minute = minute /\ p.rpm <= rpm}

Charged(s, minute) ==
    {r \in Requests : Profile[r].session = {s} /\ req[r].session = {minute}}

\* The tokens of some chats, one by one.
TokensOf(S) == UNION {{r} \X (1..Profile[r].tokens) : r \in S}

RateCeiling ==
    /\ \A r \in Requests : \A p \in req[r].passed :
        Cardinality(PassedIn(Profile[r].user, p.minute, p.rpm)) <= p.rpm
    /\ \A s \in Sessions : \A minute \in 0..MaxNow :
        LET chats == Charged(s, minute)
        IN  /\ SessionRpm > 0 => Cardinality(chats) <= SessionRpm
            /\ SessionTpm > 0 => Cardinality(TokensOf(chats)) <= SessionTpm

\* A request that begins when a dollar or token limit of its key, user or
\* project, or the global one, is used up never reaches a provider while that
\* lasts: the checks are spread over many awaits, none of them is passed over.
LetThrough(r) == req[r].pc # "limits" /\ req'[r].pc = "limits"

StillExhausted(r) ==
    \E q \in Applicable(r) : q.id \in req[r].doomed /\ Exhausted(q, r)

ExhaustedStaysShut == [][\A r \in Requests : LetThrough(r) => ~StillExhausted(r)]_vars

\* Permits are kept in step with the handlers that own them: a request that is
\* past its gate under a concurrency limit holds one until it is refused or
\* answered, no way out of a handler keeps one, and there are never more than
\* the semaphore was made with.  (Whether a stream should hold its permit until
\* its body ends, as concurrency.rs:24 says, or drop it as the body begins, as
\* completions.rs:355 does, is left open here; see the README.)
Limited(r) == req[r].conc # {} /\ Profile[r].kind # "open"

PermitsHeldByHandlers ==
    /\ \A u \in Users :
          /\ \A r \in permits[u] : /\ req[r].pc \in {"limits", "calling", "streaming"}
                                    /\ Profile[r].user = u
          /\ \A n \in cap[u] : Cardinality(permits[u]) <= n
          /\ cap[u] = {} => permits[u] = {}
    /\ \A r \in Requests :
          req[r].pc \in {"limits", "calling"} /\ Limited(r) => r \in permits[Profile[r].user]

\* A request is turned away by a per-minute limit only when its user's requests
\* were really counted more often than the limit in that minute: no count is
\* charged twice for one rule, to another minute, or to another user, however
\* increments and readings pass each other.  A request counts once for every
\* per-minute limit it meets (its key's, its user's), so where two are set a
\* request can be turned away by its own counts alone; README.md:426 has limit
\* types "compose freely", and this property does not say that they do.
Countings(u, minute) ==
    UNION {{r} \X {c \in req[r].counted : c.minute = minute} :
               r \in {o \in Requests : Profile[o].user = u}}

RateRefused(r) == req[r].pc = "counted" /\ req'[r].pc = "refused"

RateRefusalEarned ==
    [][\A r \in Requests : RateRefused(r) =>
            \E q \in Foremost(req[r].todo) : \E rpm \in q.rpm :
                Cardinality(Countings(Profile[r].user, req[r].minute)) > rpm]_vars
=============================================================================
