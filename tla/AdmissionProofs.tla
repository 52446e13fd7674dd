--------------------------- MODULE AdmissionProofs ---------------------------
(***************************************************************************)
(* What admission promises, for any requests, rules, limits and any number *)
(* of edits and minutes.                                                   *)
(***************************************************************************)
EXTENDS Admission, FiniteSetTheorems, TLAPS

-----------------------------------------------------------------------------
(* Types. *)

LEMMA OptOfNone == ASSUME NEW S PROVE {} \in Opt(S)
BY DEF Opt

LEMMA OptOfOne == ASSUME NEW S, NEW x \in S PROVE {x} \in Opt(S)
BY DEF Opt

LEMMA StrictestTyped ==
    ASSUME NEW held \in Opt(Nat), NEW conc \in Opt(Nat)
    PROVE  Strictest(held, conc) \in Opt(Nat)
<1>1. \A x, y \in Strictest(held, conc) : x = y
  BY DEF Opt, Strictest
<1> QED BY <1>1 DEF Opt, Strictest

LEMMA InitHasTypes == Init => TypeOK
<1> SUFFICES ASSUME Init PROVE TypeOK
  OBVIOUS
<1>1. \A r \in Requests : NewHandler(r) \in Handler
  BY AdmissionAssumption, OptOfNone DEF NewHandler, Handler, Stages, Asked
<1>2. now \in 0..MaxNow /\ acts \in 0..MaxActs
  BY AdmissionAssumption DEF Init
<1>3. EmptyBucket \in [minute : 0..MaxNow, requests : Nat, tokens : Nat]
  BY <1>2 DEF EmptyBucket
<1> QED BY <1>1, <1>2, <1>3, AdmissionAssumption, OptOfNone DEF Init, TypeOK

-----------------------------------------------------------------------------
(* What a step makes of handlers. *)

\* One handler moves; it is h from now on.
Becomes(r, h) ==
    /\ h \in Handler /\ req' \in [Requests -> Handler]
    /\ req'[r] = h
    /\ \A o \in Requests \ {r} : req'[o] = req[o]

LEMMA Becoming ==
    ASSUME TypeOK, NEW r \in Requests, NEW h \in Handler, req' = [req EXCEPT ![r] = h]
    PROVE  Becomes(r, h)
BY DEF TypeOK, Becomes

LEMMA GotoMoves ==
    ASSUME TypeOK, NEW r \in Requests, NEW pc \in Stages, Goto(r, pc)
    PROVE  Becomes(r, [req[r] EXCEPT !.pc = pc])
<1> DEFINE h == [req[r] EXCEPT !.pc = pc]
<1>1. req[r] \in Handler
  BY DEF TypeOK
<1>2. h \in Handler /\ req' = [req EXCEPT ![r] = h]
  BY <1>1 DEF TypeOK, Handler, Goto
<1> HIDE DEF h
<1>3. Becomes(r, h)
  BY <1>2, Becoming
<1> QED BY <1>3 DEF h

\* It is at pc, and keeps its rules, its count and its concurrency limit.
LEMMA GotoArrives ==
    ASSUME TypeOK, NEW r \in Requests, NEW pc \in Stages, Goto(r, pc)
    PROVE  /\ req'[r].pc = pc /\ req'[r].todo = req[r].todo
           /\ req'[r].counted = req[r].counted /\ req'[r].conc = req[r].conc
<1>1. req[r] \in Handler
  BY DEF TypeOK
<1>2. Becomes(r, [req[r] EXCEPT !.pc = pc])
  BY GotoMoves
<1> QED BY <1>1, <1>2 DEF Becomes, Handler

\* The rules a request knows are rules, and their limits limits.
LEMMA TodoTyped ==
    ASSUME TypeOK, NEW r \in Requests
    PROVE  /\ req[r] \in Handler
           /\ Foremost(req[r].todo) \subseteq req[r].todo /\ req[r].todo \subseteq Rule
           /\ OwnRules(r) \subseteq Rule
           /\ \A q \in Rule : q.rpm \in Opt(Nat) /\ q.conc \in Opt(Nat)
           /\ \A o \in Opt(Nat) : o \subseteq Nat
BY DEF TypeOK, Handler, Foremost, OwnRules, InScope, Rule, Opt

DoomedAtStart(r) == {q.id : q \in {p \in Applicable(r) : Exhausted(p, r)}}

LEMMA StartMoves ==
    ASSUME TypeOK, NEW r \in Requests, Start(r)
    PROVE  Becomes(r, [req[r] EXCEPT !.pc = "policy", !.reset = resetAt[Profile[r].user],
                                     !.doomed = DoomedAtStart(r)])
<1> DEFINE reset == resetAt[Profile[r].user]
           doomed == DoomedAtStart(r)
           h == [req[r] EXCEPT !.pc = "policy", !.reset = reset, !.doomed = doomed]
<1>1. reset \in Nat
  BY AdmissionAssumption DEF TypeOK, Asked
<1>2. doomed \in SUBSET Nat
  BY DEF TypeOK, Applicable, Rule, DoomedAtStart
<1>3. req' = [req EXCEPT ![r].pc = "policy", ![r].reset = reset, ![r].doomed = doomed]
  BY DEF Start, DoomedAtStart
<1>4. req[r] \in Handler
  BY DEF TypeOK
<1> HIDE DEF reset, doomed
<1>5. h \in Handler
  BY <1>1, <1>2, <1>4 DEF Handler, Stages
<1>6. req' = [req EXCEPT ![r] = h]
  BY <1>3
<1> HIDE DEF h
<1>7. Becomes(r, h)
  BY <1>5, <1>6, Becoming
<1> QED BY <1>7 DEF h, reset, doomed

LEMMA ListRulesMoves ==
    ASSUME TypeOK, NEW r \in Requests, ListRules(r)
    PROVE  Becomes(r, [req[r] EXCEPT !.pc = "rules", !.todo = OwnRules(r)])
<1> DEFINE h == [req[r] EXCEPT !.pc = "rules", !.todo = OwnRules(r)]
<1>1. h \in Handler
  <2>1. req[r] \in Handler /\ "rules" \in Stages /\ OwnRules(r) \subseteq Rule
    BY TodoTyped DEF Stages
  <2> QED BY <2>1 DEF Handler
<1>2. req' = [req EXCEPT ![r] = h]
  BY DEF ListRules
<1> HIDE DEF h
<1>3. Becomes(r, h)
  BY <1>1, <1>2, Becoming
<1> QED BY <1>3 DEF h

\* The head of the loop looks at the foremost rule: it is passed over, it denies, its
\* limits of dollars and tokens come next, or the request is counted first.
LEMMA ConsiderMoves ==
    ASSUME TypeOK, NEW r \in Requests, Consider(r)
    PROVE  \E q \in Foremost(req[r].todo) :
              \/ /\ q.window = "target" /\ UNCHANGED counts
                 /\ Becomes(r, [req[r] EXCEPT !.todo = @ \ {q}])
              \/ /\ q.window # "target" /\ UNCHANGED counts
                 /\ \E pc \in {"refused", "spend"} : Becomes(r, [req[r] EXCEPT !.pc = pc])
              \/ /\ q.window # "target" /\ q.rpm # {}
                 /\ counts' = [counts EXCEPT ![Profile[r].user][now] = @ + 1]
                 /\ Becomes(r, [req[r] EXCEPT !.pc = "counted", !.minute = now,
                                              !.counted = @ \cup {[minute |-> now, rule |-> q.id]}])
<1>1. PICK q \in Foremost(req[r].todo) :
          \/ /\ q.window = "target"
             /\ req' = [req EXCEPT ![r].todo = @ \ {q}]
             /\ UNCHANGED counts
          \/ /\ q.window # "target"
             /\ \E pc \in {"refused", "spend"} : Goto(r, pc)
             /\ UNCHANGED counts
          \/ /\ q.window # "target" /\ q.rpm # {}
             /\ counts' = [counts EXCEPT ![Profile[r].user][now] = @ + 1]
             /\ req' = [req EXCEPT ![r].pc = "counted", ![r].minute = now,
                                   ![r].counted = @ \cup {[minute |-> now, rule |-> q.id]}]
  BY DEF Consider
<1>2. CASE q.window = "target" /\ req' = [req EXCEPT ![r].todo = @ \ {q}] /\ UNCHANGED counts
  <2> DEFINE h == [req[r] EXCEPT !.todo = @ \ {q}]
  <2>1. h \in Handler
    BY TodoTyped DEF Handler
  <2>2. req' = [req EXCEPT ![r] = h]
    BY <1>2
  <2> HIDE DEF h
  <2>3. Becomes(r, h)
    BY <2>1, <2>2, Becoming
  <2> QED BY <1>2, <2>3 DEF h
<1>3. CASE /\ q.window # "target" /\ \E pc \in {"refused", "spend"} : Goto(r, pc)
           /\ UNCHANGED counts
  <2>1. {"refused", "spend"} \subseteq Stages
    BY DEF Stages
  <2> QED BY <1>3, <2>1, GotoMoves
<1>4. CASE /\ q.window # "target" /\ q.rpm # {}
           /\ counts' = [counts EXCEPT ![Profile[r].user][now] = @ + 1]
           /\ req' = [req EXCEPT ![r].pc = "counted", ![r].minute = now,
                                 ![r].counted = @ \cup {[minute |-> now, rule |-> q.id]}]
  <2> DEFINE h == [req[r] EXCEPT !.pc = "counted", !.minute = now, !.counted = @ \cup {[minute |-> now, rule |-> q.id]}]
  <2>1. now \in 0..MaxNow
    BY DEF TypeOK
  <2>2. h \in Handler
    <3>1. req[r] \in Handler /\ "counted" \in Stages /\ q \in Rule
      BY TodoTyped DEF Stages
    <3>2. [minute |-> now, rule |-> q.id] \in [minute : 0..MaxNow, rule : Nat]
      BY <2>1, <3>1 DEF Rule
    <3> QED BY <3>1, <3>2, <2>1 DEF Handler
  <2>3. req' = [req EXCEPT ![r] = h]
    BY <1>4
  <2> HIDE DEF h
  <2>4. Becomes(r, h)
    BY <2>2, <2>3, Becoming
  <2> QED BY <1>4, <2>4 DEF h
<1> QED BY <1>1, <1>2, <1>3, <1>4

\* A request reads its count back, refused or passed.
LEMMA ReadBackMoves ==
    ASSUME TypeOK, NEW r \in Requests, ReadBack(r)
    PROVE  \/ Becomes(r, [req[r] EXCEPT !.pc = "refused"])
           \/ \E rpm \in Nat :
                 /\ counts[Profile[r].user][req[r].minute] <= rpm
                 /\ Becomes(r, [req[r] EXCEPT !.pc = "spend",
                                   !.passed = @ \cup {[minute |-> req[r].minute, rpm |-> rpm]}])
<1>1. PICK q \in Foremost(req[r].todo) : \E rpm \in q.rpm :
          IF OverLimit(counts[Profile[r].user][req[r].minute], rpm)
          THEN Goto(r, "refused")
          ELSE req' = [req EXCEPT ![r].pc = "spend",
                         ![r].passed = @ \cup {[minute |-> req[r].minute, rpm |-> rpm]}]
  BY DEF ReadBack
<1>2. CASE Goto(r, "refused")
  BY <1>2, GotoMoves DEF Stages
<1>3. ASSUME NEW rpm \in q.rpm, ~OverLimit(counts[Profile[r].user][req[r].minute], rpm),
             req' = [req EXCEPT ![r].pc = "spend",
                        ![r].passed = @ \cup {[minute |-> req[r].minute, rpm |-> rpm]}]
      PROVE  /\ rpm \in Nat /\ counts[Profile[r].user][req[r].minute] <= rpm
             /\ Becomes(r, [req[r] EXCEPT !.pc = "spend",
                              !.passed = @ \cup {[minute |-> req[r].minute, rpm |-> rpm]}])
  <2> DEFINE pass == [minute |-> req[r].minute, rpm |-> rpm]
             h == [req[r] EXCEPT !.pc = "spend", !.passed = @ \cup {pass}]
  <2>1. rpm \in Nat /\ req[r].minute \in 0..MaxNow
    BY TodoTyped DEF Handler
  <2>2. pass \in [minute : 0..MaxNow, rpm : Nat] /\ req' = [req EXCEPT ![r].pc = "spend",
                                                    ![r].passed = @ \cup {pass}]
    BY <1>3, <2>1
  <2> HIDE DEF pass
  <2>3. h \in Handler
    <3>1. req[r] \in Handler /\ "spend" \in Stages
      BY TodoTyped DEF Stages
    <3> QED BY <3>1, <2>2 DEF Handler
  <2>4. req' = [req EXCEPT ![r] = h]
    BY <2>2
  <2> HIDE DEF h
  <2>5. Becomes(r, h)
    BY <2>3, <2>4, Becoming
  <2>6. counts[Profile[r].user][req[r].minute] <= rpm
    <3>1. counts[Profile[r].user][req[r].minute] \in Nat
      BY AdmissionAssumption, TodoTyped DEF TypeOK, Asked, Handler
    <3> QED BY <1>3, <2>1, <3>1 DEF OverLimit
  <2> QED BY <2>1, <2>5, <2>6 DEF h, pass
<1> QED BY <1>1, <1>2, <1>3

\* A request is refused for its dollars, or goes on to its tokens.
LEMMA CheckUsdMoves ==
    ASSUME TypeOK, NEW r \in Requests, CheckUsd(r)
    PROVE  \E q \in Foremost(req[r].todo) :
              \/ Becomes(r, [req[r] EXCEPT !.pc = "refused"])
              \/ /\ ~Exceeded(q.usd, Spent(q.scope, UsdStart(req[r].reset, q.window)))
                 /\ \E conc \in Opt(Nat) :
                       Becomes(r, [req[r] EXCEPT !.pc = "tokens", !.conc = conc])
<1>1. PICK q \in Foremost(req[r].todo) :
          IF Exceeded(q.usd, Spent(q.scope, UsdStart(req[r].reset, q.window)))
          THEN Goto(r, "refused")
          ELSE req' = [req EXCEPT ![r].pc = "tokens",
                         ![r].conc = Strictest(req[r].conc, q.conc)]
  BY DEF CheckUsd
<1>2. CASE Goto(r, "refused")
  BY <1>2, GotoMoves DEF Stages
<1> DEFINE conc == Strictest(req[r].conc, q.conc)
           h == [req[r] EXCEPT !.pc = "tokens", !.conc = conc]
<1>3. conc \in Opt(Nat)
  BY TodoTyped, StrictestTyped DEF Handler
<1>4. ASSUME req' = [req EXCEPT ![r].pc = "tokens", ![r].conc = conc]
      PROVE  \E c \in Opt(Nat) : Becomes(r, [req[r] EXCEPT !.pc = "tokens", !.conc = c])
  <2> HIDE DEF conc
  <2>1. h \in Handler
    <3>1. req[r] \in Handler /\ "tokens" \in Stages
      BY TodoTyped DEF Stages
    <3> QED BY <3>1, <1>3 DEF Handler
  <2>2. req' = [req EXCEPT ![r] = h]
    BY <1>4
  <2> HIDE DEF h
  <2>3. Becomes(r, h)
    BY <2>1, <2>2, Becoming
  <2> QED BY <1>3, <2>3 DEF h
<1> QED BY <1>1, <1>2, <1>4

\* It is refused for its tokens, or is done with the rule.
LEMMA CheckTokensMoves ==
    ASSUME TypeOK, NEW r \in Requests, CheckTokens(r)
    PROVE  \E q \in Foremost(req[r].todo) :
              \/ Becomes(r, [req[r] EXCEPT !.pc = "refused"])
              \/ /\ ~Exceeded(q.tokens, Spent(q.scope, EffectiveStart(req[r].reset, q.window)))
                 /\ Becomes(r, [req[r] EXCEPT !.pc = "rules", !.todo = @ \ {q}])
<1>1. PICK q \in Foremost(req[r].todo) :
          IF Exceeded(q.tokens, Spent(q.scope, EffectiveStart(req[r].reset, q.window)))
          THEN Goto(r, "refused")
          ELSE req' = [req EXCEPT ![r].pc = "rules", ![r].todo = @ \ {q}]
  BY DEF CheckTokens
<1>2. CASE Goto(r, "refused")
  BY <1>2, GotoMoves DEF Stages
<1> DEFINE h == [req[r] EXCEPT !.pc = "rules", !.todo = @ \ {q}]
<1>3. ASSUME req' = [req EXCEPT ![r].pc = "rules", ![r].todo = @ \ {q}]
      PROVE  Becomes(r, h)
  <2>1. h \in Handler
    <3>1. req[r] \in Handler /\ "rules" \in Stages /\ req[r].todo \ {q} \subseteq Rule
      BY TodoTyped DEF Stages
    <3> QED BY <3>1 DEF Handler
  <2>2. req' = [req EXCEPT ![r] = h]
    BY <1>3
  <2> HIDE DEF h
  <2> QED BY <2>1, <2>2, Becoming
<1> QED BY <1>1, <1>2, <1>3

LEMMA FailOverMoves ==
    ASSUME TypeOK, NEW r \in Requests, NEW m \in Models, FailOver(r, m)
    PROVE  Becomes(r, [req[r] EXCEPT !.model = m])
<1> DEFINE h == [req[r] EXCEPT !.model = m]
<1>1. h \in Handler
  BY TodoTyped DEF Handler
<1>2. req' = [req EXCEPT ![r] = h]
  BY DEF FailOver
<1> HIDE DEF h
<1>3. Becomes(r, h)
  BY <1>1, <1>2, Becoming
<1> QED BY <1>3 DEF h

\* A chat is charged to its session.
LEMMA ChargedMoves ==
    ASSUME TypeOK, NEW r \in Requests,
           req' = [req EXCEPT ![r].pc = "calling", ![r].session = {now}]
    PROVE  Becomes(r, [req[r] EXCEPT !.pc = "calling", !.session = {now}])
<1> DEFINE h == [req[r] EXCEPT !.pc = "calling", !.session = {now}]
<1>1. {now} \in Opt(0..MaxNow)
  <2>1. now \in 0..MaxNow
    BY DEF TypeOK
  <2> QED BY <2>1, OptOfOne
<1>2. h \in Handler
  <2>1. req[r] \in Handler /\ "calling" \in Stages
    BY TodoTyped DEF Stages
  <2> QED BY <2>1, <1>1 DEF Handler
<1>3. req' = [req EXCEPT ![r] = h]
  OBVIOUS
<1> HIDE DEF h
<1>4. Becomes(r, h)
  BY <1>2, <1>3, Becoming
<1> QED BY <1>4 DEF h

\* Handlers forget that rules were exhausted, and nothing else.
Forgotten(ids) ==
    /\ req' \in [Requests -> Handler]
    /\ \A r \in Requests :
          /\ req'[r].doomed = req[r].doomed \ ids
          /\ req'[r].pc = req[r].pc /\ req'[r].model = req[r].model
          /\ req'[r].reset = req[r].reset /\ req'[r].todo = req[r].todo
          /\ req'[r].minute = req[r].minute /\ req'[r].conc = req[r].conc
          /\ req'[r].counted = req[r].counted /\ req'[r].passed = req[r].passed
          /\ req'[r].session = req[r].session

LEMMA Forgetting == ASSUME TypeOK, NEW ids, Forget(ids) PROVE Forgotten(ids)
<1> DEFINE Light(h) == [h EXCEPT !.doomed = @ \ ids]
<1>1. \A h \in Handler :
        /\ Light(h) \in Handler
        /\ Light(h).doomed = h.doomed \ ids
        /\ Light(h).pc = h.pc /\ Light(h).model = h.model
        /\ Light(h).reset = h.reset /\ Light(h).todo = h.todo
        /\ Light(h).minute = h.minute /\ Light(h).conc = h.conc
        /\ Light(h).counted = h.counted /\ Light(h).passed = h.passed
        /\ Light(h).session = h.session
  BY DEF Handler
<1>2. \A r \in Requests : req[r] \in Handler
  BY TodoTyped
<1>3. req' = [r \in Requests |-> Light(req[r])]
  BY DEF Forget
<1> HIDE DEF Light
<1>4. \A r \in Requests : req'[r] = Light(req[r])
  BY ONLY <1>3
<1>5. req' \in [Requests -> Handler]
  BY ONLY <1>1, <1>2, <1>3
<1>6. ASSUME NEW r \in Requests
      PROVE  /\ req'[r].doomed = req[r].doomed \ ids
             /\ req'[r].pc = req[r].pc /\ req'[r].model = req[r].model
             /\ req'[r].reset = req[r].reset /\ req'[r].todo = req[r].todo
             /\ req'[r].minute = req[r].minute /\ req'[r].conc = req[r].conc
             /\ req'[r].counted = req[r].counted /\ req'[r].passed = req[r].passed
             /\ req'[r].session = req[r].session
  BY ONLY <1>1, <1>2, <1>4, r \in Requests
<1> QED BY ONLY <1>5, <1>6 DEF Forgotten

\* Steps that only take the handler from one stage to another.
LEMMA StagesMove ==
    ASSUME TypeOK, NEW r \in Requests,
           CheckDeclarative(r) \/ OwnRulesPass(r) \/ CheckProject(r) \/ CheckGlobal(r)
               \/ Gate(r) \/ Fails(r) \/ Answers(r) \/ StreamEnds(r) \/ Charge(r)
    PROVE  \E pc \in Stages \ {"counted"} : Goto(r, pc) /\ Becomes(r, [req[r] EXCEPT !.pc = pc])
<1>1. \E pc \in Stages \ {"counted"} : Goto(r, pc)
  BY DEF CheckDeclarative, OwnRulesPass, CheckProject, CheckGlobal, CheckBackstop, Gate,
         Fails, Refuse, Answers, StreamEnds, Charge, Stages
<1> QED BY <1>1, GotoMoves

-----------------------------------------------------------------------------
(* Types: the steps. *)

LEMMA PolicyKeepsTypes ==
    ASSUME TypeOK, NEW r \in Requests,
           Start(r) \/ CheckDeclarative(r) \/ ListRules(r) \/ OwnRulesPass(r)
               \/ CheckProject(r) \/ CheckGlobal(r)
    PROVE  TypeOK'
<1>1. req' \in [Requests -> Handler]
  BY StagesMove, StartMoves, ListRulesMoves DEF Becomes
<1>2. UNCHANGED <<rules, counts, ledger, resetAt, cap, permits, buckets, admin, nextId,
                  acts, now>>
  BY DEF Start, CheckDeclarative, ListRules, OwnRulesPass, CheckProject, CheckGlobal,
         CheckBackstop
<1> QED BY <1>1, <1>2 DEF TypeOK

LEMMA RulesKeepTypes ==
    ASSUME TypeOK, NEW r \in Requests,
           Consider(r) \/ ReadBack(r) \/ CheckUsd(r) \/ CheckTokens(r)
    PROVE  TypeOK'
<1>1. req' \in [Requests -> Handler]
  BY ConsiderMoves, ReadBackMoves, CheckUsdMoves, CheckTokensMoves DEF Becomes
<1>2. counts' \in [Users -> [0..MaxNow -> Nat]]
  <2> DEFINE u == Profile[r].user
             row == [counts[u] EXCEPT ![now] = @ + 1]
  <2>1. u \in Users /\ now \in 0..MaxNow /\ counts \in [Users -> [0..MaxNow -> Nat]]
    BY AdmissionAssumption DEF TypeOK, Asked
  <2>2. counts[u] \in [0..MaxNow -> Nat] /\ counts[u][now] + 1 \in Nat
    <3>1. counts[u] \in [0..MaxNow -> Nat]
      BY <2>1
    <3>2. counts[u][now] \in Nat
      BY <2>1, <3>1
    <3> QED BY <3>1, <3>2
  <2>3. row \in [0..MaxNow -> Nat]
    BY <2>1, <2>2
  <2>4. counts' = counts \/ counts' = [counts EXCEPT ![u] = row]
    BY DEF Consider, ReadBack, CheckUsd, CheckTokens
  <2> HIDE DEF row, u
  <2> QED BY <2>1, <2>3, <2>4
<1>3. UNCHANGED <<rules, ledger, resetAt, cap, permits, buckets, admin, nextId, acts, now>>
  BY DEF Consider, ReadBack, CheckUsd, CheckTokens
<1> QED BY <1>1, <1>2, <1>3 DEF TypeOK

LEMMA BucketTyped ==
    ASSUME TypeOK, NEW s \in Sessions
    PROVE  /\ Bucket(s) \in [minute : 0..MaxNow, requests : Nat, tokens : Nat]
           /\ Bucket(s).minute = now
           /\ \A n \in Nat : Fill(s, n) \in [minute : 0..MaxNow, requests : Nat, tokens : Nat]
           /\ \A n \in Nat : /\ Fill(s, n).minute = now
                             /\ Fill(s, n).requests = Bucket(s).requests + 1
                             /\ Fill(s, n).tokens = Bucket(s).tokens + n
<1>1. /\ Bucket(s) \in [minute : 0..MaxNow, requests : Nat, tokens : Nat]
      /\ Bucket(s).minute = now
  BY DEF TypeOK, Bucket, EmptyBucket
<1>2. \A n \in Nat : Bucket(s).requests + 1 \in Nat /\ Bucket(s).tokens + n \in Nat
  BY <1>1
<1> HIDE DEF Bucket
<1> QED BY <1>1, <1>2 DEF Fill

LEMMA GatesKeepTypes ==
    ASSUME TypeOK, NEW r \in Requests, Gate(r) \/ Limit(r) \/ Fails(r)
    PROVE  TypeOK'
<1>1. Profile[r] \in Asked /\ Profile[r].user \in Users
  BY AdmissionAssumption DEF Asked
<1>2. \A pc \in Stages : Goto(r, pc) => req' \in [Requests -> Handler]
  BY GotoMoves DEF Becomes
<1>3. Release(r) => permits' \in [Users -> SUBSET Requests]
  BY <1>1 DEF Release, TypeOK
<1>4. CASE Gate(r)
  <2>1. \E pc \in Stages : Goto(r, pc)
    <3>1. Goto(r, "limits") \/ Goto(r, "refused")
      BY <1>4 DEF Gate
    <3> QED BY ONLY <3>1 DEF Stages
  <2>2. permits' \in [Users -> SUBSET Requests]
    <3>1. \/ permits' = permits
          \/ permits' = [permits EXCEPT ![Profile[r].user] = @ \cup {r}]
      BY <1>4 DEF Gate
    <3>2. permits \in [Users -> SUBSET Requests]
      BY DEF TypeOK
    <3> QED BY <1>1, <3>1, <3>2
  <2>3. cap' \in [Users -> Opt(Nat)]
    <3>1. \A max \in req[r].conc : {max} \in Opt(Nat)
      BY OptOfOne, TodoTyped DEF Handler, Opt
    <3>2. \/ cap' = cap
          \/ \E max \in req[r].conc :
                cap' = [cap EXCEPT ![Profile[r].user] = Capacity(Profile[r].user, max)]
      BY <1>4 DEF Gate
    <3>3. \A max \in req[r].conc : Capacity(Profile[r].user, max) \in Opt(Nat)
      BY <1>1, <3>1 DEF Capacity, TypeOK
    <3> QED BY <3>2, <3>3 DEF TypeOK
  <2> QED BY <1>2, <1>4, <2>1, <2>2, <2>3 DEF Gate, TypeOK
<1>5. CASE Limit(r)
  <2>1. CASE Goto(r, "calling") /\ UNCHANGED <<permits, buckets>>
    BY <1>2, <1>5, <2>1 DEF Limit, TypeOK, Stages
  <2>2. ASSUME NEW s \in Profile[r].session,
               req' = [req EXCEPT ![r].pc = "calling", ![r].session = {now}],
               buckets' = [buckets EXCEPT ![s] = Fill(s, Profile[r].tokens)],
               UNCHANGED permits
        PROVE  TypeOK'
    <3>1. s \in Sessions /\ Profile[r].tokens \in Nat
      BY <1>1 DEF Asked, Opt
    <3>2. req' \in [Requests -> Handler]
      BY <2>2, ChargedMoves DEF Becomes
    <3>3. buckets' \in [Sessions -> [minute : 0..MaxNow, requests : Nat, tokens : Nat]]
      BY <2>2, <3>1, BucketTyped DEF TypeOK
    <3> QED BY <1>5, <2>2, <3>2, <3>3 DEF Limit, TypeOK
  <2>3. ASSUME NEW s \in Profile[r].session, Refuse(r),
               buckets' = [buckets EXCEPT ![s] = Bucket(s)]
        PROVE  TypeOK'
    <3>1. s \in Sessions
      BY <1>1 DEF Asked, Opt
    <3>2. buckets' \in [Sessions -> [minute : 0..MaxNow, requests : Nat, tokens : Nat]]
      BY <2>3, <3>1, BucketTyped DEF TypeOK
    <3> QED BY <1>2, <1>3, <1>5, <2>3, <3>2 DEF Limit, Refuse, TypeOK, Stages
  <2> QED BY <1>5, <2>1, <2>2, <2>3 DEF Limit
<1>6. CASE Fails(r)
  BY <1>2, <1>3, <1>6 DEF Fails, Refuse, TypeOK, Stages
<1> QED BY <1>4, <1>5, <1>6

LEMMA CallKeepsTypes ==
    ASSUME TypeOK, NEW r \in Requests,
           (\E m \in Models : FailOver(r, m)) \/ Answers(r) \/ StreamEnds(r) \/ Charge(r)
    PROVE  TypeOK'
<1>1. Profile[r].user \in Users
  BY AdmissionAssumption DEF Asked
<1>2. \A pc \in Stages : Goto(r, pc) => req' \in [Requests -> Handler]
  BY GotoMoves DEF Becomes
<1>3. CASE \E m \in Models : FailOver(r, m)
  <2>1. req' \in [Requests -> Handler]
    BY <1>3, FailOverMoves DEF Becomes
  <2> QED BY <1>3, <2>1 DEF FailOver, TypeOK
<1>4. CASE Answers(r)
  <2>1. req' \in [Requests -> Handler]
    BY <1>2, <1>4 DEF Answers, Stages
  <2> QED BY <1>1, <1>4, <2>1 DEF Answers, Release, TypeOK
<1>5. CASE StreamEnds(r)
  BY <1>2, <1>5 DEF StreamEnds, TypeOK, Stages
<1>6. CASE Charge(r)
  <2>1. {now} \in Opt(0..MaxNow)
    BY OptOfOne DEF TypeOK
  <2> QED BY <1>2, <1>6, <2>1 DEF Charge, TypeOK, Stages
<1> QED BY <1>3, <1>4, <1>5, <1>6

LEMMA AdministratorsKeepTypes == ASSUME TypeOK, Administer PROVE TypeOK'
<1>1. ASSUME Act PROVE acts' \in 0..MaxActs
  BY <1>1, AdmissionAssumption DEF Act, TypeOK
<1>2. ASSUME NEW a \in Admins, NEW q \in NewRules, DraftRule(a, q) PROVE TypeOK'
  <2>1. {q} \in Opt(Rule)
    BY AdmissionAssumption, OptOfOne
  <2> QED BY <1>1, <1>2, <2>1 DEF DraftRule, TypeOK
<1>3. ASSUME NEW a \in Admins, InsertRule(a) PROVE TypeOK'
  <2>1. PICK q \in admin[a] : rules' = rules \cup {[q EXCEPT !.id = nextId]}
    BY <1>3 DEF InsertRule
  <2>2. q \in Rule
    BY DEF TypeOK, Opt
  <2>3. [q EXCEPT !.id = nextId] \in Rule
    BY <2>2 DEF Rule, TypeOK
  <2>4. admin' \in [Admins -> Opt(Rule)]
    BY <1>3, OptOfNone DEF InsertRule, TypeOK
  <2>5. rules' \subseteq Rule
    BY <2>1, <2>3 DEF TypeOK
  <2>6. nextId' \in Nat
    BY <1>3 DEF InsertRule, TypeOK
  <2> QED BY <1>3, <2>4, <2>5, <2>6 DEF InsertRule, TypeOK
<1>4. ASSUME NEW q \in rules, NEW usd \in Edits, EditRule(q, usd) PROVE TypeOK'
  <2>1. {usd} \in Opt(Nat) /\ q \in Rule
    BY AdmissionAssumption, OptOfOne DEF TypeOK
  <2>2. [q EXCEPT !.usd = {usd}] \in Rule
    BY <2>1 DEF Rule
  <2>3. req' \in [Requests -> Handler]
    BY <1>4, Forgetting DEF EditRule, Forgotten
  <2> QED BY <1>1, <1>4, <2>2, <2>3 DEF EditRule, TypeOK
<1>5. ASSUME NEW q \in rules, DeleteRule(q) PROVE TypeOK'
  BY <1>1, <1>5 DEF DeleteRule, TypeOK
<1>6. ASSUME NEW u \in Users, ResetSpend(u) PROVE TypeOK'
  BY <1>1, <1>6 DEF ResetSpend, TypeOK
<1> QED BY <1>2, <1>3, <1>4, <1>5, <1>6 DEF Administer

LEMMA TickKeepsTypes == ASSUME TypeOK, Tick PROVE TypeOK'
<1> DEFINE ids == {q.id : q \in {p \in rules : WindowStart(p.window) # WindowStart(p.window)'}}
<1>1. Forget(ids)
  BY DEF Tick
<1> HIDE DEF ids
<1>2. req' \in [Requests -> Handler]
  BY <1>1, Forgetting DEF Forgotten
<1>3. now' \in 0..MaxNow
  BY AdmissionAssumption DEF Tick, TypeOK
<1> QED BY <1>2, <1>3 DEF Tick, TypeOK

LEMMA StepKeepsTypes == TypeOK /\ [Next]_vars => TypeOK'
<1> SUFFICES ASSUME TypeOK, [Next]_vars PROVE TypeOK'
  OBVIOUS
<1>1. CASE UNCHANGED vars
  BY <1>1 DEF vars, TypeOK
<1>2. ASSUME NEW r \in Requests, Handle(r) PROVE TypeOK'
  BY <1>2, PolicyKeepsTypes, RulesKeepTypes, GatesKeepTypes, CallKeepsTypes DEF Handle
<1> QED BY <1>1, <1>2, AdministratorsKeepTypes, TickKeepsTypes DEF Next

\* The variables of admission keep their types.
THEOREM AdmissionTypeCorrect == Spec => []TypeOK
BY InitHasTypes, StepKeepsTypes, PTL DEF Spec

-----------------------------------------------------------------------------
(* Sets of requests. *)

LEMMA SomeRequests ==
    ASSUME NEW S \in SUBSET Requests
    PROVE  IsFiniteSet(S) /\ Cardinality(S) \in Nat
BY AdmissionAssumption, FS_Subset, FS_CardinalityType

LEMMA FewerRequests ==
    ASSUME NEW S \in SUBSET Requests, NEW T \in SUBSET S
    PROVE  Cardinality(T) <= Cardinality(S)
BY SomeRequests, FS_Subset

LEMMA OneMoreRequest ==
    ASSUME NEW S \in SUBSET Requests, NEW r \in Requests
    PROVE  /\ Cardinality(S \cup {r}) <= Cardinality(S) + 1
           /\ r \notin S => Cardinality(S \cup {r}) = Cardinality(S) + 1
BY SomeRequests, FS_AddElement

-----------------------------------------------------------------------------
(* Per-minute limits. *)

WasCounted(h, minute) == \E c \in h.counted : c.minute = minute

CountedIn(u, minute) == {r \in Requests : Profile[r].user = u /\ WasCounted(req[r], minute)}

\* Who passed a limit was counted, and a count is at least those it counted; so of
\* those who passed a limit the last to read its count read all of them.
RatesTrue ==
    /\ \A r \in Requests :
          /\ req[r].pc = "counted" => WasCounted(req[r], req[r].minute)
          /\ \A p \in req[r].passed : WasCounted(req[r], p.minute)
    /\ \A u \in Users, m \in 0..MaxNow : Cardinality(CountedIn(u, m)) <= counts[u][m]
    /\ \A u \in Users, m \in 0..MaxNow, n \in Nat : Cardinality(PassedIn(u, m, n)) <= n

LEMMA NobodyCounted == Init => RatesTrue
<1> SUFFICES ASSUME Init PROVE RatesTrue
  OBVIOUS
<1>1. \A r \in Requests : /\ req[r].counted = {} /\ req[r].passed = {}
                          /\ req[r].pc = "new"
  BY DEF Init, NewHandler
<1>2. \A u, m, n : CountedIn(u, m) = {} /\ PassedIn(u, m, n) = {}
  BY <1>1 DEF CountedIn, WasCounted, PassedIn
<1>3. Cardinality({}) = 0
  BY FS_EmptySet
<1>4. \A u \in Users, m \in 0..MaxNow : counts[u][m] = 0
  BY DEF Init
<1>5. \A u \in Users, m \in 0..MaxNow : Cardinality(CountedIn(u, m)) <= counts[u][m]
  <2> SUFFICES ASSUME NEW u \in Users, NEW m \in 0..MaxNow
               PROVE  Cardinality(CountedIn(u, m)) <= counts[u][m]
    OBVIOUS
  <2>1. Cardinality(CountedIn(u, m)) = 0
    BY ONLY <1>2, <1>3
  <2>2. counts[u][m] = 0
    BY <1>4
  <2> QED BY ONLY <2>1, <2>2
<1>6. \A u \in Users, m \in 0..MaxNow, n \in Nat : Cardinality(PassedIn(u, m, n)) <= n
  <2> SUFFICES ASSUME NEW u \in Users, NEW m \in 0..MaxNow, NEW n \in Nat
               PROVE  Cardinality(PassedIn(u, m, n)) <= n
    OBVIOUS
  <2>1. Cardinality(PassedIn(u, m, n)) = 0
    BY ONLY <1>2, <1>3
  <2> QED BY ONLY <2>1, n \in Nat
<1> QED BY <1>1, <1>5, <1>6 DEF RatesTrue

\* A step that counts nobody and lets nobody pass.
LEMMA RatesUndisturbed ==
    ASSUME RatesTrue, counts' = counts,
           \A r \in Requests : /\ req'[r].counted = req[r].counted
                               /\ req'[r].passed = req[r].passed
                               /\ req'[r].pc = "counted" =>
                                     req[r].pc = "counted" /\ req'[r].minute = req[r].minute
    PROVE  RatesTrue'
<1>1. \A u, m, n : CountedIn(u, m)' = CountedIn(u, m) /\ PassedIn(u, m, n)' = PassedIn(u, m, n)
  BY DEF CountedIn, WasCounted, PassedIn
<1> QED BY <1>1 DEF RatesTrue, WasCounted

\* A request is counted in the minute it is in.
LEMMA CountingKeepsRates ==
    ASSUME TypeOK, RatesTrue, NEW r \in Requests, NEW q,
           counts' = [counts EXCEPT ![Profile[r].user][now] = @ + 1],
           Becomes(r, [req[r] EXCEPT !.pc = "counted", !.minute = now,
                                     !.counted = @ \cup {[minute |-> now, rule |-> q.id]}])
    PROVE  RatesTrue'
<1>1. /\ req'[r].pc = "counted" /\ req'[r].minute = now
      /\ req'[r].counted = req[r].counted \cup {[minute |-> now, rule |-> q.id]}
      /\ req'[r].passed = req[r].passed
      /\ \A o \in Requests \ {r} : req'[o] = req[o]
  BY TodoTyped DEF Becomes, Handler
<1>2. PICK t \in 0..MaxNow : t = now
  BY DEF TypeOK
<1>7. /\ \A m : WasCounted(req'[r], m) <=> WasCounted(req[r], m) \/ m = now
      /\ \A o \in Requests \ {r} : \A m : WasCounted(req'[o], m) <=> WasCounted(req[o], m)
  <2> DEFINE mark == [minute |-> now, rule |-> q.id]
  <2>1. mark.minute = now /\ req'[r].counted = req[r].counted \cup {mark}
    BY <1>1
  <2> HIDE DEF mark
  <2>2. \A m : WasCounted(req'[r], m) <=> WasCounted(req[r], m) \/ m = now
    BY <2>1 DEF WasCounted
  <2>3. \A o \in Requests \ {r} : \A m : WasCounted(req'[o], m) <=> WasCounted(req[o], m)
    BY <1>1
  <2> QED BY <2>2, <2>3
<1>3. Profile[r].user \in Users
  BY AdmissionAssumption DEF Asked
<1>4. \A u, m, n : PassedIn(u, m, n)' = PassedIn(u, m, n)
  BY <1>1 DEF PassedIn
<1>5. ASSUME NEW u \in Users, NEW m \in 0..MaxNow
      PROVE  Cardinality(CountedIn(u, m)') <= counts'[u][m]
  <2>1. Cardinality(CountedIn(u, m)) <= counts[u][m]
    BY DEF RatesTrue
  <2>2. counts[u] \in [0..MaxNow -> Nat]
    BY DEF TypeOK
  <2>3. counts[u][m] \in Nat
    BY <2>2
  <2>4. CASE u = Profile[r].user /\ m = t
    <3>1. CountedIn(u, m)' = CountedIn(u, m) \cup {r}
      BY <1>2, <1>7, <2>4 DEF CountedIn
    <3>2. CountedIn(u, m) \in SUBSET Requests
      BY DEF CountedIn
    <3>3. Cardinality(CountedIn(u, m) \cup {r}) <= Cardinality(CountedIn(u, m)) + 1
      BY <3>2, OneMoreRequest
    <3>4. counts'[u][m] = counts[u][m] + 1
      BY <1>2, <2>2, <2>4 DEF TypeOK
    <3>5. Cardinality(CountedIn(u, m)) \in Nat /\ Cardinality(CountedIn(u, m) \cup {r}) \in Nat
      BY <3>2, SomeRequests
    <3> QED BY <2>1, <2>3, <3>1, <3>3, <3>4, <3>5
  <2>5. CASE ~(u = Profile[r].user /\ m = t)
    <3>1. CountedIn(u, m)' = CountedIn(u, m)
      BY <1>2, <1>7, <2>5 DEF CountedIn
    <3>2. counts'[u][m] = counts[u][m]
      BY <1>2, <2>2, <2>5 DEF TypeOK
    <3> QED BY <2>1, <3>1, <3>2
  <2> QED BY <2>4, <2>5
<1>6. ASSUME NEW o \in Requests
      PROVE  /\ req'[o].pc = "counted" => WasCounted(req'[o], req'[o].minute)
             /\ \A p \in req'[o].passed : WasCounted(req'[o], p.minute)
  BY <1>1, <1>7 DEF RatesTrue
<1> QED BY <1>4, <1>5, <1>6 DEF RatesTrue

\* A request passes the limit: whoever passed it, or a stricter one, in its minute was
\* counted, and the count it read is not over the limit.
LEMMA PassingKeepsRates ==
    ASSUME TypeOK, RatesTrue, NEW r \in Requests, NEW rpm \in Nat, counts' = counts,
           req[r].pc = "counted", counts[Profile[r].user][req[r].minute] <= rpm,
           Becomes(r, [req[r] EXCEPT !.pc = "spend",
                          !.passed = @ \cup {[minute |-> req[r].minute, rpm |-> rpm]}])
    PROVE  RatesTrue'
<1>1. PICK t \in 0..MaxNow : t = req[r].minute
  BY TodoTyped DEF Handler
<1>2. PICK w \in Users : w = Profile[r].user
  BY AdmissionAssumption DEF Asked
<1> DEFINE pass == [minute |-> t, rpm |-> rpm]
<1>3. /\ req'[r].pc = "spend" /\ req'[r].counted = req[r].counted
      /\ req'[r].passed = req[r].passed \cup {pass}
      /\ \A o \in Requests \ {r} : req'[o] = req[o]
  BY <1>1, TodoTyped DEF Becomes, Handler
<1>4. pass.minute = t /\ pass.rpm = rpm
  OBVIOUS
<1> HIDE DEF pass
<1>5. \A u, m : CountedIn(u, m)' = CountedIn(u, m)
  BY <1>3 DEF CountedIn, WasCounted
<1>6. WasCounted(req[r], t)
  BY <1>1 DEF RatesTrue
<1>7. ASSUME NEW o \in Requests
      PROVE  /\ req'[o].pc = "counted" => WasCounted(req'[o], req'[o].minute)
             /\ \A p \in req'[o].passed : WasCounted(req'[o], p.minute)
  BY <1>3, <1>4, <1>6 DEF RatesTrue, WasCounted
<1>8. ASSUME NEW u \in Users, NEW m \in 0..MaxNow, NEW n \in Nat
      PROVE  Cardinality(PassedIn(u, m, n)') <= n
  <2>1. CASE u = w /\ m = t /\ rpm <= n
    <3>1. PassedIn(u, m, n)' \subseteq CountedIn(u, m)
      <4>1. ASSUME NEW o \in PassedIn(u, m, n)' PROVE o \in CountedIn(u, m)'
        <5>1. /\ o \in Requests /\ Profile[o].user = u
              /\ \E p \in req'[o].passed : p.minute = m /\ p.rpm <= n
          BY <4>1 DEF PassedIn
        <5>2. WasCounted(req'[o], m)
          BY <5>1, <1>7
        <5> QED BY <5>1, <5>2 DEF CountedIn
      <4> QED BY <1>5, <4>1
    <3>2. CountedIn(u, m) \in SUBSET Requests
      BY DEF CountedIn
    <3>3. Cardinality(PassedIn(u, m, n)') <= Cardinality(CountedIn(u, m))
      BY <3>1, <3>2, FewerRequests
    <3>4. Cardinality(CountedIn(u, m)) <= counts[u][m] /\ counts[u][m] <= rpm
      BY <1>1, <1>2, <2>1 DEF RatesTrue
    <3>5. counts[u][m] \in Nat /\ Cardinality(CountedIn(u, m)) \in Nat
          /\ Cardinality(PassedIn(u, m, n)') \in Nat
      <4>1. counts[u] \in [0..MaxNow -> Nat]
        BY DEF TypeOK
      <4> QED BY <3>1, <3>2, <4>1, SomeRequests
    <3> QED BY <2>1, <3>3, <3>4, <3>5
  <2>2. CASE ~(u = w /\ m = t /\ rpm <= n)
    <3>1. PassedIn(u, m, n)' = PassedIn(u, m, n)
      BY <1>2, <1>3, <1>4, <2>2 DEF PassedIn
    <3> QED BY <3>1 DEF RatesTrue
  <2> QED BY <2>1, <2>2
<1> QED BY <1>5, <1>7, <1>8 DEF RatesTrue

LEMMA HandlersKeepRates ==
    ASSUME TypeOK, RatesTrue, NEW r \in Requests, Handle(r)
    PROVE  RatesTrue'
<1>1. CASE \E h \in Handler : /\ Becomes(r, h) /\ counts' = counts
                              /\ h.counted = req[r].counted /\ h.passed = req[r].passed
                              /\ h.pc # "counted"
  BY <1>1, RatesUndisturbed DEF Becomes
<1>2. ASSUME NEW pc \in Stages, pc # "counted",
             Becomes(r, [req[r] EXCEPT !.pc = pc]), counts' = counts
      PROVE  RatesTrue'
  BY <1>1, <1>2, TodoTyped DEF Handler, Becomes
<1>3. CASE Consider(r)
  <2>1. PICK q \in Foremost(req[r].todo) :
              \/ UNCHANGED counts /\ Becomes(r, [req[r] EXCEPT !.todo = @ \ {q}])
              \/ /\ UNCHANGED counts
                 /\ \E pc \in {"refused", "spend"} : Becomes(r, [req[r] EXCEPT !.pc = pc])
              \/ /\ counts' = [counts EXCEPT ![Profile[r].user][now] = @ + 1]
                 /\ Becomes(r, [req[r] EXCEPT !.pc = "counted", !.minute = now,
                                              !.counted = @ \cup {[minute |-> now, rule |-> q.id]}])
    BY <1>3, ConsiderMoves
  <2>2. CASE UNCHANGED counts /\ Becomes(r, [req[r] EXCEPT !.todo = @ \ {q}])
    <3>1. req[r].pc = "rules"
      BY <1>3 DEF Consider
    <3> QED BY <1>1, <2>2, <3>1, TodoTyped DEF Handler, Becomes
  <2>3. CASE /\ UNCHANGED counts
             /\ \E pc \in {"refused", "spend"} : Becomes(r, [req[r] EXCEPT !.pc = pc])
    BY <1>2, <2>3 DEF Stages
  <2> QED BY <2>1, <2>2, <2>3, CountingKeepsRates
<1>4. CASE ReadBack(r)
  <2>1. counts' = counts /\ req[r].pc = "counted"
    BY <1>4 DEF ReadBack
  <2> QED BY <1>2, <1>4, <2>1, ReadBackMoves, PassingKeepsRates DEF Stages
<1>5. CASE Start(r) \/ ListRules(r) \/ CheckUsd(r) \/ CheckTokens(r)
  <2>1. counts' = counts
    BY <1>5 DEF Start, ListRules, CheckUsd, CheckTokens
  <2>2. CASE Start(r)
    BY <1>1, <2>1, <2>2, StartMoves, TodoTyped DEF Handler, Becomes
  <2>3. CASE ListRules(r)
    BY <1>1, <2>1, <2>3, ListRulesMoves, TodoTyped DEF Handler, Becomes
  <2>4. CASE CheckUsd(r)
    BY <1>1, <2>1, <2>4, CheckUsdMoves, TodoTyped DEF Handler, Becomes
  <2>5. CASE CheckTokens(r)
    BY <1>1, <2>1, <2>5, CheckTokensMoves, TodoTyped DEF Handler, Becomes
  <2> QED BY <1>5, <2>2, <2>3, <2>4, <2>5
<1>6. CASE CheckDeclarative(r) \/ OwnRulesPass(r) \/ CheckProject(r) \/ CheckGlobal(r)
            \/ Gate(r) \/ Fails(r) \/ Answers(r) \/ StreamEnds(r) \/ Charge(r)
  <2>1. counts' = counts
    BY <1>6 DEF CheckDeclarative, OwnRulesPass, CheckProject, CheckGlobal, CheckBackstop,
                Gate, Fails, Answers, StreamEnds, Charge
  <2> QED BY <1>2, <1>6, <2>1, StagesMove
<1>7. CASE Limit(r)
  <2>1. counts' = counts
    BY <1>7 DEF Limit
  <2>2. \/ \E pc \in {"refused", "calling"} : Goto(r, pc)
        \/ req' = [req EXCEPT ![r].pc = "calling", ![r].session = {now}]
    BY <1>7 DEF Limit, Refuse
  <2>3. {"refused", "calling"} \subseteq Stages
    BY DEF Stages
  <2>4. CASE req' = [req EXCEPT ![r].pc = "calling", ![r].session = {now}]
    <3> DEFINE h == [req[r] EXCEPT !.pc = "calling", !.session = {now}]
    <3>1. Becomes(r, h)
      BY <2>4, ChargedMoves
    <3>2. req[r] \in Handler
      BY TodoTyped
    <3>3. h.counted = req[r].counted /\ h.passed = req[r].passed /\ h.pc # "counted"
      BY <3>2 DEF Handler
    <3>4. h \in Handler
      BY <3>1 DEF Becomes
    <3> HIDE DEF h
    <3> QED BY <1>1, <2>1, <3>1, <3>3, <3>4
  <2> QED BY <1>2, <2>1, <2>2, <2>3, <2>4, GotoMoves
<1>8. CASE \E m \in Models : FailOver(r, m)
  <2>1. counts' = counts /\ req[r].pc = "calling"
    BY <1>8 DEF FailOver
  <2> QED BY <1>1, <1>8, <2>1, FailOverMoves, TodoTyped DEF Handler, Becomes
<1> QED BY <1>3, <1>4, <1>5, <1>6, <1>7, <1>8 DEF Handle

LEMMA StepKeepsRates == TypeOK /\ RatesTrue /\ [Next]_vars => RatesTrue'
<1> SUFFICES ASSUME TypeOK, RatesTrue, [Next]_vars PROVE RatesTrue'
  OBVIOUS
<1>1. CASE UNCHANGED vars
  BY <1>1, RatesUndisturbed DEF vars
<1>2. CASE Administer
  <2>1. counts' = counts /\ (req' = req \/ \E ids : Forget(ids))
    BY <1>2 DEF Administer, DraftRule, InsertRule, EditRule, DeleteRule, ResetSpend
  <2> QED BY <2>1, Forgetting, RatesUndisturbed DEF Forgotten
<1>3. CASE Tick
  <2>1. counts' = counts /\ \E ids : Forget(ids)
    BY <1>3 DEF Tick
  <2> QED BY <2>1, Forgetting, RatesUndisturbed DEF Forgotten
<1> QED BY <1>1, <1>2, <1>3, HandlersKeepRates DEF Next

\* A minute's counter is the number of requests that have incremented it, and no
\* more of them have passed than it let through.
THEOREM RatesInvariant == Spec => []RatesTrue
BY NobodyCounted, StepKeepsRates, AdmissionTypeCorrect, PTL DEF Spec

-----------------------------------------------------------------------------
(* Session limits. *)

\* The tokens of one more chat.
LEMMA OneMoreChat ==
    ASSUME NEW S \in SUBSET Requests, NEW r \in Requests, r \notin S,
           IsFiniteSet(TokensOf(S))
    PROVE  /\ IsFiniteSet(TokensOf(S \cup {r}))
           /\ Cardinality(TokensOf(S \cup {r})) = Cardinality(TokensOf(S)) + Profile[r].tokens
<1>1. PICK n \in Nat : n = Profile[r].tokens
  BY AdmissionAssumption DEF Asked
<1> DEFINE mine == {r} \X (1..n)
<1>2. IsFiniteSet(1..n) /\ Cardinality(1..n) = n
  <2>1. 1 \in Int /\ n \in Int
    OBVIOUS
  <2>2. IsFiniteSet(1..n) /\ Cardinality(1..n) = IF 1 > n THEN 0 ELSE n - 1 + 1
    BY <2>1, FS_Interval
  <2> QED BY <2>2
<1>3. IsFiniteSet(mine) /\ Cardinality(mine) = n
  <2>1. IsFiniteSet({r}) /\ Cardinality({r}) = 1
    BY FS_Singleton
  <2>2. IsFiniteSet(mine) /\ Cardinality(mine) = Cardinality({r}) * Cardinality(1..n)
    BY <1>2, <2>1, FS_Product
  <2>3. Cardinality(mine) = 1 * n
    BY <1>2, <2>1, <2>2
  <2> QED BY <2>2, <2>3
<1>4. TokensOf(S \cup {r}) = TokensOf(S) \cup mine
  BY <1>1 DEF TokensOf
<1>5. TokensOf(S) \cap mine = {}
  BY DEF TokensOf
<1> HIDE DEF mine
<1>6. Cardinality(TokensOf(S) \cap mine) = 0
  BY <1>5, FS_EmptySet
<1>7. PICK a \in Nat : a = Cardinality(TokensOf(S))
  BY FS_CardinalityType
<1>8. /\ IsFiniteSet(TokensOf(S) \cup mine)
      /\ Cardinality(TokensOf(S) \cup mine)
            = Cardinality(TokensOf(S)) + Cardinality(mine) - Cardinality(TokensOf(S) \cap mine)
  BY <1>3, FS_Union
<1>9. Cardinality(TokensOf(S) \cup mine) = a + n
  BY <1>3, <1>6, <1>7, <1>8
<1>10. IsFiniteSet(TokensOf(S \cup {r})) /\ Cardinality(TokensOf(S \cup {r})) = a + n
  BY <1>4, <1>8, <1>9
<1> QED BY <1>1, <1>7, <1>10

\* The stages past the session limiter.
Past == {"calling", "streaming", "charging", "done", "refused"}

Used(s, m) == Cardinality(Charged(s, m))
UsedTokens(s, m) == Cardinality(TokensOf(Charged(s, m)))

\* A session's bucket holds what it was charged in the minute of the bucket, no chat
\* is charged in a later one, and none twice.
SessionsTrue ==
    /\ \A r \in Requests : req[r].session # {} => req[r].pc \in Past
    /\ \A s \in Sessions :
          /\ buckets[s].minute <= now
          /\ Used(s, buckets[s].minute) = buckets[s].requests
          /\ UsedTokens(s, buckets[s].minute) = buckets[s].tokens
    /\ \A s \in Sessions, m \in 0..MaxNow :
          /\ m > buckets[s].minute => Charged(s, m) = {}
          /\ IsFiniteSet(TokensOf(Charged(s, m)))
          /\ SessionRpm > 0 => Used(s, m) <= SessionRpm
          /\ SessionTpm > 0 => UsedTokens(s, m) <= SessionTpm

LEMMA NothingUsed ==
    ASSUME NEW s, NEW m, Charged(s, m) = {}
    PROVE  Used(s, m) = 0 /\ UsedTokens(s, m) = 0 /\ IsFiniteSet(TokensOf(Charged(s, m)))
<1>1. TokensOf({}) = {}
  BY DEF TokensOf
<1> QED BY <1>1, FS_EmptySet DEF Used, UsedTokens

LEMMA NobodyCharged == Init => SessionsTrue
<1> SUFFICES ASSUME Init PROVE SessionsTrue
  OBVIOUS
<1>1. \A r \in Requests : req[r].session = {}
  BY DEF Init, NewHandler
<1>2. \A s, m : Charged(s, m) = {}
  BY <1>1 DEF Charged
<1>3. \A s, m : Used(s, m) = 0 /\ UsedTokens(s, m) = 0 /\ IsFiniteSet(TokensOf(Charged(s, m)))
  BY <1>2, NothingUsed
<1>4. \A s \in Sessions : /\ buckets[s].minute = 0 /\ buckets[s].requests = 0
                          /\ buckets[s].tokens = 0
  BY DEF Init, EmptyBucket
<1>5. now = 0
  BY DEF Init
<1>6. \A s \in Sessions, m \in 0..MaxNow : SessionRpm > 0 => Used(s, m) <= SessionRpm
  BY <1>3, AdmissionAssumption
<1>7. \A s \in Sessions, m \in 0..MaxNow : SessionTpm > 0 => UsedTokens(s, m) <= SessionTpm
  BY <1>3, AdmissionAssumption
<1> QED BY <1>1, <1>2, <1>3, <1>4, <1>5, <1>6, <1>7 DEF SessionsTrue

\* A step that charges no chat.
LEMMA SessionsUndisturbed ==
    ASSUME TypeOK, TypeOK', SessionsTrue, buckets' = buckets, now <= now',
           \A r \in Requests : /\ req'[r].session = req[r].session
                               /\ req[r].pc \in Past => req'[r].pc \in Past
    PROVE  SessionsTrue'
<1>1. \A s, m : Charged(s, m)' = Charged(s, m)
  BY DEF Charged
<1>2. \A s, m : /\ Used(s, m)' = Used(s, m) /\ UsedTokens(s, m)' = UsedTokens(s, m)
                /\ TokensOf(Charged(s, m))' = TokensOf(Charged(s, m))
  BY <1>1 DEF Used, UsedTokens, TokensOf
<1>3. \A s \in Sessions : buckets[s].minute <= now'
  BY DEF SessionsTrue, TypeOK
<1>4. \A s \in Sessions : /\ Used(s, buckets[s].minute)' = Used(s, buckets[s].minute)
                          /\ UsedTokens(s, buckets[s].minute)' = UsedTokens(s, buckets[s].minute)
  <2> SUFFICES ASSUME NEW s \in Sessions
               PROVE  /\ Used(s, buckets[s].minute)' = Used(s, buckets[s].minute)
                      /\ UsedTokens(s, buckets[s].minute)' = UsedTokens(s, buckets[s].minute)
    OBVIOUS
  <2>1. PICK m : m = buckets[s].minute
    OBVIOUS
  <2>2. m = buckets'[s].minute
    BY <2>1
  <2> QED BY <1>1, <2>1, <2>2 DEF Used, UsedTokens, TokensOf
<1> QED BY <1>1, <1>2, <1>3, <1>4 DEF SessionsTrue

\* What the bucket of this minute says is what was charged in it.
LEMMA BucketTrue ==
    ASSUME TypeOK, SessionsTrue, NEW s \in Sessions
    PROVE  Used(s, now) = Bucket(s).requests /\ UsedTokens(s, now) = Bucket(s).tokens
<1>1. CASE buckets[s].minute = now
  BY <1>1 DEF SessionsTrue, Bucket
<1>2. CASE buckets[s].minute # now
  <2>1. PICK b \in 0..MaxNow : b = buckets[s].minute
    BY DEF TypeOK
  <2>2. now > buckets[s].minute
    BY <1>2, <2>1 DEF SessionsTrue, TypeOK
  <2>3. Charged(s, now) = {}
    BY <2>2 DEF SessionsTrue, TypeOK
  <2> QED BY <1>2, <2>3, NothingUsed DEF Bucket, EmptyBucket
<1> QED BY <1>1, <1>2

\* A chat over the limit is turned away, and the bucket is this minute's.
LEMMA TurningAwayKeepsSessions ==
    ASSUME TypeOK, TypeOK', SessionsTrue, NEW s \in Sessions, now' = now,
           buckets' = [buckets EXCEPT ![s] = Bucket(s)],
           \A r \in Requests : /\ req'[r].session = req[r].session
                               /\ req[r].pc \in Past => req'[r].pc \in Past
    PROVE  SessionsTrue'
<1>1. \A z, m : Charged(z, m)' = Charged(z, m)
  BY DEF Charged
<1>2. \A z, m : /\ Used(z, m)' = Used(z, m) /\ UsedTokens(z, m)' = UsedTokens(z, m)
                /\ TokensOf(Charged(z, m))' = TokensOf(Charged(z, m))
  BY <1>1 DEF Used, UsedTokens, TokensOf
<1>3. PICK t \in 0..MaxNow : t = now
  BY DEF TypeOK
<1>4. buckets[s].minute <= t /\ buckets[s].minute \in 0..MaxNow
  BY <1>3 DEF SessionsTrue, TypeOK
<1>5. buckets'[s] = Bucket(s) /\ \A z \in Sessions \ {s} : buckets'[z] = buckets[z]
  BY DEF TypeOK
<1>6. ASSUME NEW z \in Sessions
      PROVE  /\ buckets'[z].minute <= now'
             /\ Used(z, buckets[z].minute)' = buckets'[z].requests
             /\ UsedTokens(z, buckets[z].minute)' = buckets'[z].tokens
  <2>1. CASE z = s
    <3>1. buckets'[z].minute = t
      BY <1>3, <1>5, <2>1, BucketTyped
    <3>2. Used(z, t)' = buckets'[z].requests /\ UsedTokens(z, t)' = buckets'[z].tokens
      BY <1>2, <1>3, <1>5, <2>1, BucketTrue
    <3>3. Charged(z, buckets[z].minute)' = Charged(z, t)'
      BY <3>1 DEF Charged
    <3>4. /\ Used(z, buckets[z].minute)' = Used(z, t)'
          /\ UsedTokens(z, buckets[z].minute)' = UsedTokens(z, t)'
      BY <3>3 DEF Used, UsedTokens, TokensOf
    <3>5. buckets'[z].minute <= now'
      BY <1>3, <3>1
    <3> QED BY <3>2, <3>4, <3>5
  <2>2. CASE z # s
    <3>1. PICK b \in 0..MaxNow : b = buckets[z].minute
      BY DEF TypeOK
    <3>2. buckets'[z] = buckets[z] /\ Used(z, b) = buckets[z].requests
          /\ UsedTokens(z, b) = buckets[z].tokens /\ b <= now
      BY <1>5, <2>2, <3>1 DEF SessionsTrue
    <3>3. Used(z, b)' = buckets'[z].requests /\ UsedTokens(z, b)' = buckets'[z].tokens
      BY <1>2, <3>2
    <3> QED BY <3>1, <3>2, <3>3 DEF Used, UsedTokens, Charged, TokensOf
  <2> QED BY <2>1, <2>2
<1>7. ASSUME NEW z \in Sessions, NEW m \in 0..MaxNow, m > buckets'[z].minute
      PROVE  Charged(z, m) = {}
  <2>1. CASE z = s
    <3>1. m > buckets[z].minute
      BY <1>3, <1>4, <1>5, <1>7, <2>1, BucketTyped
    <3> QED BY <3>1 DEF SessionsTrue
  <2>2. CASE z # s
    BY <1>5, <1>7, <2>2 DEF SessionsTrue
  <2> QED BY <2>1, <2>2
<1> QED BY <1>1, <1>2, <1>6, <1>7 DEF SessionsTrue

\* A chat within the limits is charged to this minute, and had not been charged.
LEMMA ChargingKeepsSessions ==
    ASSUME TypeOK, TypeOK', SessionsTrue, NEW r \in Requests, NEW s \in Profile[r].session,
           req[r].pc = "limits", now' = now,
           WithinSession(Bucket(s), Profile[r].tokens),
           buckets' = [buckets EXCEPT ![s] = Fill(s, Profile[r].tokens)],
           Becomes(r, [req[r] EXCEPT !.pc = "calling", !.session = {now}])
    PROVE  SessionsTrue'
<1>1. /\ s \in Sessions /\ Profile[r].session = {s} /\ Profile[r].tokens \in Nat
  BY AdmissionAssumption DEF Asked, Opt
<1>2. PICK t \in 0..MaxNow : t = now
  BY DEF TypeOK
<1>3. /\ req'[r].pc = "calling" /\ req'[r].session = {t} /\ req[r].session = {}
      /\ \A o \in Requests \ {r} : req'[o] = req[o]
  BY <1>2, TodoTyped DEF Becomes, Handler, SessionsTrue, Past
<1> DEFINE S == Charged(s, t)
<1>4. S \in SUBSET Requests /\ r \notin S
  BY <1>3 DEF Charged
<1>5. Charged(s, t)' = S \cup {r}
  BY <1>1, <1>3 DEF Charged
<1>6. ASSUME NEW z \in Sessions, NEW m \in 0..MaxNow, z # s \/ m # t
      PROVE  Charged(z, m)' = Charged(z, m)
  BY <1>1, <1>3, <1>6 DEF Charged
<1>7. /\ IsFiniteSet(TokensOf(S))
      /\ Used(s, t) = Bucket(s).requests /\ UsedTokens(s, t) = Bucket(s).tokens
  BY <1>1, <1>2, BucketTrue DEF SessionsTrue
<1>8. /\ IsFiniteSet(TokensOf(Charged(s, t)'))
      /\ Used(s, t)' = Bucket(s).requests + 1
      /\ UsedTokens(s, t)' = Bucket(s).tokens + Profile[r].tokens
  <2> HIDE DEF S
  <2>1. /\ IsFiniteSet(TokensOf(S \cup {r}))
        /\ Cardinality(TokensOf(S \cup {r})) = Cardinality(TokensOf(S)) + Profile[r].tokens
        /\ Cardinality(S \cup {r}) = Cardinality(S) + 1
    BY <1>4, <1>7, OneMoreChat, OneMoreRequest
  <2>2. /\ IsFiniteSet(TokensOf(Charged(s, t)'))
        /\ Cardinality(TokensOf(Charged(s, t)')) = Cardinality(TokensOf(S)) + Profile[r].tokens
        /\ Cardinality(Charged(s, t)') = Cardinality(S) + 1
    BY <1>5, <2>1
  <2>3. Used(s, t) = Cardinality(S) /\ UsedTokens(s, t) = Cardinality(TokensOf(S))
    BY DEF S, Used, UsedTokens
  <2>4. TokensOf(Charged(s, t))' = TokensOf(Charged(s, t)')
    BY DEF TokensOf
  <2> QED BY <1>7, <2>2, <2>3, <2>4 DEF Used, UsedTokens
<1> HIDE DEF S
<1>9. /\ buckets'[s] = Fill(s, Profile[r].tokens)
      /\ \A z \in Sessions \ {s} : buckets'[z] = buckets[z]
  BY <1>1 DEF TypeOK
<1>10. /\ buckets'[s].minute = t /\ buckets'[s].requests = Used(s, t)'
       /\ buckets'[s].tokens = UsedTokens(s, t)'
  BY <1>1, <1>2, <1>8, <1>9, BucketTyped
<1>11. ASSUME NEW z \in Sessions, NEW m \in 0..MaxNow, z # s \/ m # t
       PROVE  /\ Used(z, m)' = Used(z, m) /\ UsedTokens(z, m)' = UsedTokens(z, m)
              /\ TokensOf(Charged(z, m))' = TokensOf(Charged(z, m))
  BY <1>6, <1>11 DEF Used, UsedTokens, TokensOf
<1>12. ASSUME NEW z \in Sessions
       PROVE  /\ buckets'[z].minute <= now'
              /\ Used(z, buckets[z].minute)' = buckets'[z].requests
              /\ UsedTokens(z, buckets[z].minute)' = buckets'[z].tokens
  <2>1. CASE z = s
    <3>1. Charged(z, buckets[z].minute)' = Charged(z, t)'
      BY <1>10, <2>1 DEF Charged
    <3> QED BY <1>2, <1>10, <2>1, <3>1 DEF Used, UsedTokens, TokensOf
  <2>2. CASE z # s
    <3>1. PICK b \in 0..MaxNow : b = buckets[z].minute
      BY DEF TypeOK
    <3>2. buckets'[z] = buckets[z] /\ Used(z, b) = buckets[z].requests
          /\ UsedTokens(z, b) = buckets[z].tokens /\ b <= now
      BY <1>9, <2>2, <3>1 DEF SessionsTrue
    <3>3. Used(z, b)' = buckets'[z].requests /\ UsedTokens(z, b)' = buckets'[z].tokens
      BY <1>11, <2>2, <3>2
    <3> QED BY <3>1, <3>2, <3>3 DEF Used, UsedTokens, Charged, TokensOf
  <2> QED BY <2>1, <2>2
<1>13. ASSUME NEW z \in Sessions, NEW m \in 0..MaxNow, m > buckets'[z].minute
       PROVE  Charged(z, m)' = {}
  <2>1. Charged(z, m)' = Charged(z, m)
    BY <1>6, <1>10, <1>13
  <2>2. m > buckets[z].minute
    <3>1. buckets[s].minute \in 0..MaxNow /\ buckets[s].minute <= t
      BY <1>1, <1>2 DEF SessionsTrue, TypeOK
    <3> QED BY <1>9, <1>10, <1>13, <3>1
  <2> QED BY <2>1, <2>2 DEF SessionsTrue
<1>14. ASSUME NEW z \in Sessions, NEW m \in 0..MaxNow
       PROVE  /\ IsFiniteSet(TokensOf(Charged(z, m)))'
              /\ SessionRpm > 0 => Used(z, m)' <= SessionRpm
              /\ SessionTpm > 0 => UsedTokens(z, m)' <= SessionTpm
  <2>1. CASE z = s /\ m = t
    <3>1. Bucket(s).requests \in Nat /\ Bucket(s).tokens \in Nat
      BY <1>1, BucketTyped
    <3>2. /\ SessionRpm > 0 => Bucket(s).requests < SessionRpm
          /\ SessionTpm > 0 => Bucket(s).tokens + Profile[r].tokens <= SessionTpm
      BY DEF WithinSession
    <3>3. IsFiniteSet(TokensOf(Charged(z, m)))'
      BY <1>8, <2>1 DEF TokensOf
    <3> QED BY <1>8, <2>1, <3>1, <3>2, <3>3, AdmissionAssumption
  <2>2. CASE ~(z = s /\ m = t)
    BY <1>11, <2>2 DEF SessionsTrue
  <2> QED BY <2>1, <2>2
<1>15. \A o \in Requests : req'[o].session # {} => req'[o].pc \in Past
  BY <1>3 DEF SessionsTrue, Past
<1> QED BY <1>12, <1>13, <1>14, <1>15 DEF SessionsTrue

\* The handler that steps moves alone; its session is the limiter's to charge, what is
\* doomed is settled at the start, and its model changes only when it fails over.
LEMMA HandlerSteps ==
    ASSUME TypeOK, NEW r \in Requests, Handle(r)
    PROVE  /\ \A o \in Requests \ {r} : req'[o] = req[o]
           /\ now' = now
           /\ Limit(r) \/ req'[r].session = req[r].session
           /\ Start(r) \/ (req'[r].doomed = req[r].doomed /\ req'[r].reset = req[r].reset)
           /\ (\E m \in Models : FailOver(r, m)) \/ req'[r].model = req[r].model
           /\ ListRules(r) \/ Consider(r) \/ CheckTokens(r) \/ req'[r].todo = req[r].todo
<1> USE TodoTyped
<1>1. ASSUME NEW pc \in Stages, Becomes(r, [req[r] EXCEPT !.pc = pc])
      PROVE  /\ \A o \in Requests \ {r} : req'[o] = req[o]
             /\ req'[r].session = req[r].session /\ req'[r].doomed = req[r].doomed
             /\ req'[r].reset = req[r].reset /\ req'[r].model = req[r].model
             /\ req'[r].todo = req[r].todo
  BY <1>1 DEF Becomes, Handler
<1>2. CASE CheckDeclarative(r) \/ OwnRulesPass(r) \/ CheckProject(r) \/ CheckGlobal(r)
            \/ Gate(r) \/ Fails(r) \/ Answers(r) \/ StreamEnds(r) \/ Charge(r)
  <2>1. now' = now
    BY <1>2 DEF CheckDeclarative, OwnRulesPass, CheckProject, CheckGlobal, CheckBackstop,
                Gate, Fails, Answers, StreamEnds, Charge
  <2> QED BY <1>1, <1>2, <2>1, StagesMove
<1>3. CASE Start(r)
  BY <1>3, StartMoves DEF Becomes, Handler, Start
<1>4. CASE ListRules(r)
  BY <1>4, ListRulesMoves DEF Becomes, Handler, ListRules
<1>5. CASE Consider(r)
  <2>1. now' = now
    BY <1>5 DEF Consider
  <2>2. {"refused", "spend"} \subseteq Stages
    BY DEF Stages
  <2>3. PICK q \in Foremost(req[r].todo) :
           \/ Becomes(r, [req[r] EXCEPT !.todo = @ \ {q}])
           \/ \E pc \in {"refused", "spend"} : Becomes(r, [req[r] EXCEPT !.pc = pc])
           \/ Becomes(r, [req[r] EXCEPT !.pc = "counted", !.minute = now,
                                        !.counted = @ \cup {[minute |-> now, rule |-> q.id]}])
    BY <1>5, ConsiderMoves
  <2>4. CASE Becomes(r, [req[r] EXCEPT !.todo = @ \ {q}])
    BY <1>5, <2>1, <2>4 DEF Becomes, Handler
  <2>5. CASE Becomes(r, [req[r] EXCEPT !.pc = "counted", !.minute = now,
                                       !.counted = @ \cup {[minute |-> now, rule |-> q.id]}])
    BY <2>1, <2>5 DEF Becomes, Handler
  <2> QED BY <1>1, <2>1, <2>2, <2>3, <2>4, <2>5
<1>6. CASE ReadBack(r)
  <2>1. now' = now
    BY <1>6 DEF ReadBack
  <2>2. ASSUME NEW rpm \in Nat,
               Becomes(r, [req[r] EXCEPT !.pc = "spend",
                              !.passed = @ \cup {[minute |-> req[r].minute, rpm |-> rpm]}])
        PROVE  /\ \A o \in Requests \ {r} : req'[o] = req[o]
               /\ req'[r].session = req[r].session /\ req'[r].doomed = req[r].doomed
               /\ req'[r].reset = req[r].reset /\ req'[r].model = req[r].model
               /\ req'[r].todo = req[r].todo
    BY <2>2 DEF Becomes, Handler
  <2> QED BY <1>1, <1>6, <2>1, <2>2, ReadBackMoves DEF Stages
<1>7. CASE CheckUsd(r)
  <2>1. now' = now
    BY <1>7 DEF CheckUsd
  <2>2. ASSUME NEW conc \in Opt(Nat),
               Becomes(r, [req[r] EXCEPT !.pc = "tokens", !.conc = conc])
        PROVE  /\ \A o \in Requests \ {r} : req'[o] = req[o]
               /\ req'[r].session = req[r].session /\ req'[r].doomed = req[r].doomed
               /\ req'[r].reset = req[r].reset /\ req'[r].model = req[r].model
               /\ req'[r].todo = req[r].todo
    BY <2>2 DEF Becomes, Handler
  <2> QED BY <1>1, <1>7, <2>1, <2>2, CheckUsdMoves DEF Stages
<1>8. CASE CheckTokens(r)
  <2>1. now' = now
    BY <1>8 DEF CheckTokens
  <2>2. PICK q \in Foremost(req[r].todo) :
           \/ Becomes(r, [req[r] EXCEPT !.pc = "refused"])
           \/ Becomes(r, [req[r] EXCEPT !.pc = "rules", !.todo = @ \ {q}])
    BY <1>8, CheckTokensMoves
  <2>3. CASE Becomes(r, [req[r] EXCEPT !.pc = "rules", !.todo = @ \ {q}])
    BY <1>8, <2>1, <2>3 DEF Becomes, Handler
  <2> QED BY <1>1, <2>1, <2>2, <2>3 DEF Stages
<1>9. CASE Limit(r)
  <2>1. now' = now
    BY <1>9 DEF Limit
  <2>2. \/ \E pc \in {"refused", "calling"} : Goto(r, pc)
        \/ req' = [req EXCEPT ![r].pc = "calling", ![r].session = {now}]
    BY <1>9 DEF Limit, Refuse
  <2>3. {"refused", "calling"} \subseteq Stages
    BY DEF Stages
  <2>4. CASE req' = [req EXCEPT ![r].pc = "calling", ![r].session = {now}]
    BY <1>9, <2>1, <2>4, ChargedMoves DEF Handler, Becomes
  <2> QED BY <1>1, <1>9, <2>1, <2>2, <2>3, <2>4, GotoMoves
<1>10. CASE \E m \in Models : FailOver(r, m)
  <2>1. now' = now
    BY <1>10 DEF FailOver
  <2> QED BY <1>10, <2>1, FailOverMoves DEF Handler, Becomes
<1> QED BY <1>2, <1>3, <1>4, <1>5, <1>6, <1>7, <1>8, <1>9, <1>10 DEF Handle

\* Past the limiter a handler does not come back.
LEMMA PastIsPast ==
    ASSUME TypeOK, NEW r \in Requests, Handle(r), req[r].pc \in Past
    PROVE  req'[r].pc \in Past
<1>1. \/ Fails(r) \/ Answers(r) \/ StreamEnds(r) \/ Charge(r)
      \/ \E m \in Models : FailOver(r, m)
  BY DEF Handle, Past, Start, CheckDeclarative, ListRules, Consider, ReadBack, CheckUsd,
         CheckTokens, OwnRulesPass, CheckProject, CheckGlobal, CheckBackstop, Gate, Limit
<1>2. CASE \E m \in Models : FailOver(r, m)
  BY <1>2, FailOverMoves, TodoTyped DEF Becomes, Handler, Past
<1>3. CASE Fails(r) \/ Answers(r) \/ StreamEnds(r) \/ Charge(r)
  <2>1. PICK pc \in Past : Goto(r, pc)
    BY <1>3 DEF Fails, Refuse, Answers, StreamEnds, Charge, Past
  <2>2. pc \in Stages
    BY DEF Past, Stages
  <2>3. Becomes(r, [req[r] EXCEPT !.pc = pc])
    BY <2>1, <2>2, GotoMoves
  <2> QED BY <2>2, <2>3, TodoTyped DEF Becomes, Handler
<1> QED BY <1>1, <1>2, <1>3

LEMMA LimitKeepsSessions ==
    ASSUME TypeOK, TypeOK', SessionsTrue, NEW r \in Requests, Limit(r)
    PROVE  SessionsTrue'
<1>1. now' = now /\ req[r].pc = "limits"
  BY DEF Limit
<1>2. ASSUME NEW pc \in {"refused", "calling"}, Goto(r, pc)
      PROVE  \A o \in Requests : /\ req'[o].session = req[o].session
                                 /\ req[o].pc \in Past => req'[o].pc \in Past
  <2>1. pc \in Stages /\ pc \in Past
    BY DEF Stages, Past
  <2>2. Becomes(r, [req[r] EXCEPT !.pc = pc])
    BY <1>2, <2>1, GotoMoves
  <2> QED BY <2>1, <2>2, TodoTyped DEF Becomes, Handler
<1>3. CASE Goto(r, "calling") /\ UNCHANGED buckets
  <2>1. now <= now'
    BY <1>1 DEF TypeOK
  <2> QED BY <1>2, <1>3, <2>1, SessionsUndisturbed
<1>4. ASSUME NEW s \in Profile[r].session,
             Goto(r, "refused"), buckets' = [buckets EXCEPT ![s] = Bucket(s)]
      PROVE  SessionsTrue'
  <2>1. s \in Sessions
    BY AdmissionAssumption DEF Asked, Opt
  <2> QED BY <1>1, <1>2, <1>4, <2>1, TurningAwayKeepsSessions
<1>5. ASSUME NEW s \in Profile[r].session, WithinSession(Bucket(s), Profile[r].tokens),
             req' = [req EXCEPT ![r].pc = "calling", ![r].session = {now}],
             buckets' = [buckets EXCEPT ![s] = Fill(s, Profile[r].tokens)]
      PROVE  SessionsTrue'
  BY <1>1, <1>5, ChargedMoves, ChargingKeepsSessions
<1> QED BY <1>3, <1>4, <1>5 DEF Limit, Refuse

LEMMA StepKeepsSessions == TypeOK /\ TypeOK' /\ SessionsTrue /\ [Next]_vars => SessionsTrue'
<1> SUFFICES ASSUME TypeOK, TypeOK', SessionsTrue, [Next]_vars PROVE SessionsTrue'
  OBVIOUS
<1>1. \A x \in 0..MaxNow : x <= x /\ x <= x + 1
  BY AdmissionAssumption
<1>2. now \in 0..MaxNow
  BY DEF TypeOK
<1>3. CASE UNCHANGED vars
  BY <1>1, <1>2, <1>3, SessionsUndisturbed DEF vars
<1>4. CASE Administer
  <2>1. buckets' = buckets /\ now' = now /\ (req' = req \/ \E ids : Forget(ids))
    BY <1>4 DEF Administer, DraftRule, InsertRule, EditRule, DeleteRule, ResetSpend
  <2> QED BY <1>1, <1>2, <2>1, Forgetting, SessionsUndisturbed DEF Forgotten
<1>5. CASE Tick
  <2>1. buckets' = buckets /\ now' = now + 1 /\ \E ids : Forget(ids)
    BY <1>5 DEF Tick
  <2> QED BY <1>1, <1>2, <2>1, Forgetting, SessionsUndisturbed DEF Forgotten
<1>6. ASSUME NEW r \in Requests, Handle(r), ~Limit(r) PROVE SessionsTrue'
  <2>1. buckets' = buckets
    BY <1>6 DEF Handle, Start, CheckDeclarative, ListRules, Consider, ReadBack, CheckUsd,
                CheckTokens, OwnRulesPass, CheckProject, CheckGlobal, CheckBackstop, Gate,
                Fails, FailOver, Answers, StreamEnds, Charge
  <2>2. now <= now'
    BY <1>1, <1>2, <1>6, HandlerSteps
  <2>3. \A o \in Requests : /\ req'[o].session = req[o].session
                            /\ req[o].pc \in Past => req'[o].pc \in Past
    BY <1>6, HandlerSteps, PastIsPast
  <2> QED BY <2>1, <2>2, <2>3, SessionsUndisturbed
<1> QED BY <1>3, <1>4, <1>5, <1>6, LimitKeepsSessions DEF Next

\* A session's bucket holds what its chats of this window were charged for.
THEOREM SessionsInvariant == Spec => []SessionsTrue
BY NobodyCharged, StepKeepsSessions, AdmissionTypeCorrect, PTL DEF Spec

\* However the steps of requests interleave, no more of them pass a per-minute limit
\* than it says, and a session's chats stay within its requests and tokens
\* (policy.rs, session_limits.rs).
THEOREM RateCeilingHolds == Spec => []RateCeiling
<1>1. TypeOK /\ RatesTrue /\ SessionsTrue => RateCeiling
  <2> SUFFICES ASSUME TypeOK, RatesTrue, SessionsTrue PROVE RateCeiling
    OBVIOUS
  <2>1. ASSUME NEW r \in Requests, NEW p \in req[r].passed
        PROVE  Cardinality(PassedIn(Profile[r].user, p.minute, p.rpm)) <= p.rpm
    <3>1. p.minute \in 0..MaxNow /\ p.rpm \in Nat
      BY <2>1, TodoTyped DEF Handler
    <3>2. Profile[r].user \in Users
      BY AdmissionAssumption DEF Asked
    <3> QED BY <3>1, <3>2 DEF RatesTrue
  <2>2. \A s \in Sessions : \A m \in 0..MaxNow :
            /\ SessionRpm > 0 => Cardinality(Charged(s, m)) <= SessionRpm
            /\ SessionTpm > 0 => Cardinality(TokensOf(Charged(s, m))) <= SessionTpm
    BY DEF SessionsTrue, Used, UsedTokens
  <2> QED BY <2>1, <2>2 DEF RateCeiling
<1> QED BY <1>1, AdmissionTypeCorrect, RatesInvariant, SessionsInvariant, PTL

-----------------------------------------------------------------------------
(* Permits. *)

Held == {"limits", "calling"}

\* A stream has dropped its permit, a handler before it holds one if it has a limit.
PermitsTrue ==
    /\ \A u \in Users :
          /\ \A r \in permits[u] : req[r].pc \in Held /\ Profile[r].user = u
          /\ \A n \in cap[u] : Cardinality(permits[u]) <= n
          /\ cap[u] = {} => permits[u] = {}
    /\ \A r \in Requests :
          req[r].pc \in Held /\ Limited(r) => r \in permits[Profile[r].user]

\* A step that takes no permit, and gives one up where the handler ends.
LEMMA PermitsUndisturbed ==
    ASSUME TypeOK, PermitsTrue, cap' = cap,
           \A u \in Users : /\ permits'[u] \in SUBSET permits[u]
                            /\ \A r \in permits'[u] : req[r].pc \in Held => req'[r].pc \in Held,
           \A r \in Requests : req'[r].pc \in Held =>
                /\ req[r].pc \in Held /\ req'[r].conc = req[r].conc
                /\ r \in permits[Profile[r].user] => r \in permits'[Profile[r].user]
    PROVE  PermitsTrue'
<1>1. ASSUME NEW u \in Users
      PROVE  /\ \A r \in permits'[u] : req'[r].pc \in Held /\ Profile[r].user = u
             /\ \A n \in cap'[u] : Cardinality(permits'[u]) <= n
             /\ cap'[u] = {} => permits'[u] = {}
  <2>1. permits[u] \in SUBSET Requests /\ cap[u] \in Opt(Nat)
    BY DEF TypeOK
  <2>2. Cardinality(permits'[u]) <= Cardinality(permits[u])
    BY <2>1, FewerRequests
  <2>3. Cardinality(permits'[u]) \in Nat /\ Cardinality(permits[u]) \in Nat
    BY <2>1, SomeRequests
  <2>4. \A n \in cap'[u] : n \in Nat /\ Cardinality(permits[u]) <= n
    BY <2>1 DEF PermitsTrue, Opt
  <2>5. \A r \in permits'[u] : req'[r].pc \in Held /\ Profile[r].user = u
    BY DEF PermitsTrue
  <2>6. cap'[u] = {} => permits'[u] = {}
    BY DEF PermitsTrue
  <2> QED BY <2>2, <2>3, <2>4, <2>5, <2>6
<1>2. ASSUME NEW r \in Requests, req'[r].pc \in Held, Limited(r)'
      PROVE  r \in permits'[Profile[r].user]
  <2>1. req[r].pc \in Held /\ Limited(r)
    BY <1>2 DEF Limited
  <2> QED BY <1>2, <2>1 DEF PermitsTrue
<1> QED BY <1>1, <1>2 DEF PermitsTrue

\* A handler that has yet to pass its gate, or has let go of its permit, goes where it
\* likes but there; one that is past it stays.
LEMMA WithoutPermit ==
    ASSUME TypeOK, PermitsTrue, NEW r \in Requests, UNCHANGED <<cap, permits>>,
           \A o \in Requests \ {r} : req'[o] = req[o],
           \/ req[r].pc \notin Held /\ req'[r].pc \notin Held
           \/ req[r].pc \in Held /\ req'[r].pc \in Held /\ req'[r].conc = req[r].conc
    PROVE  PermitsTrue'
<1>1. \A u \in Users : permits[u] \subseteq Requests
  BY DEF TypeOK
<1>2. \A o \in Requests : req'[o].pc \in Held => req[o].pc \in Held /\ req'[o].conc = req[o].conc
  OBVIOUS
<1>3. \A o \in Requests : req[o].pc \in Held => req'[o].pc \in Held
  OBVIOUS
<1> QED BY <1>1, <1>2, <1>3, PermitsUndisturbed

\* A handler that ends lets its permit go.
LEMMA ReleaseKeepsPermits ==
    ASSUME TypeOK, PermitsTrue, NEW r \in Requests, Release(r), cap' = cap,
           req'[r].pc \notin Held, \A o \in Requests \ {r} : req'[o] = req[o]
    PROVE  PermitsTrue'
<1>1. Profile[r].user \in Users
  BY AdmissionAssumption DEF Asked
<1>2. \A u \in Users : permits[u] \subseteq Requests
  BY DEF TypeOK
<1>3. \A u \in Users : permits'[u] = IF u = Profile[r].user THEN permits[u] \ {r} ELSE permits[u]
  BY <1>1 DEF Release, TypeOK
<1>7. \A u \in Users : \A o \in permits[u] : Profile[o].user = u
  BY DEF PermitsTrue
<1>4. \A u \in Users : r \notin permits'[u]
  BY <1>3, <1>7
<1>5. \A o \in Requests : Profile[o].user \in Users
  BY AdmissionAssumption DEF Asked
<1>6. \A o \in Requests : req'[o].pc \in Held =>
        /\ req[o].pc \in Held /\ req'[o].conc = req[o].conc
        /\ o \in permits[Profile[o].user] => o \in permits'[Profile[o].user]
  BY <1>3, <1>5
<1> QED BY <1>2, <1>3, <1>4, <1>6, PermitsUndisturbed

\* A permit is had only while the semaphore, as it was first made, has one left.
LEMMA GateKeepsPermits ==
    ASSUME TypeOK, PermitsTrue, NEW r \in Requests, Gate(r)
    PROVE  PermitsTrue'
<1>1. PICK u \in Users : u = Profile[r].user
  BY AdmissionAssumption DEF Asked
<1>2. \A o \in Requests \ {r} : req'[o] = req[o]
  BY HandlerSteps DEF Handle
<1>3. req[r].pc = "gate"
  BY DEF Gate
<1>4. CASE UNCHANGED <<cap, permits>> /\ Goto(r, "refused")
  <2>1. req'[r].pc = "refused"
    BY <1>4, GotoArrives DEF Stages
  <2> QED BY <1>2, <1>3, <1>4, <2>1, WithoutPermit DEF Held
<1>6. CASE /\ req[r].conc = {} \/ Profile[r].kind = "open"
           /\ UNCHANGED <<cap, permits>> /\ Goto(r, "limits")
  <2>1. req'[r].pc = "limits" /\ req'[r].conc = req[r].conc
    BY <1>6, GotoArrives DEF Stages
  <2>2. ~Limited(r)'
    BY <1>6, <2>1 DEF Limited
  <2>3. \A v \in Users : permits[v] \subseteq Requests
    BY DEF TypeOK
  <2>4. \A o \in Requests \ {r} : Limited(o)' <=> Limited(o)
    BY <1>2 DEF Limited
  <2>5. \A v \in Users : \A o \in permits[v] : o # r /\ req'[o].pc \in Held /\ Profile[o].user = v
    BY <1>2, <1>3, <2>3 DEF PermitsTrue, Held
  <2>6. \A o \in Requests : req'[o].pc \in Held /\ Limited(o)' => o \in permits[Profile[o].user]
    BY <1>2, <2>2, <2>4 DEF PermitsTrue
  <2> QED BY <1>6, <2>5, <2>6 DEF PermitsTrue
<1>5. ASSUME NEW max \in req[r].conc \ {0}, NEW n \in Capacity(u, max),
             cap' = [cap EXCEPT ![u] = Capacity(u, max)],
             IF Cardinality(permits[u]) < n
                THEN permits' = [permits EXCEPT ![u] = @ \cup {r}] /\ Goto(r, "limits")
                ELSE Goto(r, "refused") /\ UNCHANGED permits
      PROVE  PermitsTrue'
  <2>1. max \in Nat /\ cap[u] \in Opt(Nat) /\ permits[u] \in SUBSET Requests
    BY TodoTyped DEF Handler, TypeOK
  <2>2. Capacity(u, max) = {n} /\ n \in Nat
    BY <2>1 DEF Capacity, Opt
  <2>3. cap'[u] = {n} /\ \A v \in Users \ {u} : cap'[v] = cap[v]
    BY <1>5, <2>2 DEF TypeOK
  <2>4. PICK held \in Nat : held = Cardinality(permits[u])
    BY <2>1, SomeRequests
  <2>5. held <= n
    <3>1. CASE cap[u] = {}
      <4>1. permits[u] = {}
        BY <3>1 DEF PermitsTrue
      <4> QED BY <2>2, <2>4, <4>1, FS_EmptySet
    <3>2. CASE cap[u] # {}
      BY <2>2, <2>4, <3>2 DEF PermitsTrue, Capacity
    <3> QED BY <3>1, <3>2
  <2>6. r \notin permits[u]
    BY <1>3 DEF PermitsTrue, Held
  <2>7. \A v \in Users \ {u} : r \notin permits[v] /\ permits[v] \subseteq Requests
    BY <1>1 DEF PermitsTrue, TypeOK
  <2>8. /\ permits'[u] = permits[u] \/ (/\ permits'[u] = permits[u] \cup {r} /\ held < n
                                        /\ req'[r].pc = "limits")
        /\ \A v \in Users \ {u} : permits'[v] = permits[v]
    <3>1. CASE held < n
      <4>1. permits' = [permits EXCEPT ![u] = @ \cup {r}] /\ Goto(r, "limits")
        BY <1>5, <2>4, <3>1
      <4>2. req'[r].pc = "limits"
        BY <4>1, GotoArrives DEF Stages
      <4> QED BY <3>1, <4>1, <4>2 DEF TypeOK
    <3>2. CASE ~(held < n)
      BY <1>5, <2>4, <3>2
    <3> QED BY <3>1, <3>2
  <2>9. Cardinality(permits'[u]) <= n
    <3>1. CASE permits'[u] = permits[u]
      BY <2>4, <2>5, <3>1
    <3>2. CASE permits'[u] = permits[u] \cup {r} /\ held < n
      <4>1. Cardinality(permits[u] \cup {r}) = Cardinality(permits[u]) + 1
        BY <2>1, <2>6, OneMoreRequest
      <4> QED BY <2>2, <2>4, <3>2, <4>1
    <3> QED BY <2>8, <3>1, <3>2
  <2>10. \A v \in Users : \A o \in permits'[v] : req'[o].pc \in Held /\ Profile[o].user = v
    BY <1>1, <1>2, <2>1, <2>6, <2>7, <2>8 DEF PermitsTrue, Held
  <2>11. \A v \in Users \ {u} : /\ \A k \in cap'[v] : Cardinality(permits'[v]) <= k
                                /\ cap'[v] = {} => permits'[v] = {}
    BY <2>3, <2>8 DEF PermitsTrue
  <2>12. req'[r].pc \in Held => r \in permits'[u]
    <3>1. CASE held < n
      BY <1>5, <2>1, <2>4, <3>1 DEF TypeOK
    <3>2. CASE ~(held < n)
      <4>1. req'[r].pc = "refused"
        BY <1>5, <2>4, <3>2, GotoArrives DEF Stages
      <4> QED BY <4>1 DEF Held
    <3> QED BY <3>1, <3>2
  <2>13. \A o \in Requests \ {r} : req'[o].pc \in Held /\ Limited(o)' =>
            o \in permits'[Profile[o].user]
    <3>1. \A o \in Requests : Profile[o].user \in Users
      BY AdmissionAssumption DEF Asked
    <3> QED BY <1>2, <2>8, <3>1 DEF PermitsTrue, Limited
  <2> QED BY <1>1, <2>3, <2>9, <2>10, <2>11, <2>12, <2>13 DEF PermitsTrue
<1> QED BY <1>1, <1>4, <1>5, <1>6 DEF Gate

\* No step but the gate leads into the stages that hold permits.
LEMMA ShortOfLimits ==
    ASSUME TypeOK, NEW r \in Requests,
           \/ Start(r) \/ CheckDeclarative(r) \/ ListRules(r) \/ Consider(r) \/ ReadBack(r)
           \/ CheckUsd(r) \/ CheckTokens(r) \/ OwnRulesPass(r) \/ CheckProject(r)
           \/ CheckGlobal(r) \/ StreamEnds(r) \/ Charge(r)
    PROVE  req'[r].pc \notin {"limits", "calling"}
<1> DEFINE started == [req[r] EXCEPT !.pc = "policy", !.reset = resetAt[Profile[r].user],
                                  !.doomed = DoomedAtStart(r)]
           listed == [req[r] EXCEPT !.pc = "rules", !.todo = OwnRules(r)]
<1>0. req \in [Requests -> Handler] /\ started.pc = "policy" /\ listed.pc = "rules"
  BY DEF TypeOK, Handler
<1>1. CASE Start(r) \/ ListRules(r)
  <2>1. ASSUME Start(r) PROVE req'[r] = started
    BY <2>1, StartMoves DEF Becomes
  <2>2. ASSUME ListRules(r) PROVE req'[r] = listed
    BY <2>2, ListRulesMoves DEF Becomes
  <2> HIDE DEF started, listed
  <2> QED BY <1>0, <1>1, <2>1, <2>2
<1>2. CASE CheckDeclarative(r) \/ OwnRulesPass(r) \/ CheckProject(r) \/ CheckGlobal(r)
           \/ StreamEnds(r) \/ Charge(r)
  <2>1. \E pc \in {"listing", "refused", "gate", "project", "global", "charging", "done"} :
            Goto(r, pc)
    BY <1>2 DEF CheckDeclarative, OwnRulesPass, CheckProject, CheckGlobal, CheckBackstop,
                StreamEnds, Charge
  <2> QED BY <2>1, GotoArrives DEF Stages
<1>3. CASE Consider(r) \/ ReadBack(r) \/ CheckUsd(r) \/ CheckTokens(r)
  <2>1. CASE Consider(r)
    BY <1>0, <2>1 DEF Consider, Goto, Handler
  <2>2. CASE ReadBack(r)
    BY <1>0, <2>2 DEF ReadBack, Goto, Handler
  <2>3. CASE CheckUsd(r)
    BY <1>0, <2>3 DEF CheckUsd, Goto, Handler
  <2>4. CASE CheckTokens(r)
    BY <1>0, <2>4 DEF CheckTokens, Goto, Handler
  <2> QED BY <1>3, <2>1, <2>2, <2>3, <2>4
<1> QED BY <1>1, <1>2, <1>3

LEMMA StepKeepsPermits ==
    TypeOK /\ PermitsTrue /\ [Next]_vars => PermitsTrue'
<1> SUFFICES ASSUME TypeOK, PermitsTrue, [Next]_vars PROVE PermitsTrue'
  OBVIOUS
<1>1. CASE UNCHANGED vars
  BY <1>1 DEF vars, PermitsTrue, Limited
<1>2. CASE Administer \/ Tick
  <2>1. UNCHANGED <<cap, permits>> /\ (req' = req \/ \E ids : Forget(ids))
    BY <1>2 DEF Administer, DraftRule, InsertRule, EditRule, DeleteRule, ResetSpend, Tick
  <2>2. \A r \in Requests : req'[r].pc = req[r].pc /\ req'[r].conc = req[r].conc
    BY <2>1, Forgetting DEF Forgotten
  <2>3. \A u \in Users : permits[u] \subseteq Requests
    BY DEF TypeOK
  <2> QED BY <2>1, <2>2, <2>3, PermitsUndisturbed
<1>3. ASSUME NEW r \in Requests, Handle(r) PROVE PermitsTrue'
  <2>1. \A o \in Requests \ {r} : req'[o] = req[o]
    BY <1>3, HandlerSteps
  <2>2. CASE Fails(r) \/ Answers(r)
    <3>1. Release(r) /\ cap' = cap /\ \E pc \in {"refused", "streaming", "charging"} : Goto(r, pc)
      BY <2>2 DEF Fails, Refuse, Answers
    <3>2. req'[r].pc \in {"refused", "streaming", "charging"}
      BY <3>1, GotoArrives DEF Stages
    <3> QED BY <2>1, <3>1, <3>2, ReleaseKeepsPermits DEF Held
  <2>3. CASE Limit(r)
    <3>1. CASE Refuse(r)
      <4>1. req'[r].pc = "refused"
        BY <3>1, GotoArrives DEF Refuse, Stages
      <4> QED BY <2>1, <2>3, <3>1, <4>1, ReleaseKeepsPermits DEF Limit, Refuse, Held
    <3>2. CASE UNCHANGED permits /\ Goto(r, "calling")
      <4>1. req'[r].pc = "calling" /\ req'[r].conc = req[r].conc
        BY <3>2, GotoArrives DEF Stages
      <4> QED BY <2>1, <2>3, <3>2, <4>1, WithoutPermit DEF Limit, Held
    <3>3. CASE /\ UNCHANGED permits
               /\ req' = [req EXCEPT ![r].pc = "calling", ![r].session = {now}]
      <4>1. req'[r].pc = "calling" /\ req'[r].conc = req[r].conc
        BY <3>3, ChargedMoves, TodoTyped DEF Becomes, Handler
      <4> QED BY <2>1, <2>3, <3>3, <4>1, WithoutPermit DEF Limit, Held
    <3> QED BY <2>3, <3>1, <3>2, <3>3 DEF Limit
  <2>4. CASE \E m \in Models : FailOver(r, m)
    <3>1. UNCHANGED <<cap, permits>> /\ req'[r].pc = req[r].pc
          /\ req'[r].conc = req[r].conc
      BY <2>4, FailOverMoves, TodoTyped DEF FailOver, Becomes, Handler
    <3>2. req[r].pc = "calling"
      BY <2>4 DEF FailOver
    <3> QED BY <2>1, <3>1, <3>2, WithoutPermit DEF Held
  <2>5. CASE Start(r) \/ CheckDeclarative(r) \/ ListRules(r) \/ Consider(r) \/ ReadBack(r)
              \/ CheckUsd(r) \/ CheckTokens(r) \/ OwnRulesPass(r) \/ CheckProject(r)
              \/ CheckGlobal(r) \/ StreamEnds(r) \/ Charge(r)
    <3>1. UNCHANGED <<cap, permits>> /\ req[r].pc \notin Held
      BY <2>5 DEF Start, CheckDeclarative, ListRules, Consider, ReadBack, CheckUsd,
             CheckTokens, OwnRulesPass, CheckProject, CheckGlobal, CheckBackstop,
             StreamEnds, Charge, Held
    <3>2. req'[r].pc \notin Held
      BY <2>5, ShortOfLimits DEF Held
    <3> QED BY <2>1, <3>1, <3>2, WithoutPermit
  <2> QED BY <1>3, <2>2, <2>3, <2>4, <2>5, GateKeepsPermits DEF Handle
<1> QED BY <1>1, <1>2, <1>3 DEF Next

\* A handler past its gate under a limit holds a permit, nobody holds one after it has
\* ended, and there are never more than the semaphore was made with.
THEOREM PermitsAreHandlers == Spec => []PermitsHeldByHandlers
<1>1. Init => PermitsTrue
  BY DEF Init, PermitsTrue, NewHandler, Held
<1>2. PermitsTrue => PermitsHeldByHandlers
  BY DEF PermitsTrue, PermitsHeldByHandlers, Held
<1> QED BY <1>1, <1>2, StepKeepsPermits, AdmissionTypeCorrect, PTL DEF Spec

-----------------------------------------------------------------------------
(* Budgets. *)

\* What would stop a request, with the reset it was loaded with.
ExhaustedFor(q, r) ==
    IF q.scope.kind \in {"project", "global"}
    THEN Exceeded(q.usd, BackstopSpent(q))
    ELSE /\ q.window # "target"
         /\ \/ Exceeded(q.usd, Spent(q.scope, UsdStart(req[r].reset, q.window)))
            \/ Exceeded(q.tokens, Spent(q.scope, EffectiveStart(req[r].reset, q.window)))

\* A rule the request was to be stopped by when it began, and that is unchanged.
Live(q, r) == q \in Applicable(r) /\ q.id \in req[r].doomed

\* Such a rule is ahead of the request still: among its own rules, one whose dollars
\* it has passed is over its tokens; a project's or global one comes after them.
Ahead(q, r) ==
    /\ req[r].pc # "gate"
    /\ q.scope.kind \in {"key", "user"} =>
          /\ req[r].pc \notin {"project", "global"}
          /\ req[r].pc \in {"rules", "counted", "spend", "tokens"} => q \in req[r].todo
          /\ req[r].pc = "tokens" /\ q \in Foremost(req[r].todo) =>
                Exceeded(q.tokens, Spent(q.scope, EffectiveStart(req[r].reset, q.window)))
    /\ q.scope.kind = "project" => req[r].pc # "global"

IdsUnique ==
    /\ \A p, q \in rules : p.id = q.id => p = q
    /\ \A q \in rules : q.id < nextId
    /\ \A r \in Requests : \A i \in req[r].doomed : i < nextId

BudgetsTrue ==
    /\ IdsUnique
    /\ \A r \in Requests :
          /\ ledger[r] # {} => req[r].pc = "done"
          /\ req[r].pc \notin Past => req[r].model = Profile[r].model
    /\ \A r \in Requests : \A q \in rules : Live(q, r) => ExhaustedFor(q, r) /\ Ahead(q, r)

LEMMA NothingDoomed == Init => BudgetsTrue
<1> SUFFICES ASSUME Init PROVE BudgetsTrue
  OBVIOUS
<1>1. \A r \in Requests : /\ req[r].doomed = {} /\ req[r].model = Profile[r].model
                          /\ ledger[r] = {}
  BY DEF Init, NewHandler
<1>2. IdsUnique
  BY <1>1, AdmissionAssumption DEF Init, IdsUnique
<1> QED BY <1>1, <1>2 DEF BudgetsTrue, Live

\* The ledger only grows, and what has been spent with it.
LEMMA SpendingLasts ==
    ASSUME TypeOK, \A r \in Requests : ledger[r] \subseteq ledger'[r],
           NEW scope, NEW since, NEW limit \in Opt(Nat), Exceeded(limit, Spent(scope, since))
    PROVE  Exceeded(limit, Spent(scope, since)')
<1> DEFINE spenders == {r \in Requests : Covers(scope, r) /\ \E t \in ledger[r] : t >= since}
           later == {r \in Requests : Covers(scope, r) /\ \E t \in ledger'[r] : t >= since}
<1>1. Spent(scope, since) = Cardinality(spenders)
  BY DEF Spent
<1>2. Spent(scope, since)' = Cardinality(later)
  BY DEF Spent, Covers
<1>3. spenders \in SUBSET later /\ later \in SUBSET Requests
  OBVIOUS
<1> HIDE DEF spenders, later
<1>4. Cardinality(spenders) <= Cardinality(later)
  BY <1>3, FewerRequests
<1>5. Cardinality(spenders) \in Nat /\ Cardinality(later) \in Nat
  BY <1>3, SomeRequests
<1>6. \A l \in limit : l \in Nat
  BY DEF Opt
<1> QED BY <1>1, <1>2, <1>4, <1>5, <1>6 DEF Exceeded

\* A rule that was exhausted is so until its window closes.
LEMMA ExhaustedLasts ==
    ASSUME TypeOK, \A o \in Requests : ledger[o] \subseteq ledger'[o],
           NEW r \in Requests, NEW q \in Rule, req'[r].reset = req[r].reset,
           WindowStart(q.window)' = WindowStart(q.window)
    PROVE  /\ ExhaustedFor(q, r) => ExhaustedFor(q, r)'
           /\ Exceeded(q.tokens, Spent(q.scope, EffectiveStart(req[r].reset, q.window))) =>
                 Exceeded(q.tokens, Spent(q.scope, EffectiveStart(req[r].reset, q.window)))'
<1>1. q.usd \in Opt(Nat) /\ q.tokens \in Opt(Nat)
  BY DEF Rule
<1> DEFINE usd == UsdStart(req[r].reset, q.window)
           tokens == EffectiveStart(req[r].reset, q.window)
           backstop == IF q.window = "total" THEN 0 ELSE WindowStart(q.window)
<1>2. usd' = usd /\ tokens' = tokens /\ backstop' = backstop
  BY DEF UsdStart, EffectiveStart, Later
<1>3. PICK a, b, c : a = usd /\ b = tokens /\ c = backstop
  OBVIOUS
<1>4. /\ Spent(q.scope, usd) = Spent(q.scope, a) /\ Spent(q.scope, usd)' = Spent(q.scope, a)'
      /\ Spent(q.scope, tokens) = Spent(q.scope, b)
      /\ Spent(q.scope, tokens)' = Spent(q.scope, b)'
      /\ BackstopSpent(q) = Spent(q.scope, c) /\ BackstopSpent(q)' = Spent(q.scope, c)'
  <2> HIDE DEF usd, tokens, backstop
  <2>1. Spent(q.scope, usd) = Spent(q.scope, a) /\ Spent(q.scope, tokens) = Spent(q.scope, b)
    BY <1>3
  <2>2. Spent(q.scope, usd)' = Spent(q.scope, a)' /\ Spent(q.scope, tokens)' = Spent(q.scope, b)'
    BY <1>2, <1>3 DEF Spent, Covers
  <2>3. BackstopSpent(q) = Spent(q.scope, c) /\ BackstopSpent(q)' = Spent(q.scope, c)'
    BY <1>2, <1>3 DEF Spent, Covers, BackstopSpent, backstop
  <2> QED BY <2>1, <2>2, <2>3
<1>5. /\ Exceeded(q.usd, Spent(q.scope, a)) => Exceeded(q.usd, Spent(q.scope, a)')
      /\ Exceeded(q.tokens, Spent(q.scope, b)) => Exceeded(q.tokens, Spent(q.scope, b)')
      /\ Exceeded(q.usd, Spent(q.scope, c)) => Exceeded(q.usd, Spent(q.scope, c)')
  BY <1>1, SpendingLasts
<1>6. /\ Exceeded(q.usd, Spent(q.scope, usd)) => Exceeded(q.usd, Spent(q.scope, usd))'
      /\ Exceeded(q.tokens, Spent(q.scope, tokens)) => Exceeded(q.tokens, Spent(q.scope, tokens))'
      /\ Exceeded(q.usd, BackstopSpent(q)) => Exceeded(q.usd, BackstopSpent(q))'
  <2> HIDE DEF usd, tokens
  <2>1. /\ Exceeded(q.usd, Spent(q.scope, usd)) => Exceeded(q.usd, Spent(q.scope, usd)')
        /\ Exceeded(q.tokens, Spent(q.scope, tokens)) => Exceeded(q.tokens, Spent(q.scope, tokens)')
        /\ Exceeded(q.usd, BackstopSpent(q)) => Exceeded(q.usd, BackstopSpent(q)')
    BY <1>4, <1>5
  <2> QED BY <2>1 DEF Exceeded
<1> QED BY <1>6 DEF ExhaustedFor, usd, tokens

\* What is live stays so only where nothing has changed but what the request has done.
LEMMA BudgetsUndisturbed ==
    ASSUME TypeOK, TypeOK', BudgetsTrue, NEW r \in Requests, NEW q \in rules', Live(q, r)',
           Live(q, r), WindowStart(q.window)' = WindowStart(q.window),
           \A o \in Requests : ledger[o] \subseteq ledger'[o],
           req'[r].reset = req[r].reset, req'[r].pc = req[r].pc, req'[r].todo = req[r].todo
    PROVE  ExhaustedFor(q, r)' /\ Ahead(q, r)'
<1>1. q \in rules /\ q \in Rule
  BY DEF Live, Applicable, TypeOK
<1>2. ExhaustedFor(q, r) /\ Ahead(q, r)
  BY <1>1 DEF BudgetsTrue
<1>3. ExhaustedFor(q, r)'
  BY <1>1, <1>2, ExhaustedLasts
<1>4. Foremost(req[r].todo)' = Foremost(req[r].todo)
  BY DEF Foremost, Before
<1>5. ASSUME req'[r].pc = "tokens", q \in Foremost(req[r].todo)', q.scope.kind \in {"key", "user"}
      PROVE  Exceeded(q.tokens, Spent(q.scope, EffectiveStart(req[r].reset, q.window)))'
  <2>1. Exceeded(q.tokens, Spent(q.scope, EffectiveStart(req[r].reset, q.window)))
    BY <1>2, <1>4, <1>5 DEF Ahead
  <2> QED BY <1>1, <2>1, ExhaustedLasts
<1> QED BY <1>2, <1>3, <1>5 DEF Ahead

\* Administrators, and the clock: what they change is known no more.
LEMMA OutsidersKeepBudgets ==
    ASSUME TypeOK, TypeOK', BudgetsTrue, Administer \/ Tick
    PROVE  BudgetsTrue'
<1>1. /\ ledger' = ledger
      /\ \A r \in Requests : /\ req'[r].pc = req[r].pc /\ req'[r].todo = req[r].todo
                             /\ req'[r].reset = req[r].reset /\ req'[r].model = req[r].model
                             /\ req'[r].doomed \subseteq req[r].doomed
  <2>1. ledger' = ledger /\ (req' = req \/ \E ids : Forget(ids))
    BY DEF Administer, DraftRule, InsertRule, EditRule, DeleteRule, ResetSpend, Tick
  <2> QED BY <2>1, Forgetting DEF Forgotten
<1>2. IdsUnique /\ nextId \in Nat /\ \A q \in rules : q.id \in Nat
  BY DEF BudgetsTrue, TypeOK, Rule
<1>3. \/ rules' \subseteq rules /\ nextId' = nextId /\ now' = now
      \/ /\ now' = now /\ nextId' = nextId + 1 /\ req' = req
         /\ \E q \in Rule : q.id = nextId /\ rules' = rules \cup {q}
      \/ /\ now' = now /\ nextId' = nextId
         /\ \E q \in rules : \E p \in Rule : /\ p.id = q.id /\ rules' = (rules \ {q}) \cup {p}
                                             /\ Forget({q.id})
      \/ /\ rules' = rules /\ nextId' = nextId
         /\ Forget({q.id : q \in {p \in rules :
                                   WindowStart(p.window) # WindowStart(p.window)'}})
  <2>1. CASE Tick
    BY <2>1 DEF Tick
  <2>2. ASSUME NEW a \in Admins, InsertRule(a)
        PROVE  /\ now' = now /\ nextId' = nextId + 1 /\ req' = req
               /\ \E q \in Rule : q.id = nextId /\ rules' = rules \cup {q}
    <3>1. PICK q \in admin[a] : rules' = rules \cup {[q EXCEPT !.id = nextId]}
      BY <2>2 DEF InsertRule
    <3>2. q \in Rule
      BY <2>2 DEF TypeOK, Opt
    <3>3. [q EXCEPT !.id = nextId] \in Rule /\ [q EXCEPT !.id = nextId].id = nextId
      BY <1>2, <3>2 DEF Rule
    <3> QED BY <2>2, <3>1, <3>3 DEF InsertRule
  <2>3. ASSUME NEW q \in rules, NEW usd \in Edits, EditRule(q, usd)
        PROVE  /\ now' = now /\ nextId' = nextId
               /\ \E p \in Rule : /\ p.id = q.id /\ rules' = (rules \ {q}) \cup {p}
                                  /\ Forget({q.id})
    <3>1. q \in Rule /\ {usd} \in Opt(Nat)
      BY AdmissionAssumption, OptOfOne DEF TypeOK
    <3>2. [q EXCEPT !.usd = {usd}] \in Rule /\ [q EXCEPT !.usd = {usd}].id = q.id
      BY <3>1 DEF Rule
    <3> QED BY <2>3, <3>2 DEF EditRule
  <2>4. CASE \/ \E a \in Admins, q \in NewRules : DraftRule(a, q)
             \/ \E q \in rules : DeleteRule(q)
             \/ \E u \in Users : ResetSpend(u)
    BY <2>4 DEF DraftRule, DeleteRule, ResetSpend
  <2> QED BY <2>1, <2>2, <2>3, <2>4 DEF Administer
<1>4. IdsUnique'
  <2>1. CASE nextId' = nextId /\ rules' \subseteq rules
    BY <1>1, <1>2, <2>1 DEF IdsUnique
  <2>2. CASE /\ nextId' = nextId + 1 /\ req' = req
             /\ \E q \in Rule : q.id = nextId /\ rules' = rules \cup {q}
    <3>1. PICK q \in Rule : q.id = nextId /\ rules' = rules \cup {q}
      BY <2>2
    <3>2. \A r \in Requests : \A i \in req[r].doomed : i \in Nat
      BY TodoTyped DEF Handler
    <3> QED BY <1>2, <2>2, <3>1, <3>2 DEF IdsUnique
  <2>3. CASE /\ nextId' = nextId
             /\ \E q \in rules : \E p \in Rule : p.id = q.id /\ rules' = (rules \ {q}) \cup {p}
    BY <1>1, <1>2, <2>3 DEF IdsUnique
  <2> QED BY <1>3, <2>1, <2>2, <2>3
<1>5. ASSUME NEW r \in Requests, NEW q \in rules', Live(q, r)'
      PROVE  Live(q, r) /\ WindowStart(q.window)' = WindowStart(q.window)
  <2>1. q.id \in req'[r].doomed /\ q.id \in req[r].doomed
    BY <1>1, <1>5 DEF Live
  <2>2. q \in rules /\ WindowStart(q.window)' = WindowStart(q.window)
    <3>1. now' = now => WindowStart(q.window)' = WindowStart(q.window)
      BY DEF WindowStart
    <3>2. ASSUME NEW n \in Rule, n.id = nextId, rules' = rules \cup {n}
          PROVE  q \in rules
      BY <1>2, <2>1, <3>2 DEF IdsUnique
    <3>3. ASSUME NEW p \in Rule, NEW z \in rules, p.id = z.id,
                 rules' = (rules \ {z}) \cup {p}, Forget({z.id})
          PROVE  q \in rules
      <4>1. q.id # z.id
        BY <2>1, <3>3, Forgetting DEF Forgotten
      <4> QED BY <3>3, <4>1
    <3>4. ASSUME rules' = rules,
                 Forget({z.id : z \in {p \in rules :
                                   WindowStart(p.window) # WindowStart(p.window)'}})
          PROVE  q \in rules /\ WindowStart(q.window)' = WindowStart(q.window)
      <4> DEFINE closed == {p \in rules : WindowStart(p.window) # WindowStart(p.window)'}
      <4>1. q \in rules
        BY <3>4
      <4>2. Forget({z.id : z \in closed})
        BY <3>4
      <4>3. q.id \notin {z.id : z \in closed}
        <5> HIDE DEF closed
        <5> QED BY <2>1, <4>2, Forgetting DEF Forgotten
      <4>4. q \notin closed
        BY <4>3
      <4> QED BY <4>1, <4>4
    <3> QED BY <1>3, <3>1, <3>2, <3>3, <3>4
  <2> QED BY <1>5, <2>1, <2>2 DEF Live, Applicable
<1>6. ASSUME NEW r \in Requests, NEW q \in rules', Live(q, r)'
      PROVE  ExhaustedFor(q, r)' /\ Ahead(q, r)'
  BY <1>1, <1>5, <1>6, BudgetsUndisturbed
<1> QED BY <1>1, <1>4, <1>6 DEF BudgetsTrue

\* A request begins: what is exhausted now is doomed, and ahead.
LEMMA StartKeepsBudgets ==
    ASSUME TypeOK, BudgetsTrue, NEW r \in Requests, Start(r), NEW q \in rules, Live(q, r)'
    PROVE  ExhaustedFor(q, r)' /\ Ahead(q, r)'
<1>1. /\ req'[r].pc = "policy" /\ req'[r].reset = resetAt[Profile[r].user]
      /\ req'[r].doomed = DoomedAtStart(r)
  <2>1. PICK reset, doomed : reset = resetAt[Profile[r].user] /\ doomed = DoomedAtStart(r)
    OBVIOUS
  <2>2. req'[r] = [req[r] EXCEPT !.pc = "policy", !.reset = reset, !.doomed = doomed]
    BY <2>1, StartMoves DEF Becomes
  <2> QED BY <2>1, <2>2, TodoTyped DEF Handler
<1>2. PICK p \in Applicable(r) : p.id = q.id /\ Exhausted(p, r)
  BY <1>1 DEF Live, DoomedAtStart
<1>3. p = q
  BY <1>2 DEF Applicable, BudgetsTrue, IdsUnique
<1>4. UNCHANGED <<rules, ledger, now>>
  BY DEF Start
<1>5. /\ \A w : WindowStart(w)' = WindowStart(w)
      /\ \A scope, since : Spent(scope, since)' = Spent(scope, since)
  BY <1>4 DEF WindowStart, Spent, Covers
<1> DEFINE reset == resetAt[Profile[r].user]
<1>6. PICK n : n = reset
  OBVIOUS
<1>7. /\ Spent(q.scope, UsdStart(req[r].reset, q.window))' = Spent(q.scope, UsdStart(n, q.window))
      /\ Spent(q.scope, EffectiveStart(req[r].reset, q.window))'
            = Spent(q.scope, EffectiveStart(n, q.window))
      /\ BackstopSpent(q)' = BackstopSpent(q)
  <2>1. /\ UsdStart(req[r].reset, q.window)' = UsdStart(n, q.window)
        /\ EffectiveStart(req[r].reset, q.window)' = EffectiveStart(n, q.window)
    BY <1>1, <1>5, <1>6 DEF UsdStart, EffectiveStart, Later
  <2>2. PICK a, b : a = UsdStart(n, q.window) /\ b = EffectiveStart(n, q.window)
    OBVIOUS
  <2>3. /\ Spent(q.scope, UsdStart(req[r].reset, q.window))' = Spent(q.scope, a)'
        /\ Spent(q.scope, EffectiveStart(req[r].reset, q.window))' = Spent(q.scope, b)'
    BY <2>1, <2>2 DEF Spent, Covers
  <2>4. PICK c : c = IF q.window = "total" THEN 0 ELSE WindowStart(q.window)
    OBVIOUS
  <2>5. BackstopSpent(q)' = Spent(q.scope, c)' /\ BackstopSpent(q) = Spent(q.scope, c)
    BY <1>5, <2>4 DEF BackstopSpent, Spent, Covers
  <2> QED BY <1>5, <2>2, <2>3, <2>5
<1>8. Exhausted(q, r) => ExhaustedFor(q, r)'
  <2> HIDE DEF reset
  <2>1. \A limit, x : Exceeded(limit, x)' = Exceeded(limit, x)
    BY DEF Exceeded
  <2>2. /\ Exceeded(q.usd, Spent(q.scope, UsdStart(req[r].reset, q.window)))'
              = Exceeded(q.usd, Spent(q.scope, UsdStart(n, q.window)))
        /\ Exceeded(q.tokens, Spent(q.scope, EffectiveStart(req[r].reset, q.window)))'
              = Exceeded(q.tokens, Spent(q.scope, EffectiveStart(n, q.window)))
        /\ Exceeded(q.usd, BackstopSpent(q))' = Exceeded(q.usd, BackstopSpent(q))
    BY <1>7 DEF Exceeded
  <2>3. Exhausted(q, r) = (IF q.scope.kind \in {"project", "global"}
            THEN Exceeded(q.usd, BackstopSpent(q))
            ELSE /\ q.window # "target"
                 /\ \/ Exceeded(q.usd, Spent(q.scope, UsdStart(n, q.window)))
                    \/ Exceeded(q.tokens, Spent(q.scope, EffectiveStart(n, q.window))))
    BY <1>6 DEF Exhausted, reset
  <2> QED BY <2>2, <2>3 DEF ExhaustedFor
<1> QED BY <1>1, <1>2, <1>3, <1>8 DEF Ahead

\* Two rules cannot both be the foremost of a request's own.
LEMMA OneForemost ==
    ASSUME NEW S \in SUBSET Rule, NEW p \in Foremost(S), NEW q \in Foremost(S)
    PROVE  p = q
<1>1. p.id \in Nat /\ q.id \in Nat /\ p \in S /\ q \in S
  BY DEF Foremost, Rule
<1>2. p # q => Before(p, q) /\ Before(q, p)
  BY DEF Foremost
<1> QED BY <1>1, <1>2 DEF Before

\* On its way to the gate a request passes no rule that would have stopped it.
LEMMA ChecksKeepAhead ==
    ASSUME TypeOK, BudgetsTrue, NEW r \in Requests, NEW q \in rules, Live(q, r),
           Handle(r), ~Start(r), \A o \in Requests : ledger[o] \subseteq ledger'[o]
    PROVE  Ahead(q, r)'
<1>1. ExhaustedFor(q, r) /\ Ahead(q, r) /\ q \in Rule /\ Covers(q.scope, r)
  BY DEF BudgetsTrue, TypeOK, Live, Applicable
<1>2. req[r].pc \notin Past => Matching(r, req[r].model) = {}
  BY DEF BudgetsTrue, Live, Applicable
<1>3. q.scope.kind \in {"key", "user"} => q \in OwnRules(r) /\ q.window # "target"
  BY <1>1 DEF OwnRules, InScope, ExhaustedFor
<1>4. now' = now /\ req'[r].reset = req[r].reset
  BY HandlerSteps
<1>5. WindowStart(q.window)' = WindowStart(q.window)
  BY <1>4 DEF WindowStart
<1>6. Exceeded(q.tokens, Spent(q.scope, EffectiveStart(req[r].reset, q.window))) =>
         Exceeded(q.tokens, Spent(q.scope, EffectiveStart(req[r].reset, q.window)))'
  BY <1>1, <1>4, <1>5, ExhaustedLasts
<1>7. CASE req'[r].pc \in Past \cup {"policy", "listing", "limits"}
  BY <1>7 DEF Ahead, Past
<1>8. CASE CheckDeclarative(r)
  <2>1. \E pc \in {"listing", "refused"} : Goto(r, pc)
    <3>1. req[r].pc = "policy"
      BY <1>8 DEF CheckDeclarative
    <3> QED BY <1>2, <1>8, <3>1 DEF CheckDeclarative, Past
  <2> QED BY <1>7, <2>1, GotoArrives DEF Stages, Past
<1>9. CASE ListRules(r)
  <2>1. req'[r].pc = "rules" /\ req'[r].todo = OwnRules(r)
    BY <1>9, ListRulesMoves, TodoTyped DEF Becomes, Handler
  <2> QED BY <1>3, <2>1 DEF Ahead
<1>10. CASE Consider(r)
  <2>1. PICK p \in Foremost(req[r].todo) :
           \/ /\ p.window = "target"
              /\ Becomes(r, [req[r] EXCEPT !.todo = @ \ {p}])
           \/ \E pc \in {"refused", "spend"} : Becomes(r, [req[r] EXCEPT !.pc = pc])
           \/ Becomes(r, [req[r] EXCEPT !.pc = "counted", !.minute = now,
                                        !.counted = @ \cup {[minute |-> now, rule |-> p.id]}])
    BY <1>10, ConsiderMoves
  <2>2. req[r].pc = "rules"
    BY <1>10 DEF Consider
  <2>3. \/ req'[r].pc = "rules" /\ req'[r].todo = req[r].todo \ {p} /\ p.window = "target"
        \/ req'[r].pc \in {"refused", "spend", "counted"} /\ req'[r].todo = req[r].todo
    <3>1. CASE p.window = "target" /\ Becomes(r, [req[r] EXCEPT !.todo = @ \ {p}])
      BY <2>2, <3>1, TodoTyped DEF Becomes, Handler
    <3>2. ASSUME NEW pc \in {"refused", "spend"}, Becomes(r, [req[r] EXCEPT !.pc = pc])
          PROVE  req'[r].pc = pc /\ req'[r].todo = req[r].todo
      BY <3>2, TodoTyped DEF Becomes, Handler
    <3>3. CASE Becomes(r, [req[r] EXCEPT !.pc = "counted", !.minute = now,
                                         !.counted = @ \cup {[minute |-> now, rule |-> p.id]}])
      BY <3>3, TodoTyped DEF Becomes, Handler
    <3> QED BY <2>1, <3>1, <3>2, <3>3
  <2> QED BY <1>1, <1>3, <2>2, <2>3 DEF Ahead
<1>11. CASE ReadBack(r)
  <2>1. req[r].pc = "counted" /\ req'[r].todo = req[r].todo
    BY <1>11, HandlerSteps DEF ReadBack, ListRules, Consider, CheckTokens
  <2>2. req'[r].pc \in {"refused", "spend"}
    <3>1. ASSUME NEW rpm \in Nat,
                 Becomes(r, [req[r] EXCEPT !.pc = "spend",
                              !.passed = @ \cup {[minute |-> req[r].minute, rpm |-> rpm]}])
          PROVE  req'[r].pc = "spend"
      BY <3>1, TodoTyped DEF Becomes, Handler
    <3>2. Becomes(r, [req[r] EXCEPT !.pc = "refused"]) => req'[r].pc = "refused"
      BY TodoTyped DEF Becomes, Handler
    <3> QED BY <1>11, <3>1, <3>2, ReadBackMoves
  <2> QED BY <1>1, <2>1, <2>2 DEF Ahead
<1>12. CASE CheckUsd(r)
  <2>1. PICK p \in Foremost(req[r].todo) :
           \/ Becomes(r, [req[r] EXCEPT !.pc = "refused"])
           \/ /\ ~Exceeded(p.usd, Spent(p.scope, UsdStart(req[r].reset, p.window)))
              /\ \E conc \in Opt(Nat) :
                    Becomes(r, [req[r] EXCEPT !.pc = "tokens", !.conc = conc])
    BY <1>12, CheckUsdMoves
  <2>2. req[r].pc = "spend" /\ req'[r].todo = req[r].todo
    BY <1>12, HandlerSteps DEF CheckUsd, ListRules, Consider, CheckTokens
  <2>3. CASE Becomes(r, [req[r] EXCEPT !.pc = "refused"])
    <3>1. req'[r].pc = "refused"
      BY <2>3, TodoTyped DEF Becomes, Handler
    <3> QED BY <1>7, <3>1 DEF Past
  <2>4. CASE /\ ~Exceeded(p.usd, Spent(p.scope, UsdStart(req[r].reset, p.window)))
             /\ \E conc \in Opt(Nat) :
                    Becomes(r, [req[r] EXCEPT !.pc = "tokens", !.conc = conc])
    <3>1. req'[r].pc = "tokens"
      BY <2>4, TodoTyped DEF Becomes, Handler
    <3>2. ASSUME q.scope.kind \in {"key", "user"}, q \in Foremost(req[r].todo)'
          PROVE  Exceeded(q.tokens, Spent(q.scope, EffectiveStart(req[r].reset, q.window)))'
      <4>1. q \in Foremost(req[r].todo)
        BY <2>2, <3>2 DEF Foremost, Before
      <4>2. p = q
        BY <4>1, OneForemost, TodoTyped
      <4>3. Exceeded(q.tokens, Spent(q.scope, EffectiveStart(req[r].reset, q.window)))
        BY <1>1, <2>4, <3>2, <4>2 DEF ExhaustedFor
      <4> QED BY <1>6, <4>3
    <3>3. q.scope.kind \in {"key", "user"} => q \in req[r].todo
      BY <1>1, <2>2 DEF Ahead
    <3> QED BY <2>2, <3>1, <3>2, <3>3 DEF Ahead
  <2> QED BY <2>1, <2>3, <2>4
<1>13. CASE CheckTokens(r)
  <2>1. PICK p \in Foremost(req[r].todo) :
           \/ Becomes(r, [req[r] EXCEPT !.pc = "refused"])
           \/ /\ ~Exceeded(p.tokens, Spent(p.scope, EffectiveStart(req[r].reset, p.window)))
              /\ Becomes(r, [req[r] EXCEPT !.pc = "rules", !.todo = @ \ {p}])
    BY <1>13, CheckTokensMoves
  <2>2. req[r].pc = "tokens"
    BY <1>13 DEF CheckTokens
  <2>3. CASE Becomes(r, [req[r] EXCEPT !.pc = "refused"])
    <3>1. req'[r].pc = "refused"
      BY <2>3, TodoTyped DEF Becomes, Handler
    <3> QED BY <1>7, <3>1 DEF Past
  <2>4. CASE /\ ~Exceeded(p.tokens, Spent(p.scope, EffectiveStart(req[r].reset, p.window)))
             /\ Becomes(r, [req[r] EXCEPT !.pc = "rules", !.todo = @ \ {p}])
    <3>1. req'[r].pc = "rules" /\ req'[r].todo = req[r].todo \ {p}
      BY <2>4, TodoTyped DEF Becomes, Handler
    <3>2. q.scope.kind \in {"key", "user"} => q # p
      BY <1>1, <2>2, <2>4 DEF Ahead
    <3> QED BY <1>1, <2>2, <3>1, <3>2 DEF Ahead
  <2> QED BY <2>1, <2>3, <2>4
<1>14. CASE OwnRulesPass(r)
  <2>1. req[r].pc = "rules" /\ req[r].todo = {} /\ req'[r].pc = "project"
    BY <1>14, GotoArrives DEF OwnRulesPass, Stages
  <2> QED BY <1>1, <2>1 DEF Ahead
<1>15. CASE CheckProject(r)
  <2>1. req[r].pc = "project"
    BY <1>15 DEF CheckProject, CheckBackstop
  <2>2. CASE q.scope.kind = "project"
    <3>1. Goto(r, "refused")
      BY <1>1, <1>15, <2>2 DEF CheckProject, CheckBackstop, InScope, ExhaustedFor
    <3>2. req'[r].pc = "refused"
      BY <3>1, GotoArrives DEF Stages
    <3> QED BY <1>7, <3>2 DEF Past
  <2>3. CASE q.scope.kind # "project"
    <3>1. \E pc \in {"refused", "global"} : Goto(r, pc)
      BY <1>15 DEF CheckProject, CheckBackstop
    <3>2. req'[r].pc \in {"refused", "global"}
      BY <3>1, GotoArrives DEF Stages
    <3> QED BY <1>1, <2>1, <2>3, <3>2 DEF Ahead
  <2> QED BY <2>2, <2>3
<1>16. CASE CheckGlobal(r)
  <2>1. req[r].pc = "global"
    BY <1>16 DEF CheckGlobal, CheckBackstop
  <2>2. q.scope.kind = "global"
    BY <1>1, <2>1 DEF Ahead, Rule, Scope
  <2>3. Goto(r, "refused")
    BY <1>1, <1>16, <2>2 DEF CheckGlobal, CheckBackstop, InScope, ExhaustedFor
  <2>4. req'[r].pc = "refused"
    BY <2>3, GotoArrives DEF Stages
  <2> QED BY <1>7, <2>4 DEF Past
<1>17. CASE Gate(r)
  BY <1>1, <1>17 DEF Gate, Ahead
<1>18. CASE Limit(r) \/ Fails(r) \/ (\E m \in Models : FailOver(r, m)) \/ Answers(r)
             \/ StreamEnds(r) \/ Charge(r)
  <2>1. req[r].pc \in Past \cup {"limits"}
    BY <1>18 DEF Limit, Fails, FailOver, Answers, StreamEnds, Charge, Past
  <2>2. CASE req[r].pc \in Past
    BY <1>7, <2>2, PastIsPast
  <2>3. CASE Limit(r) \/ (Fails(r) /\ req[r].pc = "limits")
    <3>1. \/ \E pc \in {"refused", "calling"} : Goto(r, pc)
          \/ req' = [req EXCEPT ![r].pc = "calling", ![r].session = {now}]
      BY <2>3 DEF Limit, Fails, Refuse
    <3>2. CASE req' = [req EXCEPT ![r].pc = "calling", ![r].session = {now}]
      <4>1. req'[r].pc = "calling"
        BY <3>2, ChargedMoves, TodoTyped DEF Handler, Becomes
      <4> QED BY <1>7, <4>1 DEF Past
    <3>3. CASE \E pc \in {"refused", "calling"} : Goto(r, pc)
      BY <1>7, <3>3, GotoArrives DEF Stages, Past
    <3> QED BY <3>1, <3>2, <3>3
  <2> QED BY <1>18, <2>1, <2>2, <2>3 DEF FailOver, Answers, StreamEnds, Charge, Past
<1> QED BY <1>8, <1>9, <1>10, <1>11, <1>12, <1>13, <1>14, <1>15, <1>16, <1>17, <1>18 DEF Handle

LEMMA HandlersKeepBudgets ==
    ASSUME TypeOK, TypeOK', BudgetsTrue, NEW r \in Requests, Handle(r)
    PROVE  BudgetsTrue'
<1>1. UNCHANGED <<rules, nextId>> /\ (ledger' = ledger \/ Charge(r))
  BY DEF Handle, Start, CheckDeclarative, ListRules, Consider, ReadBack, CheckUsd,
         CheckTokens, OwnRulesPass, CheckProject, CheckGlobal, CheckBackstop, Gate, Limit,
         Fails, FailOver, Answers, StreamEnds, Charge
<1>2. req[r].pc # "done" /\ (Charge(r) => req[r].pc = "charging" /\ req'[r].pc = "done")
  <2>1. req[r].pc # "done" /\ (Charge(r) => req[r].pc = "charging" /\ Goto(r, "done"))
    BY DEF Handle, Start, CheckDeclarative, ListRules, Consider, ReadBack, CheckUsd,
           CheckTokens, OwnRulesPass, CheckProject, CheckGlobal, CheckBackstop, Gate, Limit,
           Fails, FailOver, Answers, StreamEnds, Charge
  <2> QED BY <2>1, GotoArrives DEF Stages
<1>3. ledger[r] = {}
  BY <1>2 DEF BudgetsTrue
<1>4. \A o \in Requests : ledger[o] \subseteq ledger'[o]
  BY <1>1, <1>3 DEF Charge, TypeOK
<1>5. \A o \in Requests \ {r} : req'[o] = req[o]
  BY HandlerSteps
<1>6. \A o \in Requests : ledger'[o] # {} => req'[o].pc = "done"
  <2>1. ASSUME NEW o \in Requests, o # r
        PROVE  ledger'[o] = ledger[o] /\ req'[o] = req[o]
    BY <1>1, <1>5, <2>1 DEF Charge, TypeOK
  <2> QED BY <1>1, <1>2, <1>3, <2>1 DEF BudgetsTrue
<1>7. \A o \in Requests : req'[o].pc \notin Past => req'[o].model = Profile[o].model
  <2>1. ASSUME NEW m \in Models, FailOver(r, m)
        PROVE  req[r].pc \in Past
    BY <2>1 DEF FailOver, Past
  <2>2. req'[r].pc \notin Past => req[r].pc \notin Past /\ req'[r].model = req[r].model
    BY <2>1, PastIsPast, HandlerSteps
  <2> QED BY <1>5, <2>2 DEF BudgetsTrue
<1>8. IdsUnique'
  <2>1. req'[r].doomed = req[r].doomed \/ req'[r].doomed = DoomedAtStart(r)
    BY StartMoves, HandlerSteps, TodoTyped DEF Becomes, Handler
  <2>2. \A i \in DoomedAtStart(r) : i < nextId
    BY DEF DoomedAtStart, Applicable, BudgetsTrue, IdsUnique
  <2> QED BY <1>1, <1>5, <2>1, <2>2 DEF BudgetsTrue, IdsUnique
<1>9. \A w : WindowStart(w)' = WindowStart(w)
  BY HandlerSteps DEF WindowStart
<1>10. ASSUME NEW o \in Requests, o # r, NEW q \in rules, Live(q, o)'
       PROVE  ExhaustedFor(q, o)' /\ Ahead(q, o)'
  <2>1. Live(q, o)
    BY <1>1, <1>5, <1>10 DEF Live, Applicable
  <2> QED BY <1>1, <1>4, <1>5, <1>9, <1>10, <2>1, BudgetsUndisturbed
<1>11. ASSUME NEW q \in rules, Live(q, r)', ~Start(r)
       PROVE  ExhaustedFor(q, r)' /\ Ahead(q, r)'
  <2>1. Live(q, r) /\ req'[r].reset = req[r].reset
    BY <1>1, <1>11, HandlerSteps DEF Live, Applicable
  <2>2. ExhaustedFor(q, r) /\ q \in Rule
    BY <2>1 DEF BudgetsTrue, TypeOK
  <2> QED BY <1>4, <1>9, <1>11, <2>1, <2>2, ExhaustedLasts, ChecksKeepAhead
<1> QED BY <1>1, <1>6, <1>7, <1>8, <1>10, <1>11, StartKeepsBudgets DEF BudgetsTrue

LEMMA StepKeepsBudgets == TypeOK /\ TypeOK' /\ BudgetsTrue /\ [Next]_vars => BudgetsTrue'
<1> SUFFICES ASSUME TypeOK, TypeOK', BudgetsTrue, [Next]_vars PROVE BudgetsTrue'
  OBVIOUS
<1>1. CASE UNCHANGED vars
  <2>1. UNCHANGED <<req, rules, nextId, ledger, now>>
    BY <1>1 DEF vars
  <2>2. IdsUnique'
    BY <2>1 DEF BudgetsTrue, IdsUnique
  <2>3. \A w : WindowStart(w)' = WindowStart(w)
    BY <2>1 DEF WindowStart
  <2>4. ASSUME NEW r \in Requests, NEW q \in rules', Live(q, r)'
        PROVE  ExhaustedFor(q, r)' /\ Ahead(q, r)'
    <3>1. Live(q, r)
      BY <2>1, <2>4 DEF Live, Applicable
    <3> QED BY <2>1, <2>3, <2>4, <3>1, BudgetsUndisturbed
  <2> QED BY <2>1, <2>2, <2>4 DEF BudgetsTrue
<1> QED BY <1>1, OutsidersKeepBudgets, HandlersKeepBudgets DEF Next

\* Whoever began while a budget was used up has its rule still to come, as long as
\* the budget stays so.
THEOREM BudgetsInvariant == Spec => []BudgetsTrue
BY NothingDoomed, StepKeepsBudgets, AdmissionTypeCorrect, PTL DEF Spec

\* A request that begins when a budget of its key, user or project, or the global one,
\* is used up never reaches a provider while that lasts.
THEOREM ExhaustedBudgetsStop == Spec => ExhaustedStaysShut
<1> DEFINE Shut == \A r \in Requests : LetThrough(r) => ~StillExhausted(r)
<1>1. TypeOK /\ BudgetsTrue /\ [Next]_vars => [Shut]_vars
  <2> SUFFICES ASSUME TypeOK, BudgetsTrue, Next, NEW r \in Requests, LetThrough(r)
               PROVE  ~StillExhausted(r)
    OBVIOUS
  <2>1. req[r].pc # "limits" /\ req'[r].pc = "limits"
    BY DEF LetThrough
  <2>2. ASSUME Administer \/ Tick PROVE FALSE
    <3>1. req' = req \/ \E ids : Forget(ids)
      BY <2>2 DEF Administer, DraftRule, InsertRule, EditRule, DeleteRule, ResetSpend, Tick
    <3> QED BY <2>1, <3>1, Forgetting DEF Forgotten
  <2>3. Handle(r)
    BY <2>1, <2>2, HandlerSteps DEF Next
  <2>4. req[r].pc = "gate"
    <3>1. req[r].pc \notin Past
      BY <2>1, <2>3, PastIsPast DEF Past
    <3>2. CASE Start(r) \/ ListRules(r)
      BY <2>1, <3>2, StartMoves, ListRulesMoves, TodoTyped DEF Becomes, Handler
    <3>3. CASE CheckDeclarative(r) \/ OwnRulesPass(r) \/ CheckProject(r) \/ CheckGlobal(r)
      <4>1. \E pc \in {"listing", "refused", "gate", "project", "global"} : Goto(r, pc)
        BY <3>3 DEF CheckDeclarative, OwnRulesPass, CheckProject, CheckGlobal, CheckBackstop
      <4> QED BY <2>1, <4>1, GotoArrives DEF Stages
    <3>4. CASE Consider(r) \/ ReadBack(r) \/ CheckUsd(r) \/ CheckTokens(r)
      <4>1. req'[r].pc # "limits"
        BY <3>4, TodoTyped DEF TypeOK, Consider, ReadBack, CheckUsd, CheckTokens, Goto, Handler
      <4> QED BY <2>1, <4>1
    <3> QED BY <2>1, <2>3, <3>1, <3>2, <3>3, <3>4
            DEF Handle, Gate, Limit, Fails, FailOver, Answers, StreamEnds, Charge, Past
  <2>5. ASSUME NEW q \in rules, Live(q, r) PROVE FALSE
    BY <2>4, <2>5 DEF BudgetsTrue, Ahead
  <2> QED BY <2>5 DEF StillExhausted, Live, Applicable
<1> HIDE DEF Shut
<1>2. Spec => [][Shut]_vars
  BY <1>1, AdmissionTypeCorrect, BudgetsInvariant, PTL DEF Spec
<1> QED BY <1>2 DEF Shut, ExhaustedStaysShut

-----------------------------------------------------------------------------
(* Whom a per-minute limit turns away. *)

\* The rules a handler has not begun to look at.
Unseen(h) == IF h.pc = "rules" THEN h.todo ELSE h.todo \ Foremost(h.todo)

\* A handler is counted once for each rule: those to come have not counted it.
CountsOnce(h) ==
    /\ \A p, q \in h.todo : p.id = q.id => p = q
    /\ h.pc \in {"new", "policy", "listing"} => h.counted = {}
    /\ h.pc \in {"rules", "counted", "spend", "tokens"} =>
          \A q \in Unseen(h) : \A c \in h.counted : c.rule # q.id

\* So a counter holds no more than the counts that were really made.
LimitsTrue ==
    /\ \A r \in Requests : CountsOnce(req[r])
    /\ \A u \in Users, m \in 0..MaxNow :
          IsFiniteSet(Countings(u, m)) /\ counts[u][m] <= Cardinality(Countings(u, m))

LEMMA CountingsAre ==
    ASSUME NEW u, NEW m, NEW x
    PROVE  x \in Countings(u, m) <=>
              \E r \in Requests : \E c \in req[r].counted :
                  Profile[r].user = u /\ c.minute = m /\ x = <<r, c>>
BY DEF Countings

LEMMA LimitsAtFirst == Init => LimitsTrue
<1> SUFFICES ASSUME Init PROVE LimitsTrue
  OBVIOUS
<1>1. \A r \in Requests : req[r].pc = "new" /\ req[r].todo = {} /\ req[r].counted = {}
  BY DEF Init, NewHandler
<1>2. ASSUME NEW r \in Requests PROVE CountsOnce(req[r])
  BY <1>1 DEF CountsOnce
<1>3. ASSUME NEW u \in Users, NEW m \in 0..MaxNow
      PROVE  IsFiniteSet(Countings(u, m)) /\ counts[u][m] <= Cardinality(Countings(u, m))
  <2>1. counts[u][m] = 0
    BY DEF Init
  <2>2. Countings(u, m) = {}
    BY <1>1, CountingsAre
  <2>3. IsFiniteSet({}) /\ Cardinality({}) = 0
    BY FS_EmptySet
  <2> QED BY <2>1, <2>2, <2>3
<1> QED BY <1>2, <1>3 DEF LimitsTrue

\* Past the loop a handler is counted no more.
Beyond == {"project", "global", "gate", "limits", "calling", "streaming", "charging", "done",
           "refused"}

LEMMA BeyondCountsOnce ==
    ASSUME NEW h, NEW g, CountsOnce(h), g.pc \in Beyond, g.todo = h.todo
    PROVE  CountsOnce(g)
BY DEF CountsOnce, Beyond

\* The stages the steps that only change the stage lead to.
LEMMA StagesLead ==
    ASSUME TypeOK, NEW r \in Requests,
           CheckDeclarative(r) \/ OwnRulesPass(r) \/ CheckProject(r) \/ CheckGlobal(r)
               \/ Gate(r) \/ Fails(r) \/ Answers(r) \/ StreamEnds(r) \/ Charge(r)
    PROVE  /\ req'[r].pc \in Beyond \/ (req[r].pc = "policy" /\ req'[r].pc = "listing")
           /\ req'[r].todo = req[r].todo /\ req'[r].counted = req[r].counted
<1>1. PICK pc \in Stages : /\ pc \in Beyond \/ (req[r].pc = "policy" /\ pc = "listing")
                          /\ Goto(r, pc)
  BY DEF CheckDeclarative, OwnRulesPass, CheckProject, CheckGlobal, CheckBackstop, Gate,
         Fails, Refuse, Answers, StreamEnds, Charge, Stages, Beyond
<1> QED BY <1>1, GotoArrives

LEMMA LimitLeads ==
    ASSUME TypeOK, NEW r \in Requests, Limit(r)
    PROVE  /\ req'[r].pc \in Beyond /\ req'[r].todo = req[r].todo
           /\ req'[r].counted = req[r].counted
<1>1. \/ \E pc \in {"refused", "calling"} : Goto(r, pc)
      \/ req' = [req EXCEPT ![r].pc = "calling", ![r].session = {now}]
  BY DEF Limit, Refuse
<1>2. {"refused", "calling"} \subseteq Stages /\ {"refused", "calling"} \subseteq Beyond
  BY DEF Stages, Beyond
<1>3. CASE req' = [req EXCEPT ![r].pc = "calling", ![r].session = {now}]
  BY <1>2, <1>3, ChargedMoves, TodoTyped DEF Becomes, Handler
<1>4. CASE \E pc \in {"refused", "calling"} : Goto(r, pc)
  <2>1. PICK pc \in Stages : pc \in Beyond /\ Goto(r, pc)
    BY <1>2, <1>4
  <2> QED BY <2>1, GotoArrives
<1> QED BY <1>1, <1>3, <1>4

\* What a handler's step does to the count, and when it counts.
LEMMA HandlerCounts ==
    ASSUME TypeOK, NEW r \in Requests, Handle(r)
    PROVE  \/ counts' = counts /\ req'[r].counted = req[r].counted
           \/ /\ req[r].pc = "rules"
              /\ counts' = [counts EXCEPT ![Profile[r].user][now] = @ + 1]
              /\ \E q \in Foremost(req[r].todo) :
                    req'[r].counted = req[r].counted \cup {[minute |-> now, rule |-> q.id]}
<1>1. CASE CheckDeclarative(r) \/ OwnRulesPass(r) \/ CheckProject(r) \/ CheckGlobal(r)
               \/ Gate(r) \/ Fails(r) \/ Answers(r) \/ StreamEnds(r) \/ Charge(r)
  <2>1. counts' = counts
    BY <1>1 DEF CheckDeclarative, OwnRulesPass, CheckProject, CheckGlobal, CheckBackstop,
                Gate, Fails, Answers, StreamEnds, Charge
  <2> QED BY <1>1, <2>1, StagesLead
<1>2. CASE Limit(r)
  <2>1. counts' = counts
    BY <1>2 DEF Limit
  <2> QED BY <1>2, <2>1, LimitLeads
<1>3. CASE Start(r)
  BY <1>3, StartMoves, TodoTyped DEF Becomes, Handler, Start
<1>4. CASE ListRules(r)
  BY <1>4, ListRulesMoves, TodoTyped DEF Becomes, Handler, ListRules
<1>5. CASE \E m \in Models : FailOver(r, m)
  BY <1>5, FailOverMoves, TodoTyped DEF Becomes, Handler, FailOver
<1>6. CASE Consider(r)
  <2>1. req[r].pc = "rules"
    BY <1>6 DEF Consider
  <2>2. PICK q \in Foremost(req[r].todo) :
           \/ UNCHANGED counts /\ Becomes(r, [req[r] EXCEPT !.todo = @ \ {q}])
           \/ /\ UNCHANGED counts
              /\ \E pc \in {"refused", "spend"} : Becomes(r, [req[r] EXCEPT !.pc = pc])
           \/ /\ q.window # "target" /\ q.rpm # {}
              /\ counts' = [counts EXCEPT ![Profile[r].user][now] = @ + 1]
              /\ Becomes(r, [req[r] EXCEPT !.pc = "counted", !.minute = now,
                                           !.counted = @ \cup {[minute |-> now, rule |-> q.id]}])
    BY <1>6, ConsiderMoves
  <2>3. CASE UNCHANGED counts /\ Becomes(r, [req[r] EXCEPT !.todo = @ \ {q}])
    BY <2>3, TodoTyped DEF Becomes, Handler
  <2>4. CASE /\ UNCHANGED counts
             /\ \E pc \in {"refused", "spend"} : Becomes(r, [req[r] EXCEPT !.pc = pc])
    BY <2>4, TodoTyped DEF Becomes, Handler
  <2>5. CASE /\ q.window # "target" /\ q.rpm # {}
             /\ counts' = [counts EXCEPT ![Profile[r].user][now] = @ + 1]
             /\ Becomes(r, [req[r] EXCEPT !.pc = "counted", !.minute = now,
                                          !.counted = @ \cup {[minute |-> now, rule |-> q.id]}])
    <3>1. req'[r].counted = req[r].counted \cup {[minute |-> now, rule |-> q.id]}
      BY <2>5, TodoTyped DEF Becomes, Handler
    <3> QED BY <2>1, <2>5, <3>1
  <2> QED BY <2>2, <2>3, <2>4, <2>5
<1>7. CASE ReadBack(r)
  <2>1. counts' = counts
    BY <1>7 DEF ReadBack
  <2> QED BY <1>7, <2>1, ReadBackMoves, TodoTyped DEF Becomes, Handler
<1>8. CASE CheckUsd(r)
  <2>1. counts' = counts
    BY <1>8 DEF CheckUsd
  <2> QED BY <1>8, <2>1, CheckUsdMoves, TodoTyped DEF Becomes, Handler
<1>9. CASE CheckTokens(r)
  <2>1. counts' = counts
    BY <1>9 DEF CheckTokens
  <2> QED BY <1>9, <2>1, CheckTokensMoves, TodoTyped DEF Becomes, Handler
<1> QED BY <1>1, <1>2, <1>3, <1>4, <1>5, <1>6, <1>7, <1>8, <1>9 DEF Handle

\* A handler's step leaves the rules to come uncounted.
LEMMA HandlersCountOnce ==
    ASSUME TypeOK, IdsUnique, LimitsTrue, NEW r \in Requests, Handle(r)
    PROVE  CountsOnce(req'[r])
<1>9. req[r] \in Handler
  BY TodoTyped
<1>0. CountsOnce(req[r])
  BY DEF LimitsTrue
<1>1. CASE CheckDeclarative(r) \/ OwnRulesPass(r) \/ CheckProject(r) \/ CheckGlobal(r)
               \/ Gate(r) \/ Fails(r) \/ Answers(r) \/ StreamEnds(r) \/ Charge(r)
  <2>1. CASE req'[r].pc \in Beyond
    BY <1>0, <1>1, <2>1, StagesLead, BeyondCountsOnce
  <2>2. CASE req[r].pc = "policy" /\ req'[r].pc = "listing"
    BY <1>0, <1>1, <2>2, StagesLead DEF CountsOnce
  <2> QED BY <1>1, <2>1, <2>2, StagesLead
<1>2. CASE Limit(r)
  BY <1>0, <1>2, LimitLeads, BeyondCountsOnce
<1>3. CASE Start(r)
  <2>1. req[r].pc = "new"
    BY <1>3 DEF Start
  <2>2. req'[r].pc = "policy" /\ req'[r].todo = req[r].todo /\ req'[r].counted = req[r].counted
    <3> DEFINE reset == resetAt[Profile[r].user]
               doomed == DoomedAtStart(r)
    <3>1. Becomes(r, [req[r] EXCEPT !.pc = "policy", !.reset = reset, !.doomed = doomed])
      BY <1>3, StartMoves
    <3> HIDE DEF reset, doomed
    <3> QED BY <1>9, <3>1 DEF Becomes, Handler
  <2> QED BY <1>0, <2>1, <2>2 DEF CountsOnce
<1>4. CASE ListRules(r)
  <2>1. req[r].pc = "listing"
    BY <1>4 DEF ListRules
  <2>2. /\ req'[r].pc = "rules" /\ req'[r].todo = OwnRules(r)
        /\ req'[r].counted = req[r].counted
    <3>1. Becomes(r, [req[r] EXCEPT !.pc = "rules", !.todo = OwnRules(r)])
      BY <1>4, ListRulesMoves
    <3> QED BY <1>9, <3>1 DEF Becomes, Handler
  <2>3. req'[r].counted = {} /\ req'[r].todo \subseteq rules
    BY <1>0, <2>1, <2>2 DEF CountsOnce, OwnRules, InScope
  <2> QED BY <2>2, <2>3 DEF CountsOnce, IdsUnique
<1>5. CASE \E m \in Models : FailOver(r, m)
  <2>1. req[r].pc = "calling"
    BY <1>5 DEF FailOver
  <2>2. req'[r].pc = req[r].pc /\ req'[r].todo = req[r].todo
    BY <1>5, FailOverMoves, <1>9 DEF Becomes, Handler
  <2> QED BY <1>0, <2>1, <2>2, BeyondCountsOnce DEF Beyond
<1>6. CASE Consider(r)
  <2>1. req[r].pc = "rules"
    BY <1>6 DEF Consider
  <2>2. PICK q \in Foremost(req[r].todo) :
           \/ Becomes(r, [req[r] EXCEPT !.todo = @ \ {q}])
           \/ \E pc \in {"refused", "spend"} : Becomes(r, [req[r] EXCEPT !.pc = pc])
           \/ /\ q.window # "target" /\ q.rpm # {}
              /\ Becomes(r, [req[r] EXCEPT !.pc = "counted", !.minute = now,
                                           !.counted = @ \cup {[minute |-> now, rule |-> q.id]}])
    BY <1>6, ConsiderMoves
  <2>3. \A p \in req[r].todo : \A c \in req[r].counted : c.rule # p.id
    BY <1>0, <2>1 DEF CountsOnce, Unseen
  <2>4. CASE Becomes(r, [req[r] EXCEPT !.todo = @ \ {q}])
    <3>1. /\ req'[r].pc = "rules" /\ req'[r].todo = req[r].todo \ {q}
          /\ req'[r].counted = req[r].counted
      BY <2>1, <2>4, <1>9 DEF Becomes, Handler
    <3> QED BY <1>0, <2>3, <3>1 DEF CountsOnce, Unseen
  <2>5. CASE \E pc \in {"refused", "spend"} : Becomes(r, [req[r] EXCEPT !.pc = pc])
    <3>1. /\ req'[r].pc \in {"refused", "spend"} /\ req'[r].todo = req[r].todo
          /\ req'[r].counted = req[r].counted
      BY <2>5, <1>9 DEF Becomes, Handler
    <3> QED BY <1>0, <2>3, <3>1 DEF CountsOnce, Unseen
  <2>6. CASE /\ q.window # "target" /\ q.rpm # {}
             /\ Becomes(r, [req[r] EXCEPT !.pc = "counted", !.minute = now,
                                          !.counted = @ \cup {[minute |-> now, rule |-> q.id]}])
    <3>1. /\ req'[r].pc = "counted" /\ req'[r].todo = req[r].todo
          /\ req'[r].counted = req[r].counted \cup {[minute |-> now, rule |-> q.id]}
      BY <2>6, <1>9 DEF Becomes, Handler
    <3>2. q \in req[r].todo
      BY TodoTyped
    <3>3. \A p \in req[r].todo \ Foremost(req[r].todo) : p.id # q.id
      BY <1>0, <3>2 DEF CountsOnce
    <3>4. ASSUME NEW p \in Unseen(req'[r]), NEW c \in req'[r].counted
          PROVE  c.rule # p.id
      <4>1. p \in req[r].todo \ Foremost(req[r].todo)
        BY <3>1 DEF Unseen
      <4> QED BY <2>3, <3>1, <3>3, <4>1
    <3> QED BY <1>0, <3>1, <3>4 DEF CountsOnce
  <2> QED BY <2>2, <2>4, <2>5, <2>6
<1>7. CASE ReadBack(r) \/ CheckUsd(r)
  <2>1. req[r].pc \in {"counted", "spend"}
    BY <1>7 DEF ReadBack, CheckUsd
  <2>2. /\ req'[r].pc \in {"refused", "spend", "tokens"} /\ req'[r].todo = req[r].todo
        /\ req'[r].counted = req[r].counted
    <3>1. CASE ReadBack(r)
      <4>1. \/ Becomes(r, [req[r] EXCEPT !.pc = "refused"])
            \/ \E rpm \in Nat :
                  Becomes(r, [req[r] EXCEPT !.pc = "spend",
                                 !.passed = @ \cup {[minute |-> req[r].minute, rpm |-> rpm]}])
        BY <3>1, ReadBackMoves
      <4> QED BY <1>9, <4>1 DEF Becomes, Handler
    <3>2. CASE CheckUsd(r)
      <4>1. \/ Becomes(r, [req[r] EXCEPT !.pc = "refused"])
            \/ \E conc \in Opt(Nat) :
                  Becomes(r, [req[r] EXCEPT !.pc = "tokens", !.conc = conc])
        BY <3>2, CheckUsdMoves
      <4> QED BY <1>9, <4>1 DEF Becomes, Handler
    <3> QED BY <1>7, <3>1, <3>2
  <2> QED BY <1>0, <2>1, <2>2 DEF CountsOnce, Unseen
<1>8. CASE CheckTokens(r)
  <2>1. req[r].pc = "tokens"
    BY <1>8 DEF CheckTokens
  <2>2. PICK q \in Foremost(req[r].todo) :
           \/ Becomes(r, [req[r] EXCEPT !.pc = "refused"])
           \/ Becomes(r, [req[r] EXCEPT !.pc = "rules", !.todo = @ \ {q}])
    BY <1>8, CheckTokensMoves
  <2>3. CASE Becomes(r, [req[r] EXCEPT !.pc = "refused"])
    <3>1. req'[r].pc = "refused" /\ req'[r].todo = req[r].todo
      BY <2>3, <1>9 DEF Becomes, Handler
    <3> QED BY <1>0, <3>1, BeyondCountsOnce DEF Beyond
  <2>4. CASE Becomes(r, [req[r] EXCEPT !.pc = "rules", !.todo = @ \ {q}])
    <3>1. /\ req'[r].pc = "rules" /\ req'[r].todo = req[r].todo \ {q}
          /\ req'[r].counted = req[r].counted
      BY <2>4, <1>9 DEF Becomes, Handler
    <3>2. req[r].todo \in SUBSET Rule
      BY TodoTyped
    <3>3. Foremost(req[r].todo) \subseteq {q}
      BY <3>2, OneForemost
    <3> QED BY <1>0, <2>1, <3>1, <3>3 DEF CountsOnce, Unseen
  <2> QED BY <2>2, <2>3, <2>4
<1> QED BY <1>1, <1>2, <1>3, <1>4, <1>5, <1>6, <1>7, <1>8 DEF Handle

LEMMA HandlersKeepLimits ==
    ASSUME TypeOK, IdsUnique, LimitsTrue, NEW r \in Requests, Handle(r)
    PROVE  LimitsTrue'
<1>1. \A o \in Requests \ {r} : req'[o] = req[o]
  BY HandlerSteps
<1>2. \A o \in Requests : CountsOnce(req'[o])
  BY <1>1, HandlersCountOnce DEF LimitsTrue
<1>3. CASE counts' = counts /\ req'[r].counted = req[r].counted
  <2>1. \A u, m : Countings(u, m)' = Countings(u, m)
    BY <1>1, <1>3 DEF Countings
  <2> QED BY <1>2, <1>3, <2>1 DEF LimitsTrue
<1>4. ASSUME req[r].pc = "rules",
             counts' = [counts EXCEPT ![Profile[r].user][now] = @ + 1],
             NEW q \in Foremost(req[r].todo),
             req'[r].counted = req[r].counted \cup {[minute |-> now, rule |-> q.id]}
      PROVE  LimitsTrue'
  <2> DEFINE mark == [minute |-> now, rule |-> q.id]
  <2>1. mark \notin req[r].counted
    <3>1. q \in req[r].todo /\ CountsOnce(req[r])
      BY TodoTyped DEF LimitsTrue
    <3> QED BY <1>4, <3>1 DEF CountsOnce, Unseen
  <2>2. mark.minute = now /\ req'[r].counted = req[r].counted \cup {mark}
    BY <1>4
  <2> HIDE DEF mark
  <2>3. ASSUME NEW u \in Users, NEW m \in 0..MaxNow
        PROVE  /\ IsFiniteSet(Countings(u, m)')
               /\ counts'[u][m] <= Cardinality(Countings(u, m)')
    <3>1. IsFiniteSet(Countings(u, m)) /\ counts[u][m] <= Cardinality(Countings(u, m))
      BY DEF LimitsTrue
    <3>2. counts[u] \in [0..MaxNow -> Nat] /\ counts[u][m] \in Nat
      BY DEF TypeOK
    <3>3. Cardinality(Countings(u, m)) \in Nat
      BY <3>1, FS_CardinalityType
    <3>4. \A x : x \in Countings(u, m)' <=>
              \E o \in Requests : \E c \in req'[o].counted :
                  Profile[o].user = u /\ c.minute = m /\ x = <<o, c>>
      BY DEF Countings
    <3>5. \A x : x \in Countings(u, m) <=>
              \E o \in Requests : \E c \in req[o].counted :
                  Profile[o].user = u /\ c.minute = m /\ x = <<o, c>>
      BY DEF Countings
    <3>6. CASE u = Profile[r].user /\ m = now
      <4>1. Countings(u, m)' = Countings(u, m) \cup {<<r, mark>>}
        BY <1>1, <2>2, <3>4, <3>5, <3>6
      <4>2. <<r, mark>> \notin Countings(u, m)
        BY <2>1, <3>5
      <4>3. /\ IsFiniteSet(Countings(u, m) \cup {<<r, mark>>})
            /\ Cardinality(Countings(u, m) \cup {<<r, mark>>}) = Cardinality(Countings(u, m)) + 1
        BY <3>1, <4>2, FS_AddElement
      <4>4. counts'[u][m] = counts[u][m] + 1
        BY <1>4, <3>2, <3>6 DEF TypeOK
      <4> QED BY <3>1, <3>2, <3>3, <4>1, <4>3, <4>4
    <3>7. CASE ~(u = Profile[r].user /\ m = now)
      <4>1. Countings(u, m)' = Countings(u, m)
        BY <1>1, <2>2, <3>4, <3>5, <3>7
      <4>2. counts'[u][m] = counts[u][m]
        BY <1>4, <3>2, <3>7 DEF TypeOK
      <4> QED BY <3>1, <4>1, <4>2
    <3> QED BY <3>6, <3>7
  <2> QED BY <1>2, <2>3 DEF LimitsTrue
<1> QED BY <1>3, <1>4, HandlerCounts

\* Administrators and the clock count nobody.
LEMMA OutsidersKeepLimits ==
    ASSUME TypeOK, LimitsTrue, Administer \/ Tick
    PROVE  LimitsTrue'
<1>1. /\ counts' = counts
      /\ \A r \in Requests : /\ req'[r].pc = req[r].pc /\ req'[r].todo = req[r].todo
                             /\ req'[r].counted = req[r].counted
  <2>1. counts' = counts /\ (req' = req \/ \E ids : Forget(ids))
    BY DEF Administer, DraftRule, InsertRule, EditRule, DeleteRule, ResetSpend, Tick
  <2> QED BY <2>1, Forgetting DEF Forgotten
<1>2. ASSUME NEW r \in Requests PROVE CountsOnce(req'[r])
  <2>1. CountsOnce(req[r])
    BY DEF LimitsTrue
  <2> QED BY <1>1, <2>1 DEF CountsOnce, Unseen
<1>3. \A u, m : Countings(u, m)' = Countings(u, m)
  BY <1>1 DEF Countings
<1> QED BY <1>1, <1>2, <1>3 DEF LimitsTrue

LEMMA StepKeepsLimits == TypeOK /\ IdsUnique /\ LimitsTrue /\ [Next]_vars => LimitsTrue'
<1> SUFFICES ASSUME TypeOK, IdsUnique, LimitsTrue, [Next]_vars PROVE LimitsTrue'
  OBVIOUS
<1>1. CASE UNCHANGED vars
  <2>1. UNCHANGED <<req, counts>>
    BY <1>1 DEF vars
  <2>2. \A u, m : Countings(u, m)' = Countings(u, m)
    BY <2>1 DEF Countings
  <2>3. \A r \in Requests : CountsOnce(req[r])'
    BY <2>1 DEF LimitsTrue
  <2> QED BY <2>1, <2>2, <2>3 DEF LimitsTrue
<1> QED BY <1>1, HandlersKeepLimits, OutsidersKeepLimits DEF Next

\* A minute's counter is no more than the counts made in it: a request is counted once
\* for each per-minute limit it meets, whatever administrators do to the rules meanwhile.
THEOREM LimitsInvariant == Spec => []LimitsTrue
<1>1. BudgetsTrue => IdsUnique
  BY DEF BudgetsTrue
<1> QED BY <1>1, LimitsAtFirst, StepKeepsLimits, AdmissionTypeCorrect, BudgetsInvariant, PTL
        DEF Spec

\* A request is turned away by a per-minute limit only when its user's requests were
\* counted more often than the limit in its minute (increment_and_get_count).
THEOREM RefusalsAreEarned == Spec => RateRefusalEarned
<1> DEFINE Earned == \A r \in Requests : RateRefused(r) =>
                        \E q \in Foremost(req[r].todo) : \E rpm \in q.rpm :
                            Cardinality(Countings(Profile[r].user, req[r].minute)) > rpm
<1>1. TypeOK /\ LimitsTrue /\ [Next]_vars => [Earned]_vars
  <2> SUFFICES ASSUME TypeOK, LimitsTrue, Next, NEW r \in Requests, RateRefused(r)
               PROVE  \E q \in Foremost(req[r].todo) : \E rpm \in q.rpm :
                          Cardinality(Countings(Profile[r].user, req[r].minute)) > rpm
    OBVIOUS
  <2>1. req[r].pc = "counted" /\ req'[r].pc = "refused"
    BY DEF RateRefused
  <2>2. ASSUME Administer \/ Tick PROVE FALSE
    <3>1. req' = req \/ \E ids : Forget(ids)
      BY <2>2 DEF Administer, DraftRule, InsertRule, EditRule, DeleteRule, ResetSpend, Tick
    <3> QED BY <2>1, <3>1, Forgetting DEF Forgotten
  <2>3. Handle(r)
    BY <2>1, <2>2, HandlerSteps DEF Next
  <2>4. ReadBack(r)
    BY <2>1, <2>3 DEF Handle, Start, CheckDeclarative, ListRules, Consider, CheckUsd,
       CheckTokens, OwnRulesPass, CheckProject, CheckGlobal, CheckBackstop, Gate, Limit, Fails,
       FailOver, Answers, StreamEnds, Charge
  <2>5. PICK u \in Users, m \in 0..MaxNow : u = Profile[r].user /\ m = req[r].minute
    BY TodoTyped, AdmissionAssumption DEF Handler, Asked
  <2>6. PICK q \in Foremost(req[r].todo) : \E rpm \in q.rpm : counts[u][m] > rpm
    <3>1. PICK q \in Foremost(req[r].todo) : \E rpm \in q.rpm :
             IF OverLimit(counts[u][m], rpm)
             THEN Goto(r, "refused")
             ELSE req' = [req EXCEPT ![r].pc = "spend",
                             ![r].passed = @ \cup {[minute |-> req[r].minute, rpm |-> rpm]}]
      BY <2>4, <2>5 DEF ReadBack
    <3>2. PICK rpm \in q.rpm :
             IF OverLimit(counts[u][m], rpm)
             THEN Goto(r, "refused")
             ELSE req' = [req EXCEPT ![r].pc = "spend",
                             ![r].passed = @ \cup {[minute |-> req[r].minute, rpm |-> rpm]}]
      BY <3>1
    <3>3. OverLimit(counts[u][m], rpm)
      BY <2>1, <3>2 DEF TypeOK, Handler
    <3> QED BY <3>2, <3>3 DEF OverLimit
  <2>7. PICK rpm \in q.rpm : counts[u][m] > rpm
    BY <2>6
  <2>8. IsFiniteSet(Countings(u, m)) /\ counts[u][m] <= Cardinality(Countings(u, m))
    BY DEF LimitsTrue
  <2>9. Cardinality(Countings(u, m)) \in Nat /\ counts[u][m] \in Nat /\ rpm \in Nat
    <3>1. counts[u] \in [0..MaxNow -> Nat]
      BY DEF TypeOK
    <3>2. q.rpm \subseteq Nat
      BY TodoTyped
    <3> QED BY <2>8, <3>1, <3>2, FS_CardinalityType
  <2> QED BY <2>5, <2>7, <2>8, <2>9
<1> HIDE DEF Earned
<1>2. Spec => []LimitsTrue
  BY LimitsInvariant
<1>3. Spec => [][Earned]_vars
  BY <1>1, <1>2, AdmissionTypeCorrect, PTL DEF Spec
<1> QED BY <1>3 DEF Earned, RateRefusalEarned
=============================================================================
