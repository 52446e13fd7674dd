----------------------- MODULE CredentialChainProofs ------------------------
(***************************************************************************)
(* The credential chain keeps its lock, never calls a transient failure an *)
(* expiry, never probes once a fallback serves and spaces its probes, for  *)
(* any number of requests and any interval.                                *)
(***************************************************************************)
EXTENDS CredentialChain, TLAPS

\* last_probe has the age of the last probe there was.
StampTrue == lastProbe = sinceProbe

\* A request that began after the switch is with the fallback.
LateByFallback == \A r \in Requests : req[r].late => req[r].pc \in {"idle", "fallback"}

ChainInv ==
    /\ TypeOK
    /\ TransientsPassThrough
    /\ LateByFallback
    /\ SwitchesOnce
    /\ StampTrue

\* Time keeps an age within the interval.
LEMMA OlderInRange ==
    ASSUME NEW age \in 0..Interval
    PROVE  Older(age) \in 0..Interval
BY CredentialAssumption DEF Older

\* At the start nobody fetches and nothing is known.
LEMMA InitHasInv == Init => ChainInv
<1> SUFFICES ASSUME Init PROVE ChainInv
  OBVIOUS
<1>1. Idle \in Fetching /\ Unknown \in Known
  BY CredentialAssumption DEF Idle, Fetching, Stages, Awaiting, Unknown, Known
<1>2. \A r \in Requests : req[r] = Idle
  BY DEF Init
<1>3. req \in [Requests -> Fetching]
  BY <1>1 DEF Init
<1>4. \A r \in Requests : lock = r <=> req[r].pc \in {"probing", "joining"}
  BY <1>2, CredentialAssumption DEF Init, Idle
<1>5. Interval \in 0..Interval
  BY CredentialAssumption
<1>6. TypeOK
  BY <1>1, <1>3, <1>4, <1>5 DEF Init, TypeOK
<1>7. TransientsPassThrough /\ LateByFallback /\ SwitchesOnce
  BY <1>2 DEF Idle, TransientsPassThrough, LateByFallback, SwitchesOnce
<1> QED BY <1>6, <1>7 DEF Init, ChainInv, StampTrue

\* What the invariant asks of one request, whoever holds the lock.
RequestOK(q) ==
    /\ q \in Fetching
    /\ q.pc \in {"locking", "probing", "joining", "failing"} => q.refused
    /\ q.answer = "expired" => q.refused \/ ~q.late
    /\ q.late => q.pc \in {"idle", "fallback"}

Holding(q) == q.pc \in {"probing", "joining"}

\* A step that moves one request, from a good state to a good one, keeps the
\* invariant when the lock follows the request: who switches over holds it, so
\* that nobody else is probing then, and has ended its own probe.
LEMMA OneRequestMoves ==
    ASSUME ChainInv, NEW r \in Requests, NEW q, RequestOK(q),
           req' = [req EXCEPT ![r] = q],
           offers' \in BOOLEAN, active' \in BOOLEAN, expired' \in Known,
           lastProbe' \in 0..Interval, sinceProbe' = lastProbe',
           active' => (active \/ lock = r) /\ q.pc # "probing",
           \/ Holding(q) /\ lock' = r /\ lock \in {r, Nobody}
           \/ ~Holding(q) /\ lock' = (IF lock = r THEN Nobody ELSE lock)
    PROVE  ChainInv'
<1>1. \A s \in Requests : req'[s] = IF s = r THEN q ELSE req[s]
  BY DEF ChainInv, TypeOK
<1>2. \A s \in Requests : RequestOK(req'[s])
  <2>1. \A s \in Requests : RequestOK(req[s])
    BY DEF ChainInv, TypeOK, TransientsPassThrough, LateByFallback, RequestOK
  <2> QED BY <1>1, <2>1
<1>3. req' \in [Requests -> Fetching]
  BY DEF ChainInv, TypeOK, RequestOK
<1>4. lock' \in Requests \cup {Nobody}
  BY DEF ChainInv, TypeOK
<1>5. \A s \in Requests : lock' = s <=> req'[s].pc \in {"probing", "joining"}
  <2>1. \A s \in Requests : lock = s <=> req[s].pc \in {"probing", "joining"}
    BY DEF ChainInv, TypeOK
  <2> QED BY <1>1, <2>1, CredentialAssumption DEF Holding
<1>6. TypeOK'
  BY <1>3, <1>4, <1>5 DEF TypeOK
<1>7. SwitchesOnce'
  <2>1. \A s \in Requests : req[s].pc = "probing" => lock = s
    BY DEF ChainInv, TypeOK
  <2>2. \A s \in Requests : active' /\ s # r => req[s].pc # "probing"
    BY <2>1, CredentialAssumption DEF ChainInv, SwitchesOnce
  <2> QED BY <1>1, <2>2 DEF SwitchesOnce
<1> QED BY <1>2, <1>6, <1>7
        DEF ChainInv, TransientsPassThrough, LateByFallback, StampTrue, RequestOK

-----------------------------------------------------------------------------
(* One lemma per step: the state the request is left in is a good one.     *)

\* What the invariant says of the variables, for the lemmas that follow.
LEMMA Unfolded ==
    ASSUME ChainInv, NEW r \in Requests
    PROVE  /\ RequestOK(req[r])
           /\ offers \in BOOLEAN /\ active \in BOOLEAN /\ expired \in Known
           /\ lastProbe \in 0..Interval /\ sinceProbe = lastProbe
           /\ lock = r <=> Holding(req[r])
           /\ active => req[r].pc # "probing"
BY DEF ChainInv, TypeOK, TransientsPassThrough, LateByFallback, SwitchesOnce, StampTrue,
       RequestOK, Holding

\* A fetch begins.
LEMMA FetchKeepsInv ==
    ASSUME ChainInv, NEW r \in Requests, Fetch(r)
    PROVE  ChainInv'
<1> DEFINE q == [Idle EXCEPT !.pc = IF active THEN "fallback" ELSE "checking",
                             !.late = active]
<1>1. active \in BOOLEAN /\ lock # r
  BY Unfolded DEF Fetch, Holding
<1>2. RequestOK(q) /\ ~Holding(q)
  BY <1>1 DEF RequestOK, Holding, Idle, Fetching, Stages, Awaiting
<1>3. req' = [req EXCEPT ![r] = q]
  BY DEF Fetch
<1>4. UNCHANGED <<offers, active, lastProbe, expired, lock, sinceProbe>> /\ q.pc # "probing"
  BY <1>2 DEF Fetch, Holding
<1> HIDE DEF q
<1> QED BY <1>1, <1>2, <1>3, <1>4, Unfolded, OneRequestMoves

\* Moving a request on changes its stage alone; answering it, its answer too.
LEMMA Moves ==
    ASSUME ChainInv, NEW r \in Requests, NEW stage, Goto(r, stage)
    PROVE  req' = [req EXCEPT ![r] = [req[r] EXCEPT !.pc = stage]]
BY DEF Goto

LEMMA IsAnswered ==
    ASSUME ChainInv, NEW r \in Requests, NEW a, Answer(r, a)
    PROVE  req' = [req EXCEPT ![r] = [req[r] EXCEPT !.pc = "idle", !.answer = a]]
BY DEF Answer, ChainInv, TypeOK, Fetching

\* A request that is not refused stays good in every stage a fetch may take
\* without a refusal, a refused one in the others too, and any when it ends.
LEMMA MovedWell ==
    ASSUME NEW q, RequestOK(q), NEW stage \in Stages, ~q.late,
           stage \in {"locking", "probing", "joining", "failing"} => q.refused
    PROVE  RequestOK([q EXCEPT !.pc = stage])
BY DEF RequestOK, Fetching

LEMMA AnsweredWell ==
    ASSUME NEW q, RequestOK(q), NEW a \in {"token", "transient", "expired"},
           a = "expired" => q.refused \/ ~q.late
    PROVE  RequestOK([q EXCEPT !.pc = "idle", !.answer = a])
BY DEF RequestOK, Fetching, Stages

\* A step that ends a fetch keeps the invariant, if it gives up the lock.
LEMMA AnswerKeepsInv ==
    ASSUME ChainInv, NEW r \in Requests, NEW a \in {"token", "transient", "expired"},
           Answer(r, a), a = "expired" => req[r].refused \/ ~req[r].late,
           offers' \in BOOLEAN, active' \in BOOLEAN, expired' \in Known,
           active' => active \/ lock = r,
           lastProbe' = lastProbe, sinceProbe' = sinceProbe,
           lock' = IF lock = r THEN Nobody ELSE lock
    PROVE  ChainInv'
<1> DEFINE q == [req[r] EXCEPT !.pc = "idle", !.answer = a]
<1>1. req' = [req EXCEPT ![r] = q]
  BY IsAnswered
<1>2. RequestOK(q)
  BY Unfolded, AnsweredWell
<1>3. ~Holding(q) /\ q.pc # "probing"
  BY Unfolded DEF Holding, RequestOK, Fetching
<1> HIDE DEF q
<1> QED BY <1>1, <1>2, <1>3, Unfolded, OneRequestMoves

\* A step that moves a fetch on keeps it, if the lock follows.
LEMMA MoveKeepsInv ==
    ASSUME ChainInv, NEW r \in Requests, NEW stage \in Stages, Goto(r, stage), ~req[r].late,
           stage \in {"locking", "probing", "joining", "failing"} => req[r].refused,
           offers' \in BOOLEAN, active' \in BOOLEAN, expired' \in Known,
           active' => active /\ stage # "probing",
           lastProbe' \in 0..Interval, sinceProbe' = lastProbe',
           IF stage \in {"probing", "joining"}
           THEN lock' = r /\ lock \in {r, Nobody}
           ELSE lock' = IF lock = r THEN Nobody ELSE lock
    PROVE  ChainInv'
<1> DEFINE q == [req[r] EXCEPT !.pc = stage]
<1>1. req' = [req EXCEPT ![r] = q]
  BY Moves
<1>2. RequestOK(q)
  BY Unfolded, MovedWell
<1>3. (Holding(q) <=> stage \in {"probing", "joining"}) /\ q.pc = stage
  BY Unfolded DEF Holding, RequestOK, Fetching
<1> HIDE DEF q
<1> QED BY <1>1, <1>2, <1>3, OneRequestMoves

\* The memory of an expiry is consulted.
LEMMA CheckExpiryKeepsInv ==
    ASSUME ChainInv, NEW r \in Requests, CheckExpiry(r)
    PROVE  ChainInv'
<1>1. ~req[r].late /\ lock # r
  BY Unfolded DEF CheckExpiry, Holding, RequestOK
<1>2. CASE RecentExpiry
  BY <1>1, <1>2, Unfolded, AnswerKeepsInv DEF CheckExpiry
<1>3. CASE ~RecentExpiry
  BY <1>1, <1>3, Unfolded, MoveKeepsInv DEF CheckExpiry, Stages, Awaiting
<1> QED BY <1>2, <1>3

\* The configured source refuses: the request is marked and goes on.
LEMMA RefusalKeepsInv ==
    ASSUME ChainInv, NEW r \in Requests, NEW stage \in {"locking", "failing"},
           req[r].pc = "primary",
           req' = [req EXCEPT ![r].pc = stage, ![r].refused = TRUE],
           UNCHANGED <<offers, active, lastProbe, expired, lock, sinceProbe>>
    PROVE  ChainInv'
<1> DEFINE q == [req[r] EXCEPT !.pc = stage, !.refused = TRUE]
<1>1. RequestOK(req[r]) /\ ~req[r].late /\ lock # r
  BY Unfolded DEF Holding, RequestOK
<1>2. req' = [req EXCEPT ![r] = q]
  BY DEF ChainInv, TypeOK, Fetching
<1>3. RequestOK(q) /\ ~Holding(q) /\ q.pc # "probing"
  BY <1>1 DEF RequestOK, Fetching, Stages, Awaiting, Holding
<1> HIDE DEF q
<1> QED BY <1>1, <1>2, <1>3, Unfolded, OneRequestMoves

\* The configured source answers.
LEMMA PrimaryKeepsInv ==
    ASSUME ChainInv, NEW r \in Requests, NEW a \in SourceAnswers, PrimaryAnswers(r, a)
    PROVE  ChainInv'
<1>1. lock # r /\ req[r].pc = "primary" /\ Unknown \in Known
  BY Unfolded, CredentialAssumption DEF PrimaryAnswers, Holding, Unknown, Known
<1>2. CASE a = "token"
  BY <1>1, <1>2, Unfolded, AnswerKeepsInv DEF PrimaryAnswers, Permanent
<1>3. CASE a = "transient"
  BY <1>1, <1>3, Unfolded, AnswerKeepsInv DEF PrimaryAnswers, Permanent
<1>4. CASE a = "reauth"
  <2> DEFINE stage == IF offers THEN "locking" ELSE "failing"
  <2>1. /\ req' = [req EXCEPT ![r].pc = stage, ![r].refused = TRUE]
        /\ UNCHANGED <<offers, active, lastProbe, expired, lock, sinceProbe>>
    BY <1>4 DEF PrimaryAnswers, Permanent
  <2>2. stage \in {"locking", "failing"}
    OBVIOUS
  <2> HIDE DEF stage
  <2> QED BY <1>1, <2>1, <2>2, RefusalKeepsInv
<1> QED BY <1>2, <1>3, <1>4 DEF SourceAnswers

\* The active fallback answers; its refusal ends the fetch.
LEMMA FallbackKeepsInv ==
    ASSUME ChainInv, NEW r \in Requests, NEW a \in SourceAnswers, FallbackAnswers(r, a)
    PROVE  ChainInv'
<1>1. RequestOK(req[r]) /\ lock # r /\ Dead \in Known
  BY Unfolded, CredentialAssumption DEF FallbackAnswers, Holding, Dead, Known
<1>2. CASE a = "token"
  BY <1>1, <1>2, Unfolded, AnswerKeepsInv DEF FallbackAnswers, Permanent
<1>3. CASE a = "transient"
  BY <1>1, <1>3, Unfolded, AnswerKeepsInv DEF FallbackAnswers, Permanent
<1>4. CASE a = "reauth"
  <2> DEFINE q == [req[r] EXCEPT !.pc = "idle", !.answer = "expired", !.refused = TRUE]
  <2>1. req' = [req EXCEPT ![r] = q]
    BY <1>4 DEF FallbackAnswers, Permanent, ChainInv, TypeOK, Fetching
  <2>2. RequestOK(q) /\ ~Holding(q) /\ q.pc # "probing"
    BY <1>1 DEF RequestOK, Fetching, Stages, Holding
  <2>3. UNCHANGED <<offers, active, lastProbe, lock, sinceProbe>> /\ expired' = Dead
    BY <1>4 DEF FallbackAnswers, Permanent
  <2> HIDE DEF q
  <2> QED BY <1>1, <2>1, <2>2, <2>3, Unfolded, OneRequestMoves
<1> QED BY <1>2, <1>3, <1>4 DEF SourceAnswers

\* The failure is written down by a request that was refused.
LEMMA WriteExpiredKeepsInv ==
    ASSUME ChainInv, NEW r \in Requests, WriteExpired(r)
    PROVE  ChainInv'
<1>1. req[r].refused /\ lock # r /\ Dead \in Known
  BY Unfolded, CredentialAssumption DEF WriteExpired, Holding, RequestOK, Dead, Known
<1> QED BY <1>1, Unfolded, AnswerKeepsInv DEF WriteExpired

\* Whoever wins the lock was refused, and begins a probe only with a stamp.
LEMMA LockWonKeepsInv ==
    ASSUME ChainInv, NEW r \in Requests, LockWon(r)
    PROVE  ChainInv'
<1>1. req[r].refused /\ ~req[r].late /\ lock = Nobody /\ lock # r
  BY Unfolded, CredentialAssumption DEF LockWon, RequestOK
<1>2. 0 \in 0..Interval /\ {"joining", "failing", "probing"} \subseteq Stages
  BY CredentialAssumption DEF Stages, Awaiting
<1>3. CASE active
  BY <1>1, <1>2, <1>3, Unfolded, MoveKeepsInv DEF LockWon
<1>4. CASE ~active /\ lastProbe < Interval
  <2>1. /\ Goto(r, "failing")
        /\ UNCHANGED <<offers, active, expired, lastProbe, sinceProbe, lock>>
    BY <1>4, CredentialAssumption, Unfolded DEF LockWon
  <2> QED BY <1>1, <1>2, <2>1, Unfolded, MoveKeepsInv
<1>5. CASE ~active /\ lastProbe = Interval
  <2>1. /\ Goto(r, "probing") /\ lock' = r /\ lastProbe' = 0 /\ sinceProbe' = 0
        /\ UNCHANGED <<offers, active, expired>> /\ ~active'
    BY <1>5, CredentialAssumption DEF LockWon, Stamp
  <2> QED BY <1>1, <1>2, <2>1, Unfolded, MoveKeepsInv
<1> QED BY <1>3, <1>4, <1>5 DEF LockWon

\* A probe ends, and the lock with it.
LEMMA ProbeKeepsInv ==
    ASSUME ChainInv, NEW r \in Requests, NEW ok \in BOOLEAN, ProbeEnds(r, ok)
    PROVE  ChainInv'
<1>1. req[r].refused /\ ~req[r].late /\ Unknown \in Known /\ "failing" \in Stages
  BY Unfolded, CredentialAssumption DEF ProbeEnds, RequestOK, Unknown, Known, Stages
<1>2. CASE ok
  <2>1. lock = r
    BY Unfolded DEF ProbeEnds, Holding
  <2> QED BY <1>1, <1>2, <2>1, Unfolded, AnswerKeepsInv DEF ProbeEnds, Release
<1>3. CASE ~ok
  BY <1>1, <1>3, Unfolded, MoveKeepsInv DEF ProbeEnds, Release
<1> QED BY <1>2, <1>3

\* The fallback that another request switched to answers one that joins it.
LEMMA JoinKeepsInv ==
    ASSUME ChainInv, NEW r \in Requests, NEW ok \in BOOLEAN, JoinEnds(r, ok)
    PROVE  ChainInv'
<1>1. req[r].refused /\ ~req[r].late /\ "failing" \in Stages
  BY Unfolded DEF JoinEnds, RequestOK, Stages
<1>2. CASE ok
  BY <1>1, <1>2, Unfolded, AnswerKeepsInv DEF JoinEnds, Release
<1>3. CASE ~ok
  BY <1>1, <1>3, Unfolded, MoveKeepsInv DEF JoinEnds, Release
<1> QED BY <1>2, <1>3

\* A request that is dropped gives up the lock.
LEMMA CancelKeepsInv ==
    ASSUME ChainInv, NEW r \in Requests, Cancel(r)
    PROVE  ChainInv'
<1>1. RequestOK(Idle) /\ ~Holding(Idle) /\ Idle.pc # "probing"
  BY DEF RequestOK, Holding, Idle, Fetching, Stages
<1> QED BY <1>1, Unfolded, OneRequestMoves DEF Cancel, Release

\* Time passes: both ages grow alike.
LEMMA TickKeepsInv ==
    ASSUME ChainInv, Tick
    PROVE  ChainInv'
<1>1. Older(lastProbe) \in 0..Interval /\ Older(sinceProbe) = Older(lastProbe)
  BY OlderInRange DEF ChainInv, TypeOK, StampTrue
<1>2. expired' \in Known
  <2>1. expired.age \in 0..Interval
    BY DEF ChainInv, TypeOK, Known
  <2>2. Older(expired.age) \in 0..Interval
    BY <2>1, OlderInRange
  <2> QED BY <2>2 DEF Tick, Known, ChainInv, TypeOK
<1> QED BY <1>1, <1>2
        DEF Tick, ChainInv, TypeOK, TransientsPassThrough, LateByFallback, SwitchesOnce, StampTrue

-----------------------------------------------------------------------------
(* The invariant, and what follows from it.                                *)

\* Every step keeps the invariant.
LEMMA StepKeepsInv ==
    ASSUME ChainInv, [Next]_vars
    PROVE  ChainInv'
<1>1. CASE UNCHANGED vars
  BY <1>1 DEF vars, ChainInv, TypeOK, TransientsPassThrough, LateByFallback, SwitchesOnce,
              StampTrue
<1>2. CASE Tick
  BY <1>2, TickKeepsInv
<1>3. ASSUME NEW r \in Requests, Fetch(r) \/ LockWon(r) \/ Cancel(r)
      PROVE  ChainInv'
  BY <1>3, FetchKeepsInv, LockWonKeepsInv, CancelKeepsInv
<1>4. ASSUME NEW r \in Requests, Proceed(r)
      PROVE  ChainInv'
  BY <1>4, CheckExpiryKeepsInv, PrimaryKeepsInv, FallbackKeepsInv, WriteExpiredKeepsInv,
     ProbeKeepsInv, JoinKeepsInv
     DEF Proceed
<1> QED BY <1>1, <1>2, <1>3, <1>4 DEF Next

\* The inductive invariant of the chain: the lock is held by the one request
\* that probes or joins, expiries come from refusals, the switch is made once, and
\* last_probe is the age of the last probe.
THEOREM ChainInvariant == Spec => []ChainInv
BY InitHasInv, StepKeepsInv, PTL DEF Spec

\* Every variable keeps its shape, and the probe lock its one holder.
THEOREM ChainTypeCorrect == Spec => []TypeOK
<1>1. ChainInv => TypeOK
  BY DEF ChainInv
<1> QED BY <1>1, ChainInvariant, PTL

\* Nobody is told "expired" unless a source refused them, or one before them,
\* for good: fetch passes transient failures through.
THEOREM ExpiriesComeFromRefusals == Spec => []TransientsPassThrough
<1>1. ChainInv => TransientsPassThrough
  BY DEF ChainInv
<1> QED BY <1>1, ChainInvariant, PTL

\* However a burst queues on the probe lock, nobody probes once a fallback
\* serves: try_fallback looks again under the lock.
THEOREM SwitchedOnce == Spec => []SwitchesOnce
<1>1. ChainInv => SwitchesOnce
  BY DEF ChainInv
<1> QED BY <1>1, ChainInvariant, PTL

\* A step that starts a probe is LockWon with an old stamp.
LEMMA ProbeNeedsAge ==
    ASSUME ChainInv, [Next]_vars, NEW r \in Requests,
           req[r].pc = "locking", req'[r].pc = "probing"
    PROVE  sinceProbe = Interval
<1>1. req \in [Requests -> Fetching] /\ sinceProbe = lastProbe
  BY DEF ChainInv, TypeOK, StampTrue
<1>2. CASE UNCHANGED vars \/ Tick
  BY <1>2 DEF vars, Tick
<1>3. ASSUME NEW s \in Requests, Fetch(s) \/ Cancel(s)
      PROVE  sinceProbe = Interval
  BY <1>1, <1>3 DEF Fetch, Cancel, Idle
<1>4. ASSUME NEW s \in Requests, Proceed(s)
      PROVE  sinceProbe = Interval
  <2>1. req'[r].pc \in {"locking", "idle", "primary", "failing"}
    BY <1>1, <1>4 DEF Proceed, CheckExpiry, PrimaryAnswers, FallbackAnswers, WriteExpired,
                      ProbeEnds, JoinEnds, Goto, Answer
  <2> QED BY <2>1
<1>5. ASSUME NEW s \in Requests, LockWon(s)
      PROVE  sinceProbe = Interval
  <2>1. CASE lastProbe = Interval
    BY <1>1, <2>1
  <2>2. CASE lastProbe # Interval
    <3>1. Goto(s, "joining") \/ Goto(s, "failing")
      BY <1>5, <2>2 DEF LockWon
    <3>2. CASE s = r
      BY <1>1, <3>1, <3>2 DEF Goto, Fetching
    <3>3. CASE s # r
      BY <1>1, <3>1, <3>3 DEF Goto
    <3> QED BY <3>2, <3>3
  <2> QED BY <2>1, <2>2
<1> QED BY <1>2, <1>3, <1>4, <1>5 DEF Next

\* However the requests of a burst interleave and are cancelled, no two probes
\* start within the interval.
THEOREM ProbesAreSpaced == Spec => OneProbePerInterval
<1>1. ChainInv /\ [Next]_vars =>
        [\A r \in Requests :
           req[r].pc = "locking" /\ req'[r].pc = "probing" => sinceProbe = Interval]_vars
  BY ProbeNeedsAge
<1> QED BY <1>1, ChainInvariant, PTL DEF Spec, OneProbePerInterval
=============================================================================
