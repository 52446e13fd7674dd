------------------------- MODULE ExperimentsProofs -------------------------
(***************************************************************************)
(* The safety of Experiments, for any experiments, requests, tasks, acts,  *)
(* days and failing queries: evidence is kept, and outcomes carry stamps   *)
(* of their own run.                                                       *)
(***************************************************************************)
EXTENDS Experiments, WellFoundedInduction, TLAPS

-----------------------------------------------------------------------------
(* Optional values.                                                        *)

LEMMA OptOfNone == ASSUME NEW S PROVE {} \in Opt(S)
BY DEF Opt

LEMMA OptOfOne == ASSUME NEW S, NEW x \in S PROVE {x} \in Opt(S)
BY DEF Opt

LEMMA OptPart == ASSUME NEW S, NEW T, T \in Opt(S), NEW U \in SUBSET T PROVE U \in Opt(S)
BY DEF Opt

-----------------------------------------------------------------------------
(* Every variable keeps its type.                                          *)

LEMMA InitHasTypes == Init => TypeOK
<1> SUFFICES ASSUME Init PROVE TypeOK
  OBVIOUS
<1>1. rows \in [Exps -> Row] /\ registry \in [Exps -> Status]
  <2>1. rows \in [Exps -> [status : {"absent", "active"}, closedAt : {{}}]]
    BY DEF Init
  <2>2. registry = [e \in Exps |-> rows[e].status]
    BY DEF Init
  <2> QED BY <2>1, <2>2 DEF Row, Status
<1>2. actor \in [Actors -> Actor]
  BY OptOfNone DEF Init, Actor, Idle
<1>3. req \in [Requests -> Request] /\ prompts \in [Requests -> Opt(Prompt)]
  BY OptOfNone DEF Init, Request
<1>4. ledger \in Seq(Stamped) /\ failures \in Seq(Stamped)
  BY ExperimentsAssumption DEF Init, Stamped
<1>5. outcomes \in [Runs -> Opt(Outcome)] /\ report \in [Reporters -> Report]
  BY OptOfNone DEF Init, Report, NoReport
<1>6. ret \in Retention
  BY ExperimentsAssumption DEF Init, Retention, Resting
<1>7. now \in 0..MaxNow /\ acts \in 0..MaxActs /\ faults \in 0..MaxFaults
  BY ExperimentsAssumption DEF Init
<1> QED BY <1>1, <1>2, <1>3, <1>4, <1>5, <1>6, <1>7 DEF TypeOK

\* A row that closes is a closed row.
LEMMA ClosedIsRow ==
    ASSUME TypeOK, NEW e \in Exps
    PROVE  ClosedNow(e) \in Row /\ ClosedNow(e).status = "closed"
<1>1. rows[e] \in Row /\ now \in 0..MaxNow
  BY DEF TypeOK
<1>2. {now} \in {{t} : t \in 0..MaxNow}
  BY <1>1
<1>3. ClosedNow(e) \in [status : {"closed"}, closedAt : {{t} : t \in 0..MaxNow}]
  <2>1. CASE rows[e] \in [status : {"absent", "active"}, closedAt : {{}}]
    BY <1>2, <2>1 DEF ClosedNow
  <2>2. CASE rows[e] \in [status : {"closed"}, closedAt : {{t} : t \in 0..MaxNow}]
    BY <1>2, <2>2 DEF ClosedNow
  <2> QED BY <1>1, <2>1, <2>2 DEF Row
<1> QED BY <1>3 DEF Row

\* A failing query is counted within its bound.
LEMMA FailsInBound == ASSUME TypeOK, Fails PROVE faults' \in 0..MaxFaults
BY ExperimentsAssumption DEF TypeOK, Fails

LEMMA CreateKeepsTypes ==
    ASSUME TypeOK, NEW a \in Admins \cup Clis, NEW e \in Exps, Create(a, e) \/ BeginClose(a, e)
    PROVE  TypeOK'
<1>1. a \in Actors /\ actor[a] \in Actor
  BY DEF TypeOK, Actors
<1>2. acts' \in 0..MaxActs
  BY ExperimentsAssumption DEF TypeOK, Create, BeginClose
<1>3. rows' \in [Exps -> Row]
  <2>1. CASE Create(a, e)
    <3>1. rows[e] \in Row /\ rows[e].status = "absent"
      BY <2>1 DEF TypeOK, Create
    <3>2. [rows[e] EXCEPT !.status = "active"] \in Row
      BY <3>1 DEF Row
    <3> QED BY <2>1, <3>2 DEF TypeOK, Create
  <2>2. CASE BeginClose(a, e)
    BY <2>2 DEF TypeOK, BeginClose, tables
  <2> QED BY <2>1, <2>2
<1>4. actor' \in [Actors -> Actor]
  <2>1. CASE Create(a, e)
    BY <1>1, <2>1 DEF TypeOK, Create, Actor
  <2>2. CASE BeginClose(a, e)
    BY <1>1, <2>2, OptOfOne DEF TypeOK, BeginClose, Actor
  <2> QED BY <2>1, <2>2
<1> QED BY <1>2, <1>3, <1>4 DEF TypeOK, Create, BeginClose, tables

LEMMA CloseKeepsTypes ==
    ASSUME TypeOK, NEW a \in Admins \cup Clis, Close(a)
    PROVE  TypeOK'
<1>1. a \in Actors /\ actor[a] \in Actor
  BY DEF TypeOK, Actors
<1>2. PICK e \in actor[a].at :
          IF Closes(e)
          THEN /\ rows' = [rows EXCEPT ![e] = ClosedNow(e)]
               /\ actor' = [actor EXCEPT ![a].pc = IF a \in Admins THEN "read" ELSE "audit",
                                        ![a].at = {}, ![a].closing = {e}]
          ELSE actor' = [actor EXCEPT ![a] = Idle] /\ UNCHANGED rows
  BY DEF Close
<1>3. e \in Exps
  BY <1>1 DEF Actor, Opt
<1>4. rows' \in [Exps -> Row]
  BY <1>2, <1>3, ClosedIsRow DEF TypeOK
<1>5. {} \in Opt(Exps) /\ {} \in Opt([Exps -> Status]) /\ {e} \in SUBSET Exps
  BY <1>3, OptOfNone
<1>6. Idle \in Actor
  BY <1>5 DEF Idle, Actor
<1>7. actor' \in [Actors -> Actor]
  <2>1. CASE Closes(e)
    <3>1. actor' = [actor EXCEPT ![a] =
                       [@ EXCEPT !.pc = IF a \in Admins THEN "read" ELSE "audit",
                                 !.at = {}, !.closing = {e}]]
      BY <1>1, <1>2, <2>1 DEF TypeOK
    <3>2. [actor[a] EXCEPT !.pc = IF a \in Admins THEN "read" ELSE "audit",
                           !.at = {}, !.closing = {e}] \in Actor
      BY <1>1, <1>5 DEF Actor
    <3> QED BY <3>1, <3>2 DEF TypeOK
  <2>2. CASE ~Closes(e)
    BY <1>2, <1>6, <2>2 DEF TypeOK
  <2> QED BY <2>1, <2>2
<1> QED BY <1>4, <1>7 DEF TypeOK, Close

LEMMA ReloadKeepsTypes ==
    ASSUME TypeOK, NEW a \in Actors, Reload(a)
    PROVE  TypeOK'
<1>1. actor[a] \in Actor /\ AfterReload(a) \in {"idle", "audit"}
  BY DEF TypeOK, AfterReload
<1>2. CASE ReadRows(a)
  <2> DEFINE read == [e \in Exps |-> rows[e].status]
  <2>1. read \in [Exps -> Status]
    BY DEF TypeOK, Row, Status
  <2>2. {read} \in Opt([Exps -> Status])
    BY <2>1, OptOfOne
  <2> HIDE DEF read
  <2>3. \/ actor' = [actor EXCEPT ![a].pc = "store", ![a].seen = {read}] /\ UNCHANGED faults
        \/ Fails /\ actor' = [actor EXCEPT ![a].pc = AfterReload(a)]
    BY <1>2 DEF ReadRows, read
  <2>4. actor' \in [Actors -> Actor]
    <3>1. CASE actor' = [actor EXCEPT ![a].pc = "store", ![a].seen = {read}]
      BY <1>1, <2>2, <3>1 DEF TypeOK, Actor
    <3>2. CASE actor' = [actor EXCEPT ![a].pc = AfterReload(a)]
      BY <1>1, <3>2 DEF TypeOK, Actor
    <3> QED BY <2>3, <3>1, <3>2
  <2>5. faults' \in 0..MaxFaults
    BY <2>3, FailsInBound DEF TypeOK
  <2> QED BY <1>2, <2>4, <2>5 DEF TypeOK, ReadRows, tables
<1>3. CASE StoreRegistry(a)
  <2>1. PICK seen \in actor[a].seen : registry' = seen
    BY <1>3 DEF StoreRegistry
  <2>2. registry' \in [Exps -> Status]
    BY <1>1, <2>1 DEF Actor, Opt
  <2>3. actor' \in [Actors -> Actor]
    BY <1>1, <1>3, OptOfNone DEF TypeOK, StoreRegistry, Actor
  <2> QED BY <1>3, <2>2, <2>3 DEF TypeOK, StoreRegistry, tables
<1>4. CASE Audit(a)
  <2>1. PICK e \in actor[a].closing :
            actor' = [actor EXCEPT ![a].closing = actor[a].closing \ {e},
                         ![a].pc = IF actor[a].closing \ {e} # {} THEN "audit"
                                   ELSE IF a = Tick THEN "read" ELSE "idle"]
    BY <1>4 DEF Audit
  <2>2. actor[a].closing \ {e} \in SUBSET Exps
    BY <1>1 DEF Actor
  <2>3. actor' \in [Actors -> Actor]
    BY <1>1, <2>1, <2>2 DEF TypeOK, Actor
  <2> QED BY <1>4, <2>3 DEF TypeOK, Audit, tables
<1> QED BY <1>2, <1>3, <1>4 DEF Reload

LEMMA CloseExpiredKeepsTypes == ASSUME TypeOK, CloseExpired PROVE TypeOK'
<1>1. Tick \in Actors /\ actor[Tick] \in Actor
  BY DEF TypeOK, Actors
<1> DEFINE due == {e \in Exps : Closes(e) /\ Expired(e)}
<1>2. \/ /\ rows' = [e \in Exps |-> IF e \in due THEN ClosedNow(e) ELSE rows[e]]
         /\ actor' = [actor EXCEPT ![Tick].pc = AfterCloseExpired(due), ![Tick].closing = due]
         /\ UNCHANGED faults
      \/ Fails /\ actor' = [actor EXCEPT ![Tick].pc = "read"] /\ UNCHANGED rows
  BY DEF CloseExpired
<1>3. due \in SUBSET Exps
  OBVIOUS
<1>4. rows' \in [Exps -> Row]
  BY <1>2, ClosedIsRow DEF TypeOK
<1> HIDE DEF due
<1>5. actor' \in [Actors -> Actor]
  <2>1. CASE actor' = [actor EXCEPT ![Tick].pc = AfterCloseExpired(due), ![Tick].closing = due]
    BY <1>1, <1>3, <2>1 DEF TypeOK, Actor, AfterCloseExpired
  <2>2. CASE actor' = [actor EXCEPT ![Tick].pc = "read"]
    BY <1>1, <2>2 DEF TypeOK, Actor
  <2> QED BY <1>2, <2>1, <2>2
<1>6. faults' \in 0..MaxFaults
  BY <1>2, FailsInBound DEF TypeOK
<1> QED BY <1>4, <1>5, <1>6 DEF TypeOK, CloseExpired

LEMMA RequestsKeepTypes ==
    ASSUME TypeOK, NEW r \in Requests, Bind(r) \/ LogPrompt(r) \/ Charge(r) \/ RecordFailure(r)
    PROVE  TypeOK'
<1>1. req[r] \in Request /\ Profile[r].exp \in Opt(Exps) /\ Profile[r].run \in Runs
  BY ExperimentsAssumption DEF TypeOK, Runs
<1>2. Binding(r) \in Opt(Exps)
  BY <1>1, OptPart DEF Binding
<1>3. CASE Bind(r)
  BY <1>1, <1>2, <1>3 DEF TypeOK, Bind, Request, tables
<1>4. CASE LogPrompt(r)
  <2>1. KeepsContent(r) \in BOOLEAN
    BY DEF KeepsContent, Retains
  <2>2. {[at |-> now, content |-> KeepsContent(r)]} \in Opt(Prompt)
    BY <2>1, OptOfOne DEF TypeOK, Prompt
  <2>3. prompts' \in [Requests -> Opt(Prompt)]
    BY <1>4, <2>2 DEF TypeOK, LogPrompt
  <2> QED BY <1>1, <1>4, <2>3 DEF TypeOK, LogPrompt, Request
<1>5. CASE Charge(r)
  <2>1. [run |-> Profile[r].run, exp |-> req[r].exp] \in Stamped
    BY <1>1 DEF Stamped, Request
  <2>2. ledger' \in Seq(Stamped)
    BY <1>5, <2>1 DEF TypeOK, Charge
  <2> QED BY <1>1, <1>5, <2>2 DEF TypeOK, Charge, Request
<1>6. CASE RecordFailure(r)
  <2>1. [run |-> Profile[r].run, exp |-> Binding(r)] \in Stamped
    BY <1>1, <1>2 DEF Stamped
  <2>2. failures' \in Seq(Stamped)
    BY <1>6, <2>1 DEF TypeOK, RecordFailure
  <2> QED BY <1>1, <1>6, <2>2 DEF TypeOK, RecordFailure, Request
<1> QED BY <1>3, <1>4, <1>5, <1>6

LEMMA FirstIsOne == ASSUME NEW S, S # {} PROVE First(S) \in S
BY DEF First

\* The stages of a retention task.
LEMMA SkippingIsRetention == ASSUME TypeOK PROVE SkipSweep \in Retention /\ Resting \in Retention
<1>1. ret \in Retention
  BY DEF TypeOK
<1>2. 0 \in 0..MaxNow
  BY ExperimentsAssumption
<1> QED BY <1>1, <1>2 DEF SkipSweep, Resting, Retention

LEMMA HandledIsRetention == ASSUME TypeOK, NEW e PROVE Handled(e) \in Retention
<1>1. ret \in Retention /\ Resting \in Retention
  BY SkippingIsRetention DEF TypeOK
<1>2. ret.todo \ {e} \in SUBSET Exps
  BY <1>1 DEF Retention
<1>3. [ret EXCEPT !.pc = "redact", !.todo = ret.todo \ {e}] \in Retention
  BY <1>1, <1>2 DEF Retention
<1> QED BY <1>1, <1>3 DEF Handled

LEMMA FewerPrompts == ASSUME TypeOK, NEW gone PROVE Deleted(gone) \in [Requests -> Opt(Prompt)]
BY OptOfNone DEF TypeOK, Deleted

LEMMA SweepKeepsTypes ==
    ASSUME TypeOK, BeginRetention \/ ListProtected \/ PurgeUnstamped \/ PurgeStamped
    PROVE  TypeOK'
<1>1. ret \in Retention /\ SkipSweep \in Retention /\ now \in 0..MaxNow
  BY SkippingIsRetention DEF TypeOK
<1>2. CASE BeginRetention
  <2>1. ret' \in Retention
    BY <1>1, <1>2 DEF BeginRetention, Retention
  <2> QED BY <1>2, <2>1 DEF TypeOK, BeginRetention, tables
<1>3. CASE ListProtected
  <2>1. {e \in Retaining : WindowOpen(e, ret.now)} \in SUBSET Exps
    BY DEF Retaining
  <2>2. ret' \in Retention
    BY <1>1, <1>3, <2>1 DEF ListProtected, Unreadable, Retention
  <2>3. faults' \in 0..MaxFaults
    BY <1>3, FailsInBound DEF TypeOK, ListProtected
  <2> QED BY <1>3, <2>2, <2>3 DEF TypeOK, ListProtected, tables
<1>4. CASE PurgeUnstamped
  <2>1. [ret EXCEPT !.pc = "stamped"] \in Retention
    BY <1>1 DEF Retention
  <2>2. ret' \in Retention
    BY <1>1, <1>4, <2>1 DEF PurgeUnstamped
  <2>3. faults' \in 0..MaxFaults
    BY <1>4, FailsInBound DEF TypeOK, PurgeUnstamped
  <2>4. prompts' \in [Requests -> Opt(Prompt)]
    BY <1>4, FewerPrompts DEF TypeOK, PurgeUnstamped
  <2> QED BY <1>4, <2>2, <2>3, <2>4 DEF TypeOK, PurgeUnstamped
<1>5. CASE PurgeStamped
  <2>1. faults' \in 0..MaxFaults
    BY <1>5, FailsInBound DEF TypeOK, PurgeStamped
  <2>2. prompts' \in [Requests -> Opt(Prompt)]
    BY <1>5, FewerPrompts DEF TypeOK, PurgeStamped
  <2> QED BY <1>1, <1>5, <2>1, <2>2 DEF TypeOK, PurgeStamped
<1> QED BY <1>2, <1>3, <1>4, <1>5

LEMMA ExpiryKeepsTypes == ASSUME TypeOK, ListElapsed \/ Redact \/ ClearNotes PROVE TypeOK'
<1>1. ret \in Retention /\ Resting \in Retention
  BY SkippingIsRetention DEF TypeOK
<1>2. CASE ListElapsed
  <2>1. {e \in Retaining : rows[e].status = "closed" /\ ~WindowOpen(e, ret.now)} \in SUBSET Exps
    BY DEF Retaining
  <2>2. ret' \in Retention
    BY <1>1, <1>2, <2>1 DEF ListElapsed, Rest, Retention
  <2>3. faults' \in 0..MaxFaults
    BY <1>2, FailsInBound DEF TypeOK, ListElapsed
  <2> QED BY <1>2, <2>2, <2>3 DEF TypeOK, ListElapsed, tables
<1>3. CASE Redact
  <2> DEFINE e == First(ret.todo)
             bare(r) == {[row EXCEPT !.content = FALSE] : row \in prompts[r]}
  <2>1. ASSUME NEW r \in Requests PROVE bare(r) \in Opt(Prompt)
    <3>1. prompts[r] \in Opt(Prompt)
      BY DEF TypeOK
    <3>2. \A row \in prompts[r] : [row EXCEPT !.content = FALSE] \in Prompt
      BY <3>1 DEF Opt, Prompt
    <3> QED BY <3>1, <3>2 DEF Opt
  <2>2. \/ /\ prompts' = [r \in Requests |-> IF req[r].exp # {e} THEN prompts[r] ELSE bare(r)]
           /\ ret' = NotesAfter(e)
           /\ UNCHANGED faults
        \/ Fails /\ ret' = Handled(e) /\ UNCHANGED prompts
    BY <1>3 DEF Redact
  <2> HIDE DEF e, bare
  <2>3. prompts' \in [Requests -> Opt(Prompt)]
    BY <2>1, <2>2 DEF TypeOK
  <2>4. NotesAfter(e) \in Retention
    BY <1>1 DEF NotesAfter, Retention
  <2>5. ret' \in Retention /\ faults' \in 0..MaxFaults
    BY <2>2, <2>4, HandledIsRetention, FailsInBound DEF TypeOK
  <2> QED BY <1>3, <2>3, <2>5 DEF TypeOK, Redact
<1>4. CASE ClearNotes
  <2> DEFINE e == First(ret.todo)
             kept(run) == {[o EXCEPT !.note = o.note /\ o.exp # {e}] : o \in outcomes[run]}
  <2>1. ASSUME NEW run \in Runs PROVE kept(run) \in Opt(Outcome)
    <3>1. outcomes[run] \in Opt(Outcome)
      BY DEF TypeOK
    <3>2. ASSUME NEW o \in outcomes[run]
          PROVE  [o EXCEPT !.note = o.note /\ o.exp # {e}] \in Outcome
      <4>1. o \in Outcome /\ (o.note /\ o.exp # {e}) \in BOOLEAN
        BY <3>1 DEF Opt
      <4> QED BY <4>1 DEF Outcome
    <3> QED BY <3>1, <3>2 DEF Opt
  <2>2. /\ \/ outcomes' = [run \in Runs |-> kept(run)] /\ UNCHANGED faults
           \/ Fails /\ UNCHANGED outcomes
        /\ ret' = Handled(e)
    BY <1>4 DEF ClearNotes
  <2> HIDE DEF e, kept
  <2>3. outcomes' \in [Runs -> Opt(Outcome)]
    BY <2>1, <2>2 DEF TypeOK
  <2>4. ret' \in Retention /\ faults' \in 0..MaxFaults
    BY <2>2, HandledIsRetention, FailsInBound DEF TypeOK
  <2> QED BY <1>4, <2>3, <2>4 DEF TypeOK, ClearNotes
<1> QED BY <1>2, <1>3, <1>4

-----------------------------------------------------------------------------
(* Reports and their stamps.                                               *)

\* The earliest of some places is one of them.
LEMMA EarliestIsOne == ASSUME NEW S \in SUBSET Nat, S # {} PROVE Earliest(S) \in S
<1> DEFINE R == OpToRel(<, Nat)
<1>1. PICK i \in S : \A j \in S : ~(<<j, i>> \in R)
  <2>1. IsWellFoundedOn(R, Nat)
    BY NatLessThanWellFounded, Zenon
  <2> HIDE DEF R
  <2> QED BY <2>1, WFMin
<1>2. \A j \in Nat, k \in Nat : j < k => <<j, k>> \in R
  BY DEF OpToRel
<1> HIDE DEF R
<1>3. ASSUME NEW j \in S PROVE i <= j
  <2>1. i \in Nat /\ j \in Nat
    OBVIOUS
  <2>2. ~(j < i)
    BY <1>1, <1>2, <2>1
  <2> QED BY <2>1, <2>2
<1> QED BY <1>3 DEF Earliest

\* A stamp is that of one of the run's own ledger rows.
LEMMA StampIsTrue ==
    ASSUME TypeOK, NEW run
    PROVE  /\ Stamp(run) \in Opt(Exps)
           /\ \A e \in Stamp(run) : \E i \in DOMAIN ledger : ledger[i] = [run |-> run, exp |-> {e}]
<1> DEFINE stamped == {i \in RowsOf(ledger, run) : ledger[i].exp # {}}
<1>1. ledger \in Seq(Stamped)
  BY DEF TypeOK
<1>2. stamped \in SUBSET Nat
  BY <1>1 DEF RowsOf
<1>3. CASE stamped = {}
  BY <1>3, OptOfNone DEF Stamp
<1>4. CASE stamped # {}
  <2> DEFINE i == Earliest(stamped)
  <2>1. i \in stamped
    BY <1>2, <1>4, EarliestIsOne
  <2>2. Stamp(run) = ledger[i].exp
    BY <1>4 DEF Stamp
  <2>3. i \in DOMAIN ledger /\ ledger[i] \in Stamped /\ ledger[i].run = run
    BY <1>1, <2>1 DEF RowsOf
  <2> HIDE DEF i, stamped
  <2>4. ASSUME NEW e \in ledger[i].exp PROVE ledger[i] = [run |-> run, exp |-> {e}]
    <3>1. ledger[i].exp = {e}
      BY <2>3 DEF Stamped, Opt
    <3> QED BY <2>3, <3>1 DEF Stamped
  <2> QED BY <2>2, <2>3, <2>4 DEF Stamped
<1> QED BY <1>3, <1>4

LEMMA ReportsKeepTypes ==
    ASSUME TypeOK, NEW p \in Reporters,
           (\E run \in Runs : ReadStamp(p, run)) \/ ReadFailures(p) \/ Upsert(p)
    PROVE  TypeOK'
<1>1. report[p] \in Report /\ NoReport \in Report
  <2>1. {} \in Opt(Runs) /\ {} \in Opt(Exps)
    BY OptOfNone
  <2> QED BY <2>1 DEF TypeOK, Report, NoReport
<1>2. ASSUME NEW run \in Runs, ReadStamp(p, run) PROVE TypeOK'
  <2>1. {run} \in Opt(Runs) /\ Stamp(run) \in Opt(Exps)
    BY OptOfOne, StampIsTrue
  <2>2. [pc |-> IF RowsOf(ledger, run) = {} THEN "failures" ELSE "upsert",
         run |-> {run}, exp |-> Stamp(run)] \in Report
    BY <2>1 DEF Report
  <2>3. report' \in [Reporters -> Report]
    BY <1>2, <2>2 DEF TypeOK, ReadStamp
  <2> QED BY <1>2, <2>3 DEF TypeOK, ReadStamp, tables
<1>3. CASE ReadFailures(p)
  <2>1. [report[p] EXCEPT !.pc = "upsert"] \in Report
    BY <1>1 DEF Report
  <2>2. report' \in [Reporters -> Report]
    BY <1>1, <1>3, <2>1 DEF TypeOK, ReadFailures
  <2> QED BY <1>3, <2>2 DEF TypeOK, ReadFailures, tables
<1>4. CASE Upsert(p)
  <2>1. [exp |-> report[p].exp, note |-> TRUE] \in Outcome
    BY <1>1 DEF Report, Outcome
  <2>2. {[exp |-> report[p].exp, note |-> TRUE]} \in Opt(Outcome)
    BY <2>1, OptOfOne
  <2>3. outcomes' \in [Runs -> Opt(Outcome)]
    BY <1>4, <2>2 DEF TypeOK, Upsert
  <2>4. [NoReport EXCEPT !.pc = "done"] \in Report
    BY <1>1 DEF Report
  <2>5. report' \in [Reporters -> Report]
    BY <1>4, <2>4 DEF TypeOK, Upsert
  <2> QED BY <1>4, <2>3, <2>5 DEF TypeOK, Upsert
<1> QED BY <1>2, <1>3, <1>4

LEMMA StepKeepsTypes == TypeOK /\ [Next]_vars => TypeOK'
<1> SUFFICES ASSUME TypeOK, [Next]_vars PROVE TypeOK'
  OBVIOUS
<1>1. CASE UNCHANGED vars
  BY <1>1 DEF vars, tables, TypeOK
<1>2. ASSUME NEW a \in Admins \cup Clis,
             (\E e \in Exps : Create(a, e) \/ BeginClose(a, e)) \/ Close(a) \/ Reload(a)
      PROVE  TypeOK'
  BY <1>2, CreateKeepsTypes, CloseKeepsTypes, ReloadKeepsTypes DEF Actors
<1>3. CASE Lifecycle
  BY <1>3, CloseExpiredKeepsTypes, ReloadKeepsTypes DEF Lifecycle, Actors
<1>4. CASE Retain
  BY <1>4, SweepKeepsTypes, ExpiryKeepsTypes DEF Retain
<1>5. CASE DayPasses
  BY <1>5, ExperimentsAssumption DEF TypeOK, DayPasses, tables
<1> QED BY <1>1, <1>2, <1>3, <1>4, <1>5, RequestsKeepTypes, ReportsKeepTypes DEF Next

\* Tables, registry, tasks, requests and reports keep their types.
THEOREM ExperimentsTypeCorrect == Spec => []TypeOK
BY InitHasTypes, StepKeepsTypes, PTL DEF Spec

-----------------------------------------------------------------------------
(* Evidence.  The invariant says what each task still has to remember of a *)
(* table that the others change: what it is about to delete or redact is   *)
(* nobody's evidence any more.                                             *)

\* An experiment that is registered, bound, or read to be registered is in the table.
Known ==
    /\ \A e \in Exps : registry[e] = "active" => rows[e].status # "absent"
    /\ \A a \in Actors : \A seen \in actor[a].seen : \A e \in Exps :
          seen[e] = "active" => rows[e].status # "absent"
    /\ \A r \in Requests : \A e \in req[r].exp : rows[e].status # "absent"

Unwritten == \A r \in Requests : req[r].pc = "new" => req[r].exp = {} /\ prompts[r] = {}

\* While a sweep is under way the protected are all that were there when it
\* listed them: the rows of the others are younger than its cutoff.
Sheltered ==
    ret.pc \in {"unstamped", "stamped"} =>
        \A e \in Exps :
            Settings[e].retain /\ rows[e].status # "absent" /\ WindowOpen(e, ret.now)
                => \/ e \in ret.protected
                   \/ \A r \in Requests : req[r].exp = {e} =>
                          \A row \in prompts[r] : ret.now <= row.at

\* What is about to be redacted is over.
Elapsed ==
    ret.pc \in {"redact", "notes"} =>
        /\ ret.todo # {}
        /\ \A e \in ret.todo : rows[e].status = "closed" /\ ~WindowOpen(e, ret.now)

EvidenceInv ==
    TypeOK /\ Known /\ Unwritten /\ ret.now <= now /\ Sheltered /\ Elapsed /\ EvidenceKept

\* A window as a row has it.
OpenIn(row, e, t) ==
    \/ row.status = "active"
    \/ Settings[e].days = 0
    \/ \E closed \in row.closedAt : t < closed + Settings[e].days

\* How rows may change: from absent to active to closed.
Grown ==
    \A e \in Exps :
        \/ rows'[e] = rows[e]
        \/ rows[e].status = "absent" /\ rows'[e].status = "active"
        \/ rows[e].status = "active" /\ rows'[e].status = "closed"

LEMMA GrownStays ==
    ASSUME TypeOK, Grown, NEW e \in Exps
    PROVE  /\ rows[e].status # "absent" => rows'[e].status # "absent"
           /\ rows[e].status = "closed" => rows'[e] = rows[e]
BY DEF Grown

\* A window that is over at some time is over later, and by every row to come.
LEMMA WindowsClose ==
    ASSUME TypeOK, NEW e \in Exps, NEW s \in Nat, NEW t \in Nat, s <= t, OpenIn(rows[e], e, t)
    PROVE  OpenIn(rows[e], e, s)
<1>1. Settings[e].days \in Nat
  BY ExperimentsAssumption DEF Setting
<1>2. \A closed \in rows[e].closedAt : closed \in Nat
  BY DEF TypeOK, Row
<1> QED BY <1>1, <1>2 DEF OpenIn

LEMMA WindowsStayClosed ==
    ASSUME TypeOK, Grown, NEW e \in Exps, NEW t, rows[e].status # "absent",
           OpenIn(rows'[e], e, t)
    PROVE  OpenIn(rows[e], e, t)
BY DEF Grown, OpenIn

LEMMA InitHasEvidence == Init => EvidenceInv
<1> SUFFICES ASSUME Init PROVE EvidenceInv
  OBVIOUS
<1>1. TypeOK
  BY InitHasTypes
<1>2. Known
  BY DEF Init, Known, Idle
<1>3. Unwritten /\ EvidenceKept
  BY DEF Init, Unwritten, EvidenceKept
<1>4. ret.now <= now /\ Sheltered /\ Elapsed
  BY DEF Init, Resting, Sheltered, Elapsed
<1> QED BY <1>1, <1>2, <1>3, <1>4 DEF EvidenceInv

\* Administrators, the command line and the lifecycle's tick.
LEMMA RowsMayGrow ==
    ASSUME EvidenceInv, TypeOK', Grown, UNCHANGED <<req, prompts, ret, now>>, Known'
    PROVE  EvidenceInv'
<1> USE DEF EvidenceInv
<1>1. ret.now \in Nat /\ now \in Nat
  BY DEF TypeOK, Retention
<1>2. Unwritten' /\ (ret.now <= now)'
  BY DEF Unwritten
<1>3. Sheltered'
  <2> SUFFICES ASSUME ret.pc \in {"unstamped", "stamped"}, NEW e \in Exps,
                      Settings[e].retain, rows'[e].status # "absent",
                      OpenIn(rows'[e], e, ret.now), e \notin ret.protected,
                      NEW r \in Requests, req[r].exp = {e}, NEW row \in prompts[r]
               PROVE  ret.now <= row.at
    BY DEF Sheltered, WindowOpen, OpenIn
  <2>1. rows[e].status # "absent"
    BY DEF Known
  <2>2. WindowOpen(e, ret.now)
    BY <2>1, WindowsStayClosed DEF WindowOpen, OpenIn
  <2> QED BY <2>1, <2>2 DEF Sheltered
<1>4. Elapsed'
  <2> SUFFICES ASSUME ret.pc \in {"redact", "notes"}
               PROVE  /\ ret.todo # {}
                      /\ \A e \in ret.todo :
                            rows'[e].status = "closed" /\ ~OpenIn(rows'[e], e, ret.now)
    BY DEF Elapsed, WindowOpen, OpenIn
  <2>1. ASSUME NEW e \in ret.todo
        PROVE  e \in Exps /\ rows[e].status = "closed" /\ ~OpenIn(rows[e], e, ret.now)
    BY DEF Elapsed, WindowOpen, OpenIn, TypeOK, Retention
  <2>2. ASSUME NEW e \in ret.todo PROVE rows'[e] = rows[e]
    BY <2>1, GrownStays
  <2> QED BY <2>1, <2>2 DEF Elapsed
<1>5. EvidenceKept'
  <2> SUFFICES ASSUME NEW r \in Requests, NEW e \in req[r].exp,
                      req[r].pc \in {"charging", "done"}, ~Profile[r].noLog,
                      Settings[e].retain, OpenIn(rows'[e], e, now)
               PROVE  \E row \in prompts[r] : row.content
    BY DEF EvidenceKept, WindowOpen, OpenIn
  <2>1. e \in Exps /\ rows[e].status # "absent"
    BY DEF TypeOK, Request, Opt, Known
  <2>2. WindowOpen(e, now)
    BY <2>1, WindowsStayClosed DEF WindowOpen, OpenIn
  <2> QED BY <2>2 DEF EvidenceKept
<1> QED BY <1>2, <1>3, <1>4, <1>5

LEMMA WritersKeepEvidence ==
    ASSUME EvidenceInv, TypeOK',
           \/ \E a \in Admins \cup Clis :
                 (\E e \in Exps : Create(a, e) \/ BeginClose(a, e)) \/ Close(a) \/ Reload(a)
           \/ Lifecycle
    PROVE  EvidenceInv'
<1>1. TypeOK /\ Known
  BY DEF EvidenceInv
<1>2. ASSUME Grown, UNCHANGED <<registry, req>>,
             \A a \in Actors : actor'[a].seen \subseteq actor[a].seen
      PROVE  Known'
  <2>1. \A e \in Exps : rows[e].status # "absent" => rows'[e].status # "absent"
    BY <1>1, <1>2, GrownStays
  <2>2. \A r \in Requests : req[r].exp \subseteq Exps
    BY <1>1 DEF TypeOK, Request, Opt
  <2> QED BY <1>1, <1>2, <2>1, <2>2 DEF Known
<1>3. ASSUME NEW a \in Actors, NEW e \in Exps, Create(a, e) \/ BeginClose(a, e)
      PROVE  EvidenceInv'
  <2>1. Grown
    <3>1. CASE Create(a, e)
      <4>1. rows[e] \in Row /\ rows[e].status = "absent"
        BY <1>1, <3>1 DEF TypeOK, Create
      <4>2. [rows[e] EXCEPT !.status = "active"].status = "active"
        BY <4>1 DEF Row
      <4> QED BY <1>1, <3>1, <4>1, <4>2 DEF TypeOK, Create, Grown
    <3>2. CASE BeginClose(a, e)
      BY <3>2 DEF BeginClose, Grown, tables
    <3> QED BY <1>3, <3>1, <3>2
  <2>3. \A b \in Actors : actor'[b].seen = actor[b].seen
    BY <1>1, <1>3 DEF TypeOK, Create, BeginClose, Actor
  <2>2. UNCHANGED <<registry, req, prompts, ret, now>>
    BY <1>3 DEF Create, BeginClose, tables
  <2> QED BY <1>2, <2>1, <2>2, <2>3, RowsMayGrow
<1>4. ASSUME NEW a \in Actors, Close(a) PROVE EvidenceInv'
  <2>1. PICK e \in actor[a].at :
            IF Closes(e)
            THEN /\ rows' = [rows EXCEPT ![e] = ClosedNow(e)]
                 /\ actor' = [actor EXCEPT ![a].pc = IF a \in Admins THEN "read" ELSE "audit",
                                          ![a].at = {}, ![a].closing = {e}]
            ELSE actor' = [actor EXCEPT ![a] = Idle] /\ UNCHANGED rows
    BY <1>4 DEF Close
  <2>2. e \in Exps
    BY <1>1 DEF TypeOK, Actor, Opt
  <2>3. Grown
    BY <1>1, <2>1, <2>2, ClosedIsRow DEF Closes, Grown, TypeOK
  <2>4. \A b \in Actors : actor'[b].seen \subseteq actor[b].seen
    <3>1. actor'[a].seen \in {actor[a].seen, {}}
      BY <1>1, <2>1 DEF TypeOK, Actor, Idle
    <3>2. \A b \in Actors \ {a} : actor'[b] = actor[b]
      BY <1>1, <2>1 DEF TypeOK
    <3> QED BY <3>1, <3>2
  <2> QED BY <1>2, <1>4, <2>3, <2>4, RowsMayGrow DEF Close
<1>5. ASSUME NEW a \in Actors, Reload(a) PROVE EvidenceInv'
  <2>1. Grown /\ UNCHANGED <<rows, req, prompts, ret, now>>
    BY <1>5 DEF Reload, ReadRows, StoreRegistry, Audit, Grown, tables
  <2>2. Known'
    <3>1. CASE ReadRows(a)
      <4> DEFINE read == [e \in Exps |-> rows[e].status]
      <4>1. UNCHANGED registry /\ \A b \in Actors \ {a} : actor'[b] = actor[b]
        BY <1>1, <3>1 DEF TypeOK, ReadRows
      <4>2. actor'[a].seen \in {actor[a].seen, {read}}
        BY <1>1, <3>1 DEF TypeOK, ReadRows, Actor
      <4>3. \A e \in Exps : read[e] = "active" => rows[e].status # "absent"
        OBVIOUS
      <4> HIDE DEF read
      <4> QED BY <1>1, <2>1, <4>1, <4>2, <4>3 DEF Known
    <3>2. CASE StoreRegistry(a)
      <4>1. PICK seen \in actor[a].seen : registry' = seen
        BY <3>2 DEF StoreRegistry
      <4>2. \A b \in Actors : actor'[b].seen \in {actor[b].seen, {}}
        BY <1>1, <3>2 DEF TypeOK, StoreRegistry, Actor
      <4> QED BY <1>1, <2>1, <4>1, <4>2 DEF Known
    <3>3. CASE Audit(a)
      <4>1. \A b \in Actors : actor'[b].seen = actor[b].seen
        <5>1. PICK e \in actor[a].closing :
                  actor' = [actor EXCEPT ![a].closing = actor[a].closing \ {e},
                               ![a].pc = IF actor[a].closing \ {e} # {} THEN "audit"
                                         ELSE IF a = Tick THEN "read" ELSE "idle"]
          BY <3>3 DEF Audit
        <5> QED BY <1>1, <5>1 DEF TypeOK, Actor
      <4> QED BY <1>1, <2>1, <3>3, <4>1 DEF Known, Audit
    <3> QED BY <1>5, <3>1, <3>2, <3>3 DEF Reload
  <2> QED BY <2>1, <2>2, RowsMayGrow
<1>6. CASE CloseExpired
  <2>1. Grown
    BY <1>1, <1>6, ClosedIsRow DEF CloseExpired, Grown, Closes, TypeOK
  <2>2. \A b \in Actors : actor'[b].seen = actor[b].seen
    <3> DEFINE due == {e \in Exps : Closes(e) /\ Expired(e)}
    <3>1. \/ actor' = [actor EXCEPT ![Tick].pc = AfterCloseExpired(due), ![Tick].closing = due]
          \/ actor' = [actor EXCEPT ![Tick].pc = "read"]
      BY <1>6 DEF CloseExpired
    <3> HIDE DEF due
    <3>2. CASE actor' = [actor EXCEPT ![Tick].pc = AfterCloseExpired(due), ![Tick].closing = due]
      BY <1>1, <3>2 DEF TypeOK, Actor
    <3>3. CASE actor' = [actor EXCEPT ![Tick].pc = "read"]
      BY <1>1, <3>3 DEF TypeOK, Actor
    <3> QED BY <3>1, <3>2, <3>3
  <2> QED BY <1>2, <1>6, <2>1, <2>2, RowsMayGrow DEF CloseExpired
<1> QED BY <1>3, <1>4, <1>5, <1>6 DEF Lifecycle, Actors

\* A request's steps: it is bound to what is in the table, and writes what a
\* retaining experiment may keep, dated today.
LEMMA RequestsKeepEvidence ==
    ASSUME EvidenceInv, TypeOK',
           NEW r \in Requests, Bind(r) \/ LogPrompt(r) \/ Charge(r) \/ RecordFailure(r)
    PROVE  EvidenceInv'
<1>1. TypeOK /\ req[r] \in Request /\ prompts[r] \in Opt(Prompt) /\ ret.now <= now
  BY DEF EvidenceInv, TypeOK
<1>2. UNCHANGED <<rows, registry, actor, ret, now>>
  BY DEF Bind, LogPrompt, Charge, RecordFailure, tables
<1>3. \A o \in Requests \ {r} : req'[o] = req[o] /\ prompts'[o] = prompts[o]
  BY <1>1 DEF TypeOK, Bind, LogPrompt, Charge, RecordFailure, tables
<1>4. \/ req[r].pc = "new" /\ prompts'[r] = {} /\ \A e \in req'[r].exp : registry[e] = "active"
      \/ req'[r].exp = req[r].exp
  BY <1>1 DEF EvidenceInv, Unwritten, TypeOK, Bind, Binding, LogPrompt, Charge, RecordFailure,
              Request, tables
<1>5. prompts'[r] \in {prompts[r], {[at |-> now, content |-> KeepsContent(r)]}}
  BY <1>1 DEF TypeOK, Bind, LogPrompt, Charge, RecordFailure, tables
<1>6. req'[r].pc # "new"
  BY <1>1 DEF TypeOK, Bind, LogPrompt, Charge, RecordFailure, Request
<1>7. req'[r].pc \in {"charging", "done"} =>
         \/ LogPrompt(r) /\ req'[r].exp = req[r].exp
         \/ /\ req[r].pc = "charging" /\ req'[r].exp = req[r].exp /\ prompts'[r] = prompts[r]
  BY <1>1 DEF TypeOK, Bind, LogPrompt, Charge, RecordFailure, Request
<1>8. Known'
  <2>1. \A e \in Exps : registry[e] = "active" => rows[e].status # "absent"
    BY DEF EvidenceInv, Known
  <2>2. \A e \in req'[r].exp : e \in Exps
    BY DEF TypeOK, Request, Opt
  <2> QED BY <1>2, <1>3, <1>4, <2>1, <2>2 DEF EvidenceInv, Known
<1>9. Unwritten' /\ (ret.now <= now)' /\ Elapsed'
  BY <1>1, <1>2, <1>3, <1>6 DEF EvidenceInv, Unwritten, Elapsed, WindowOpen
<1>10. Sheltered'
  <2> SUFFICES ASSUME ret.pc \in {"unstamped", "stamped"}, NEW e \in Exps,
                      Settings[e].retain, rows[e].status # "absent",
                      WindowOpen(e, ret.now), e \notin ret.protected,
                      NEW o \in Requests, req'[o].exp = {e}, NEW row \in prompts'[o]
               PROVE  ret.now <= row.at
    BY <1>2 DEF Sheltered, WindowOpen
  <2>1. \A q \in Requests : req[q].exp = {e} => \A w \in prompts[q] : ret.now <= w.at
    BY DEF EvidenceInv, Sheltered
  <2>2. CASE o # r
    BY <1>3, <2>1, <2>2
  <2>3. CASE o = r
    <3>1. row \in prompts[r] \/ row.at = now
      BY <1>5, <2>3
    <3> QED BY <1>1, <1>4, <2>1, <2>3, <3>1
  <2> QED BY <2>2, <2>3
<1>11. EvidenceKept'
  <2> SUFFICES ASSUME NEW o \in Requests, NEW e \in req'[o].exp,
                      req'[o].pc \in {"charging", "done"}, ~Profile[o].noLog,
                      Settings[e].retain, WindowOpen(e, now)
               PROVE  \E row \in prompts'[o] : row.content
    BY <1>2 DEF EvidenceKept, WindowOpen
  <2>1. CASE o # r
    BY <1>3, <2>1 DEF EvidenceInv, EvidenceKept
  <2>2. CASE o = r /\ LogPrompt(r) /\ req'[r].exp = req[r].exp
    <3>1. Retains(r) /\ WritesPrompt(r) /\ KeepsContent(r)
      BY <2>2 DEF Retains, WritesPrompt, KeepsContent
    <3>2. prompts'[r] = {[at |-> now, content |-> KeepsContent(r)]}
      BY <1>1, <2>2, <3>1 DEF LogPrompt, TypeOK
    <3> QED BY <2>2, <3>1, <3>2
  <2>3. CASE o = r /\ req[r].pc = "charging" /\ req'[r].exp = req[r].exp
             /\ prompts'[r] = prompts[r]
    BY <2>3 DEF EvidenceInv, EvidenceKept
  <2> QED BY <1>7, <2>1, <2>2, <2>3
<1> QED BY <1>8, <1>9, <1>10, <1>11 DEF EvidenceInv

\* A sweep: what it lists, and what it may delete.
LEMMA SweepKeepsEvidence ==
    ASSUME EvidenceInv, TypeOK',
           BeginRetention \/ ListProtected \/ PurgeUnstamped \/ PurgeStamped
    PROVE  EvidenceInv'
<1>1. TypeOK /\ ret \in Retention /\ ret.now <= now /\ now \in Nat /\ RetentionDays \in Nat
  BY ExperimentsAssumption DEF EvidenceInv, TypeOK
<1>2. UNCHANGED <<rows, registry, actor, req, now>>
  BY DEF BeginRetention, ListProtected, PurgeUnstamped, PurgeStamped, tables
<1>3. ret'.pc \in {"list", "unstamped", "stamped", "closed"}
  BY <1>1 DEF BeginRetention, ListProtected, PurgeUnstamped, PurgeStamped, SkipSweep, Unreadable,
              Retention
<1>4. ret'.now = ret.now \/ (ret'.now = now /\ ret'.pc \in {"list", "closed"})
  BY <1>1 DEF BeginRetention, ListProtected, PurgeUnstamped, PurgeStamped, SkipSweep, Unreadable,
              Retention
<1>5. \A r \in Requests : prompts'[r] \in {prompts[r], {}}
  BY DEF TypeOK, BeginRetention, ListProtected, PurgeUnstamped, PurgeStamped, Deleted, tables
<1>6. Known' /\ Unwritten' /\ (ret.now <= now)' /\ Elapsed'
  BY <1>1, <1>2, <1>3, <1>4, <1>5 DEF EvidenceInv, Known, Unwritten, Elapsed
<1>7. Sheltered'
  <2>1. CASE ret.pc = "list"
    <3>1. ret'.pc = "unstamped" =>
             ret'.protected = {e \in Retaining : WindowOpen(e, ret.now)} /\ ret'.now = ret.now
      BY <1>1, <2>1 DEF BeginRetention, ListProtected, PurgeUnstamped, PurgeStamped,
                        SkipSweep, Unreadable, Retention
    <3>2. ret'.pc # "stamped"
      BY <1>1, <2>1 DEF BeginRetention, ListProtected, PurgeUnstamped, PurgeStamped,
                        SkipSweep, Unreadable, Retention
    <3> QED BY <1>2, <3>1, <3>2 DEF Sheltered, Retaining, WindowOpen
  <2>2. CASE ret.pc = "unstamped" /\ ret'.pc = "stamped"
    <3>1. ret'.now = ret.now /\ ret'.protected = ret.protected
      BY <1>1, <2>2 DEF BeginRetention, ListProtected, PurgeUnstamped, PurgeStamped,
                        SkipSweep, Unreadable, Retention
    <3> QED BY <1>2, <1>5, <2>2, <3>1 DEF EvidenceInv, Sheltered, WindowOpen
  <2>3. CASE ret.pc # "list" /\ ~(ret.pc = "unstamped" /\ ret'.pc = "stamped")
    <3>1. ret'.pc \notin {"unstamped", "stamped"}
      BY <1>1, <2>3 DEF BeginRetention, ListProtected, PurgeUnstamped, PurgeStamped,
                        SkipSweep, Unreadable, Retention
    <3> QED BY <3>1 DEF Sheltered
  <2> QED BY <2>1, <2>2, <2>3
<1>8. EvidenceKept'
  <2> SUFFICES ASSUME NEW r \in Requests, NEW e \in req[r].exp,
                      req[r].pc \in {"charging", "done"}, ~Profile[r].noLog,
                      Settings[e].retain, WindowOpen(e, now)
               PROVE  \E row \in prompts'[r] : row.content
    BY <1>2 DEF EvidenceKept, WindowOpen
  <2>1. \E row \in prompts[r] : row.content
    BY DEF EvidenceInv, EvidenceKept
  <2>2. e \in Exps /\ req[r].exp = {e} /\ rows[e].status # "absent"
    BY <1>1 DEF EvidenceInv, TypeOK, Request, Opt, Known
  <2>3. WindowOpen(e, ret.now)
    <3>1. ret.now \in Nat
      BY <1>1 DEF Retention
    <3> QED BY <1>1, <2>2, <3>1, WindowsClose DEF WindowOpen, OpenIn
  <2>4. CASE UNCHANGED prompts
    BY <2>1, <2>4
  <2>5. CASE ret.pc \in {"unstamped", "stamped"}
    <3>1. e \in ret.protected \/ ~Old(r)
      <4>1. ASSUME e \notin ret.protected, NEW row \in prompts[r]
            PROVE  ~(row.at + RetentionDays < ret.now)
        <5>1. ret.now <= row.at
          BY <2>2, <2>3, <2>5, <4>1 DEF EvidenceInv, Sheltered
        <5>2. row.at \in Nat /\ ret.now \in Nat
          BY <1>1, <4>1 DEF TypeOK, Prompt, Opt, Retention
        <5> QED BY <1>1, <5>1, <5>2
      <4> QED BY <4>1 DEF Old
    <3>2. prompts'[r] = prompts[r]
      BY <1>1, <2>2, <2>5, <3>1 DEF TypeOK, BeginRetention, ListProtected, PurgeUnstamped,
                                    PurgeStamped, Deleted
    <3> QED BY <2>1, <3>2
  <2>6. UNCHANGED prompts \/ ret.pc \in {"unstamped", "stamped"}
    BY DEF BeginRetention, ListProtected, PurgeUnstamped, PurgeStamped, tables
  <2> QED BY <2>4, <2>5, <2>6
<1> QED BY <1>6, <1>7, <1>8 DEF EvidenceInv

\* The fields of the retention task, at rest and with something to redact.
LEMMA RestingFields == Resting.pc = "idle" /\ Resting.now = 0
BY DEF Resting

LEMMA RedactFields ==
    ASSUME TypeOK, NEW todo
    PROVE  /\ [ret EXCEPT !.pc = "redact", !.todo = todo].pc = "redact"
           /\ [ret EXCEPT !.pc = "redact", !.todo = todo].now = ret.now
           /\ [ret EXCEPT !.pc = "redact", !.todo = todo].todo = todo
BY DEF TypeOK, Retention

LEMMA NotesFields ==
    ASSUME TypeOK, NEW e
    PROVE  NotesAfter(e).pc = "notes" /\ NotesAfter(e).now = ret.now /\ NotesAfter(e).todo = ret.todo
BY DEF TypeOK, Retention, NotesAfter

LEMMA HandledFields ==
    ASSUME TypeOK, NEW e
    PROVE  \/ Handled(e).pc = "idle" /\ Handled(e).now = 0
           \/ /\ Handled(e).pc = "redact" /\ Handled(e).now = ret.now
              /\ Handled(e).todo = ret.todo \ {e} /\ ret.todo # {e}
BY RestingFields, RedactFields DEF Handled

\* Redaction: it touches the content of what is over.
LEMMA ExpiryKeepsEvidence ==
    ASSUME EvidenceInv, TypeOK', ListElapsed \/ Redact \/ ClearNotes
    PROVE  EvidenceInv'
<1> DEFINE e == First(ret.todo)
<1>1. TypeOK /\ ret \in Retention /\ ret.now <= now /\ now \in Nat
  BY DEF EvidenceInv, TypeOK
<1>2. UNCHANGED <<rows, registry, actor, req, now>>
  BY DEF ListElapsed, Redact, ClearNotes, tables
<1>3. /\ ret'.pc \in {"idle", "redact", "notes"}
      /\ ret'.now \in {ret.now, 0}
  <2>1. CASE ListElapsed
    <3>1. ret' = Resting \/ \E over : ret' = [ret EXCEPT !.pc = "redact", !.todo = over]
      BY <2>1 DEF ListElapsed, Rest
    <3>2. CASE ret' = Resting
      BY <3>2, RestingFields
    <3>3. ASSUME NEW over, ret' = [ret EXCEPT !.pc = "redact", !.todo = over]
          PROVE  ret'.pc = "redact" /\ ret'.now = ret.now
      BY <1>1, <3>3, RedactFields
    <3> QED BY <3>1, <3>2, <3>3
  <2>2. CASE Redact \/ ClearNotes
    <3>1. ret' \in {NotesAfter(e), Handled(e)}
      BY <2>2 DEF Redact, ClearNotes
    <3> HIDE DEF e
    <3> QED BY <1>1, <3>1, NotesFields, HandledFields
  <2> QED BY <2>1, <2>2
<1>4. (ret.now <= now)' /\ Sheltered'
  BY <1>1, <1>2, <1>3 DEF Sheltered
<1>5. \A r \in Requests : prompts[r] = {} => prompts'[r] = {}
  BY <1>1 DEF TypeOK, ListElapsed, Redact, ClearNotes, tables
<1>6. Known' /\ Unwritten'
  BY <1>2, <1>5 DEF EvidenceInv, Known, Unwritten
<1>7. Elapsed'
  <2>1. CASE ListElapsed
    <3> DEFINE over == {x \in Retaining : rows[x].status = "closed" /\ ~WindowOpen(x, ret.now)}
    <3>1. \A x \in over : rows[x].status = "closed" /\ ~WindowOpen(x, ret.now)
      OBVIOUS
    <3>2. ret' = Resting \/ (over # {} /\ ret' = [ret EXCEPT !.pc = "redact", !.todo = over])
      BY <2>1 DEF ListElapsed, Rest
    <3> HIDE DEF over
    <3>3. ret'.pc \in {"redact", "notes"} => ret'.todo = over /\ over # {} /\ ret'.now = ret.now
      <4>1. CASE ret' = Resting
        BY <4>1, RestingFields
      <4>2. CASE over # {} /\ ret' = [ret EXCEPT !.pc = "redact", !.todo = over]
        BY <1>1, <4>2, RedactFields
      <4> QED BY <3>2, <4>1, <4>2
    <3> QED BY <1>2, <3>1, <3>3 DEF Elapsed, WindowOpen
  <2>2. CASE Redact \/ ClearNotes
    <3>1. ret.pc \in {"redact", "notes"}
      BY <2>2 DEF Redact, ClearNotes
    <3>2. ret'.pc \in {"redact", "notes"} =>
             /\ ret'.now = ret.now
             /\ \/ ret'.todo = ret.todo
                \/ ret'.todo = ret.todo \ {e} /\ ret.todo # {e}
      <4>1. ret' \in {NotesAfter(e), Handled(e)}
        BY <2>2 DEF Redact, ClearNotes
      <4> HIDE DEF e
      <4>2. CASE ret' = NotesAfter(e)
        BY <1>1, <4>2, NotesFields
      <4>3. CASE ret' = Handled(e)
        BY <1>1, <4>3, HandledFields
      <4> QED BY <4>1, <4>2, <4>3
    <3>3. ret.todo # {} /\ \A x \in ret.todo : rows[x].status = "closed" /\ ~WindowOpen(x, ret.now)
      BY <3>1 DEF EvidenceInv, Elapsed
    <3>4. e \in ret.todo
      BY <3>3, FirstIsOne
    <3> HIDE DEF e
    <3>5. ret'.pc \in {"redact", "notes"} => ret'.todo # {} /\ ret'.todo \subseteq ret.todo
      BY <3>2, <3>3, <3>4
    <3> QED BY <1>2, <3>2, <3>3, <3>5 DEF Elapsed, WindowOpen
  <2> QED BY <2>1, <2>2
<1>8. EvidenceKept'
  <2> SUFFICES ASSUME NEW r \in Requests, NEW x \in req[r].exp,
                      req[r].pc \in {"charging", "done"}, ~Profile[r].noLog,
                      Settings[x].retain, WindowOpen(x, now)
               PROVE  \E row \in prompts'[r] : row.content
    BY <1>2 DEF EvidenceKept, WindowOpen
  <2>1. \E row \in prompts[r] : row.content
    BY DEF EvidenceInv, EvidenceKept
  <2>2. x \in Exps /\ req[r].exp = {x}
    BY <1>1 DEF TypeOK, Request, Opt
  <2>3. WindowOpen(x, ret.now)
    <3>1. ret.now \in Nat
      BY <1>1 DEF Retention
    <3> QED BY <1>1, <2>2, <3>1, WindowsClose DEF WindowOpen, OpenIn
  <2>4. CASE Redact
    <3>1. e \in ret.todo /\ ~WindowOpen(e, ret.now)
      BY <2>4, FirstIsOne DEF EvidenceInv, Elapsed, Redact
    <3>2. req[r].exp # {e}
      BY <2>2, <2>3, <3>1
    <3>3. prompts'[r] = prompts[r]
      BY <1>1, <2>4, <3>2 DEF Redact, TypeOK
    <3> QED BY <2>1, <3>3
  <2>5. CASE ListElapsed \/ ClearNotes
    BY <2>1, <2>5 DEF ListElapsed, ClearNotes, tables
  <2> QED BY <2>4, <2>5
<1> QED BY <1>4, <1>6, <1>7, <1>8 DEF EvidenceInv

\* Reports touch none of it, and as days pass windows only close.
LEMMA DaysKeepEvidence ==
    ASSUME EvidenceInv, TypeOK',
           \/ \E p \in Reporters : (\E run \in Runs : ReadStamp(p, run)) \/ ReadFailures(p) \/ Upsert(p)
           \/ DayPasses \/ UNCHANGED vars
    PROVE  EvidenceInv'
<1>1. TypeOK /\ ret \in Retention /\ ret.now <= now /\ now \in Nat
  BY DEF EvidenceInv, TypeOK
<1>2. UNCHANGED <<rows, registry, actor, req, prompts, ret>> /\ now' \in Nat /\ now <= now'
  BY <1>1 DEF ReadStamp, ReadFailures, Upsert, DayPasses, vars, tables
<1>3. ret.now \in Nat
  BY <1>1 DEF Retention
<1>4. Known' /\ Unwritten' /\ (ret.now <= now)' /\ Sheltered' /\ Elapsed'
  BY <1>1, <1>2, <1>3 DEF EvidenceInv, Known, Unwritten, Sheltered, Elapsed, WindowOpen
<1>5. EvidenceKept'
  <2> SUFFICES ASSUME NEW r \in Requests, NEW e \in req[r].exp,
                      req[r].pc \in {"charging", "done"}, ~Profile[r].noLog,
                      Settings[e].retain, OpenIn(rows[e], e, now')
               PROVE  \E row \in prompts[r] : row.content
    BY <1>2 DEF EvidenceKept, WindowOpen, OpenIn
  <2>1. e \in Exps
    BY <1>1 DEF TypeOK, Request, Opt
  <2>2. WindowOpen(e, now)
    BY <1>1, <1>2, <2>1, WindowsClose DEF WindowOpen, OpenIn
  <2> QED BY <2>2 DEF EvidenceInv, EvidenceKept
<1> QED BY <1>4, <1>5 DEF EvidenceInv

LEMMA StepKeepsEvidence == EvidenceInv /\ [Next]_vars => EvidenceInv'
<1> SUFFICES ASSUME EvidenceInv, [Next]_vars PROVE EvidenceInv'
  OBVIOUS
<1>1. TypeOK'
  BY StepKeepsTypes DEF EvidenceInv
<1>2. CASE Retain
  BY <1>1, <1>2, SweepKeepsEvidence, ExpiryKeepsEvidence DEF Retain
<1> QED BY <1>1, <1>2, WritersKeepEvidence, RequestsKeepEvidence, DaysKeepEvidence DEF Next

\* Tables, registry and the tasks at work on them agree in every state.
THEOREM EvidenceInvariant == Spec => []EvidenceInv
BY InitHasEvidence, StepKeepsEvidence, PTL DEF Spec

\* Until the window of a retaining experiment is over every bound answer that
\* may be logged keeps its row and its content, whatever retention deletes,
\* whoever closes the experiment and whichever query fails.
THEOREM EvidenceIsKept == Spec => []EvidenceKept
<1>1. EvidenceInv => EvidenceKept
  BY DEF EvidenceInv
<1> QED BY <1>1, EvidenceInvariant, PTL

-----------------------------------------------------------------------------
(* Stamps.  A report carries its stamp from one query to the next, while   *)
(* the ledger grows; rows of the ledger stay.                              *)

StampOfRun(run, e) == \E i \in DOMAIN ledger : ledger[i] = [run |-> run, exp |-> {e}]

Carried ==
    \A p \in Reporters : \A run \in report[p].run : \A e \in report[p].exp : StampOfRun(run, e)

StampsInv == Carried /\ StampsOfTheRun

\* A row of the ledger stays.
LEMMA LedgerGrows ==
    ASSUME TypeOK, [Next]_vars, NEW run, NEW e, StampOfRun(run, e)
    PROVE  StampOfRun(run, e)'
<1>1. ledger \in Seq(Stamped)
  BY DEF TypeOK
<1>2. ledger' = ledger \/ \E r \in Requests : Charge(r)
  BY DEF Next, Lifecycle, Reload, Retain, Create, BeginClose, Close, ReadRows, StoreRegistry, Audit,
         CloseExpired, Bind, LogPrompt, RecordFailure, BeginRetention, ListProtected, PurgeUnstamped,
         PurgeStamped, ListElapsed, Redact, ClearNotes, ReadStamp, ReadFailures, Upsert, DayPasses,
         tables, vars
<1>3. ASSUME NEW row, ledger' = Append(ledger, row) PROVE StampOfRun(run, e)'
  <2>1. PICK i \in DOMAIN ledger : ledger[i] = [run |-> run, exp |-> {e}]
    BY DEF StampOfRun
  <2>2. i \in DOMAIN ledger' /\ ledger'[i] = ledger[i]
    BY <1>1, <1>3
  <2> QED BY <2>1, <2>2 DEF StampOfRun
<1> QED BY <1>2, <1>3 DEF StampOfRun, Charge

LEMMA StepKeepsStamps == TypeOK /\ StampsInv /\ [Next]_vars => StampsInv'
<1> SUFFICES ASSUME TypeOK, StampsInv, [Next]_vars PROVE StampsInv'
  OBVIOUS
<1>1. \A run, e : StampOfRun(run, e) => StampOfRun(run, e)'
  BY LedgerGrows
<1>2. ASSUME UNCHANGED <<outcomes, report>> PROVE StampsInv'
  BY <1>1, <1>2 DEF StampsInv, Carried, StampsOfTheRun, StampOfRun
<1>3. ASSUME NEW p \in Reporters, NEW run \in Runs, ReadStamp(p, run) PROVE StampsInv'
  <2>1. \A e \in Stamp(run) : StampOfRun(run, e)
    BY StampIsTrue DEF StampOfRun
  <2>2. \A q \in Reporters :
           \/ report'[q] = report[q]
           \/ report'[q].run = {run} /\ report'[q].exp = Stamp(run)
    BY <1>3 DEF TypeOK, ReadStamp
  <2>3. Carried'
    BY <1>1, <2>1, <2>2 DEF StampsInv, Carried
  <2>4. StampsOfTheRun'
    BY <1>1, <1>3 DEF StampsInv, StampsOfTheRun, StampOfRun, ReadStamp, tables
  <2> QED BY <2>3, <2>4 DEF StampsInv
<1>4. ASSUME NEW p \in Reporters, ReadFailures(p) PROVE StampsInv'
  <2>1. \A q \in Reporters :
           \/ report'[q].run = report[q].run /\ report'[q].exp = report[q].exp
           \/ report'[q].run = {}
    BY <1>4 DEF TypeOK, ReadFailures, Report, NoReport
  <2>2. Carried'
    BY <1>1, <2>1 DEF StampsInv, Carried
  <2>3. StampsOfTheRun'
    BY <1>1, <1>4 DEF StampsInv, StampsOfTheRun, StampOfRun, ReadFailures, tables
  <2> QED BY <2>2, <2>3 DEF StampsInv
<1>5. ASSUME NEW p \in Reporters, Upsert(p) PROVE StampsInv'
  <2>1. \A q \in Reporters : report'[q] = report[q] \/ report'[q].run = {}
    BY <1>5 DEF TypeOK, Upsert, NoReport
  <2>2. Carried'
    BY <1>1, <2>1 DEF StampsInv, Carried
  <2>3. ASSUME NEW run \in Runs, NEW o \in outcomes'[run], NEW e \in o.exp
        PROVE  StampOfRun(run, e)
    <3>1. CASE run \in report[p].run
      <4>1. o.exp = report[p].exp
        BY <1>5, <2>3, <3>1 DEF Upsert
      <4> QED BY <2>3, <3>1, <4>1 DEF StampsInv, Carried
    <3>2. CASE run \notin report[p].run
      BY <1>5, <2>3, <3>2 DEF Upsert, StampsInv, StampsOfTheRun, StampOfRun
    <3> QED BY <3>1, <3>2
  <2>4. StampsOfTheRun'
    BY <1>1, <2>3 DEF StampsOfTheRun, StampOfRun
  <2> QED BY <2>2, <2>4 DEF StampsInv
<1>6. CASE ClearNotes
  <2>1. UNCHANGED report
    BY <1>6 DEF ClearNotes
  <2>2. ASSUME NEW run \in Runs, NEW o \in outcomes'[run]
        PROVE  \E was \in outcomes[run] : o.exp = was.exp
    <3>1. outcomes[run] \in Opt(Outcome)
      BY DEF TypeOK
    <3>2. CASE UNCHANGED outcomes
      BY <2>2, <3>2
    <3>3. CASE outcomes' = [ru \in Runs |-> {[w EXCEPT !.note = w.note /\ w.exp # {First(ret.todo)}] :
                                              w \in outcomes[ru]}]
      <4>1. PICK was \in outcomes[run] :
                o = [was EXCEPT !.note = was.note /\ was.exp # {First(ret.todo)}]
        BY <2>2, <3>3
      <4>2. was \in Outcome
        BY <3>1 DEF Opt
      <4>3. o.exp = was.exp
        BY <4>1, <4>2 DEF Outcome
      <4> QED BY <4>3
    <3> QED BY <1>6, <3>2, <3>3 DEF ClearNotes
  <2>3. Carried'
    BY <1>1, <2>1 DEF StampsInv, Carried
  <2>4. StampsOfTheRun'
    <3>1. ASSUME NEW run \in Runs, NEW o \in outcomes'[run], NEW e \in o.exp
          PROVE  StampOfRun(run, e)
      BY <2>2, <3>1 DEF StampsInv, StampsOfTheRun, StampOfRun
    <3> QED BY <1>1, <3>1 DEF StampsOfTheRun, StampOfRun
  <2> QED BY <2>3, <2>4 DEF StampsInv
<1>7. \/ UNCHANGED <<outcomes, report>> \/ ClearNotes
      \/ \E p \in Reporters : (\E run \in Runs : ReadStamp(p, run)) \/ ReadFailures(p) \/ Upsert(p)
  BY DEF Next, Lifecycle, Reload, Retain, Create, BeginClose, Close, ReadRows, StoreRegistry, Audit,
         CloseExpired, Bind, LogPrompt, Charge, RecordFailure, BeginRetention, ListProtected,
         PurgeUnstamped, PurgeStamped, ListElapsed, Redact, DayPasses, tables, vars
<1> QED BY <1>2, <1>3, <1>4, <1>5, <1>6, <1>7

\* An outcome carries no stamp but one of a ledger row of its own run: not of
\* another user's with the same correlation id, and not of one that is gone.
THEOREM StampsAreOfTheRun == Spec => []StampsOfTheRun
<1>1. Init => StampsInv
  BY DEF Init, StampsInv, Carried, StampsOfTheRun, NoReport
<1>2. StampsInv => StampsOfTheRun
  BY DEF StampsInv
<1> QED BY <1>1, <1>2, StepKeepsStamps, ExperimentsTypeCorrect, PTL DEF Spec
=============================================================================
