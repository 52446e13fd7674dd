---------------------------- MODULE Experiments ----------------------------
(***************************************************************************)
(* Experiments: the rows administrators, the command line and the minute's *)
(* tick write, the registry requests bind from, the rows a bound request   *)
(* leaves behind, the hourly retention tick that purges and redacts them,  *)
(* and the outcomes applications report about their runs.                  *)
(*                                                                         *)
(* Every query is a step of its own: five kinds of task share the tables,  *)
(* and none holds a lock from one query to the next.  The command line is  *)
(* another process, so what it writes reaches the registry with the tick.  *)
(*                                                                         *)
(* The clock ticks in days.  An optional value is a set of at most one.    *)
(* A run is what a user sent under one correlation id.                     *)
(***************************************************************************)
EXTENDS Naturals, Sequences

CONSTANTS
    Exps, Requests, Admins, Clis, Reporters,
    Settings,           \* experiment -> what it was, or may be, created with
    Earlier,            \* ledger rows of requests that came before
    Profile,            \* request -> whose run it is of, and its headers
    Store,              \* [storage]: "nothing", "rows" or "content"
    RetentionDays,      \* prompt_retention_days, 0 for never
    MaxActs,            \* bound: what administrators and the command line do
    MaxFaults,          \* bound: queries that fail
    MaxNow              \* bound: the last day looked at

VARIABLES
    rows,               \* the experiments table
    registry,           \* ExperimentRegistry::snapshots: the status of each
    actor,              \* whoever closes or reloads -> what it is at
    req,                \* request -> its handler and its logging task
    prompts,            \* request -> the prompt row it wrote
    ledger, failures,   \* cost_ledger and request_failures, oldest first
    outcomes,           \* run -> its run_outcomes row
    report,             \* reporter -> its handler
    ret,                \* the retention task
    now, acts, faults

tables == <<rows, prompts, ledger, failures, outcomes>>
vars == <<tables, registry, actor, req, report, ret, now, acts, faults>>

Opt(S) == {s \in SUBSET S : \A x, y \in s : x = y}

Tick == "tick"
Actors == Admins \cup Clis \cup {Tick}

\* 0 is never, for the expiry and for the days content is kept after the close.
Setting == [expires : Nat, retain : BOOLEAN, days : Nat]

Runs == {Profile[r].run : r \in Requests} \cup {Earlier[i].run : i \in DOMAIN Earlier}

ASSUME ExperimentsAssumption ==
    /\ Tick \notin Admins \cup Clis /\ Admins \cap Clis = {}
    /\ Settings \in [Exps -> Setting]
    /\ \A e \in Exps : Settings[e].retain => Settings[e].expires # 0
    /\ Earlier \in Seq([run : Runs, exp : Opt(Exps)])
    /\ \A r \in Requests : Profile[r].exp \in Opt(Exps) /\ Profile[r].noLog \in BOOLEAN
                           /\ Profile[r].allowed \in BOOLEAN
    /\ Store \in {"nothing", "rows", "content"}
    /\ RetentionDays \in Nat /\ MaxActs \in Nat /\ MaxFaults \in Nat /\ MaxNow \in Nat

Status == {"absent", "active", "closed"}
Row == [status : {"absent", "active"}, closedAt : {{}}]
           \cup [status : {"closed"}, closedAt : {{t} : t \in 0..MaxNow}]

Actor == [pc : {"idle", "close", "read", "store", "audit"},
          at : Opt(Exps),               \* what it is about to close
          closing : SUBSET Exps,        \* what it closed and has not audited
          seen : Opt([Exps -> Status])] \* the rows it read to reload

Idle == [pc |-> "idle", at |-> {}, closing |-> {}, seen |-> {}]

Request == [pc : {"new", "called", "refused", "charging", "done", "failed"},
            exp : Opt(Exps)]            \* what it is bound to
Prompt == [at : 0..MaxNow, content : BOOLEAN]
Stamped == [run : Runs, exp : Opt(Exps)]
Outcome == [exp : Opt(Exps), note : BOOLEAN]
Report == [pc : {"new", "failures", "upsert", "done"}, run : Opt(Runs), exp : Opt(Exps)]

NoReport == [pc |-> "new", run |-> {}, exp |-> {}]

Retention == [pc : {"idle", "list", "unstamped", "stamped", "closed", "redact", "notes"},
              now : 0..MaxNow,          \* when the tick began
              protected : SUBSET Exps,
              todo : SUBSET Exps]       \* to redact, and to clear the notes of

Resting == [pc |-> "idle", now |-> 0, protected |-> {}, todo |-> {}]

\* A query may fail, as often as the bound allows.
Fails == faults < MaxFaults /\ faults' = faults + 1

-----------------------------------------------------------------------------
(* Rows and the registry.                                                  *)

Expired(e) == Settings[e].expires # 0 /\ now >= Settings[e].expires

Create(a, e) ==
    /\ actor[a].pc = "idle" /\ acts < MaxActs
    /\ rows[e].status = "absent" /\ ~Expired(e)
    /\ rows' = [rows EXCEPT ![e].status = "active"]
    /\ actor' = [actor EXCEPT ![a].pc = IF a \in Admins THEN "read" ELSE "idle"]
    /\ acts' = acts + 1
    /\ UNCHANGED <<prompts, ledger, failures, outcomes, registry, req, report, ret, now, faults>>

\* close_experiment's first look at the row.
BeginClose(a, e) ==
    /\ actor[a].pc = "idle" /\ acts < MaxActs
    /\ rows[e].status = "active"
    /\ actor' = [actor EXCEPT ![a].pc = "close", ![a].at = {e}]
    /\ acts' = acts + 1
    /\ UNCHANGED <<tables, registry, req, report, ret, now, faults>>

ClosedNow(e) == [rows[e] EXCEPT !.status = "closed", !.closedAt = {now}]

\* UPDATE experiments ... WHERE id = ? AND status = 'active'.
Closes(e) == rows[e].status = "active"

Close(a) ==
    /\ actor[a].pc = "close"
    /\ \E e \in actor[a].at :
          IF Closes(e)
          THEN /\ rows' = [rows EXCEPT ![e] = ClosedNow(e)]
               /\ actor' = [actor EXCEPT ![a].pc = IF a \in Admins THEN "read" ELSE "audit",
                                        ![a].at = {}, ![a].closing = {e}]
          ELSE actor' = [actor EXCEPT ![a] = Idle] /\ UNCHANGED rows
    /\ UNCHANGED <<prompts, ledger, failures, outcomes, registry, req, report, ret, now, acts, faults>>

\* After the reload an administrator's close is audited; the tick is over.
AfterReload(a) == IF actor[a].closing = {} THEN "idle" ELSE "audit"

\* ExperimentRegistry::load_from: a failed read leaves the map in place.
ReadRows(a) ==
    /\ actor[a].pc = "read"
    /\ \/ actor' = [actor EXCEPT ![a].pc = "store", ![a].seen = {[e \in Exps |-> rows[e].status]}]
          /\ UNCHANGED faults
       \/ Fails /\ actor' = [actor EXCEPT ![a].pc = AfterReload(a)]
    /\ UNCHANGED <<tables, registry, req, report, ret, now, acts>>

StoreRegistry(a) ==
    /\ actor[a].pc = "store"
    /\ \E seen \in actor[a].seen : registry' = seen
    /\ actor' = [actor EXCEPT ![a].pc = AfterReload(a), ![a].seen = {}]
    /\ UNCHANGED <<tables, req, report, ret, now, acts, faults>>

\* An entry that cannot be written is logged and lost: either way the next
\* step follows.
Audit(a) ==
    /\ actor[a].pc = "audit"
    /\ \E e \in actor[a].closing :
          LET left == actor[a].closing \ {e}
          IN  actor' = [actor EXCEPT ![a].closing = left,
                           ![a].pc = IF left # {} THEN "audit"
                                     ELSE IF a = Tick THEN "read" ELSE "idle"]
    /\ UNCHANGED <<tables, registry, req, report, ret, now, acts, faults>>

\* Mutant: the registry is reloaded only when something expired.
ReloadIfDue(due) == IF due = {} THEN "idle" ELSE "audit"

AfterCloseExpired(due) == IF due = {} THEN "read" ELSE "audit"

\* The lifecycle tick: close_expired, an audit each, then the reload.
CloseExpired ==
    /\ actor[Tick].pc = "idle"
    /\ \/ LET due == {e \in Exps : Closes(e) /\ Expired(e)}
          IN  /\ rows' = [e \in Exps |-> IF e \in due THEN ClosedNow(e) ELSE rows[e]]
              /\ actor' = [actor EXCEPT ![Tick].pc = AfterCloseExpired(due), ![Tick].closing = due]
              /\ UNCHANGED faults
       \/ Fails /\ actor' = [actor EXCEPT ![Tick].pc = "read"] /\ UNCHANGED rows
    /\ UNCHANGED <<prompts, ledger, failures, outcomes, registry, req, report, ret, now, acts>>

-----------------------------------------------------------------------------
(* Requests.                                                               *)

\* ExperimentRegistry::bind: an experiment the header names, as the registry
\* knows it, and whose caller it admits.
Binding(r) ==
    {e \in Profile[r].exp : registry[e] = "active" /\ ~Expired(e) /\ Profile[r].allowed}

Retains(r) == \E e \in req[r].exp : Settings[e].retain

\* A header that does not bind is refused, and recorded as a failure.
Bind(r) ==
    /\ req[r].pc = "new"
    /\ req' = [req EXCEPT ![r].exp = Binding(r),
                         ![r].pc = IF Binding(r) = Profile[r].exp THEN "called" ELSE "refused"]
    /\ UNCHANGED <<tables, registry, actor, report, ret, now, acts, faults>>

\* write_prompt: x-no-log is the caller's, and wins.
WritesPrompt(r) == ~Profile[r].noLog /\ (Store # "nothing" \/ Retains(r))

\* The policy the row is redacted under was fixed with the binding.
KeepsContent(r) == Store = "content" \/ Retains(r)

\* An answered call's spawned task writes the prompt row first, then the
\* ledger's.
LogPrompt(r) ==
    /\ req[r].pc = "called"
    /\ prompts' = IF WritesPrompt(r)
                  THEN [prompts EXCEPT ![r] = {[at |-> now, content |-> KeepsContent(r)]}]
                  ELSE prompts
    /\ req' = [req EXCEPT ![r].pc = "charging"]
    /\ UNCHANGED <<rows, ledger, failures, outcomes, registry, actor, report, ret, now, acts, faults>>

Charge(r) ==
    /\ req[r].pc = "charging"
    /\ ledger' = Append(ledger, [run |-> Profile[r].run, exp |-> req[r].exp])
    /\ req' = [req EXCEPT ![r].pc = "done"]
    /\ UNCHANGED <<rows, prompts, failures, outcomes, registry, actor, report, ret, now, acts, faults>>

\* A call that failed: context_from_request binds anew from the registry of now.
RecordFailure(r) ==
    /\ req[r].pc \in {"called", "refused"}
    /\ failures' = Append(failures, [run |-> Profile[r].run, exp |-> Binding(r)])
    /\ req' = [req EXCEPT ![r].pc = "failed"]
    /\ UNCHANGED <<rows, prompts, ledger, outcomes, registry, actor, report, ret, now, acts, faults>>

-----------------------------------------------------------------------------
(* Retention.                                                              *)

\* retention_window_open.
WindowOpen(e, t) ==
    \/ rows[e].status = "active"
    \/ Settings[e].days = 0
    \/ \E closed \in rows[e].closedAt : t < closed + Settings[e].days

Retaining == {e \in Exps : rows[e].status # "absent" /\ Settings[e].retain}

Rest == ret' = Resting

BeginRetention ==
    /\ ret.pc = "idle"
    /\ ret' = [ret EXCEPT !.now = now, !.pc = IF RetentionDays = 0 THEN "closed" ELSE "list"]
    /\ UNCHANGED <<tables, registry, actor, req, report, now, acts, faults>>

\* Mutant: an unreadable list protects nobody.
SweepUnprotected == [ret EXCEPT !.pc = "unstamped"]

SkipSweep == [ret EXCEPT !.pc = "closed", !.protected = {}]

\* The sweep is skipped for this tick when the list cannot be read.
Unreadable == SkipSweep

ListProtected ==
    /\ ret.pc = "list"
    /\ \/ ret' = [ret EXCEPT !.protected = {e \in Retaining : WindowOpen(e, ret.now)},
                            !.pc = "unstamped"]
          /\ UNCHANGED faults
       \/ Fails /\ ret' = Unreadable
    /\ UNCHANGED <<tables, registry, actor, req, report, now, acts>>

\* Whose row is older than the cutoff.
Old(r) == \E row \in prompts[r] : row.at + RetentionDays < ret.now

Deleted(gone) == [r \in Requests |-> IF r \in gone THEN {} ELSE prompts[r]]

\* purge_older_than_except deletes everything when nobody is protected; else
\* the unstamped rows, then those of the stamps it finds (no row that old can
\* still appear) and may delete.
PurgeUnstamped ==
    /\ ret.pc = "unstamped"
    /\ \/ /\ prompts' = Deleted({r \in Requests : Old(r) /\ (ret.protected = {} \/ req[r].exp = {})})
          /\ ret' = IF ret.protected = {} THEN SkipSweep ELSE [ret EXCEPT !.pc = "stamped"]
          /\ UNCHANGED faults
       \/ Fails /\ ret' = SkipSweep /\ UNCHANGED prompts
    /\ UNCHANGED <<rows, ledger, failures, outcomes, registry, actor, req, report, now, acts>>

PurgeStamped ==
    /\ ret.pc = "stamped"
    /\ \/ prompts' = Deleted({r \in Requests : Old(r) /\ req[r].exp # {}
                                                     /\ req[r].exp \cap ret.protected = {}})
          /\ UNCHANGED faults
       \/ Fails /\ UNCHANGED prompts
    /\ ret' = SkipSweep
    /\ UNCHANGED <<rows, ledger, failures, outcomes, registry, actor, req, report, now, acts>>

\* expire_closed: the closed experiments whose window is over.
ListElapsed ==
    /\ ret.pc = "closed"
    /\ \/ LET elapsed == {e \in Retaining : rows[e].status = "closed" /\ ~WindowOpen(e, ret.now)}
          IN  /\ ret' = IF elapsed = {} THEN Resting
                        ELSE [ret EXCEPT !.pc = "redact", !.todo = elapsed]
              /\ UNCHANGED faults
       \/ Fails /\ Rest
    /\ UNCHANGED <<tables, registry, actor, req, report, now, acts>>

Handled(e) == IF ret.todo = {e} THEN Resting
              ELSE [ret EXCEPT !.pc = "redact", !.todo = ret.todo \ {e}]

\* Mutant: an experiment with nothing left to redact is done with.
NotesIfRedacted(e) ==
    IF \E r \in Requests : req[r].exp = {e} /\ \E row \in prompts[r] : row.content
    THEN [ret EXCEPT !.pc = "notes"] ELSE Handled(e)

NotesAfter(e) == [ret EXCEPT !.pc = "notes"]

First(S) == CHOOSE e \in S : TRUE

\* Every row of the experiment, whenever it was written; a failed redaction
\* leaves the notes for the next tick.
Redact ==
    /\ ret.pc = "redact"
    /\ LET e == First(ret.todo) IN
          \/ /\ prompts' = [r \in Requests |-> IF req[r].exp # {e} THEN prompts[r]
                               ELSE {[row EXCEPT !.content = FALSE] : row \in prompts[r]}]
             /\ ret' = NotesAfter(e)
             /\ UNCHANGED faults
          \/ Fails /\ ret' = Handled(e) /\ UNCHANGED prompts
    /\ UNCHANGED <<rows, ledger, failures, outcomes, registry, actor, req, report, now, acts>>

ClearNotes ==
    /\ ret.pc = "notes"
    /\ LET e == First(ret.todo) IN
          /\ \/ /\ outcomes' = [run \in Runs |-> {[o EXCEPT !.note = o.note /\ o.exp # {e}] :
                                                     o \in outcomes[run]}]
                /\ UNCHANGED faults
             \/ Fails /\ UNCHANGED outcomes
          /\ ret' = Handled(e)
    /\ UNCHANGED <<rows, prompts, ledger, failures, registry, actor, req, report, now, acts>>

-----------------------------------------------------------------------------
(* Feedback.                                                               *)

\* Mutant: a run is its correlation id, whoever sent it.
RowsOfCorrelation(log, run) == {i \in DOMAIN log : log[i].run.id = run.id}

\* The places of a run's rows.  A correlation id is the caller's: the same
\* under another key is another run.
RowsOf(log, run) == {i \in DOMAIN log : log[i].run = run}

Earliest(places) == CHOOSE i \in places : \A j \in places : i <= j

\* run_stamp: the earliest stamped row's, else none.
Stamp(run) ==
    LET stamped == {i \in RowsOf(ledger, run) : ledger[i].exp # {}}
    IN  IF stamped = {} THEN {} ELSE ledger[Earliest(stamped)].exp

ReadStamp(p, run) ==
    /\ report[p].pc = "new"
    /\ report' = [report EXCEPT ![p] =
           [pc |-> IF RowsOf(ledger, run) = {} THEN "failures" ELSE "upsert",
            run |-> {run}, exp |-> Stamp(run)]]
    /\ UNCHANGED <<tables, registry, actor, req, ret, now, acts, faults>>

\* A run known from failures alone is reported with no stamp; one that left no
\* rows is refused, and the caller may try again.
ReadFailures(p) ==
    /\ report[p].pc = "failures"
    /\ report' = [report EXCEPT ![p] =
           IF \E run \in report[p].run : RowsOf(failures, run) = {}
           THEN NoReport ELSE [report[p] EXCEPT !.pc = "upsert"]]
    /\ UNCHANGED <<tables, registry, actor, req, ret, now, acts, faults>>

\* The last report replaces the row, its stamp too.
Upsert(p) ==
    /\ report[p].pc = "upsert"
    /\ outcomes' = [run \in Runs |-> IF run \in report[p].run
                                     THEN {[exp |-> report[p].exp, note |-> TRUE]}
                                     ELSE outcomes[run]]
    /\ report' = [report EXCEPT ![p] = [NoReport EXCEPT !.pc = "done"]]
    /\ UNCHANGED <<rows, prompts, ledger, failures, registry, actor, req, ret, now, acts, faults>>

-----------------------------------------------------------------------------
\* The registry is loaded as the process starts.
Init ==
    /\ rows \in [Exps -> [status : {"absent", "active"}, closedAt : {{}}]]
    /\ registry = [e \in Exps |-> rows[e].status]
    /\ actor = [a \in Actors |-> Idle]
    /\ req = [r \in Requests |-> [pc |-> "new", exp |-> {}]]
    /\ prompts = [r \in Requests |-> {}]
    /\ ledger = Earlier /\ failures = <<>>
    /\ outcomes = [run \in Runs |-> {}]
    /\ report = [p \in Reporters |-> NoReport]
    /\ ret = Resting
    /\ now = 0 /\ acts = 0 /\ faults = 0

DayPasses ==
    /\ now < MaxNow /\ now' = now + 1
    /\ UNCHANGED <<tables, registry, actor, req, report, ret, acts, faults>>

Reload(a) == ReadRows(a) \/ StoreRegistry(a) \/ Audit(a)
Lifecycle == CloseExpired \/ Reload(Tick)
Retain ==
    \/ BeginRetention \/ ListProtected \/ PurgeUnstamped \/ PurgeStamped
    \/ ListElapsed \/ Redact \/ ClearNotes

Next ==
    \/ \E a \in Admins \cup Clis :
          (\E e \in Exps : Create(a, e) \/ BeginClose(a, e)) \/ Close(a) \/ Reload(a)
    \/ \E r \in Requests :
          Bind(r) \/ LogPrompt(r) \/ Charge(r) \/ RecordFailure(r)
    \/ \E p \in Reporters : (\E run \in Runs : ReadStamp(p, run)) \/ ReadFailures(p) \/ Upsert(p)
    \/ Lifecycle \/ Retain \/ DayPasses

Spec == Init /\ [][Next]_vars

\* The two ticks are loops of their own that no failure ends.
FairSpec == Spec /\ WF_vars(Lifecycle) /\ WF_vars(Retain)

-----------------------------------------------------------------------------
TypeOK ==
    /\ rows \in [Exps -> Row]
    /\ registry \in [Exps -> Status] /\ actor \in [Actors -> Actor]
    /\ req \in [Requests -> Request] /\ prompts \in [Requests -> Opt(Prompt)]
    /\ ledger \in Seq(Stamped) /\ failures \in Seq(Stamped)
    /\ outcomes \in [Runs -> Opt(Outcome)] /\ report \in [Reporters -> Report]
    /\ ret \in Retention
    /\ now \in 0..MaxNow /\ acts \in 0..MaxActs /\ faults \in 0..MaxFaults

\* The evidence of a retaining experiment: until its window is over, every
\* bound answer its caller let us log keeps its row and its content, whatever
\* the operator's retention deletes, whoever closes the experiment and
\* whichever query of a tick fails (db/retention.rs:5-12).
EvidenceKept ==
    \A r \in Requests : \A e \in req[r].exp :
        /\ req[r].pc \in {"charging", "done"} /\ ~Profile[r].noLog
        /\ Settings[e].retain /\ WindowOpen(e, now)
        => \E row \in prompts[r] : row.content

\* An outcome carries no stamp but one of its own user's run: the same
\* correlation id under another key stays another run (feedback.rs:121-124).
StampsOfTheRun ==
    \A run \in Runs : \A o \in outcomes[run] : \A e \in o.exp :
        \E i \in DOMAIN ledger : ledger[i] = [run |-> run, exp |-> {e}]

\* Once the window is over the content and the notes go, and rows and reports
\* that come later do not bring them back for good.
ContentGoesForGood ==
    \A e \in Exps :
        (Settings[e].retain /\ rows[e].status = "closed" /\ ~WindowOpen(e, now))
            ~> [](/\ \A r \in Requests : req[r].exp = {e} => \A row \in prompts[r] : ~row.content
                  /\ \A run \in Runs : \A o \in outcomes[run] : o.exp = {e} => ~o.note)

\* A close, by another process or with its reload failed or overtaken by an
\* older one, reaches the requests, and stays (cli/mod.rs:538-545).
CloseReachesRequests ==
    \A e \in Exps : (rows[e].status = "closed") ~> [](registry[e] = "closed")
=============================================================================
