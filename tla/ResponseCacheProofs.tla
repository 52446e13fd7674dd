------------------------- MODULE ResponseCacheProofs -------------------------
(***************************************************************************)
(* The link spaces its dials, and a purge that met no failure has removed  *)
(* what was in its scope, on either store, for any requests, operators,    *)
(* keys, labels and scopes and any cooldown.                               *)
(***************************************************************************)
EXTENDS ResponseCache, TLAPS

-----------------------------------------------------------------------------
(* The link. *)

\* While the cooldown of a failed dial lasts the gate says so, unless a dial has
\* succeeded since; and whoever dials found it over.
GateTrue ==
    /\ quiet <= wait
    /\ writer # Nobody => quiet = 0

LinkInv == LinkTypeOK /\ GateTrue

\* A step of the link: of a task in it, of the clock, or of Redis.
LinkTaskStep(t) ==
    \/ Enter(t) \/ ReadLock(t) \/ Refused(t) \/ FindsHeld(t) \/ StartDial(t)
    \/ DialSucceeds(t) \/ DialFails(t) \/ CommandServed(t) \/ CommandFails(t)
    \/ DropHeld(t) \/ NoteFailure(t) \/ HangUp(t)

LinkNext == (\E t \in Tasks : LinkTaskStep(t)) \/ Cools \/ ServerTurns

\* At the start there is no connection, and nobody in the code of the link.
LEMMA LinkInitHasInv == LinkInit => LinkInv
BY LinkAssumption DEF LinkInit, LinkInv, LinkTypeOK, GateTrue, Places, Connections

\* What a step that moves one task leaves of the types.
LEMMA TaskMoves ==
    ASSUME LinkTypeOK, NEW t \in Tasks, NEW place \in Places, NEW c \in Connections,
           at' = [at EXCEPT ![t] = place], conn' = [conn EXCEPT ![t] = c],
           (c # "none") = (place = "using"),
           \/ place = "dial" /\ writer' = t /\ writer = Nobody
           \/ place # "dial" /\ writer' = (IF at[t] = "dial" THEN Nobody ELSE writer)
    PROVE  /\ at' \in [Tasks -> Places] /\ conn' \in [Tasks -> Connections]
           /\ \A u \in Tasks : (conn'[u] # "none") = (at'[u] = "using")
           /\ writer' \in Tasks \cup {Nobody}
           /\ \A u \in Tasks : (writer' = u) = (at'[u] = "dial")
<1>1. \A u \in Tasks : /\ at'[u] = IF u = t THEN place ELSE at[u]
                       /\ conn'[u] = IF u = t THEN c ELSE conn[u]
  BY DEF LinkTypeOK
<1>2. \A u \in Tasks : (writer = u) = (at[u] = "dial")
  BY DEF LinkTypeOK
<1>3. at' \in [Tasks -> Places] /\ conn' \in [Tasks -> Connections]
  BY DEF LinkTypeOK
<1>4. \A u \in Tasks : (conn'[u] # "none") = (at'[u] = "using")
  BY <1>1 DEF LinkTypeOK
<1>5. \A u \in Tasks : (writer' = u) = (at'[u] = "dial")
  BY <1>1, <1>2, LinkAssumption
<1>6. writer' \in Tasks \cup {Nobody}
  BY DEF LinkTypeOK
<1> QED BY <1>3, <1>4, <1>5, <1>6

\* A step that leaves gate, server and held connection as they are, and starts
\* no dial.
LEMMA TaskMovesOn ==
    ASSUME LinkInv, NEW t \in Tasks, NEW place \in Places, NEW c \in Connections,
           at' = [at EXCEPT ![t] = place], conn' = [conn EXCEPT ![t] = c],
           (c # "none") = (place = "using"), place # "dial",
           writer' = (IF at[t] = "dial" THEN Nobody ELSE writer),
           UNCHANGED <<server, held, wait, quiet>>
    PROVE  LinkInv'
<1>1. writer' # Nobody => writer # Nobody
  BY LinkAssumption DEF LinkInv, LinkTypeOK
<1> QED BY <1>1, TaskMoves DEF LinkInv, LinkTypeOK, GateTrue

\* What the link's type invariant says of one task.
LEMMA LinkUnfolded ==
    ASSUME LinkTypeOK, NEW t \in Tasks
    PROVE  /\ (writer = t) = (at[t] = "dial")
           /\ (conn[t] # "none") = (at[t] = "using")
           /\ conn[t] \in Connections /\ held \in Connections
           /\ conn = [conn EXCEPT ![t] = conn[t]]
           /\ t # Nobody
BY LinkAssumption DEF LinkTypeOK

\* Steps that give the task a connection, let it wait, or let it leave.
LEMMA QuietStepKeepsInv ==
    ASSUME LinkInv, NEW t \in Tasks,
           Enter(t) \/ ReadLock(t) \/ Refused(t) \/ FindsHeld(t)
               \/ CommandServed(t) \/ CommandFails(t) \/ HangUp(t)
    PROVE  LinkInv'
<1> USE LinkUnfolded DEF LinkInv, Places, Connections
<1>1. CASE Enter(t)
  <2>1. conn' = [conn EXCEPT ![t] = "none"] /\ at[t] # "dial"
    BY <1>1 DEF Enter
  <2> QED BY <1>1, <2>1, TaskMovesOn DEF Enter, Goes
<1>2. CASE ReadLock(t)
  BY <1>2, TaskMovesOn DEF ReadLock, Goes, Gets
<1>3. CASE Refused(t)
  BY <1>3, TaskMovesOn DEF Refused, Goes, Leaves
<1>4. CASE FindsHeld(t)
  BY <1>4, TaskMovesOn DEF FindsHeld, Goes, Gets
<1>5. CASE CommandServed(t)
  BY <1>5, TaskMovesOn DEF CommandServed, Goes, Leaves
<1>6. CASE CommandFails(t)
  BY <1>6, TaskMovesOn DEF CommandFails, Goes
<1>7. CASE HangUp(t)
  BY <1>7, TaskMovesOn DEF HangUp, Goes, Leaves
<1> QED BY <1>1, <1>2, <1>3, <1>4, <1>5, <1>6, <1>7

\* A dial starts when the gate is open, and so after the cooldown.
LEMMA StartDialKeepsInv ==
    ASSUME LinkInv, NEW t \in Tasks, StartDial(t)
    PROVE  LinkInv' /\ quiet = 0
<1>1. quiet = 0
  BY DEF LinkInv, LinkTypeOK, GateTrue, StartDial, MayDial
<1>2. conn' = [conn EXCEPT ![t] = "none"]
  BY LinkUnfolded DEF LinkInv, StartDial
<1>3. LinkTypeOK'
  BY <1>2, TaskMoves DEF LinkInv, LinkTypeOK, StartDial, Goes, Places, Connections
<1> QED BY <1>1, <1>3 DEF LinkInv, GateTrue, StartDial

\* A dial ends: whoever was inside the lock leaves it, and the gate notes the end.
LEMMA DialEndKeepsInv ==
    ASSUME LinkInv, NEW t \in Tasks, DialSucceeds(t) \/ DialFails(t)
    PROVE  LinkInv'
<1>1. at[t] = "dial" /\ writer = t /\ quiet = 0
  BY LinkUnfolded DEF LinkInv, GateTrue, DialSucceeds, DialFails
<1>2. CASE DialSucceeds(t)
  <2>1. LinkTypeOK'
    BY <1>1, <1>2, TaskMoves, LinkAssumption
       DEF LinkInv, LinkTypeOK, DialSucceeds, Gets, Goes, Places, Connections
  <2> QED BY <1>1, <1>2, <2>1 DEF LinkInv, GateTrue, DialSucceeds
<1>3. CASE DialFails(t)
  <2>1. wait' \in 0..Cooldown /\ quiet' \in 0..Cooldown
    BY <1>3, LinkAssumption DEF DialFails, AfterDial
  <2>2. LinkTypeOK'
    BY <1>1, <1>3, <2>1, TaskMoves
       DEF LinkInv, LinkTypeOK, DialFails, AfterDial, Leaves, Goes, Places, Connections
  <2> QED BY <1>3, <2>2, LinkAssumption DEF LinkInv, GateTrue, DialFails, AfterDial
<1> QED BY <1>2, <1>3

\* A failure on an old connection, noted late, can only lengthen the cooldown.
LEMMA FailureKeepsInv ==
    ASSUME LinkInv, NEW t \in Tasks, DropHeld(t) \/ NoteFailure(t)
    PROVE  LinkInv'
<1>1. CASE DropHeld(t)
  <2>1. conn' = [conn EXCEPT ![t] = "none"]
    BY <1>1, LinkUnfolded DEF LinkInv, DropHeld
  <2>2. LinkTypeOK'
    BY <1>1, <2>1, TaskMoves
       DEF LinkInv, LinkTypeOK, DropHeld, AfterDrop, Goes, Places, Connections
  <2> QED BY <1>1, <2>2 DEF LinkInv, GateTrue, DropHeld
<1>2. CASE NoteFailure(t)
  <2>1. wait' \in 0..Cooldown /\ at[t] # "dial"
    BY <1>2, LinkAssumption DEF NoteFailure
  <2>2. LinkTypeOK'
    BY <1>2, <2>1, TaskMoves
       DEF LinkInv, LinkTypeOK, NoteFailure, Leaves, Goes, Places, Connections
  <2> QED BY <1>2, <2>2, LinkAssumption DEF LinkInv, LinkTypeOK, GateTrue, NoteFailure
<1> QED BY <1>1, <1>2

\* The clock runs for the gate and the history alike; Redis only kills connections.
LEMMA EnvironmentKeepsInv ==
    ASSUME LinkInv, Cools \/ ServerTurns
    PROVE  LinkInv'
<1>1. CASE Cools
  BY <1>1, LinkAssumption DEF Cools, LinkInv, LinkTypeOK, GateTrue
<1>2. CASE ServerTurns
  BY <1>2 DEF ServerTurns, Dies, LinkInv, LinkTypeOK, GateTrue, Connections
<1> QED BY <1>1, <1>2

\* Every step of the link keeps the invariant, and a step that starts a dial finds
\* the cooldown over.
LEMMA LinkStepKeepsInv ==
    ASSUME LinkInv, [LinkNext]_linkVars
    PROVE  /\ LinkInv'
           /\ \A t \in Tasks : at[t] # "dial" /\ at'[t] = "dial" => quiet = 0
<1>1. CASE UNCHANGED linkVars
  BY <1>1 DEF linkVars, LinkInv, LinkTypeOK, GateTrue
<1>2. CASE Cools \/ ServerTurns
  BY <1>2, EnvironmentKeepsInv DEF Cools, ServerTurns
<1>3. ASSUME NEW t \in Tasks, StartDial(t)
      PROVE  LinkInv' /\ quiet = 0
  BY <1>3, StartDialKeepsInv
<1>4. ASSUME NEW t \in Tasks, LinkTaskStep(t), ~StartDial(t)
      PROVE  /\ LinkInv'
             /\ \A u \in Tasks : at'[u] = "dial" => at[u] = "dial"
  <2>1. LinkInv'
    BY <1>4, QuietStepKeepsInv, DialEndKeepsInv, FailureKeepsInv DEF LinkTaskStep
  <2>2. \A u \in Tasks : at'[u] = "dial" => at[u] = "dial"
    BY <1>4 DEF LinkTaskStep, Enter, ReadLock, Refused, FindsHeld, DialSucceeds, DialFails,
                CommandServed, CommandFails, DropHeld, NoteFailure, HangUp, Goes, Leaves,
                Gets, LinkInv, LinkTypeOK
  <2> QED BY <2>1, <2>2
<1> QED BY <1>1, <1>2, <1>3, <1>4 DEF LinkNext

\* Every step of the cache is one of the link, or leaves the link alone.
LEMMA CacheStepsAreLinkSteps == [Next]_vars => [LinkNext]_linkVars
<1>1. CASE UNCHANGED vars
  BY <1>1 DEF vars
<1>2. ASSUME NEW r \in Requests, Ask(r) \/ Answer(r) \/ Evict(r) \/ AskerLeaves(r)
      PROVE  [LinkNext]_linkVars
  BY <1>2, CacheAssumption DEF Ask, Answer, Evict, AskerLeaves, LinkNext, LinkTaskStep
<1>3. ASSUME NEW o \in Operators, BeginPurge(o) \/ Probe(o) \/ OperatorLeaves(o)
      PROVE  [LinkNext]_linkVars
  BY <1>3, CacheAssumption DEF BeginPurge, Probe, OperatorLeaves, LinkNext, LinkTaskStep
<1>4. ASSUME NEW t \in Tasks, TaskSteps(t)
      PROVE  [LinkNext]_linkVars
  BY <1>4 DEF TaskSteps, Connect, Run, Fails, Misses, LinkNext, LinkTaskStep
<1>5. ASSUME NEW k \in Keys, Expire(k) \/ CapacityEvicts(k)
      PROVE  [LinkNext]_linkVars
  BY <1>5 DEF Expire, CapacityEvicts
<1>6. CASE Redis
  BY <1>6 DEF Redis, LinkNext
<1> QED BY <1>1, <1>2, <1>3, <1>4, <1>5, <1>6 DEF Next

\* The connection, its lock and the gate agree in every state.
THEOREM LinkInvariant == Spec => []LinkInv
<1>1. Init => LinkInv
  BY LinkInitHasInv DEF Init
<1>2. LinkInv /\ [Next]_vars => LinkInv'
  BY LinkStepKeepsInv, CacheStepsAreLinkSteps
<1> QED BY <1>1, <1>2, PTL DEF Spec

\* Once a dial has failed none is started within the cooldown, whatever operations
\* fail late, find the lock taken or are abandoned (store.rs:364-366).
THEOREM DialsAreSpaced == Spec => DialsSpaced
<1> DEFINE Spaced == \A t \in Tasks : at[t] # "dial" /\ at'[t] = "dial" => quiet = 0
<1>1. LinkInv /\ [Next]_vars => [Spaced]_linkVars
  BY LinkStepKeepsInv, CacheStepsAreLinkSteps
<1> HIDE DEF Spaced
<1>2. Spec => [][Spaced]_linkVars
  BY <1>1, LinkInvariant, PTL DEF Spec
<1> QED BY <1>2 DEF Spaced, DialsSpaced

-----------------------------------------------------------------------------
(* The cache: the invariant. *)

RequestJobs  == {"idle", "lookup", "evict", "provider", "store"}
OperatorJobs == {"idle", "ping", "count", "scan", "labels", "delete"}

EntriesOK ==
    /\ entry \in [Keys -> SUBSET Entry]
    /\ \A k \in Keys : \A d, e \in entry[k] : d = e
    /\ backend = "redis" => \A k \in Keys : \A e \in entry[k] : ~e.stale

CallsOK ==
    /\ backend \in {"memory", "redis"}
    /\ job \in [Tasks -> Jobs]
    /\ \A r \in Requests : job[r] \in RequestJobs
    /\ \A o \in Operators : job[o] \in OperatorJobs
    /\ key \in [Requests -> Keys]
    /\ purge \in [Operators -> Purge]

\* Whoever is in the code of the link has a command to run at Redis.
AtWork == \A t \in Tasks : at[t] # "away" => backend = "redis" /\ job[t] \in Commands

\* Of what a purge has yet to remove: all of it is in its scope still, and once the
\* keys are listed, listed.
PurgeTrue(o) ==
    /\ ~purge[o].whole \/ job[o] \in {"idle", "ping", "count"} => purge[o].doomed = {}
    /\ \A k \in purge[o].doomed \cap Present :
          /\ InScope(k, purge[o].scope)
          /\ job[o] \in {"labels", "delete"} => k \in purge[o].found

CacheInv ==
    /\ LinkInv /\ EntriesOK /\ CallsOK /\ AtWork
    /\ \A o \in Operators : PurgeTrue(o)

LEMMA RolesAreTasks ==
    /\ Requests \subseteq Tasks /\ Operators \subseteq Tasks
    /\ \A r \in Requests : r \notin Operators
    /\ \A t \in Tasks : t \in Requests \/ t \in Operators
BY CacheAssumption

LEMMA JobsAreJobs == RequestJobs \subseteq Jobs /\ OperatorJobs \subseteq Jobs
BY DEF RequestJobs, OperatorJobs, Jobs

\* At the start the store is empty and nobody is at it.
LEMMA CacheInitHasInv == Init => CacheInv
<1> SUFFICES ASSUME Init PROVE CacheInv
  OBVIOUS
<1>1. LinkInv
  BY LinkInitHasInv DEF Init
<1>2. NoPurge \in Purge /\ NoPurge.doomed = {}
  <2>1. (CHOOSE s \in Scopes : TRUE) \in Scopes
    BY CacheAssumption
  <2> QED BY <2>1 DEF NoPurge, Purge
<1>3. EntriesOK
  BY DEF Init, EntriesOK
<1>4. CallsOK
  BY <1>2, RolesAreTasks, JobsAreJobs DEF Init, CallsOK, RequestJobs, OperatorJobs
<1>5. AtWork
  BY DEF Init, LinkInit, AtWork
<1>6. \A o \in Operators : PurgeTrue(o)
  BY <1>2 DEF Init, PurgeTrue
<1> QED BY <1>1, <1>3, <1>4, <1>5, <1>6 DEF CacheInv

-----------------------------------------------------------------------------
(* What steps do to tasks. *)

\* A step of one task that leaves the link, or is at work in it.
LEMMA AtWorkKept ==
    ASSUME AtWork, NEW t \in Tasks, backend' = backend,
           \A u \in Tasks \ {t} : at'[u] = at[u] /\ job'[u] = job[u],
           at'[t] # "away" => backend = "redis" /\ job'[t] \in Commands
    PROVE  AtWork'
BY DEF AtWork, Commands

\* Outside the link a task takes its turns without it.
LEMMA OutsideLink ==
    ASSUME AtWork, CallsOK, NEW t \in Tasks, NEW what, Turns(t, what),
           job[t] \notin Commands, UNCHANGED <<linkVars, backend>>
    PROVE  AtWork'
<1>1. at[t] = "away" /\ at' = at
  BY DEF AtWork, linkVars
<1>2. \A u \in Tasks \ {t} : job'[u] = job[u]
  BY DEF Turns, CallsOK
<1> QED BY <1>1, <1>2, AtWorkKept

\* In the link it moves alone.
LEMMA MovesAlone ==
    ASSUME LinkTypeOK, NEW t \in Tasks, LinkTaskStep(t)
    PROVE  \A u \in Tasks \ {t} : at'[u] = at[u]
BY DEF LinkTypeOK, LinkTaskStep, Enter, ReadLock, Refused, FindsHeld, StartDial,
       DialSucceeds, DialFails, CommandServed, CommandFails, DropHeld, NoteFailure, HangUp,
       Goes, Leaves, Gets

LEMMA LeavesLink ==
    ASSUME LinkTypeOK, NEW t \in Tasks,
           Refused(t) \/ DialFails(t) \/ CommandServed(t) \/ NoteFailure(t) \/ HangUp(t)
    PROVE  at'[t] = "away" /\ at[t] # "away" /\ \A u \in Tasks \ {t} : at'[u] = at[u]
BY DEF LinkTypeOK, Refused, DialFails, CommandServed, NoteFailure, HangUp, Goes, Leaves

\* A turn of a request, and of an operator, leaves the jobs well typed.
LEMMA RequestTurns ==
    ASSUME CallsOK, NEW r \in Requests, NEW what \in RequestJobs, Turns(r, what)
    PROVE  /\ job' \in [Tasks -> Jobs] /\ job'[r] = what
           /\ \A q \in Requests : job'[q] \in RequestJobs
           /\ \A o \in Operators : job'[o] = job[o] /\ job'[o] \in OperatorJobs
           /\ \A u \in Tasks \ {r} : job'[u] = job[u]
BY RolesAreTasks, JobsAreJobs DEF CallsOK, Turns

LEMMA OperatorTurns ==
    ASSUME CallsOK, NEW o \in Operators, NEW what \in OperatorJobs, Turns(o, what)
    PROVE  /\ job' \in [Tasks -> Jobs] /\ job'[o] = what
           /\ \A q \in Requests : job'[q] \in RequestJobs
           /\ \A p \in Operators : job'[p] \in OperatorJobs
           /\ \A u \in Tasks \ {o} : job'[u] = job[u]
BY RolesAreTasks, JobsAreJobs DEF CallsOK, Turns

-----------------------------------------------------------------------------
(* What steps do to entries, and to a purge that does not take the step. *)

\* What is doomed gets no fewer labels while it is there, and does not come back.
DoomedKept(o) ==
    \A k \in purge'[o].doomed :
        entry'[k] # {} => /\ entry[k] # {}
                          /\ \A l : (\E e \in entry[k] : e.label = l)
                                        => \E e \in entry'[k] : e.label = l

PurgeKept(o) ==
    /\ purge'[o] \in Purge
    /\ purge'[o].scope = purge[o].scope /\ purge'[o].found = purge[o].found
    /\ purge'[o].whole = purge[o].whole /\ purge'[o].doomed \subseteq purge[o].doomed

LEMMA ScopeKept ==
    ASSUME NEW k, NEW scope \in Scopes, InScope(k, scope),
           \A l : (\E e \in entry[k] : e.label = l) => \E e \in entry'[k] : e.label = l
    PROVE  InScope(k, scope)'
<1>1. CASE scope.by = "label"
  BY <1>1 DEF InScope
<1>2. CASE scope.by \in {"all", "model", "key"}
  BY <1>2 DEF InScope
<1> QED BY <1>1, <1>2, CacheAssumption

LEMMA PurgeUndisturbed ==
    ASSUME NEW o \in Operators, PurgeTrue(o), PurgeKept(o), DoomedKept(o),
           \/ job'[o] = job[o]
           \/ job[o] \in {"idle", "ping", "count"} /\ job'[o] \in {"idle", "ping", "count"}
    PROVE  PurgeTrue(o)'
<1>1. PICK scope \in Scopes : scope = purge[o].scope
  BY DEF PurgeKept, Purge
<1>2. purge'[o].scope = scope
  BY <1>1 DEF PurgeKept
<1>3. ASSUME NEW k \in purge'[o].doomed, k \in Present'
      PROVE  k \in purge[o].doomed \cap Present /\ InScope(k, scope)'
  <2>1. k \in purge[o].doomed \cap Present
    BY <1>3 DEF PurgeKept, DoomedKept, Present
  <2>2. InScope(k, scope)
    BY <1>1, <2>1 DEF PurgeTrue
  <2>3. InScope(k, scope)'
    BY <1>3, <2>2, ScopeKept DEF DoomedKept, Present
  <2> QED BY <2>1, <2>3
<1>4. ASSUME NEW k \in purge'[o].doomed, k \in Present'
      PROVE  InScope(k, purge[o].scope)'
  BY <1>2, <1>3, <1>4
<1>5. \A k \in (purge[o].doomed \cap Present)' : InScope(k, purge[o].scope)'
  BY <1>4
<1>6. ~purge'[o].whole \/ job'[o] \in {"idle", "ping", "count"} => purge'[o].doomed = {}
  BY DEF PurgeTrue, PurgeKept
<1>7. \A k \in (purge[o].doomed \cap Present)' :
          job'[o] \in {"labels", "delete"} => k \in purge'[o].found
  BY <1>3 DEF PurgeTrue, PurgeKept
<1> QED BY <1>5, <1>6, <1>7 DEF PurgeTrue

\* Entries go, or stay as they are.
Thinned ==
    /\ entry' \in [Keys -> SUBSET Entry]
    /\ \A k \in Keys : entry'[k] = {} \/ entry'[k] = entry[k]

LEMMA RemoveThins == ASSUME EntriesOK, NEW S, Remove(S) PROVE Thinned
BY DEF EntriesOK, Remove, Thinned

LEMMA ThinnedWell ==
    ASSUME EntriesOK, Thinned, backend' = backend
    PROVE  EntriesOK'
BY DEF EntriesOK, Thinned

LEMMA DoomedSurviveThinning ==
    ASSUME EntriesOK, Thinned, NEW o \in Operators, PurgeKept(o), purge[o] \in Purge
    PROVE  DoomedKept(o)
BY DEF EntriesOK, Thinned, PurgeKept, Purge, DoomedKept

\* A purge that is left as it is.
LEMMA SamePurge ==
    ASSUME CallsOK, NEW o \in Operators, purge'[o] = purge[o]
    PROVE  PurgeKept(o)
BY DEF CallsOK, PurgeKept

\* An answer stored under a key is doomed by no purge that began before.
LEMMA PutKeeps ==
    ASSUME EntriesOK, CallsOK, NEW k \in Keys, Put(k), backend' = backend
    PROVE  /\ EntriesOK'
           /\ purge' \in [Operators -> Purge]
           /\ \A o \in Operators : PurgeKept(o) /\ DoomedKept(o)
<1>1. PICK l \in Labels : entry' = [entry EXCEPT ![k] = {[label |-> l, stale |-> FALSE]}]
  BY DEF Put
<1> DEFINE fresh == [label |-> l, stale |-> FALSE]
<1>2. fresh \in Entry /\ ~fresh.stale
  BY DEF Entry
<1>3. \A j \in Keys : entry'[j] = IF j = k THEN {fresh} ELSE entry[j]
  BY <1>1 DEF EntriesOK
<1> HIDE DEF fresh
<1>4. EntriesOK'
  <2>1. entry' \in [Keys -> SUBSET Entry]
    BY <1>1, <1>2 DEF EntriesOK, fresh
  <2> QED BY <1>2, <1>3, <2>1 DEF EntriesOK
<1>5. purge' = [o \in Operators |-> [purge[o] EXCEPT !.doomed = purge[o].doomed \ {k}]]
  BY DEF Put
<1>6. ASSUME NEW o \in Operators
      PROVE  PurgeKept(o) /\ DoomedKept(o) /\ purge'[o] \in Purge
  <2>1. purge[o] \in Purge
    BY DEF CallsOK
  <2>2. PurgeKept(o) /\ purge'[o].doomed = purge[o].doomed \ {k} /\ purge'[o] \in Purge
    BY <1>5, <2>1 DEF PurgeKept, Purge
  <2>3. purge'[o].doomed \subseteq Keys
    BY <2>2 DEF Purge
  <2> QED BY <1>3, <2>2, <2>3 DEF DoomedKept
<1> QED BY <1>4, <1>5, <1>6

\* A step that stores, drops or leaves entries, and takes no purge further.
LEMMA BystanderStep ==
    ASSUME CacheInv, CallsOK', LinkInv', AtWork', backend' = backend,
           EntriesOK', \A o \in Operators : PurgeKept(o) /\ DoomedKept(o),
           \A o \in Operators :
              \/ job'[o] = job[o]
              \/ job[o] \in {"idle", "ping", "count"} /\ job'[o] \in {"idle", "ping", "count"}
    PROVE  CacheInv'
BY PurgeUndisturbed DEF CacheInv

\* In particular one that leaves entries and purges alone, or drops some entries.
LEMMA ThinningStep ==
    ASSUME CacheInv, CallsOK', LinkInv', AtWork', backend' = backend,
           Thinned \/ entry' = entry, purge' = purge,
           \A o \in Operators :
              \/ job'[o] = job[o]
              \/ job[o] \in {"idle", "ping", "count"} /\ job'[o] \in {"idle", "ping", "count"}
    PROVE  CacheInv'
<1>1. EntriesOK /\ CallsOK
  BY DEF CacheInv
<1>2. Thinned
  BY <1>1 DEF Thinned, EntriesOK
<1>3. EntriesOK'
  BY <1>1, <1>2, ThinnedWell
<1>4. \A o \in Operators : PurgeKept(o) /\ DoomedKept(o)
  BY <1>1, <1>2, SamePurge, DoomedSurviveThinning DEF CallsOK
<1> QED BY <1>3, <1>4, BystanderStep

-----------------------------------------------------------------------------
(* Requests, and operators who probe.  That the link's own invariant lasts is known. *)

LEMMA Unfolds == CacheInv => LinkTypeOK /\ EntriesOK /\ CallsOK /\ AtWork
BY DEF CacheInv, LinkInv

LEMMA AskKeepsInv ==
    ASSUME CacheInv, LinkInv', NEW r \in Requests, Ask(r)
    PROVE  CacheInv'
<1>1. PICK what \in {"lookup", "provider"} : Turns(r, what)
  BY DEF Ask
<1>2. CallsOK'
  BY <1>1, Unfolds, RequestTurns DEF Ask, CallsOK, RequestJobs
<1>3. AtWork'
  BY <1>1, Unfolds, RolesAreTasks, OutsideLink DEF Ask, Commands
<1>4. \A o \in Operators : job'[o] = job[o]
  BY <1>1, Unfolds, RequestTurns DEF RequestJobs
<1> QED BY <1>2, <1>3, <1>4, ThinningStep DEF Ask

LEMMA AnswerKeepsInv ==
    ASSUME CacheInv, LinkInv', NEW r \in Requests, Answer(r)
    PROVE  CacheInv'
<1>1. PICK what \in {"store", "idle"} : Turns(r, what)
  BY DEF Answer
<1>2. CallsOK'
  BY <1>1, Unfolds, RequestTurns DEF Answer, CallsOK, RequestJobs
<1>3. AtWork'
  BY <1>1, Unfolds, RolesAreTasks, OutsideLink DEF Answer, Commands
<1>4. \A o \in Operators : job'[o] = job[o]
  BY <1>1, Unfolds, RequestTurns DEF RequestJobs
<1> QED BY <1>2, <1>3, <1>4, ThinningStep DEF Answer

LEMMA EvictKeepsInv ==
    ASSUME CacheInv, LinkInv', NEW r \in Requests, Evict(r)
    PROVE  CacheInv'
<1>1. Turns(r, "provider") /\ "provider" \in RequestJobs
  BY DEF Evict, RequestJobs
<1>2. CallsOK'
  BY <1>1, Unfolds, RequestTurns DEF Evict, CallsOK
<1>3. AtWork'
  BY <1>1, Unfolds, RolesAreTasks, OutsideLink DEF Evict, Commands
<1>4. \A o \in Operators : job'[o] = job[o]
  BY <1>1, Unfolds, RequestTurns
<1>5. Thinned
  BY Unfolds, RemoveThins DEF Evict
<1> QED BY <1>2, <1>3, <1>4, <1>5, ThinningStep DEF Evict

LEMMA ProbeKeepsInv ==
    ASSUME CacheInv, LinkInv', NEW o \in Operators, Probe(o)
    PROVE  CacheInv'
<1>1. Turns(o, "ping") /\ "ping" \in OperatorJobs
  BY DEF Probe, OperatorJobs
<1>2. CallsOK'
  BY <1>1, Unfolds, OperatorTurns DEF Probe, CallsOK
<1>3. AtWork'
  BY <1>1, Unfolds, RolesAreTasks, OutsideLink DEF Probe, Commands
<1>4. \A p \in Operators : job'[p] = job[p] \/ (job[p] = "idle" /\ job'[p] = "ping")
  BY <1>1, Unfolds, OperatorTurns, RolesAreTasks DEF Probe
<1> QED BY <1>2, <1>3, <1>4, ThinningStep DEF Probe

LEMMA DeadlineKeepsInv ==
    ASSUME CacheInv, LinkInv', NEW k \in Keys, Expire(k) \/ CapacityEvicts(k)
    PROVE  CacheInv'
<1>1. UNCHANGED <<linkVars, backend, job, key, purge>>
  BY DEF Expire, CapacityEvicts
<1>2. CallsOK' /\ AtWork'
  BY <1>1, Unfolds DEF CallsOK, AtWork, linkVars
<1>3. CASE CapacityEvicts(k)
  <2>1. Thinned
    BY <1>3, Unfolds, RemoveThins DEF CapacityEvicts
  <2> QED BY <1>1, <1>2, <2>1, ThinningStep
<1>4. CASE Expire(k)
  <2>1. PICK e \in entry[k] : entry' = [entry EXCEPT ![k] =
             IF backend = "redis" THEN {} ELSE {[e EXCEPT !.stale = TRUE]}]
    BY <1>4 DEF Expire
  <2>2. EntriesOK /\ CallsOK /\ e \in Entry /\ entry[k] = {e}
    BY Unfolds DEF EntriesOK
  <2> DEFINE old == [e EXCEPT !.stale = TRUE]
  <2>3. old \in Entry /\ old.label = e.label
    BY <2>2 DEF Entry
  <2> HIDE DEF old
  <2>4. /\ entry' \in [Keys -> SUBSET Entry]
        /\ \A j \in Keys \ {k} : entry'[j] = entry[j]
        /\ entry'[k] = IF backend = "redis" THEN {} ELSE {old}
    BY <2>1, <2>2, <2>3 DEF EntriesOK, old
  <2>5. EntriesOK'
    BY <1>1, <2>2, <2>4 DEF EntriesOK
  <2>6. ASSUME NEW o \in Operators
        PROVE  PurgeKept(o) /\ DoomedKept(o)
    <3>1. PurgeKept(o)
      BY <1>1, <2>2, SamePurge
    <3>2. purge'[o].doomed \subseteq Keys
      BY <2>2, <3>1 DEF PurgeKept, Purge
    <3>3. DoomedKept(o)
      BY <2>2, <2>3, <2>4, <3>2 DEF DoomedKept
    <3> QED BY <3>1, <3>3
  <2> QED BY <1>1, <1>2, <2>5, <2>6, BystanderStep
<1> QED BY <1>3, <1>4

\* Redis turns, or the cooldown runs.
LEMMA RedisKeepsInv ==
    ASSUME CacheInv, LinkInv', Redis
    PROVE  CacheInv'
<1>1. UNCHANGED cacheVars /\ at' = at
  BY DEF Redis, ServerTurns, Cools
<1>2. CallsOK' /\ AtWork'
  BY <1>1, Unfolds DEF CallsOK, AtWork, cacheVars
<1> QED BY <1>1, <1>2, ThinningStep DEF cacheVars

\* A task gets on in the link.
LEMMA ConnectKeepsInv ==
    ASSUME CacheInv, LinkInv', NEW t \in Tasks, Connect(t)
    PROVE  CacheInv'
<1>1. UNCHANGED cacheVars /\ backend = "redis" /\ job[t] \in Commands /\ LinkTaskStep(t)
  BY DEF Connect, LinkTaskStep
<1>2. AtWork'
  BY <1>1, Unfolds, MovesAlone, AtWorkKept DEF cacheVars
<1>3. CallsOK'
  BY <1>1, Unfolds DEF CallsOK, cacheVars
<1> QED BY <1>1, <1>2, <1>3, ThinningStep DEF cacheVars

\* A command whose reply is not heard was carried out by Redis, or not.
LEMMA UnheardWell ==
    ASSUME EntriesOK, CallsOK, NEW t \in Tasks, Unheard(t), backend' = backend
    PROVE  /\ EntriesOK' /\ purge' \in [Operators -> Purge]
           /\ \A o \in Operators : PurgeKept(o) /\ DoomedKept(o)
<1>1. CASE (Thinned \/ entry' = entry) /\ purge' = purge
  <2>1. Thinned
    BY <1>1 DEF Thinned, EntriesOK
  <2> QED BY <1>1, <2>1, ThinnedWell, SamePurge, DoomedSurviveThinning DEF CallsOK
<1>2. CASE job[t] = "store" /\ Put(key[t])
  <2>1. key[t] \in Keys
    BY <1>2, RolesAreTasks DEF CallsOK, OperatorJobs
  <2> QED BY <1>2, <2>1, PutKeeps
<1>3. CASE Remove(purge[t].found) /\ UNCHANGED purge
  BY <1>1, <1>3, RemoveThins
<1> QED BY <1>1, <1>2, <1>3 DEF Unheard

LEMMA FailsKeepsInv ==
    ASSUME CacheInv, LinkInv', NEW t \in Tasks, Fails(t)
    PROVE  CacheInv'
<1>1. /\ UNCHANGED <<backend, job, key>> /\ Unheard(t) /\ LinkTaskStep(t)
      /\ at[t] = "using"
  BY DEF Fails, CommandFails, LinkTaskStep
<1>2. AtWork'
  BY <1>1, Unfolds, MovesAlone, AtWorkKept DEF AtWork
<1>3. /\ EntriesOK' /\ purge' \in [Operators -> Purge]
      /\ \A o \in Operators : PurgeKept(o) /\ DoomedKept(o)
  BY <1>1, Unfolds, UnheardWell
<1>4. CallsOK'
  BY <1>1, <1>3, Unfolds DEF CallsOK
<1> QED BY <1>1, <1>2, <1>3, <1>4, BystanderStep

LEMMA AskerLeavesKeepsInv ==
    ASSUME CacheInv, LinkInv', NEW r \in Requests, AskerLeaves(r)
    PROVE  CacheInv'
<1>1. Turns(r, "idle") /\ UNCHANGED <<backend, key>> /\ "idle" \in RequestJobs /\ r \in Tasks
  BY RolesAreTasks DEF AskerLeaves, RequestJobs
<1>2. /\ \A u \in Tasks \ {r} : job'[u] = job[u]
      /\ \A o \in Operators : job'[o] = job[o]
  BY <1>1, Unfolds, RequestTurns
<1>3. CASE HangUp(r) /\ (IF at[r] = "using" THEN Unheard(r) ELSE UNCHANGED <<entry, purge>>)
  <2>1. AtWork'
    BY <1>1, <1>2, <1>3, Unfolds, LeavesLink, AtWorkKept
  <2>2. Unheard(r)
    BY <1>3 DEF Unheard
  <2>3. /\ EntriesOK' /\ purge' \in [Operators -> Purge]
        /\ \A o \in Operators : PurgeKept(o) /\ DoomedKept(o)
    BY <1>1, <2>2, Unfolds, UnheardWell
  <2>4. CallsOK'
    BY <1>1, <2>3, Unfolds, RequestTurns DEF CallsOK
  <2> QED BY <1>1, <1>2, <2>1, <2>3, <2>4, BystanderStep
<1>4. CASE job[r] = "provider" /\ UNCHANGED <<linkVars, entry, purge>>
  <2>1. AtWork'
    BY <1>1, <1>4, Unfolds, OutsideLink DEF Commands
  <2>2. CallsOK'
    BY <1>1, <1>4, Unfolds, RequestTurns DEF CallsOK
  <2> QED BY <1>1, <1>2, <1>4, <2>1, <2>2, ThinningStep
<1> QED BY <1>3, <1>4 DEF AskerLeaves

-----------------------------------------------------------------------------
(* Commands, and purges. *)

\* A command that is served leaves the link, in whichever store it ran.
LEMMA RunLeavesLink ==
    ASSUME CacheInv, NEW t \in Tasks, Run(t), \A u \in Tasks \ {t} : job'[u] = job[u]
    PROVE  AtWork'
<1>1. CASE backend = "redis"
  BY <1>1, Unfolds, LeavesLink, AtWorkKept DEF Run
<1>2. CASE backend # "redis"
  BY <1>2, Unfolds DEF Run, AtWork, linkVars
<1> QED BY <1>1, <1>2

LEMMA RequestRunKeepsInv ==
    ASSUME CacheInv, LinkInv', NEW r \in Requests, Run(r), Get(r) \/ Set(r)
    PROVE  CacheInv'
<1>1. PICK what \in RequestJobs : Turns(r, what)
  BY DEF Get, Set, Looked, RequestJobs
<1>2. \A u \in Tasks \ {r} : job'[u] = job[u]
  BY <1>1, Unfolds, RequestTurns
<1>3. \A o \in Operators : job'[o] = job[o]
  BY <1>1, Unfolds, RequestTurns
<1>4. AtWork' /\ UNCHANGED <<backend, key>>
  BY <1>2, RolesAreTasks, RunLeavesLink DEF Run
<1>5. CASE Get(r)
  <2>1. CallsOK'
    BY <1>1, <1>4, <1>5, Unfolds, RequestTurns DEF CallsOK, Get
  <2> QED BY <1>3, <1>4, <1>5, <2>1, ThinningStep DEF Get
<1>6. CASE Set(r)
  <2>1. key[r] \in Keys
    BY Unfolds DEF CallsOK
  <2>2. /\ EntriesOK' /\ purge' \in [Operators -> Purge]
        /\ \A o \in Operators : PurgeKept(o) /\ DoomedKept(o)
    BY <1>4, <1>6, <2>1, Unfolds, PutKeeps DEF Set
  <2>3. CallsOK'
    BY <1>1, <1>4, <2>2, Unfolds, RequestTurns DEF CallsOK
  <2> QED BY <1>3, <1>4, <2>2, <2>3, BystanderStep
<1> QED BY <1>5, <1>6

LEMMA ProbeRunKeepsInv ==
    ASSUME CacheInv, LinkInv', NEW o \in Operators, Run(o), Ping(o) \/ Count(o)
    PROVE  CacheInv'
<1>1. PICK what \in {"count", "idle"} : Turns(o, what)
  BY DEF Ping, Count
<1>2. job[o] \in {"ping", "count"} /\ UNCHANGED <<entry, purge, backend, key>>
  BY DEF Ping, Count, Run
<1>3. what \in OperatorJobs
  BY DEF OperatorJobs
<1>4. /\ CallsOK' /\ \A u \in Tasks \ {o} : job'[u] = job[u]
      /\ job'[o] = what
  BY <1>1, <1>2, <1>3, Unfolds, OperatorTurns DEF CallsOK
<1>5. AtWork'
  BY <1>4, RolesAreTasks, RunLeavesLink
<1>6. \A p \in Operators : \/ job'[p] = job[p]
                           \/ job[p] \in {"ping", "count"} /\ job'[p] \in {"idle", "count"}
  BY <1>2, <1>4, RolesAreTasks
<1> QED BY <1>2, <1>4, <1>5, <1>6, ThinningStep

\* A purge ends well if what is left of its scope is nothing, and any other way if
\* something of it has failed.
LEMMA EndsWell ==
    ASSUME CallsOK, NEW o \in Operators, NEW present, Ends(o, present),
           purge[o].whole => purge[o].doomed \cap present = {}
    PROVE  /\ Turns(o, "idle")
           /\ purge' \in [Operators -> Purge]
           /\ \A p \in Operators \ {o} : purge'[p] = purge[p]
           /\ purge'[o].doomed = {}
<1> DEFINE after == [purge[o] EXCEPT !.found = {}, !.whole = FALSE, !.doomed = {}]
<1>1. purge[o] \in Purge
  BY DEF CallsOK
<1>2. (IF purge[o].whole THEN purge[o].doomed \cap present ELSE {}) = {}
  OBVIOUS
<1>3. purge' = [purge EXCEPT ![o] = after]
  BY <1>1, <1>2 DEF Ends, CallsOK, Purge
<1>4. after \in Purge /\ after.doomed = {}
  BY <1>1 DEF Purge
<1> HIDE DEF after
<1> QED BY <1>3, <1>4 DEF Ends, CallsOK

\* A purge that goes on, with a list of keys that holds what is doomed, or that has
\* failed in part and promises nothing any more.
LEMMA GoesOnWell ==
    ASSUME CallsOK, NEW o \in Operators, NEW S \in SUBSET Keys, NEW whole \in BOOLEAN,
           NEW what \in OperatorJobs, GoesOn(o, S, whole, what),
           whole /\ S = {} => purge[o].doomed \cap Present = {}
    PROVE  /\ purge' \in [Operators -> Purge]
           /\ \A p \in Operators \ {o} : purge'[p] = purge[p]
           /\ purge'[o].scope = purge[o].scope
           /\ \/ purge'[o].doomed = {} /\ Turns(o, IF S = {} THEN "idle" ELSE what)
              \/ /\ whole /\ Turns(o, what)
                 /\ purge'[o].found = S /\ purge'[o].whole
                 /\ purge'[o].doomed = purge[o].doomed
<1>1. purge[o] \in Purge
  BY DEF CallsOK
<1>2. CASE S = {} /\ whole
  <2>1. Ends(o, Present)
    BY <1>2 DEF GoesOn
  <2>2. purge'[o].scope = purge[o].scope
    BY <1>1, <2>1 DEF Ends, CallsOK, Purge
  <2> QED BY <1>2, <2>1, <2>2, EndsWell
<1>3. CASE ~(S = {} /\ whole)
  <2> DEFINE after == [purge[o] EXCEPT !.found = S, !.whole = whole,
                                       !.doomed = IF whole THEN purge[o].doomed ELSE {}]
  <2>1. /\ purge' = [purge EXCEPT ![o] = after]
        /\ Turns(o, IF S = {} THEN "idle" ELSE what)
    BY <1>1, <1>3 DEF GoesOn, CallsOK, Purge
  <2>2. /\ after \in Purge /\ after.scope = purge[o].scope /\ after.found = S
        /\ after.whole = whole /\ after.doomed = IF whole THEN purge[o].doomed ELSE {}
    BY <1>1 DEF Purge
  <2> HIDE DEF after
  <2>3. /\ purge'[o] = after /\ \A p \in Operators \ {o} : purge'[p] = purge[p]
        /\ purge' \in [Operators -> Purge]
    BY <2>1, <2>2 DEF CallsOK
  <2>4. CASE whole
    BY <1>3, <2>1, <2>2, <2>3, <2>4
  <2>5. CASE ~whole
    BY <2>1, <2>2, <2>3, <2>5
  <2> QED BY <2>4, <2>5
<1> QED BY <1>2, <1>3

\* A step of a purge that leaves it with nothing to answer for, or with a list that
\* holds all that is doomed and still there.
LEMMA PurgeStep ==
    ASSUME CacheInv, LinkInv', AtWork', NEW o \in Operators, NEW what \in OperatorJobs,
           Turns(o, what), UNCHANGED <<backend, key>>, Thinned \/ entry' = entry,
           purge' \in [Operators -> Purge],
           \A p \in Operators \ {o} : purge'[p] = purge[p],
           purge'[o].scope = purge[o].scope,
           \/ purge'[o].doomed = {}
           \/ /\ purge'[o].whole /\ what \notin {"idle", "ping", "count"}
              /\ purge'[o].doomed = purge[o].doomed
              /\ \A k \in purge[o].doomed : entry'[k] # {} => k \in purge'[o].found
    PROVE  CacheInv'
<1>1. EntriesOK /\ CallsOK
  BY Unfolds
<1>2. Thinned
  BY <1>1 DEF Thinned, EntriesOK
<1>3. EntriesOK'
  BY <1>1, <1>2, ThinnedWell
<1>4. CallsOK'
  BY <1>1, OperatorTurns DEF CallsOK
<1>5. job'[o] = what /\ \A p \in Operators \ {o} : job'[p] = job[p]
  BY <1>1, OperatorTurns, RolesAreTasks
<1>6. ASSUME NEW p \in Operators, p # o
      PROVE  PurgeTrue(p)'
  <2>1. PurgeKept(p) /\ DoomedKept(p) /\ job'[p] = job[p]
    BY <1>1, <1>2, <1>5, <1>6, SamePurge, DoomedSurviveThinning DEF CallsOK
  <2> QED BY <2>1, PurgeUndisturbed DEF CacheInv
<1>7. PurgeTrue(o)'
  <2>1. CASE purge'[o].doomed = {}
    BY <2>1 DEF PurgeTrue
  <2>2. CASE /\ purge'[o].whole /\ what \notin {"idle", "ping", "count"}
             /\ purge'[o].doomed = purge[o].doomed
             /\ \A k \in purge[o].doomed : entry'[k] # {} => k \in purge'[o].found
    <3>1. PICK scope \in Scopes : scope = purge[o].scope
      BY <1>1 DEF CallsOK, Purge
    <3>2. purge'[o].scope = scope /\ purge[o].doomed \subseteq Keys
      BY <1>1, <3>1 DEF CallsOK, Purge
    <3>3. ASSUME NEW k \in purge'[o].doomed, k \in Present'
          PROVE  InScope(k, scope)'
      <4>1. entry'[k] = entry[k] /\ k \in purge[o].doomed \cap Present
        BY <1>2, <2>2, <3>2, <3>3 DEF Thinned, Present
      <4>2. InScope(k, scope)
        BY <3>1, <4>1 DEF CacheInv, PurgeTrue
      <4> QED BY <4>1, <4>2, ScopeKept
    <3>4. ASSUME NEW k \in purge'[o].doomed, k \in Present'
          PROVE  InScope(k, purge[o].scope)' /\ k \in purge'[o].found
      BY <2>2, <3>2, <3>3, <3>4 DEF Present
    <3> QED BY <1>5, <2>2, <3>4 DEF PurgeTrue
  <2> QED BY <2>1, <2>2
<1> QED BY <1>3, <1>4, <1>6, <1>7 DEF CacheInv

\* A purge begins: all that is in its scope and there is doomed.
LEMMA BeginPurgeKeepsInv ==
    ASSUME CacheInv, LinkInv', NEW o \in Operators, BeginPurge(o)
    PROVE  CacheInv'
<1>1. EntriesOK /\ CallsOK /\ o \in Tasks
  BY Unfolds, RolesAreTasks
<1>2. PICK scope \in Scopes :
         /\ purge' = [purge EXCEPT ![o] =
               [scope |-> scope, whole |-> TRUE,
                found |-> IF scope.by = "key" THEN {scope.what} ELSE {},
                doomed |-> {k \in Present : InScope(k, scope)}]]
         /\ Turns(o, IF scope.by = "key" THEN "delete" ELSE "scan")
  BY DEF BeginPurge
<1> DEFINE begun == [scope |-> scope, whole |-> TRUE,
                     found |-> IF scope.by = "key" THEN {scope.what} ELSE {},
                     doomed |-> {k \in Present : InScope(k, scope)}]
           what == IF scope.by = "key" THEN "delete" ELSE "scan"
<1>3. what \in OperatorJobs /\ what \notin {"idle", "ping", "count"}
  BY DEF OperatorJobs
<1>4. begun \in Purge
  <2>1. begun.found \subseteq Keys
    BY CacheAssumption
  <2> QED BY <2>1 DEF Purge, Present
<1>5. /\ purge'[o] = begun /\ \A p \in Operators \ {o} : purge'[p] = purge[p]
      /\ purge' \in [Operators -> Purge]
  BY <1>1, <1>2, <1>4 DEF CallsOK
<1>6. /\ job'[o] = what /\ \A p \in Operators \ {o} : job'[p] = job[p]
      /\ UNCHANGED <<linkVars, backend, entry, key>>
  BY <1>1, <1>2, <1>3, OperatorTurns, RolesAreTasks DEF BeginPurge
<1>7. CallsOK'
  BY <1>1, <1>2, <1>3, <1>5, <1>6, OperatorTurns DEF CallsOK
<1>8. AtWork'
  BY <1>1, <1>2, <1>6, Unfolds, OutsideLink DEF BeginPurge, Commands
<1>9. EntriesOK'
  BY <1>1, <1>6 DEF EntriesOK
<1>10. ASSUME NEW p \in Operators, p # o
       PROVE  PurgeTrue(p)'
  <2>1. PurgeKept(p) /\ DoomedKept(p)
    BY <1>1, <1>5, <1>6, <1>10, SamePurge DEF DoomedKept
  <2> QED BY <1>6, <1>10, <2>1, PurgeUndisturbed DEF CacheInv
<1>11. PurgeTrue(o)'
  <2>1. ASSUME NEW k \in purge'[o].doomed
        PROVE  k \in Present /\ InScope(k, scope)
    BY <1>5, <2>1
  <2>2. ASSUME NEW k \in purge'[o].doomed
        PROVE  InScope(k, scope)'
    BY <1>6, <2>1, <2>2, ScopeKept
  <2>3. ASSUME NEW k \in purge'[o].doomed
        PROVE  InScope(k, purge[o].scope)'
    BY <1>5, <2>2, <2>3
  <2>4. ASSUME NEW k \in purge'[o].doomed, job'[o] \in {"labels", "delete"}
        PROVE  k \in purge'[o].found
    <3>1. scope.by = "key"
      BY <1>6, <2>4
    <3>2. k = scope.what
      BY <2>1, <2>4, <3>1 DEF InScope
    <3> QED BY <1>5, <3>1, <3>2
  <2>5. purge'[o].whole /\ job'[o] \notin {"idle", "ping", "count"}
    BY <1>3, <1>5, <1>6
  <2> QED BY <2>3, <2>4, <2>5 DEF PurgeTrue
<1> QED BY <1>7, <1>8, <1>9, <1>10, <1>11 DEF CacheInv

\* A task that is no longer in the code of the link.
Outside(t) == at'[t] = "away" /\ \A u \in Tasks \ {t} : at'[u] = at[u]

\* A command that has run is behind its task, in whichever store it ran.
LEMMA RunEndsOutside ==
    ASSUME CacheInv, NEW t \in Tasks, Run(t)
    PROVE  Outside(t)
<1>1. CASE backend = "redis"
  BY <1>1, Unfolds, LeavesLink DEF Run, Outside
<1>2. CASE backend # "redis"
  BY <1>2, Unfolds DEF Run, AtWork, Outside, linkVars
<1> QED BY <1>1, <1>2

\* A step of a purge to the keys it has come to.
LEMMA PurgeGoesOn ==
    ASSUME CacheInv, LinkInv', NEW o \in Operators, NEW S \in SUBSET Keys,
           NEW whole \in BOOLEAN, NEW what \in OperatorJobs, GoesOn(o, S, whole, what),
           Outside(o), UNCHANGED <<backend, key>>, Thinned \/ entry' = entry,
           whole => /\ what \notin {"idle", "ping", "count"}
                    /\ S = {} => purge[o].doomed \cap Present = {}
                    /\ \A k \in purge[o].doomed : entry'[k] # {} => k \in S
    PROVE  CacheInv'
<1>1. CallsOK /\ AtWork /\ o \in Tasks
  BY Unfolds, RolesAreTasks
<1>2. /\ purge' \in [Operators -> Purge]
      /\ \A p \in Operators \ {o} : purge'[p] = purge[p]
      /\ purge'[o].scope = purge[o].scope
      /\ \/ purge'[o].doomed = {} /\ Turns(o, IF S = {} THEN "idle" ELSE what)
         \/ /\ whole /\ Turns(o, what)
            /\ purge'[o].found = S /\ purge'[o].whole
            /\ purge'[o].doomed = purge[o].doomed
  BY <1>1, GoesOnWell
<1>3. PICK next \in OperatorJobs :
         /\ Turns(o, next)
         /\ \/ purge'[o].doomed = {}
            \/ /\ whole /\ next = what
               /\ purge'[o].found = S /\ purge'[o].whole
               /\ purge'[o].doomed = purge[o].doomed
  <2>1. "idle" \in OperatorJobs
    BY DEF OperatorJobs
  <2> QED BY <1>2, <2>1
<1>4. AtWork'
  <2>1. \A u \in Tasks \ {o} : job'[u] = job[u]
    BY <1>1, <1>3, OperatorTurns
  <2> QED BY <1>1, <2>1, AtWorkKept DEF Outside
<1> QED BY <1>2, <1>3, <1>4, PurgeStep

\* It lists the keys that match: every key of the scope among them, even where Redis
\* cannot tell by the key.
LEMMA ScanKeepsInv ==
    ASSUME CacheInv, LinkInv', NEW o \in Operators, Run(o), Scan(o)
    PROVE  CacheInv'
<1> DEFINE S == Matched(purge[o].scope)
<1>1. /\ UNCHANGED <<backend, key, entry>> /\ Outside(o)
      /\ GoesOn(o, S, purge[o].whole, AfterScan(o))
  BY RolesAreTasks, RunEndsOutside DEF Run, Scan
<1>2. /\ S \in SUBSET Keys /\ purge[o].whole \in BOOLEAN
      /\ AfterScan(o) \in OperatorJobs \ {"idle", "ping", "count"}
  BY Unfolds DEF Matched, Present, AfterScan, OperatorJobs, CallsOK, Purge
<1>3. \A k \in purge[o].doomed \cap Present : k \in S
  BY DEF CacheInv, PurgeTrue, Matched, Present
<1>4. \A k \in purge[o].doomed : entry'[k] # {} => k \in S
  BY <1>1, <1>3, Unfolds DEF Present, CallsOK, Purge
<1> HIDE DEF S
<1> QED BY <1>1, <1>2, <1>3, <1>4, PurgeGoesOn

\* It keeps of them those that carry the label.
LEMMA ReadLabelsKeepsInv ==
    ASSUME CacheInv, LinkInv', NEW o \in Operators, Run(o), ReadLabels(o)
    PROVE  CacheInv'
<1> DEFINE S == Labelled(purge[o].found, purge[o].scope)
<1>1. /\ UNCHANGED <<backend, key, entry>> /\ Outside(o) /\ job[o] = "labels"
      /\ GoesOn(o, S, purge[o].whole, "delete")
  BY RolesAreTasks, RunEndsOutside DEF Run, ReadLabels
<1>2. /\ S \in SUBSET Keys /\ purge[o].whole \in BOOLEAN
      /\ "delete" \in OperatorJobs \ {"idle", "ping", "count"}
  BY Unfolds DEF Labelled, Present, OperatorJobs, CallsOK, Purge
<1>3. \A k \in purge[o].doomed \cap Present : k \in S
  BY <1>1 DEF CacheInv, PurgeTrue, Labelled
<1>4. \A k \in purge[o].doomed : entry'[k] # {} => k \in S
  BY <1>1, <1>3, Unfolds DEF Present, CallsOK, Purge
<1> HIDE DEF S
<1> QED BY <1>1, <1>2, <1>3, <1>4, PurgeGoesOn

\* It deletes them, and what it deletes at once or one by one was all that was doomed.
LEMMA DeleteKeepsInv ==
    ASSUME CacheInv, LinkInv', NEW o \in Operators, Run(o), Delete(o)
    PROVE  CacheInv'
<1>1. PICK S \in Batches(o) :
         /\ Remove(S)
         /\ IF purge[o].found \subseteq S THEN Ends(o, Present \ S)
            ELSE GoesOn(o, purge[o].found \ S, purge[o].whole, "delete")
  BY DEF Delete
<1>2. /\ UNCHANGED <<backend, key>> /\ Outside(o) /\ job[o] = "delete"
      /\ EntriesOK /\ CallsOK /\ AtWork /\ o \in Tasks
  BY Unfolds, RolesAreTasks, RunEndsOutside DEF Run, Delete
<1>3. Thinned
  BY <1>1, <1>2, RemoveThins
<1>4. /\ \A k \in Keys : entry'[k] = IF k \in S THEN {} ELSE entry[k]
      /\ purge[o].doomed \subseteq Keys /\ purge[o].found \subseteq Keys
      /\ purge[o].whole \in BOOLEAN
  BY <1>1, <1>2 DEF Remove, CallsOK, Purge
<1>5. \A k \in purge[o].doomed \cap Present : k \in purge[o].found
  BY <1>2 DEF CacheInv, PurgeTrue
<1>6. CASE purge[o].found \subseteq S
  <2>1. Ends(o, Present \ S)
    BY <1>1, <1>6
  <2>2. purge[o].doomed \cap (Present \ S) = {}
    BY <1>5, <1>6
  <2>3. /\ Turns(o, "idle") /\ purge' \in [Operators -> Purge]
        /\ \A p \in Operators \ {o} : purge'[p] = purge[p]
        /\ purge'[o].doomed = {}
    BY <1>2, <2>1, <2>2, EndsWell
  <2>4. purge'[o].scope = purge[o].scope
    <3>1. purge[o] \in Purge
      BY <1>2 DEF CallsOK
    <3> QED BY <1>2, <2>1, <3>1 DEF Ends, CallsOK, Purge
  <2>5. "idle" \in OperatorJobs
    BY DEF OperatorJobs
  <2>6. AtWork'
    <3>1. \A u \in Tasks \ {o} : job'[u] = job[u]
      BY <1>2, <2>3, <2>5, OperatorTurns
    <3> QED BY <1>2, <3>1, AtWorkKept DEF Outside
  <2> QED BY <1>2, <1>3, <2>3, <2>4, <2>5, <2>6, PurgeStep
<1>7. CASE ~(purge[o].found \subseteq S)
  <2>1. GoesOn(o, purge[o].found \ S, purge[o].whole, "delete")
    BY <1>1, <1>7
  <2>2. purge[o].found \ S # {} /\ purge[o].found \ S \in SUBSET Keys
    BY <1>4, <1>7
  <2>3. \A k \in purge[o].doomed : entry'[k] # {} => k \in purge[o].found \ S
    BY <1>4, <1>5 DEF Present
  <2>4. "delete" \in OperatorJobs \ {"idle", "ping", "count"}
    BY DEF OperatorJobs
  <2> QED BY <1>2, <1>3, <1>4, <2>1, <2>2, <2>3, <2>4, PurgeGoesOn
<1> QED BY <1>6, <1>7

\* A command that is served, a request's or an operator's.
LEMMA RunKeepsInv ==
    ASSUME CacheInv, LinkInv', NEW t \in Tasks, Run(t)
    PROVE  CacheInv'
<1>1. Command(t)
  BY DEF Run
<1> QED BY <1>1, RequestRunKeepsInv, ProbeRunKeepsInv, ScanKeepsInv, ReadLabelsKeepsInv,
           DeleteKeepsInv DEF Command

\* A call gives up: what a purge then goes on with promises nothing.
LEMMA GivesUpWell ==
    ASSUME CacheInv, LinkInv', NEW t \in Tasks, NEW S \in SUBSET Keys, GivesUp(t, S),
           Outside(t), job[t] \in Commands, UNCHANGED <<backend, entry, key>>
    PROVE  CacheInv'
<1>1. CallsOK /\ AtWork
  BY Unfolds
<1>2. CASE t \in Requests
  <2>1. job[t] \in {"lookup", "store"}
    BY <1>1, <1>2 DEF CallsOK, RequestJobs, Commands
  <2>2. PICK what \in RequestJobs : Turns(t, what)
    BY <2>1 DEF GivesUp, RequestJobs
  <2>3. UNCHANGED purge
    BY <2>1 DEF GivesUp
  <2>4. CallsOK' /\ \A o \in Operators : job'[o] = job[o]
    BY <1>1, <1>2, <2>2, <2>3, RequestTurns DEF CallsOK
  <2>5. AtWork'
    BY <1>1, <1>2, <2>2, RequestTurns, AtWorkKept DEF Outside
  <2> QED BY <2>3, <2>4, <2>5, ThinningStep
<1>3. CASE t \in Operators /\ job[t] \in {"ping", "count"}
  <2>1. Turns(t, "idle") /\ UNCHANGED purge /\ "idle" \in OperatorJobs
    BY <1>3 DEF GivesUp, OperatorJobs
  <2>2. CallsOK' /\ \A o \in Operators : job'[o] = IF o = t THEN "idle" ELSE job[o]
    BY <1>1, <1>3, <2>1, OperatorTurns, RolesAreTasks DEF CallsOK
  <2>3. AtWork'
    BY <1>1, <1>3, <2>1, OperatorTurns, AtWorkKept DEF Outside
  <2> QED BY <1>3, <2>1, <2>2, <2>3, ThinningStep
<1>4. CASE t \in Operators /\ job[t] \notin {"ping", "count"}
  <2>1. job[t] \in {"scan", "labels", "delete"}
    BY <1>1, <1>4 DEF CallsOK, OperatorJobs, Commands
  <2>2. {"delete", "labels"} \subseteq OperatorJobs
    BY DEF OperatorJobs
  <2>3. \E T \in SUBSET Keys, what \in OperatorJobs : GoesOn(t, T, FALSE, what)
    <3>1. CASE job[t] = "scan"
      BY <2>2, <3>1 DEF GivesUp, AfterScan
    <3>2. CASE job[t] = "labels"
      BY <2>2, <3>2 DEF GivesUp
    <3>3. CASE job[t] = "delete"
      BY <2>2, <3>3 DEF GivesUp
    <3> QED BY <2>1, <3>1, <3>2, <3>3
  <2> QED BY <1>4, <2>3, PurgeGoesOn
<1> QED BY <1>2, <1>3, <1>4, RolesAreTasks

LEMMA MissesKeepsInv ==
    ASSUME CacheInv, LinkInv', NEW t \in Tasks, Misses(t)
    PROVE  CacheInv'
<1>1. UNCHANGED <<backend, entry, key>> /\ Outside(t) /\ job[t] \in Commands
  BY Unfolds, LeavesLink DEF Misses, Outside, AtWork
<1>2. PICK S \in Partly(t) \cup {{}} : GivesUp(t, S)
  BY DEF Misses
<1>3. S \in SUBSET Keys
  BY <1>2, Unfolds DEF Partly, Matched, Labelled, Present, CallsOK, Purge
<1> QED BY <1>1, <1>2, <1>3, GivesUpWell

\* An operator leaves; Redis may have carried out the deletion.
LEMMA OperatorLeavesKeepsInv ==
    ASSUME CacheInv, LinkInv', NEW o \in Operators, OperatorLeaves(o)
    PROVE  CacheInv'
<1>1. UNCHANGED <<backend, key>> /\ Outside(o) /\ GoesOn(o, {}, FALSE, "idle")
  BY Unfolds, LeavesLink, RolesAreTasks DEF OperatorLeaves, Outside
<1>2. Thinned \/ entry' = entry
  BY Unfolds, RemoveThins DEF OperatorLeaves
<1>3. "idle" \in OperatorJobs /\ {} \in SUBSET Keys
  BY DEF OperatorJobs
<1> QED BY <1>1, <1>2, <1>3, PurgeGoesOn

LEMMA CacheStepKeepsInv == CacheInv /\ [Next]_vars => CacheInv'
<1> SUFFICES ASSUME CacheInv, [Next]_vars PROVE CacheInv'
  OBVIOUS
<1>1. LinkInv'
  BY LinkStepKeepsInv, CacheStepsAreLinkSteps DEF CacheInv
<1>2. CASE UNCHANGED vars
  <2>1. CallsOK' /\ AtWork' /\ UNCHANGED <<backend, entry, purge, job>>
    BY <1>2, Unfolds DEF vars, cacheVars, linkVars, CallsOK, AtWork
  <2> QED BY <1>1, <2>1, ThinningStep
<1>3. ASSUME NEW r \in Requests, Ask(r) \/ Answer(r) \/ Evict(r) \/ AskerLeaves(r)
      PROVE  CacheInv'
  BY <1>1, <1>3, AskKeepsInv, AnswerKeepsInv, EvictKeepsInv, AskerLeavesKeepsInv
<1>4. ASSUME NEW o \in Operators, BeginPurge(o) \/ Probe(o) \/ OperatorLeaves(o)
      PROVE  CacheInv'
  BY <1>1, <1>4, BeginPurgeKeepsInv, ProbeKeepsInv, OperatorLeavesKeepsInv
<1>5. ASSUME NEW t \in Tasks, TaskSteps(t)
      PROVE  CacheInv'
  BY <1>1, <1>5, ConnectKeepsInv, RunKeepsInv, FailsKeepsInv, MissesKeepsInv DEF TaskSteps
<1>6. ASSUME NEW k \in Keys, Expire(k) \/ CapacityEvicts(k)
      PROVE  CacheInv'
  BY <1>1, <1>6, DeadlineKeepsInv
<1>7. CASE Redis
  BY <1>1, <1>7, RedisKeepsInv
<1> QED BY <1>2, <1>3, <1>4, <1>5, <1>6, <1>7 DEF Next

-----------------------------------------------------------------------------
(* The theorems. *)

\* Store, link, calls and purges agree in every state.
THEOREM CacheInvariant == Spec => []CacheInv
BY CacheInitHasInv, CacheStepKeepsInv, PTL DEF Spec

\* The variables of the cache and of its link keep their types.
THEOREM CacheTypeCorrect == Spec => []TypeOK
<1>1. CacheInv => TypeOK
  BY DEF CacheInv, LinkInv, EntriesOK, CallsOK, AtWork, Commands, TypeOK
<1> QED BY <1>1, CacheInvariant, PTL

\* A purge that met no failure has removed every entry of its scope that was there
\* when it began, whatever was stored, expired or evicted meanwhile.
THEOREM PurgesHold == Spec => []PurgeHolds
<1>1. CacheInv => PurgeHolds
  BY DEF CacheInv, PurgeTrue, PurgeHolds
<1> QED BY <1>1, CacheInvariant, PTL
=============================================================================
