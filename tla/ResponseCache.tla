--------------------------- MODULE ResponseCache ---------------------------
(***************************************************************************)
(* The response cache as its callers use it: requests that look a key up,  *)
(* ask the provider on a miss or when they refresh, and store the answer;  *)
(* operators who purge and probe.  The store is the process's own memory   *)
(* or Redis behind RedisLink, which is fail-open: whatever goes wrong with *)
(* the link is a miss, or a store that does not happen.                    *)
(*                                                                         *)
(* An entry is its label and, in memory, where expiry is checked on        *)
(* reading, whether it has expired.  Which requests use the cache at all   *)
(* (eligibility, directives, policy) is decided before any of this and     *)
(* left out, with the answers, their lifetimes and the counters.           *)
(***************************************************************************)
EXTENDS RedisLink

CONSTANTS
    Requests, Operators,
    Keys,
    ModelOf,            \* key -> the resolved model hashed into it
    Labels,             \* cache namespaces of the requests that store
    Scopes              \* what is purged: [by, what]

VARIABLES
    backend,            \* cache.backend: "memory" or "redis"
    entry,              \* key -> what the store holds for it, at most one
    job,                \* task -> the call of the cache it is in
    key,                \* request -> the key of its question
    purge               \* operator -> its purge

cacheVars == <<backend, entry, job, key, purge>>
vars == <<linkVars, cacheVars>>

Entry == [label : Labels, stale : BOOLEAN]

Jobs == {"idle", "lookup", "evict", "provider", "store", "ping", "count",
         "scan", "labels", "delete"}

Purge == [scope : Scopes,
          found : SUBSET Keys,      \* the keys it is to delete
          whole : BOOLEAN,          \* history: nothing of it has failed
          doomed : SUBSET Keys]     \* history: in scope when it began, and not
                                    \* stored again since

ASSUME CacheAssumption ==
    /\ Tasks = Requests \cup Operators /\ Requests \cap Operators = {}
    /\ DOMAIN ModelOf = Keys
    /\ Scopes # {}
    /\ \A s \in Scopes : /\ s.by \in {"all", "model", "label", "key"}
                         /\ s.by = "key" => s.what \in Keys

TypeOK ==
    /\ LinkTypeOK
    /\ backend \in {"memory", "redis"}
    /\ entry \in [Keys -> SUBSET Entry]
    /\ \A k \in Keys : \A d, e \in entry[k] : d = e
    /\ job \in [Tasks -> Jobs]
    /\ key \in [Requests -> Keys]
    /\ purge \in [Operators -> Purge]
    /\ backend = "redis" => \A k \in Keys : \A e \in entry[k] : ~e.stale
    /\ \A t \in Tasks : at[t] # "away" => backend = "redis" /\ job[t] # "idle"

Present == {k \in Keys : entry[k] # {}}

NoPurge == [scope |-> CHOOSE s \in Scopes : TRUE, found |-> {}, whole |-> FALSE, doomed |-> {}]

Init ==
    /\ LinkInit
    /\ backend \in {"memory", "redis"}
    /\ entry = [k \in Keys |-> {}]
    /\ job = [t \in Tasks |-> "idle"]
    /\ key \in [Requests -> Keys]
    /\ purge = [o \in Operators |-> NoPurge]

----------------------------------------------------------------------------
Turns(t, what) == job' = [job EXCEPT ![t] = what]

\* A request asks; one that refreshes goes to the provider first.
Ask(r) ==
    /\ job[r] = "idle"
    /\ \E k \in Keys : key' = [key EXCEPT ![r] = k]
    /\ \E what \in {"lookup", "provider"} : Turns(r, what)
    /\ UNCHANGED <<linkVars, backend, entry, purge>>

\* The provider's answer, which may be one that is not stored.
Answer(r) ==
    /\ job[r] = "provider"
    /\ \E what \in {"store", "idle"} : Turns(r, what)
    /\ UNCHANGED <<linkVars, backend, entry, key, purge>>

Put(k) ==
    /\ \E l \in Labels : entry' = [entry EXCEPT ![k] = {[label |-> l, stale |-> FALSE]}]
    /\ purge' = [o \in Operators |-> [purge[o] EXCEPT !.doomed = purge[o].doomed \ {k}]]

Remove(S) == entry' = [k \in Keys |-> IF k \in S THEN {} ELSE entry[k]]

\* What a lookup that reached the store comes to.
Looked(k) ==
    IF entry[k] = {} THEN "provider"
    ELSE IF \E e \in entry[k] : e.stale THEN "evict" ELSE "idle"

Get(r) ==
    /\ job[r] = "lookup"
    /\ Turns(r, Looked(key[r]))
    /\ UNCHANGED <<entry, purge>>

Set(r) ==
    /\ job[r] = "store"
    /\ Put(key[r])
    /\ Turns(r, "idle")

\* MemoryStore::get drops the key it found expired, whatever it holds by now.
Evict(r) ==
    /\ job[r] = "evict"
    /\ Remove({key[r]})
    /\ Turns(r, "provider")
    /\ UNCHANGED <<linkVars, backend, key, purge>>

----------------------------------------------------------------------------
InScope(k, scope) ==
    CASE scope.by = "all" -> TRUE
      [] scope.by = "model" -> ModelOf[k] = scope.what
      [] scope.by = "key" -> k = scope.what
      [] scope.by = "label" -> \E e \in entry[k] : e.label = scope.what

\* Mutant: labels are looked for in the keys.
MatchedByKey(scope) ==
    IF scope.by = "label" /\ backend = "redis" THEN {}
    ELSE {k \in Present : InScope(k, scope)}

\* Redis matches patterns of keys, and a label is in the value.
Matched(scope) ==
    IF scope.by = "label" /\ backend = "redis" THEN Present
    ELSE {k \in Present : InScope(k, scope)}

Labelled(S, scope) == {k \in S \cap Present : InScope(k, scope)}

BeginPurge(o) ==
    /\ job[o] = "idle"
    /\ \E scope \in Scopes :
        /\ purge' = [purge EXCEPT ![o] =
              [scope |-> scope, whole |-> TRUE,
               found |-> IF scope.by = "key" THEN {scope.what} ELSE {},
               doomed |-> {k \in Present : InScope(k, scope)}]]
        /\ Turns(o, IF scope.by = "key" THEN "delete" ELSE "scan")
    /\ UNCHANGED <<linkVars, backend, entry, key>>

\* A purge ends: of its history stays what it left of its scope.
Ends(o, present) ==
    /\ purge' = [purge EXCEPT ![o].found = {}, ![o].whole = FALSE,
                    ![o].doomed = IF purge[o].whole THEN purge[o].doomed \cap present ELSE {}]
    /\ Turns(o, "idle")

\* The keys a step of a purge has come to, and the call that follows.
GoesOn(o, S, whole, what) ==
    IF S = {} /\ whole THEN Ends(o, Present)
    ELSE /\ purge' = [purge EXCEPT ![o].found = S, ![o].whole = whole,
                         ![o].doomed = IF whole THEN purge[o].doomed ELSE {}]
         /\ Turns(o, IF S = {} THEN "idle" ELSE what)

AfterScan(o) ==
    IF purge[o].scope.by = "label" /\ backend = "redis" THEN "labels" ELSE "delete"

Scan(o) ==
    /\ job[o] = "scan"
    /\ GoesOn(o, Matched(purge[o].scope), purge[o].whole, AfterScan(o))
    /\ UNCHANGED entry

ReadLabels(o) ==
    /\ job[o] = "labels"
    /\ GoesOn(o, Labelled(purge[o].found, purge[o].scope), purge[o].whole, "delete")
    /\ UNCHANGED entry

\* DEL takes the list at once; the map in memory loses one key at a time,
\* or everything it holds by now.
Batches(o) ==
    CASE backend = "redis" -> {purge[o].found}
      [] backend = "memory" /\ purge[o].scope.by = "all" -> {Keys}
      [] OTHER -> {{k} : k \in purge[o].found}

Delete(o) ==
    /\ job[o] = "delete"
    /\ \E S \in Batches(o) :
        /\ Remove(S)
        /\ IF purge[o].found \subseteq S THEN Ends(o, Present \ S)
           ELSE GoesOn(o, purge[o].found \ S, purge[o].whole, "delete")

\* /health: a PING, and if it is answered the number of entries.
Probe(o) ==
    /\ job[o] = "idle"
    /\ Turns(o, "ping")
    /\ UNCHANGED <<linkVars, backend, entry, key, purge>>

Ping(o) == job[o] = "ping" /\ Turns(o, "count") /\ UNCHANGED <<entry, purge>>
Count(o) == job[o] = "count" /\ Turns(o, "idle") /\ UNCHANGED <<entry, purge>>

----------------------------------------------------------------------------
Commands == {"lookup", "store", "ping", "count", "scan", "labels", "delete"}

Command(t) ==
    \/ t \in Requests /\ (Get(t) \/ Set(t))
    \/ t \in Operators /\ (Scan(t) \/ ReadLabels(t) \/ Delete(t) \/ Ping(t) \/ Count(t))

\* A command runs in the process, or at Redis over the task's connection.
Run(t) ==
    /\ job[t] \in Commands
    /\ IF backend = "redis" THEN CommandServed(t) ELSE UNCHANGED linkVars
    /\ Command(t)
    /\ UNCHANGED <<backend, key>>

Connect(t) ==
    /\ backend = "redis" /\ job[t] \in Commands
    /\ \/ Enter(t) \/ ReadLock(t) \/ FindsHeld(t) \/ StartDial(t) \/ DialSucceeds(t)
       \/ DropHeld(t)
    /\ UNCHANGED cacheVars

\* Redis may carry out a command whose reply is not waited for any more.
Unheard(t) ==
    \/ UNCHANGED <<entry, purge>>
    \/ conn[t] = "sound" /\ job[t] = "store" /\ Put(key[t])
    \/ conn[t] = "sound" /\ job[t] = "delete" /\ Remove(purge[t].found) /\ UNCHANGED purge

Fails(t) ==
    /\ CommandFails(t) /\ Unheard(t)
    /\ UNCHANGED <<backend, job, key>>

\* The call returns without the store: a miss, an answer not stored, or a
\* purge that goes on with what it has found by then.
GivesUp(t, S) ==
    CASE job[t] = "lookup" -> Turns(t, "provider") /\ UNCHANGED purge
      [] job[t] \in {"store", "ping", "count"} -> Turns(t, "idle") /\ UNCHANGED purge
      [] job[t] = "scan" -> GoesOn(t, S, FALSE, AfterScan(t))
      [] job[t] = "labels" -> GoesOn(t, S, FALSE, "delete")
      [] job[t] = "delete" -> GoesOn(t, {}, FALSE, "delete")

\* Keys a scan or a reading of labels may have come to when it broke off.
Partly(t) ==
    CASE job[t] = "scan" -> SUBSET Matched(purge[t].scope)
      [] job[t] = "labels" -> SUBSET Labelled(purge[t].found, purge[t].scope)
      [] OTHER -> {{}}

Misses(t) ==
    /\ \/ (Refused(t) \/ DialFails(t)) /\ GivesUp(t, {})
       \/ NoteFailure(t) /\ \E S \in Partly(t) : GivesUp(t, S)
    /\ UNCHANGED <<backend, entry, key>>

\* The client hangs up, while its handler awaits Redis or the provider.
AskerLeaves(r) ==
    /\ \/ HangUp(r) /\ (IF at[r] = "using" THEN Unheard(r) ELSE UNCHANGED <<entry, purge>>)
       \/ job[r] = "provider" /\ UNCHANGED <<linkVars, entry, purge>>
    /\ Turns(r, "idle")
    /\ UNCHANGED <<backend, key>>

\* A probe gives up only on a server that lets it wait.
OperatorLeaves(o) ==
    /\ job[o] \in {"ping", "count"} => server # "up"
    /\ HangUp(o)
    /\ IF at[o] = "using" /\ conn[o] = "sound" /\ job[o] = "delete"
       THEN entry' = entry \/ Remove(purge[o].found)
       ELSE UNCHANGED entry
    /\ GoesOn(o, {}, FALSE, "idle")
    /\ UNCHANGED <<backend, key>>

----------------------------------------------------------------------------
\* The deadline of an entry passes: Redis drops it, memory finds out later.
Expire(k) ==
    /\ \E e \in entry[k] :
        /\ ~e.stale
        /\ entry' = [entry EXCEPT ![k] =
              IF backend = "redis" THEN {} ELSE {[e EXCEPT !.stale = TRUE]}]
    /\ UNCHANGED <<linkVars, backend, job, key, purge>>

\* max_entries, or Redis's maxmemory.
CapacityEvicts(k) ==
    /\ entry[k] # {}
    /\ Remove({k})
    /\ UNCHANGED <<linkVars, backend, job, key, purge>>

Redis ==
    /\ backend = "redis"
    /\ ServerTurns \/ Cools
    /\ UNCHANGED cacheVars

TaskSteps(t) == Connect(t) \/ Run(t) \/ Fails(t) \/ Misses(t)

Next ==
    \/ \E r \in Requests : Ask(r) \/ Answer(r) \/ Evict(r) \/ AskerLeaves(r)
    \/ \E o \in Operators : BeginPurge(o) \/ Probe(o) \/ OperatorLeaves(o)
    \/ \E t \in Tasks : TaskSteps(t)
    \/ \E k \in Keys : Expire(k) \/ CapacityEvicts(k)
    \/ Redis

Spec == Init /\ [][Next]_vars

(***************************************************************************)
(* Tasks that can run do: commands end in a reply, an error or the         *)
(* client's time limit.  A try that could take the lock time and again     *)
(* takes it in the end, and not every dial that could succeed is abandoned *)
(* by its caller.                                                          *)
(***************************************************************************)
Fairness ==
    /\ WF_vars(backend = "redis" /\ Cools /\ UNCHANGED cacheVars)
    /\ \A t \in Tasks : WF_vars(TaskSteps(t))
    /\ SF_vars((\E t \in Tasks : StartDial(t)) /\ UNCHANGED cacheVars)
    /\ SF_vars((\E t \in Tasks : DialSucceeds(t)) /\ UNCHANGED cacheVars)

FairSpec == Spec /\ Fairness

----------------------------------------------------------------------------
(***************************************************************************)
(* A purge that met no failure has removed every entry of its scope that   *)
(* was there when it began: on either store, over its two or three calls,  *)
(* whatever was stored, relabelled, expired or evicted meanwhile.          *)
(***************************************************************************)
PurgeHolds ==
    \A o \in Operators : job[o] = "idle" => purge[o].doomed = {}

(***************************************************************************)
(* Once Redis stays up and the cache goes on being asked (the deployment's *)
(* probes see to that), the router holds a sound connection and keeps it:  *)
(* operations that fail late on an old connection do not for ever throw    *)
(* away the new one, and no lock or cooldown is left behind by those that  *)
(* fail or are abandoned.                                                  *)
(***************************************************************************)
Heals ==
    (<>[](server = "up") /\ []<>(\E o \in Operators : at[o] = "read" /\ job[o] = "ping"))
        => <>[](held = "sound")

=============================================================================
