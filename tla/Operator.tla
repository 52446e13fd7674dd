------------------------------ MODULE Operator ------------------------------
(***************************************************************************)
(* What administrators write and what the live router follows: model rows, *)
(* disabled providers, aliases and failover chains in the database, and    *)
(* the snapshots the router holds of them.                                 *)
(*                                                                         *)
(* Every write is followed by a refresh that reads the tables back, one    *)
(* query at a time, and stores the result whole.  Administrators overlap,  *)
(* a query may fail, and a restart loads everything again.                 *)
(***************************************************************************)
EXTENDS Naturals, FiniteSets, Sequences

CONSTANTS
    Admins,
    Models, Providers, ProviderOf,  \* provider/model pairs, and their provider
    Rows, ModelOf,                  \* ids of model rows, and the model they name
    Names,                          \* aliases that have no '/', as a model's id has
    RowAlias,                       \* row -> the alias it carries, if any
    ConfigAliases,                  \* [routing.model_aliases]
    MaxAliasDepth,                  \* MAX_ALIAS_DEPTH, 10 in the code
    InitialRows,                    \* row -> its state at the start
    Jobs,                           \* what administrators may do, a set of Job
    MaxJobs, MaxFaults              \* bounds: jobs begun, queries that fail

VARIABLES
    db,         \* the tables
    live,       \* the router's snapshots
    admin,      \* administrator -> the handler that serves it
    settled,    \* jobs done with nobody else about, and not written over since
    began, faults

operatorVars == <<db, live, admin, settled, began, faults>>

RowStates == {"absent", "enabled", "disabled"}
Targets == Names \cup Models
Opt(S) == {s \in SUBSET S : \A x, y \in s : x = y}

\* An alias may have the name of a model.  Chains are those of one primary model.
Job == [kind : {"create", "delete", "enable", "disable"}, row : Rows]
         \cup [kind : {"provider_on", "provider_off"}, provider : Providers]
         \cup [kind : {"alias"}, name : Targets, target : Targets]
         \cup [kind : {"unalias"}, name : Targets]
         \cup [kind : {"chain"}, chain : Seq(Models)]

\* models.alias is UNIQUE.
AliasesUnique(rows) ==
    \A i, k \in Rows :
        rows[i] # "absent" /\ rows[k] # "absent" /\ RowAlias[i] \cap RowAlias[k] # {} => i = k

ASSUME OperatorAssumption ==
    /\ ProviderOf \in [Models -> Providers] /\ ModelOf \in [Rows -> Models]
    /\ RowAlias \in [Rows -> Opt(Targets)]
    /\ ConfigAliases \in [Targets -> Opt(Targets)]
    /\ InitialRows \in [Rows -> RowStates] /\ AliasesUnique(InitialRows)
    /\ Jobs \subseteq Job
    /\ MaxJobs \in Nat /\ MaxFaults \in Nat
    /\ MaxAliasDepth \in Nat \ {0}
    /\ Names \cap Models = {}

-----------------------------------------------------------------------------
(* What a refresh makes of the rows it read.                               *)

Carriers(rows, n) == {i \in Rows : rows[i] = "enabled" /\ RowAlias[i] = {n}}

\* build_db_alias_map: managed aliases override those of enabled rows.
AliasMap(rows, aliases) ==
    [n \in Targets |-> IF aliases[n] # {} THEN aliases[n]
                       ELSE {ModelOf[i] : i \in Carriers(rows, n)}]

\* build_availability_map.
OffMap(rows, providers) ==
    [models |-> {ModelOf[i] : i \in {j \in Rows : rows[j] = "disabled"}},
     providers |-> providers]

\* AvailabilityMap::check.
IsOff(off, m) == ProviderOf[m] \in off.providers \/ m \in off.models

\* Mutant: the configuration's aliases come first.
HopConfigFirst(map, n) == IF ConfigAliases[n] # {} THEN ConfigAliases[n] ELSE map[n]

\* What the walk of a name takes next, a model's id like any other: the
\* database's map, then the config's.
Hop(map, n) == IF map[n] # {} THEN map[n] ELSE ConfigAliases[n]

\* Where a walk stands after each of the hops it may take; where there is no
\* hop it stays.
Trail(map, n) ==
    LET at[i \in 0..MaxAliasDepth] ==
            IF i = 0 THEN n
            ELSE LET hop == Hop(map, at[i - 1])
                 IN  IF hop = {} THEN at[i - 1] ELSE CHOOSE t \in hop : TRUE
    IN  at

\* resolve_inner stops at the depth it is allowed, wherever it stands.
Walk(map, n) == Trail(map, n)[MaxAliasDepth]

\* Mutant: the check goes one hop further than the router.
WouldCycleTooFar(map, n, t) ==
    \/ \E i \in 0..MaxAliasDepth : Trail(map, t)[i] = n
    \/ Hop(map, Trail(map, t)[MaxAliasDepth]) # {}

\* would_cycle: a walk from the target comes to the alias, or runs out of
\* depth.  What the alias maps to so far plays no part.
WouldCycle(map, n, t) ==
    \/ \E i \in 0..(MaxAliasDepth - 1) : Trail(map, t)[i] = n
    \/ Hop(map, Trail(map, t)[MaxAliasDepth - 1]) # {}

-----------------------------------------------------------------------------
(* One administrator's request.                                            *)

NoAliases == [n \in Targets |-> {}]
NoRows == [i \in Rows |-> "absent"]

\* model_failovers of the primary model: its fallbacks with their priority.
Links(chain) == {[priority |-> i, model |-> chain[i]] : i \in DOMAIN chain}
Link == [priority : Nat, model : Models]

Idle == [pc |-> "idle", job |-> {}, alone |-> FALSE, at |-> 1, rows |-> NoRows,
         aliases |-> NoAliases, off |-> {}, chain |-> {}]

Stages == {"idle", "checking", "writing", "inserting", "alias_rows", "aliases", "alias_store",
           "off_rows", "off_providers", "off_store", "chain_read", "chain_store"}

Handler == [pc : Stages, job : Opt(Jobs), alone : BOOLEAN, at : Nat,
            rows : [Rows -> RowStates], aliases : [Targets -> Opt(Targets)],
            off : SUBSET Providers, chain : SUBSET Link]   \* what a refresh has read

RowKinds == {"create", "delete", "enable", "disable"}
ProviderKinds == {"provider_on", "provider_off"}

Present(i) == db.rows[i] # "absent"

\* What a job writes to.
Touches(j) ==
    CASE j.kind \in RowKinds             -> {<<"model", ModelOf[j.row]>>}
      [] j.kind \in ProviderKinds        -> {<<"provider", j.provider>>}
      [] j.kind \in {"alias", "unalias"} -> {<<"alias", j.name>>}
      [] j.kind = "chain"                -> {<<"chain">>}

Unsettle(j) == settled' = {k \in settled : Touches(k) \cap Touches(j) = {}}

Goto(a, pc) == admin' = [admin EXCEPT ![a].pc = pc]
End(a) == admin' = [admin EXCEPT ![a] = Idle]

\* The handler is entered; it overlaps with whoever is inside.  An enable or a
\* disable has found its row by then.
Begin(a, j) ==
    /\ began < MaxJobs /\ began' = began + 1
    /\ admin[a].pc = "idle"
    /\ j.kind \in {"enable", "disable"} => Present(j.row)
    /\ LET others == {b \in Admins \ {a} : admin[b].pc # "idle"}
           first  == IF j.kind = "alias" THEN "checking" ELSE "writing"
       IN  admin' = [b \in Admins |->
                        IF b = a
                        THEN [Idle EXCEPT !.job = {j}, !.alone = (others = {}), !.pc = first]
                        ELSE [admin[b] EXCEPT !.alone = FALSE]]
    /\ UNCHANGED <<db, live, settled, faults>>

\* A query answers, or fails and leaves its reader with nothing.
Query(got, rows) ==
    IF got = rows THEN UNCHANGED faults ELSE faults < MaxFaults /\ faults' = faults + 1

\* validate_alias reads the tables and looks for a cycle; the catalog may turn
\* the target down, and when it is unavailable everything is accepted.
CheckAlias(a) ==
    /\ admin[a].pc = "checking"
    /\ \E j \in admin[a].job :
       \E got \in {db, [db EXCEPT !.rows = NoRows, !.aliases = NoAliases]} :
          /\ Query(got, db)
          /\ IF WouldCycle(AliasMap(got.rows, got.aliases), j.name, j.target)
             THEN End(a) ELSE Goto(a, "writing")
    /\ UNCHANGED <<db, live, settled, began>>

CatalogRefuses(a) ==
    /\ admin[a].pc = "checking"
    /\ End(a)
    /\ UNCHANGED <<db, live, settled, began, faults>>

\* UPDATE and DELETE may find no row any more; an alias that is taken fails an INSERT.
Written(j) ==
    CASE j.kind = "create"                     -> "enabled"
      [] j.kind = "enable" /\ Present(j.row)  -> "enabled"
      [] j.kind = "disable" /\ Present(j.row) -> "disabled"
      [] OTHER                                -> "absent"

Insertable(i) ==
    ~Present(i) /\ \A k \in Rows : Present(k) => RowAlias[k] \cap RowAlias[i] = {}

WriteRow(a) ==
    /\ admin[a].pc = "writing"
    /\ \E j \in admin[a].job :
          /\ j.kind \in RowKinds
          /\ IF j.kind = "create" /\ ~Insertable(j.row)
             THEN End(a) /\ UNCHANGED <<db, settled>>
             ELSE /\ db' = [db EXCEPT !.rows[j.row] = Written(j)]
                  /\ Unsettle(j)
                  /\ Goto(a, "alias_rows")
    /\ UNCHANGED <<live, began, faults>>

WriteProvider(a) ==
    /\ admin[a].pc = "writing"
    /\ \E j \in admin[a].job :
          /\ j.kind \in ProviderKinds
          /\ db' = [db EXCEPT !.providers = IF j.kind = "provider_off" THEN @ \cup {j.provider}
                                            ELSE @ \ {j.provider}]
          /\ Unsettle(j)
    /\ Goto(a, "alias_rows")
    /\ UNCHANGED <<live, began, faults>>

\* To delete an alias that has no row is an error, without a refresh.
WriteAlias(a) ==
    /\ admin[a].pc = "writing"
    /\ \E j \in admin[a].job :
          /\ j.kind \in {"alias", "unalias"}
          /\ db' = [db EXCEPT !.aliases[j.name] = IF j.kind = "alias" THEN {j.target} ELSE {}]
          /\ Unsettle(j)
          /\ IF j.kind = "unalias" /\ db.aliases[j.name] = {}
             THEN End(a) ELSE Goto(a, "alias_rows")
    /\ UNCHANGED <<live, began, faults>>

\* set_failovers: a DELETE, and then an INSERT for each fallback.  Each pair is
\* UNIQUE: one that is there already ends the handler, the chain half written.
DeleteChain(a) ==
    /\ admin[a].pc = "writing"
    /\ \E j \in admin[a].job : j.kind = "chain" /\ Unsettle(j)
    /\ db' = [db EXCEPT !.chain = {}]
    /\ Goto(a, "inserting")
    /\ UNCHANGED <<live, began, faults>>

InsertFallback(a) ==
    /\ admin[a].pc = "inserting"
    /\ \E j \in admin[a].job :
          /\ admin[a].at \in DOMAIN j.chain
          /\ LET link == [priority |-> admin[a].at, model |-> j.chain[admin[a].at]]
             IN  IF \E l \in db.chain : l.model = link.model
                 THEN End(a) /\ UNCHANGED db
                 ELSE /\ db' = [db EXCEPT !.chain = @ \cup {link}]
                      /\ admin' = [admin EXCEPT ![a].at = @ + 1]
    /\ UNCHANGED <<live, settled, began, faults>>

ChainWritten(a) ==
    /\ admin[a].pc = "inserting"
    /\ \E j \in admin[a].job : admin[a].at \notin DOMAIN j.chain
    /\ Goto(a, "chain_read")
    /\ UNCHANGED <<db, live, settled, began, faults>>

-----------------------------------------------------------------------------
(* The refreshes, query by query.                                          *)

\* build_db_alias_map, then build_availability_map where the job asks for it.
ReadRows(a, at, then) ==
    /\ admin[a].pc = at
    /\ \E got \in {db.rows, NoRows} :
          /\ Query(got, db.rows)
          /\ admin' = [admin EXCEPT ![a].pc = then, ![a].rows = got]
    /\ UNCHANGED <<db, live, settled, began>>

ReadAliases(a) ==
    /\ admin[a].pc = "aliases"
    /\ \E got \in {db.aliases, NoAliases} :
          /\ Query(got, db.aliases)
          /\ admin' = [admin EXCEPT ![a].pc = "alias_store", ![a].aliases = got]
    /\ UNCHANGED <<db, live, settled, began>>

ReadProviders(a) ==
    /\ admin[a].pc = "off_providers"
    /\ \E got \in {db.providers, {}} :
          /\ Query(got, db.providers)
          /\ admin' = [admin EXCEPT ![a].pc = "off_store", ![a].off = got]
    /\ UNCHANGED <<db, live, settled, began>>

\* The handler is done; a job that met nobody is settled.
Done(a) ==
    /\ End(a)
    /\ settled' = settled \cup (IF admin[a].alone THEN admin[a].job ELSE {})

\* Mutant: every write refreshes the aliases alone.
RefreshesAliases(j) == FALSE

\* refresh_router_state, where create, delete and alias writes call
\* refresh_router_aliases.
RefreshesState(j) == j.kind \in {"enable", "disable"} \cup ProviderKinds

StoreAliases(a) ==
    /\ admin[a].pc = "alias_store"
    /\ live' = [live EXCEPT !.aliases = AliasMap(admin[a].rows, admin[a].aliases)]
    /\ IF \E j \in admin[a].job : RefreshesState(j)
       THEN Goto(a, "off_rows") /\ UNCHANGED settled
       ELSE Done(a)
    /\ UNCHANGED <<db, began, faults>>

StoreOff(a) ==
    /\ admin[a].pc = "off_store"
    /\ live' = [live EXCEPT !.off = OffMap(admin[a].rows, admin[a].off)]
    /\ Done(a)
    /\ UNCHANGED <<db, began, faults>>

\* refresh_router_failovers stores nothing when its query fails.
ReadChain(a) ==
    /\ admin[a].pc = "chain_read"
    /\ \/ /\ admin' = [admin EXCEPT ![a].pc = "chain_store", ![a].chain = db.chain]
          /\ UNCHANGED <<settled, faults>>
       \/ faults < MaxFaults /\ faults' = faults + 1 /\ Done(a)
    /\ UNCHANGED <<db, live, began>>

StoreChain(a) ==
    /\ admin[a].pc = "chain_store"
    /\ live' = [live EXCEPT !.chain = admin[a].chain]
    /\ Done(a)
    /\ UNCHANGED <<db, began, faults>>

\* A new process seeds the router from the tables; nothing of a handler is left.
Loaded(tables) == [aliases |-> AliasMap(tables.rows, tables.aliases),
                   off     |-> OffMap(tables.rows, tables.providers),
                   chain   |-> tables.chain]

NoTables == [rows |-> NoRows, providers |-> {}, aliases |-> NoAliases, chain |-> {}]

Restart ==
    /\ \E got \in {db, NoTables} : Query(got, db) /\ live' = Loaded(got)
    /\ admin' = [a \in Admins |-> Idle]
    /\ UNCHANGED <<db, settled, began>>

\* The administrator hangs up, and the handler is dropped where it stands.
Dropped(a) ==
    /\ admin[a].pc # "idle"
    /\ End(a)
    /\ UNCHANGED <<db, live, settled, began, faults>>

-----------------------------------------------------------------------------
OperatorInit ==
    /\ db = [NoTables EXCEPT !.rows = InitialRows]
    /\ live = Loaded(db)
    /\ admin = [a \in Admins |-> Idle]
    /\ settled = {} /\ began = 0 /\ faults = 0

Operate ==
    \E a \in Admins :
        \/ (\E j \in Jobs : Begin(a, j))
        \/ CheckAlias(a) \/ CatalogRefuses(a)
        \/ WriteRow(a) \/ WriteProvider(a) \/ WriteAlias(a)
        \/ DeleteChain(a) \/ InsertFallback(a) \/ ChainWritten(a)
        \/ ReadRows(a, "alias_rows", "aliases") \/ ReadAliases(a) \/ StoreAliases(a)
        \/ ReadRows(a, "off_rows", "off_providers") \/ ReadProviders(a) \/ StoreOff(a)
        \/ ReadChain(a) \/ StoreChain(a) \/ Dropped(a)

-----------------------------------------------------------------------------
(* Properties.                                                             *)

LiveState == [aliases : [Targets -> Opt(Targets)],
              off : [models : SUBSET Models, providers : SUBSET Providers],
              chain : SUBSET Link]

OperatorTypeOK ==
    /\ db \in [rows : [Rows -> RowStates], providers : SUBSET Providers,
               aliases : [Targets -> Opt(Targets)], chain : SUBSET Link]
    /\ live \in LiveState
    /\ admin \in [Admins -> Handler]
    /\ settled \subseteq Jobs
    /\ began \in 0..MaxJobs /\ faults \in 0..MaxFaults

\* What the router does once a job is done.
TookEffect(j) ==
    CASE j.kind = "disable"      -> IsOff(live.off, ModelOf[j.row])
      [] j.kind = "provider_off" -> j.provider \in live.off.providers
      [] j.kind = "provider_on"  -> j.provider \notin live.off.providers
      [] j.kind = "alias"        -> live.aliases[j.name] = {j.target}
      [] j.kind = "chain"        -> live.chain = Links(j.chain)
      [] j.kind = "enable"       ->
            ModelOf[j.row] \in live.off.models =>
                \E i \in Rows : ModelOf[i] = ModelOf[j.row] /\ db.rows[i] = "disabled"
      [] OTHER -> TRUE

\* A write that met no other administrator's rules the live router until the
\* same thing is written again, whatever later writes to other things refresh
\* and whenever the process restarts (aliases.rs, models.rs, cli/mod.rs).
SettledWritesHold == \A j \in settled : TookEffect(j)

\* An alias that was accepted and written by an administrator who met no other
\* leads somewhere when the router takes it over: the check at the write, over
\* tables that are read again for the refresh, is as deep as the router's own
\* walk, configured aliases and aliases of models included (aliases.rs: "mirroring
\* RequestRouter::resolve").  Administrators who overlap, rows that carry an
\* alias and the end of an alias may still lead another one round in a circle.
AcceptedAliasResolves ==
    [][\A j \in settled' \ settled :
        j.kind = "alias" => Hop(live'.aliases, Walk(live'.aliases, j.name)) = {}]_operatorVars
=============================================================================
