---------------------------- MODULE RoutingProofs ----------------------------
(***************************************************************************)
(* What administrators and requests are promised, for any tables, aliases, *)
(* pools and weights and any number of administrators and requests: a      *)
(* write that met no other rules the router, what is disabled is not       *)
(* called, an accepted alias resolves, and a pool is refused for cause.    *)
(***************************************************************************)
EXTENDS Routing, WellFoundedInduction, TLAPS

-----------------------------------------------------------------------------
(* Sets of at most one element, and jobs. *)

LEMMA OptOfNone == ASSUME NEW S PROVE {} \in Opt(S)
BY DEF Opt

LEMMA OptOfOne == ASSUME NEW S, NEW x \in S PROVE {x} \in Opt(S)
BY DEF Opt

LEMMA OneOfOpt == ASSUME NEW S, NEW o \in Opt(S), NEW x \in o PROVE x \in S /\ o = {x}
BY DEF Opt

Kinds == RowKinds \cup ProviderKinds \cup {"alias", "unalias", "chain"}

LEMMA JobFields ==
    ASSUME NEW j \in Jobs
    PROVE  /\ j.kind \in Kinds
           /\ j.kind \in RowKinds => j.row \in Rows
           /\ j.kind \in ProviderKinds => j.provider \in Providers
           /\ j.kind \in {"alias", "unalias"} => j.name \in Targets
           /\ j.kind = "alias" => j.target \in Targets
           /\ j.kind = "chain" => j.chain \in Seq(Models)
<1>1. j \in Job
  BY OperatorAssumption
<1>2. CASE j \in [kind : {"create", "delete", "enable", "disable"}, row : Rows]
  BY <1>2 DEF Kinds, RowKinds, ProviderKinds
<1>3. CASE j \in [kind : {"provider_on", "provider_off"}, provider : Providers]
  BY <1>3 DEF Kinds, RowKinds, ProviderKinds
<1>4. CASE j \in [kind : {"alias"}, name : Targets, target : Targets]
  BY <1>4 DEF Kinds, RowKinds, ProviderKinds
<1>5. CASE j \in [kind : {"unalias"}, name : Targets]
  BY <1>5 DEF Kinds, RowKinds, ProviderKinds
<1>6. CASE j \in [kind : {"chain"}, chain : Seq(Models)]
  BY <1>6 DEF Kinds, RowKinds, ProviderKinds
<1> QED BY <1>1, <1>2, <1>3, <1>4, <1>5, <1>6 DEF Job

-----------------------------------------------------------------------------
(* What a refresh makes of the rows has its type: an alias has one row.    *)

LEMMA AliasMapTyped ==
    ASSUME NEW rows \in [Rows -> RowStates], AliasesUnique(rows),
           NEW aliases \in [Targets -> Opt(Targets)]
    PROVE  AliasMap(rows, aliases) \in [Targets -> Opt(Targets)]
<1> SUFFICES ASSUME NEW n \in Targets
             PROVE  {ModelOf[i] : i \in Carriers(rows, n)} \in Opt(Targets)
  BY DEF AliasMap
<1>1. \A i, k \in Carriers(rows, n) : i = k
  BY DEF Carriers, AliasesUnique
<1>2. {ModelOf[i] : i \in Carriers(rows, n)} \subseteq Targets
  BY OperatorAssumption DEF Carriers, Targets
<1> QED BY <1>1, <1>2 DEF Opt

LEMMA OffMapTyped ==
    ASSUME NEW rows \in [Rows -> RowStates], NEW providers \in SUBSET Providers
    PROVE  OffMap(rows, providers) \in [models : SUBSET Models, providers : SUBSET Providers]
BY OperatorAssumption DEF OffMap

LEMMA NothingUnique == AliasesUnique(NoRows) /\ NoRows \in [Rows -> RowStates]
BY DEF AliasesUnique, NoRows, RowStates

LEMMA NoAliasesTyped == NoAliases \in [Targets -> Opt(Targets)]
BY OptOfNone DEF NoAliases

LEMMA LinksTyped ==
    ASSUME NEW chain \in Seq(Models)
    PROVE  Links(chain) \subseteq Link
BY DEF Links, Link

Tables == [rows : {t \in [Rows -> RowStates] : AliasesUnique(t)}, providers : SUBSET Providers,
           aliases : [Targets -> Opt(Targets)], chain : SUBSET Link]

LEMMA LoadedTyped ==
    ASSUME NEW t \in Tables
    PROVE  Loaded(t) \in LiveState
BY AliasMapTyped, OffMapTyped DEF Loaded, Tables, LiveState

LEMMA NoTablesTyped == NoTables \in Tables
BY NothingUnique, NoAliasesTyped DEF NoTables, Tables

-----------------------------------------------------------------------------
(* What a step makes of the handlers.                                      *)

\* The jobs that come to a stage.
Fits(pc, j) ==
    /\ pc = "checking" => j.kind = "alias"
    /\ pc \in {"inserting", "chain_read", "chain_store"} => j.kind = "chain"
    /\ pc \in {"alias_rows", "aliases", "alias_store"} => j.kind # "chain"
    /\ pc \in {"off_rows", "off_providers", "off_store"} => RefreshesState(j)

Placed(h) == AliasesUnique(h.rows) /\ \A j \in h.job : Fits(h.pc, j)

\* The type invariant, with what its proof needs of tables and handlers.
OperatorTypes ==
    /\ db \in Tables /\ live \in LiveState
    /\ admin \in [Admins -> Handler] /\ \A a \in Admins : Placed(admin[a])
    /\ settled \subseteq Jobs
    /\ began \in 0..MaxJobs /\ faults \in 0..MaxFaults

\* No other handler moves.
Frame(a) ==
    /\ admin' \in [Admins -> Handler]
    /\ \A o \in Admins \ {a} : admin'[o] = admin[o]

\* The handler keeps its job.
SameJob(h, k) == k.job = h.job /\ k.alone = h.alone

\* The handler keeps what it has read.
SameCopies(h, k) ==
    /\ k.rows = h.rows /\ k.aliases = h.aliases
    /\ k.off = h.off /\ k.chain = h.chain

LEMMA EndMoves ==
    ASSUME OperatorTypes, NEW a \in Admins, End(a)
    PROVE  Frame(a) /\ admin'[a] = Idle
<1>1. Idle \in Handler
  BY OptOfNone, NothingUnique, NoAliasesTyped DEF Idle, Handler, Stages
<1> QED BY <1>1 DEF OperatorTypes, End, Frame

LEMMA GotoMoves ==
    ASSUME OperatorTypes, NEW a \in Admins, NEW pc \in Stages, Goto(a, pc)
    PROVE  /\ Frame(a) /\ admin'[a].pc = pc /\ admin'[a].at = admin[a].at
           /\ SameJob(admin[a], admin'[a]) /\ SameCopies(admin[a], admin'[a])
BY DEF OperatorTypes, Goto, Frame, Handler, SameJob, SameCopies

LEMMA RowsMove ==
    ASSUME OperatorTypes, NEW a \in Admins, NEW pc \in Stages, NEW got \in [Rows -> RowStates],
           admin' = [admin EXCEPT ![a].pc = pc, ![a].rows = got]
    PROVE  /\ Frame(a) /\ admin'[a].pc = pc /\ SameJob(admin[a], admin'[a])
           /\ admin'[a].rows = got
<1> DEFINE h == [admin[a] EXCEPT !.pc = pc, !.rows = got]
<1>1. admin \in [Admins -> Handler] /\ admin[a] \in Handler
  BY DEF OperatorTypes
<1>2. h \in Handler /\ h.pc = pc /\ h.rows = got /\ SameJob(admin[a], h)
  BY <1>1 DEF Handler, SameJob
<1>3. admin' = [admin EXCEPT ![a] = h]
  OBVIOUS
<1> HIDE DEF h
<1> QED BY <1>1, <1>2, <1>3 DEF Frame

LEMMA AliasesMove ==
    ASSUME OperatorTypes, NEW a \in Admins, NEW got \in [Targets -> Opt(Targets)],
           admin' = [admin EXCEPT ![a].pc = "alias_store", ![a].aliases = got]
    PROVE  /\ Frame(a) /\ admin'[a].pc = "alias_store" /\ SameJob(admin[a], admin'[a])
           /\ admin'[a].aliases = got /\ admin'[a].rows = admin[a].rows
<1> DEFINE h == [admin[a] EXCEPT !.pc = "alias_store", !.aliases = got]
<1>1. admin[a] \in Handler
  BY DEF OperatorTypes
<1>2. /\ h \in Handler /\ h.pc = "alias_store" /\ h.aliases = got /\ h.rows = admin[a].rows
      /\ h.job = admin[a].job /\ h.alone = admin[a].alone
  BY <1>1 DEF Handler, Stages
<1>3. admin' = [admin EXCEPT ![a] = h]
  OBVIOUS
<1> HIDE DEF h
<1> QED BY <1>2, <1>3 DEF OperatorTypes, Frame, SameJob

LEMMA ProvidersMove ==
    ASSUME OperatorTypes, NEW a \in Admins, NEW got \in SUBSET Providers,
           admin' = [admin EXCEPT ![a].pc = "off_store", ![a].off = got]
    PROVE  /\ Frame(a) /\ admin'[a].pc = "off_store" /\ SameJob(admin[a], admin'[a])
           /\ admin'[a].off = got /\ admin'[a].rows = admin[a].rows
<1> DEFINE h == [admin[a] EXCEPT !.pc = "off_store", !.off = got]
<1>1. admin[a] \in Handler /\ "off_store" \in Stages
  BY DEF OperatorTypes, Stages
<1>2. /\ h \in Handler /\ h.pc = "off_store" /\ h.off = got /\ h.rows = admin[a].rows
      /\ h.job = admin[a].job /\ h.alone = admin[a].alone
  BY <1>1 DEF Handler
<1>3. admin' = [admin EXCEPT ![a] = h]
  OBVIOUS
<1> HIDE DEF h
<1> QED BY <1>2, <1>3 DEF OperatorTypes, Frame, SameJob

LEMMA ChainMoves ==
    ASSUME OperatorTypes, NEW a \in Admins, NEW got \in SUBSET Link,
           admin' = [admin EXCEPT ![a].pc = "chain_store", ![a].chain = got]
    PROVE  /\ Frame(a) /\ admin'[a].pc = "chain_store" /\ SameJob(admin[a], admin'[a])
           /\ admin'[a].chain = got /\ admin'[a].rows = admin[a].rows
<1> DEFINE h == [admin[a] EXCEPT !.pc = "chain_store", !.chain = got]
<1>1. admin[a] \in Handler
  BY DEF OperatorTypes
<1>2. /\ h \in Handler /\ h.pc = "chain_store" /\ h.chain = got /\ h.rows = admin[a].rows
      /\ h.job = admin[a].job /\ h.alone = admin[a].alone
  BY <1>1 DEF Handler, Stages
<1>3. admin' = [admin EXCEPT ![a] = h]
  OBVIOUS
<1> HIDE DEF h
<1> QED BY <1>2, <1>3 DEF OperatorTypes, Frame, SameJob

LEMMA InsertMoves ==
    ASSUME OperatorTypes, NEW a \in Admins, admin' = [admin EXCEPT ![a].at = @ + 1]
    PROVE  /\ Frame(a) /\ admin'[a].pc = admin[a].pc /\ admin'[a].at = admin[a].at + 1
           /\ SameJob(admin[a], admin'[a]) /\ SameCopies(admin[a], admin'[a])
<1>1. admin[a] \in Handler
  BY DEF OperatorTypes
<1>2. PICK n \in Nat : n = admin[a].at + 1
  BY <1>1 DEF Handler
<1> DEFINE h == [admin[a] EXCEPT !.at = n]
<1>3. /\ h \in Handler /\ h.pc = admin[a].pc /\ h.at = n
      /\ SameJob(admin[a], h) /\ SameCopies(admin[a], h)
  BY <1>1 DEF Handler, SameJob, SameCopies
<1>4. admin' = [admin EXCEPT ![a] = h]
  BY <1>2
<1> HIDE DEF h
<1> QED BY <1>2, <1>3, <1>4 DEF OperatorTypes, Frame

\* A handler is entered, and those inside are alone no longer.
Met(o) == [admin[o] EXCEPT !.alone = FALSE]

LEMMA MetFields ==
    ASSUME OperatorTypes, NEW o \in Admins
    PROVE  /\ Met(o) \in Handler /\ Met(o).alone = FALSE
           /\ Met(o).pc = admin[o].pc /\ Met(o).job = admin[o].job /\ Met(o).at = admin[o].at
           /\ SameCopies(admin[o], Met(o))
BY DEF OperatorTypes, Handler, Met, SameCopies

Others(a) == {b \in Admins \ {a} : admin[b].pc # "idle"}

LEMMA BeginMoves ==
    ASSUME OperatorTypes, NEW a \in Admins, NEW j \in Jobs, Begin(a, j)
    PROVE  /\ admin' \in [Admins -> Handler]
           /\ \A o \in Admins \ {a} : admin'[o] = Met(o)
           /\ admin'[a].pc = (IF j.kind = "alias" THEN "checking" ELSE "writing")
           /\ admin'[a].job = {j} /\ admin'[a].alone = (Others(a) = {}) /\ admin'[a].at = 1
           /\ admin'[a].rows = NoRows
<1> DEFINE first == IF j.kind = "alias" THEN "checking" ELSE "writing"
           h == [Idle EXCEPT !.job = {j}, !.alone = (Others(a) = {}), !.pc = first]
<1>1. /\ h \in Handler /\ h.pc = first /\ h.job = {j} /\ h.alone = (Others(a) = {}) /\ h.at = 1
      /\ h.rows = NoRows
  BY OptOfOne, NothingUnique, NoAliasesTyped DEF Idle, Handler, Stages
<1>2. admin' = [b \in Admins |-> IF b = a THEN h ELSE Met(b)]
  BY DEF Begin, Others, Met
<1> HIDE DEF h
<1> QED BY <1>1, <1>2, MetFields

-----------------------------------------------------------------------------
(* Every step keeps the types.                                             *)

LEMMA QueryCounts ==
    ASSUME OperatorTypes, NEW got, NEW rows, Query(got, rows)
    PROVE  /\ faults' \in 0..MaxFaults /\ faults' >= faults
           /\ faults' = 0 => got = rows
BY OperatorAssumption DEF OperatorTypes, Query

LEMMA RowFrame ==
    ASSUME OperatorTypes, NEW i \in Rows, NEW st \in RowStates,
           db' = [db EXCEPT !.rows[i] = st]
    PROVE  /\ db'.rows = [db.rows EXCEPT ![i] = st] /\ db'.providers = db.providers
           /\ db'.aliases = db.aliases /\ db'.chain = db.chain
           /\ db'.rows \in [Rows -> RowStates]
           /\ AliasesUnique(db'.rows) => db' \in Tables
BY DEF OperatorTypes, Tables

LEMMA WrittenUnique ==
    ASSUME OperatorTypes, NEW j \in Jobs, j.kind \in RowKinds,
           j.kind = "create" => Insertable(j.row)
    PROVE  /\ Written(j) \in RowStates
           /\ AliasesUnique([db.rows EXCEPT ![j.row] = Written(j)])
<1> DEFINE st == Written(j)
           rows == [db.rows EXCEPT ![j.row] = st]
<1>1. st \in RowStates /\ j.row \in Rows
  BY JobFields DEF Written, RowStates
<1>2. AliasesUnique(db.rows) /\ db.rows \in [Rows -> RowStates]
  BY DEF OperatorTypes, Tables
<1>3. /\ \A i \in Rows \ {j.row} : rows[i] = db.rows[i]
      /\ rows[j.row] = st
  BY <1>1, <1>2
<1>4. ASSUME j.kind = "create" PROVE AliasesUnique(rows)
  <2>1. \A k \in Rows : db.rows[k] # "absent" => /\ RowAlias[k] \cap RowAlias[j.row] = {}
                                                 /\ RowAlias[j.row] \cap RowAlias[k] = {}
    BY <1>4 DEF Insertable, Present
  <2> HIDE DEF rows, st
  <2> QED BY <1>1, <1>2, <1>3, <2>1 DEF AliasesUnique
<1>5. ASSUME j.kind # "create" PROVE AliasesUnique(rows)
  <2>1. ASSUME db.rows[j.row] = "absent" PROVE st = "absent"
    BY <1>5, <2>1 DEF Written, Present
  <2> HIDE DEF rows, st
  <2> QED BY <1>1, <1>2, <1>3, <2>1 DEF AliasesUnique
<1> QED BY <1>1, <1>4, <1>5

LEMMA AliasFrame ==
    ASSUME OperatorTypes, NEW n \in Targets, NEW to \in Opt(Targets),
           db' = [db EXCEPT !.aliases[n] = to]
    PROVE  /\ db'.aliases = [db.aliases EXCEPT ![n] = to] /\ db'.providers = db.providers
           /\ db'.rows = db.rows /\ db'.chain = db.chain /\ db' \in Tables
<1>1. db \in Tables
  BY DEF OperatorTypes
<1>2. [db.aliases EXCEPT ![n] = to] \in [Targets -> Opt(Targets)]
  BY <1>1 DEF Tables
<1> QED BY <1>1, <1>2 DEF Tables

LEMMA ProvidersFrame ==
    ASSUME OperatorTypes, NEW p \in SUBSET Providers, db' = [db EXCEPT !.providers = p]
    PROVE  /\ db'.providers = p /\ db'.aliases = db.aliases
           /\ db'.rows = db.rows /\ db'.chain = db.chain /\ db' \in Tables
BY DEF OperatorTypes, Tables

LEMMA ChainFrame ==
    ASSUME OperatorTypes, NEW c \in SUBSET Link, db' = [db EXCEPT !.chain = c]
    PROVE  /\ db'.chain = c /\ db'.aliases = db.aliases
           /\ db'.rows = db.rows /\ db'.providers = db.providers /\ db' \in Tables
BY DEF OperatorTypes, Tables

LEMMA LiveFrame ==
    ASSUME OperatorTypes
    PROVE  /\ \A m \in [Targets -> Opt(Targets)] : [live EXCEPT !.aliases = m] \in LiveState
           /\ \A o \in [models : SUBSET Models, providers : SUBSET Providers] :
                [live EXCEPT !.off = o] \in LiveState
           /\ \A c \in SUBSET Link : [live EXCEPT !.chain = c] \in LiveState
BY DEF OperatorTypes, LiveState

LEMMA DoneTyped ==
    ASSUME OperatorTypes, NEW a \in Admins, Done(a)
    PROVE  settled' \subseteq Jobs /\ Frame(a) /\ admin'[a] = Idle
<1>1. admin[a].job \in Opt(Jobs)
  BY DEF OperatorTypes, Handler
<1> QED BY <1>1, EndMoves DEF Done, OperatorTypes, Opt

LEMMA FramePlaced ==
    ASSUME OperatorTypes, NEW a \in Admins, Frame(a), Placed(admin'[a])
    PROVE  \A o \in Admins : Placed(admin'[o])
BY DEF OperatorTypes, Frame

LEMMA IdlePlaced == Placed(Idle)
BY NothingUnique DEF Idle, Placed

LEMMA GotoPlaced ==
    ASSUME OperatorTypes, NEW a \in Admins, NEW pc \in Stages, Goto(a, pc),
           \A j \in admin[a].job : Fits(pc, j)
    PROVE  Frame(a) /\ Placed(admin'[a])
<1>1. Placed(admin[a])
  BY DEF OperatorTypes
<1>2. AliasesUnique(admin'[a].rows)
  BY <1>1, GotoMoves DEF SameCopies, Placed
<1>3. \A j \in admin'[a].job : Fits(admin'[a].pc, j)
  BY GotoMoves DEF SameJob
<1> QED BY <1>2, <1>3, GotoMoves DEF Placed

LEMMA BeginTypes ==
    ASSUME OperatorTypes, NEW a \in Admins, NEW j \in Jobs, Begin(a, j)
    PROVE  OperatorTypes'
<1>1. \A o \in Admins : Placed(admin'[o])
  <2>1. Placed(admin'[a])
    <3>1. AliasesUnique(admin'[a].rows)
      BY BeginMoves, NothingUnique
    <3>2. Fits(admin'[a].pc, j)
      BY BeginMoves DEF Fits
    <3> QED BY <3>1, <3>2, BeginMoves DEF Placed
  <2>2. ASSUME NEW o \in Admins \ {a} PROVE Placed(admin'[o])
    <3>1. Placed(Met(o))
      BY MetFields DEF SameCopies, OperatorTypes, Placed
    <3> QED BY <3>1, BeginMoves
  <2> QED BY <2>1, <2>2
<1>2. began' \in 0..MaxJobs
  <2>1. began < MaxJobs /\ began' = began + 1
    BY DEF Begin
  <2> QED BY <2>1, OperatorAssumption DEF OperatorTypes
<1>3. /\ UNCHANGED <<db, live, settled, faults>>
      /\ admin' \in [Admins -> Handler]
  BY BeginMoves DEF Begin
<1> QED BY <1>1, <1>2, <1>3 DEF OperatorTypes

\* A step that moves one handler, and leaves the tables and snapshots.
LEMMA HandlerTypes ==
    ASSUME OperatorTypes, NEW a \in Admins, Frame(a), Placed(admin'[a]),
           UNCHANGED <<db, live, began>>, settled' \subseteq Jobs, faults' \in 0..MaxFaults
    PROVE  OperatorTypes'
<1>1. \A o \in Admins : Placed(admin'[o])
  BY FramePlaced
<1> QED BY <1>1 DEF Frame, OperatorTypes

LEMMA EndTypes ==
    ASSUME OperatorTypes, NEW a \in Admins, End(a), UNCHANGED <<db, live, began>>,
           settled' \subseteq Jobs, faults' \in 0..MaxFaults
    PROVE  OperatorTypes'
BY EndMoves, IdlePlaced, HandlerTypes

LEMMA GotoTypes ==
    ASSUME OperatorTypes, NEW a \in Admins, NEW pc \in Stages, Goto(a, pc),
           \A j \in admin[a].job : Fits(pc, j),
           UNCHANGED <<db, live, began>>, settled' \subseteq Jobs, faults' \in 0..MaxFaults
    PROVE  OperatorTypes'
BY GotoPlaced, HandlerTypes

LEMMA StagesNamed ==
    /\ "idle" \in Stages /\ "checking" \in Stages /\ "writing" \in Stages /\ "inserting" \in Stages
    /\ "alias_rows" \in Stages /\ "aliases" \in Stages /\ "alias_store" \in Stages
    /\ "off_rows" \in Stages /\ "off_providers" \in Stages /\ "off_store" \in Stages
    /\ "chain_read" \in Stages /\ "chain_store" \in Stages
BY DEF Stages

LEMMA JobOf ==
    ASSUME OperatorTypes, NEW a \in Admins, NEW j \in admin[a].job
    PROVE  j \in Jobs /\ admin[a].job = {j} /\ Fits(admin[a].pc, j)
<1>1. admin[a].job \in Opt(Jobs) /\ Placed(admin[a])
  BY DEF OperatorTypes, Handler
<1> QED BY <1>1, OneOfOpt DEF Placed

LEMMA CheckAliasTypes ==
    ASSUME OperatorTypes, NEW a \in Admins, CheckAlias(a)
    PROVE  OperatorTypes'
<1>1. PICK got : Query(got, db) /\ (End(a) \/ Goto(a, "writing"))
  BY DEF CheckAlias
<1>2. UNCHANGED <<db, live, settled, began>>
  BY DEF CheckAlias
<1>3. settled' \subseteq Jobs /\ faults' \in 0..MaxFaults
  BY <1>1, <1>2, QueryCounts DEF OperatorTypes
<1>4. \A j \in admin[a].job : Fits("writing", j)
  BY DEF Fits
<1> QED BY <1>1, <1>2, <1>3, <1>4, EndTypes, GotoTypes, StagesNamed

LEMMA RefusalTypes ==
    ASSUME OperatorTypes, NEW a \in Admins, CatalogRefuses(a) \/ Dropped(a)
    PROVE  OperatorTypes'
<1>1. End(a) /\ UNCHANGED <<db, live, settled, began, faults>>
  BY DEF CatalogRefuses, Dropped
<1> QED BY <1>1, EndTypes DEF OperatorTypes

LEMMA ChainWrittenTypes ==
    ASSUME OperatorTypes, NEW a \in Admins, ChainWritten(a)
    PROVE  OperatorTypes'
<1>1. Goto(a, "chain_read") /\ UNCHANGED <<db, live, settled, began, faults>>
  BY DEF ChainWritten
<1>2. \A j \in admin[a].job : Fits("chain_read", j)
  BY JobOf DEF ChainWritten, Fits
<1> QED BY <1>1, <1>2, GotoTypes, StagesNamed DEF OperatorTypes

LEMMA UnsettleTyped ==
    ASSUME OperatorTypes, NEW j, Unsettle(j)
    PROVE  settled' \subseteq Jobs
BY DEF OperatorTypes, Unsettle

\* A write to the tables, by a handler that ends or goes on.
LEMMA WriteTypes ==
    ASSUME OperatorTypes, NEW a \in Admins, NEW pc \in Stages, End(a) \/ Goto(a, pc),
           \A j \in admin[a].job : Fits(pc, j),
           db' \in Tables, settled' \subseteq Jobs, UNCHANGED <<live, began, faults>>
    PROVE  OperatorTypes'
<1>1. Frame(a) /\ Placed(admin'[a])
  BY EndMoves, GotoPlaced, IdlePlaced
<1>2. \A o \in Admins : Placed(admin'[o])
  BY <1>1, FramePlaced
<1> QED BY <1>1, <1>2 DEF Frame, OperatorTypes

LEMMA RefreshNext ==
    ASSUME OperatorTypes, NEW a \in Admins, NEW j \in admin[a].job, j.kind # "chain"
    PROVE  \A k \in admin[a].job : Fits("alias_rows", k)
BY JobOf DEF Fits

LEMMA WriteRowTypes ==
    ASSUME OperatorTypes, NEW a \in Admins, WriteRow(a)
    PROVE  OperatorTypes'
<1>1. PICK j \in admin[a].job :
         /\ j.kind \in RowKinds
         /\ IF j.kind = "create" /\ ~Insertable(j.row)
            THEN End(a) /\ UNCHANGED <<db, settled>>
            ELSE /\ db' = [db EXCEPT !.rows[j.row] = Written(j)]
                 /\ Unsettle(j)
                 /\ Goto(a, "alias_rows")
  BY DEF WriteRow
<1>2. j \in Jobs /\ j.row \in Rows
  BY <1>1, JobOf, JobFields
<1>3. db' \in Tables /\ settled' \subseteq Jobs
  <2>1. CASE j.kind = "create" /\ ~Insertable(j.row)
    BY <1>1, <2>1 DEF OperatorTypes
  <2>2. CASE ~(j.kind = "create" /\ ~Insertable(j.row))
    <3>1. Written(j) \in RowStates /\ AliasesUnique([db.rows EXCEPT ![j.row] = Written(j)])
      BY <1>1, <1>2, <2>2, WrittenUnique
    <3>2. db' = [db EXCEPT !.rows[j.row] = Written(j)]
      BY <1>1, <2>2
    <3> QED BY <1>1, <1>2, <2>2, <3>1, <3>2, RowFrame, UnsettleTyped
  <2> QED BY <2>1, <2>2
<1>4. UNCHANGED <<live, began, faults>>
  BY DEF WriteRow
<1>5. \A k \in admin[a].job : Fits("alias_rows", k)
  <2>1. j.kind # "chain"
    BY <1>1 DEF RowKinds
  <2> QED BY <2>1, RefreshNext
<1>6. End(a) \/ Goto(a, "alias_rows")
  BY <1>1
<1> QED BY <1>3, <1>4, <1>5, <1>6, WriteTypes, StagesNamed

LEMMA WriteProviderTypes ==
    ASSUME OperatorTypes, NEW a \in Admins, WriteProvider(a)
    PROVE  OperatorTypes'
<1>1. PICK j \in admin[a].job :
         /\ j.kind \in ProviderKinds
         /\ db' = [db EXCEPT !.providers = IF j.kind = "provider_off"
                                           THEN db.providers \cup {j.provider}
                                           ELSE db.providers \ {j.provider}]
         /\ Unsettle(j)
  BY DEF WriteProvider, OperatorTypes, Tables
<1>2. j \in Jobs /\ j.provider \in Providers
  BY <1>1, JobOf, JobFields
<1>3. db.providers \in SUBSET Providers
  BY DEF OperatorTypes, Tables
<1>4. db' \in Tables /\ settled' \subseteq Jobs
  BY <1>1, <1>2, <1>3, ProvidersFrame, UnsettleTyped
<1>5. Goto(a, "alias_rows") /\ UNCHANGED <<live, began, faults>>
  BY DEF WriteProvider
<1>6. \A k \in admin[a].job : Fits("alias_rows", k)
  <2>1. j.kind # "chain"
    BY <1>1 DEF ProviderKinds
  <2> QED BY <2>1, RefreshNext
<1> QED BY <1>4, <1>5, <1>6, WriteTypes, StagesNamed

LEMMA WriteAliasTypes ==
    ASSUME OperatorTypes, NEW a \in Admins, WriteAlias(a)
    PROVE  OperatorTypes'
<1>1. PICK j \in admin[a].job :
         /\ j.kind \in {"alias", "unalias"}
         /\ db' = [db EXCEPT !.aliases[j.name] = IF j.kind = "alias" THEN {j.target} ELSE {}]
         /\ Unsettle(j)
         /\ End(a) \/ Goto(a, "alias_rows")
  BY DEF WriteAlias
<1>2. j \in Jobs /\ j.name \in Targets /\ (j.kind = "alias" => j.target \in Targets)
  BY <1>1, JobOf, JobFields
<1>3. (IF j.kind = "alias" THEN {j.target} ELSE {}) \in Opt(Targets)
  BY <1>2, OptOfNone, OptOfOne
<1>4. db' \in Tables /\ settled' \subseteq Jobs
  BY <1>1, <1>2, <1>3, AliasFrame, UnsettleTyped
<1>5. UNCHANGED <<live, began, faults>>
  BY DEF WriteAlias
<1>6. \A k \in admin[a].job : Fits("alias_rows", k)
  BY <1>1, RefreshNext
<1> QED BY <1>1, <1>4, <1>5, <1>6, WriteTypes, StagesNamed

LEMMA DeleteChainTypes ==
    ASSUME OperatorTypes, NEW a \in Admins, DeleteChain(a)
    PROVE  OperatorTypes'
<1>1. PICK j \in admin[a].job : j.kind = "chain" /\ Unsettle(j)
  BY DEF DeleteChain
<1>2. db' \in Tables /\ settled' \subseteq Jobs
  BY <1>1, ChainFrame, UnsettleTyped DEF DeleteChain
<1>3. Goto(a, "inserting") /\ UNCHANGED <<live, began, faults>>
  BY DEF DeleteChain
<1>4. \A k \in admin[a].job : Fits("inserting", k)
  BY <1>1, JobOf DEF Fits
<1> QED BY <1>2, <1>3, <1>4, WriteTypes, StagesNamed

LEMMA InsertFallbackTypes ==
    ASSUME OperatorTypes, NEW a \in Admins, InsertFallback(a)
    PROVE  OperatorTypes'
<1> DEFINE link(j) == [priority |-> admin[a].at, model |-> j.chain[admin[a].at]]
<1>1. PICK j \in admin[a].job :
         /\ admin[a].at \in DOMAIN j.chain
         /\ \/ End(a) /\ UNCHANGED db
            \/ /\ db' = [db EXCEPT !.chain = db.chain \cup {link(j)}]
               /\ admin' = [admin EXCEPT ![a].at = @ + 1]
  BY DEF InsertFallback, OperatorTypes, Tables
<1>2. UNCHANGED <<live, settled, began, faults>> /\ admin[a].pc = "inserting"
  BY DEF InsertFallback
<1>3. CASE End(a) /\ UNCHANGED db
  BY <1>2, <1>3, EndTypes DEF OperatorTypes
<1>4. CASE /\ db' = [db EXCEPT !.chain = db.chain \cup {link(j)}]
           /\ admin' = [admin EXCEPT ![a].at = @ + 1]
  <2>1. admin[a].at \in Nat /\ db.chain \in SUBSET Link
    BY DEF OperatorTypes, Handler, Tables
  <2>2. j.chain \in Seq(Models)
    BY <1>2, JobOf, JobFields DEF Fits
  <2>3. link(j) \in Link
    BY <1>1, <2>1, <2>2 DEF Link
  <2> HIDE DEF link
  <2>4. db' \in Tables
    BY <1>4, <2>1, <2>3, ChainFrame
  <2>5. Frame(a) /\ Placed(admin'[a])
    BY <1>4, InsertMoves DEF SameJob, SameCopies, OperatorTypes, Placed
  <2>6. \A o \in Admins : Placed(admin'[o])
    BY <2>5, FramePlaced
  <2> QED BY <1>2, <2>4, <2>5, <2>6 DEF Frame, OperatorTypes
<1> QED BY <1>1, <1>3, <1>4

LEMMA ReadRowsTypes ==
    ASSUME OperatorTypes, NEW a \in Admins, NEW at \in Stages, NEW then \in Stages,
           ReadRows(a, at, then), \A j \in admin[a].job : Fits(at, j) => Fits(then, j)
    PROVE  OperatorTypes'
<1>1. PICK got \in {db.rows, NoRows} :
         /\ Query(got, db.rows)
         /\ admin' = [admin EXCEPT ![a].pc = then, ![a].rows = got]
  BY DEF ReadRows
<1>2. got \in [Rows -> RowStates] /\ AliasesUnique(got)
  BY NothingUnique DEF OperatorTypes, Tables
<1>3. \A j \in admin[a].job : Fits(then, j)
  BY JobOf DEF ReadRows
<1>4. Frame(a) /\ Placed(admin'[a])
  BY <1>1, <1>2, <1>3, RowsMove DEF SameJob, Placed
<1>5. UNCHANGED <<db, live, settled, began>> /\ faults' \in 0..MaxFaults
  BY <1>1, QueryCounts DEF ReadRows
<1> QED BY <1>4, <1>5, HandlerTypes DEF OperatorTypes

LEMMA ReadAliasesTypes ==
    ASSUME OperatorTypes, NEW a \in Admins, ReadAliases(a)
    PROVE  OperatorTypes'
<1>1. PICK got \in {db.aliases, NoAliases} :
         /\ Query(got, db.aliases)
         /\ admin' = [admin EXCEPT ![a].pc = "alias_store", ![a].aliases = got]
  BY DEF ReadAliases
<1>2. got \in [Targets -> Opt(Targets)]
  BY NoAliasesTyped DEF OperatorTypes, Tables
<1>3. \A j \in admin[a].job : Fits("alias_store", j)
  BY JobOf DEF ReadAliases, Fits
<1>4. Frame(a) /\ Placed(admin'[a])
  BY <1>1, <1>2, <1>3, AliasesMove DEF SameJob, Placed, OperatorTypes
<1>5. UNCHANGED <<db, live, settled, began>> /\ faults' \in 0..MaxFaults
  BY <1>1, QueryCounts DEF ReadAliases
<1> QED BY <1>4, <1>5, HandlerTypes DEF OperatorTypes

LEMMA ReadProvidersTypes ==
    ASSUME OperatorTypes, NEW a \in Admins, ReadProviders(a)
    PROVE  OperatorTypes'
<1>1. PICK got \in {db.providers, {}} :
         /\ Query(got, db.providers)
         /\ admin' = [admin EXCEPT ![a].pc = "off_store", ![a].off = got]
  BY DEF ReadProviders
<1>2. got \in SUBSET Providers
  BY DEF OperatorTypes, Tables
<1>3. \A j \in admin[a].job : Fits("off_store", j)
  BY JobOf DEF ReadProviders, Fits
<1>4. Frame(a) /\ Placed(admin'[a])
  BY <1>1, <1>2, <1>3, ProvidersMove DEF SameJob, Placed, OperatorTypes
<1>5. UNCHANGED <<db, live, settled, began>> /\ faults' \in 0..MaxFaults
  BY <1>1, QueryCounts DEF ReadProviders
<1> QED BY <1>4, <1>5, HandlerTypes DEF OperatorTypes

\* A store to the router's snapshots, by a handler that is done or goes on.
LEMMA StoreTypes ==
    ASSUME OperatorTypes, NEW a \in Admins, live' \in LiveState, UNCHANGED <<db, began, faults>>,
           \/ Done(a)
           \/ Goto(a, "off_rows") /\ UNCHANGED settled /\ \A j \in admin[a].job : Fits("off_rows", j)
    PROVE  OperatorTypes'
<1>1. Frame(a) /\ Placed(admin'[a]) /\ settled' \subseteq Jobs
  <2>1. CASE Done(a)
    BY <2>1, DoneTyped, IdlePlaced
  <2>2. CASE Goto(a, "off_rows") /\ UNCHANGED settled /\ \A j \in admin[a].job : Fits("off_rows", j)
    BY <2>2, GotoPlaced, StagesNamed DEF OperatorTypes
  <2> QED BY <2>1, <2>2
<1>2. \A o \in Admins : Placed(admin'[o])
  BY <1>1, FramePlaced
<1> QED BY <1>1, <1>2 DEF Frame, OperatorTypes

LEMMA StoreAliasesTypes ==
    ASSUME OperatorTypes, NEW a \in Admins, StoreAliases(a)
    PROVE  OperatorTypes'
<1>1. admin[a].rows \in [Rows -> RowStates] /\ AliasesUnique(admin[a].rows)
      /\ admin[a].aliases \in [Targets -> Opt(Targets)]
  BY DEF OperatorTypes, Handler, Placed
<1>2. AliasMap(admin[a].rows, admin[a].aliases) \in [Targets -> Opt(Targets)]
  BY <1>1, AliasMapTyped
<1>3. live' \in LiveState
  BY <1>2, LiveFrame DEF StoreAliases
<1>4. CASE \E j \in admin[a].job : RefreshesState(j)
  <2>1. \A j \in admin[a].job : Fits("off_rows", j)
    BY <1>4, JobOf DEF Fits
  <2> QED BY <1>3, <1>4, <2>1, StoreTypes DEF StoreAliases
<1>5. CASE ~\E j \in admin[a].job : RefreshesState(j)
  BY <1>3, <1>5, StoreTypes DEF StoreAliases
<1> QED BY <1>4, <1>5

LEMMA StoreOffTypes ==
    ASSUME OperatorTypes, NEW a \in Admins, StoreOff(a)
    PROVE  OperatorTypes'
<1>1. admin[a].rows \in [Rows -> RowStates] /\ admin[a].off \in SUBSET Providers
  BY DEF OperatorTypes, Handler
<1>2. live' \in LiveState
  BY <1>1, OffMapTyped, LiveFrame DEF StoreOff
<1> QED BY <1>2, StoreTypes DEF StoreOff

LEMMA StoreChainTypes ==
    ASSUME OperatorTypes, NEW a \in Admins, StoreChain(a)
    PROVE  OperatorTypes'
<1>1. admin[a].chain \in SUBSET Link
  BY DEF OperatorTypes, Handler
<1>2. live' \in LiveState
  BY <1>1, LiveFrame DEF StoreChain
<1> QED BY <1>2, StoreTypes DEF StoreChain

LEMMA ReadChainTypes ==
    ASSUME OperatorTypes, NEW a \in Admins, ReadChain(a)
    PROVE  OperatorTypes'
<1>1. UNCHANGED <<db, live, began>> /\ admin[a].pc = "chain_read"
  BY DEF ReadChain
<1>2. CASE /\ admin' = [admin EXCEPT ![a].pc = "chain_store", ![a].chain = db.chain]
           /\ UNCHANGED <<settled, faults>>
  <2>1. PICK got \in SUBSET Link : got = db.chain
    BY DEF OperatorTypes, Tables
  <2>2. \A j \in admin[a].job : Fits("chain_store", j)
    BY <1>1, JobOf DEF Fits
  <2>3. admin' = [admin EXCEPT ![a].pc = "chain_store", ![a].chain = got]
    BY <1>2, <2>1
  <2>4. Frame(a) /\ Placed(admin'[a])
    BY <2>2, <2>3, ChainMoves DEF SameJob, Placed, OperatorTypes
  <2> QED BY <1>1, <1>2, <2>4, HandlerTypes DEF OperatorTypes
<1>3. CASE faults < MaxFaults /\ faults' = faults + 1 /\ Done(a)
  <2>1. faults' \in 0..MaxFaults
    BY <1>3, OperatorAssumption DEF OperatorTypes
  <2> QED BY <1>1, <1>3, <2>1, DoneTyped, IdlePlaced, HandlerTypes
<1> QED BY <1>2, <1>3 DEF ReadChain

LEMMA OperateTypes ==
    ASSUME OperatorTypes, Operate
    PROVE  OperatorTypes'
<1>1. \A j : /\ Fits("alias_rows", j) => Fits("aliases", j)
             /\ Fits("off_rows", j) => Fits("off_providers", j)
  BY DEF Fits
<1>2. ASSUME NEW a \in Admins, ReadRows(a, "alias_rows", "aliases") PROVE OperatorTypes'
  BY <1>1, <1>2, ReadRowsTypes, StagesNamed
<1>3. ASSUME NEW a \in Admins, ReadRows(a, "off_rows", "off_providers") PROVE OperatorTypes'
  BY <1>1, <1>3, ReadRowsTypes, StagesNamed
<1> QED
  BY <1>2, <1>3, BeginTypes, CheckAliasTypes, RefusalTypes, WriteRowTypes, WriteProviderTypes,
     WriteAliasTypes, DeleteChainTypes, InsertFallbackTypes, ChainWrittenTypes, ReadAliasesTypes,
     StoreAliasesTypes, ReadProvidersTypes, StoreOffTypes, ReadChainTypes, StoreChainTypes
     DEF Operate

\* Every handler idle.
AllIdle == [a \in Admins |-> Idle]

LEMMA AllIdleTyped ==
    AllIdle \in [Admins -> Handler] /\ \A a \in Admins : AllIdle[a] = Idle /\ Placed(AllIdle[a])
<1>1. Idle \in Handler
  BY OptOfNone, NothingUnique, NoAliasesTyped DEF Idle, Handler, Stages
<1> QED BY <1>1, IdlePlaced DEF AllIdle

LEMMA RestartTypes ==
    ASSUME OperatorTypes, Restart
    PROVE  OperatorTypes'
<1>1. PICK got \in {db, NoTables} : Query(got, db) /\ live' = Loaded(got)
  BY DEF Restart
<1>2. got \in Tables
  BY NoTablesTyped DEF OperatorTypes
<1>3. live' \in LiveState /\ faults' \in 0..MaxFaults
  BY <1>1, <1>2, LoadedTyped, QueryCounts
<1>4. admin' = AllIdle /\ UNCHANGED <<db, settled, began>>
  BY DEF Restart, AllIdle
<1> QED BY <1>3, <1>4, AllIdleTyped DEF OperatorTypes

LEMMA InitTypes == OperatorInit => OperatorTypes
<1> SUFFICES ASSUME OperatorInit PROVE OperatorTypes
  OBVIOUS
<1>1. db \in Tables
  BY OperatorAssumption, NoTablesTyped DEF OperatorInit, Tables
<1>2. live \in LiveState
  BY <1>1, LoadedTyped DEF OperatorInit
<1>3. admin = AllIdle /\ settled = {} /\ began = 0 /\ faults = 0
  BY DEF OperatorInit, AllIdle
<1>4. 0 \in 0..MaxJobs /\ 0 \in 0..MaxFaults
  BY OperatorAssumption
<1> QED BY <1>1, <1>2, <1>3, <1>4, AllIdleTyped DEF OperatorTypes

LEMMA TypesAreTypes == OperatorTypes => OperatorTypeOK
BY DEF OperatorTypes, OperatorTypeOK, Tables

-----------------------------------------------------------------------------
(* What is so of a settled job while no query fails: the tables hold what  *)
(* it wrote, the router holds the same, and whoever is on the way to store *)
(* a copy holds the same too.                                              *)

Switches == {"enable", "disable"}

DisabledRow(rows, m) == \E i \in Rows : ModelOf[i] = m /\ rows[i] = "disabled"

Established(j) ==
    /\ j.kind = "disable" => db.rows[j.row] = "disabled"
    /\ j.kind = "provider_off" => j.provider \in db.providers
    /\ j.kind = "provider_on" => j.provider \notin db.providers
    /\ j.kind = "alias" => db.aliases[j.name] = {j.target}
    /\ j.kind = "chain" => db.chain = Links(j.chain)

LiveHas(j) ==
    /\ j.kind \in Switches =>
         (ModelOf[j.row] \in live.off.models <=> DisabledRow(db.rows, ModelOf[j.row]))
    /\ j.kind \in ProviderKinds =>
         (j.provider \in live.off.providers <=> j.provider \in db.providers)
    /\ j.kind = "alias" => live.aliases[j.name] = {j.target}
    /\ j.kind = "chain" => live.chain = db.chain

\* A handler that has read what the job wrote has read what is there.
Agrees(h, j) ==
    /\ h.pc \in {"off_providers", "off_store"} /\ j.kind \in Switches =>
         \A i \in Rows : ModelOf[i] = ModelOf[j.row] => h.rows[i] = db.rows[i]
    /\ h.pc = "off_store" /\ j.kind \in ProviderKinds =>
         (j.provider \in h.off <=> j.provider \in db.providers)
    /\ h.pc = "alias_store" /\ j.kind = "alias" => h.aliases[j.name] = db.aliases[j.name]
    /\ h.pc = "chain_store" /\ j.kind = "chain" => h.chain = db.chain
    /\ h.pc = "inserting" => j.kind # "chain"

SettledTrue ==
    \A j \in settled : Established(j) /\ LiveHas(j) /\ \A a \in Admins : Agrees(admin[a], j)

\* The handler that is alone: what its own job has done so far.
LinksTo(chain, n) == {[priority |-> i, model |-> chain[i]] : i \in 1..n}

Refreshing == {"alias_rows", "aliases", "alias_store", "off_rows", "off_providers", "off_store",
               "chain_read", "chain_store"}

AloneHolds(h, j) ==
    /\ h.pc = "writing" /\ j.kind \in Switches => Present(j.row)
    /\ h.pc = "writing" /\ j.kind = "alias" =>
         ~WouldCycle(AliasMap(db.rows, db.aliases), j.name, j.target)
    /\ h.pc = "writing" /\ j.kind = "chain" => h.at = 1
    /\ h.pc = "inserting" =>
         h.at \in 1..(Len(j.chain) + 1) /\ db.chain = LinksTo(j.chain, h.at - 1)
    /\ h.pc \in Refreshing => Established(j) /\ Agrees(h, j)

AloneTrue ==
    \A a \in Admins : admin[a].alone = TRUE /\ admin[a].pc # "idle" =>
        /\ \A o \in Admins \ {a} : admin[o].pc = "idle"
        /\ \A j \in admin[a].job : AloneHolds(admin[a], j)

OperatorInv == OperatorTypes /\ (faults = 0 => SettledTrue /\ AloneTrue)

\* Settled jobs took effect.
LEMMA SettledTookEffect ==
    ASSUME OperatorTypes, SettledTrue
    PROVE  SettledWritesHold
<1> SUFFICES ASSUME NEW j \in settled PROVE TookEffect(j)
  BY DEF SettledWritesHold
<1>1. j \in Jobs
  BY DEF OperatorTypes
<1>2. Established(j) /\ LiveHas(j)
  BY DEF SettledTrue
<1>3. j.kind \in Kinds
  BY <1>1, JobFields
<1>4. CASE j.kind \in Switches
  <2>1. j.row \in Rows
    BY <1>1, <1>4, JobFields DEF Switches, RowKinds
  <2> QED BY <1>2, <1>4, <2>1 DEF Switches, Established, LiveHas, DisabledRow, TookEffect, IsOff
<1>5. CASE j.kind \in ProviderKinds
  BY <1>2, <1>5 DEF ProviderKinds, Established, LiveHas, TookEffect
<1>6. CASE j.kind \in {"alias", "chain"}
  BY <1>2, <1>6 DEF Established, LiveHas, TookEffect
<1>7. CASE j.kind \in {"create", "delete", "unalias"}
  BY <1>7 DEF TookEffect
<1> QED BY <1>3, <1>4, <1>5, <1>6, <1>7 DEF Kinds, RowKinds, Switches, ProviderKinds

\* Where a handler holds nothing that it will store.
LEMMA AgreesEarly ==
    ASSUME NEW h, NEW j,
           h.pc \in {"idle", "checking", "writing", "alias_rows", "aliases", "off_rows", "chain_read"}
    PROVE  Agrees(h, j)
BY DEF Agrees

\* A handler moves, the tables and snapshots stay.
LEMMA SettledMoves ==
    ASSUME SettledTrue, NEW a \in Admins, Frame(a), UNCHANGED <<db, live, settled>>,
           \A j \in settled : Agrees(admin'[a], j)
    PROVE  SettledTrue'
<1> SUFFICES ASSUME NEW j \in settled', NEW o \in Admins
             PROVE  Established(j)' /\ LiveHas(j)' /\ Agrees(admin[o], j)'
  BY DEF SettledTrue
<1>1. Established(j) /\ LiveHas(j) /\ Agrees(admin[o], j) /\ j \in settled
  BY DEF SettledTrue
<1>2. Established(j)' /\ LiveHas(j)'
  BY <1>1 DEF Established, LiveHas
<1>3. Agrees(admin'[o], j)
  BY <1>1 DEF Frame
<1>4. Agrees(admin[o], j)'
  BY <1>3 DEF Agrees
<1> QED BY <1>2, <1>4

\* Whoever moves was not idle: nobody else is alone.
LEMMA AloneMoves ==
    ASSUME AloneTrue, NEW a \in Admins, Frame(a), admin[a].pc # "idle",
           admin'[a].pc # "idle" => SameJob(admin[a], admin'[a]),
           admin'[a].pc # "idle" /\ admin[a].alone = TRUE =>
               \A j \in admin[a].job : AloneHolds(admin[a], j)'
    PROVE  AloneTrue'
<1> SUFFICES ASSUME NEW o \in Admins, admin'[o].alone = TRUE, admin'[o].pc # "idle"
             PROVE  /\ \A b \in Admins \ {o} : admin'[b].pc = "idle"
                    /\ \A j \in admin'[o].job : AloneHolds(admin[o], j)'
  BY DEF AloneTrue
<1>1. CASE o # a
  BY <1>1 DEF AloneTrue, Frame
<1>2. CASE o = a
  <2>1. admin[a].alone = TRUE /\ admin'[a].job = admin[a].job
    BY <1>2 DEF SameJob
  <2> QED BY <1>2, <2>1 DEF AloneTrue, Frame
<1> QED BY <1>1, <1>2

\* A step of one handler that leaves the tables and snapshots to others.
LEMMA StepMoves ==
    ASSUME OperatorTypes, SettledTrue, AloneTrue, NEW a \in Admins, admin[a].pc # "idle", Frame(a),
           UNCHANGED <<db, live, settled>>,
           admin'[a].pc # "idle" => SameJob(admin[a], admin'[a]),
           \A j \in settled : Agrees(admin'[a], j),
           admin'[a].pc # "idle" /\ admin[a].alone = TRUE =>
               \A j \in admin[a].job : AloneHolds(admin[a], j)'
    PROVE  SettledTrue' /\ AloneTrue'
BY SettledMoves, AloneMoves

\* What Agrees says of a handler reads the tables alone.
LEMMA AgreesStill ==
    ASSUME NEW a \in Admins, NEW j, UNCHANGED db, Agrees(admin'[a], j)
    PROVE  Agrees(admin[a], j)'
BY DEF Agrees

\* The handler that is alone, before it has written, after, and as it reads.
LEMMA AloneOf ==
    ASSUME AloneTrue, NEW a \in Admins, admin[a].alone = TRUE, admin[a].pc # "idle",
           NEW j \in admin[a].job
    PROVE  AloneHolds(admin[a], j) /\ \A o \in Admins \ {a} : admin[o].pc = "idle"
BY DEF AloneTrue

\* It goes on with what it wrote still there.
LEMMA AloneOn ==
    ASSUME NEW a \in Admins, NEW j, UNCHANGED db, admin[a].pc \in Refreshing,
           AloneHolds(admin[a], j), admin'[a].pc \in Refreshing, Agrees(admin'[a], j)
    PROVE  AloneHolds(admin[a], j)'
<1>1. Established(j)'
  BY DEF AloneHolds, Established
<1>2. Agrees(admin[a], j)'
  BY AgreesStill
<1> QED BY <1>1, <1>2 DEF AloneHolds, Refreshing

LEMMA IdleAgrees == \A j : Agrees(Idle, j)
BY DEF Agrees, Idle

LEMMA BeginKeeps ==
    ASSUME OperatorTypes, SettledTrue, AloneTrue, NEW a \in Admins, NEW j \in Jobs, Begin(a, j)
    PROVE  SettledTrue' /\ AloneTrue'
<1>1. UNCHANGED <<db, live, settled>>
  BY DEF Begin
<1>2. SettledTrue'
  <2> SUFFICES ASSUME NEW k \in settled', NEW o \in Admins
               PROVE  Established(k)' /\ LiveHas(k)' /\ Agrees(admin[o], k)'
    BY DEF SettledTrue
  <2>1. Established(k) /\ LiveHas(k) /\ Agrees(admin[o], k)
    BY <1>1 DEF SettledTrue
  <2>2. Established(k)' /\ LiveHas(k)'
    BY <1>1, <2>1 DEF Established, LiveHas
  <2>3. ASSUME o = a PROVE Agrees(admin[o], k)'
    <3>1. Agrees(admin'[a], k)
      BY BeginMoves, AgreesEarly
    <3> QED BY <1>1, <2>3, <3>1 DEF Agrees
  <2>4. ASSUME o # a PROVE Agrees(admin[o], k)'
    <3>1. admin'[o] = Met(o) /\ Met(o).pc = admin[o].pc /\ SameCopies(admin[o], Met(o))
      BY <2>4, BeginMoves, MetFields
    <3>2. Agrees(admin'[o], k)
      BY <2>1, <3>1 DEF SameCopies, Agrees
    <3> QED BY <1>1, <3>2 DEF Agrees
  <2> QED BY <2>2, <2>3, <2>4
<1>3. AloneTrue'
  <2> SUFFICES ASSUME NEW o \in Admins, admin'[o].alone = TRUE, admin'[o].pc # "idle"
               PROVE  /\ \A b \in Admins \ {o} : admin'[b].pc = "idle"
                      /\ \A k \in admin'[o].job : AloneHolds(admin[o], k)'
    BY DEF AloneTrue
  <2>1. o = a
    <3>1. CASE o # a
      <4>1. admin'[o] = Met(o)
        BY <3>1, BeginMoves
      <4>2. Met(o).alone = FALSE
        BY MetFields
      <4> QED BY ONLY <4>1, <4>2, admin'[o].alone = TRUE
    <3> QED BY <3>1
  <2>2. \A b \in Admins \ {a} : admin[b].pc = "idle"
    BY <2>1, BeginMoves DEF Others
  <2>3. ASSUME NEW b \in Admins \ {a} PROVE admin'[b].pc = "idle"
    <3>1. admin'[b] = Met(b)
      BY BeginMoves
    <3>2. Met(b).pc = admin[b].pc
      BY MetFields
    <3> QED BY ONLY <2>2, <3>1, <3>2, b \in Admins \ {a}
  <2>4. admin'[a].job = {j} /\ admin'[a].at = 1 /\ admin'[a].pc = (IF j.kind = "alias" THEN "checking" ELSE "writing")
    BY BeginMoves
  <2>5. j.kind \in Switches => db.rows[j.row] # "absent"
    BY DEF Begin, Switches, Present
  <2>6. AloneHolds(admin[a], j)'
    BY <1>1, <2>4, <2>5 DEF AloneHolds, Present, Refreshing
  <2> QED BY <2>1, <2>3, <2>4, <2>6
<1> QED BY <1>2, <1>3

\* A handler that ends without a word to the tables.
LEMMA EndKeeps ==
    ASSUME OperatorTypes, SettledTrue, AloneTrue, NEW a \in Admins, admin[a].pc # "idle", End(a),
           UNCHANGED <<db, live, settled>>
    PROVE  SettledTrue' /\ AloneTrue'
<1>1. Frame(a) /\ admin'[a] = Idle
  BY EndMoves
<1>2. Idle.pc = "idle"
  BY DEF Idle
<1> QED BY <1>1, <1>2, IdleAgrees, StepMoves

LEMMA CheckAliasKeeps ==
    ASSUME OperatorTypes, SettledTrue, AloneTrue, NEW a \in Admins, CheckAlias(a), faults' = 0
    PROVE  SettledTrue' /\ AloneTrue'
<1>1. PICK j \in admin[a].job :
         IF WouldCycle(AliasMap(db.rows, db.aliases), j.name, j.target)
         THEN End(a) ELSE Goto(a, "writing")
  BY QueryCounts DEF CheckAlias
<1>2. UNCHANGED <<db, live, settled>> /\ admin[a].pc = "checking"
  BY DEF CheckAlias
<1>3. CASE WouldCycle(AliasMap(db.rows, db.aliases), j.name, j.target)
  BY <1>1, <1>2, <1>3, EndKeeps
<1>4. CASE ~WouldCycle(AliasMap(db.rows, db.aliases), j.name, j.target)
  <2>1. Frame(a) /\ admin'[a].pc = "writing" /\ SameJob(admin[a], admin'[a])
    BY <1>1, <1>4, GotoMoves, StagesNamed
  <2>2. \A k \in settled : Agrees(admin'[a], k)
    BY <2>1, AgreesEarly
  <2>3. admin[a].job = {j} /\ j.kind = "alias"
    BY <1>2, JobOf DEF Fits
  <2>4. ~WouldCycle(AliasMap(db.rows, db.aliases), j.name, j.target)'
    BY <1>2, <1>4
  <2>5. AloneHolds(admin[a], j)'
    BY <2>1, <2>3, <2>4 DEF AloneHolds, Refreshing, Switches
  <2> QED BY <1>2, <2>1, <2>2, <2>3, <2>5, StepMoves
<1> QED BY <1>3, <1>4

LEMMA RefusalKeeps ==
    ASSUME OperatorTypes, SettledTrue, AloneTrue, NEW a \in Admins, CatalogRefuses(a) \/ Dropped(a)
    PROVE  SettledTrue' /\ AloneTrue'
<1>1. End(a) /\ UNCHANGED <<db, live, settled>> /\ admin[a].pc # "idle"
  BY DEF CatalogRefuses, Dropped
<1> QED BY <1>1, EndKeeps

\* A handler that has read, and holds what is there.
LEMMA ReadKeeps ==
    ASSUME OperatorTypes, SettledTrue, AloneTrue, NEW a \in Admins, admin[a].pc \in Refreshing,
           Frame(a), UNCHANGED <<db, live, settled>>, SameJob(admin[a], admin'[a]),
           admin'[a].pc \in Refreshing, \A j : Agrees(admin'[a], j)
    PROVE  SettledTrue' /\ AloneTrue'
<1>1. admin[a].pc # "idle"
  BY DEF Refreshing
<1>2. ASSUME admin[a].alone = TRUE, NEW j \in admin[a].job PROVE AloneHolds(admin[a], j)'
  BY <1>1, <1>2, AloneOf, AloneOn
<1> QED BY <1>1, <1>2, StepMoves

LEMMA ReadRowsKeeps ==
    ASSUME OperatorTypes, SettledTrue, AloneTrue, NEW a \in Admins, faults' = 0,
           NEW at \in {"alias_rows", "off_rows"}, NEW then \in {"aliases", "off_providers"},
           ReadRows(a, at, then)
    PROVE  SettledTrue' /\ AloneTrue'
<1>1. admin' = [admin EXCEPT ![a].pc = then, ![a].rows = db.rows]
  <2>1. PICK got : /\ Query(got, db.rows)
                   /\ admin' = [admin EXCEPT ![a].pc = then, ![a].rows = got]
    BY DEF ReadRows
  <2>2. got = db.rows
    BY <2>1, QueryCounts
  <2> QED BY <2>1, <2>2
<1>2. Frame(a) /\ admin'[a].pc = then /\ SameJob(admin[a], admin'[a]) /\ admin'[a].rows = db.rows
  <2>1. PICK got \in [Rows -> RowStates] : got = db.rows
    BY DEF OperatorTypes, Tables
  <2>2. then \in Stages
    BY StagesNamed
  <2>3. admin' = [admin EXCEPT ![a].pc = then, ![a].rows = got]
    BY <1>1, <2>1
  <2> QED BY <2>1, <2>2, <2>3, RowsMove
<1>3. \A j : Agrees(admin'[a], j)
  BY <1>2 DEF Agrees
<1>4. UNCHANGED <<db, live, settled>> /\ admin[a].pc = at
  BY DEF ReadRows
<1> QED BY <1>2, <1>3, <1>4, ReadKeeps DEF Refreshing

LEMMA ReadAliasesKeeps ==
    ASSUME OperatorTypes, SettledTrue, AloneTrue, NEW a \in Admins, faults' = 0, ReadAliases(a)
    PROVE  SettledTrue' /\ AloneTrue'
<1>1. PICK got \in [Targets -> Opt(Targets)] : got = db.aliases
  BY DEF OperatorTypes, Tables
<1>2. admin' = [admin EXCEPT ![a].pc = "alias_store", ![a].aliases = got]
  <2>1. PICK read : /\ Query(read, db.aliases)
                    /\ admin' = [admin EXCEPT ![a].pc = "alias_store", ![a].aliases = read]
    BY DEF ReadAliases
  <2>2. read = db.aliases
    BY <2>1, QueryCounts
  <2> QED BY <1>1, <2>1, <2>2
<1>3. /\ Frame(a) /\ admin'[a].pc = "alias_store" /\ SameJob(admin[a], admin'[a])
      /\ admin'[a].aliases = db.aliases
  BY <1>1, <1>2, AliasesMove
<1>4. \A j : Agrees(admin'[a], j)
  BY <1>3 DEF Agrees
<1>5. UNCHANGED <<db, live, settled>> /\ admin[a].pc = "aliases"
  BY DEF ReadAliases
<1> QED BY <1>3, <1>4, <1>5, ReadKeeps DEF Refreshing

\* The rows were read a step before the providers: jobs still agree with them.
LEMMA ReadProvidersKeeps ==
    ASSUME OperatorTypes, SettledTrue, AloneTrue, NEW a \in Admins, faults' = 0, ReadProviders(a)
    PROVE  SettledTrue' /\ AloneTrue'
<1>1. PICK got \in SUBSET Providers : got = db.providers
  BY DEF OperatorTypes, Tables
<1>2. admin' = [admin EXCEPT ![a].pc = "off_store", ![a].off = got]
  <2>1. PICK read : /\ Query(read, db.providers)
                    /\ admin' = [admin EXCEPT ![a].pc = "off_store", ![a].off = read]
    BY DEF ReadProviders
  <2>2. read = db.providers
    BY <2>1, QueryCounts
  <2> QED BY <1>1, <2>1, <2>2
<1>3. /\ Frame(a) /\ admin'[a].pc = "off_store" /\ SameJob(admin[a], admin'[a])
      /\ admin'[a].off = db.providers /\ admin'[a].rows = admin[a].rows
  BY <1>1, <1>2, ProvidersMove
<1>4. UNCHANGED <<db, live, settled>> /\ admin[a].pc = "off_providers"
  BY DEF ReadProviders
<1>5. ASSUME NEW j, Agrees(admin[a], j) PROVE Agrees(admin'[a], j)
  BY <1>3, <1>4, <1>5 DEF Agrees
<1>6. \A j \in settled : Agrees(admin'[a], j)
  BY <1>5 DEF SettledTrue
<1>7. ASSUME admin[a].alone = TRUE, NEW j \in admin[a].job PROVE AloneHolds(admin[a], j)'
  <2>1. admin[a].pc \in Refreshing /\ admin[a].pc # "idle" /\ admin'[a].pc \in Refreshing
    BY <1>3, <1>4 DEF Refreshing
  <2>2. AloneHolds(admin[a], j)
    BY <1>7, <2>1, AloneOf
  <2>3. Agrees(admin'[a], j)
    BY <1>5, <2>1, <2>2 DEF AloneHolds
  <2> QED BY <1>4, <2>1, <2>2, <2>3, AloneOn
<1> QED BY <1>3, <1>4, <1>6, <1>7, StepMoves

LEMMA ReadChainKeeps ==
    ASSUME OperatorTypes, SettledTrue, AloneTrue, NEW a \in Admins, faults' = 0, ReadChain(a)
    PROVE  SettledTrue' /\ AloneTrue'
<1>1. faults \in Nat
  BY OperatorAssumption DEF OperatorTypes
<1>2. PICK got \in SUBSET Link : got = db.chain
  BY DEF OperatorTypes, Tables
<1>3. admin' = [admin EXCEPT ![a].pc = "chain_store", ![a].chain = got] /\ UNCHANGED settled
  BY <1>1, <1>2 DEF ReadChain
<1>4. /\ Frame(a) /\ admin'[a].pc = "chain_store" /\ SameJob(admin[a], admin'[a])
      /\ admin'[a].chain = db.chain
  BY <1>2, <1>3, ChainMoves
<1>5. \A j : Agrees(admin'[a], j)
  BY <1>4 DEF Agrees
<1>6. UNCHANGED <<db, live, settled>> /\ admin[a].pc = "chain_read"
  BY <1>3 DEF ReadChain
<1> QED BY <1>4, <1>5, <1>6, ReadKeeps DEF Refreshing

\* A chain is written whole once every link of it is.
LEMMA ChainWrittenKeeps ==
    ASSUME OperatorTypes, SettledTrue, AloneTrue, NEW a \in Admins, ChainWritten(a)
    PROVE  SettledTrue' /\ AloneTrue'
<1>1. /\ UNCHANGED <<db, live, settled>> /\ admin[a].pc = "inserting"
      /\ Goto(a, "chain_read") /\ \E j \in admin[a].job : admin[a].at \notin DOMAIN j.chain
  BY DEF ChainWritten
<1>2. Frame(a) /\ admin'[a].pc = "chain_read" /\ SameJob(admin[a], admin'[a])
  BY <1>1, GotoMoves, StagesNamed
<1>3. \A j : Agrees(admin'[a], j)
  BY <1>2, AgreesEarly
<1>4. ASSUME admin[a].alone = TRUE, NEW j \in admin[a].job PROVE AloneHolds(admin[a], j)'
  <2>1. /\ admin[a].at \in 1..(Len(j.chain) + 1) /\ db.chain = LinksTo(j.chain, admin[a].at - 1)
    BY <1>1, <1>4, AloneOf DEF AloneHolds
  <2>2. j.kind = "chain" /\ j.chain \in Seq(Models) /\ admin[a].at \notin DOMAIN j.chain
    BY <1>1, JobOf, JobFields DEF Fits
  <2>3. admin[a].at - 1 = Len(j.chain)
    BY <2>1, <2>2
  <2>4. db.chain = Links(j.chain)
    BY <2>1, <2>2, <2>3 DEF LinksTo, Links
  <2>5. Established(j)'
    BY <1>1, <2>2, <2>4 DEF Established
  <2>6. Agrees(admin[a], j)'
    BY <1>1, <1>3, AgreesStill
  <2> QED BY <1>2, <2>5, <2>6 DEF AloneHolds
<1> QED BY <1>1, <1>2, <1>3, <1>4, StepMoves

-----------------------------------------------------------------------------
(* A write leaves alone what the jobs that stay settled wrote.             *)

Unmoved(j) ==
    /\ j.kind \in Switches =>
         \A i \in Rows : ModelOf[i] = ModelOf[j.row] => db'.rows[i] = db.rows[i]
    /\ j.kind \in ProviderKinds => (j.provider \in db'.providers <=> j.provider \in db.providers)
    /\ j.kind = "alias" => db'.aliases[j.name] = db.aliases[j.name]
    /\ j.kind = "chain" => db'.chain = db.chain

LEMMA ApartTouches ==
    ASSUME NEW j \in Jobs, NEW k \in Jobs, Touches(j) \cap Touches(k) = {}
    PROVE  /\ j.kind \in RowKinds /\ k.kind \in RowKinds => ModelOf[j.row] # ModelOf[k.row]
           /\ j.kind \in ProviderKinds /\ k.kind \in ProviderKinds => j.provider # k.provider
           /\ j.kind \in {"alias", "unalias"} /\ k.kind \in {"alias", "unalias"} => j.name # k.name
           /\ ~(j.kind = "chain" /\ k.kind = "chain")
<1>1. ASSUME NEW l, l.kind \in RowKinds PROVE Touches(l) = {<<"model", ModelOf[l.row]>>}
  BY <1>1 DEF Touches, RowKinds, ProviderKinds
<1>2. ASSUME NEW l, l.kind \in ProviderKinds PROVE Touches(l) = {<<"provider", l.provider>>}
  BY <1>2 DEF Touches, RowKinds, ProviderKinds
<1>3. ASSUME NEW l, l.kind \in {"alias", "unalias"} PROVE Touches(l) = {<<"alias", l.name>>}
  BY <1>3 DEF Touches, RowKinds, ProviderKinds
<1>4. ASSUME NEW l, l.kind = "chain" PROVE Touches(l) = {<<"chain">>}
  BY <1>4 DEF Touches, RowKinds, ProviderKinds
<1>5. Touches(j) # Touches(k) \/ Touches(j) = {}
  OBVIOUS
<1>6. ASSUME j.kind \in RowKinds, k.kind \in RowKinds, ModelOf[j.row] = ModelOf[k.row] PROVE FALSE
  BY <1>1, <1>5, <1>6
<1>7. ASSUME j.kind \in ProviderKinds, k.kind \in ProviderKinds, j.provider = k.provider PROVE FALSE
  BY <1>2, <1>5, <1>7
<1>8. ASSUME j.kind \in {"alias", "unalias"}, k.kind \in {"alias", "unalias"}, j.name = k.name
      PROVE  FALSE
  <2>1. Touches(j) = {<<"alias", j.name>>} /\ Touches(k) = {<<"alias", k.name>>}
    BY <1>3, <1>8
  <2> QED BY <1>5, <1>8, <2>1
<1>9. ~(j.kind = "chain" /\ k.kind = "chain")
  BY <1>4, <1>5
<1> QED BY <1>6, <1>7, <1>8, <1>9

LEMMA StaysEstablished ==
    ASSUME NEW j \in Jobs, Unmoved(j), Established(j), LiveHas(j), UNCHANGED live
    PROVE  Established(j)' /\ LiveHas(j)'
<1>1. j.kind \in Switches => j.row \in Rows
  BY JobFields DEF Switches, RowKinds
<1>2. Established(j)'
  BY <1>1 DEF Unmoved, Established, Switches, ProviderKinds
<1>3. j.kind \in Switches => (DisabledRow(db.rows, ModelOf[j.row]) <=> DisabledRow(db.rows, ModelOf[j.row])')
  BY <1>1 DEF Unmoved, DisabledRow
<1>4. LiveHas(j)'
  BY <1>3 DEF Unmoved, Established, LiveHas
<1> QED BY <1>2, <1>4

LEMMA WriteKeepsSettled ==
    ASSUME OperatorTypes, SettledTrue, NEW a \in Admins, Frame(a), UNCHANGED live,
           settled' \subseteq settled,
           \A j \in settled' : Unmoved(j) /\ Agrees(admin[a], j)'
    PROVE  SettledTrue'
<1> SUFFICES ASSUME NEW j \in settled', NEW o \in Admins
             PROVE  Established(j)' /\ LiveHas(j)' /\ Agrees(admin[o], j)'
  BY DEF SettledTrue
<1>1. j \in settled /\ j \in Jobs
  BY DEF OperatorTypes
<1>2. Established(j) /\ LiveHas(j) /\ Agrees(admin[o], j) /\ Unmoved(j)
  BY <1>1 DEF SettledTrue
<1>3. Established(j)' /\ LiveHas(j)'
  BY <1>1, <1>2, StaysEstablished
<1>4. ASSUME o # a PROVE Agrees(admin[o], j)'
  <2>1. admin'[o] = admin[o]
    BY <1>4 DEF Frame
  <2> QED BY <1>2, <2>1 DEF Agrees, Unmoved
<1> QED BY <1>3, <1>4

\* The one that writes comes to its refresh, or is done for.
LEMMA WrittenKeeps ==
    ASSUME OperatorTypes, SettledTrue, AloneTrue, NEW a \in Admins, admin[a].pc = "writing",
           NEW j \in admin[a].job, j.kind # "chain", Unsettle(j), UNCHANGED live,
           End(a) \/ Goto(a, "alias_rows"),
           \A k \in settled' : Unmoved(k),
           admin[a].alone = TRUE => Established(j)'
    PROVE  SettledTrue' /\ AloneTrue'
<1>1. /\ Frame(a) /\ admin'[a].pc \in {"idle", "alias_rows"}
      /\ admin'[a].pc # "idle" => SameJob(admin[a], admin'[a])
  BY EndMoves, GotoMoves, StagesNamed DEF Idle
<1>2. \A k : Agrees(admin[a], k)'
  BY <1>1 DEF Agrees
<1>3. settled' \subseteq settled
  BY DEF Unsettle
<1>4. SettledTrue'
  BY <1>1, <1>2, <1>3, WriteKeepsSettled
<1>5. ASSUME admin'[a].pc # "idle", admin[a].alone = TRUE, NEW k \in admin[a].job
      PROVE  AloneHolds(admin[a], k)'
  <2>1. k = j
    BY JobOf
  <2>2. Established(j)' /\ Agrees(admin[a], j)' /\ admin'[a].pc = "alias_rows"
    BY <1>1, <1>2, <1>5
  <2> QED BY <2>1, <2>2 DEF AloneHolds
<1>6. AloneTrue'
  BY <1>1, <1>5, AloneMoves
<1> QED BY <1>4, <1>6

LEMMA WriteRowKeeps ==
    ASSUME OperatorTypes, SettledTrue, AloneTrue, NEW a \in Admins, WriteRow(a)
    PROVE  SettledTrue' /\ AloneTrue'
<1>1. PICK j \in admin[a].job :
         /\ j.kind \in RowKinds
         /\ IF j.kind = "create" /\ ~Insertable(j.row)
            THEN End(a) /\ UNCHANGED <<db, settled>>
            ELSE /\ db' = [db EXCEPT !.rows[j.row] = Written(j)]
                 /\ Unsettle(j)
                 /\ Goto(a, "alias_rows")
  BY DEF WriteRow
<1>2. j \in Jobs /\ j.row \in Rows /\ UNCHANGED live /\ admin[a].pc = "writing"
  BY <1>1, JobOf, JobFields DEF WriteRow
<1>3. CASE j.kind = "create" /\ ~Insertable(j.row)
  BY <1>1, <1>2, <1>3, EndKeeps
<1>4. CASE ~(j.kind = "create" /\ ~Insertable(j.row))
  <2>1. Written(j) \in RowStates
    BY <1>1, <1>2, <1>4, WrittenUnique
  <2>2. db' = [db EXCEPT !.rows[j.row] = Written(j)] /\ Unsettle(j) /\ Goto(a, "alias_rows")
    BY <1>1, <1>4
  <2>3. /\ db'.rows = [db.rows EXCEPT ![j.row] = Written(j)] /\ db'.providers = db.providers
        /\ db'.aliases = db.aliases /\ db'.chain = db.chain /\ db.rows \in [Rows -> RowStates]
    BY <1>2, <2>1, <2>2, RowFrame DEF OperatorTypes, Tables
  <2>4. ASSUME NEW k \in settled' PROVE Unmoved(k)
    <3>1. k \in Jobs /\ Touches(k) \cap Touches(j) = {}
      BY <2>2 DEF OperatorTypes, Unsettle
    <3>2. k.kind \in Switches => ModelOf[k.row] # ModelOf[j.row]
      BY <1>1, <1>2, <3>1, ApartTouches DEF Switches, RowKinds
    <3> QED BY <2>3, <3>2 DEF Unmoved
  <2>5. ASSUME admin[a].alone = TRUE PROVE Established(j)'
    <3>1. j.kind = "disable" => Written(j) = "disabled"
      BY <1>2, <2>5, AloneOf DEF AloneHolds, Switches, Written
    <3> QED BY <1>1, <1>2, <2>3, <3>1 DEF Established, RowKinds
  <2>6. j.kind # "chain"
    BY <1>1 DEF RowKinds
  <2> QED BY <1>2, <2>2, <2>4, <2>5, <2>6, WrittenKeeps
<1> QED BY <1>3, <1>4

LEMMA WriteProviderKeeps ==
    ASSUME OperatorTypes, SettledTrue, AloneTrue, NEW a \in Admins, WriteProvider(a)
    PROVE  SettledTrue' /\ AloneTrue'
<1>1. PICK j \in admin[a].job :
         /\ j.kind \in ProviderKinds
         /\ db' = [db EXCEPT !.providers = IF j.kind = "provider_off"
                                           THEN db.providers \cup {j.provider}
                                           ELSE db.providers \ {j.provider}]
         /\ Unsettle(j)
  BY DEF WriteProvider, OperatorTypes, Tables
<1>2. j \in Jobs /\ j.provider \in Providers
  BY <1>1, JobOf, JobFields
<1>3. UNCHANGED live /\ admin[a].pc = "writing" /\ Goto(a, "alias_rows")
  BY DEF WriteProvider
<1>4. PICK p \in SUBSET Providers : p = IF j.kind = "provider_off" THEN db.providers \cup {j.provider}
                                        ELSE db.providers \ {j.provider}
  BY <1>2 DEF OperatorTypes, Tables
<1>5. /\ db'.providers = p /\ db'.rows = db.rows
      /\ db'.aliases = db.aliases /\ db'.chain = db.chain
  BY <1>1, <1>4, ProvidersFrame
<1>6. ASSUME NEW k \in settled' PROVE Unmoved(k)
  <2>1. k \in Jobs /\ Touches(k) \cap Touches(j) = {}
    BY <1>1 DEF OperatorTypes, Unsettle
  <2>2. k.kind \in ProviderKinds => k.provider # j.provider
    BY <1>1, <1>2, <2>1, ApartTouches
  <2> QED BY <1>4, <1>5, <2>2 DEF Unmoved
<1>7. Established(j)' /\ j.kind # "chain"
  BY <1>1, <1>4, <1>5 DEF Established, ProviderKinds
<1> QED BY <1>1, <1>3, <1>6, <1>7, WrittenKeeps

LEMMA WriteAliasKeeps ==
    ASSUME OperatorTypes, SettledTrue, AloneTrue, NEW a \in Admins, WriteAlias(a)
    PROVE  SettledTrue' /\ AloneTrue'
<1>1. PICK j \in admin[a].job :
         /\ j.kind \in {"alias", "unalias"}
         /\ db' = [db EXCEPT !.aliases[j.name] = IF j.kind = "alias" THEN {j.target} ELSE {}]
         /\ Unsettle(j)
         /\ End(a) \/ Goto(a, "alias_rows")
  BY DEF WriteAlias
<1>2. j \in Jobs /\ j.name \in Targets /\ (j.kind = "alias" => j.target \in Targets)
  BY <1>1, JobOf, JobFields
<1>3. UNCHANGED live /\ admin[a].pc = "writing" /\ j.kind # "chain"
  BY <1>1 DEF WriteAlias
<1>4. PICK to \in Opt(Targets) : to = IF j.kind = "alias" THEN {j.target} ELSE {}
  BY <1>2, OptOfNone, OptOfOne
<1>5. /\ db'.aliases = [db.aliases EXCEPT ![j.name] = to] /\ db'.rows = db.rows
      /\ db'.providers = db.providers /\ db'.chain = db.chain
      /\ db.aliases \in [Targets -> Opt(Targets)]
  BY <1>1, <1>2, <1>4, AliasFrame DEF OperatorTypes, Tables
<1>6. ASSUME NEW k \in settled' PROVE Unmoved(k)
  <2>1. k \in Jobs /\ Touches(k) \cap Touches(j) = {}
    BY <1>1 DEF OperatorTypes, Unsettle
  <2>2. k.kind = "alias" => k.name # j.name /\ k.name \in Targets
    BY <1>1, <1>2, <2>1, ApartTouches, JobFields
  <2> QED BY <1>2, <1>5, <2>2 DEF Unmoved
<1>7. Established(j)'
  BY <1>1, <1>2, <1>4, <1>5 DEF Established
<1> QED BY <1>1, <1>3, <1>6, <1>7, WrittenKeeps

LEMMA DeleteChainKeeps ==
    ASSUME OperatorTypes, SettledTrue, AloneTrue, NEW a \in Admins, DeleteChain(a)
    PROVE  SettledTrue' /\ AloneTrue'
<1>1. PICK j \in admin[a].job : j.kind = "chain" /\ Unsettle(j)
  BY DEF DeleteChain
<1>2. UNCHANGED live /\ admin[a].pc = "writing" /\ Goto(a, "inserting")
  BY DEF DeleteChain
<1>3. /\ db'.chain = {} /\ db'.rows = db.rows
      /\ db'.aliases = db.aliases /\ db'.providers = db.providers
  BY ChainFrame DEF DeleteChain
<1>4. /\ Frame(a) /\ admin'[a].pc = "inserting" /\ admin'[a].at = admin[a].at
      /\ SameJob(admin[a], admin'[a])
  BY <1>2, GotoMoves, StagesNamed
<1>5. \A k \in settled' : k.kind # "chain"
  BY <1>1, JobOf, ApartTouches DEF OperatorTypes, Unsettle
<1>6. ASSUME NEW k \in settled' PROVE Unmoved(k) /\ Agrees(admin[a], k)'
  BY <1>3, <1>4, <1>5 DEF Unmoved, Agrees
<1>7. SettledTrue'
  BY <1>1, <1>2, <1>4, <1>6, WriteKeepsSettled DEF Unsettle
<1>8. ASSUME admin[a].alone = TRUE, NEW k \in admin[a].job PROVE AloneHolds(admin[a], k)'
  <2>1. k = j
    BY <1>1, JobOf
  <2>2. k.chain \in Seq(Models)
    BY <1>1, <2>1, JobOf, JobFields
  <2>3. admin[a].at = 1
    BY <1>1, <1>2, <1>8, <2>1, AloneOf DEF AloneHolds
  <2>4. LinksTo(k.chain, 0) = {} /\ 1 \in 1..(Len(k.chain) + 1) /\ 1 - 1 = 0
    BY <2>2 DEF LinksTo
  <2>5. admin'[a].at \in 1..(Len(k.chain) + 1) /\ db'.chain = LinksTo(k.chain, admin'[a].at - 1)
    BY <1>3, <1>4, <2>3, <2>4
  <2> QED BY <1>4, <2>5 DEF AloneHolds, Refreshing
<1>9. AloneTrue'
  BY <1>2, <1>4, <1>8, AloneMoves
<1> QED BY <1>7, <1>9

LEMMA OneLinkMore ==
    ASSUME NEW chain \in Seq(Models), NEW n \in 1..Len(chain)
    PROVE  LinksTo(chain, n) = LinksTo(chain, n - 1) \cup {[priority |-> n, model |-> chain[n]]}
<1>1. 1..n = 1..(n - 1) \cup {n}
  OBVIOUS
<1> QED BY <1>1 DEF LinksTo

LEMMA InsertFallbackKeeps ==
    ASSUME OperatorTypes, SettledTrue, AloneTrue, NEW a \in Admins, InsertFallback(a)
    PROVE  SettledTrue' /\ AloneTrue'
<1> DEFINE link(j) == [priority |-> admin[a].at, model |-> j.chain[admin[a].at]]
<1>1. PICK j \in admin[a].job :
         /\ admin[a].at \in DOMAIN j.chain
         /\ \/ End(a) /\ UNCHANGED db
            \/ /\ db' = [db EXCEPT !.chain = db.chain \cup {link(j)}]
               /\ admin' = [admin EXCEPT ![a].at = @ + 1]
  BY DEF InsertFallback, OperatorTypes, Tables
<1>2. UNCHANGED <<live, settled>> /\ admin[a].pc = "inserting"
  BY DEF InsertFallback
<1>3. CASE End(a) /\ UNCHANGED db
  BY <1>2, <1>3, EndKeeps
<1>4. CASE /\ db' = [db EXCEPT !.chain = db.chain \cup {link(j)}]
           /\ admin' = [admin EXCEPT ![a].at = @ + 1]
  <2>1. admin[a].at \in Nat /\ db.chain \in SUBSET Link
    BY DEF OperatorTypes, Handler, Tables
  <2>2. j.kind = "chain" /\ j.chain \in Seq(Models)
    BY <1>2, JobOf, JobFields DEF Fits
  <2>3. link(j) \in Link
    BY <1>1, <2>1, <2>2 DEF Link
  <2>4. PICK l \in Link : l = link(j)
    BY <2>3
  <2>5. PICK c \in SUBSET Link : c = db.chain \cup {l}
    BY <2>1
  <2>6. /\ db'.chain = c /\ db'.rows = db.rows
        /\ db'.aliases = db.aliases /\ db'.providers = db.providers
    BY <1>4, <2>4, <2>5, ChainFrame
  <2>7. /\ Frame(a) /\ admin'[a].pc = "inserting" /\ admin'[a].at = admin[a].at + 1
        /\ SameJob(admin[a], admin'[a])
    BY <1>2, <1>4, InsertMoves
  <2>8. ASSUME NEW k \in settled' PROVE Unmoved(k) /\ Agrees(admin[a], k)'
    <3>1. k.kind # "chain"
      BY <1>2 DEF SettledTrue, Agrees
    <3> QED BY <2>6, <2>7, <3>1 DEF Unmoved, Agrees
  <2>9. SettledTrue'
    BY <1>2, <2>7, <2>8, WriteKeepsSettled
  <2>10. ASSUME admin[a].alone = TRUE, NEW k \in admin[a].job PROVE AloneHolds(admin[a], k)'
    <3>1. k = j
      BY <1>1, JobOf
    <3>2. db.chain = LinksTo(j.chain, admin[a].at - 1)
      BY <1>1, <1>2, <2>10, AloneOf DEF AloneHolds
    <3>3. admin[a].at \in 1..Len(j.chain)
      BY <1>1, <2>2
    <3>4. db'.chain = LinksTo(j.chain, admin[a].at)
      BY <2>2, <2>4, <2>5, <2>6, <3>2, <3>3, OneLinkMore
    <3>5. admin[a].at + 1 \in 1..(Len(j.chain) + 1) /\ admin[a].at = (admin[a].at + 1) - 1
      BY <2>2, <3>3
    <3>6. admin'[a].at \in 1..(Len(j.chain) + 1) /\ db'.chain = LinksTo(j.chain, admin'[a].at - 1)
      BY <2>7, <3>4, <3>5
    <3> QED BY <2>7, <3>1, <3>6 DEF AloneHolds, Refreshing
  <2>11. AloneTrue'
    BY <1>2, <2>7, <2>10, AloneMoves
  <2> QED BY <2>9, <2>11
<1> QED BY <1>1, <1>3, <1>4

-----------------------------------------------------------------------------
(* A store puts what agrees with the tables into the router.               *)

LEMMA DoneMoves ==
    ASSUME OperatorTypes, SettledTrue, AloneTrue, NEW a \in Admins, Done(a), admin[a].pc \in Refreshing,
           UNCHANGED db,
           \A j : Established(j) /\ Agrees(admin[a], j) /\ (j \in settled => LiveHas(j))
                  /\ (j \in admin[a].job \/ j \in settled) => LiveHas(j)'
    PROVE  SettledTrue' /\ AloneTrue'
<1>1. Frame(a) /\ admin'[a] = Idle /\ Idle.pc = "idle" /\ admin[a].pc # "idle"
  BY DoneTyped DEF Idle, Refreshing
<1>2. AloneTrue'
  BY <1>1, AloneMoves
<1>3. ASSUME NEW j \in settled, NEW o \in Admins
      PROVE  Established(j)' /\ LiveHas(j)' /\ Agrees(admin[o], j)'
  <2>1. Established(j) /\ LiveHas(j) /\ Agrees(admin[o], j) /\ Agrees(admin[a], j)
    BY DEF SettledTrue
  <2>2. Agrees(admin'[o], j)
    BY <1>1, <2>1, IdleAgrees DEF Frame
  <2> QED BY <2>1, <2>2, AgreesStill DEF Established
<1>4. ASSUME admin[a].alone = TRUE, NEW j \in admin[a].job, NEW o \in Admins
      PROVE  Established(j)' /\ LiveHas(j)' /\ Agrees(admin[o], j)'
  <2>1. AloneHolds(admin[a], j) /\ \A b \in Admins \ {a} : admin[b].pc = "idle"
    BY <1>1, <1>4, AloneOf
  <2>2. Established(j) /\ Agrees(admin[a], j)
    BY <2>1 DEF AloneHolds
  <2>3. admin'[o].pc = "idle"
    BY <1>1, <2>1 DEF Frame
  <2>4. Agrees(admin'[o], j)
    BY <2>3, AgreesEarly
  <2>5. j \in settled => LiveHas(j)
    BY DEF SettledTrue
  <2> QED BY <2>2, <2>4, <2>5, AgreesStill DEF Established
<1>5. settled' \subseteq settled \cup {j \in admin[a].job : admin[a].alone = TRUE}
  BY DEF Done
<1> QED BY <1>2, <1>3, <1>4, <1>5 DEF SettledTrue

\* The router's aliases, off map and chain after a store.
LEMMA LiveNow ==
    ASSUME OperatorTypes
    PROVE  /\ \A m : live' = [live EXCEPT !.aliases = m] =>
                  live'.aliases = m /\ live'.off = live.off /\ live'.chain = live.chain
           /\ \A o : live' = [live EXCEPT !.off = o] =>
                  live'.off = o /\ live'.aliases = live.aliases /\ live'.chain = live.chain
           /\ \A c : live' = [live EXCEPT !.chain = c] =>
                  live'.chain = c /\ live'.off = live.off /\ live'.aliases = live.aliases
BY DEF OperatorTypes, LiveState

\* A managed alias is what the map has of its name.
LEMMA ManagedAlias ==
    ASSUME NEW rows, NEW aliases, NEW n \in Targets, NEW t, aliases[n] = {t}
    PROVE  AliasMap(rows, aliases)[n] = {t}
BY DEF AliasMap

LEMMA AliasNamed == ASSUME NEW j \in Jobs, j.kind = "alias" PROVE j.name \in Targets
BY JobFields

LEMMA StoreAliasesKeeps ==
    ASSUME OperatorTypes, SettledTrue, AloneTrue, NEW a \in Admins, StoreAliases(a)
    PROVE  SettledTrue' /\ AloneTrue'
<1>1. admin[a].pc = "alias_store" /\ admin[a].pc \in Refreshing /\ UNCHANGED db
  BY DEF StoreAliases, Refreshing
<1>2. /\ live'.aliases = AliasMap(admin[a].rows, admin[a].aliases)
      /\ live'.off = live.off /\ live'.chain = live.chain
  BY LiveNow DEF StoreAliases
<1>3. ASSUME NEW j \in Jobs, j.kind = "alias", Established(j), Agrees(admin[a], j)
      PROVE  live'.aliases[j.name] = {j.target}
  <2>1. admin[a].aliases[j.name] = {j.target} /\ j.name \in Targets
    BY <1>1, <1>3, AliasNamed DEF Established, Agrees
  <2> QED BY <1>2, <2>1, ManagedAlias
<1>4. ASSUME NEW j \in settled PROVE LiveHas(j)'
  <2>1. j \in Jobs /\ Established(j) /\ LiveHas(j) /\ Agrees(admin[a], j)
    BY DEF SettledTrue, OperatorTypes
  <2> QED BY <1>1, <1>2, <1>3, <2>1 DEF LiveHas, DisabledRow
<1>5. CASE ~\E j \in admin[a].job : RefreshesState(j)
  <2>1. ASSUME NEW j \in admin[a].job, Established(j), Agrees(admin[a], j) PROVE LiveHas(j)'
    <3>1. j \in Jobs /\ j.kind \notin Switches /\ j.kind \notin ProviderKinds /\ j.kind # "chain"
      BY <1>1, <1>5, JobOf DEF RefreshesState, Switches, Fits
    <3> QED BY <1>3, <2>1, <3>1 DEF LiveHas
  <2>2. Done(a)
    BY <1>5 DEF StoreAliases
  <2> QED BY <1>1, <1>4, <2>1, <2>2, DoneMoves
<1>6. CASE \E j \in admin[a].job : RefreshesState(j)
  <2>1. Goto(a, "off_rows") /\ UNCHANGED settled
    BY <1>6 DEF StoreAliases
  <2>2. Frame(a) /\ admin'[a].pc = "off_rows" /\ SameJob(admin[a], admin'[a])
    BY <2>1, GotoMoves, StagesNamed
  <2>3. \A j : Agrees(admin'[a], j)
    BY <2>2, AgreesEarly
  <2>4. ASSUME NEW j \in settled', NEW o \in Admins PROVE Established(j)' /\ Agrees(admin[o], j)'
    <3>1. Established(j) /\ Agrees(admin'[o], j)
      BY <2>1, <2>2, <2>3 DEF SettledTrue, Frame
    <3> QED BY <1>1, <3>1, AgreesStill DEF Established
  <2>5. SettledTrue'
    BY <1>4, <2>1, <2>4 DEF SettledTrue
  <2>6. ASSUME admin[a].alone = TRUE, NEW j \in admin[a].job PROVE AloneHolds(admin[a], j)'
    <3>1. AloneHolds(admin[a], j)
      BY <1>1, <2>6, AloneOf
    <3>2. admin'[a].pc \in Refreshing
      BY <2>2 DEF Refreshing
    <3> QED BY <1>1, <2>3, <3>1, <3>2, AloneOn
  <2>7. AloneTrue'
    BY <1>1, <2>2, <2>6, AloneMoves
  <2> QED BY <2>5, <2>7
<1> QED BY <1>5, <1>6

LEMMA StoreOffKeeps ==
    ASSUME OperatorTypes, SettledTrue, AloneTrue, NEW a \in Admins, StoreOff(a)
    PROVE  SettledTrue' /\ AloneTrue'
<1>1. admin[a].pc = "off_store" /\ admin[a].pc \in Refreshing /\ UNCHANGED db /\ Done(a)
  BY DEF StoreOff, Refreshing
<1>2. live'.off = OffMap(admin[a].rows, admin[a].off) /\ live'.aliases = live.aliases
      /\ live'.chain = live.chain
  BY LiveNow DEF StoreOff
<1>3. \A m : m \in live'.off.models <=> DisabledRow(admin[a].rows, m)
  BY <1>2 DEF OffMap, DisabledRow
<1>4. live'.off.providers = admin[a].off
  BY <1>2 DEF OffMap
<1>5. ASSUME NEW j, Agrees(admin[a], j)
      PROVE  /\ j.kind \in Switches =>
                  (ModelOf[j.row] \in live'.off.models <=> DisabledRow(db.rows, ModelOf[j.row]))
             /\ j.kind \in ProviderKinds =>
                  (j.provider \in live'.off.providers <=> j.provider \in db.providers)
  <2>1. j.kind \in Switches =>
          (DisabledRow(admin[a].rows, ModelOf[j.row]) <=> DisabledRow(db.rows, ModelOf[j.row]))
    BY <1>1, <1>5 DEF Agrees, DisabledRow
  <2>2. j.kind \in ProviderKinds => (j.provider \in admin[a].off <=> j.provider \in db.providers)
    BY <1>1, <1>5 DEF Agrees
  <2> QED BY <1>3, <1>4, <2>1, <2>2
<1>6. ASSUME NEW j, Agrees(admin[a], j), j \in settled \/ j \in admin[a].job,
             j \in settled => LiveHas(j)
      PROVE  LiveHas(j)'
  <2>1. j \notin settled => j.kind \notin {"alias", "chain"}
    BY <1>1, <1>6, JobOf DEF Fits, RefreshesState, ProviderKinds
  <2>2. j.kind \in {"alias", "chain"} => LiveHas(j)
    BY <1>6, <2>1
  <2>3. /\ j.kind = "alias" => live'.aliases[j.name] = {j.target}
        /\ j.kind = "chain" => live'.chain = db.chain
    BY <1>2, <2>2 DEF LiveHas
  <2>4. (DisabledRow(db.rows, ModelOf[j.row]) <=> DisabledRow(db.rows, ModelOf[j.row])')
    BY <1>1 DEF DisabledRow
  <2> QED BY <1>1, <1>5, <1>6, <2>3, <2>4 DEF LiveHas
<1> QED BY <1>1, <1>6, DoneMoves

LEMMA StoreChainKeeps ==
    ASSUME OperatorTypes, SettledTrue, AloneTrue, NEW a \in Admins, StoreChain(a)
    PROVE  SettledTrue' /\ AloneTrue'
<1>1. admin[a].pc = "chain_store" /\ admin[a].pc \in Refreshing /\ UNCHANGED db /\ Done(a)
  BY DEF StoreChain, Refreshing
<1>2. live'.chain = admin[a].chain /\ live'.off = live.off /\ live'.aliases = live.aliases
  BY LiveNow DEF StoreChain
<1>3. ASSUME NEW j, Agrees(admin[a], j), j \in settled \/ j \in admin[a].job,
             j \in settled => LiveHas(j)
      PROVE  LiveHas(j)'
  <2>1. j \notin settled => j.kind = "chain"
    BY <1>1, <1>3, JobOf DEF Fits
  <2>2. j.kind = "chain" => live'.chain = db'.chain
    BY <1>1, <1>2, <1>3 DEF Agrees
  <2>3. CASE j \in settled
    BY <1>1, <1>2, <1>3, <2>2, <2>3 DEF LiveHas, DisabledRow
  <2>4. CASE j \notin settled
    BY <2>1, <2>2, <2>4 DEF LiveHas, Switches, ProviderKinds
  <2> QED BY <2>3, <2>4
<1> QED BY <1>1, <1>3, DoneMoves

\* A restart loads what the tables hold.
LEMMA RestartKeeps ==
    ASSUME OperatorTypes, SettledTrue, Restart, faults' = 0
    PROVE  SettledTrue' /\ AloneTrue'
<1>1. live' = Loaded(db)
  <2>1. PICK got : Query(got, db) /\ live' = Loaded(got)
    BY DEF Restart
  <2>2. got = db
    BY <2>1, QueryCounts
  <2> QED BY <2>1, <2>2
<1>2. admin' = AllIdle /\ UNCHANGED <<db, settled>>
  BY DEF Restart, AllIdle
<1>3. \A a \in Admins : admin'[a] = Idle /\ Idle.pc = "idle"
  BY <1>2, AllIdleTyped DEF Idle
<1>4. ASSUME NEW j \in settled'
      PROVE  Established(j)' /\ LiveHas(j)' /\ \A a \in Admins : Agrees(admin[a], j)'
  <2>1. Established(j) /\ j \in Jobs
    BY <1>2 DEF SettledTrue, OperatorTypes
  <2>2. Established(j)'
    BY <1>2, <2>1 DEF Established
  <2>3. \A a \in Admins : Agrees(admin[a], j)'
    BY <1>3 DEF Agrees
  <2>4. j.kind = "alias" => live'.aliases[j.name] = {j.target}
    BY <1>1, <2>1, AliasNamed, ManagedAlias DEF Loaded, Established
  <2>5. LiveHas(j)'
    BY <1>1, <1>2, <2>4 DEF Loaded, OffMap, LiveHas, DisabledRow
  <2> QED BY <2>2, <2>3, <2>5
<1>5. AloneTrue'
  BY <1>3 DEF AloneTrue
<1> QED BY <1>4, <1>5 DEF SettledTrue

LEMMA FaultsStay ==
    ASSUME OperatorTypes, Operate \/ Restart, faults' = 0
    PROVE  faults = 0
<1>1. faults \in Nat
  BY OperatorAssumption DEF OperatorTypes
<1>2. \A got, rows : Query(got, rows) => faults' >= faults
  BY QueryCounts
<1>3. CASE Restart
  BY <1>1, <1>2, <1>3 DEF Restart
<1>4. ASSUME NEW a \in Admins,
             CheckAlias(a) \/ ReadRows(a, "alias_rows", "aliases") \/ ReadAliases(a)
             \/ ReadRows(a, "off_rows", "off_providers") \/ ReadProviders(a)
      PROVE  faults = 0
  <2>1. \E got, rows : Query(got, rows)
    BY <1>4 DEF CheckAlias, ReadRows, ReadAliases, ReadProviders
  <2> QED BY <1>1, <1>2, <2>1
<1>5. ASSUME NEW a \in Admins, NEW j \in Jobs, Begin(a, j) PROVE faults = 0
  BY <1>5 DEF Begin
<1>6. ASSUME NEW a \in Admins, CatalogRefuses(a) \/ WriteRow(a) \/ WriteProvider(a) \/ WriteAlias(a)
             \/ DeleteChain(a) \/ InsertFallback(a) \/ ChainWritten(a)
      PROVE  faults = 0
  BY <1>6 DEF CatalogRefuses, WriteRow, WriteProvider, WriteAlias, DeleteChain, InsertFallback,
              ChainWritten
<1>7. ASSUME NEW a \in Admins, StoreAliases(a) \/ StoreOff(a) \/ StoreChain(a) \/ Dropped(a)
      PROVE  faults = 0
  BY <1>7 DEF StoreAliases, StoreOff, StoreChain, Dropped
<1>8. ASSUME NEW a \in Admins, ReadChain(a) PROVE faults = 0
  BY <1>1, <1>8 DEF ReadChain
<1> QED BY <1>3, <1>4, <1>5, <1>6, <1>7, <1>8 DEF Operate

LEMMA OperateKeeps ==
    ASSUME OperatorTypes, SettledTrue, AloneTrue, Operate, faults' = 0
    PROVE  SettledTrue' /\ AloneTrue'
<1>1. ASSUME NEW a \in Admins, ReadRows(a, "alias_rows", "aliases")
      PROVE  SettledTrue' /\ AloneTrue'
  BY <1>1, ReadRowsKeeps
<1>2. ASSUME NEW a \in Admins, ReadRows(a, "off_rows", "off_providers")
      PROVE  SettledTrue' /\ AloneTrue'
  BY <1>2, ReadRowsKeeps
<1> QED
  BY <1>1, <1>2, BeginKeeps, CheckAliasKeeps, RefusalKeeps, WriteRowKeeps, WriteProviderKeeps,
     WriteAliasKeeps, DeleteChainKeeps, InsertFallbackKeeps, ChainWrittenKeeps, ReadAliasesKeeps,
     StoreAliasesKeeps, ReadProvidersKeeps, StoreOffKeeps, ReadChainKeeps, StoreChainKeeps
     DEF Operate

LEMMA InitOperator == OperatorInit => OperatorInv
<1> SUFFICES ASSUME OperatorInit PROVE OperatorInv
  OBVIOUS
<1>1. settled = {} /\ \A a \in Admins : admin[a].pc = "idle"
  BY DEF OperatorInit, Idle
<1> QED BY <1>1, InitTypes DEF OperatorInv, SettledTrue, AloneTrue

LEMMA OperatorStays ==
    ASSUME OperatorInv, Operate \/ Restart \/ UNCHANGED operatorVars
    PROVE  OperatorInv'
<1>1. CASE Operate \/ Restart
  <2>1. OperatorTypes /\ OperatorTypes'
    BY <1>1, OperateTypes, RestartTypes DEF OperatorInv
  <2>2. ASSUME faults' = 0 PROVE SettledTrue' /\ AloneTrue'
    <3>1. SettledTrue /\ AloneTrue
      BY <1>1, <2>1, <2>2, FaultsStay DEF OperatorInv
    <3> QED BY <1>1, <2>1, <2>2, <3>1, OperateKeeps, RestartKeeps
  <2> QED BY <2>1, <2>2 DEF OperatorInv
<1>2. CASE UNCHANGED operatorVars
  <2>1. OperatorTypes'
    BY <1>2 DEF operatorVars, OperatorInv, OperatorTypes
  <2>2. faults' = 0 => SettledTrue' /\ AloneTrue'
    BY <1>2 DEF operatorVars, OperatorInv, SettledTrue, AloneTrue, Established, LiveHas, DisabledRow,
                Agrees, AloneHolds, Present
  <2> QED BY <2>1, <2>2 DEF OperatorInv
<1> QED BY <1>1, <1>2

-----------------------------------------------------------------------------
(* Requests.                                                               *)

RequestFits(h) ==
    /\ h.pc = "pool" => h.asked \subseteq Pools
    /\ h.pc = "new" => h.draws = 0

RequestTypes ==
    /\ req \in [Requests -> Request] /\ \A r \in Requests : RequestFits(req[r])
    /\ counter \in [Pools -> Nat]
    /\ \A p \in Pools : counter[p] = 0 \/ counter[p] < Len(Ring[p])
    /\ pins \in [Sessions -> Opt(Pin)]

\* How many draws ago the ring's place i was drawn.
Behind(i, c, n) == IF i < c THEN c - i ELSE c + n - i

\* A scan that nothing came into has found what it drew disabled.
ScanTrue(h) ==
    h.pc = "pool" /\ h.alone = TRUE =>
        \A p \in h.asked : \A i \in 0..(Len(Ring[p]) - 1) :
            Behind(i, counter[p], Len(Ring[p])) <= h.draws => IsOff(live.off, Ring[p][i + 1])

PoolTrue == \A r \in Requests : ScanTrue(req[r])

ReqFrame(r) ==
    /\ req' \in [Requests -> Request]
    /\ \A o \in Requests \ {r} : req'[o] = req[o]

LEMMA NewTyped == NewRequest \in Request /\ RequestFits(NewRequest) /\ NewRequest.pc = "new"
BY OptOfNone DEF NewRequest, Request, RequestStages, RequestFits

\* The request's handler becomes h.
LEMMA RequestMoves ==
    ASSUME RequestTypes, NEW r \in Requests, NEW h \in Request, RequestFits(h),
           req' = [req EXCEPT ![r] = h]
    PROVE  ReqFrame(r) /\ req'[r] = h /\ \A o \in Requests : RequestFits(req'[o])
BY DEF RequestTypes, ReqFrame

LEMMA MoveFields ==
    ASSUME RequestTypes, NEW r \in Requests,
           NEW pc \in {"guard", "resolve", "affinity", "unpin", "pin", "gate", "sent", "refused"},
           Move(r, pc)
    PROVE  /\ ReqFrame(r) /\ req'[r].pc = pc /\ req'[r].at = req[r].at
           /\ \A o \in Requests : RequestFits(req'[o])
<1> DEFINE h == [req[r] EXCEPT !.pc = pc]
<1>1. req[r] \in Request
  BY DEF RequestTypes
<1>2. h \in Request /\ h.pc = pc /\ h.at = req[r].at
  BY <1>1 DEF Request, RequestStages
<1>3. req' = [req EXCEPT ![r] = h]
  BY DEF Move
<1> HIDE DEF h
<1>4. RequestFits(h)
  BY <1>2 DEF RequestFits
<1> QED BY <1>2, <1>3, <1>4, RequestMoves

LEMMA FinishFields ==
    ASSUME RequestTypes, NEW r \in Requests, NEW pc \in {"sent", "refused"}, Finish(r, pc)
    PROVE  ReqFrame(r) /\ req'[r].pc = pc /\ \A o \in Requests : RequestFits(req'[o])
<1> DEFINE h == [NewRequest EXCEPT !.pc = pc]
<1>1. h \in Request /\ h.pc = pc
  BY OptOfNone DEF NewRequest, Request, RequestStages
<1>2. req' = [req EXCEPT ![r] = h]
  BY DEF Finish
<1> HIDE DEF h
<1>3. RequestFits(h)
  BY <1>1 DEF RequestFits
<1> QED BY <1>1, <1>2, <1>3, RequestMoves

\* A request that does not scan moves, and nothing that scans look at.
LEMMA PoolStays ==
    ASSUME PoolTrue, NEW r \in Requests, ReqFrame(r), UNCHANGED <<live, counter>>,
           req'[r].pc # "pool"
    PROVE  PoolTrue'
<1> SUFFICES ASSUME NEW o \in Requests PROVE ScanTrue(req[o])'
  BY DEF PoolTrue
<1>1. o # r => req'[o] = req[o]
  BY DEF ReqFrame
<1> QED BY <1>1 DEF PoolTrue, ScanTrue

LEMMA ArriveKeeps ==
    ASSUME RequestTypes, PoolTrue, NEW r \in Requests, NEW name \in Asks,
           NEW session \in SessionIds, Arrive(r, name, session)
    PROVE  RequestTypes' /\ PoolTrue'
<1> DEFINE pc == IF name \in Pools THEN "pool" ELSE "guard"
<1> PICK b \in BOOLEAN : b = (name \in Pools)
  BY (name \in Pools) \in BOOLEAN, Zenon
<1> DEFINE h == [req[r] EXCEPT !.pc = pc, !.asked = {name}, !.session = session, !.alone = b]
<1>1. req[r] \in Request /\ req[r].draws = 0 /\ UNCHANGED <<live, counter, pins>>
  BY DEF RequestTypes, RequestFits, Arrive, operatorVars
<1>2. {name} \in Opt(Asks) /\ session \in Opt(Sessions)
  BY OptOfOne, RoutingAssumption
<1>3. /\ h \in Request /\ h.pc = pc /\ h.draws = 0 /\ h.asked = {name}
  BY <1>1, <1>2 DEF Request, RequestStages
<1>4. req' = [req EXCEPT ![r] = h]
  BY DEF Arrive
<1> HIDE DEF h
<1>5. RequestFits(h)
  BY <1>3 DEF RequestFits
<1>6. ReqFrame(r) /\ req'[r] = h /\ \A o \in Requests : RequestFits(req'[o])
  BY <1>3, <1>4, <1>5, RequestMoves
<1>7. ASSUME NEW o \in Requests PROVE ScanTrue(req[o])'
  <2>1. CASE o # r
    BY <1>1, <1>6, <2>1 DEF PoolTrue, ScanTrue, ReqFrame
  <2>2. CASE o = r
    <3>1. ASSUME name \in Pools, NEW i \in 0..(Len(Ring[name]) - 1)
          PROVE  ~(Behind(i, counter[name], Len(Ring[name])) <= 0)
      BY <3>1, RoutingAssumption DEF RequestTypes, Behind
    <3> QED BY <1>1, <1>3, <1>6, <2>2, <3>1 DEF ScanTrue
  <2> QED BY <2>1, <2>2
<1> QED BY <1>1, <1>6, <1>7 DEF RequestTypes, ReqFrame, PoolTrue

\* A draw steps the ring: its place was drawn one draw ago, the others one more.
LEMMA BehindSteps ==
    ASSUME NEW n \in Nat, NEW c \in 0..(n - 1), NEW i \in 0..(n - 1), i # c
    PROVE  Behind(i, (c + 1) % n, n) = Behind(i, c, n) + 1
<1>1. (c + 1) % n = IF c + 1 = n THEN 0 ELSE c + 1
  OBVIOUS
<1> QED BY <1>1 DEF Behind

LEMMA BehindBounds ==
    ASSUME NEW n \in Nat, NEW c \in Nat, c = 0 \/ c < n, NEW i \in 0..(n - 1)
    PROVE  Behind(i, c, n) \in 1..n
BY DEF Behind

\* What a draw makes of its own handler, and of the others.
Drawn(r, candidate, off) ==
    IF off
    THEN [Overtaken(r) EXCEPT ![r].draws = @ + 1]
    ELSE [Overtaken(r) EXCEPT ![r].pc = "affinity", ![r].at = {candidate},
                              ![r].draws = 0, ![r].alone = FALSE]

LEMMA DrawMoves ==
    ASSUME RequestTypes, NEW r \in Requests, NEW pool \in Pools, req[r].pc = "pool",
           req[r].asked = {pool}, NEW candidate \in Models, NEW off \in BOOLEAN,
           req' = Drawn(r, candidate, off)
    PROVE  /\ req' \in [Requests -> Request] /\ \A o \in Requests : RequestFits(req'[o])
           /\ off = TRUE  => /\ req'[r].pc = "pool" /\ req'[r].draws = req[r].draws + 1
                             /\ req'[r].asked = {pool} /\ req'[r].alone = req[r].alone
           /\ off = FALSE => req'[r].pc = "affinity"
           /\ \A o \in Requests \ {r} :
                 /\ req'[o].pc = req[o].pc
                 /\ IF req[o].asked = {pool} THEN req'[o].alone = FALSE ELSE req'[o] = req[o]
<1> DEFINE met(o) == [req[o] EXCEPT !.alone = FALSE]
           others(o) == IF req[o].asked = {pool} THEN met(o) ELSE req[o]
<1>1. \A o \in Requests : req[o] \in Request /\ RequestFits(req[o])
  BY DEF RequestTypes
<1>2. ASSUME NEW o \in Requests
      PROVE  /\ met(o) \in Request /\ met(o).alone = FALSE /\ met(o).pc = req[o].pc
             /\ met(o).asked = req[o].asked /\ met(o).draws = req[o].draws
  BY <1>1 DEF Request
<1>3. PICK n \in Nat : n = req[r].draws + 1
  BY <1>1 DEF Request
<1> DEFINE h == IF off THEN [req[r] EXCEPT !.draws = n]
                ELSE [req[r] EXCEPT !.pc = "affinity", !.at = {candidate}, !.draws = 0, !.alone = FALSE]
<1>4. /\ h \in Request
      /\ off = TRUE => /\ h.pc = "pool" /\ h.draws = n /\ h.asked = {pool}
                       /\ h.alone = req[r].alone
      /\ off = FALSE => h.pc = "affinity"
  BY <1>1, OptOfOne DEF Request, RequestStages
<1>5. RequestFits(h)
  BY <1>4 DEF RequestFits
<1>6. \A o \in Requests \ {r} : RequestFits(others(o)) /\ others(o) \in Request
  BY <1>1, <1>2 DEF RequestFits
<1>7. Overtaken(r) = [o \in Requests |-> IF o = r THEN req[r] ELSE others(o)]
  BY DEF Overtaken
<1>8. req' = [o \in Requests |-> IF o = r THEN h ELSE others(o)]
  BY <1>3, <1>7 DEF Drawn
<1> HIDE DEF h, met
<1> QED BY <1>2, <1>3, <1>4, <1>5, <1>6, <1>8

LEMMA DrawKeeps ==
    ASSUME RequestTypes, PoolTrue, NEW r \in Requests, Draw(r)
    PROVE  RequestTypes' /\ PoolTrue'
<1>1. PICK pool \in req[r].asked :
         LET candidate == Ring[pool][counter[pool] + 1] IN
          /\ ~ScanIsOver(r, pool)
          /\ counter' = [counter EXCEPT ![pool] = (@ + 1) % Len(Ring[pool])]
          /\ req' = IF IsOff(live.off, candidate)
                    THEN [Overtaken(r) EXCEPT ![r].draws = @ + 1]
                    ELSE [Overtaken(r) EXCEPT ![r].pc = "affinity", ![r].at = {candidate},
                                            ![r].draws = 0, ![r].alone = FALSE]
  BY DEF Draw
<1> DEFINE candidate == Ring[pool][counter[pool] + 1]
<1>2. req[r] \in Request /\ RequestFits(req[r]) /\ req[r].pc = "pool"
  BY DEF Draw, RequestTypes
<1>3. pool \in Pools /\ req[r].asked = {pool}
  BY <1>1, <1>2, OneOfOpt DEF Request, RequestFits
<1>4. PICK n \in Nat : n = Len(Ring[pool])
  BY <1>3, RoutingAssumption
<1>5. PICK c \in 0..(n - 1) : c = counter[pool]
  <2>1. req[r].draws \in Nat /\ ~(req[r].draws >= n)
    BY <1>1, <1>2, <1>4 DEF ScanIsOver, Request
  <2>2. counter[pool] \in Nat /\ (counter[pool] = 0 \/ counter[pool] < n)
    BY <1>3, <1>4 DEF RequestTypes
  <2>3. counter[pool] \in 0..(n - 1)
    BY <2>1, <2>2
  <2> QED BY <2>3
<1>6. candidate \in Models
  BY <1>3, <1>4, <1>5, RoutingAssumption
<1>7. PICK off \in BOOLEAN : off = IsOff(live.off, candidate)
  BY IsOff(live.off, candidate) \in BOOLEAN, Zenon DEF IsOff
<1>8. /\ req' \in [Requests -> Request] /\ \A o \in Requests : RequestFits(req'[o])
      /\ off = TRUE  => /\ req'[r].pc = "pool" /\ req'[r].draws = req[r].draws + 1
                        /\ req'[r].asked = {pool} /\ req'[r].alone = req[r].alone
      /\ off = FALSE => req'[r].pc = "affinity"
      /\ \A o \in Requests \ {r} :
            /\ req'[o].pc = req[o].pc
            /\ IF req[o].asked = {pool} THEN req'[o].alone = FALSE ELSE req'[o] = req[o]
  <2> HIDE DEF candidate
  <2>1. req' = Drawn(r, candidate, off)
    BY <1>1, <1>7 DEF candidate, Drawn
  <2>2. /\ r \in Requests /\ pool \in Pools /\ candidate \in Models /\ off \in BOOLEAN
        /\ req[r].pc = "pool" /\ req[r].asked = {pool}
    BY <1>2, <1>3, <1>6
  <2> QED BY ONLY RequestTypes, <2>1, <2>2, DrawMoves
<1>9. PICK d \in 0..(n - 1) : d = (c + 1) % n
  BY <1>4, <1>5
<1>10. counter' = [counter EXCEPT ![pool] = d]
  BY <1>1, <1>4, <1>5, <1>9
<1>11. /\ counter' \in [Pools -> Nat] /\ counter'[pool] = d
       /\ \A p \in Pools \ {pool} : counter'[p] = counter[p]
       /\ \A p \in Pools : counter'[p] = 0 \/ counter'[p] < Len(Ring[p])
  <2>1. d \in Nat /\ d < n
    OBVIOUS
  <2>2. /\ counter \in [Pools -> Nat]
        /\ \A p \in Pools : counter[p] = 0 \/ counter[p] < Len(Ring[p])
    BY DEF RequestTypes
  <2>3. /\ counter' \in [Pools -> Nat] /\ counter'[pool] = d
        /\ \A p \in Pools \ {pool} : counter'[p] = counter[p]
    BY <1>3, <1>10, <2>1, <2>2
  <2> QED BY <1>4, <2>1, <2>2, <2>3
<1>12. UNCHANGED <<live, pins>>
  BY DEF Draw, operatorVars
<1>13. RequestTypes'
  BY <1>8, <1>11, <1>12 DEF RequestTypes
<1>14. ASSUME NEW o \in Requests PROVE ScanTrue(req[o])'
  <2>1. CASE o # r /\ req[o].asked # {pool}
    <3>1. req'[o] = req[o] /\ ScanTrue(req[o])
      BY <1>8, <2>1 DEF PoolTrue
    <3>2. req[o].pc = "pool" => \A p \in req[o].asked : p \in Pools \ {pool}
      BY <1>3, <2>1, OneOfOpt DEF RequestTypes, Request, RequestFits
    <3> QED BY <1>11, <1>12, <3>1, <3>2 DEF ScanTrue
  <2>2. CASE o # r /\ req[o].asked = {pool}
    <3>1. req'[o].alone = FALSE
      BY <1>8, <2>2
    <3> QED BY <3>1 DEF ScanTrue
  <2>3. CASE o = r
    <3> SUFFICES ASSUME off = TRUE, req[r].alone = TRUE, NEW i \in 0..(n - 1),
                        Behind(i, d, n) <= req[r].draws + 1
                 PROVE  IsOff(live.off, Ring[pool][i + 1])
      BY <1>4, <1>8, <1>11, <1>12, <2>3 DEF ScanTrue
    <3>1. CASE i = c
      BY <1>5, <1>7, <3>1
    <3>2. CASE i # c
      <4>1. Behind(i, d, n) = Behind(i, c, n) + 1 /\ Behind(i, c, n) \in Nat
        <5>1. Behind(i, (c + 1) % n, n) = Behind(i, c, n) + 1
          BY <3>2, BehindSteps
        <5>2. Behind(i, c, n) \in 1..n
          BY BehindBounds
        <5> QED BY <1>9, <5>1, <5>2
      <4>2. Behind(i, c, n) <= req[r].draws
        BY <1>2, <4>1 DEF Request
      <4>3. ScanTrue(req[r])
        BY DEF PoolTrue
      <4> QED BY <1>2, <1>3, <1>4, <1>5, <4>2, <4>3 DEF ScanTrue
    <3> QED BY <3>1, <3>2
  <2> QED BY <2>1, <2>2, <2>3
<1> QED BY <1>13, <1>14 DEF PoolTrue

\* A step by which a request moves on, out of the pools.
LEMMA MovedOn ==
    ASSUME RequestTypes, PoolTrue, NEW r \in Requests, ReqFrame(r), req'[r].pc # "pool",
           \A o \in Requests : RequestFits(req'[o]), UNCHANGED <<live, counter>>,
           pins' \in [Sessions -> Opt(Pin)]
    PROVE  RequestTypes' /\ PoolTrue'
BY PoolStays DEF RequestTypes, ReqFrame

LEMMA FinishKeeps ==
    ASSUME RequestTypes, PoolTrue, NEW r \in Requests, RefusePool(r) \/ CheckAvailable(r)
    PROVE  RequestTypes' /\ PoolTrue'
<1>1. (Finish(r, "sent") \/ Finish(r, "refused")) /\ UNCHANGED <<live, counter, pins>>
  BY DEF RefusePool, CheckAvailable, operatorVars
<1>2. ReqFrame(r) /\ req'[r].pc # "pool" /\ \A o \in Requests : RequestFits(req'[o])
  BY <1>1, FinishFields
<1> QED BY <1>1, <1>2, MovedOn DEF RequestTypes

LEMMA GuardKeeps ==
    ASSUME RequestTypes, PoolTrue, NEW r \in Requests, Guard(r)
    PROVE  RequestTypes' /\ PoolTrue'
<1>1. (Finish(r, "refused") \/ Move(r, "resolve")) /\ UNCHANGED <<live, counter, pins>>
  BY DEF Guard, operatorVars
<1>2. ReqFrame(r) /\ req'[r].pc # "pool" /\ \A o \in Requests : RequestFits(req'[o])
  BY <1>1, FinishFields, MoveFields
<1> QED BY <1>1, <1>2, MovedOn DEF RequestTypes

\* A request comes to a model.
LEMMA ResolvedFields ==
    ASSUME RequestTypes, NEW r \in Requests, NEW pc \in {"affinity", "gate"}, NEW m \in Models,
           req' = [req EXCEPT ![r].pc = pc, ![r].at = {m}]
    PROVE  ReqFrame(r) /\ req'[r].pc = pc /\ \A o \in Requests : RequestFits(req'[o])
<1> DEFINE h == [req[r] EXCEPT !.pc = pc, !.at = {m}]
<1>1. req[r] \in Request
  BY DEF RequestTypes
<1>2. h \in Request /\ h.pc = pc
  BY <1>1, OptOfOne DEF Request, RequestStages
<1>3. req' = [req EXCEPT ![r] = h]
  OBVIOUS
<1> HIDE DEF h
<1>4. RequestFits(h)
  BY <1>2 DEF RequestFits
<1> QED BY <1>2, <1>3, <1>4, RequestMoves

LEMMA ResolveKeeps ==
    ASSUME RequestTypes, PoolTrue, NEW r \in Requests, Resolve(r)
    PROVE  RequestTypes' /\ PoolTrue'
<1>1. PICK name \in req[r].asked :
         req' = [req EXCEPT ![r].pc = "affinity",
                            ![r].at = {IF Substituted(Walk(live.aliases, name)) THEN DefaultModel
                                       ELSE Walk(live.aliases, name)}]
  BY DEF Resolve
<1>2. PICK m \in Models : m = IF Substituted(Walk(live.aliases, name)) THEN DefaultModel
                              ELSE Walk(live.aliases, name)
  BY RoutingAssumption DEF Substituted
<1>3. UNCHANGED <<live, counter, pins>>
  BY DEF Resolve, operatorVars
<1>4. ReqFrame(r) /\ req'[r].pc # "pool" /\ \A o \in Requests : RequestFits(req'[o])
  BY <1>1, <1>2, ResolvedFields
<1> QED BY <1>3, <1>4, MovedOn DEF RequestTypes

LEMMA GetPinKeeps ==
    ASSUME RequestTypes, PoolTrue, NEW r \in Requests, GetPin(r)
    PROVE  RequestTypes' /\ PoolTrue'
<1>1. UNCHANGED <<live, counter, pins>> /\ req[r].pc = "affinity"
  BY DEF GetPin, operatorVars
<1>2. CASE Move(r, "gate") \/ Move(r, "pin") \/ Move(r, "unpin")
  <2>1. ReqFrame(r) /\ req'[r].pc # "pool" /\ \A o \in Requests : RequestFits(req'[o])
    BY <1>2, MoveFields
  <2> QED BY <1>1, <2>1, MovedOn DEF RequestTypes
<1>3. ASSUME NEW s \in req[r].session, NEW pin \in pins[s],
             req' = [req EXCEPT ![r].pc = "pin", ![r].pin = {pin.model}]
      PROVE  RequestTypes' /\ PoolTrue'
  <2> DEFINE h == [req[r] EXCEPT !.pc = "pin", !.pin = {pin.model}]
  <2>1. req[r] \in Request
    BY DEF RequestTypes
  <2>2. s \in Sessions
    BY <1>3, <2>1, OneOfOpt DEF Request
  <2>3. pin \in Pin
    BY <1>3, <2>2, OneOfOpt DEF RequestTypes
  <2>4. {pin.model} \in Opt(Models)
    BY <2>3, OptOfOne DEF Pin
  <2>5. h \in Request /\ h.pc = "pin"
    BY <2>1, <2>4 DEF Request, RequestStages
  <2>6. req' = [req EXCEPT ![r] = h]
    BY <1>3
  <2> HIDE DEF h
  <2>7. RequestFits(h)
    BY <2>5 DEF RequestFits
  <2>8. ReqFrame(r) /\ req'[r].pc # "pool" /\ \A o \in Requests : RequestFits(req'[o])
    BY <2>5, <2>6, <2>7, RequestMoves
  <2> QED BY <1>1, <2>8, MovedOn DEF RequestTypes
<1> QED BY <1>2, <1>3 DEF GetPin

LEMMA SessionOf ==
    ASSUME RequestTypes, NEW r \in Requests, NEW s \in req[r].session
    PROVE  s \in Sessions
<1>1. req[r] \in Request
  BY DEF RequestTypes
<1> QED BY <1>1, OneOfOpt DEF Request

LEMMA RemovePinKeeps ==
    ASSUME RequestTypes, PoolTrue, NEW r \in Requests, RemovePin(r)
    PROVE  RequestTypes' /\ PoolTrue'
<1>1. Move(r, "pin") /\ UNCHANGED <<live, counter>>
  BY DEF RemovePin, operatorVars
<1>2. pins' \in [Sessions -> Opt(Pin)]
  BY OptOfNone, SessionOf DEF RemovePin, RequestTypes
<1>3. ReqFrame(r) /\ req'[r].pc # "pool" /\ \A o \in Requests : RequestFits(req'[o])
  BY <1>1, MoveFields
<1> QED BY <1>1, <1>2, <1>3, MovedOn

LEMMA SetPinKeeps ==
    ASSUME RequestTypes, PoolTrue, NEW r \in Requests, SetPin(r)
    PROVE  RequestTypes' /\ PoolTrue'
<1>1. PICK s \in req[r].session, m \in req[r].at :
         /\ pins' = [pins EXCEPT ![s] = {[model |-> m, fresh |-> TRUE]}]
         /\ req' = [req EXCEPT ![r].pc = "gate", ![r].at = {m}]
  BY DEF SetPin, ResolveWithPin
<1>2. m \in Models
  <2>1. req[r] \in Request
    BY DEF RequestTypes
  <2> QED BY <2>1, OneOfOpt DEF Request
<1>3. [model |-> m, fresh |-> TRUE] \in Pin
  BY <1>2 DEF Pin
<1>4. pins' \in [Sessions -> Opt(Pin)]
  BY <1>1, <1>3, OptOfOne DEF RequestTypes
<1>5. UNCHANGED <<live, counter>>
  BY DEF SetPin, operatorVars
<1>6. ReqFrame(r) /\ req'[r].pc # "pool" /\ \A o \in Requests : RequestFits(req'[o])
  BY <1>1, <1>2, ResolvedFields
<1> QED BY <1>4, <1>5, <1>6, MovedOn

LEMMA ExpiryKeeps ==
    ASSUME RequestTypes, PoolTrue, (\E s \in Sessions : Expire(s)) \/ EvictExpired
    PROVE  RequestTypes' /\ PoolTrue'
<1>1. UNCHANGED <<live, req, counter>>
  BY DEF Expire, EvictExpired, operatorVars
<1>2. pins' \in [Sessions -> Opt(Pin)]
  <2>1. ASSUME NEW s \in Sessions, Expire(s) PROVE pins' \in [Sessions -> Opt(Pin)]
    <3>1. PICK pin \in pins[s] : pins' = [pins EXCEPT ![s] = {[pin EXCEPT !.fresh = FALSE]}]
      BY <2>1 DEF Expire
    <3>2. pin \in Pin
      BY OneOfOpt DEF RequestTypes
    <3>3. [pin EXCEPT !.fresh = FALSE] \in Pin
      BY <3>2 DEF Pin
    <3> QED BY <3>1, <3>3, OptOfOne DEF RequestTypes
  <2>2. ASSUME EvictExpired PROVE pins' \in [Sessions -> Opt(Pin)]
    <3>1. ASSUME NEW s \in Sessions PROVE {pin \in pins[s] : pin.fresh} \in Opt(Pin)
      BY DEF RequestTypes, Opt
    <3> QED BY <2>2, <3>1 DEF EvictExpired
  <2> QED BY <2>1, <2>2
<1> QED BY <1>1, <1>2 DEF RequestTypes, PoolTrue, ScanTrue

LEMMA OperatorStepKeeps ==
    ASSUME RequestTypes, PoolTrue, OperatorStep
    PROVE  RequestTypes' /\ PoolTrue'
<1>1. UNCHANGED <<counter, pins>>
  BY DEF OperatorStep
<1>2. CASE live'.off = live.off
  <2>1. req' = req
    BY <1>2 DEF OperatorStep
  <2> QED BY <1>1, <1>2, <2>1 DEF RequestTypes, PoolTrue, ScanTrue
<1>3. CASE live'.off # live.off
  <2>1. req' = [r \in Requests |-> [req[r] EXCEPT !.alone = FALSE]]
    BY <1>3 DEF OperatorStep
  <2>2. ASSUME NEW r \in Requests
        PROVE  /\ [req[r] EXCEPT !.alone = FALSE] \in Request
               /\ RequestFits([req[r] EXCEPT !.alone = FALSE])
               /\ [req[r] EXCEPT !.alone = FALSE].alone = FALSE
    <3>1. req[r] \in Request /\ RequestFits(req[r])
      BY DEF RequestTypes
    <3> QED BY <3>1 DEF Request, RequestFits
  <2> QED BY <1>1, <2>1, <2>2 DEF RequestTypes, PoolTrue, ScanTrue
<1> QED BY <1>2, <1>3

LEMMA RestartStepKeeps ==
    ASSUME RequestTypes, PoolTrue, RestartStep
    PROVE  RequestTypes' /\ PoolTrue'
<1>1. /\ req' = [r \in Requests |-> IF req[r].pc \in {"new", "sent", "refused"} THEN req[r]
                                   ELSE NewRequest]
      /\ counter' = [p \in Pools |-> 0] /\ pins' = [s \in Sessions |-> {}]
  BY DEF RestartStep
<1>2. \A r \in Requests : req'[r].pc # "pool"
  BY <1>1, NewTyped
<1>3. RequestTypes'
  BY <1>1, NewTyped, OptOfNone DEF RequestTypes
<1> QED BY <1>2, <1>3 DEF PoolTrue, ScanTrue

-----------------------------------------------------------------------------
(* The invariant of the whole.                                             *)

RoutingInv == OperatorInv /\ RequestTypes /\ PoolTrue

LEMMA InitRouting == RoutingInit => RoutingInv
<1> SUFFICES ASSUME RoutingInit PROVE RoutingInv
  OBVIOUS
<1>1. OperatorInv
  BY InitOperator DEF RoutingInit
<1>2. req = [r \in Requests |-> NewRequest] /\ counter = [p \in Pools |-> 0]
      /\ pins = [s \in Sessions |-> {}]
  BY DEF RoutingInit
<1>3. RequestTypes
  BY <1>2, NewTyped, OptOfNone DEF RequestTypes
<1>4. PoolTrue
  BY <1>2, NewTyped DEF PoolTrue, ScanTrue
<1> QED BY <1>1, <1>3, <1>4 DEF RoutingInv

LEMMA RouteKeeps ==
    ASSUME RequestTypes, PoolTrue, NEW r \in Requests, Route(r)
    PROVE  RequestTypes' /\ PoolTrue'
BY ArriveKeeps, DrawKeeps, FinishKeeps, GuardKeeps, ResolveKeeps, GetPinKeeps, RemovePinKeeps,
   SetPinKeeps DEF Route

LEMMA RouteLeavesOperator ==
    ASSUME \/ \E r \in Requests : Route(r)
           \/ \E s \in Sessions : Expire(s)
           \/ EvictExpired
    PROVE  UNCHANGED operatorVars
<1>1. ASSUME NEW r \in Requests, NEW name, NEW session,
             Arrive(r, name, session) \/ Draw(r) \/ RefusePool(r)
      PROVE  UNCHANGED operatorVars
  BY <1>1 DEF Arrive, Draw, RefusePool
<1>2. ASSUME NEW r \in Requests, Guard(r) \/ Resolve(r) \/ CheckAvailable(r)
      PROVE  UNCHANGED operatorVars
  BY <1>2 DEF Guard, Resolve, CheckAvailable
<1>3. ASSUME NEW r \in Requests, GetPin(r) \/ RemovePin(r) \/ SetPin(r) PROVE UNCHANGED operatorVars
  BY <1>3 DEF GetPin, RemovePin, SetPin
<1>4. ASSUME (\E s \in Sessions : Expire(s)) \/ EvictExpired PROVE UNCHANGED operatorVars
  BY <1>4 DEF Expire, EvictExpired
<1> QED BY <1>1, <1>2, <1>3, <1>4 DEF Route

LEMMA StepsKeep ==
    ASSUME RoutingInv, [Next]_routingVars
    PROVE  RoutingInv'
<1>1. OperatorInv /\ RequestTypes /\ PoolTrue
  BY DEF RoutingInv
<1>2. CASE UNCHANGED routingVars
  <2>1. UNCHANGED operatorVars /\ UNCHANGED <<live, req, counter, pins>>
    BY <1>2 DEF routingVars, operatorVars
  <2>2. RequestTypes' /\ PoolTrue'
    BY <1>1, <2>1 DEF RequestTypes, PoolTrue, ScanTrue
  <2> QED BY <1>1, <2>1, <2>2, OperatorStays DEF RoutingInv
<1>3. CASE (\E r \in Requests : Route(r)) \/ (\E s \in Sessions : Expire(s)) \/ EvictExpired
  <2>1. OperatorInv'
    BY <1>1, <1>3, RouteLeavesOperator, OperatorStays
  <2>2. RequestTypes' /\ PoolTrue'
    BY <1>1, <1>3, RouteKeeps, ExpiryKeeps
  <2> QED BY <2>1, <2>2 DEF RoutingInv
<1>4. CASE OperatorStep \/ RestartStep
  <2>1. Operate \/ Restart
    BY <1>4 DEF OperatorStep, RestartStep
  <2>2. OperatorInv'
    BY <1>1, <2>1, OperatorStays
  <2>3. RequestTypes' /\ PoolTrue'
    BY <1>1, <1>4, OperatorStepKeeps, RestartStepKeeps
  <2> QED BY <2>2, <2>3 DEF RoutingInv
<1> QED BY <1>2, <1>3, <1>4 DEF Next

\* Routing keeps its invariant: with no query failed, whatever is settled stands
\* in the tables and the router alike, and every scan knows what it drew.
THEOREM RoutingInvariant == Spec => []RoutingInv
<1> QED BY InitRouting, StepsKeep, PTL DEF Spec

LEMMA InvIsTyped == RoutingInv => TypeOK
<1> SUFFICES ASSUME RoutingInv PROVE TypeOK
  OBVIOUS
<1>1. OperatorTypeOK /\ RequestTypes
  BY TypesAreTypes DEF RoutingInv, OperatorInv
<1>2. ASSUME NEW p \in Pools PROVE counter[p] \in 0..Len(Ring[p])
  <2>1. Len(Ring[p]) \in Nat
    BY RoutingAssumption
  <2>2. counter[p] \in Nat /\ (counter[p] = 0 \/ counter[p] < Len(Ring[p]))
    BY <1>1 DEF RequestTypes
  <2> QED BY <2>1, <2>2
<1> QED BY <1>1, <1>2 DEF TypeOK, RequestTypes

\* Tables, snapshots, handlers, requests, counters and pins keep their types.
THEOREM RoutingTypeCorrect == Spec => []TypeOK
<1> QED BY RoutingInvariant, InvIsTyped, PTL

LEMMA SettledHoldNow == RoutingInv => (faults = 0 => SettledWritesHold)
BY SettledTookEffect DEF RoutingInv, OperatorInv

\* A write that met no other administrator's rules the router until the same
\* thing is written again, as long as no refresh has failed to read a table.
THEOREM SettledWritesRule == Spec => [](faults = 0 => SettledWritesHold)
<1> QED BY RoutingInvariant, SettledHoldNow, PTL

\* Only CheckAvailable sends, and only RefusePool turns a scan away.
LEMMA LeavingSteps ==
    ASSUME RequestTypes, [Next]_routingVars, NEW r \in Requests
    PROVE  /\ req[r].pc = "gate" /\ req'[r].pc = "sent" => CheckAvailable(r)
           /\ req[r].pc = "pool" /\ req'[r].pc = "refused" => RefusePool(r)
<1>1. req \in [Requests -> Request]
  BY DEF RequestTypes
<1> DEFINE Left == \/ req[r].pc = "gate" /\ req'[r].pc = "sent"
                   \/ req[r].pc = "pool" /\ req'[r].pc = "refused"
<1>2. ASSUME UNCHANGED req PROVE ~Left
  BY <1>2
<1>3. ASSUME OperatorStep PROVE ~Left
  BY <1>1, <1>3 DEF OperatorStep
<1>4. ASSUME RestartStep PROVE ~Left
  BY <1>1, <1>4, NewTyped DEF RestartStep
<1>5. ASSUME NEW q \in Requests \ {r}, Route(q) PROVE ~Left
  <2>1. CASE Draw(q)
    <3>1. \A o \in Requests : Overtaken(q)[o].pc = req[o].pc
      BY <1>1 DEF Overtaken, Request
    <3>2. req'[r].pc = Overtaken(q)[r].pc
      BY <2>1 DEF Draw, Overtaken
    <3> QED BY <3>1, <3>2
  <2>2. CASE RefusePool(q) \/ Guard(q) \/ CheckAvailable(q)
    BY <1>1, <2>2 DEF RefusePool, Guard, CheckAvailable, Finish, Move
  <2>3. CASE Resolve(q) \/ GetPin(q) \/ RemovePin(q) \/ SetPin(q)
    BY <1>1, <2>3 DEF Resolve, GetPin, RemovePin, SetPin, Move
  <2>4. CASE \E name \in Asks : \E session \in SessionIds : Arrive(q, name, session)
    BY <1>1, <2>4 DEF Arrive
  <2> QED BY <1>5, <2>1, <2>2, <2>3, <2>4 DEF Route
<1>6. ASSUME Route(r), req[r].pc = "gate" PROVE CheckAvailable(r)
  BY <1>6 DEF Route, Arrive, Draw, RefusePool, Guard, Resolve, GetPin, RemovePin, SetPin
<1>7. ASSUME Route(r), req[r].pc = "pool", req'[r].pc = "refused" PROVE RefusePool(r)
  <2>1. Draw(r) \/ RefusePool(r)
    BY <1>7 DEF Route, Arrive, Guard, Resolve, GetPin, RemovePin, SetPin, CheckAvailable
  <2>2. CASE Draw(r)
    <3>1. \A o \in Requests : Overtaken(r)[o].pc = req[o].pc
      BY <1>1 DEF Overtaken, Request
    <3>2. Overtaken(r) = [o \in Requests |-> Overtaken(r)[o]]
      BY DEF Overtaken
    <3>3. req'[r].pc \in {"pool", "affinity"}
      BY <1>1, <1>7, <2>2, <3>1, <3>2 DEF Draw
    <3> QED BY <1>7, <3>3
  <2> QED BY <2>1, <2>2
<1>8. ASSUME (\E s \in Sessions : Expire(s)) \/ EvictExpired PROVE UNCHANGED req
  BY <1>8 DEF Expire, EvictExpired
<1>9. UNCHANGED routingVars => UNCHANGED req
  BY DEF routingVars
<1> HIDE DEF Left
<1>10. CASE \E q \in Requests : Route(q)
  BY <1>5, <1>6, <1>7, <1>10 DEF Left
<1>11. CASE ~\E q \in Requests : Route(q)
  BY <1>2, <1>3, <1>4, <1>8, <1>9, <1>11 DEF Left, Next
<1> QED BY <1>10, <1>11

-----------------------------------------------------------------------------
(* What a disable, a pool and an alias promise of every step.              *)

LEMMA GateSteps ==
    ASSUME RoutingInv, faults = 0, [Next]_routingVars, NEW r \in Requests,
           req[r].pc = "gate", req'[r].pc = "sent"
    PROVE  ~\E m \in req[r].at : \E j \in settled : Disables(j, m)
<1> SUFFICES ASSUME NEW m \in req[r].at, NEW j \in settled, Disables(j, m) PROVE FALSE
  OBVIOUS
<1>1. CheckAvailable(r) /\ req \in [Requests -> Request]
  BY LeavingSteps DEF RoutingInv, RequestTypes
<1>2. ~IsOff(live.off, m)
  BY <1>1 DEF CheckAvailable, Finish, NewRequest
<1>3. TookEffect(j)
  BY SettledHoldNow DEF SettledWritesHold
<1>4. CASE j.kind = "disable" /\ ModelOf[j.row] = m
  BY <1>2, <1>3, <1>4 DEF TookEffect
<1>5. CASE j.kind = "provider_off" /\ j.provider = ProviderOf[m]
  BY <1>2, <1>3, <1>5 DEF TookEffect, IsOff
<1> QED BY <1>4, <1>5 DEF Disables

LEMMA NoFaults ==
    ASSUME MaxFaults = 0, RoutingInv
    PROVE  faults = 0
BY DEF RoutingInv, OperatorInv, OperatorTypes

\* A model or provider whose disable was settled when a request came to the gate
\* is not called, whatever alias, pool or pin led there, as long as refreshes
\* read their tables.
THEOREM DisabledAreNotCalled ==
    ASSUME MaxFaults = 0
    PROVE  Spec => DisabledNotCalled
<1>1. RoutingInv /\ [Next]_routingVars =>
        [\A r \in Requests :
            req[r].pc = "gate" /\ req'[r].pc = "sent" =>
                ~\E m \in req[r].at : \E j \in settled : Disables(j, m)]_routingVars
  BY GateSteps, NoFaults
<1> QED BY <1>1, RoutingInvariant, PTL DEF Spec, DisabledNotCalled

LEMMA RefusalSteps ==
    ASSUME RoutingInv, [Next]_routingVars, NEW r \in Requests,
           req[r].pc = "pool", req'[r].pc = "refused", req[r].alone,
           NEW pool \in req[r].asked, NEW i \in DOMAIN Ring[pool]
    PROVE  IsOff(live.off, Ring[pool][i])
<1>1. RefusePool(r) /\ req[r] \in Request /\ RequestFits(req[r]) /\ ScanTrue(req[r])
  BY LeavingSteps DEF RoutingInv, RequestTypes, PoolTrue
<1>2. pool \in Pools /\ req[r].asked = {pool} /\ req[r].alone = TRUE
  BY <1>1, OneOfOpt DEF Request, RequestFits
<1>3. PICK n \in Nat : n = Len(Ring[pool])
  BY <1>2, RoutingAssumption
<1>4. req[r].draws \in Nat /\ req[r].draws >= n
  BY <1>1, <1>2, <1>3 DEF RefusePool, ScanIsOver, Request
<1>5. i \in 1..n
  BY <1>2, <1>3, RoutingAssumption
<1>6. counter[pool] \in Nat /\ (counter[pool] = 0 \/ counter[pool] < n)
  BY <1>2, <1>3 DEF RoutingInv, RequestTypes
<1>7. PICK k \in 0..(n - 1) : k + 1 = i
  BY <1>5
<1>8. Behind(k, counter[pool], n) <= req[r].draws
  <2>1. Behind(k, counter[pool], n) \in 1..n
    BY <1>6, BehindBounds
  <2> QED BY <1>4, <2>1
<1>9. IsOff(live.off, Ring[pool][k + 1])
  BY <1>1, <1>2, <1>3, <1>8 DEF ScanTrue
<1> QED BY <1>7, <1>9

\* A scan that no other request and no refresh came into refuses a pool only
\* when every one of its models is disabled, whatever the weights and wherever
\* in the ring it began.
THEOREM PoolsAreRefusedForCause == Spec => PoolRefusalEarned
<1>1. RoutingInv /\ [Next]_routingVars =>
        [\A r \in Requests :
            req[r].pc = "pool" /\ req'[r].pc = "refused" /\ req[r].alone =>
                \A pool \in req[r].asked : \A i \in DOMAIN Ring[pool] :
                    IsOff(live.off, Ring[pool][i])]_routingVars
  BY RefusalSteps
<1> QED BY <1>1, RoutingInvariant, PTL DEF Spec, PoolRefusalEarned

-----------------------------------------------------------------------------
(* The walk of a name.                                                     *)

\* Induction over a set of numbers, from the least number that it lacks.
LEMMA NatSetInduction ==
    ASSUME NEW S, 0 \in S, \A k \in Nat : k \in S => k + 1 \in S
    PROVE  Nat \subseteq S
<1> DEFINE T == Nat \ S
           R == OpToRel(<, Nat)
<1> SUFFICES ASSUME T # {} PROVE FALSE
  OBVIOUS
<1>1. IsWellFoundedOn(R, Nat)
  BY NatLessThanWellFounded, Zenon
<1>2. PICK x \in T : \A y \in T : ~(<<y, x>> \in R)
  <2> HIDE DEF T, R
  <2>1. T \subseteq Nat
    BY DEF T
  <2> QED BY <1>1, <2>1, WFMin
<1>3. \A y \in Nat, z \in Nat : y < z => <<y, z>> \in R
  BY DEF OpToRel
<1>4. x \in Nat /\ x # 0
  OBVIOUS
<1>5. x - 1 \in Nat /\ x - 1 < x /\ (x - 1) + 1 = x
  BY <1>4
<1> HIDE DEF R
<1> QED BY <1>2, <1>3, <1>4, <1>5

LEMMA DepthPositive == MaxAliasDepth \in Nat /\ MaxAliasDepth >= 1
BY OperatorAssumption

Taken(hop, x) == IF hop = {} THEN x ELSE CHOOSE u \in hop : TRUE
NextStop(map, x) == Taken(Hop(map, x), x)

\* There is one trail, and a hop, or none, is between its stops.
LEMMA TrailHops ==
    ASSUME NEW map, NEW n
    PROVE  /\ Trail(map, n)[0] = n
           /\ \A i \in 1..MaxAliasDepth : Trail(map, n)[i] = NextStop(map, Trail(map, n)[i - 1])
<1> DEFINE F(f) == [i \in 0..MaxAliasDepth |-> IF i = 0 THEN n ELSE NextStop(map, f[i - 1])]
           at == CHOOSE f : f = F(f)
<1>1. Trail(map, n) = at
  BY DEF Trail, NextStop, Taken
<1>2. \E f : f = F(f)
  <2> DEFINE S == {k \in Nat : \E f : f = [i \in 0..k |-> IF i = 0 THEN n ELSE NextStop(map, f[i - 1])]}
  <2>1. 0 \in S
    <3>1. [i \in 0..0 |-> n] = [i \in 0..0 |-> IF i = 0 THEN n ELSE NextStop(map, [k \in 0..0 |-> n][i - 1])]
      OBVIOUS
    <3> QED BY <3>1
  <2>2. ASSUME NEW k \in Nat, k \in S PROVE k + 1 \in S
    <3>1. PICK f : f = [i \in 0..k |-> IF i = 0 THEN n ELSE NextStop(map, f[i - 1])]
      BY <2>2
    <3> DEFINE g == [i \in 0..(k + 1) |-> IF i <= k THEN f[i] ELSE NextStop(map, f[k])]
               G == [i \in 0..(k + 1) |-> IF i = 0 THEN n ELSE NextStop(map, g[i - 1])]
    <3>2. ASSUME NEW i \in 0..(k + 1) PROVE g[i] = G[i]
      <4>1. CASE i = 0
        BY <3>1, <4>1
      <4>2. CASE i # 0 /\ i <= k
        <5>1. f[i] = NextStop(map, f[i - 1]) /\ i - 1 \in 0..k /\ i - 1 \in 0..(k + 1)
          BY <3>1, <4>2
        <5>2. g[i - 1] = f[i - 1] /\ g[i] = f[i]
          BY <4>2, <5>1
        <5> QED BY <4>2, <5>1, <5>2
      <4>3. CASE i = k + 1
        <5>1. k \in 0..(k + 1) /\ i - 1 = k /\ i # 0 /\ ~(i <= k)
          BY <4>3
        <5>2. g[k] = f[k] /\ g[i] = NextStop(map, f[k])
          BY <5>1
        <5> QED BY <5>1, <5>2
      <4> QED BY <4>1, <4>2, <4>3
    <3>3. g = G
      <4> DEFINE D == 0..(k + 1)
      <4>1. DOMAIN g = D /\ DOMAIN G = D
        OBVIOUS
      <4>2. g = [i \in D |-> g[i]] /\ G = [i \in D |-> G[i]]
        OBVIOUS
      <4> HIDE DEF g, G
      <4> QED BY <3>2, <4>2
    <3>4. g = [i \in 0..(k + 1) |-> IF i = 0 THEN n ELSE NextStop(map, g[i - 1])]
      BY <3>3
    <3> HIDE DEF g
    <3>5. \E h : h = [i \in 0..(k + 1) |-> IF i = 0 THEN n ELSE NextStop(map, h[i - 1])]
      BY <3>4, Zenon
    <3> QED BY <3>5
  <2>3. Nat \subseteq S
    <3> HIDE DEF S
    <3> QED BY <2>1, <2>2, NatSetInduction
  <2> QED BY <2>3, DepthPositive
<1>3. at = F(at)
  <2> HIDE DEF F
  <2> QED BY <1>2
<1>4. \A i \in 0..MaxAliasDepth : at[i] = (IF i = 0 THEN n ELSE NextStop(map, at[i - 1]))
  <2> HIDE DEF at
  <2> QED BY <1>3
<1> HIDE DEF at
<1> QED BY <1>1, <1>4, DepthPositive

\* From a name, a walk comes to names.
LEMMA TrailTyped ==
    ASSUME NEW map \in [Targets -> Opt(Targets)], NEW n \in Targets
    PROVE  \A i \in 0..MaxAliasDepth : Trail(map, n)[i] \in Targets
<1>1. ASSUME NEW x \in Targets PROVE NextStop(map, x) \in Targets
  BY OperatorAssumption DEF NextStop, Taken, Hop, Opt
<1> DEFINE S == {k \in Nat : k <= MaxAliasDepth => Trail(map, n)[k] \in Targets}
<1>2. 0 \in S
  BY TrailHops
<1>3. ASSUME NEW k \in Nat, k \in S PROVE k + 1 \in S
  <2> SUFFICES ASSUME k + 1 <= MaxAliasDepth PROVE Trail(map, n)[k + 1] \in Targets
    OBVIOUS
  <2>1. k + 1 \in 1..MaxAliasDepth /\ (k + 1) - 1 = k /\ k <= MaxAliasDepth
    BY DepthPositive
  <2> QED BY <1>1, <1>3, <2>1, TrailHops
<1>4. Nat \subseteq S
  <2> HIDE DEF S
  <2> QED BY <1>2, <1>3, NatSetInduction
<1> QED BY <1>4, DepthPositive

\* The walk of a name with one hop, to where there is none, ends there and stays.
LEMMA WalkOfOne ==
    ASSUME NEW map, NEW n, NEW t, Hop(map, n) = {t}, Hop(map, t) = {}
    PROVE  Walk(map, n) = t
<1>1. NextStop(map, n) = t /\ NextStop(map, t) = t
  BY DEF NextStop, Taken
<1> DEFINE S == {k \in Nat : k + 1 <= MaxAliasDepth => Trail(map, n)[k + 1] = t}
<1>2. 0 \in S
  BY <1>1, TrailHops, DepthPositive
<1>3. ASSUME NEW k \in Nat, k \in S PROVE k + 1 \in S
  <2> SUFFICES ASSUME k + 2 <= MaxAliasDepth PROVE Trail(map, n)[k + 2] = t
    OBVIOUS
  <2>1. k + 2 \in 1..MaxAliasDepth /\ (k + 2) - 1 = k + 1 /\ k + 1 <= MaxAliasDepth
    BY DepthPositive
  <2> QED BY <1>1, <1>3, <2>1, TrailHops
<1>4. Nat \subseteq S
  <2> HIDE DEF S
  <2> QED BY <1>2, <1>3, NatSetInduction
<1>5. MaxAliasDepth - 1 \in Nat /\ (MaxAliasDepth - 1) + 1 = MaxAliasDepth
  BY DepthPositive
<1> QED BY <1>4, <1>5 DEF Walk

\* An alias that would not cycle leads somewhere once it is in the map: its walk
\* is the target's, one hop behind, and the target's comes to an end a hop early.
LEMMA AcceptedWalk ==
    ASSUME NEW map \in [Targets -> Opt(Targets)], NEW n \in Targets, NEW t \in Targets,
           ~WouldCycle(map, n, t)
    PROVE  LET then == [map EXCEPT ![n] = {t}] IN Hop(then, Walk(then, n)) = {}
<1> DEFINE then == [map EXCEPT ![n] = {t}]
<1>1. /\ \A i \in 0..(MaxAliasDepth - 1) : Trail(map, t)[i] # n
      /\ Hop(map, Trail(map, t)[MaxAliasDepth - 1]) = {}
  BY DEF WouldCycle
<1>2. ASSUME NEW x \in Targets, x # n PROVE Hop(then, x) = Hop(map, x)
  BY <1>2 DEF Hop
<1>3. Hop(then, n) = {t}
  BY DEF Hop
<1> HIDE DEF then
<1>4. ASSUME NEW x \in Targets, x # n PROVE NextStop(then, x) = NextStop(map, x)
  BY <1>2, <1>4 DEF NextStop
<1>5. NextStop(then, n) = t
  BY <1>3 DEF NextStop, Taken
<1> DEFINE S == {k \in Nat : k + 1 <= MaxAliasDepth => Trail(then, n)[k + 1] = Trail(map, t)[k]}
<1>6. 0 \in S
  BY <1>5, TrailHops, DepthPositive
<1>7. ASSUME NEW k \in Nat, k \in S PROVE k + 1 \in S
  <2> SUFFICES ASSUME k + 2 <= MaxAliasDepth PROVE Trail(then, n)[k + 2] = Trail(map, t)[k + 1]
    OBVIOUS
  <2>1. /\ k + 2 \in 1..MaxAliasDepth /\ (k + 2) - 1 = k + 1 /\ k + 1 <= MaxAliasDepth
        /\ k + 1 \in 1..MaxAliasDepth /\ (k + 1) - 1 = k /\ k \in 0..(MaxAliasDepth - 1)
        /\ k \in 0..MaxAliasDepth
    BY DepthPositive
  <2>2. Trail(then, n)[k + 1] = Trail(map, t)[k]
    BY <1>7, <2>1
  <2>3. Trail(map, t)[k] \in Targets /\ Trail(map, t)[k] # n
    BY <1>1, <2>1, TrailTyped
  <2>4. Trail(then, n)[k + 2] = NextStop(then, Trail(then, n)[k + 1])
    BY <2>1, TrailHops
  <2>5. Trail(map, t)[k + 1] = NextStop(map, Trail(map, t)[k])
    BY <2>1, TrailHops
  <2> QED BY <1>4, <2>2, <2>3, <2>4, <2>5
<1>8. Nat \subseteq S
  <2> HIDE DEF S
  <2> QED BY <1>6, <1>7, NatSetInduction
<1>9. MaxAliasDepth - 1 \in Nat /\ (MaxAliasDepth - 1) + 1 = MaxAliasDepth
      /\ MaxAliasDepth - 1 \in 0..(MaxAliasDepth - 1) /\ MaxAliasDepth - 1 \in 0..MaxAliasDepth
  BY DepthPositive
<1>10. Walk(then, n) = Trail(map, t)[MaxAliasDepth - 1]
  BY <1>8, <1>9 DEF Walk
<1>11. Hop(then, Walk(then, n)) = {}
  BY <1>1, <1>2, <1>9, <1>10, TrailTyped
<1> QED BY <1>11 DEF then

-----------------------------------------------------------------------------
(* From the check of an alias to the router that takes it over.            *)

Resolves(map, n) == Hop(map, Walk(map, n)) = {}

\* What the handler of an alias that is alone has: an alias that resolves in
\* the tables, and, as far as it has read them, the tables.
Accepted(h, j) ==
    /\ h.pc \in {"alias_rows", "aliases", "alias_store"} =>
         Resolves(AliasMap(db.rows, db.aliases), j.name)
    /\ h.pc \in {"aliases", "alias_store"} => h.rows = db.rows
    /\ h.pc = "alias_store" => h.aliases = db.aliases

AcceptedTrue ==
    faults = 0 =>
        \A a \in Admins : admin[a].alone = TRUE =>
            \A j \in admin[a].job : j.kind = "alias" => Accepted(admin[a], j)

LEMMA WrittenAliasResolves ==
    ASSUME OperatorTypes, AloneTrue, NEW a \in Admins, WriteAlias(a), admin[a].alone = TRUE,
           NEW j \in admin[a].job, j.kind = "alias"
    PROVE  Resolves(AliasMap(db'.rows, db'.aliases), j.name)
<1>1. admin[a].job = {j} /\ j \in Jobs /\ j.name \in Targets /\ j.target \in Targets
  BY JobOf, JobFields
<1>2. db' = [db EXCEPT !.aliases[j.name] = {j.target}] /\ admin[a].pc = "writing"
  BY <1>1 DEF WriteAlias
<1>3. PICK to \in Opt(Targets) : to = {j.target}
  BY <1>1, OptOfOne
<1>4. /\ db'.aliases = [db.aliases EXCEPT ![j.name] = {j.target}] /\ db'.rows = db.rows
      /\ db.aliases \in [Targets -> Opt(Targets)] /\ db.rows \in [Rows -> RowStates]
      /\ AliasesUnique(db.rows)
  BY <1>1, <1>2, <1>3, AliasFrame DEF OperatorTypes, Tables
<1> DEFINE map == AliasMap(db.rows, db.aliases)
           then == [map EXCEPT ![j.name] = {j.target}]
<1>5. AliasMap(db'.rows, db'.aliases) = then
  <2>1. PICK n \in Targets, t \in Targets, aliases \in [Targets -> Opt(Targets)] :
           n = j.name /\ t = j.target /\ aliases = db.aliases
    BY <1>1, <1>4
  <2>2. AliasMap(db.rows, [aliases EXCEPT ![n] = {t}]) = [AliasMap(db.rows, aliases) EXCEPT ![n] = {t}]
    BY DEF AliasMap
  <2> HIDE DEF map
  <2>3. map = AliasMap(db.rows, aliases)
    BY <2>1 DEF map
  <2> QED BY <1>4, <2>1, <2>2, <2>3
<1>6. ~WouldCycle(map, j.name, j.target)
  BY <1>2, AloneOf DEF AloneHolds
<1>7. map \in [Targets -> Opt(Targets)]
  BY <1>4, AliasMapTyped
<1> HIDE DEF map
<1>8. Hop(then, Walk(then, j.name)) = {}
  BY <1>1, <1>6, <1>7, AcceptedWalk
<1> QED BY <1>5, <1>8 DEF Resolves

\* What an administrator's handler may do once it is entered.
Serves(a) ==
    \/ CheckAlias(a) \/ CatalogRefuses(a)
    \/ WriteRow(a) \/ WriteProvider(a) \/ WriteAlias(a)
    \/ DeleteChain(a) \/ InsertFallback(a) \/ ChainWritten(a)
    \/ ReadRows(a, "alias_rows", "aliases") \/ ReadAliases(a) \/ StoreAliases(a)
    \/ ReadRows(a, "off_rows", "off_providers") \/ ReadProviders(a) \/ StoreOff(a)
    \/ ReadChain(a) \/ StoreChain(a) \/ Dropped(a)

LEMMA OthersStay ==
    ASSUME OperatorTypes, NEW a \in Admins, Serves(a)
    PROVE  admin[a].pc # "idle" /\ \A o \in Admins \ {a} : admin'[o] = admin[o]
<1>1. admin \in [Admins -> Handler]
  BY DEF OperatorTypes
<1>2. CASE CheckAlias(a) \/ CatalogRefuses(a) \/ WriteRow(a) \/ WriteProvider(a) \/ WriteAlias(a)
           \/ DeleteChain(a) \/ InsertFallback(a) \/ ChainWritten(a) \/ Dropped(a)
  BY <1>1, <1>2 DEF CheckAlias, CatalogRefuses, WriteRow, WriteProvider, WriteAlias, DeleteChain,
                    InsertFallback, ChainWritten, Dropped, Goto, End
<1>3. CASE ReadRows(a, "alias_rows", "aliases") \/ ReadAliases(a) \/ StoreAliases(a)
           \/ ReadRows(a, "off_rows", "off_providers") \/ ReadProviders(a) \/ StoreOff(a)
           \/ ReadChain(a) \/ StoreChain(a)
  BY <1>1, <1>3 DEF ReadRows, ReadAliases, StoreAliases, ReadProviders, StoreOff, ReadChain,
                    StoreChain, Done, Goto, End
<1> QED BY <1>2, <1>3 DEF Serves

\* Only its write and the reads of its refresh take the handler of an alias on.
LEMMA RefreshingSteps ==
    ASSUME OperatorTypes, NEW a \in Admins, Serves(a), NEW j \in admin'[a].job, j.kind = "alias",
           admin'[a].pc \in {"alias_rows", "aliases", "alias_store"}
    PROVE  /\ WriteAlias(a) \/ ReadRows(a, "alias_rows", "aliases") \/ ReadAliases(a)
           /\ admin[a].job = admin'[a].job /\ admin[a].alone = admin'[a].alone
<1>1. admin \in [Admins -> Handler] /\ admin[a] \in Handler
  BY DEF OperatorTypes
<1> DEFINE Away == ~(admin'[a].pc \in {"alias_rows", "aliases", "alias_store"})
<1>2. CASE CheckAlias(a) \/ CatalogRefuses(a) \/ DeleteChain(a) \/ InsertFallback(a)
           \/ ChainWritten(a) \/ Dropped(a)
  <2>1. CheckAlias(a) \/ CatalogRefuses(a) \/ DeleteChain(a) \/ ChainWritten(a) \/ Dropped(a) => Away
    BY StagesNamed, GotoMoves, EndMoves
       DEF CheckAlias, CatalogRefuses, DeleteChain, ChainWritten, Dropped, Idle
  <2>2. InsertFallback(a) => Away
    <3>1. InsertFallback(a) => \/ End(a)
                               \/ admin' = [admin EXCEPT ![a].at = @ + 1] /\ admin[a].pc = "inserting"
      BY DEF InsertFallback
    <3>2. End(a) => Away
      BY EndMoves DEF Idle
    <3> QED BY <3>1, <3>2, InsertMoves
  <2> QED BY <1>2, <2>1, <2>2
<1>3. CASE WriteRow(a) \/ WriteProvider(a)
  <2>1. admin'[a].job = admin[a].job \/ admin'[a] = Idle
    BY <1>1, <1>3 DEF WriteRow, WriteProvider, Goto, End, Handler
  <2>2. admin'[a] # Idle
    BY DEF Idle
  <2>3. \A k \in admin[a].job : k = j
    BY <2>1, <2>2, JobOf
  <2> QED BY <1>3, <2>3 DEF WriteRow, WriteProvider, RowKinds, ProviderKinds
<1>4. CASE WriteAlias(a)
  <2>1. Goto(a, "alias_rows") \/ End(a)
    BY <1>4 DEF WriteAlias
  <2>2. ~End(a)
    BY EndMoves DEF Idle
  <2> QED BY <1>4, <2>1, <2>2, StagesNamed, GotoMoves DEF SameJob
<1>5. CASE ReadRows(a, "alias_rows", "aliases") \/ ReadAliases(a)
  BY <1>1, <1>5 DEF ReadRows, ReadAliases, Handler
<1>6. CASE StoreAliases(a) \/ StoreOff(a) \/ ReadChain(a) \/ StoreChain(a)
           \/ ReadRows(a, "off_rows", "off_providers") \/ ReadProviders(a)
  <2>1. StoreAliases(a) \/ StoreOff(a) \/ StoreChain(a) => Away
    BY StagesNamed, GotoMoves, EndMoves DEF StoreAliases, StoreOff, StoreChain, Done, Idle
  <2>2. ReadChain(a) \/ ReadRows(a, "off_rows", "off_providers") \/ ReadProviders(a) => Away
    BY <1>1, EndMoves DEF ReadChain, ReadRows, ReadProviders, Done, Idle, Handler
  <2> QED BY <1>6, <2>1, <2>2
<1> QED BY <1>2, <1>3, <1>4, <1>5, <1>6 DEF Serves

LEMMA ServedKeeps ==
    ASSUME OperatorTypes, AloneTrue, AcceptedTrue, faults = 0, faults' = 0,
           NEW a \in Admins, Serves(a), admin'[a].alone = TRUE,
           NEW j \in admin'[a].job, j.kind = "alias"
    PROVE  Accepted(admin[a], j)'
<1> SUFFICES ASSUME admin'[a].pc \in {"alias_rows", "aliases", "alias_store"}
             PROVE  Accepted(admin[a], j)'
  BY DEF Accepted
<1>1. /\ WriteAlias(a) \/ ReadRows(a, "alias_rows", "aliases") \/ ReadAliases(a)
      /\ j \in admin[a].job /\ admin[a].alone = TRUE
  BY RefreshingSteps
<1>2. Accepted(admin[a], j)
  BY <1>1 DEF AcceptedTrue
<1>3. CASE WriteAlias(a)
  <2>1. Resolves(AliasMap(db'.rows, db'.aliases), j.name)
    BY <1>1, <1>3, WrittenAliasResolves
  <2>2. admin'[a].pc = "alias_rows" \/ admin'[a] = Idle
    BY <1>3, StagesNamed, GotoMoves, EndMoves DEF WriteAlias
  <2> QED BY <2>1, <2>2 DEF Accepted, Idle
<1>4. CASE ReadRows(a, "alias_rows", "aliases")
  <2>1. PICK got \in {db.rows, NoRows} :
           Query(got, db.rows) /\ admin' = [admin EXCEPT ![a].pc = "aliases", ![a].rows = got]
    BY <1>4 DEF ReadRows
  <2>2. got = db.rows /\ UNCHANGED db /\ admin[a].pc = "alias_rows"
    BY <1>4, <2>1, QueryCounts DEF ReadRows
  <2>3. db.rows \in [Rows -> RowStates]
    BY DEF OperatorTypes, Tables
  <2>4. admin'[a].pc = "aliases" /\ admin'[a].rows = db.rows
    <3>1. PICK rows \in [Rows -> RowStates] : rows = db.rows
      BY <2>3
    <3>2. admin' = [admin EXCEPT ![a].pc = "aliases", ![a].rows = rows]
      BY <2>1, <2>2, <3>1
    <3>3. "aliases" \in Stages
      BY StagesNamed
    <3>4. admin'[a].pc = "aliases" /\ admin'[a].rows = rows
      BY <3>2, <3>3, RowsMove
    <3> QED BY <3>1, <3>4
  <2> QED BY <1>2, <2>2, <2>4 DEF Accepted
<1>5. CASE ReadAliases(a)
  <2>1. PICK got \in {db.aliases, NoAliases} :
           Query(got, db.aliases) /\ admin' = [admin EXCEPT ![a].pc = "alias_store", ![a].aliases = got]
    BY <1>5 DEF ReadAliases
  <2>2. got = db.aliases /\ UNCHANGED db /\ admin[a].pc = "aliases"
    BY <1>5, <2>1, QueryCounts DEF ReadAliases
  <2>3. db.aliases \in [Targets -> Opt(Targets)]
    BY DEF OperatorTypes, Tables
  <2>4. admin'[a].pc = "alias_store" /\ admin'[a].aliases = db.aliases /\ admin'[a].rows = admin[a].rows
    BY <2>1, <2>2, <2>3, AliasesMove
  <2> QED BY <1>2, <2>2, <2>4 DEF Accepted
<1> QED BY <1>1, <1>3, <1>4, <1>5

LEMMA OperateAccepts ==
    ASSUME OperatorTypes, AloneTrue, AcceptedTrue, faults = 0, faults' = 0, Operate
    PROVE  AcceptedTrue'
<1> SUFFICES ASSUME NEW b \in Admins, admin'[b].alone = TRUE, NEW j \in admin'[b].job, j.kind = "alias"
             PROVE  Accepted(admin[b], j)'
  BY DEF AcceptedTrue
<1>1. ASSUME NEW a \in Admins, NEW k \in Jobs, Begin(a, k) PROVE Accepted(admin[b], j)'
  <2>1. CASE b = a
    <3>1. admin'[b].pc \in {"checking", "writing"}
      BY <1>1, <2>1, BeginMoves
    <3> QED BY <3>1 DEF Accepted
  <2>2. CASE b # a
    <3>1. admin'[b] = Met(b)
      BY <1>1, <2>2, BeginMoves
    <3>2. Met(b).alone = FALSE
      BY MetFields
    <3> QED BY <3>1, <3>2
  <2> QED BY <2>1, <2>2
<1>2. ASSUME NEW a \in Admins, Serves(a) PROVE Accepted(admin[b], j)'
  <2>1. CASE b = a
    BY <1>2, <2>1, ServedKeeps
  <2>2. CASE b # a
    <3>1. admin[a].pc # "idle" /\ admin'[b] = admin[b]
      BY <1>2, <2>2, OthersStay
    <3>2. admin[b].pc = "idle"
      BY <2>2, <3>1 DEF AloneTrue
    <3> QED BY <3>1, <3>2 DEF Accepted
  <2> QED BY <2>1, <2>2
<1> QED BY <1>1, <1>2 DEF Operate, Serves

LEMMA StepsAccept ==
    ASSUME RoutingInv, RoutingInv', AcceptedTrue, [Next]_routingVars
    PROVE  AcceptedTrue'
<1> SUFFICES ASSUME faults' = 0 PROVE AcceptedTrue'
  BY DEF AcceptedTrue
<1>1. OperatorTypes
  BY DEF RoutingInv, OperatorInv
<1>2. CASE Operate
  <2>1. faults = 0
    BY <1>1, <1>2, FaultsStay
  <2> QED BY <1>1, <1>2, <2>1, OperateAccepts DEF RoutingInv, OperatorInv
<1>3. CASE Restart
  BY <1>3 DEF Restart, Idle, AcceptedTrue
<1>4. CASE UNCHANGED operatorVars
  BY <1>4 DEF operatorVars, AcceptedTrue, Accepted
<1> QED BY <1>2, <1>3, <1>4, RouteLeavesOperator DEF Next, OperatorStep, RestartStep, routingVars

LEMMA InitAccepts == RoutingInit => AcceptedTrue
BY DEF RoutingInit, OperatorInit, Idle, AcceptedTrue, Accepted

\* What is settled anew is a handler's that is done.
LEMMA SettlingSteps ==
    ASSUME OperatorTypes, Operate \/ Restart \/ UNCHANGED operatorVars,
           NEW j \in settled' \ settled, j.kind = "alias"
    PROVE  \E a \in Admins : StoreAliases(a) /\ admin[a].alone = TRUE /\ j \in admin[a].job
<1>1. CASE Restart \/ UNCHANGED operatorVars
  BY <1>1 DEF Restart, operatorVars
<1>2. ASSUME NEW a \in Admins, NEW k \in Jobs, Begin(a, k) PROVE FALSE
  BY <1>2 DEF Begin
<1>3. ASSUME NEW a \in Admins,
             CheckAlias(a) \/ CatalogRefuses(a) \/ WriteRow(a) \/ WriteProvider(a) \/ WriteAlias(a)
             \/ DeleteChain(a) \/ InsertFallback(a) \/ ChainWritten(a) \/ Dropped(a)
             \/ ReadRows(a, "alias_rows", "aliases") \/ ReadAliases(a)
             \/ ReadRows(a, "off_rows", "off_providers") \/ ReadProviders(a)
      PROVE  FALSE
  <2>1. UNCHANGED settled \/ \E k : Unsettle(k)
    BY <1>3 DEF CheckAlias, CatalogRefuses, WriteRow, WriteProvider, WriteAlias, DeleteChain,
                InsertFallback, ChainWritten, Dropped, ReadRows, ReadAliases, ReadProviders
  <2> QED BY <2>1 DEF Unsettle
<1>4. ASSUME NEW a \in Admins, StoreAliases(a) \/ StoreOff(a) \/ ReadChain(a) \/ StoreChain(a)
      PROVE  StoreAliases(a) /\ admin[a].alone = TRUE /\ j \in admin[a].job
  <2>1. Done(a)
    BY <1>4 DEF StoreAliases, StoreOff, ReadChain, StoreChain
  <2>2. j \in admin[a].job /\ admin[a].alone = TRUE
    <3>1. admin[a].alone \in BOOLEAN
      BY DEF OperatorTypes, Handler
    <3> QED BY <2>1, <3>1 DEF Done
  <2>3. Fits(admin[a].pc, j)
    BY <2>2, JobOf
  <2> QED BY <1>4, <2>2, <2>3 DEF Fits, RefreshesState, ProviderKinds, StoreOff, ReadChain, StoreChain
<1> QED BY <1>1, <1>2, <1>3, <1>4 DEF Operate

LEMMA AcceptedSteps ==
    ASSUME RoutingInv, AcceptedTrue, faults = 0, [Next]_routingVars,
           NEW j \in settled' \ settled, j.kind = "alias"
    PROVE  Hop(live'.aliases, Walk(live'.aliases, j.name)) = {}
<1>1. OperatorTypes
  BY DEF RoutingInv, OperatorInv
<1>2. Operate \/ Restart \/ UNCHANGED operatorVars
  BY RouteLeavesOperator DEF Next, OperatorStep, RestartStep, routingVars
<1>3. PICK a \in Admins : StoreAliases(a) /\ admin[a].alone = TRUE /\ j \in admin[a].job
  BY <1>1, <1>2, SettlingSteps
<1>4. admin[a].pc = "alias_store" /\ live'.aliases = AliasMap(admin[a].rows, admin[a].aliases)
  BY <1>1, <1>3, LiveNow DEF StoreAliases
<1>5. Accepted(admin[a], j)
  BY <1>3 DEF AcceptedTrue
<1> QED BY <1>4, <1>5 DEF Accepted, Resolves

\* An alias that an administrator who met no other wrote leads somewhere in the
\* router that takes it over, whatever aliases the tables and the configuration
\* hold, and whatever the depth, as long as the queries answer.
THEOREM AcceptedAliasesResolve ==
    ASSUME MaxFaults = 0
    PROVE  Spec => AcceptedAliasResolves
<1>1. RoutingInv /\ RoutingInv' /\ AcceptedTrue /\ [Next]_routingVars => AcceptedTrue'
  BY StepsAccept
<1>2. RoutingInv /\ AcceptedTrue /\ [Next]_routingVars =>
        [\A j \in settled' \ settled :
            j.kind = "alias" => Hop(live'.aliases, Walk(live'.aliases, j.name)) = {}]_operatorVars
  BY AcceptedSteps, NoFaults
<1> QED BY <1>1, <1>2, InitAccepts, RoutingInvariant, PTL DEF Spec, AcceptedAliasResolves

-----------------------------------------------------------------------------
(* A request that names a settled alias.                                   *)

LEMMA ResolvingSteps ==
    ASSUME RequestTypes, [Next]_routingVars, NEW r \in Requests,
           req[r].pc = "resolve", req'[r].pc = "affinity"
    PROVE  Resolve(r)
<1>1. req \in [Requests -> Request]
  BY DEF RequestTypes
<1>2. req' # req
  OBVIOUS
<1>3. ASSUME OperatorStep PROVE FALSE
  BY <1>1, <1>3 DEF OperatorStep
<1>4. ASSUME RestartStep PROVE FALSE
  BY <1>1, <1>4, NewTyped DEF RestartStep
<1>5. ASSUME NEW q \in Requests \ {r}, Route(q) PROVE FALSE
  <2>1. CASE Draw(q)
    <3>1. \A o \in Requests : Overtaken(q)[o].pc = req[o].pc
      BY <1>1 DEF Overtaken, Request
    <3>2. req'[r].pc = Overtaken(q)[r].pc
      BY <2>1 DEF Draw, Overtaken
    <3> QED BY <3>1, <3>2
  <2>2. CASE RefusePool(q) \/ Guard(q) \/ CheckAvailable(q)
    BY <1>1, <2>2 DEF RefusePool, Guard, CheckAvailable, Finish, Move
  <2>3. CASE Resolve(q) \/ GetPin(q) \/ RemovePin(q) \/ SetPin(q)
    BY <1>1, <2>3 DEF Resolve, GetPin, RemovePin, SetPin, Move
  <2>4. CASE \E name \in Asks : \E session \in SessionIds : Arrive(q, name, session)
    BY <1>1, <2>4 DEF Arrive
  <2> QED BY <1>5, <2>1, <2>2, <2>3, <2>4 DEF Route
<1>6. ASSUME Route(r) PROVE Resolve(r)
  BY <1>6 DEF Route, Arrive, Draw, RefusePool, Guard, GetPin, RemovePin, SetPin, CheckAvailable
<1>7. ASSUME (\E s \in Sessions : Expire(s)) \/ EvictExpired PROVE FALSE
  BY <1>2, <1>7 DEF Expire, EvictExpired
<1>8. ASSUME UNCHANGED routingVars PROVE FALSE
  BY <1>2, <1>8 DEF routingVars
<1> QED BY <1>3, <1>4, <1>5, <1>6, <1>7, <1>8 DEF Next

LEMMA ResolveSteps ==
    ASSUME RoutingInv, faults = 0, [Next]_routingVars, NEW r \in Requests,
           req[r].pc = "resolve", req'[r].pc = "affinity",
           NEW j \in settled, j.kind = "alias", {j.name} = req[r].asked, j.target \in Models,
           Hop(live.aliases, j.target) = {}
    PROVE  req'[r].at = {j.target}
<1>1. Resolve(r) /\ req \in [Requests -> Request]
  BY ResolvingSteps DEF RoutingInv, RequestTypes
<1>2. live.aliases[j.name] = {j.target}
  BY SettledHoldNow DEF SettledWritesHold, TookEffect
<1>4. Hop(live.aliases, j.name) = {j.target}
  BY <1>2 DEF Hop
<1>5. Walk(live.aliases, j.name) = j.target
  BY <1>4, WalkOfOne
<1> DEFINE to(name) == IF Substituted(Walk(live.aliases, name)) THEN DefaultModel
                       ELSE Walk(live.aliases, name)
<1>6. PICK name \in req[r].asked :
         req' = [req EXCEPT ![r].pc = "affinity", ![r].at = {to(name)}]
  BY <1>1 DEF Resolve
<1>7. name = j.name
  OBVIOUS
<1>8. to(name) = j.target
  BY <1>5, <1>7 DEF Substituted
<1> HIDE DEF to
<1> QED BY <1>1, <1>6, <1>8 DEF Request

\* A request that names a settled alias of a model that is no alias itself goes
\* to that model, whatever rows and configuration give the name, and whether or
\* not it is a model's id, as long as refreshes read their tables.
THEOREM SettledAliasesAreFollowed ==
    ASSUME MaxFaults = 0
    PROVE  Spec => SettledAliasFollowed
<1>1. RoutingInv /\ [Next]_routingVars =>
        [\A r \in Requests :
            req[r].pc = "resolve" /\ req'[r].pc = "affinity" =>
                \A j \in settled :
                    j.kind = "alias" /\ {j.name} = req[r].asked /\ j.target \in Models
                    /\ Hop(live.aliases, j.target) = {} =>
                        req'[r].at = {j.target}]_routingVars
  BY ResolveSteps, NoFaults
<1> QED BY <1>1, RoutingInvariant, PTL DEF Spec, SettledAliasFollowed
=============================================================================
