------------------------------ MODULE Routing ------------------------------
(***************************************************************************)
(* How a request finds its provider and model: a draw from a load balancer *)
(* pool or a walk of the aliases, the session's pin, and the gate that     *)
(* keeps what an administrator disabled from being called, while Operator  *)
(* writes and refreshes what all of these look at.                         *)
(*                                                                         *)
(* The router's snapshots are swapped whole, and a request loads them anew *)
(* at every look.                                                          *)
(***************************************************************************)
EXTENDS Operator

CONSTANTS
    Requests, Sessions, Pools,
    Ring,           \* pool -> its entries, repeated by their weights
    Asks,           \* what a request may name as its model, and
    SessionIds,     \* as its session_id, if any
    Strict,         \* routing.strict_model_resolution
    DefaultModel

VARIABLES
    req,            \* request -> its handler
    counter,        \* pool -> Pool::counter, modulo its ring
    pins            \* SessionAffinityMap::map

routingVars == <<operatorVars, req, counter, pins>>

ASSUME RoutingAssumption ==
    /\ Ring \in [Pools -> Seq(Models)]
    /\ Asks \subseteq Pools \cup Targets
    /\ SessionIds \subseteq Opt(Sessions)
    /\ Strict \in BOOLEAN /\ DefaultModel \in Models

RequestStages == {"new", "pool", "guard", "resolve", "affinity", "unpin", "pin", "gate",
                  "sent", "refused"}

Request == [pc : RequestStages, asked : Opt(Asks), session : Opt(Sessions),
            at : Opt(Models),       \* what it resolved to
            draws : Nat,
            alone : BOOLEAN,        \* nobody drew, and no disable changed, meanwhile
            pin : Opt(Models)]      \* the pin it found

Pin == [model : Models, fresh : BOOLEAN]

NewRequest == [pc |-> "new", asked |-> {}, session |-> {}, at |-> {}, draws |-> 0,
               alone |-> FALSE, pin |-> {}]

Move(r, pc) == req' = [req EXCEPT ![r].pc = pc]
Finish(r, pc) == req' = [req EXCEPT ![r] = [NewRequest EXCEPT !.pc = pc]]

Arrive(r, name, session) ==
    /\ req[r].pc = "new"
    /\ req' = [req EXCEPT ![r].pc = IF name \in Pools THEN "pool" ELSE "guard",
                          ![r].asked = {name}, ![r].session = session,
                          ![r].alone = name \in Pools]
    /\ UNCHANGED <<operatorVars, counter, pins>>

-----------------------------------------------------------------------------
(* Pools.                                                                  *)

\* The others that scan the same pool have been drawn past.
Overtaken(r) ==
    [o \in Requests |-> IF o # r /\ req[o].asked = req[r].asked THEN [req[o] EXCEPT !.alone = FALSE]
                        ELSE req[o]]

\* Mutant: a scan stops one entry early.
ScanIsOverEarly(r, pool) == req[r].draws + 1 >= Len(Ring[pool])

\* next_where looks at one cycle of the ring, wherever its draws fall.
ScanIsOver(r, pool) == req[r].draws >= Len(Ring[pool])

Draw(r) ==
    /\ req[r].pc = "pool"
    /\ \E pool \in req[r].asked : LET candidate == Ring[pool][counter[pool] + 1] IN
          /\ ~ScanIsOver(r, pool)
          /\ counter' = [counter EXCEPT ![pool] = (@ + 1) % Len(Ring[pool])]
          /\ req' = IF IsOff(live.off, candidate)
                    THEN [Overtaken(r) EXCEPT ![r].draws = @ + 1]
                    ELSE [Overtaken(r) EXCEPT ![r].pc = "affinity", ![r].at = {candidate},
                                            ![r].draws = 0, ![r].alone = FALSE]
    /\ UNCHANGED <<operatorVars, pins>>

\* "every model in load balancer pool has been disabled by an administrator".
RefusePool(r) ==
    /\ req[r].pc = "pool" /\ \E pool \in req[r].asked : ScanIsOver(r, pool)
    /\ Finish(r, "refused")
    /\ UNCHANGED <<operatorVars, counter, pins>>

-----------------------------------------------------------------------------
(* Aliases: guard_model_substitution walks them, and resolve does it again. *)

Substituted(dest) == dest \notin Models

Guard(r) ==
    /\ req[r].pc = "guard"
    /\ \E name \in req[r].asked :
          IF Strict /\ Substituted(Walk(live.aliases, name))
          THEN Finish(r, "refused") ELSE Move(r, "resolve")
    /\ UNCHANGED <<operatorVars, counter, pins>>

Resolve(r) ==
    /\ req[r].pc = "resolve"
    /\ \E name \in req[r].asked : LET dest == Walk(live.aliases, name) IN
          req' = [req EXCEPT ![r].pc = "affinity",
                            ![r].at = {IF Substituted(dest) THEN DefaultModel ELSE dest}]
    /\ UNCHANGED <<operatorVars, counter, pins>>

-----------------------------------------------------------------------------
(* Session affinity.                                                       *)

\* SessionAffinityMap::get.  A pin that has expired is removed after its lock
\* is let go of; X-Session-Lb leaves the map alone.
GetPin(r) ==
    /\ req[r].pc = "affinity"
    /\ \/ req[r].session = {} /\ Move(r, "gate") /\ UNCHANGED pins
       \/ req[r].session # {} /\ Move(r, "pin") /\ UNCHANGED pins
       \/ \E s \in req[r].session : \E pin \in pins[s] :
             IF pin.fresh
             THEN req' = [req EXCEPT ![r].pc = "pin", ![r].pin = {pin.model}]
             ELSE Move(r, "unpin")
    /\ UNCHANGED <<operatorVars, counter, pins>>

RemovePin(r) ==
    /\ req[r].pc = "unpin"
    /\ \E s \in req[r].session : pins' = [pins EXCEPT ![s] = {}]
    /\ Move(r, "pin")
    /\ UNCHANGED <<operatorVars, counter>>

\* resolve_with_pin: without a pin, with a pin on the same provider, with one on
\* another, what was resolved goes on, and becomes the pin.
ResolveWithPin(pin, resolved) == resolved

SetPin(r) ==
    /\ req[r].pc = "pin"
    /\ \E s \in req[r].session : \E m \in req[r].at :
          LET chosen == ResolveWithPin(req[r].pin, m)
          IN  /\ pins' = [pins EXCEPT ![s] = {[model |-> chosen, fresh |-> TRUE]}]
              /\ req' = [req EXCEPT ![r].pc = "gate", ![r].at = {chosen}]
    /\ UNCHANGED <<operatorVars, counter>>

\* The time to live passes, unless a request renewed it; the sweeper removes.
Expire(s) ==
    /\ \E pin \in pins[s] : pins' = [pins EXCEPT ![s] = {[pin EXCEPT !.fresh = FALSE]}]
    /\ UNCHANGED <<operatorVars, req, counter>>

EvictExpired ==
    /\ pins' = [s \in Sessions |-> {pin \in pins[s] : pin.fresh}]
    /\ UNCHANGED <<operatorVars, req, counter>>

-----------------------------------------------------------------------------
(* The gate, ahead of the cache, the breaker and the provider.             *)

\* Mutant: the gate looks at what was asked for.
GateOnAsked(r) ==
    /\ req[r].pc = "gate"
    /\ Finish(r, IF \E m \in req[r].asked \cap Models : IsOff(live.off, m) THEN "refused" ELSE "sent")
    /\ UNCHANGED <<operatorVars, counter, pins>>

CheckAvailable(r) ==
    /\ req[r].pc = "gate"
    /\ Finish(r, IF \E m \in req[r].at : IsOff(live.off, m) THEN "refused" ELSE "sent")
    /\ UNCHANGED <<operatorVars, counter, pins>>

-----------------------------------------------------------------------------
RoutingInit ==
    /\ OperatorInit
    /\ req = [r \in Requests |-> NewRequest]
    /\ counter = [p \in Pools |-> 0]
    /\ pins = [s \in Sessions |-> {}]

\* A snapshot stored under a scan makes its answer nobody's fault.
OperatorStep ==
    /\ Operate
    /\ req' = IF live'.off = live.off THEN req
              ELSE [r \in Requests |-> [req[r] EXCEPT !.alone = FALSE]]
    /\ UNCHANGED <<counter, pins>>

\* Requests in flight end with the process, and the pools start over.
RestartStep ==
    /\ Restart
    /\ req' = [r \in Requests |-> IF req[r].pc \in {"new", "sent", "refused"} THEN req[r]
                                  ELSE NewRequest]
    /\ counter' = [p \in Pools |-> 0]
    /\ pins' = [s \in Sessions |-> {}]

Route(r) ==
    \/ (\E name \in Asks : \E session \in SessionIds : Arrive(r, name, session))
    \/ Draw(r) \/ RefusePool(r) \/ Guard(r) \/ Resolve(r)
    \/ GetPin(r) \/ RemovePin(r) \/ SetPin(r) \/ CheckAvailable(r)

Next ==
    \/ \E r \in Requests : Route(r)
    \/ \E s \in Sessions : Expire(s)
    \/ EvictExpired
    \/ OperatorStep \/ RestartStep

Spec == RoutingInit /\ [][Next]_routingVars

-----------------------------------------------------------------------------
(* Properties.                                                             *)

TypeOK ==
    /\ OperatorTypeOK
    /\ req \in [Requests -> Request]
    /\ \A p \in Pools : counter[p] \in 0..Len(Ring[p])
    /\ pins \in [Sessions -> Opt(Pin)]

\* Whatever name led a request there, by alias, pool or pin, a model or
\* provider whose disable was settled when the request came to the gate is not
\* called (completions.rs; README.md: "excluded everywhere it could be reached").
Disables(j, m) == \/ j.kind = "disable" /\ ModelOf[j.row] = m
                  \/ j.kind = "provider_off" /\ j.provider = ProviderOf[m]

DisabledNotCalled ==
    [][\A r \in Requests :
        req[r].pc = "gate" /\ req'[r].pc = "sent" =>
            ~\E m \in req[r].at : \E j \in settled : Disables(j, m)]_routingVars

\* A scan that no other request and no refresh came into says "every model is
\* disabled" of a pool only when that is so (next_where, README.md:1261).
PoolRefusalEarned ==
    [][\A r \in Requests :
        req[r].pc = "pool" /\ req'[r].pc = "refused" /\ req[r].alone =>
            \A pool \in req[r].asked : \A i \in DOMAIN Ring[pool] :
                IsOff(live.off, Ring[pool][i])]_routingVars

\* A request that names a settled alias goes to the alias's model, as long as
\* that is not an alias itself, whatever alias of that name rows and
\* configuration hold, and if it is a model's id (resolve_inner).
SettledAliasFollowed ==
    [][\A r \in Requests :
        req[r].pc = "resolve" /\ req'[r].pc = "affinity" =>
            \A j \in settled :
                j.kind = "alias" /\ {j.name} = req[r].asked /\ j.target \in Models
                    /\ Hop(live.aliases, j.target) = {} =>
                        req'[r].at = {j.target}]_routingVars

\* README.md:61: every subsequent request of a session goes to the provider its
\* pin names, even if a pool is asked for.
SessionStays ==
    \A r \in Requests :
        req[r].pc = "gate" /\ req[r].asked \subseteq Pools =>
            \A m \in req[r].at : \A pinned \in req[r].pin :
                ProviderOf[m] = ProviderOf[pinned]
=============================================================================
