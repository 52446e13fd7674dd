------------------------ MODULE LearnedCapabilities ------------------------
(***************************************************************************)
(* What the router learns when a provider rejects `temperature`: a live    *)
(* set that requests consult as they are built, the table it is stored in  *)
(* and loaded from at start-up, and the administrator who clears entries.  *)
(*                                                                         *)
(* A request of /v1/chat/completions (plain or streamed) or /v1/responses  *)
(* takes the same steps; only the plain chat is built anew by a retry.     *)
(***************************************************************************)
EXTENDS FiniteSets, Naturals

CONSTANTS
    Models,         \* model ids as routed
    KeyOf,          \* id -> the key it is learned under (learned_key)
    Configured,     \* id -> {} or {whether temperature is supported}
    Unsupported,    \* ids the built-in table says reject it
    Requests, Admins,
    MaxActs,        \* deletions, restarts and changes of mind of providers
    MaxFaults       \* queries that fail

ASSUME LearnedAssumption ==
    /\ Models # {}
    /\ DOMAIN KeyOf = Models
    /\ MaxActs \in Nat /\ MaxFaults \in Nat

VARIABLES
    live,           \* keys of LearnedCapabilities.entries
    stored,         \* keys in learned_model_capabilities
    req, admin,
    rejects,        \* ids whose provider rejects every temperature
    unsaved,        \* keys learned or cleared by half: a write failed, or its
                    \* handler was dropped in between
    acts, faults

vars == <<live, stored, req, admin, rejects, unsaved, acts, faults>>

Keys == {KeyOf[m] : m \in Models}

\* A caller's request with a temperature, odd if out of range; temp: the one on the
\* wire carries it.
Request == [pc : {"idle", "sent", "persist", "again"}, model : Models,
            odd : BOOLEAN, temp : BOOLEAN]

\* A deletion between its two steps.  alone (history): no rejection of the model has
\* been on its way to the table since the row was deleted.
NoClear == {}
Clear == [model : Models, alone : BOOLEAN]

TypeOK ==
    /\ live \subseteq Keys /\ stored \subseteq Keys /\ unsaved \subseteq Keys
    /\ req \in [Requests -> Request]
    /\ admin \in [Admins -> {NoClear} \cup {{c} : c \in Clear}]
    /\ rejects \subseteq Models
    /\ acts \in 0..MaxActs /\ faults \in 0..MaxFaults

-----------------------------------------------------------------------------
(* What is sent. *)

\* Mutant: the table is asked before what was learned.
AllowedByTable(m) == IF Configured[m] # {} THEN TRUE \in Configured[m]
                     ELSE m \notin Unsupported

\* temperature_allowed: configuration, then what was learned, then the table.
Allowed(m) == IF Configured[m] # {} THEN TRUE \in Configured[m]
              ELSE KeyOf[m] \notin live /\ m \notin Unsupported

Built(m, odd) == [pc |-> "sent", model |-> m, odd |-> odd, temp |-> Allowed(m)]

Begin(r) ==
    /\ req[r].pc = "idle"
    /\ \E m \in Models, odd \in BOOLEAN : req' = [req EXCEPT ![r] = Built(m, odd)]
    /\ UNCHANGED <<live, stored, admin, rejects, unsaved, acts, faults>>

Idle == [pc |-> "idle", model |-> CHOOSE m \in Models : TRUE, odd |-> FALSE, temp |-> FALSE]

\* A client error that names the parameter, for its value or its presence.
MayReject(q) == q.temp /\ (q.odd \/ q.model \in rejects)

Crossed(k) == [a \in Admins |-> {[c EXCEPT !.alone = @ /\ KeyOf[c.model] # k]
                                    : c \in admin[a]}]

\* temperature_rejection_retry and learn_temperature_rejected.
Rejected(r) ==
    LET k == KeyOf[req[r].model]
    IN /\ req[r].pc = "sent" /\ MayReject(req[r])
       /\ live' = live \cup {k}
       /\ req' = [req EXCEPT ![r].pc = IF k \in live THEN "again" ELSE "persist",
                             ![r].temp = FALSE]
       /\ admin' = IF k \in live THEN admin ELSE Crossed(k)
       /\ UNCHANGED <<stored, rejects, unsaved, acts, faults>>

\* upsert_learned_capability; when it fails the entry still applies.
Persist(r) ==
    LET k == KeyOf[req[r].model]
    IN /\ req[r].pc = "persist" /\ req' = [req EXCEPT ![r].pc = "again"]
       /\ \/ stored' = stored \cup {k} /\ UNCHANGED <<unsaved, faults>>
          \/ /\ faults < MaxFaults /\ faults' = faults + 1
             /\ unsaved' = unsaved \cup {k} /\ stored' = stored
       /\ UNCHANGED <<live, admin, rejects, acts>>

\* The call succeeds or fails for good; or it failed and is built and sent anew.
Settles(r) ==
    /\ req[r].pc \in {"sent", "again"}
    /\ \/ req' = [req EXCEPT ![r] = Idle]
       \/ req' = [req EXCEPT ![r] = Built(@.model, @.odd)]
    /\ UNCHANGED <<live, stored, admin, rejects, unsaved, acts, faults>>

\* The client leaves; a write it was waiting for may have been made or not.
Leaves(r) ==
    LET k == KeyOf[req[r].model]
    IN /\ req[r].pc # "idle" /\ req' = [req EXCEPT ![r] = Idle]
       /\ IF req[r].pc = "persist"
          THEN \/ stored' = stored \cup {k} /\ unsaved' = unsaved
               \/ unsaved' = unsaved \cup {k} /\ stored' = stored
          ELSE UNCHANGED <<stored, unsaved>>
       /\ UNCHANGED <<live, admin, rejects, acts, faults>>

-----------------------------------------------------------------------------
(* DELETE /admin/api/model-capabilities/learned/:model. *)

\* Mutant: the path is taken as it was typed.
KeyAsTyped(m) == m
KeyToClear(m) == KeyOf[m]

\* Mutant: the live entry first, then the row.
DeletedSwapped(step, k) == IF step = 2 THEN stored' = stored \ {k} /\ live' = live
                           ELSE live' = live \ {k} /\ stored' = stored
\* First the row, then the live entry.
Deleted(step, k) == IF step = 1 THEN stored' = stored \ {k} /\ live' = live
                    ELSE live' = live \ {k} /\ stored' = stored

Writing(k) == \E r \in Requests : req[r].pc = "persist" /\ KeyOf[req[r].model] = k

Delete(a, m) ==
    /\ admin[a] = NoClear /\ acts < MaxActs /\ acts' = acts + 1
    /\ Deleted(1, KeyToClear(m))
    /\ admin' = [admin EXCEPT ![a] = {[model |-> m, alone |-> ~Writing(KeyOf[m])]}]
    /\ UNCHANGED <<req, rejects, unsaved, faults>>

DeleteLive(a) ==
    /\ \E c \in admin[a] : Deleted(2, KeyToClear(c.model))
    /\ admin' = [admin EXCEPT ![a] = NoClear]
    /\ UNCHANGED <<req, rejects, unsaved, acts, faults>>

\* The administrator leaves between the two.
AdminLeaves(a) ==
    /\ admin[a] # NoClear /\ admin' = [admin EXCEPT ![a] = NoClear]
    /\ unsaved' = unsaved \cup {KeyOf[c.model] : c \in admin[a]}
    /\ UNCHANGED <<live, stored, req, rejects, acts, faults>>

-----------------------------------------------------------------------------
(* The process and the providers. *)

\* load_learned_capabilities: replace_all, or nothing when the list is unreadable.
Restart ==
    /\ acts < MaxActs /\ acts' = acts + 1
    /\ \/ live' = stored /\ faults' = faults
       \/ live' = {} /\ faults < MaxFaults /\ faults' = faults + 1
    /\ req' = [r \in Requests |-> Idle]
    /\ admin' = [a \in Admins |-> NoClear]
    /\ unsaved' = {}
    /\ UNCHANGED <<stored, rejects>>

\* A provider drops or restores support.
ChangesMind(m) ==
    /\ acts < MaxActs /\ acts' = acts + 1
    /\ rejects' = IF m \in rejects THEN rejects \ {m} ELSE rejects \cup {m}
    /\ UNCHANGED <<live, stored, req, admin, unsaved, faults>>

Init ==
    /\ rejects \in SUBSET Models
    /\ stored \in SUBSET Keys /\ live = stored
    /\ req = [r \in Requests |-> Idle]
    /\ admin = [a \in Admins |-> NoClear]
    /\ unsaved = {} /\ acts = 0 /\ faults = 0

Next == \/ \E r \in Requests : Begin(r) \/ Rejected(r) \/ Persist(r)
                               \/ Settles(r) \/ Leaves(r)
        \/ \E a \in Admins : DeleteLive(a) \/ AdminLeaves(a)
                             \/ \E m \in Models : Delete(a, m)
        \/ Restart
        \/ \E m \in Models : ChangesMind(m)

Spec == Init /\ [][Next]_vars

-----------------------------------------------------------------------------
(* Properties. *)

Clearing(k) == \E a \in Admins : \E c \in admin[a] : KeyOf[c.model] = k

\* What is in force is in the table too, or somebody is about to write or clear it,
\* or a write of it failed: rejections, deletions by several administrators and a
\* restart may interleave as they like, and nothing learned is lost by the restart
\* (learned_capabilities.rs:131-161, admin/learned_capabilities.rs:49-57).
LiveIsStored ==
    \A k \in live : k \in stored \cup unsaved \/ Writing(k) \/ Clearing(k)

\* A deletion that nobody crossed with a rejection of the same model has removed the
\* entry from both places when it is done, by whichever of its names the model was
\* given, and whatever other administrators and restarts do meanwhile.
ClearHolds ==
    [][\A a \in Admins : \A c \in admin[a] :
         c.alone /\ DeleteLive(a) => KeyOf[c.model] \notin live' \cup stored']_vars

\* "From then on the parameter is never sent to that model": once administrators,
\* providers and the process leave it alone, no model is rejected again and again;
\* excepted are models whose configuration says the parameter is supported.
RejectionsRunOut ==
    <>[][\A r \in Requests :
           req[r].pc = "sent" /\ MayReject(req[r]) /\ Configured[req[r].model] = {}
               => ~Rejected(r)]_vars
=============================================================================
