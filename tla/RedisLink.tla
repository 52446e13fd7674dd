----------------------------- MODULE RedisLink -----------------------------
(***************************************************************************)
(* The one connection of the Redis cache store (RedisStore of              *)
(* router/cache/store.rs): an optional connection behind an asynchronous   *)
(* read-write lock, dialled again by whichever cache operation finds none, *)
(* dropped by whichever operation fails on it, and a gate that spaces the  *)
(* dials once one has failed.                                              *)
(*                                                                         *)
(* An operation gets a clone of the connection and keeps using it whatever *)
(* happens to the one that is held.  What the gate remembers only to write *)
(* its log lines is left out.                                              *)
(***************************************************************************)
EXTENDS Naturals

CONSTANTS
    Tasks,              \* whoever uses the cache
    Nobody,             \* not a task
    Cooldown            \* REDIS_RETRY_COOLDOWN, in ticks

ASSUME LinkAssumption == Nobody \notin Tasks /\ Cooldown \in Nat \ {0}

VARIABLES
    server,             \* Redis: "up", "busy" (may not answer in time), "down"
    held,               \* RedisStore::conn
    writer,             \* the task inside its write lock
    wait,               \* ReconnectGate::retry_after, as the time left
    quiet,              \* history: the time left of Cooldown since a dial failed
    at,                 \* task -> where it is in the code of the link
    conn                \* task -> its clone of the connection

linkVars == <<server, held, writer, wait, quiet, at, conn>>

Places == {"away", "read", "try", "dial", "using", "drop", "note"}
Connections == {"none", "sound", "dead"}

LinkTypeOK ==
    /\ server \in {"up", "busy", "down"}
    /\ held \in Connections /\ (held = "sound" => server # "down")
    /\ wait \in 0..Cooldown /\ quiet \in 0..Cooldown
    /\ at \in [Tasks -> Places]
    /\ conn \in [Tasks -> Connections]
    /\ \A t \in Tasks : (conn[t] # "none") = (at[t] = "using")
    /\ writer \in Tasks \cup {Nobody}
    /\ \A t \in Tasks : (writer = t) = (at[t] = "dial")

LinkInit ==
    /\ server \in {"up", "down"}
    /\ held = "none" /\ writer = Nobody
    /\ wait = 0 /\ quiet = 0
    /\ at = [t \in Tasks |-> "away"]
    /\ conn = [t \in Tasks |-> "none"]

Goes(t, place) == at' = [at EXCEPT ![t] = place]
Leaves(t) == Goes(t, "away") /\ conn' = [conn EXCEPT ![t] = "none"]
Gets(t, c) == Goes(t, "using") /\ conn' = [conn EXCEPT ![t] = c]

----------------------------------------------------------------------------
\* conn(): the read lock first, which is not to be had while a task dials.
Enter(t) ==
    /\ at[t] = "away"
    /\ Goes(t, "read")
    /\ UNCHANGED <<server, held, writer, wait, quiet, conn>>

ReadLock(t) ==
    /\ at[t] = "read" /\ writer = Nobody
    /\ IF held = "none" THEN Goes(t, "try") /\ UNCHANGED conn ELSE Gets(t, held)
    /\ UNCHANGED <<server, held, writer, wait, quiet>>

\* try_write fails while a task dials, for the moment another one reads, and while
\* mark_broken waits for the lock or has it.
Contended(t) == writer # Nobody \/ \E u \in Tasks \ {t} : at[u] \in {"read", "drop"}

MayDial == wait = 0

Refused(t) ==
    /\ at[t] = "try"
    /\ Contended(t) \/ (held = "none" /\ ~MayDial)
    /\ Leaves(t)
    /\ UNCHANGED <<server, held, writer, wait, quiet>>

FindsHeld(t) ==
    /\ at[t] = "try" /\ writer = Nobody /\ held # "none"
    /\ Gets(t, held)
    /\ UNCHANGED <<server, held, writer, wait, quiet>>

StartDial(t) ==
    /\ at[t] = "try" /\ writer = Nobody /\ held = "none" /\ MayDial
    /\ Goes(t, "dial") /\ writer' = t
    /\ UNCHANGED <<server, held, wait, quiet, conn>>

DialSucceeds(t) ==
    /\ at[t] = "dial" /\ server # "down"
    /\ held' = "sound" /\ writer' = Nobody /\ wait' = 0
    /\ Gets(t, "sound")
    /\ UNCHANGED <<server, quiet>>

\* Mutant: the cooldown is not armed.
AfterDialUnarmed == wait' = wait /\ writer' = Nobody

\* Of a failed dial: what the gate notes, and the lock let go.
AfterDial == wait' = Cooldown /\ writer' = Nobody

DialFails(t) ==
    /\ at[t] = "dial" /\ server # "up"
    /\ AfterDial /\ quiet' = Cooldown
    /\ Leaves(t)
    /\ UNCHANGED <<server, held>>

----------------------------------------------------------------------------
\* A command on the clone.  A dead connection fails it, and so may a busy
\* server; what the command does is the store's.
CommandServed(t) ==
    /\ at[t] = "using" /\ conn[t] = "sound"
    /\ Leaves(t)
    /\ UNCHANGED <<server, held, writer, wait, quiet>>

CommandFails(t) ==
    /\ at[t] = "using" /\ (conn[t] = "dead" \/ server = "busy")
    /\ Goes(t, "drop") /\ conn' = [conn EXCEPT ![t] = "none"]
    /\ UNCHANGED <<server, held, writer, wait, quiet>>

\* Mutant: the failure is noted, and the connection kept.
AfterDropNot == held' = held

\* mark_broken drops whatever is held by now, and notes the failure only when
\* it has left the lock.
AfterDrop == held' = "none"

DropHeld(t) ==
    /\ at[t] = "drop" /\ writer = Nobody
    /\ AfterDrop /\ Goes(t, "note")
    /\ UNCHANGED <<server, writer, wait, quiet, conn>>

NoteFailure(t) ==
    /\ at[t] = "note"
    /\ wait' = Cooldown
    /\ Leaves(t)
    /\ UNCHANGED <<server, held, writer, quiet>>

\* The caller's future is dropped at an await: a dial is abandoned, its lock
\* released, and nothing noted.
HangUp(t) ==
    /\ at[t] \in {"read", "dial", "using", "drop"}
    /\ writer' = IF writer = t THEN Nobody ELSE writer
    /\ Leaves(t)
    /\ UNCHANGED <<server, held, wait, quiet>>

----------------------------------------------------------------------------
Cools ==
    /\ wait > 0 \/ quiet > 0
    /\ wait' = IF wait > 0 THEN wait - 1 ELSE 0
    /\ quiet' = IF quiet > 0 THEN quiet - 1 ELSE 0
    /\ UNCHANGED <<server, held, writer, at, conn>>

\* Redis goes, comes back or falters; when it goes every connection dies.
Dies(c) == IF c = "sound" THEN "dead" ELSE c

ServerTurns ==
    \E s \in {"up", "busy", "down"} \ {server} :
        /\ server' = s
        /\ held' = IF s = "down" THEN Dies(held) ELSE held
        /\ conn' = IF s = "down" THEN [t \in Tasks |-> Dies(conn[t])] ELSE conn
        /\ UNCHANGED <<writer, wait, quiet, at>>

----------------------------------------------------------------------------
(***************************************************************************)
(* The cooldown keeps its word: once a dial has failed, none is started    *)
(* within the cooldown, whatever the operations that fail late, find the   *)
(* lock taken or are abandoned meanwhile, so a dead Redis is not dialled   *)
(* request by request (store.rs:364-366).                                  *)
(***************************************************************************)
DialsSpaced ==
    [][\A t \in Tasks : at[t] # "dial" /\ at'[t] = "dial" => quiet = 0]_linkVars
=============================================================================
