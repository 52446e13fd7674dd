-------------------------- MODULE CredentialChain ---------------------------
(***************************************************************************)
(* The failure policy every provider's credential shares                   *)
(* (providers/credentials.rs): a request asks the configured source for a  *)
(* token; a refusal that only a human can lift is answered from memory for *)
(* RECHECK_INTERVAL, or makes one request at a time probe a fallback,      *)
(* which then serves for the rest of the process.                          *)
(*                                                                         *)
(* A step runs from one await, or one release of the state mutex, to the   *)
(* next: `active_fallback` and `expired` are read under two locks, and     *)
(* `expired` is written after the probe lock is gone.                      *)
(***************************************************************************)
EXTENDS Naturals

CONSTANTS
    Requests,       \* requests in flight; each fetches again and again
    Nobody,         \* the probe lock is free
    Interval        \* RECHECK_INTERVAL, in ticks of the clock

ASSUME CredentialAssumption == Nobody \notin Requests /\ Interval \in Nat \ {0}

VARIABLES
    offers,         \* primary.fallback() is Some
    active,         \* active_fallback is set
    lastProbe,      \* age of last_probe; Interval: never, or long enough ago
    expired,        \* the last permanent failure, if any, and its age
    lock,           \* who holds probe_lock
    req,            \* request -> how far its fetch is
    sinceProbe      \* history: ticks since a probe was started, up to Interval

vars == <<offers, active, lastProbe, expired, lock, req, sinceProbe>>

\* What a source answers; "reauth" is an error is_permanent recognises.
SourceAnswers == {"token", "transient", "reauth"}

\* "checking" has seen no fallback; "joining" found one with the lock in hand;
\* "failing" has yet to write down that the credential is dead.
Awaiting == {"primary", "fallback", "locking", "probing", "joining"}
Stages == Awaiting \cup {"idle", "checking", "failing"}

Fetching == [pc      : Stages,
             refused : BOOLEAN,     \* a source refused this fetch for good
             late    : BOOLEAN,     \* history: it began after the switch
             answer  : {"none", "token", "transient", "expired"}]

Idle == [pc |-> "idle", refused |-> FALSE, late |-> FALSE, answer |-> "none"]

Known == [set : BOOLEAN, age : 0..Interval]
Unknown == [set |-> FALSE, age |-> 0]
Dead == [set |-> TRUE, age |-> 0]

Goto(r, stage) == req' = [req EXCEPT ![r].pc = stage]
Answer(r, a) == req' = [req EXCEPT ![r].pc = "idle", ![r].answer = a]

Release(r) == lock' = IF lock = r THEN Nobody ELSE lock

-----------------------------------------------------------------------------
(* fetch                                                                   *)

\* A fetch begins: the active fallback serves it, if there is one.
Fetch(r) ==
    /\ req[r].pc = "idle"
    /\ req' = [req EXCEPT ![r] = [Idle EXCEPT !.pc = IF active THEN "fallback" ELSE "checking",
                                              !.late = active]]
    /\ UNCHANGED <<offers, active, lastProbe, expired, lock, sinceProbe>>

\* Mutant: a permanent failure is remembered for ever.
RecentExpiryAgeless == expired.set

RecentExpiry == expired.set /\ expired.age < Interval

\* A credential known to be dead is not asked again.
CheckExpiry(r) ==
    /\ req[r].pc = "checking"
    /\ IF RecentExpiry THEN Answer(r, "expired") ELSE Goto(r, "primary")
    /\ UNCHANGED <<offers, active, lastProbe, expired, lock, sinceProbe>>

\* Mutant: any error of the source counts as a refusal.
PermanentAny == {"transient", "reauth"}

\* is_permanent
Permanent == {"reauth"}

Refuse(r, stage) == req' = [req EXCEPT ![r].pc = stage, ![r].refused = TRUE]

PrimaryAnswers(r, a) ==
    /\ req[r].pc = "primary"
    /\ \/ /\ a = "token"
          /\ expired' = Unknown
          /\ Answer(r, "token")
       \/ /\ a # "token" /\ a \notin Permanent
          /\ Answer(r, "transient")
          /\ UNCHANGED expired
       \/ /\ a \in Permanent
          /\ req' = [req EXCEPT ![r].pc = IF offers THEN "locking" ELSE "failing",
                                ![r].refused = (a = "reauth")]
          /\ UNCHANGED expired
    /\ UNCHANGED <<offers, active, lastProbe, lock, sinceProbe>>

\* The active fallback answers; a refusal of its own is escalated. A token
\* leaves `expired` as it was.
FallbackAnswers(r, a) ==
    /\ req[r].pc = "fallback"
    /\ \/ a = "token" /\ Answer(r, "token") /\ UNCHANGED expired
       \/ /\ a # "token" /\ a \notin Permanent
          /\ Answer(r, "transient")
          /\ UNCHANGED expired
       \/ /\ a \in Permanent
          /\ expired' = Dead
          /\ req' = [req EXCEPT ![r].pc = "idle", ![r].answer = "expired",
                                ![r].refused = (a = "reauth")]
    /\ UNCHANGED <<offers, active, lastProbe, lock, sinceProbe>>

\* No fallback took over: the failure is written down and returned.
WriteExpired(r) ==
    /\ req[r].pc = "failing"
    /\ expired' = Dead
    /\ Answer(r, "expired")
    /\ UNCHANGED <<offers, active, lastProbe, lock, sinceProbe>>

-----------------------------------------------------------------------------
(* try_fallback, under the probe lock                                      *)

\* Mutant: the probe is not stamped when it starts.
StampNothing == lastProbe

\* last_probe = Some(now)
Stamp == 0

\* Mutant: the active fallback is not looked at again under the lock.
LockWonBlind(r) ==
    /\ req[r].pc = "locking" /\ lock = Nobody
    /\ IF lastProbe < Interval
       THEN Goto(r, "failing") /\ UNCHANGED <<lastProbe, sinceProbe, lock>>
       ELSE /\ lock' = r
            /\ lastProbe' = Stamp
            /\ sinceProbe' = 0
            /\ Goto(r, "probing")
    /\ UNCHANGED <<offers, active, expired>>

\* The lock is won: somebody switched meanwhile, or probed too recently, or
\* this request probes.
LockWon(r) ==
    /\ req[r].pc = "locking" /\ lock = Nobody
    /\ \/ /\ active
          /\ lock' = r
          /\ Goto(r, "joining")
          /\ UNCHANGED <<lastProbe, sinceProbe>>
       \/ /\ ~active /\ lastProbe < Interval
          /\ Goto(r, "failing")
          /\ UNCHANGED <<lastProbe, sinceProbe, lock>>
       \/ /\ ~active /\ lastProbe = Interval
          /\ lock' = r
          /\ lastProbe' = Stamp
          /\ sinceProbe' = 0
          /\ Goto(r, "probing")
    /\ UNCHANGED <<offers, active, expired>>

\* The probe answers, fails or runs into FALLBACK_PROBE_TIMEOUT.
ProbeEnds(r, ok) ==
    /\ req[r].pc = "probing"
    /\ Release(r)
    /\ IF ok THEN /\ active' = TRUE
                  /\ expired' = Unknown
                  /\ Answer(r, "token")
             ELSE /\ Goto(r, "failing")
                  /\ UNCHANGED <<active, expired>>
    /\ UNCHANGED <<offers, lastProbe, sinceProbe>>

\* Mutant: the lock stays taken when the new fallback fails.
JoinEndsHolding(r, ok) ==
    /\ req[r].pc = "joining"
    /\ IF ok THEN Release(r) /\ Answer(r, "token") ELSE Goto(r, "failing") /\ UNCHANGED lock
    /\ UNCHANGED <<offers, active, lastProbe, expired, sinceProbe>>

\* The fallback another request switched to answers, or fails in any way.
JoinEnds(r, ok) ==
    /\ req[r].pc = "joining"
    /\ Release(r)
    /\ IF ok THEN Answer(r, "token") ELSE Goto(r, "failing")
    /\ UNCHANGED <<offers, active, lastProbe, expired, sinceProbe>>

-----------------------------------------------------------------------------
(* Around them.                                                            *)

\* The request is dropped at an await; its guard releases the lock.
Cancel(r) ==
    /\ req[r].pc \in Awaiting
    /\ Release(r)
    /\ req' = [req EXCEPT ![r] = Idle]
    /\ UNCHANGED <<offers, active, lastProbe, expired, sinceProbe>>

Older(age) == IF age < Interval THEN age + 1 ELSE age

Tick ==
    /\ lastProbe' = Older(lastProbe)
    /\ expired' = IF expired.set THEN [expired EXCEPT !.age = Older(expired.age)] ELSE expired
    /\ sinceProbe' = Older(sinceProbe)
    /\ UNCHANGED <<offers, active, lock, req>>

Init ==
    /\ offers \in BOOLEAN
    /\ active = FALSE
    /\ lastProbe = Interval
    /\ expired = Unknown
    /\ lock = Nobody
    /\ req = [r \in Requests |-> Idle]
    /\ sinceProbe = Interval

\* A request that has begun moves on: sources and probes answer in time.
Proceed(r) ==
    \/ CheckExpiry(r)
    \/ \E a \in SourceAnswers : PrimaryAnswers(r, a) \/ FallbackAnswers(r, a)
    \/ WriteExpired(r)
    \/ \E ok \in BOOLEAN : ProbeEnds(r, ok) \/ JoinEnds(r, ok)

Next ==
    \/ \E r \in Requests : Fetch(r) \/ Proceed(r) \/ LockWon(r) \/ Cancel(r)
    \/ Tick

Spec == Init /\ [][Next]_vars

\* Sources bound their calls, the probe has its own time limit, the probe lock
\* is first come, first served, and time passes.  Nobody need fetch.
FairSpec ==
    /\ Spec
    /\ \A r \in Requests : WF_vars(Proceed(r)) /\ SF_vars(LockWon(r))
    /\ WF_vars(Tick)

-----------------------------------------------------------------------------
(* Properties.                                                             *)

\* Every variable keeps its shape, and the lock is held by the request, if
\* any, that is probing or joining.
TypeOK ==
    /\ offers \in BOOLEAN /\ active \in BOOLEAN
    /\ lastProbe \in 0..Interval
    /\ expired \in Known
    /\ req \in [Requests -> Fetching]
    /\ sinceProbe \in 0..Interval
    /\ lock \in Requests \cup {Nobody}
    /\ \A r \in Requests : lock = r <=> req[r].pc \in {"probing", "joining"}

\* A network error or a 5xx of a token endpoint is never reported as a dead
\* credential (module documentation: "Transient failures pass through
\* untouched"): who is told "expired", or is about to write it down, was
\* refused itself or was answered from the memory of one who was.
TransientsPassThrough ==
    \A r \in Requests :
        /\ req[r].pc \in {"locking", "probing", "joining", "failing"} => req[r].refused
        /\ req[r].answer = "expired" => req[r].refused \/ ~req[r].late

\* A burst of refused requests makes one probe, not one each: none starts
\* within Interval of the one before, even if that one was abandoned half way.
OneProbePerInterval ==
    [][\A r \in Requests :
         req[r].pc = "locking" /\ req'[r].pc = "probing" => sinceProbe = Interval]_vars

\* A fallback is switched to once: however many refused requests queue on the
\* probe lock, and however long after the last probe they get it, nobody probes
\* (and so nobody installs a second fallback) once one serves.  The first look
\* at the active fallback, in fetch, is made without the lock and many awaits
\* earlier; try_fallback has to look again.
SwitchesOnce == active => \A r \in Requests : req[r].pc # "probing"

\* Every fetch ends: nobody waits for ever on the probe lock.
EveryFetchEnds == \A r \in Requests : req[r].pc # "idle" ~> req[r].pc = "idle"

\* Once the sources have stopped refusing, the word "expired" is not given any
\* more: a re-login is noticed although dead credentials are not asked.
Refusal == \E r \in Requests : ~req[r].refused /\ req'[r].refused
ToldExpired == \E r \in Requests : req[r].pc # "idle" /\ req'[r].answer = "expired"

ExpiryWearsOff == <>[][~Refusal]_vars => <>[][~ToldExpired]_vars
=============================================================================
