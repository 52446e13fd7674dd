---------------------------- MODULE AdapterProofs ----------------------------
(***************************************************************************)
(* What the provider adapters promise: of the capabilities they learn, and *)
(* of the streams they read.  First, that what is in force is stored or on *)
(* its way and that a clear no rejection crossed holds.  Then, for any     *)
(* answers and any disturbances of their streams: that a native stream,    *)
(* and a translated one, is captured as what the provider sent or not at   *)
(* all, and that what is played back from the cache is read as it was      *)
(* stored.  The argument about a stream is an induction on the lines that  *)
(* are left, for which the folds of the code are unrolled line by line.    *)
(***************************************************************************)
EXTENDS LearnedCapabilities, Streams, SequenceTheorems, FiniteSetTheorems,
        WellFoundedInduction, NaturalsInduction, TLAPS

-----------------------------------------------------------------------------
(* Learned capabilities.                                                   *)

\* A deletion that is half done, and was not crossed: the row is gone and nobody
\* is about to write it again.
ClearHalfDone ==
    \A a \in Admins : \A c \in admin[a] :
        c.alone => KeyOf[c.model] \notin stored /\ ~Writing(KeyOf[c.model])

LearnedInv == TypeOK /\ LiveIsStored /\ ClearHalfDone

\* An idle handler, and one that is built, are handlers.
LEMMA HandlersAreRequests ==
    /\ Idle \in Request
    /\ \A m \in Models, odd \in BOOLEAN : Built(m, odd) \in Request
<1>1. (CHOOSE m \in Models : TRUE) \in Models
  BY LearnedAssumption
<1>2. Idle \in Request
  BY <1>1 DEF Idle, Request
<1>3. ASSUME NEW m PROVE Allowed(m) \in BOOLEAN
  <2>1. CASE Configured[m] # {}
    <3>1. Allowed(m) = (TRUE \in Configured[m])
      BY <2>1 DEF Allowed
    <3> QED BY <3>1
  <2>2. CASE Configured[m] = {}
    <3>1. Allowed(m) = (KeyOf[m] \notin live /\ m \notin Unsupported)
      BY <2>2 DEF Allowed
    <3> QED BY <3>1
  <2> QED BY <2>1, <2>2
<1> QED BY <1>2, <1>3 DEF Built, Request

LEMMA KeyOfModel == ASSUME NEW m \in Models PROVE KeyOf[m] \in Keys
BY DEF Keys

\* At the start everything that applies is in the table.
LEMMA InitHasInv == Init => LearnedInv
<1> SUFFICES ASSUME Init PROVE LearnedInv
  OBVIOUS
<1>1. TypeOK
  BY HandlersAreRequests, LearnedAssumption DEF Init, TypeOK
<1>2. LiveIsStored /\ ClearHalfDone
  BY DEF Init, LiveIsStored, ClearHalfDone, NoClear
<1> QED BY <1>1, <1>2 DEF LearnedInv

-----------------------------------------------------------------------------
(* A request's steps. *)

\* Who is about to write, after a step that moves one handler.
LEMMA WritersAfter ==
    ASSUME TypeOK, NEW r \in Requests, NEW q \in Request, req' = [req EXCEPT ![r] = q]
    PROVE  /\ req' \in [Requests -> Request]
           /\ \A k : Writing(k)' <=>
                 \/ q.pc = "persist" /\ KeyOf[q.model] = k
                 \/ \E s \in Requests \ {r} :
                        req[s].pc = "persist" /\ KeyOf[req[s].model] = k
BY DEF TypeOK, Writing

\* A step that moves one handler, neither to nor from its write.
LEMMA HandlerMoves ==
    ASSUME LearnedInv, NEW r \in Requests, NEW q \in Request, req' = [req EXCEPT ![r] = q],
           req[r].pc # "persist", q.pc # "persist",
           UNCHANGED <<live, stored, admin, rejects, unsaved, acts, faults>>
    PROVE  LearnedInv'
<1>1. TypeOK'
  BY WritersAfter DEF LearnedInv, TypeOK
<1>2. \A k : Writing(k)' <=> Writing(k)
  BY WritersAfter DEF LearnedInv, Writing
<1>3. \A k : Clearing(k)' <=> Clearing(k)
  BY DEF Clearing
<1>4. LiveIsStored'
  BY <1>2, <1>3 DEF LearnedInv, LiveIsStored
<1>5. ClearHalfDone'
  BY <1>2 DEF LearnedInv, ClearHalfDone
<1> QED BY <1>1, <1>4, <1>5 DEF LearnedInv

LEMMA BeginKeepsInv ==
    ASSUME LearnedInv, NEW r \in Requests, Begin(r)
    PROVE  LearnedInv'
<1>1. PICK m \in Models, odd \in BOOLEAN : req' = [req EXCEPT ![r] = Built(m, odd)]
  BY DEF Begin
<1>2. Built(m, odd).pc = "sent"
  BY DEF Built
<1> QED BY <1>1, <1>2, HandlersAreRequests, HandlerMoves DEF Begin

LEMMA SettlesKeepsInv ==
    ASSUME LearnedInv, NEW r \in Requests, Settles(r)
    PROVE  LearnedInv'
<1>1. req[r] \in Request /\ req[r].model \in Models /\ req[r].odd \in BOOLEAN
  BY DEF LearnedInv, TypeOK, Request
<1>2. CASE req' = [req EXCEPT ![r] = Idle]
  <2>1. Idle.pc # "persist"
    BY DEF Idle
  <2> QED BY <1>2, <2>1, HandlersAreRequests, HandlerMoves DEF Settles
<1>3. CASE req' = [req EXCEPT ![r] = Built(@.model, @.odd)]
  <2>1. Built(req[r].model, req[r].odd).pc # "persist"
    BY DEF Built
  <2>2. req' = [req EXCEPT ![r] = Built(req[r].model, req[r].odd)]
    BY <1>3
  <2> QED BY <1>1, <2>1, <2>2, HandlersAreRequests, HandlerMoves DEF Settles
<1> QED BY <1>2, <1>3 DEF Settles

\* A rejection that is news puts its writer on the way and crosses the clears of its
\* model; one that is none is built anew.
LEMMA RejectedKeepsInv ==
    ASSUME LearnedInv, NEW r \in Requests, Rejected(r)
    PROVE  LearnedInv'
<1> DEFINE k == KeyOf[req[r].model]
           q == [req[r] EXCEPT !.pc = IF k \in live THEN "again" ELSE "persist",
                               !.temp = FALSE]
<1>1. /\ req[r] \in Request /\ req[r].pc = "sent" /\ k \in Keys
      /\ req \in [Requests -> Request]
  BY KeyOfModel DEF LearnedInv, TypeOK, Request, Rejected
<1>2. q \in Request /\ q.model = req[r].model
  BY <1>1 DEF Request
<1>3. q.pc = IF k \in live THEN "again" ELSE "persist"
  BY <1>1 DEF Request
<1>4. req' = [req EXCEPT ![r] = q]
  BY <1>1 DEF Rejected, Request
<1>5. live' = live \cup {k} /\ UNCHANGED <<stored, rejects, unsaved, acts, faults>>
  BY DEF Rejected
<1> HIDE DEF q
<1>6. CASE k \in live
  <2>1. live' = live /\ admin' = admin
    BY <1>5, <1>6 DEF Rejected
  <2> QED BY <1>1, <1>2, <1>3, <1>4, <1>5, <1>6, <2>1, HandlerMoves
<1>7. CASE k \notin live
  <2>1. \A j : Writing(j)' <=> Writing(j) \/ j = k
    BY <1>1, <1>2, <1>3, <1>4, <1>7, WritersAfter DEF LearnedInv, Writing
  <2>2. admin' = Crossed(k)
    BY <1>7 DEF Rejected
  <2>3. ASSUME NEW a \in Admins
        PROVE  /\ admin'[a] = NoClear \/ \E c \in Clear : admin'[a] = {c}
               /\ \A c \in admin'[a] : \E b \in admin[a] :
                      c.model = b.model /\ (c.alone => b.alone /\ KeyOf[b.model] # k)
               /\ \A b \in admin[a] : \E c \in admin'[a] : c.model = b.model
    <3>1. admin'[a] = {[c EXCEPT !.alone = @ /\ KeyOf[c.model] # k] : c \in admin[a]}
      BY <2>2 DEF Crossed
    <3>2. CASE admin[a] = NoClear
      BY <3>1, <3>2 DEF NoClear
    <3>3. ASSUME NEW b \in Clear, admin[a] = {b}
          PROVE  <2>3!2
      <4> DEFINE c == [b EXCEPT !.alone = @ /\ KeyOf[b.model] # k]
      <4>1. admin'[a] = {c}
        BY <3>1, <3>3
      <4>2. c.model = b.model /\ c.alone = (b.alone /\ KeyOf[b.model] # k)
        BY DEF Clear
      <4>3. c \in Clear
        BY DEF Clear
      <4> QED BY <3>3, <4>1, <4>2, <4>3
    <3> QED BY <3>2, <3>3 DEF LearnedInv, TypeOK
  <2>4. TypeOK'
    <3>1. admin' \in [Admins -> {NoClear} \cup {{c} : c \in Clear}]
      BY <2>2, <2>3 DEF Crossed
    <3>2. req' \in [Requests -> Request]
      BY <1>2, <1>4, WritersAfter DEF LearnedInv
    <3> QED BY <1>1, <1>5, <3>1, <3>2 DEF LearnedInv, TypeOK
  <2>5. LiveIsStored'
    <3>1. \A j : Clearing(j) => Clearing(j)'
      BY <2>3 DEF Clearing
    <3> QED BY <1>5, <2>1, <3>1 DEF LearnedInv, LiveIsStored
  <2>6. ClearHalfDone'
    BY <1>5, <2>1, <2>3 DEF LearnedInv, ClearHalfDone
  <2> QED BY <2>4, <2>5, <2>6 DEF LearnedInv
<1> QED BY <1>6, <1>7

\* The writer is done: its key is stored, or unsaved.
LEMMA WriterEnds ==
    ASSUME LearnedInv, NEW r \in Requests, NEW q \in Request, req[r].pc = "persist",
           q.pc # "persist", req' = [req EXCEPT ![r] = q],
           \/ stored' = stored \cup {KeyOf[req[r].model]} /\ unsaved' = unsaved
           \/ unsaved' = unsaved \cup {KeyOf[req[r].model]} /\ stored' = stored,
           faults' \in 0..MaxFaults, UNCHANGED <<live, admin, rejects, acts>>
    PROVE  LearnedInv'
<1> DEFINE k == KeyOf[req[r].model]
<1>1. k \in Keys /\ Writing(k)
  BY KeyOfModel DEF LearnedInv, TypeOK, Request, Writing
<1>2. \A j : /\ Writing(j)' => Writing(j)
             /\ Writing(j) => Writing(j)' \/ j = k
  BY WritersAfter DEF LearnedInv, Writing
<1>3. stored \subseteq stored' /\ unsaved \subseteq unsaved' /\ k \in stored' \cup unsaved'
  OBVIOUS
<1>4. TypeOK'
  BY <1>1, WritersAfter DEF LearnedInv, TypeOK
<1>5. LiveIsStored'
  <2>1. \A j : Clearing(j) => Clearing(j)'
    BY DEF Clearing
  <2> QED BY <1>2, <1>3, <2>1 DEF LearnedInv, LiveIsStored
<1>6. ClearHalfDone'
  BY <1>1, <1>2 DEF LearnedInv, ClearHalfDone
<1> QED BY <1>4, <1>5, <1>6 DEF LearnedInv

LEMMA PersistKeepsInv ==
    ASSUME LearnedInv, NEW r \in Requests, Persist(r)
    PROVE  LearnedInv'
<1> DEFINE q == [req[r] EXCEPT !.pc = "again"]
<1>1. q \in Request /\ q.pc # "persist" /\ req' = [req EXCEPT ![r] = q]
  BY DEF Persist, LearnedInv, TypeOK, Request
<1>2. faults' \in 0..MaxFaults
  BY LearnedAssumption DEF Persist, LearnedInv, TypeOK
<1> HIDE DEF q
<1> QED BY <1>1, <1>2, WriterEnds DEF Persist

LEMMA LeavesKeepsInv ==
    ASSUME LearnedInv, NEW r \in Requests, Leaves(r)
    PROVE  LearnedInv'
<1>1. Idle \in Request /\ Idle.pc # "persist" /\ faults \in 0..MaxFaults
  BY HandlersAreRequests DEF Idle, LearnedInv, TypeOK
<1>2. CASE req[r].pc = "persist"
  BY <1>1, <1>2, WriterEnds DEF Leaves
<1>3. CASE req[r].pc # "persist"
  BY <1>1, <1>3, HandlerMoves DEF Leaves
<1> QED BY <1>2, <1>3

-----------------------------------------------------------------------------
(* Administrators, the process and the providers. *)

\* The row goes, and the clear is on its way.
LEMMA DeleteKeepsInv ==
    ASSUME LearnedInv, NEW a \in Admins, NEW m \in Models, Delete(a, m)
    PROVE  LearnedInv'
<1> DEFINE k == KeyOf[m]
           c == [model |-> m, alone |-> ~Writing(k)]
<1>1. stored' = stored \ {k} /\ live' = live /\ UNCHANGED <<req, rejects, unsaved, faults>>
  BY DEF Delete, Deleted, KeyToClear
<1>2. admin' = [admin EXCEPT ![a] = {c}] /\ admin[a] = NoClear
  BY DEF Delete
<1>3. \A b : b \in Admins => admin'[b] = IF b = a THEN {c} ELSE admin[b]
  BY <1>2 DEF LearnedInv, TypeOK
<1>4. \A j : Writing(j)' <=> Writing(j)
  BY <1>1 DEF Writing
<1>5. c \in Clear /\ c.model = m /\ (c.alone => ~Writing(k))
  BY DEF Clear, Writing
<1> HIDE DEF c
<1>6. TypeOK'
  <2>1. acts' \in 0..MaxActs
    BY LearnedAssumption DEF Delete, LearnedInv, TypeOK
  <2> QED BY <1>1, <1>2, <1>5, <2>1 DEF LearnedInv, TypeOK
<1>7. LiveIsStored'
  <2>1. \A j : Clearing(j) \/ j = k => Clearing(j)'
    BY <1>2, <1>3, <1>5 DEF Clearing, NoClear
  <2> QED BY <1>1, <1>4, <2>1 DEF LearnedInv, LiveIsStored
<1>8. ClearHalfDone'
  BY <1>1, <1>3, <1>4, <1>5 DEF LearnedInv, ClearHalfDone
<1> QED BY <1>6, <1>7, <1>8 DEF LearnedInv

\* A clear ends: for the live entry as well, or half done and noted as unsaved.
LEMMA ClearEnds ==
    ASSUME LearnedInv, NEW a \in Admins, NEW c \in Clear, admin[a] = {c},
           admin' = [admin EXCEPT ![a] = NoClear],
           \/ live' = live \ {KeyOf[c.model]} /\ unsaved' = unsaved
           \/ live' = live /\ unsaved' = unsaved \cup {KeyOf[c.model]},
           UNCHANGED <<req, stored, rejects, acts, faults>>
    PROVE  LearnedInv'
<1> DEFINE k == KeyOf[c.model]
<1>1. k \in Keys
  BY KeyOfModel DEF Clear
<1>2. \A b \in Admins : admin'[b] = IF b = a THEN NoClear ELSE admin[b]
  BY DEF LearnedInv, TypeOK
<1>3. \A j : Writing(j)' <=> Writing(j)
  BY DEF Writing
<1>4. TypeOK'
  BY <1>1, <1>2 DEF LearnedInv, TypeOK
<1>5. LiveIsStored'
  <2>1. \A j : Clearing(j) => Clearing(j)' \/ j = k
    BY <1>2 DEF Clearing
  <2> QED BY <1>3, <2>1 DEF LearnedInv, LiveIsStored
<1>6. ClearHalfDone'
  BY <1>2, <1>3 DEF LearnedInv, ClearHalfDone, NoClear
<1> QED BY <1>4, <1>5, <1>6 DEF LearnedInv

LEMMA OneClear ==
    ASSUME LearnedInv, NEW a \in Admins, admin[a] # NoClear
    PROVE  \E c \in Clear : admin[a] = {c}
BY DEF LearnedInv, TypeOK

LEMMA DeleteLiveKeepsInv ==
    ASSUME LearnedInv, NEW a \in Admins, DeleteLive(a)
    PROVE  LearnedInv'
<1>1. PICK c \in Clear : admin[a] = {c}
  BY OneClear DEF DeleteLive, NoClear
<1>2. live' = live \ {KeyOf[c.model]} /\ stored' = stored
  BY <1>1 DEF DeleteLive, Deleted, KeyToClear
<1> QED BY <1>1, <1>2, ClearEnds DEF DeleteLive

LEMMA AdminLeavesKeepsInv ==
    ASSUME LearnedInv, NEW a \in Admins, AdminLeaves(a)
    PROVE  LearnedInv'
<1>1. PICK c \in Clear : admin[a] = {c}
  BY OneClear DEF AdminLeaves
<1>2. unsaved' = unsaved \cup {KeyOf[c.model]}
  BY <1>1 DEF AdminLeaves
<1> QED BY <1>1, <1>2, ClearEnds DEF AdminLeaves

\* The process starts with what the table says, or with nothing.
LEMMA RestartKeepsInv ==
    ASSUME LearnedInv, Restart
    PROVE  LearnedInv'
<1>1. live' \subseteq stored' /\ unsaved' = {} /\ stored' = stored /\ rejects' = rejects
  BY DEF Restart
<1>2. acts' \in 0..MaxActs /\ faults' \in 0..MaxFaults
  BY LearnedAssumption DEF Restart, LearnedInv, TypeOK
<1>3. req' = [r \in Requests |-> Idle] /\ admin' = [a \in Admins |-> NoClear]
  BY DEF Restart
<1>4. TypeOK'
  BY <1>1, <1>2, <1>3, HandlersAreRequests DEF LearnedInv, TypeOK
<1>5. LiveIsStored' /\ ClearHalfDone'
  BY <1>1, <1>3 DEF LiveIsStored, ClearHalfDone, NoClear
<1> QED BY <1>4, <1>5 DEF LearnedInv

\* A provider's change of mind moves nothing of the router's.
LEMMA ChangesMindKeepsInv ==
    ASSUME LearnedInv, NEW m \in Models, ChangesMind(m)
    PROVE  LearnedInv'
<1>1. TypeOK'
  BY LearnedAssumption DEF ChangesMind, LearnedInv, TypeOK
<1>2. LiveIsStored' /\ ClearHalfDone'
  BY DEF ChangesMind, LearnedInv, LiveIsStored, ClearHalfDone, Writing, Clearing
<1> QED BY <1>1, <1>2 DEF LearnedInv

-----------------------------------------------------------------------------
(* The invariant, and what follows from it. *)

\* Every step keeps the invariant.
LEMMA StepKeepsInv ==
    ASSUME LearnedInv, [Next]_vars
    PROVE  LearnedInv'
<1>1. CASE UNCHANGED vars
  BY <1>1 DEF vars, LearnedInv, TypeOK, LiveIsStored, ClearHalfDone, Writing, Clearing
<1>2. ASSUME NEW r \in Requests,
             Begin(r) \/ Rejected(r) \/ Persist(r) \/ Settles(r) \/ Leaves(r)
      PROVE  LearnedInv'
  BY <1>2, BeginKeepsInv, RejectedKeepsInv, PersistKeepsInv, SettlesKeepsInv, LeavesKeepsInv
<1>3. ASSUME NEW a \in Admins,
             DeleteLive(a) \/ AdminLeaves(a) \/ \E m \in Models : Delete(a, m)
      PROVE  LearnedInv'
  BY <1>3, DeleteLiveKeepsInv, AdminLeavesKeepsInv, DeleteKeepsInv
<1>4. CASE Restart \/ \E m \in Models : ChangesMind(m)
  BY <1>4, RestartKeepsInv, ChangesMindKeepsInv
<1> QED BY <1>1, <1>2, <1>3, <1>4 DEF Next

\* The inductive invariant: what is in force is in the table or accounted for, and a
\* clear that is half done, and not crossed, has no writer against it.
THEOREM LearnedInvariant == Spec => []LearnedInv
BY InitHasInv, StepKeepsInv, PTL DEF Spec

\* Nothing learned is in memory alone, unless its writer, or its clear, is under way,
\* or a write of it failed (learned_capabilities.rs:131-161).
THEOREM LiveEntriesAreStored == Spec => []LiveIsStored
<1>1. LearnedInv => LiveIsStored
  BY DEF LearnedInv
<1> QED BY <1>1, LearnedInvariant, PTL

\* A clear that no rejection of its model crossed has removed the entry from memory
\* and table when it is done (delete_learned_capability_api).
THEOREM UncrossedClearsHold == Spec => ClearHolds
<1> DEFINE Cleared ==
        \A a \in Admins : \A c \in admin[a] :
            c.alone /\ DeleteLive(a) => KeyOf[c.model] \notin live' \cup stored'
<1>1. ASSUME LearnedInv, NEW a \in Admins, NEW c \in admin[a], c.alone, DeleteLive(a)
      PROVE  KeyOf[c.model] \notin live' \cup stored'
  <2>1. KeyOf[c.model] \notin stored
    BY <1>1 DEF LearnedInv, ClearHalfDone
  <2>2. admin[a] = {c}
    BY <1>1, OneClear DEF NoClear
  <2> QED BY <1>1, <2>1, <2>2 DEF DeleteLive, Deleted, KeyToClear
<1>2. LearnedInv => [Cleared]_vars
  BY <1>1
<1> HIDE DEF Cleared
<1>3. Spec => [][Cleared]_vars
  BY <1>2, LearnedInvariant, PTL DEF Spec
<1> QED BY <1>3 DEF Cleared, ClearHolds
-----------------------------------------------------------------------------
(* Streams.  Numbers first: two inductions, and what is largest.           *)

\* Induction over a set of numbers, from the least number that it lacks.
LEMMA FromTheLeast ==
    ASSUME NEW S, 0 \in S, \A k \in Nat : k \in S => k + 1 \in S
    PROVE  Nat \subseteq S
<1> DEFINE T == Nat \ S
           R == OpToRel(<, Nat)
<1> SUFFICES ASSUME T # {} PROVE FALSE
  OBVIOUS
<1>1. IsWellFoundedOn(R, Nat)
  BY NatLessThanWellFounded, Zenon
<1>2. PICK x \in T : \A y \in T : ~(<<y, x>> \in R)
  <2> HIDE DEF T, R
  <2>1. T \subseteq Nat
    BY DEF T
  <2> QED BY <1>1, <2>1, WFMin
<1>3. \A y \in Nat, z \in Nat : y < z => <<y, z>> \in R
  BY DEF OpToRel
<1>4. x \in Nat /\ x # 0
  OBVIOUS
<1>5. x - 1 \in Nat /\ x - 1 < x /\ (x - 1) + 1 = x
  BY <1>4
<1> HIDE DEF R
<1> QED BY <1>2, <1>3, <1>4, <1>5

\* A set of numbers up to m has a largest.
LEMMA MaxAmong ==
    ASSUME NEW m \in Nat, NEW s \in SUBSET (1..m), s # {}
    PROVE  Max(s) \in s /\ \A y \in s : Max(s) >= y
<1> DEFINE S == {n \in Nat : \A t \in SUBSET (1..n) :
                      t # {} => \E x \in t : \A y \in t : x >= y}
<1>1. 0 \in S
  <2>1. 1..0 = {}
    OBVIOUS
  <2> QED BY <2>1
<1>2. ASSUME NEW n \in Nat, n \in S PROVE n + 1 \in S
  <2> SUFFICES ASSUME NEW t \in SUBSET (1..(n + 1)), t # {}
               PROVE  \E x \in t : \A y \in t : x >= y
    OBVIOUS
  <2>1. CASE n + 1 \in t
    BY <2>1
  <2>2. CASE n + 1 \notin t
    <3>1. t \in SUBSET (1..n)
      BY <2>2
    <3> QED BY <3>1, <1>2
  <2> QED BY <2>1, <2>2
<1> HIDE DEF S
<1>3. m \in S
  BY <1>1, <1>2, FromTheLeast
<1> QED BY <1>3 DEF S, Max


-----------------------------------------------------------------------------
(* Folds.  The library's facts about them take the operator as a           *)
(* parameter; here they are proved once for the steps that are folded.     *)

\* A line that crosses: read by the translator, and what it gives by the capture.
Crossing(b, step) == [t |-> step.t, c |-> FoldLeft(FeedChunk, b.c, step.out)]

\* What one more element does, for each of the folds.
Step(kind, c, e) == CASE kind = "line" -> FeedLine(c, e)
                      [] kind = "chunk" -> FeedChunk(c, e)
                      [] kind = "call" -> Called(c, e)
                      [] kind = "anthropicLines" -> AnthropicLine(c, e)
                      [] kind = "geminiLines" -> GeminiLine(c, e)
                      [] kind = "anthropic" -> Crossing(c, TranslateAnthropic(c.t, e))
                      [] kind = "gemini" -> Crossing(c, TranslateGemini(c.t, e))

\* The equation of a fold over the positions of s: the last comes last.
Equation(kind, f, b, s) ==
    [p \in SUBSET DOMAIN s |->
        IF p = {} THEN b ELSE Step(kind, f[p \ {Max(p)}], s[Max(p)])]

Run(kind, b, s) == (CHOOSE f : f = Equation(kind, f, b, s))[DOMAIN s]

\* The values on the way: tr[k] after k elements.
Trace(kind, b, s, n, tr) ==
    tr[0] = b /\ \A k \in 1..n : tr[k] = Step(kind, tr[k - 1], s[k])

LEMMA MaxUpTo ==
    ASSUME NEW k \in Nat \ {0}
    PROVE  Max(1..k) = k /\ (1..k) \ {k} = 1..(k - 1) /\ 1..k # {}
<1>1. k \in 1..k
  OBVIOUS
<1>2. Max(1..k) \in 1..k /\ Max(1..k) >= k
  <2> DEFINE s == 1..k
  <2>1. k \in Nat /\ s \in SUBSET (1..k) /\ s # {} /\ k \in s
    BY <1>1
  <2> HIDE DEF s
  <2>2. Max(s) \in s /\ Max(s) >= k
    BY <2>1, MaxAmong
  <2> QED BY <2>2 DEF s
<1>3. Max(1..k) = k
  BY <1>2
<1>4. (1..k) \ {k} = 1..(k - 1)
  OBVIOUS
<1> QED BY <1>1, <1>3, <1>4

LEMMA EquationHolds ==
    ASSUME NEW kind, NEW b, NEW s, NEW n \in Nat, DOMAIN s = 1..n
    PROVE  \E f : f = Equation(kind, f, b, s)
<1> DEFINE F(f, m) == [p \in SUBSET (1..m) |->
                          IF p = {} THEN b ELSE Step(kind, f[p \ {Max(p)}], s[Max(p)])]
           S == {m \in Nat : \E f : f = F(f, m)}
<1>1. 0 \in S
  <2> DEFINE g == [p \in SUBSET (1..0) |-> b]
  <2>1. SUBSET (1..0) = {{}}
    OBVIOUS
  <2>2. g = F(g, 0)
    BY <2>1
  <2> QED BY <2>2
<1>2. ASSUME NEW m \in Nat, m \in S PROVE m + 1 \in S
  <2>1. PICK f : f = F(f, m)
    BY <1>2
  <2> DEFINE g == [p \in SUBSET (1..(m + 1)) |->
                      IF m + 1 \in p THEN Step(kind, f[p \ {m + 1}], s[m + 1]) ELSE f[p]]
  <2>2. ASSUME NEW p \in SUBSET (1..(m + 1))
        PROVE  g[p] = F(g, m + 1)[p]
    <3>1. CASE m + 1 \in p
      <4>1. Max(p) = m + 1
        <5>1. Max(p) \in p /\ Max(p) >= m + 1
          BY <3>1, MaxAmong
        <5>2. Max(p) \in 1..(m + 1)
          BY <5>1
        <5> QED BY <5>1, <5>2
      <4>2. p \ {m + 1} \in SUBSET (1..(m + 1)) /\ m + 1 \notin p \ {m + 1}
        OBVIOUS
      <4>3. g[p \ {Max(p)}] = f[p \ {m + 1}]
        BY <4>1, <4>2
      <4> HIDE DEF g
      <4>4. F(g, m + 1)[p] = Step(kind, g[p \ {Max(p)}], s[Max(p)])
        BY <3>1
      <4>5. g[p] = Step(kind, f[p \ {m + 1}], s[m + 1])
        BY <3>1 DEF g
      <4> QED BY <4>1, <4>3, <4>4, <4>5
    <3>2. CASE m + 1 \notin p
      <4>1. p \in SUBSET (1..m)
        BY <3>2
      <4>2. g[p] = f[p]
        BY <3>2
      <4>3. f[p] = IF p = {} THEN b ELSE Step(kind, f[p \ {Max(p)}], s[Max(p)])
        BY <2>1, <4>1
      <4>4. g[p \ {Max(p)}] = f[p \ {Max(p)}]
        BY <3>2
      <4> HIDE DEF g
      <4>5. F(g, m + 1)[p] = IF p = {} THEN b ELSE Step(kind, g[p \ {Max(p)}], s[Max(p)])
        OBVIOUS
      <4> QED BY <4>2, <4>3, <4>4, <4>5
    <3> QED BY <3>1, <3>2
  <2>3. g = F(g, m + 1)
    <3>1. DOMAIN g = SUBSET (1..(m + 1)) /\ DOMAIN F(g, m + 1) = SUBSET (1..(m + 1))
      OBVIOUS
    <3>2. g = [p \in SUBSET (1..(m + 1)) |-> g[p]]
      OBVIOUS
    <3> HIDE DEF g
    <3>3. F(g, m + 1) = [p \in SUBSET (1..(m + 1)) |-> F(g, m + 1)[p]]
      OBVIOUS
    <3> HIDE DEF F
    <3> QED BY <2>2, <3>1, <3>2, <3>3
  <2> HIDE DEF F, g
  <2> QED BY <2>3
<1>3. n \in S
  <2> HIDE DEF S
  <2> QED BY <1>1, <1>2, FromTheLeast
<1> QED BY <1>3 DEF Equation

\* Any trace ends where the fold does.
LEMMA TraceEnds ==
    ASSUME NEW kind, NEW b, NEW s, NEW n \in Nat, DOMAIN s = 1..n,
           NEW f, f = Equation(kind, f, b, s),
           NEW tr, Trace(kind, b, s, n, tr)
    PROVE  \A m \in 0..n : f[1..m] = tr[m]
<1> DEFINE S == {m \in Nat : m <= n => f[1..m] = tr[m]}
<1>0. \A p \in SUBSET (1..n) :
        f[p] = IF p = {} THEN b ELSE Step(kind, f[p \ {Max(p)}], s[Max(p)])
  BY DEF Equation
<1>1. 0 \in S
  <2>1. 1..0 = {} /\ {} \in SUBSET (1..n)
    OBVIOUS
  <2> QED BY <1>0, <2>1 DEF Trace
<1>2. ASSUME NEW m \in Nat, m \in S PROVE m + 1 \in S
  <2> SUFFICES ASSUME m + 1 <= n PROVE f[1..(m + 1)] = tr[m + 1]
    OBVIOUS
  <2>1. Max(1..(m + 1)) = m + 1 /\ 1..(m + 1) # {}
    <3>1. m + 1 \in Nat \ {0}
      OBVIOUS
    <3> QED BY <3>1, MaxUpTo
  <2>2. (1..(m + 1)) \ {m + 1} = 1..m
    OBVIOUS
  <2>3. f[1..m] = tr[m]
    BY <1>2
  <2>4. f[1..(m + 1)] = Step(kind, f[1..m], s[m + 1])
    <3>1. 1..(m + 1) \in SUBSET (1..n)
      OBVIOUS
    <3> QED BY <1>0, <2>1, <2>2, <3>1
  <2>5. tr[m + 1] = Step(kind, tr[m], s[m + 1])
    <3>1. m + 1 \in 1..n /\ (m + 1) - 1 = m
      OBVIOUS
    <3> QED BY <3>1 DEF Trace
  <2> QED BY <2>3, <2>4, <2>5
<1>3. ASSUME NEW m \in 0..n PROVE f[1..m] = tr[m]
  <2>1. m \in Nat /\ m <= n
    OBVIOUS
  <2>2. m \in S
    <3> HIDE DEF S
    <3> QED BY <1>1, <1>2, <2>1, FromTheLeast
  <2> QED BY <2>1, <2>2
<1> QED BY <1>3

LEMMA RunEnds ==
    ASSUME NEW kind, NEW b, NEW s, NEW n \in Nat, DOMAIN s = 1..n,
           NEW tr, Trace(kind, b, s, n, tr)
    PROVE  Run(kind, b, s) = tr[n]
<1> DEFINE f == CHOOSE g : g = Equation(kind, g, b, s)
<1>1. f = Equation(kind, f, b, s)
  BY EquationHolds
<1> HIDE DEF f
<1>2. f[1..n] = tr[n]
  BY <1>1, TraceEnds
<1> QED BY <1>2 DEF Run, f

\* There is a trace.
LEMMA RunTraced ==
    ASSUME NEW kind, NEW b, NEW s, NEW n \in Nat, DOMAIN s = 1..n
    PROVE  \E tr : Trace(kind, b, s, n, tr) /\ Run(kind, b, s) = tr[n]
<1>1. PICK f : f = Equation(kind, f, b, s)
  BY EquationHolds
<1> DEFINE tr == [k \in 0..n |-> f[1..k]]
<1>2. \A p \in SUBSET (1..n) :
        f[p] = IF p = {} THEN b ELSE Step(kind, f[p \ {Max(p)}], s[Max(p)])
  BY <1>1 DEF Equation
<1>3. tr[0] = b
  <2>1. 1..0 = {} /\ {} \in SUBSET (1..n)
    OBVIOUS
  <2>2. tr[0] = f[{}]
    BY <2>1
  <2> QED BY <1>2, <2>1, <2>2
<1>4. ASSUME NEW k \in 1..n PROVE tr[k] = Step(kind, tr[k - 1], s[k])
  <2>1. Max(1..k) = k /\ (1..k) \ {k} = 1..(k - 1) /\ 1..k # {}
    <3>1. k \in Nat \ {0}
      OBVIOUS
    <3> QED BY <3>1, MaxUpTo
  <2>2. 1..k \in SUBSET (1..n)
    OBVIOUS
  <2>3. f[1..k] = Step(kind, f[1..(k - 1)], s[k])
    BY <1>2, <2>1, <2>2
  <2> QED BY <2>3
<1>5. Trace(kind, b, s, n, tr)
  <2> HIDE DEF tr
  <2> QED BY <1>3, <1>4 DEF Trace
<1> HIDE DEF tr
<1> QED BY <1>5, RunEnds


\* The folds of the model are runs.
LEMMA FoldsAreRuns ==
    ASSUME NEW b, NEW s, NEW n \in Nat, DOMAIN s = 1..n
    PROVE  /\ FoldLeft(FeedLine, b, s) = Run("line", b, s)
           /\ FoldLeft(FeedChunk, b, s) = Run("chunk", b, s)
           /\ FoldLeft(Called, b, s) = Run("call", b, s)
           /\ FoldLeft(AnthropicLine, b, s) = Run("anthropicLines", b, s)
           /\ FoldLeft(GeminiLine, b, s) = Run("geminiLines", b, s)
<1>1. FoldLeft(FeedLine, b, s) = Run("line", b, s)
  <2> DEFINE F(f) == [p \in SUBSET DOMAIN s |->
                         IF p = {} THEN b ELSE FeedLine(f[p \ {Max(p)}], s[Max(p)])]
             f == CHOOSE g : g = F(g)
  <2>1. FoldLeft(FeedLine, b, s) = f[DOMAIN s]
    BY Zenon DEF FoldLeft, MapThenFoldSet
  <2>2. \A g : F(g) = Equation("line", g, b, s)
    BY DEF Equation, Step
  <2>3. \E g : g = Equation("line", g, b, s)
    BY EquationHolds
  <2> HIDE DEF F
  <2>4. f = Equation("line", f, b, s)
    BY <2>2, <2>3
  <2> HIDE DEF f
  <2>5. PICK tr : Trace("line", b, s, n, tr) /\ Run("line", b, s) = tr[n]
    BY RunTraced
  <2>6. n \in 0..n
    OBVIOUS
  <2> QED BY <2>1, <2>4, <2>5, <2>6, TraceEnds
<1>2. FoldLeft(FeedChunk, b, s) = Run("chunk", b, s)
  <2> DEFINE F(f) == [p \in SUBSET DOMAIN s |->
                         IF p = {} THEN b ELSE FeedChunk(f[p \ {Max(p)}], s[Max(p)])]
             f == CHOOSE g : g = F(g)
  <2>1. FoldLeft(FeedChunk, b, s) = f[DOMAIN s]
    BY Zenon DEF FoldLeft, MapThenFoldSet
  <2>2. \A g : F(g) = Equation("chunk", g, b, s)
    BY DEF Equation, Step
  <2>3. \E g : g = Equation("chunk", g, b, s)
    BY EquationHolds
  <2> HIDE DEF F
  <2>4. f = Equation("chunk", f, b, s)
    BY <2>2, <2>3
  <2> HIDE DEF f
  <2>5. PICK tr : Trace("chunk", b, s, n, tr) /\ Run("chunk", b, s) = tr[n]
    BY RunTraced
  <2>6. n \in 0..n
    OBVIOUS
  <2> QED BY <2>1, <2>4, <2>5, <2>6, TraceEnds
<1>3. FoldLeft(Called, b, s) = Run("call", b, s)
  <2> DEFINE F(f) == [p \in SUBSET DOMAIN s |->
                         IF p = {} THEN b ELSE Called(f[p \ {Max(p)}], s[Max(p)])]
             f == CHOOSE g : g = F(g)
  <2>1. FoldLeft(Called, b, s) = f[DOMAIN s]
    BY Zenon DEF FoldLeft, MapThenFoldSet
  <2>2. \A g : F(g) = Equation("call", g, b, s)
    BY DEF Equation, Step
  <2>3. \E g : g = Equation("call", g, b, s)
    BY EquationHolds
  <2> HIDE DEF F
  <2>4. f = Equation("call", f, b, s)
    BY <2>2, <2>3
  <2> HIDE DEF f
  <2>5. PICK tr : Trace("call", b, s, n, tr) /\ Run("call", b, s) = tr[n]
    BY RunTraced
  <2>6. n \in 0..n
    OBVIOUS
  <2> QED BY <2>1, <2>4, <2>5, <2>6, TraceEnds
<1>4. FoldLeft(AnthropicLine, b, s) = Run("anthropicLines", b, s)
  <2> DEFINE F(f) == [p \in SUBSET DOMAIN s |->
                         IF p = {} THEN b ELSE AnthropicLine(f[p \ {Max(p)}], s[Max(p)])]
             f == CHOOSE g : g = F(g)
  <2>1. FoldLeft(AnthropicLine, b, s) = f[DOMAIN s]
    BY Zenon DEF FoldLeft, MapThenFoldSet
  <2>2. \A g : F(g) = Equation("anthropicLines", g, b, s)
    BY DEF Equation, Step
  <2>3. \E g : g = Equation("anthropicLines", g, b, s)
    BY EquationHolds
  <2> HIDE DEF F
  <2>4. f = Equation("anthropicLines", f, b, s)
    BY <2>2, <2>3
  <2> HIDE DEF f
  <2>5. PICK tr : Trace("anthropicLines", b, s, n, tr) /\ Run("anthropicLines", b, s) = tr[n]
    BY RunTraced
  <2>6. n \in 0..n
    OBVIOUS
  <2> QED BY <2>1, <2>4, <2>5, <2>6, TraceEnds
<1>5. FoldLeft(GeminiLine, b, s) = Run("geminiLines", b, s)
  <2> DEFINE F(f) == [p \in SUBSET DOMAIN s |->
                         IF p = {} THEN b ELSE GeminiLine(f[p \ {Max(p)}], s[Max(p)])]
             f == CHOOSE g : g = F(g)
  <2>1. FoldLeft(GeminiLine, b, s) = f[DOMAIN s]
    BY Zenon DEF FoldLeft, MapThenFoldSet
  <2>2. \A g : F(g) = Equation("geminiLines", g, b, s)
    BY DEF Equation, Step
  <2>3. \E g : g = Equation("geminiLines", g, b, s)
    BY EquationHolds
  <2> HIDE DEF F
  <2>4. f = Equation("geminiLines", f, b, s)
    BY <2>2, <2>3
  <2> HIDE DEF f
  <2>5. PICK tr : Trace("geminiLines", b, s, n, tr) /\ Run("geminiLines", b, s) = tr[n]
    BY RunTraced
  <2>6. n \in 0..n
    OBVIOUS
  <2> QED BY <2>1, <2>4, <2>5, <2>6, TraceEnds
<1> QED BY <1>1, <1>2, <1>3, <1>4, <1>5

\* Nothing to read changes nothing, and one element makes its step.
LEMMA RunOfNone == ASSUME NEW kind, NEW b PROVE Run(kind, b, <<>>) = b
<1> DEFINE tr == [k \in 0..0 |-> b]
<1>1. DOMAIN <<>> = 1..0 /\ 0 \in Nat
  OBVIOUS
<1>2. tr[0] = b
  OBVIOUS
<1>3. Trace(kind, b, <<>>, 0, tr)
  <2> HIDE DEF tr
  <2>1. 1..0 = {}
    OBVIOUS
  <2> QED BY <1>2, <2>1 DEF Trace
<1> HIDE DEF tr
<1> QED BY <1>1, <1>2, <1>3, RunEnds

LEMMA RunOfOne == ASSUME NEW kind, NEW b, NEW e PROVE Run(kind, b, <<e>>) = Step(kind, b, e)
<1> DEFINE tr == [k \in 0..1 |-> IF k = 0 THEN b ELSE Step(kind, b, e)]
<1>1. DOMAIN <<e>> = 1..1 /\ 1 \in Nat /\ <<e>>[1] = e
  OBVIOUS
<1>2. tr[0] = b /\ tr[1] = Step(kind, b, e)
  OBVIOUS
<1>3. Trace(kind, b, <<e>>, 1, tr)
  <2> HIDE DEF tr
  <2>1. 1..1 = {1} /\ 1 - 1 = 0
    OBVIOUS
  <2> QED BY <1>1, <1>2, <2>1 DEF Trace
<1> HIDE DEF tr
<1> QED BY <1>1, <1>2, <1>3, RunEnds

\* One part is read after the other.
LEMMA RunOfBoth ==
    ASSUME NEW kind, NEW b, NEW E, NEW s \in Seq(E), NEW t \in Seq(E)
    PROVE  Run(kind, b, s \o t) = Run(kind, Run(kind, b, s), t)
<1> DEFINE n == Len(s)
           m == Len(t)
           c == Run(kind, b, s)
<1>1. n \in Nat /\ DOMAIN s = 1..n /\ m \in Nat /\ DOMAIN t = 1..m
  OBVIOUS
<1>2. n + m \in Nat /\ DOMAIN (s \o t) = 1..(n + m)
  OBVIOUS
<1>3. /\ \A k \in 1..n : (s \o t)[k] = s[k]
      /\ \A k \in 1..m : (s \o t)[n + k] = t[k]
  OBVIOUS
<1> HIDE DEF n, m, c
<1>4. PICK x : Trace(kind, b, s, n, x) /\ c = x[n]
  BY <1>1, RunTraced DEF c
<1>5. PICK y : Trace(kind, c, t, m, y) /\ Run(kind, c, t) = y[m]
  BY <1>1, RunTraced
<1> DEFINE tr == [k \in 0..(n + m) |-> IF k <= n THEN x[k] ELSE y[k - n]]
<1>6. tr[0] = b
  BY <1>1, <1>4 DEF Trace
<1>7. ASSUME NEW k \in 1..(n + m) PROVE tr[k] = Step(kind, tr[k - 1], (s \o t)[k])
  <2>1. CASE k <= n
    <3>1. tr[k] = x[k] /\ tr[k - 1] = x[k - 1] /\ k \in 1..n
      BY <1>1, <2>1
    <3> QED BY <1>3, <1>4, <3>1 DEF Trace
  <2>2. CASE k = n + 1
    <3>1. tr[k] = y[1] /\ tr[k - 1] = c /\ 1 \in 1..m /\ k = n + 1
      BY <1>1, <1>4, <2>2
    <3>2. (s \o t)[k] = t[1]
      BY <1>3, <3>1
    <3>3. y[1] = Step(kind, y[1 - 1], t[1])
      BY <1>5, <3>1 DEF Trace
    <3>4. y[1 - 1] = c
      BY <1>5 DEF Trace
    <3> QED BY <3>1, <3>2, <3>3, <3>4
  <2>3. CASE k > n + 1
    <3>1. /\ tr[k] = y[k - n] /\ tr[k - 1] = y[(k - n) - 1]
          /\ k - n \in 1..m /\ n + (k - n) = k
      BY <1>1, <2>3
    <3> QED BY <1>3, <1>5, <3>1 DEF Trace
  <2> QED BY <1>1, <2>1, <2>2, <2>3
<1>8. tr[n + m] = y[m]
  <2>1. CASE m = 0
    BY <1>1, <1>4, <1>5, <2>1 DEF Trace
  <2>2. CASE m # 0
    BY <1>1, <2>2
  <2> QED BY <2>1, <2>2
<1> HIDE DEF tr
<1>9. Trace(kind, b, s \o t, n + m, tr)
  BY <1>6, <1>7 DEF Trace
<1>10. Run(kind, b, s \o t) = tr[n + m]
  BY <1>2, <1>9, RunEnds
<1> QED BY <1>5, <1>8, <1>10 DEF c

LEMMA RunJoined ==
    ASSUME NEW kind, NEW b, NEW E, NEW s \in Seq(E), NEW t \in Seq(E), NEW c, NEW d,
           Run(kind, b, s) = c, Run(kind, c, t) = d
    PROVE  s \o t \in Seq(E) /\ Run(kind, b, s \o t) = d
<1>1. Run(kind, b, s \o t) = Run(kind, Run(kind, b, s), t)
  BY RunOfBoth
<1> QED BY <1>1, ConcatProperties

-----------------------------------------------------------------------------
(* Sequences of sequences, laid end to end.                                *)

\* The parts so far, laid end to end.
LaidOut(q, n, fl) ==
    fl[0] = <<>> /\ \A k \in 1..n : fl[k] = fl[k - 1] \o q[k]

LEMMA FlattenLaysOut ==
    ASSUME NEW E, NEW q \in Seq(Seq(E)), NEW n \in Nat, n = Len(q)
    PROVE  \E fl \in [0..n -> Seq(E)] : LaidOut(q, n, fl) /\ FlattenSeq(q) = fl[n]
<1> DEFINE F(f, m) == [i \in 1..m |-> IF i = 1 THEN q[i] ELSE f[i - 1] \o q[i]]
           Solved(m) == \E f \in [1..m -> Seq(E)] : f = F(f, m)
           S == {m \in Nat : m <= n => Solved(m)}
<1>0. \A i \in 1..n : q[i] \in Seq(E)
  BY ElementOfSeq
<1>1. 0 \in S
  <2> DEFINE g == [i \in 1..0 |-> <<>>]
  <2>1. 1..0 = {}
    OBVIOUS
  <2>2. g = F(g, 0) /\ g \in [1..0 -> Seq(E)]
    BY <2>1
  <2> QED BY <2>2
<1>2. ASSUME NEW m \in Nat, m \in S PROVE m + 1 \in S
  <2> SUFFICES ASSUME m + 1 <= n, Solved(m) PROVE Solved(m + 1)
    <3> HIDE DEF Solved
    <3> QED BY <1>2
  <2>1. PICK f \in [1..m -> Seq(E)] : f = F(f, m)
    OBVIOUS
  <2> DEFINE g == [i \in 1..(m + 1) |->
                      IF i = m + 1 THEN (IF m = 0 THEN q[1] ELSE f[m] \o q[m + 1]) ELSE f[i]]
  <2>2. g \in [1..(m + 1) -> Seq(E)]
    <3>1. ASSUME NEW i \in 1..(m + 1) PROVE g[i] \in Seq(E)
      <4>1. CASE i # m + 1
        BY <4>1
      <4>2. CASE i = m + 1 /\ m = 0
        <5>1. 1 \in 1..n
          BY <4>2
        <5> QED BY <1>0, <4>2, <5>1
      <4>3. CASE i = m + 1 /\ m # 0
        <5>1. m + 1 \in 1..n /\ m \in 1..m
          BY <4>3
        <5>2. q[m + 1] \in Seq(E) /\ f[m] \in Seq(E)
          BY <1>0, <5>1
        <5>3. f[m] \o q[m + 1] \in Seq(E)
          BY <5>2, ConcatProperties
        <5> QED BY <4>3, <5>3
      <4> QED BY <4>1, <4>2, <4>3
    <3> HIDE DEF g
    <3>2. DOMAIN g = 1..(m + 1) /\ g = [i \in 1..(m + 1) |-> g[i]]
      BY DEF g
    <3> QED BY <3>1, <3>2
  <2>3. ASSUME NEW i \in 1..(m + 1)
        PROVE  g[i] = IF i = 1 THEN q[i] ELSE g[i - 1] \o q[i]
    <3>1. CASE i # m + 1
      <4>1. i \in 1..m /\ g[i] = f[i] /\ (i # 1 => g[i - 1] = f[i - 1])
        BY <3>1
      <4>2. f[i] = IF i = 1 THEN q[i] ELSE f[i - 1] \o q[i]
        BY <2>1, <4>1
      <4> HIDE DEF g
      <4> QED BY <4>1, <4>2
    <3>2. CASE i = m + 1 /\ m = 0
      BY <3>2
    <3>3. CASE i = m + 1 /\ m # 0
      <4>1. g[i] = f[m] \o q[m + 1]
        BY <3>3
      <4>2. g[m] = f[m]
        BY <3>3
      <4>3. i - 1 = m /\ i # 1
        BY <3>3
      <4> HIDE DEF g
      <4> QED BY <3>3, <4>1, <4>2, <4>3
    <3> QED BY <3>1, <3>2, <3>3
  <2>4. g = F(g, m + 1)
    <3> HIDE DEF g
    <3>1. g = [i \in 1..(m + 1) |-> g[i]]
      BY DEF g
    <3> QED BY <2>3, <3>1
  <2> HIDE DEF g, F
  <2> QED BY <2>2, <2>4
<1>3. PICK f \in [1..n -> Seq(E)] : f = F(f, n)
  <2>1. n \in S
    <3> HIDE DEF S
    <3> QED BY <1>1, <1>2, FromTheLeast
  <2>2. Solved(n)
    <3> HIDE DEF Solved
    <3> QED BY <2>1
  <2> QED BY <2>2
<1> DEFINE h == CHOOSE g : g = F(g, n)
<1>4. h = F(h, n)
  <2> HIDE DEF F
  <2> QED BY <1>3
<1>5. n # 0 => FlattenSeq(q) = h[n]
  BY Zenon DEF FlattenSeq
<1> HIDE DEF h
<1>6. \A i \in 1..n : h[i] = IF i = 1 THEN q[i] ELSE h[i - 1] \o q[i]
  BY <1>4
<1> HIDE DEF F
<1> DEFINE fl == [k \in 0..n |-> IF k = 0 THEN <<>> ELSE h[k]]
<1>7. LaidOut(q, n, fl)
  <2>1. fl[0] = <<>>
    OBVIOUS
  <2>2. ASSUME NEW k \in 1..n PROVE fl[k] = fl[k - 1] \o q[k]
    <3>1. fl[k] = h[k] /\ q[k] \in Seq(E)
      BY <1>0
    <3>2. CASE k = 1
      <4>1. fl[k - 1] = <<>> /\ h[k] = q[k]
        BY <1>6, <3>2
      <4>2. <<>> \o q[k] = q[k]
        BY <3>1, ConcatEmptySeq
      <4> QED BY <3>1, <4>1, <4>2
    <3>3. CASE k # 1
      <4>1. fl[k - 1] = h[k - 1]
        BY <3>3
      <4>2. h[k] = h[k - 1] \o q[k]
        BY <1>6, <3>3
      <4> QED BY <3>1, <4>1, <4>2
    <3> QED BY <3>2, <3>3
  <2> HIDE DEF fl
  <2> QED BY <2>1, <2>2 DEF LaidOut
<1>8. fl \in [0..n -> Seq(E)]
  <2> DEFINE S2 == {m \in Nat : m <= n => fl[m] \in Seq(E)}
  <2>1. 0 \in S2
    OBVIOUS
  <2>2. ASSUME NEW m \in Nat, m \in S2 PROVE m + 1 \in S2
    <3> SUFFICES ASSUME m + 1 <= n PROVE fl[m + 1] \in Seq(E)
      OBVIOUS
    <3>1. fl[m] \in Seq(E) /\ m + 1 \in 1..n /\ (m + 1) - 1 = m
      BY <2>2
    <3> HIDE DEF fl
    <3>2. fl[m + 1] = fl[m] \o q[m + 1] /\ q[m + 1] \in Seq(E)
      BY <1>0, <1>7, <3>1 DEF LaidOut
    <3> QED BY <3>1, <3>2, ConcatProperties
  <2>3. \A m \in 0..n : fl[m] \in Seq(E)
    <3> HIDE DEF S2, fl
    <3>1. Nat \subseteq S2
      BY <2>1, <2>2, FromTheLeast
    <3> QED BY <3>1 DEF S2
  <2>4. fl = [k \in 0..n |-> fl[k]]
    OBVIOUS
  <2> HIDE DEF fl
  <2> QED BY <2>3, <2>4
<1>9. FlattenSeq(q) = fl[n]
  <2>1. CASE n = 0
    <3>1. FlattenSeq(q) = q
      BY <2>1, Zenon DEF FlattenSeq
    <3>2. q = <<>>
      BY <2>1, EmptySeq
    <3>3. fl[n] = <<>>
      BY <2>1
    <3> QED BY <3>1, <3>2, <3>3
  <2>2. CASE n # 0
    BY <1>5, <2>2
  <2> QED BY <2>1, <2>2
<1> HIDE DEF fl
<1> QED BY <1>7, <1>8, <1>9

-----------------------------------------------------------------------------
(* One block of the native stream.                                         *)

DeltaKind == {"text_delta", "thinking_delta", "input_json_delta", "citations_delta",
              "signature_delta"}

BlockEvent ==
    [type : {"content_block_start"}, index : Nat, block : Block]
    \cup [type : {"content_block_delta"}, index : Nat, delta : DeltaKind, text : Seq(STRING)]
    \cup [type : {"content_block_stop"}, index : Nat]

IsTool(b) == b.kind \in {"tool_use", "server_tool_use"}

\* A block as IsAnswer has them.
Sound(b) == /\ b \in Block
            /\ b.kind = "thinking" => Len(b.more) <= 1
            /\ IsTool(b) => b.more = <<>>

\* The capture while it reads: what it holds of the message, and of its blocks.
Capture(x, f, d, u) == [message |-> x, blocks |-> f, done |-> d, unusable |-> u]
Yes == TRUE
No == FALSE
Reader(x, f) == Capture(x, f, No, No)

\* A block of which k pieces of the body and l of the rest have come.
Partial(b, k, l) ==
    [block |-> [b EXCEPT !.body = IF IsTool(b) THEN <<>> ELSE SubSeq(b.body, 1, k),
                         !.more = SubSeq(b.more, 1, l)],
     json  |-> IF IsTool(b) THEN SubSeq(b.body, 1, k) ELSE <<>>]

\* All of it.
Held(b) == [block |-> IF IsTool(b) THEN [b EXCEPT !.body = <<>>] ELSE b,
            json  |-> IF IsTool(b) THEN b.body ELSE <<>>]

LEMMA OpeningIsBlock == ASSUME NEW b \in Block PROVE Opening(b) \in Block
<1>1. <<>> \in Seq(STRING)
  BY EmptySeq
<1>2. [b EXCEPT !.body = <<>>, !.more = <<>>] \in Block
  BY <1>1 DEF Block
<1> QED BY <1>2 DEF Opening

LEMMA Growing ==
    /\ DOMAIN BodyDelta = {"text", "thinking", "tool_use", "server_tool_use"}
    /\ BodyDelta["text"] = "text_delta" /\ BodyDelta["thinking"] = "thinking_delta"
    /\ BodyDelta["tool_use"] = "input_json_delta"
    /\ BodyDelta["server_tool_use"] = "input_json_delta"
    /\ MoreDelta["text"] = "citations_delta" /\ MoreDelta["thinking"] = "signature_delta"
BY DEF BodyDelta, MoreDelta

LEMMA CaptureHolds == ASSUME NEW x, NEW f, NEW d, NEW u, NEW v
    PROVE  /\ [Capture(x, f, d, u) EXCEPT !.message = v] = Capture(v, f, d, u)
           /\ [Capture(x, f, d, u) EXCEPT !.blocks = v] = Capture(x, v, d, u)
           /\ [Capture(x, f, d, u) EXCEPT !.done = v] = Capture(x, f, v, u)
           /\ [Capture(x, f, d, u) EXCEPT !.unusable = v] = Capture(x, f, d, v)
           /\ Capture(x, f, d, u).message = x /\ Capture(x, f, d, u).blocks = f
           /\ Capture(x, f, d, u).done = d /\ Capture(x, f, d, u).unusable = u
BY DEF Capture

LEMMA ReaderHolds == ASSUME NEW x, NEW f, NEW g
    PROVE  /\ [Reader(x, f) EXCEPT !.blocks = g] = Reader(x, g)
           /\ [Reader(x, f) EXCEPT !.message = g] = Reader(g, f)
           /\ Reader(x, f).message = x /\ Reader(x, f).blocks = f
           /\ ~Reader(x, f).done /\ ~Reader(x, f).unusable
<1>1. Reader(x, f).done = No /\ Reader(x, f).unusable = No
  BY CaptureHolds DEF Reader
<1>2. ~Reader(x, f).done /\ ~Reader(x, f).unusable
  BY <1>1 DEF No
<1> QED BY <1>2, CaptureHolds DEF Reader

\* A delta grows the block it names.
LEMMA DeltaGrows ==
    ASSUME NEW x, NEW f, NEW i, NEW acc, NEW type, NEW fs
    PROVE  FeedLine(Reader(x, With(f, i, acc)), Delta(i, type, fs))
               = Reader(x, With(f, i, Grown(acc, Delta(i, type, fs))))
<1> DEFINE e == Delta(i, type, fs)
           c == Reader(x, With(f, i, acc))
<1>1. e.type = "content_block_delta" /\ e.index = i
  BY DEF Delta
<1>2. /\ ~c.unusable /\ ~c.done /\ c.blocks = With(f, i, acc) /\ i \in DOMAIN c.blocks
      /\ c.blocks[i] = acc
  BY ReaderHolds DEF With
<1>3. [c EXCEPT !.blocks[i] = Grown(acc, e)] = Reader(x, With(f, i, Grown(acc, e)))
  <2> DEFINE g == Grown(acc, e)
  <2> HIDE DEF g, e
  <2>1. [With(f, i, acc) EXCEPT ![i] = g] = With(f, i, g)
    BY DEF With
  <2>2. [c EXCEPT !.blocks[i] = g] = [c EXCEPT !.blocks = [With(f, i, acc) EXCEPT ![i] = g]]
    <3> HIDE DEF c
    <3> QED BY <1>2
  <2>3. [c EXCEPT !.blocks = With(f, i, g)] = Reader(x, With(f, i, g))
    BY ReaderHolds
  <2> QED BY <2>1, <2>2, <2>3 DEF g
<1> HIDE DEF e, c
<1>4. FeedLine(c, e) = Grow(c, e)
  BY <1>1, <1>2 DEF FeedLine
<1>5. Grow(c, e) = [c EXCEPT !.blocks[i] = Grown(acc, e)]
  BY <1>1, <1>2 DEF Grow
<1> QED BY <1>3, <1>4, <1>5 DEF e, c

LEMMA OneMore ==
    ASSUME NEW s \in Seq(STRING), NEW k \in 1..Len(s)
    PROVE  /\ SubSeq(s, 1, k) = SubSeq(s, 1, k - 1) \o <<s[k]>>
           /\ SubSeq(s, 1, 0) = <<>> /\ SubSeq(s, 1, Len(s)) = s
           /\ s[k] \in STRING /\ <<s[k]>> \in Seq(STRING)
           /\ SubSeq(s, 1, k - 1) \in Seq(STRING) /\ SubSeq(s, 1, k) \in Seq(STRING)
<1>1. SubSeq(s, 1, k) = SubSeq(s, 1, k - 1) \o <<s[k]>>
  BY SubSeqRecursiveSecond
<1>2. SubSeq(s, 1, 0) = <<>> /\ SubSeq(s, 1, Len(s)) = s
  BY SubSeqEmpty, SubSeqFull
<1> QED BY <1>1, <1>2

\* What a delta holds.
LEMMA DeltaHolds ==
    ASSUME NEW i, NEW type, NEW fs
    PROVE  /\ Delta(i, type, fs).type = "content_block_delta" /\ Delta(i, type, fs).index = i
           /\ Delta(i, type, fs).delta = type /\ Delta(i, type, fs).text = fs
BY DEF Delta

\* Each delta of a block brings its piece.
LEMMA PiecesGrow ==
    ASSUME NEW b, Sound(b), b.kind \in DOMAIN BodyDelta, NEW i
    PROVE  /\ \A k \in 1..Len(b.body) :
                  Grown(Partial(b, k - 1, 0), Delta(i, BodyDelta[b.kind], <<b.body[k]>>))
                      = Partial(b, k, 0)
           /\ \A l \in 1..Len(b.more) :
                  Grown(Partial(b, Len(b.body), l - 1), Delta(i, MoreDelta[b.kind], <<b.more[l]>>))
                      = Partial(b, Len(b.body), l)
           /\ Grown(Partial(b, 0, 0), Delta(i, BodyDelta[b.kind], b.body))
                  = Partial(b, Len(b.body), 0)
<1> DEFINE n == Len(b.body)
<1>0. b \in Block /\ b.body \in Seq(STRING) /\ b.more \in Seq(STRING) /\ n \in Nat
  BY DEF Sound, Block
<1>1. ASSUME NEW k \in 1..n
      PROVE  Grown(Partial(b, k - 1, 0), Delta(i, BodyDelta[b.kind], <<b.body[k]>>))
                 = Partial(b, k, 0)
  <2>1. SubSeq(b.body, 1, k) = SubSeq(b.body, 1, k - 1) \o <<b.body[k]>>
    BY <1>0, OneMore
  <2> DEFINE e == Delta(i, BodyDelta[b.kind], <<b.body[k]>>)
  <2>4. e.delta = BodyDelta[b.kind] /\ e.text = <<b.body[k]>>
    BY DeltaHolds
  <2> HIDE DEF e
  <2>2. CASE b.kind \in {"text", "thinking"}
    <3>1. e.delta \in {"text_delta", "thinking_delta"} /\ ~IsTool(b)
      BY <2>2, <2>4, Growing DEF IsTool
    <3> QED BY <1>0, <2>1, <2>4, <3>1 DEF Grown, Partial, Block, e
  <2>3. CASE IsTool(b)
    <3>1. e.delta = "input_json_delta"
      BY <2>3, <2>4, Growing DEF IsTool
    <3> QED BY <1>0, <2>1, <2>3, <2>4, <3>1 DEF Grown, Partial, Block, e
  <2> QED BY <2>2, <2>3, Growing DEF IsTool
<1>2. ASSUME NEW l \in 1..Len(b.more)
      PROVE  Grown(Partial(b, n, l - 1), Delta(i, MoreDelta[b.kind], <<b.more[l]>>))
                 = Partial(b, n, l)
  <2>1. SubSeq(b.more, 1, l) = SubSeq(b.more, 1, l - 1) \o <<b.more[l]>>
    BY <1>0, OneMore
  <2>2. CASE b.kind = "text"
    BY <1>0, <2>1, <2>2, Growing DEF Grown, Partial, Delta, IsTool, Block
  <2>3. CASE b.kind = "thinking"
    <3>1. l = 1
      BY <1>0, <2>3 DEF Sound
    <3>2. SubSeq(b.more, 1, 1) = <<b.more[1]>>
      <4>1. SubSeq(b.more, 1, 1 - 1) = <<>> /\ <<b.more[1]>> \in Seq(STRING)
        BY <1>0, <3>1, SubSeqEmpty
      <4> QED BY <2>1, <3>1, <4>1, ConcatEmptySeq
    <3> QED BY <1>0, <2>3, <3>1, <3>2, Growing DEF Grown, Partial, Delta, IsTool, Block
  <2>4. CASE IsTool(b)
    BY <2>4 DEF Sound
  <2> QED BY <2>2, <2>3, <2>4, Growing DEF IsTool
<1>3. Grown(Partial(b, 0, 0), Delta(i, BodyDelta[b.kind], b.body)) = Partial(b, n, 0)
  <2>1. SubSeq(b.body, 1, 0) = <<>> /\ SubSeq(b.body, 1, n) = b.body /\ <<>> \o b.body = b.body
    BY <1>0, SubSeqEmpty, SubSeqFull, ConcatEmptySeq
  <2> DEFINE e == Delta(i, BodyDelta[b.kind], b.body)
  <2>4. e.delta = BodyDelta[b.kind] /\ e.text = b.body
    BY DeltaHolds
  <2> HIDE DEF e
  <2>2. CASE b.kind \in {"text", "thinking"}
    <3>1. e.delta \in {"text_delta", "thinking_delta"} /\ ~IsTool(b)
      BY <2>2, <2>4, Growing DEF IsTool
    <3> QED BY <1>0, <2>1, <2>4, <3>1 DEF Grown, Partial, Block, e
  <2>3. CASE IsTool(b)
    <3>1. e.delta = "input_json_delta"
      BY <2>3, <2>4, Growing DEF IsTool
    <3> QED BY <1>0, <2>1, <2>3, <2>4, <3>1 DEF Grown, Partial, Block, e
  <2> QED BY <2>2, <2>3, Growing DEF IsTool
<1> QED BY <1>1, <1>2, <1>3

LEMMA WithTwice ==
    ASSUME NEW f, NEW i, NEW v, NEW w PROVE With(With(f, i, v), i, w) = With(f, i, w)
BY DEF With

\* An event that opens block i.
LEMMA BlockOpens ==
    ASSUME NEW x, NEW f, NEW i, NEW b, Sound(b)
    PROVE  FeedLine(Reader(x, f),
                    [type |-> "content_block_start", index |-> i, block |-> Opening(b)])
               = Reader(x, With(f, i, IF b.kind \in DOMAIN BodyDelta THEN Partial(b, 0, 0)
                                      ELSE Held(b)))
<1> DEFINE e == [type |-> "content_block_start", index |-> i, block |-> Opening(b)]
           c == Reader(x, f)
           acc == [block |-> Opening(b), json |-> <<>>]
<1>1. e.type = "content_block_start" /\ e.index = i /\ e.block = Opening(b)
  OBVIOUS
<1>2. ~c.unusable /\ ~c.done /\ c.blocks = f
  BY ReaderHolds
<1>3. [c EXCEPT !.blocks = With(f, i, acc)] = Reader(x, With(f, i, acc))
  BY ReaderHolds
<1>4. acc = IF b.kind \in DOMAIN BodyDelta THEN Partial(b, 0, 0) ELSE Held(b)
  <2>0. b \in Block /\ SubSeq(b.body, 1, 0) = <<>> /\ SubSeq(b.more, 1, 0) = <<>>
    BY SubSeqEmpty DEF Sound, Block
  <2>1. CASE b.kind \in DOMAIN BodyDelta
    BY <2>0, <2>1 DEF Opening, Partial, Block
  <2>2. CASE b.kind \notin DOMAIN BodyDelta
    BY <2>0, <2>2, Growing DEF Opening, Held, IsTool
  <2> QED BY <2>1, <2>2
<1> HIDE DEF e, c, acc
<1>5. FeedLine(c, e) = Open(c, e)
  BY <1>1, <1>2 DEF FeedLine
<1>6. Open(c, e) = [c EXCEPT !.blocks = With(f, i, acc)]
  BY <1>1, <1>2 DEF Open, acc
<1> QED BY <1>3, <1>4, <1>5, <1>6 DEF e, c

LEMMA BlockCloses ==
    ASSUME NEW c, NEW i
    PROVE  FeedLine(c, [type |-> "content_block_stop", index |-> i]) = c
BY DEF FeedLine

\* The deltas of a block, one by one or as a replay sends them, fill it.
LEMMA RestGrows ==
    ASSUME NEW x, NEW f, NEW i \in Nat, NEW b, Sound(b), b.kind \in DOMAIN BodyDelta
    PROVE  Run("line", Reader(x, With(f, i, Partial(b, Len(b.body), 0))),
               [k \in DOMAIN b.more |-> Delta(i, MoreDelta[b.kind], <<b.more[k]>>)])
               = Reader(x, With(f, i, Partial(b, Len(b.body), Len(b.more))))
<1> DEFINE n == Len(b.body)
           m == Len(b.more)
           s == [k \in DOMAIN b.more |-> Delta(i, MoreDelta[b.kind], <<b.more[k]>>)]
           tr == [l \in 0..m |-> Reader(x, With(f, i, Partial(b, n, l)))]
<1>1. m \in Nat /\ DOMAIN b.more = 1..m
  BY DEF Sound, Block
<1>2. DOMAIN s = 1..m /\ \A l \in 1..m : s[l] = Delta(i, MoreDelta[b.kind], <<b.more[l]>>)
  BY <1>1
<1>3. tr[0] = Reader(x, With(f, i, Partial(b, n, 0)))
  BY <1>1
<1>4. ASSUME NEW l \in 1..m PROVE tr[l] = Step("line", tr[l - 1], s[l])
  <2>1. tr[l - 1] = Reader(x, With(f, i, Partial(b, n, l - 1)))
        /\ tr[l] = Reader(x, With(f, i, Partial(b, n, l)))
    BY <1>1
  <2>2. Grown(Partial(b, n, l - 1), s[l]) = Partial(b, n, l)
    BY <1>2, PiecesGrow
  <2> HIDE DEF tr
  <2>3. Step("line", tr[l - 1], s[l]) = FeedLine(tr[l - 1], s[l])
    BY DEF Step
  <2> QED BY <1>2, <2>1, <2>2, <2>3, DeltaGrows
<1> DEFINE c == tr[0]
<1> HIDE DEF s, tr, n, m, c
<1>5. Trace("line", c, s, m, tr)
  BY <1>4 DEF Trace, c
<1>6. Run("line", c, s) = tr[m]
  BY <1>1, <1>2, <1>5, RunEnds
<1>7. tr[m] = Reader(x, With(f, i, Partial(b, n, m)))
  BY <1>1 DEF tr
<1> QED BY <1>3, <1>6, <1>7 DEF s, n, m, c

LEMMA BodyGrows ==
    ASSUME NEW x, NEW f, NEW i \in Nat, NEW b, Sound(b), b.kind \in DOMAIN BodyDelta
    PROVE  Run("line", Reader(x, With(f, i, Partial(b, 0, 0))),
               [k \in DOMAIN b.body |-> Delta(i, BodyDelta[b.kind], <<b.body[k]>>)])
               = Reader(x, With(f, i, Partial(b, Len(b.body), 0)))
<1> DEFINE n == Len(b.body)
           s == [k \in DOMAIN b.body |-> Delta(i, BodyDelta[b.kind], <<b.body[k]>>)]
           tr == [k \in 0..n |-> Reader(x, With(f, i, Partial(b, k, 0)))]
<1>1. n \in Nat /\ DOMAIN b.body = 1..n
  BY DEF Sound, Block
<1>2. DOMAIN s = 1..n /\ \A k \in 1..n : s[k] = Delta(i, BodyDelta[b.kind], <<b.body[k]>>)
  BY <1>1
<1>3. tr[0] = Reader(x, With(f, i, Partial(b, 0, 0)))
  BY <1>1
<1>4. ASSUME NEW k \in 1..n PROVE tr[k] = Step("line", tr[k - 1], s[k])
  <2>1. tr[k - 1] = Reader(x, With(f, i, Partial(b, k - 1, 0)))
        /\ tr[k] = Reader(x, With(f, i, Partial(b, k, 0)))
    BY <1>1
  <2>2. Grown(Partial(b, k - 1, 0), s[k]) = Partial(b, k, 0)
    BY <1>2, PiecesGrow
  <2> HIDE DEF tr
  <2>3. Step("line", tr[k - 1], s[k]) = FeedLine(tr[k - 1], s[k])
    BY DEF Step
  <2> QED BY <1>2, <2>1, <2>2, <2>3, DeltaGrows
<1> HIDE DEF s, tr, n
<1>5. Trace("line", tr[0], s, n, tr)
  BY <1>4 DEF Trace
<1>6. Run("line", tr[0], s) = tr[n]
  <2>1. n \in Nat /\ DOMAIN s = 1..n
    BY <1>1, <1>2
  <2> QED BY <2>1, <1>5, RunEnds
<1>7. tr[n] = Reader(x, With(f, i, Partial(b, n, 0)))
  BY <1>1 DEF tr
<1> QED BY <1>3, <1>6, <1>7 DEF s, n

LEMMA PartialIsHeld ==
    ASSUME NEW b, Sound(b), b.kind \in DOMAIN BodyDelta
    PROVE  Partial(b, Len(b.body), Len(b.more)) = Held(b)
<1>1. b \in Block /\ SubSeq(b.body, 1, Len(b.body)) = b.body
      /\ SubSeq(b.more, 1, Len(b.more)) = b.more
  BY SubSeqFull DEF Sound, Block
<1> QED BY <1>1 DEF Partial, Held, Block

LEMMA DeltasAreEvents ==
    ASSUME NEW i \in Nat, NEW b, Sound(b), b.kind \in DOMAIN BodyDelta
    PROVE  /\ [k \in DOMAIN b.body |-> Delta(i, BodyDelta[b.kind], <<b.body[k]>>)] \in Seq(BlockEvent)
           /\ [k \in DOMAIN b.more |-> Delta(i, MoreDelta[b.kind], <<b.more[k]>>)] \in Seq(BlockEvent)
           /\ <<Delta(i, BodyDelta[b.kind], b.body)>> \in Seq(BlockEvent)
<1> DEFINE n == Len(b.body)
           m == Len(b.more)
           s == [k \in DOMAIN b.body |-> Delta(i, BodyDelta[b.kind], <<b.body[k]>>)]
           t == [k \in DOMAIN b.more |-> Delta(i, MoreDelta[b.kind], <<b.more[k]>>)]
<1>1. b.body \in Seq(STRING) /\ b.more \in Seq(STRING)
      /\ n \in Nat /\ DOMAIN b.body = 1..n /\ m \in Nat /\ DOMAIN b.more = 1..m
  BY DEF Sound, Block
<1>2. ASSUME NEW type \in DeltaKind, NEW fs \in Seq(STRING)
      PROVE  Delta(i, type, fs) \in BlockEvent
  BY DEF Delta, BlockEvent
<1>3. BodyDelta[b.kind] \in DeltaKind
  BY Growing DEF DeltaKind
<1>4. s \in [1..n -> BlockEvent]
  <2>1. ASSUME NEW k \in 1..n PROVE Delta(i, BodyDelta[b.kind], <<b.body[k]>>) \in BlockEvent
    <3>1. b.body[k] \in STRING
      BY <1>1
    <3>2. <<b.body[k]>> \in Seq(STRING)
      BY <3>1
    <3> QED BY <1>2, <1>3, <3>2
  <2> QED BY <1>1, <2>1
<1>5. t \in [1..m -> BlockEvent]
  <2>1. CASE b.kind \in {"text", "thinking"}
    <3>1. MoreDelta[b.kind] \in DeltaKind
      BY <2>1, Growing DEF DeltaKind
    <3>2. ASSUME NEW k \in 1..m
          PROVE  Delta(i, MoreDelta[b.kind], <<b.more[k]>>) \in BlockEvent
      <4>1. b.more[k] \in STRING
        BY <1>1
      <4>2. <<b.more[k]>> \in Seq(STRING)
        BY <4>1
      <4> QED BY <1>2, <3>1, <4>2
    <3> QED BY <1>1, <3>2
  <2>2. CASE IsTool(b)
    <3>1. m = 0
      BY <2>2 DEF Sound
    <3> QED BY <1>1, <3>1
  <2> QED BY <2>1, <2>2, Growing DEF IsTool
<1>6. <<Delta(i, BodyDelta[b.kind], b.body)>> \in Seq(BlockEvent)
  <2>1. Delta(i, BodyDelta[b.kind], b.body) \in BlockEvent
    BY <1>1, <1>2, <1>3
  <2> QED BY <2>1
<1> HIDE DEF n, m, s, t
<1>7. s \in Seq(BlockEvent) /\ t \in Seq(BlockEvent)
  BY <1>1, <1>4, <1>5, SeqDef
<1> QED BY <1>6, <1>7 DEF s, t

\* What is sent of a block, as it comes or as a replay sends it.
Sent(i, b, deltas) == deltas \in {DeltasOf(i, b), ReplayDeltas(i, b)}

LEMMA DeltasFill ==
    ASSUME NEW x, NEW f, NEW i \in Nat, NEW b, Sound(b),
           NEW deltas, Sent(i, b, deltas)
    PROVE  /\ deltas \in Seq(BlockEvent)
           /\ Run("line", Reader(x, With(f, i, IF b.kind \in DOMAIN BodyDelta
                                               THEN Partial(b, 0, 0) ELSE Held(b))), deltas)
                  = Reader(x, With(f, i, Held(b)))
<1>1. CASE b.kind \notin DOMAIN BodyDelta
  <2>1. deltas = <<>>
    BY <1>1 DEF Sent, DeltasOf, ReplayDeltas
  <2> QED BY <1>1, <2>1, RunOfNone
<1>2. CASE b.kind \in DOMAIN BodyDelta
  <2> DEFINE n == Len(b.body)
             s == [k \in DOMAIN b.body |-> Delta(i, BodyDelta[b.kind], <<b.body[k]>>)]
             t == [k \in DOMAIN b.more |-> Delta(i, MoreDelta[b.kind], <<b.more[k]>>)]
             u == <<Delta(i, BodyDelta[b.kind], b.body)>>
             c == Reader(x, With(f, i, Partial(b, 0, 0)))
             d == Reader(x, With(f, i, Partial(b, n, 0)))
  <2>1. deltas = s \o t \/ deltas = u \o t
    BY <1>2 DEF Sent, DeltasOf, ReplayDeltas
  <2>2. s \in Seq(BlockEvent) /\ t \in Seq(BlockEvent) /\ u \in Seq(BlockEvent)
    BY <1>2, DeltasAreEvents
  <2>3. Run("line", c, s) = d
    BY <1>2, BodyGrows
  <2>4. Run("line", d, t) = Reader(x, With(f, i, Held(b)))
    <3>1. Run("line", d, t) = Reader(x, With(f, i, Partial(b, n, Len(b.more))))
      BY <1>2, RestGrows
    <3> QED BY <1>2, <3>1, PartialIsHeld
  <2>5. Run("line", c, u) = d
    <3>1. Run("line", c, u) = FeedLine(c, Delta(i, BodyDelta[b.kind], b.body))
      BY RunOfOne DEF Step
    <3>2. Grown(Partial(b, 0, 0), Delta(i, BodyDelta[b.kind], b.body)) = Partial(b, n, 0)
      BY <1>2, PiecesGrow
    <3>3. FeedLine(c, Delta(i, BodyDelta[b.kind], b.body))
              = Reader(x, With(f, i, Grown(Partial(b, 0, 0), Delta(i, BodyDelta[b.kind], b.body))))
      BY DeltaGrows
    <3> QED BY <3>1, <3>2, <3>3
  <2> HIDE DEF s, t, u, c, d
  <2> DEFINE g == Reader(x, With(f, i, Held(b)))
  <2> HIDE DEF g
  <2>6. s \o t \in Seq(BlockEvent) /\ Run("line", c, s \o t) = g
    BY <2>2, <2>3, <2>4, RunJoined DEF g
  <2>7. u \o t \in Seq(BlockEvent) /\ Run("line", c, u \o t) = g
    BY <2>2, <2>4, <2>5, RunJoined DEF g
  <2>8. deltas \in Seq(BlockEvent) /\ Run("line", c, deltas) = g
    BY <2>1, <2>6, <2>7
  <2> QED BY <1>2, <2>8 DEF c, g
<1> QED BY <1>1, <1>2

\* A block's events put it, whole, under its number.
LEMMA BlockIsRead ==
    ASSUME NEW x, NEW f, NEW i \in Nat, NEW b, Sound(b),
           NEW deltas, Sent(i, b, deltas)
    PROVE  /\ BlockEvents(i, b, deltas) \in Seq(BlockEvent)
           /\ Run("line", Reader(x, f), BlockEvents(i, b, deltas))
                  = Reader(x, With(f, i, Held(b)))
<1> DEFINE first == [type |-> "content_block_start", index |-> i, block |-> Opening(b)]
           last == [type |-> "content_block_stop", index |-> i]
           c == Reader(x, With(f, i, IF b.kind \in DOMAIN BodyDelta
                                     THEN Partial(b, 0, 0) ELSE Held(b)))
           d == Reader(x, With(f, i, Held(b)))
<1>1. Opening(b) \in Block
  BY OpeningIsBlock DEF Sound
<1>2. <<first>> \in Seq(BlockEvent) /\ <<last>> \in Seq(BlockEvent)
  BY <1>1 DEF BlockEvent
<1>3. deltas \in Seq(BlockEvent) /\ Run("line", c, deltas) = d
  BY DeltasFill
<1>4. Run("line", Reader(x, f), <<first>>) = c
  <2>1. Run("line", Reader(x, f), <<first>>) = FeedLine(Reader(x, f), first)
    BY RunOfOne DEF Step
  <2> QED BY <2>1, BlockOpens
<1>5. Run("line", d, <<last>>) = d
  <2>1. Run("line", d, <<last>>) = FeedLine(d, last)
    BY RunOfOne DEF Step
  <2> QED BY <2>1, BlockCloses
<1>6. BlockEvents(i, b, deltas) = (<<first>> \o deltas) \o <<last>>
  BY DEF BlockEvents
<1> DEFINE b0 == Reader(x, f)
           p == <<first>>
           q == <<last>>
<1> HIDE DEF first, last, c, d, b0, p, q
<1>7. p \in Seq(BlockEvent) /\ Run("line", b0, p) = c
      /\ q \in Seq(BlockEvent) /\ Run("line", d, q) = d
  BY <1>2, <1>4, <1>5 DEF p, q, b0
<1> DEFINE r == p \o deltas
<1>8. r \in Seq(BlockEvent) /\ Run("line", b0, r) = d
  BY <1>3, <1>7, RunJoined
<1> HIDE DEF r
<1>9. r \o q \in Seq(BlockEvent) /\ Run("line", b0, r \o q) = d
  BY <1>7, <1>8, RunJoined
<1> QED BY <1>6, <1>9 DEF b0, d, p, q, r

-----------------------------------------------------------------------------
(* The native message.                                                     *)

\* n values of f, from the one at a on.
From(f, a, n) == [k \in 1..n |-> f[a + k - 1]]

\* The values of a function on an interval, in order, are its values from the first.
LEMMA IntervalInOrder ==
    ASSUME NEW f, NEW a \in Int, NEW n \in Nat, DOMAIN f = a..(a + n - 1)
    PROVE  InOrder(f) = From(f, a, n)
<1>1. Cardinality(DOMAIN f) = n
  <2>1. a + n - 1 \in Int
    OBVIOUS
  <2>2. Cardinality(a..(a + n - 1)) = IF a > a + n - 1 THEN 0 ELSE (a + n - 1) - a + 1
    BY <2>1, FS_Interval
  <2> QED BY <2>2
<1>2. ASSUME NEW i \in a..(a + n - 1)
      PROVE  Cardinality({j \in DOMAIN f : j < i}) = i - a
  <2>1. {j \in DOMAIN f : j < i} = a..(i - 1)
    OBVIOUS
  <2>2. i - 1 \in Int /\ (a > i - 1 => i = a)
    OBVIOUS
  <2>3. Cardinality(a..(i - 1)) = IF a > i - 1 THEN 0 ELSE (i - 1) - a + 1
    BY <2>2, FS_Interval
  <2>4. (IF a > i - 1 THEN 0 ELSE (i - 1) - a + 1) = i - a
    OBVIOUS
  <2> QED BY <2>1, <2>3, <2>4
<1> DEFINE At(k) == CHOOSE i \in DOMAIN f : Cardinality({j \in DOMAIN f : j < i}) = k - 1
<1>3. ASSUME NEW k \in 1..n
      PROVE  (CHOOSE i \in DOMAIN f : Cardinality({j \in DOMAIN f : j < i}) = k - 1) = a + k - 1
  <2> DEFINE P(i) == Cardinality({j \in DOMAIN f : j < i}) = k - 1
             c == CHOOSE i \in DOMAIN f : P(i)
  <2>1. a + k - 1 \in DOMAIN f /\ (a + k - 1) - a = k - 1
    OBVIOUS
  <2>2. P(a + k - 1)
    BY <1>2, <2>1
  <2>3. \A i \in DOMAIN f : P(i) => i = a + k - 1
    BY <1>2
  <2> HIDE DEF P
  <2>4. c \in DOMAIN f /\ P(c)
    BY <2>1, <2>2
  <2>5. c = a + k - 1
    BY <2>3, <2>4
  <2> QED BY <2>5 DEF P
<1>4. \A k \in 1..n : At(k) = a + k - 1
  BY <1>3
<1>5. InOrder(f) = [k \in 1..Cardinality(DOMAIN f) |-> f[At(k)]]
  BY DEF InOrder
<1> HIDE DEF At
<1> QED BY <1>1, <1>4, <1>5 DEF From

\* The blocks, all of them held.
HeldAll(blocks, n) == [i \in 1..n |-> Held(blocks[i])]

LEMMA BlocksAreRead ==
    ASSUME NEW x, NEW blocks \in Seq(Block), \A i \in DOMAIN blocks : Sound(blocks[i]),
           NEW ds, \A i \in DOMAIN blocks : Sent(i, blocks[i], ds[i]),
           NEW q, q = [i \in DOMAIN blocks |-> BlockEvents(i, blocks[i], ds[i])]
    PROVE  /\ FlattenSeq(q) \in Seq(BlockEvent)
           /\ Run("line", Reader(x, Empty), FlattenSeq(q))
                  = Reader(x, HeldAll(blocks, Len(blocks)))
<1> DEFINE n == Len(blocks)
<1>1. n \in Nat /\ DOMAIN blocks = 1..n
  OBVIOUS
<1> HIDE DEF n
<1>2. ASSUME NEW i \in 1..n, NEW f
      PROVE  /\ q[i] \in Seq(BlockEvent)
             /\ Run("line", Reader(x, f), q[i]) = Reader(x, With(f, i, Held(blocks[i])))
  <2>1. i \in Nat /\ Sound(blocks[i]) /\ Sent(i, blocks[i], ds[i])
    BY <1>1
  <2>2. q[i] = BlockEvents(i, blocks[i], ds[i])
    BY <1>1
  <2> QED BY <2>1, <2>2, BlockIsRead
<1>3. q \in Seq(Seq(BlockEvent)) /\ Len(q) = n
  <2>1. q \in [1..n -> Seq(BlockEvent)]
    BY <1>1, <1>2
  <2> QED BY <1>1, <2>1, SeqDef
<1>4. PICK fl \in [0..n -> Seq(BlockEvent)] : LaidOut(q, n, fl) /\ FlattenSeq(q) = fl[n]
  BY <1>1, <1>3, FlattenLaysOut
<1> DEFINE H(m) == HeldAll(blocks, m)
           IsRead(m) == Run("line", Reader(x, Empty), fl[m]) = Reader(x, H(m))
           S == {m \in Nat : m <= n => IsRead(m)}
<1>5. 0 \in S
  <2>1. H(0) = Empty
    <3>1. 1..0 = {}
      OBVIOUS
    <3> QED BY <3>1 DEF HeldAll, Empty
  <2>2. fl[0] = <<>>
    BY <1>4 DEF LaidOut
  <2> QED BY <2>1, <2>2, RunOfNone
<1>6. ASSUME NEW m \in Nat, m \in S PROVE m + 1 \in S
  <2> SUFFICES ASSUME m + 1 <= n, IsRead(m) PROVE IsRead(m + 1)
    <3> HIDE DEF IsRead
    <3> QED BY <1>1, <1>6
  <2>1. Run("line", Reader(x, Empty), fl[m]) = Reader(x, H(m))
    OBVIOUS
  <2>2. m + 1 \in 1..n /\ (m + 1) - 1 = m /\ m \in 0..n
    BY <1>1
  <2>3. fl[m + 1] = fl[m] \o q[m + 1]
    BY <1>4, <2>2 DEF LaidOut
  <2>4. With(H(m), m + 1, Held(blocks[m + 1])) = H(m + 1)
    <3>1. 1..(m + 1) = 1..m \cup {m + 1}
      OBVIOUS
    <3> QED BY <3>1 DEF With, HeldAll
  <2>5. /\ q[m + 1] \in Seq(BlockEvent)
        /\ Run("line", Reader(x, H(m)), q[m + 1]) = Reader(x, With(H(m), m + 1, Held(blocks[m + 1])))
    BY <1>2, <2>2
  <2>6. fl[m] \in Seq(BlockEvent)
    BY <2>2
  <2> HIDE DEF H
  <2>7. Run("line", Reader(x, Empty), fl[m] \o q[m + 1]) = Reader(x, H(m + 1))
    BY <2>1, <2>4, <2>5, <2>6, RunJoined
  <2> QED BY <2>3, <2>7
<1>7. n \in S
  <2> HIDE DEF S
  <2> QED BY <1>1, <1>5, <1>6, FromTheLeast
<1>8. Run("line", Reader(x, Empty), fl[n]) = Reader(x, H(n))
  BY <1>1, <1>7
<1>9. fl[n] \in Seq(BlockEvent)
  BY <1>1
<1> QED BY <1>4, <1>8, <1>9 DEF n

\* The capture when the answer is whole.
Ended(usage, stop, f) ==
    Capture({[usage |-> usage, stop |-> stop]}, f, Yes, No)

LEMMA EndsAreRead ==
    ASSUME NEW first, NEW last, NEW stop, NEW f
    PROVE  /\ FeedLine(NativeNew, [type |-> "message_start", usage |-> first])
                  = Reader({[usage |-> first, stop |-> "none"]}, Empty)
           /\ FeedLine(Reader({[usage |-> first, stop |-> "none"]}, f),
                       [type |-> "message_delta", stop |-> stop, usage |-> last])
                  = Reader({[usage |-> Merged(first, last), stop |-> stop]}, f)
           /\ FeedLine(Reader({[usage |-> Merged(first, last), stop |-> stop]}, f),
                       [type |-> "message_stop"])
                  = Ended(Merged(first, last), stop, f)
<1>1. FeedLine(NativeNew, [type |-> "message_start", usage |-> first])
          = Reader({[usage |-> first, stop |-> "none"]}, Empty)
  <2> DEFINE e == [type |-> "message_start", usage |-> first]
  <2>1. e.type = "message_start" /\ e.usage = first /\ ~NativeNew.unusable /\ ~NativeNew.done
    BY DEF NativeNew
  <2>5. NativeNew = Reader({}, Empty)
    BY DEF NativeNew, Reader, Capture, No
  <2> HIDE DEF e
  <2>2. FeedLine(NativeNew, e) = Start(NativeNew, e)
    BY <2>1 DEF FeedLine
  <2>3. Start(NativeNew, e) = [NativeNew EXCEPT !.message = {[usage |-> first, stop |-> "none"]}]
    BY <2>1 DEF Start
  <2>4. [NativeNew EXCEPT !.message = {[usage |-> first, stop |-> "none"]}]
            = Reader({[usage |-> first, stop |-> "none"]}, Empty)
    <3> DEFINE w == {[usage |-> first, stop |-> "none"]}
    <3> HIDE DEF w
    <3>1. [Reader({}, Empty) EXCEPT !.message = w] = Reader(w, Empty)
      BY ReaderHolds
    <3> QED BY <2>5, <3>1 DEF w
  <2> QED BY <2>2, <2>3, <2>4 DEF e
<1>2. FeedLine(Reader({[usage |-> first, stop |-> "none"]}, f),
               [type |-> "message_delta", stop |-> stop, usage |-> last])
          = Reader({[usage |-> Merged(first, last), stop |-> stop]}, f)
  <2> DEFINE e == [type |-> "message_delta", stop |-> stop, usage |-> last]
             m == [usage |-> first, stop |-> "none"]
             c == Reader({m}, f)
             w == {[usage |-> Merged(first, last), stop |-> stop]}
  <2>1. e.type = "message_delta" /\ e.usage = last /\ e.stop = stop /\ m.usage = first
        /\ c.message = {m} /\ ~c.unusable /\ ~c.done
    BY ReaderHolds
  <2>2. [c EXCEPT !.message = w] = Reader(w, f)
    <3> HIDE DEF w, m
    <3> QED BY ReaderHolds
  <2> HIDE DEF e, m, c
  <2>3. FeedLine(c, e) = Amend(c, e)
    BY <2>1 DEF FeedLine
  <2>4. {[usage |-> Merged(y.usage, e.usage), stop |-> e.stop] : y \in c.message} = w
    BY <2>1
  <2> HIDE DEF w
  <2>5. Amend(c, e) = [c EXCEPT !.message = w]
    BY <2>1, <2>4 DEF Amend
  <2> QED BY <2>2, <2>3, <2>5 DEF e, m, c, w
<1>3. FeedLine(Reader({[usage |-> Merged(first, last), stop |-> stop]}, f),
               [type |-> "message_stop"])
          = Ended(Merged(first, last), stop, f)
  <2> DEFINE e == [type |-> "message_stop"]
             c == Reader({[usage |-> Merged(first, last), stop |-> stop]}, f)
  <2>1. e.type = "message_stop" /\ ~c.unusable /\ ~c.done
    BY ReaderHolds
  <2>2. [c EXCEPT !.done = TRUE] = Ended(Merged(first, last), stop, f)
    <3> DEFINE w == {[usage |-> Merged(first, last), stop |-> stop]}
    <3> HIDE DEF w
    <3>1. [Reader(w, f) EXCEPT !.done = Yes] = Capture(w, f, Yes, No)
      BY CaptureHolds DEF Reader
    <3>2. c = Reader(w, f)
      BY DEF w
    <3> HIDE DEF c
    <3>3. [c EXCEPT !.done = TRUE] = Capture(w, f, Yes, No)
      BY <3>1, <3>2, Zenon DEF Yes
    <3> QED BY <3>3 DEF w, Ended
  <2> HIDE DEF e, c
  <2>3. FeedLine(c, e) = [c EXCEPT !.done = TRUE]
    BY <2>1 DEF FeedLine
  <2> QED BY <2>2, <2>3 DEF e, c
<1> QED BY <1>1, <1>2, <1>3

LEMMA PairIsConcat == ASSUME NEW a, NEW b PROVE <<a, b>> = <<a>> \o <<b>>
<1>1. <<a>> \in Seq({a, b}) /\ <<b>> \in Seq({a, b}) /\ <<a, b>> \in Seq({a, b})
  OBVIOUS
<1>2. Len(<<a, b>>) = 2 /\ Len(<<a>> \o <<b>>) = 2
  OBVIOUS
<1>3. \A i \in 1..2 : <<a, b>>[i] = (<<a>> \o <<b>>)[i]
  OBVIOUS
<1>4. <<a>> \o <<b>> \in Seq({a, b})
  BY <1>1, ConcatProperties
<1> QED BY <1>1, <1>2, <1>3, <1>4, SeqEqual

\* What comes of a message.
Event(U) ==
    [type : {"message_start"}, usage : U]
    \cup [type : {"message_delta"}, stop : STRING, usage : U]
    \cup [type : {"message_stop", "ping", "unknown", "error", "json"}]
    \cup BlockEvent

\* message_stop comes last, and nothing strange comes at all.
LastIsStop(s) ==
    /\ s[Len(s)].type = "message_stop"
    /\ \A k \in 1..(Len(s) - 1) :
          s[k].type \notin {"message_stop", "ping", "unknown", "error", "json"}

\* A message, as it comes or as a replay sends it, is read to its end.
LEMMA MessageIsRead ==
    ASSUME NEW blocks \in Seq(Block), \A i \in DOMAIN blocks : Sound(blocks[i]),
           NEW ds, \A i \in DOMAIN blocks : Sent(i, blocks[i], ds[i]),
           NEW first, NEW last, NEW stop \in STRING
    PROVE  /\ MessageEvents(blocks, ds, first, stop, last) \in Seq(Event({first, last}))
           /\ MessageEvents(blocks, ds, first, stop, last) # <<>>
           /\ LastIsStop(MessageEvents(blocks, ds, first, stop, last))
           /\ Run("line", NativeNew, MessageEvents(blocks, ds, first, stop, last))
                  = Ended(Merged(first, last), stop, HeldAll(blocks, Len(blocks)))
<1> DEFINE E == Event({first, last})
           q == [i \in DOMAIN blocks |-> BlockEvents(i, blocks[i], ds[i])]
           s == [type |-> "message_start", usage |-> first]
           d == [type |-> "message_delta", stop |-> stop, usage |-> last]
           t == [type |-> "message_stop"]
           H == HeldAll(blocks, Len(blocks))
           c0 == Reader({[usage |-> first, stop |-> "none"]}, Empty)
           c1 == Reader({[usage |-> first, stop |-> "none"]}, H)
           c2 == Reader({[usage |-> Merged(first, last), stop |-> stop]}, H)
           c3 == Ended(Merged(first, last), stop, H)
           ps == <<s>>
           pd == <<d>>
           pt == <<t>>
           flat == FlattenSeq(q)
<1>1. s \in E /\ d \in E /\ t \in E
  BY DEF Event
<1>2. flat \in Seq(E) /\ Run("line", c0, flat) = c1
  <2>1. flat \in Seq(BlockEvent) /\ Run("line", c0, flat) = c1
    BY BlocksAreRead
  <2>2. BlockEvent \subseteq E
    BY DEF Event
  <2> HIDE DEF E, flat
  <2> QED BY <2>1, <2>2, SeqMonotonic
<1>3. FeedLine(NativeNew, s) = c0 /\ FeedLine(c1, d) = c2 /\ FeedLine(c2, t) = c3
  <2> HIDE DEF H
  <2> QED BY EndsAreRead
<1>4. MessageEvents(blocks, ds, first, stop, last) = (ps \o flat) \o (pd \o pt)
  <2>1. MessageEvents(blocks, ds, first, stop, last) = (<<s>> \o flat) \o <<d, t>>
    BY DEF MessageEvents
  <2>2. <<d, t>> = <<d>> \o <<t>>
    BY PairIsConcat
  <2> QED BY <2>1, <2>2
<1>9. (ps \o flat) \o (pd \o pt) # <<>> /\ LastIsStop((ps \o flat) \o (pd \o pt))
  <2> DEFINE n == Len(flat)
             z == (ps \o flat) \o (pd \o pt)
  <2>0. flat \in Seq(BlockEvent)
    BY BlocksAreRead
  <2>1. \A k \in 1..n : flat[k].type \in {"content_block_start", "content_block_delta",
                                           "content_block_stop"}
    <3> HIDE DEF flat
    <3> SUFFICES ASSUME NEW k \in 1..n
                 PROVE  flat[k].type \in {"content_block_start", "content_block_delta",
                                           "content_block_stop"}
      OBVIOUS
    <3>1. flat[k] \in BlockEvent
      BY <2>0
    <3> QED BY <3>1 DEF BlockEvent
  <2>2. s.type = "message_start" /\ d.type = "message_delta" /\ t.type = "message_stop"
    OBVIOUS
  <2> HIDE DEF flat, s, d, t
  <2>3. n \in Nat /\ Len(z) = n + 3
    BY <2>0
  <2>4. z[1] = s /\ z[n + 2] = d /\ z[n + 3] = t /\ \A k \in 2..(n + 1) : z[k] = flat[k - 1]
    BY <2>0
  <2> HIDE DEF n, z
  <2>5. ASSUME NEW k \in 1..(n + 2)
        PROVE  z[k].type \notin {"message_stop", "ping", "unknown", "error", "json"}
    <3>1. CASE k = 1
      BY <2>2, <2>4, <3>1
    <3>2. CASE k = n + 2
      BY <2>2, <2>4, <3>2
    <3>3. CASE k \in 2..(n + 1)
      <4>1. k - 1 \in 1..n /\ z[k] = flat[k - 1]
        BY <2>3, <2>4, <3>3
      <4> QED BY <2>1, <4>1
    <3> QED BY <2>3, <3>1, <3>2, <3>3
  <2>6. LastIsStop(z)
    <3>1. Len(z) - 1 = n + 2
      BY <2>3
    <3> QED BY <2>2, <2>3, <2>4, <2>5, <3>1 DEF LastIsStop
  <2>7. z # <<>>
    BY <2>3
  <2> QED BY <2>6, <2>7 DEF z
<1> HIDE DEF s, d, t, E, flat, c0, c1, c2, c3
<1>5. /\ ps \in Seq(E) /\ Run("line", NativeNew, ps) = c0
      /\ pd \in Seq(E) /\ Run("line", c1, pd) = c2
      /\ pt \in Seq(E) /\ Run("line", c2, pt) = c3
  BY <1>1, <1>3, RunOfOne DEF Step
<1> HIDE DEF ps, pd, pt
<1> DEFINE l == ps \o flat
           r == pd \o pt
<1>6. l \in Seq(E) /\ Run("line", NativeNew, l) = c1
  BY <1>2, <1>5, RunJoined
<1>7. r \in Seq(E) /\ Run("line", c1, r) = c3
  BY <1>5, RunJoined
<1> HIDE DEF l, r
<1>8. l \o r \in Seq(E) /\ Run("line", NativeNew, l \o r) = c3
  BY <1>6, <1>7, RunJoined
<1>10. l \o r # <<>> /\ LastIsStop(l \o r)
  BY <1>9 DEF l, r, ps, pd, pt
<1> QED BY <1>4, <1>8, <1>10 DEF l, r, E, c3

LEMMA HeldIsAssembled == ASSUME NEW b, Sound(b) PROVE Assembled(Held(b)) = b
<1>1. b \in Block
  BY DEF Sound
<1>2. CASE IsTool(b)
  <2> DEFINE e == [b EXCEPT !.body = <<>>]
             acc == [block |-> e, json |-> b.body]
  <2>1. Held(b) = acc
    BY <1>2 DEF Held
  <2>2. acc.block = e /\ acc.json = b.body /\ e.kind = b.kind
    BY <1>1 DEF Block
  <2>3. [e EXCEPT !.body = b.body] = b
    BY <1>1 DEF Block
  <2>4. b.body = <<>> => e = b
    BY <1>1 DEF Block
  <2> HIDE DEF acc, e
  <2>5. Assembled(acc) = IF e.kind = "tool_use" \/ b.body # <<>>
                         THEN [e EXCEPT !.body = b.body] ELSE e
    BY <2>2 DEF Assembled
  <2> QED BY <2>1, <2>3, <2>4, <2>5
<1>3. CASE ~IsTool(b)
  <2> DEFINE acc == [block |-> b, json |-> <<>>]
  <2>1. Held(b) = acc /\ acc.block = b /\ acc.json = <<>>
    BY <1>3 DEF Held
  <2> HIDE DEF acc
  <2> QED BY <1>3, <2>1 DEF Assembled, IsTool
<1> QED BY <1>2, <1>3

\* No piece of a block breaks what it is put together to.
Unbroken(blocks) == \A i \in DOMAIN blocks : Range(blocks[i].body) \cap Broken = {}

\* What is whole is given as it was.
LEMMA EndedFinishes ==
    ASSUME NEW blocks \in Seq(Block), \A i \in DOMAIN blocks : Sound(blocks[i]),
           NEW usage, NEW stop, stop # "none",
           NEW c, c = Ended(usage, stop, HeldAll(blocks, Len(blocks))),
           NEW m, m = [blocks |-> blocks, usage |-> usage, stop |-> stop]
    PROVE  /\ FinishMessage(c, TRUE) = {}
           /\ FinishMessage(c, FALSE) \in {{}, {m}}
           /\ FinishMessage(c, FALSE) = {} => ~Unbroken(blocks)
<1> DEFINE n == Len(blocks)
           w == [usage |-> usage, stop |-> stop]
           f == [i \in DOMAIN c.blocks |-> Assembled(c.blocks[i])]
<1>1. n \in Nat /\ DOMAIN blocks = 1..n
  OBVIOUS
<1>2. c.message = {w} /\ c.blocks = HeldAll(blocks, n) /\ c.done /\ ~c.unusable
  <2>1. c = Capture({w}, HeldAll(blocks, n), Yes, No)
    BY DEF Ended
  <2> HIDE DEF w
  <2>2. c.message = {w} /\ c.blocks = HeldAll(blocks, n) /\ c.done = Yes /\ c.unusable = No
    BY <2>1, CaptureHolds
  <2> QED BY <2>2 DEF Yes, No
<1>3. DOMAIN c.blocks = 1..n /\ \A i \in 1..n : c.blocks[i] = Held(blocks[i])
  BY <1>2 DEF HeldAll
<1>4. ASSUME NEW i \in 1..n PROVE Assembled(Held(blocks[i])) = blocks[i]
  BY <1>1, HeldIsAssembled
<1>5. InOrder(f) = blocks
  <2>1. DOMAIN f = 1..(1 + n - 1)
    BY <1>1, <1>3
  <2>2. \A k \in 1..n : f[k] = blocks[k]
    BY <1>3, <1>4
  <2> HIDE DEF f
  <2>3. InOrder(f) = [k \in 1..n |-> f[1 + k - 1]]
    <3>1. InOrder(f) = From(f, 1, n)
      BY <1>1, <2>1, IntervalInOrder
    <3> QED BY <3>1 DEF From
  <2>4. InOrder(f) = [k \in 1..n |-> blocks[k]]
    BY <2>2, <2>3
  <2> QED BY <1>1, <2>4
<1> DEFINE Json == \A i \in DOMAIN c.blocks : IsJson(c.blocks[i])
<1>6. Unbroken(blocks) => Json
  <2> SUFFICES ASSUME Unbroken(blocks), NEW i \in 1..n, NEW k \in DOMAIN Held(blocks[i]).json
               PROVE  Held(blocks[i]).json[k] \notin Broken
    BY <1>3 DEF IsJson
  <2>1. Range(blocks[i].body) \cap Broken = {}
    BY <1>1 DEF Unbroken
  <2>2. CASE IsTool(blocks[i])
    BY <2>1, <2>2 DEF Held, Range
  <2>3. CASE ~IsTool(blocks[i])
    BY <2>3 DEF Held
  <2> QED BY <2>2, <2>3
<1>7. ASSUME NEW partial
      PROVE  FinishMessage(c, partial) = {m1 \in {m} : ~partial /\ Json}
  <2>1. w.usage = usage /\ w.stop = stop
    OBVIOUS
  <2> HIDE DEF w, f, Json
  <2>2. {y \in c.message : c.done /\ ~c.unusable /\ ~partial /\ y.stop # "none" /\ Json}
            = {y \in {w} : ~partial /\ Json}
    BY <1>2, <2>1
  <2>3. FinishMessage(c, partial)
            = {[blocks |-> InOrder(f), usage |-> y.usage, stop |-> y.stop] :
                  y \in {z \in c.message : c.done /\ ~c.unusable /\ ~partial
                                           /\ z.stop # "none" /\ Json}}
    BY Zenon DEF FinishMessage, f, Json
  <2>4. FinishMessage(c, partial)
            = {[blocks |-> blocks, usage |-> y.usage, stop |-> y.stop] :
                  y \in {z \in {w} : ~partial /\ Json}}
    BY <1>5, <2>2, <2>3
  <2> QED BY <2>1, <2>4
<1> HIDE DEF Json
<1>8. FinishMessage(c, TRUE) = {} /\ FinishMessage(c, FALSE) \in {{}, {m}}
  BY <1>7
<1>9. Unbroken(blocks) => FinishMessage(c, FALSE) # {}
  BY <1>6, <1>7
<1> QED BY <1>8, <1>9

-----------------------------------------------------------------------------
(* Prefixes of a native stream.                                            *)

IsCapture(c) == c = Capture(c.message, c.blocks, c.done, c.unusable)

\* Whether the first n lines make the answer whole, and nothing strange came before.
WholeAt(s, n) == \E k \in 1..n : /\ s[k].type = "message_stop"
                                 /\ \A j \in 1..k : s[j].type \notin {"unknown", "error"}

LEMMA CaptureFields ==
    ASSUME NEW c, IsCapture(c), NEW v
    PROVE  /\ [c EXCEPT !.message = v] = Capture(v, c.blocks, c.done, c.unusable)
           /\ [c EXCEPT !.blocks = v] = Capture(c.message, v, c.done, c.unusable)
           /\ [c EXCEPT !.done = v] = Capture(c.message, c.blocks, v, c.unusable)
           /\ [c EXCEPT !.unusable = v] = Capture(c.message, c.blocks, c.done, v)
<1> DEFINE x == c.message
           f == c.blocks
           d == c.done
           u == c.unusable
<1>1. c = Capture(x, f, d, u)
  BY DEF IsCapture
<1> HIDE DEF x, f, d, u
<1>2. /\ [Capture(x, f, d, u) EXCEPT !.message = v] = Capture(v, f, d, u)
      /\ [Capture(x, f, d, u) EXCEPT !.blocks = v] = Capture(x, v, d, u)
      /\ [Capture(x, f, d, u) EXCEPT !.done = v] = Capture(x, f, v, u)
      /\ [Capture(x, f, d, u) EXCEPT !.unusable = v] = Capture(x, f, d, v)
  BY CaptureHolds
<1> QED BY <1>1, <1>2 DEF x, f, d, u

LEMMA CapturesAre == ASSUME NEW x, NEW f, NEW d, NEW u PROVE IsCapture(Capture(x, f, d, u))
BY CaptureHolds DEF IsCapture

\* An event nobody knows makes the capture unusable.
LEMMA UnknownSpoils ==
    ASSUME NEW c, IsCapture(c), NEW e
    PROVE  IsCapture(Unknown(c, e)) /\ Unknown(c, e).unusable /\ Unknown(c, e).done = c.done
<1>2. Unknown(c, e) = [c EXCEPT !.unusable = Yes]
  BY Zenon DEF Unknown, Yes
<1>3. Unknown(c, e) = Capture(c.message, c.blocks, c.done, Yes)
  BY <1>2, CaptureFields
<1>4. Unknown(c, e).unusable = Yes /\ Unknown(c, e).done = c.done
  BY <1>3, CaptureHolds
<1>5. IsCapture(Unknown(c, e))
  BY <1>3, CapturesAre
<1> QED BY <1>4, <1>5 DEF Yes

\* What one line does to a capture that still reads.
LEMMA LineEffect ==
    ASSUME NEW c, IsCapture(c), ~c.unusable, ~c.done, NEW e, NEW d, d = FeedLine(c, e)
    PROVE  /\ IsCapture(d)
           /\ d.done => e.type = "message_stop"
           /\ e.type = "message_stop" => d.done /\ ~d.unusable
           /\ e.type \in {"unknown", "error"} => d.unusable
<1>1. CASE e.type \in {"json", "ping", "content_block_stop"}
  <2>1. d = c
    BY <1>1 DEF FeedLine
  <2> QED BY <1>1, <2>1
<1>2. CASE e.type = "message_start"
  <2>1. d = Start(c, e)
    BY <1>2 DEF FeedLine
  <2> DEFINE w == {[usage |-> e.usage, stop |-> "none"]}
  <2> HIDE DEF w
  <2>2. d = [c EXCEPT !.message = w]
    BY <2>1 DEF Start, w
  <2>3. d = Capture(w, c.blocks, c.done, c.unusable)
    BY <2>2, CaptureFields
  <2> QED BY <1>2, <2>3, CapturesAre, CaptureHolds
<1>3. CASE e.type = "content_block_start"
  <2>1. d = Open(c, e)
    BY <1>3 DEF FeedLine
  <2> DEFINE w == With(c.blocks, e.index, [block |-> e.block, json |-> <<>>])
  <2>2. d = [c EXCEPT !.blocks = w]
    BY <2>1 DEF Open
  <2> HIDE DEF w
  <2>3. d = Capture(c.message, w, c.done, c.unusable)
    BY <2>2, CaptureFields
  <2> QED BY <1>3, <2>3, CapturesAre, CaptureHolds
<1>4. CASE e.type = "content_block_delta"
  <2>1. d = Grow(c, e)
    BY <1>4 DEF FeedLine
  <2>2. CASE e.index \in DOMAIN c.blocks
    <3> DEFINE w == [c.blocks EXCEPT ![e.index] = Grown(@, e)]
    <3>1. d = [c EXCEPT !.blocks = w]
      BY <2>1, <2>2 DEF Grow
    <3> HIDE DEF w
    <3>3. [c EXCEPT !.blocks = w] = Capture(c.message, w, c.done, c.unusable)
      BY CaptureFields
    <3>2. d = Capture(c.message, w, c.done, c.unusable)
      BY <3>1, <3>3
    <3> QED BY <1>4, <3>2, CapturesAre, CaptureHolds
  <2>3. CASE e.index \notin DOMAIN c.blocks
    <3>1. d = Unknown(c, e)
      BY <2>1, <2>3 DEF Grow
    <3> QED BY <1>4, <3>1, UnknownSpoils
  <2> QED BY <2>2, <2>3
<1>5. CASE e.type = "message_delta"
  <2>1. d = Amend(c, e)
    BY <1>5 DEF FeedLine
  <2>2. CASE c.message = {}
    <3>1. d = Unknown(c, e)
      BY <2>1, <2>2 DEF Amend
    <3> QED BY <1>5, <3>1, UnknownSpoils
  <2>3. CASE c.message # {}
    <3> DEFINE w == {[usage |-> Merged(m.usage, e.usage), stop |-> e.stop] : m \in c.message}
    <3>1. d = [c EXCEPT !.message = w]
      BY <2>1, <2>3 DEF Amend
    <3> HIDE DEF w
    <3>2. d = Capture(w, c.blocks, c.done, c.unusable)
      BY <3>1, CaptureFields
    <3> QED BY <1>5, <3>2, CapturesAre, CaptureHolds
  <2> QED BY <2>2, <2>3
<1>6. CASE e.type = "message_stop"
  <2>1. d = [c EXCEPT !.done = TRUE]
    BY <1>6 DEF FeedLine
  <2>2. d = [c EXCEPT !.done = Yes]
    BY <2>1, Zenon DEF Yes
  <2>3. d = Capture(c.message, c.blocks, Yes, c.unusable)
    BY <2>2, CaptureFields
  <2>4. d.done = Yes /\ d.unusable = c.unusable
    BY <2>3, CaptureHolds
  <2>5. IsCapture(d)
    BY <2>3, CapturesAre
  <2> QED BY <1>6, <2>4, <2>5 DEF Yes
<1>7. CASE e.type \notin {"json", "ping", "content_block_stop", "message_start",
                          "content_block_start", "content_block_delta", "message_delta",
                          "message_stop"}
  <2>1. d = Unknown(c, e)
    BY <1>7 DEF FeedLine
  <2> QED BY <1>7, <2>1, UnknownSpoils
<1> QED BY <1>1, <1>2, <1>3, <1>4, <1>5, <1>6, <1>7

\* A capture that is done and usable has read an answer to its end.
LEMMA ReadingTells ==
    ASSUME NEW E, NEW s \in Seq(E), NEW c, c = Run("line", NativeNew, s), c.done, ~c.unusable
    PROVE  WholeAt(s, Len(s))
<1> DEFINE n == Len(s)
<1>1. n \in Nat /\ DOMAIN s = 1..n
  OBVIOUS
<1> HIDE DEF n
<1>2. PICK tr : Trace("line", NativeNew, s, n, tr) /\ c = tr[n]
  BY <1>1, RunTraced
<1> DEFINE Tells(k) ==
             /\ IsCapture(tr[k])
             /\ ~tr[k].unusable /\ ~tr[k].done =>
                   \A j \in 1..k : s[j].type \notin {"message_stop", "unknown", "error"}
             /\ ~tr[k].unusable /\ tr[k].done => WholeAt(s, k)
           S == {k \in Nat : k <= n => Tells(k)}
<1>3. 0 \in S
  <2>1. tr[0] = NativeNew /\ 1..0 = {}
    BY <1>2 DEF Trace
  <2>2. IsCapture(NativeNew) /\ ~NativeNew.done
    BY CapturesAre DEF NativeNew, Capture
  <2> QED BY <2>1, <2>2
<1>4. ASSUME NEW k \in Nat, k \in S PROVE k + 1 \in S
  <2> SUFFICES ASSUME k + 1 <= n, Tells(k) PROVE Tells(k + 1)
    <3> HIDE DEF Tells
    <3> QED BY <1>1, <1>4
  <2> DEFINE e == s[k + 1]
  <2>1. tr[k + 1] = FeedLine(tr[k], e)
    <3>1. k + 1 \in 1..n /\ (k + 1) - 1 = k
      BY <1>1
    <3> QED BY <1>2, <3>1 DEF Trace, Step
  <2>2. 1..(k + 1) = 1..k \cup {k + 1}
    OBVIOUS
  <2>3. CASE tr[k].unusable \/ tr[k].done
    <3>1. tr[k + 1] = tr[k]
      BY <2>1, <2>3 DEF FeedLine
    <3>2. WholeAt(s, k) => WholeAt(s, k + 1)
      BY <2>2 DEF WholeAt
    <3> QED BY <2>3, <3>1, <3>2
  <2>4. CASE ~tr[k].unusable /\ ~tr[k].done
    <3>1. /\ IsCapture(tr[k + 1])
          /\ tr[k + 1].done => e.type = "message_stop"
          /\ e.type = "message_stop" => tr[k + 1].done /\ ~tr[k + 1].unusable
          /\ e.type \in {"unknown", "error"} => tr[k + 1].unusable
      BY <2>1, <2>4, LineEffect
    <3>2. \A j \in 1..k : s[j].type \notin {"message_stop", "unknown", "error"}
      BY <2>4
    <3>3. e.type = "message_stop" => WholeAt(s, k + 1)
      BY <2>2, <3>2 DEF WholeAt
    <3> QED BY <2>2, <3>1, <3>2, <3>3
  <2> QED BY <2>3, <2>4
<1>5. n \in S
  <2> HIDE DEF S
  <2> QED BY <1>1, <1>3, <1>4, FromTheLeast
<1> QED BY <1>1, <1>2, <1>5 DEF n

-----------------------------------------------------------------------------
(* The scripts of the native way.                                          *)

LEMMA AnswersAre ==
    ASSUME NEW m, IsAnswer(m)
    PROVE  m.blocks \in Seq(Block) /\ \A i \in DOMAIN m.blocks : Sound(m.blocks[i])
BY DEF IsAnswer, Sound, IsTool

Events(m) == Event({m.first, m.last})

\* The capture at the end of an answer.
Final(m) == Ended(Merged(m.first, m.last), m.stop, HeldAll(m.blocks, Len(m.blocks)))

LEMMA AnswerIsRead ==
    ASSUME NEW m, IsAnswer(m)
    PROVE  /\ AnthropicEvents(m) \in Seq(Events(m)) /\ AnthropicEvents(m) # <<>>
           /\ Run("line", NativeNew, AnthropicEvents(m)) = Final(m)
           /\ LastIsStop(AnthropicEvents(m))
<1> DEFINE ds == [i \in DOMAIN m.blocks |-> DeltasOf(i, m.blocks[i])]
<1>1. \A i \in DOMAIN m.blocks : Sent(i, m.blocks[i], ds[i])
  BY DEF Sent
<1>2. m.blocks \in Seq(Block) /\ (\A i \in DOMAIN m.blocks : Sound(m.blocks[i]))
      /\ m.stop \in STRING
  BY AnswersAre DEF IsAnswer
<1>3. AnthropicEvents(m) = MessageEvents(m.blocks, ds, m.first, m.stop, m.last)
  BY DEF AnthropicEvents
<1> HIDE DEF ds
<1> QED BY <1>1, <1>2, <1>3, MessageIsRead DEF Final, Events

\* The ways a script is disturbed.
LEMMA Inserted ==
    ASSUME NEW E, NEW s \in Seq(E), NEW e \in E, NEW k \in 1..Len(s), NEW z, z = InsertAt(s, k, e)
    PROVE  /\ z \in Seq(E) /\ Len(z) = Len(s) + 1
           /\ \A j \in 1..(k - 1) : z[j] = s[j]
           /\ z[k] = e
           /\ \A j \in (k + 1)..(Len(s) + 1) : z[j] = s[j - 1]
<1> DEFINE p == SubSeq(s, 1, k - 1)
           q == SubSeq(s, k, Len(s))
<1>1. p \in Seq(E) /\ Len(p) = k - 1 /\ \A j \in 1..(k - 1) : p[j] = s[j]
  OBVIOUS
<1>2. q \in Seq(E) /\ Len(q) = Len(s) - k + 1 /\ \A j \in 1..(Len(s) - k + 1) : q[j] = s[k + j - 1]
  OBVIOUS
<1>3. z = (p \o <<e>>) \o q
  BY DEF InsertAt
<1> HIDE DEF p, q
<1> DEFINE r == p \o <<e>>
<1>4. r \in Seq(E) /\ Len(r) = k /\ r[k] = e /\ \A j \in 1..(k - 1) : r[j] = s[j]
  BY <1>1
<1> HIDE DEF r
<1>5. z = r \o q
  BY <1>3 DEF r
<1>6. z \in Seq(E) /\ Len(z) = Len(s) + 1
  BY <1>2, <1>4, <1>5
<1>7. \A j \in 1..k : z[j] = r[j]
  BY <1>2, <1>4, <1>5
<1>8. ASSUME NEW j \in (k + 1)..(Len(s) + 1) PROVE z[j] = s[j - 1]
  <2>1. z[j] = q[j - k] /\ j - k \in 1..(Len(s) - k + 1) /\ k + (j - k) - 1 = j - 1
    BY <1>2, <1>4, <1>5
  <2> QED BY <1>2, <2>1
<1> QED BY <1>4, <1>6, <1>7, <1>8

\* A keep-alive changes nothing.
LEMMA PingPasses ==
    ASSUME NEW E, NEW s \in Seq(E), NEW e \in E, e.type = "ping", NEW k \in 1..Len(s), NEW c
    PROVE  Run("line", c, InsertAt(s, k, e)) = Run("line", c, s)
<1> DEFINE p == SubSeq(s, 1, k - 1)
           q == SubSeq(s, k, Len(s))
           w == <<e>>
           r == p \o w
           d == Run("line", c, p)
<1>1. p \in Seq(E) /\ q \in Seq(E) /\ w \in Seq(E)
  OBVIOUS
<1>2. p \o q = s
  <2>1. k - 1 \in (1 - 1)..Len(s) /\ Len(s) \in (k - 1)..Len(s) /\ 1 \in 1..(Len(s) + 1)
    OBVIOUS
  <2>2. SubSeq(s, 1, k - 1) \o SubSeq(s, (k - 1) + 1, Len(s)) = SubSeq(s, 1, Len(s))
    BY <2>1, ConcatAdjacentSubSeq
  <2>3. (k - 1) + 1 = k /\ SubSeq(s, 1, Len(s)) = s
    BY SubSeqFull
  <2> QED BY <2>2, <2>3
<1>3. InsertAt(s, k, e) = r \o q
  BY DEF InsertAt
<1>4. Run("line", d, w) = d
  <2>1. Run("line", d, w) = FeedLine(d, e)
    BY RunOfOne DEF Step
  <2>2. FeedLine(d, e) = d
    BY DEF FeedLine
  <2> QED BY <2>1, <2>2
<1> HIDE DEF p, q, w
<1>5. r \in Seq(E) /\ Run("line", c, r) = d
  BY <1>1, <1>4, RunJoined
<1> HIDE DEF r
<1>6. Run("line", c, r \o q) = Run("line", d, q)
  BY <1>1, <1>5, RunOfBoth
<1>7. Run("line", c, p \o q) = Run("line", d, q)
  BY <1>1, RunOfBoth
<1> QED BY <1>2, <1>3, <1>6, <1>7

\* Only a script that nothing disturbs but a keep-alive is ever whole, at its end,
\* and there the capture holds the answer.
LEMMA ScriptsTell ==
    ASSUME NEW m, IsAnswer(m), NEW s \in Scripts("messages", m)
    PROVE  /\ s \in Seq(Events(m)) /\ s # <<>>
           /\ \A n \in 1..Len(s) :
                 WholeAt(s, n) => n = Len(s) /\ Run("line", NativeNew, s) = Final(m)
<1> DEFINE a == AnthropicEvents(m)
           L == Len(a)
           E == Events(m)
<1>1. a \in Seq(E) /\ a # <<>> /\ Run("line", NativeNew, a) = Final(m) /\ LastIsStop(a)
  BY AnswerIsRead
<1>2. L \in Nat \ {0} /\ DOMAIN a = 1..L
  BY <1>1
<1>3. \A t \in {"ping", "unknown", "error", "json"} : [type |-> t] \in E
  BY DEF Events, Event
<1>4. /\ a[L].type = "message_stop"
      /\ \A k \in 1..(L - 1) :
            a[k].type \notin {"message_stop", "ping", "unknown", "error", "json"}
  BY <1>1 DEF LastIsStop
<1>5. Clean("messages", m) = a
  BY DEF Clean
<1> HIDE DEF a, L, E
<1>6. CASE s = a
  <2>1. \A n \in 1..L : WholeAt(a, n) => n = L
    BY <1>2, <1>4 DEF WholeAt
  <2> QED BY <1>1, <1>6, <2>1 DEF L, E
<1>7. ASSUME NEW k \in 1..L, NEW t \in {"ping", "unknown"}, s = InsertAt(a, k, [type |-> t])
      PROVE  /\ s \in Seq(E) /\ s # <<>>
             /\ \A n \in 1..Len(s) :
                   WholeAt(s, n) => n = Len(s) /\ Run("line", NativeNew, s) = Final(m)
  <2> DEFINE e == [type |-> t]
  <2>1. e \in E /\ e.type = t
    BY <1>3
  <2> HIDE DEF e
  <2>2. /\ s \in Seq(E) /\ Len(s) = L + 1
        /\ \A j \in 1..(k - 1) : s[j] = a[j]
        /\ s[k] = e
        /\ \A j \in (k + 1)..(L + 1) : s[j] = a[j - 1]
    <3>1. s = InsertAt(a, k, e)
      BY <1>7 DEF e
    <3>2. k \in 1..Len(a) /\ L = Len(a)
      BY DEF L
    <3>3. /\ s \in Seq(E) /\ Len(s) = Len(a) + 1
          /\ \A j \in 1..(k - 1) : s[j] = a[j]
          /\ s[k] = e
          /\ \A j \in (k + 1)..(Len(a) + 1) : s[j] = a[j - 1]
      <4>1. a \in Seq(E) /\ e \in E /\ k \in 1..Len(a)
        BY <1>1, <2>1, <3>2
      <4> HIDE DEF E
      <4>2. s \in Seq(E) /\ Len(s) = Len(a) + 1
        BY <3>1, <4>1, Inserted
      <4>3. \A j \in 1..(k - 1) : s[j] = a[j]
        BY <3>1, <4>1, Inserted
      <4>4. s[k] = e
        BY <3>1, <4>1, Inserted
      <4>5. \A j \in (k + 1)..(Len(a) + 1) : s[j] = a[j - 1]
        BY <3>1, <4>1, Inserted
      <4> QED BY <4>2, <4>3, <4>4, <4>5
    <3> QED BY <3>2, <3>3
  <2>3. ASSUME NEW n \in 1..(L + 1), WholeAt(s, n) PROVE n = L + 1 /\ t = "ping"
    <3>1. PICK h \in 1..n : /\ s[h].type = "message_stop"
                            /\ \A j \in 1..h : s[j].type \notin {"unknown", "error"}
      BY <2>3 DEF WholeAt
    <3>2. h = L + 1
      <4>1. CASE h < k
        <5>1. s[h] = a[h] /\ h \in 1..(L - 1)
          BY <1>2, <2>2, <4>1
        <5> QED BY <1>4, <3>1, <5>1
      <4>2. CASE h = k
        BY <2>1, <2>2, <3>1, <4>2
      <4>3. CASE h > k
        <5>1. s[h] = a[h - 1] /\ h - 1 \in 1..L
          BY <1>2, <2>2, <4>3
        <5>2. h - 1 \notin 1..(L - 1)
          BY <1>4, <3>1, <5>1
        <5> QED BY <1>2, <5>1, <5>2
      <4> QED BY <1>2, <4>1, <4>2, <4>3
    <3>3. k \in 1..h
      BY <1>2, <3>2
    <3>4. t # "unknown"
      BY <2>1, <2>2, <3>1, <3>3
    <3> QED BY <1>2, <3>2, <3>4
  <2>4. t = "ping" => Run("line", NativeNew, s) = Final(m)
    <3> SUFFICES ASSUME t = "ping" PROVE Run("line", NativeNew, s) = Final(m)
      OBVIOUS
    <3>1. s = InsertAt(a, k, e) /\ k \in 1..Len(a)
      BY <1>7 DEF e, L
    <3>2. Run("line", NativeNew, InsertAt(a, k, e)) = Run("line", NativeNew, a)
      BY <1>1, <2>1, <3>1, PingPasses
    <3> QED BY <1>1, <3>1, <3>2
  <2>5. s # <<>>
    BY <1>2, <2>2
  <2> QED BY <2>2, <2>3, <2>4, <2>5
<1>8. ASSUME NEW k \in 0..(L - 1), s = SubSeq(a, 1, k) \o <<[type |-> "error"]>>
      PROVE  s \in Seq(E) /\ s # <<>> /\ \A n \in 1..Len(s) : ~WholeAt(s, n)
  <2> DEFINE e == [type |-> "error"]
             p == SubSeq(a, 1, k)
  <2>1. e \in E /\ e.type = "error"
    BY <1>3
  <2>2. p \in Seq(E) /\ Len(p) = k /\ \A j \in 1..k : p[j] = a[j]
    BY <1>1, <1>2 DEF L
  <2>3. s = p \o <<e>>
    BY <1>8
  <2> HIDE DEF e, p
  <2>4. s \in Seq(E) /\ Len(s) = k + 1 /\ s[k + 1] = e /\ \A j \in 1..k : s[j] = p[j]
    BY <2>1, <2>2, <2>3
  <2>5. \A j \in 1..(k + 1) : s[j].type # "message_stop"
    BY <1>2, <1>4, <2>1, <2>2, <2>4
  <2> QED BY <2>4, <2>5 DEF WholeAt
<1>9. ASSUME s = <<[type |-> "json"]>>
      PROVE  s \in Seq(E) /\ s # <<>> /\ \A n \in 1..Len(s) : ~WholeAt(s, n)
  <2> DEFINE e == [type |-> "json"]
  <2>1. e \in E /\ e.type = "json" /\ s = <<e>>
    BY <1>3, <1>9
  <2> HIDE DEF e
  <2>2. s \in Seq(E) /\ Len(s) = 1 /\ s[1] = e
    BY <2>1
  <2> QED BY <2>1, <2>2 DEF WholeAt
<1>10. \/ s = a
       \/ \E k \in 1..L, t \in {"ping", "unknown"} : s = InsertAt(a, k, [type |-> t])
       \/ \E k \in 0..(L - 1) : s = SubSeq(a, 1, k) \o <<[type |-> "error"]>>
       \/ s = <<[type |-> "json"]>>
  BY <1>5 DEF Scripts, Disturbed, L
<1> QED BY <1>6, <1>7, <1>8, <1>9, <1>10 DEF E

-----------------------------------------------------------------------------
(* The native way, step by step.                                           *)

\* The stream is one of its answer's, and no more of it has come than there is.
InStream ==
    /\ answer \in Answers
    /\ dialect = "gemini" => ForGemini(answer)
    /\ script \in Scripts(dialect, answer)
    /\ at \in 0..(2 * Len(script))

\* The capture has read what came, and only a whole answer is ever stored.
NativeReads ==
    dialect = "messages" =>
        /\ native = Run("line", NativeNew, SubSeq(script, 1, at \div 2))
        /\ Results \subseteq {PlainMessage(answer)}
        /\ Results # {} => WholeAt(script, at \div 2)

NativeInv == InStream /\ NativeReads

\* The native scripts, whatever came of them.
LEMMA NativeScript ==
    ASSUME InStream, dialect = "messages"
    PROVE  /\ IsAnswer(answer) /\ script \in Seq(Events(answer)) /\ script # <<>>
           /\ \A n \in 0..Len(script) :
                 WholeAt(script, n) => n = Len(script)
                                       /\ Run("line", NativeNew, script) = Final(answer)
<1>1. IsAnswer(answer) /\ script \in Scripts("messages", answer)
  BY StreamsAssumption DEF InStream
<1>2. /\ script \in Seq(Events(answer)) /\ script # <<>>
      /\ \A n \in 1..Len(script) :
            WholeAt(script, n) => n = Len(script)
                                  /\ Run("line", NativeNew, script) = Final(answer)
  BY <1>1, ScriptsTell
<1>3. ~WholeAt(script, 0)
  BY DEF WholeAt
<1>4. \A n \in 0..Len(script) : n \in 1..Len(script) \/ n = 0
  BY <1>2
<1> QED BY <1>1, <1>2, <1>3, <1>4

\* A prefix that leaves the capture done and usable is the whole answer.
LEMMA DoneIsWhole ==
    ASSUME InStream, dialect = "messages", NEW n \in 0..Len(script),
           NEW c, c = Run("line", NativeNew, SubSeq(script, 1, n))
    PROVE  /\ c.done /\ ~c.unusable => WholeAt(script, n)
           /\ WholeAt(script, n) => n = Len(script) /\ c = Final(answer)
<1> DEFINE p == SubSeq(script, 1, n)
           E == Events(answer)
<1>1. script \in Seq(E)
  BY NativeScript
<1>2. p \in Seq(E) /\ Len(p) = n /\ \A j \in 1..n : p[j] = script[j]
  BY <1>1
<1>3. n = Len(script) => p = script
  BY <1>1, SubSeqFull
<1> HIDE DEF p, E
<1>4. WholeAt(p, n) => WholeAt(script, n)
  <2> SUFFICES ASSUME WholeAt(p, n) PROVE WholeAt(script, n)
    OBVIOUS
  <2>1. PICK k \in 1..n : /\ p[k].type = "message_stop"
                          /\ \A j \in 1..k : p[j].type \notin {"unknown", "error"}
    BY DEF WholeAt
  <2>2. \A j \in 1..k : j \in 1..n
    BY <1>2
  <2>3. script[k].type = "message_stop"
        /\ \A j \in 1..k : script[j].type \notin {"unknown", "error"}
    BY <1>2, <2>1, <2>2
  <2> QED BY <2>3 DEF WholeAt
<1>5. c.done /\ ~c.unusable => WholeAt(p, n)
  BY <1>2, ReadingTells DEF p
<1> QED BY <1>3, <1>4, <1>5, NativeScript DEF p

LEMMA FinalFinishes ==
    ASSUME NEW m, IsAnswer(m)
    PROVE  /\ FinishMessage(Final(m), TRUE) = {}
           /\ FinishMessage(Final(m), FALSE) \in {{}, {PlainMessage(m)}}
           /\ Intact(m) => FinishMessage(Final(m), FALSE) = {PlainMessage(m)}
<1> DEFINE u == Merged(m.first, m.last)
           p == [blocks |-> m.blocks, usage |-> u, stop |-> m.stop]
<1>1. m.blocks \in Seq(Block) /\ (\A i \in DOMAIN m.blocks : Sound(m.blocks[i]))
      /\ m.stop # "none"
  BY AnswersAre DEF IsAnswer
<1>2. PlainMessage(m) = p
  BY DEF PlainMessage
<1>3. Intact(p) <=> Intact(m)
  BY DEF Intact
<1>4. Final(m) = Ended(u, m.stop, HeldAll(m.blocks, Len(m.blocks)))
  BY DEF Final
<1> HIDE DEF u
<1>5. /\ FinishMessage(Final(m), TRUE) = {}
      /\ FinishMessage(Final(m), FALSE) \in {{}, {p}}
      /\ Intact(p) => FinishMessage(Final(m), FALSE) = {p}
  <2> DEFINE c == Final(m)
  <2>1. c = Ended(u, m.stop, HeldAll(m.blocks, Len(m.blocks)))
    BY <1>4
  <2> HIDE DEF c
  <2>2. p = [blocks |-> m.blocks, usage |-> u, stop |-> m.stop]
    OBVIOUS
  <2> HIDE DEF p
  <2> DEFINE b == m.blocks
             w == m.stop
  <2>3. b \in Seq(Block) /\ (\A i \in DOMAIN b : Sound(b[i])) /\ w # "none"
    BY <1>1
  <2>4. c = Ended(u, w, HeldAll(b, Len(b))) /\ p = [blocks |-> b, usage |-> u, stop |-> w]
    BY <2>1, <2>2
  <2> HIDE DEF b, w
  <2>5. /\ FinishMessage(c, TRUE) = {}
        /\ FinishMessage(c, FALSE) \in {{}, {p}}
        /\ Intact(p) => FinishMessage(c, FALSE) = {p}
    <3>1. b \in Seq(Block) /\ \A i \in DOMAIN b : Sound(b[i])
      BY <2>3
    <3>2. w # "none"
      BY <2>3
    <3>3. c = Ended(u, w, HeldAll(b, Len(b)))
      BY <2>4
    <3>4. p = [blocks |-> b, usage |-> u, stop |-> w]
      BY <2>4
    <3> HIDE DEF p
    <3>5. FinishMessage(c, TRUE) = {}
      BY <3>1, <3>2, <3>3, <3>4, EndedFinishes
    <3>6. FinishMessage(c, FALSE) \in {{}, {p}}
      BY <3>1, <3>2, <3>3, <3>4, EndedFinishes
    <3>7. FinishMessage(c, FALSE) = {} => ~Unbroken(b)
      BY <3>1, <3>2, <3>3, <3>4, EndedFinishes
    <3>8. Intact(p) => Unbroken(b)
      BY <3>4 DEF Intact, Unbroken
    <3> QED BY <3>5, <3>6, <3>7, <3>8
  <2> QED BY <2>5 DEF c
<1> HIDE DEF p
<1> QED BY <1>2, <1>3, <1>5

\* What a capture gives, after any part of the stream.
LEMMA GivenIsPlain ==
    ASSUME InStream, dialect = "messages", NEW n \in 0..Len(script),
           NEW c, c = Run("line", NativeNew, SubSeq(script, 1, n)), NEW partial \in BOOLEAN
    PROVE  /\ FinishMessage(c, partial) \subseteq {PlainMessage(answer)}
           /\ FinishMessage(c, partial) # {} => WholeAt(script, n)
<1>1. FinishMessage(c, partial) # {} => c.done /\ ~c.unusable
  BY DEF FinishMessage
<1>2. c.done /\ ~c.unusable => WholeAt(script, n) /\ c = Final(answer)
  BY DoneIsWhole
<1>3. IsAnswer(answer)
  BY NativeScript
<1>4. /\ FinishMessage(Final(answer), TRUE) \subseteq {PlainMessage(answer)}
      /\ FinishMessage(Final(answer), FALSE) \subseteq {PlainMessage(answer)}
  BY <1>3, FinalFinishes
<1> QED BY <1>1, <1>2, <1>4

LEMMA NativeInit == StreamsInit => NativeInv
<1> SUFFICES ASSUME StreamsInit PROVE NativeInv
  OBVIOUS
<1>1. at = 0 /\ native = NativeNew /\ captured = {} /\ store = {}
      /\ answer \in Answers /\ (dialect = "gemini" => ForGemini(answer))
      /\ script \in Scripts(dialect, answer)
  BY DEF StreamsInit
<1>2. InStream
  <2>1. \A s : s \in Scripts(dialect, answer) => 0 \in 0..(2 * Len(s))
    OBVIOUS
  <2> QED BY <1>1, <2>1 DEF InStream
<1>3. NativeReads
  <2>1. at \div 2 = 0
    BY <1>1
  <2>2. SubSeq(script, 1, 0) = <<>>
    BY SubSeqEmpty
  <2> QED BY <1>1, <2>1, <2>2, RunOfNone DEF NativeReads, Results
<1> QED BY <1>2, <1>3 DEF NativeInv

LEMMA DeliverKeepsNative ==
    ASSUME NativeInv, NEW to \in 1..(2 * Len(script)), Deliver(to)
    PROVE  NativeInv'
<1>1. /\ at' = to /\ to > at
      /\ dialect' = dialect /\ answer' = answer /\ script' = script /\ store' = store
  BY DEF Deliver
<1>2. InStream'
  <2>1. to \in 0..(2 * Len(script))
    OBVIOUS
  <2> QED BY <1>1, <2>1 DEF NativeInv, InStream
<1>3. NativeReads'
  <2> SUFFICES ASSUME dialect = "messages"
               PROVE  /\ native' = Run("line", NativeNew, SubSeq(script, 1, to \div 2))
                      /\ Results' \subseteq {PlainMessage(answer)}
                      /\ Results' # {} => WholeAt(script, to \div 2)
    <3>1. PlainMessage(answer)' = PlainMessage(answer)
      BY <1>1 DEF PlainMessage
    <3>2. WholeAt(script, at \div 2)' = WholeAt(script, to \div 2)
      BY <1>1 DEF WholeAt
    <3> QED BY <1>1, <3>1, <3>2 DEF NativeReads
  <2> DEFINE n == at \div 2
             m == to \div 2
             E == Events(answer)
             p == SubSeq(script, 1, n)
             q == SubSeq(script, n + 1, m)
             c == FoldLeft(FeedLine, native, Completed(to))
  <2>0. InStream /\ NativeReads
    BY DEF NativeInv
  <2>1. script \in Seq(E) /\ Len(script) \in Nat
    BY <2>0, NativeScript
  <2>2. n \in 0..Len(script) /\ m \in 0..Len(script) /\ n <= m
    BY <1>1, <2>0, <2>1 DEF InStream
  <2>3. p \in Seq(E) /\ q \in Seq(E) /\ Len(q) = m - n /\ p \o q = SubSeq(script, 1, m)
    <3>1. /\ 1 \in 1..Len(script) + 1 /\ n \in (1 - 1)..Len(script) /\ m \in n..Len(script)
      BY <2>1, <2>2
    <3>2. p \o q = SubSeq(script, 1, m)
      BY <2>1, <3>1, ConcatAdjacentSubSeq
    <3>3. p \in Seq(E) /\ q \in Seq(E) /\ Len(q) = m - n
      BY <2>1, <2>2
    <3> QED BY <3>2, <3>3
  <2>4. Completed(to) = q
    <3>1. Completed(to) = [k \in 1..(m - n) |-> script[n + k]]
      BY DEF Completed, Read, DecodesPieces
    <3>2. \A k \in 1..(m - n) : q[k] = script[n + k]
      BY <2>1, <2>2
    <3>3. q = [k \in 1..(m - n) |-> q[k]]
      <4> HIDE DEF q, p, E, m, n
      <4> QED BY <2>3
    <3> QED BY <3>1, <3>2, <3>3
  <2>5. /\ native' = c
        /\ captured' = IF capturing /\ c.done THEN FinishMessage(c, to % 2 = 1) ELSE captured
    BY DEF Deliver, CaptureNative
  <2>6. native = Run("line", NativeNew, p)
    BY <2>0 DEF NativeReads
  <2>7. c = Run("line", native, q)
    <3> HIDE DEF n, p, q, m, E
    <3>1. DOMAIN q = 1..Len(q) /\ Len(q) \in Nat
      BY <2>3
    <3> QED BY <2>4, <3>1, FoldsAreRuns
  <2> HIDE DEF n, p, q, c, E
  <2>8. c = Run("line", NativeNew, p \o q)
    <3>1. p \in Seq(E) /\ q \in Seq(E)
      BY <2>3
    <3> QED BY <2>6, <2>7, <3>1, RunJoined
  <2>9. c = Run("line", NativeNew, SubSeq(script, 1, m))
    BY <2>3, <2>8
  <2> HIDE DEF m
  <2>10. /\ FinishMessage(c, to % 2 = 1) \subseteq {PlainMessage(answer)}
         /\ FinishMessage(c, to % 2 = 1) # {} => WholeAt(script, m)
    <3>1. (to % 2 = 1) \in BOOLEAN
      OBVIOUS
    <3> QED BY <2>0, <2>2, <2>9, <3>1, GivenIsPlain
  <2>11. WholeAt(script, n) => WholeAt(script, m)
    <3>1. \A k \in 1..n : k \in 1..m
      BY <2>2
    <3> QED BY <3>1 DEF WholeAt
  <2>12. /\ Results \subseteq {PlainMessage(answer)}
         /\ Results # {} => WholeAt(script, n)
    BY <2>0 DEF NativeReads, n
  <2>13. Results' \subseteq Results \cup FinishMessage(c, to % 2 = 1)
    BY <1>1, <2>5 DEF Results
  <2> QED BY <2>5, <2>9, <2>10, <2>11, <2>12, <2>13 DEF m
<1> QED BY <1>2, <1>3 DEF NativeInv

LEMMA RestKeepsNative ==
    ASSUME NativeInv, Closes \/ Lost \/ Put \/ UNCHANGED streamVars
    PROVE  NativeInv'
<1>1. /\ at' = at /\ dialect' = dialect /\ answer' = answer /\ script' = script
      /\ dialect = "messages" => native' = native
      /\ dialect = "messages" => Results' \subseteq Results
  <2>1. CASE Closes
    <3>1. dialect = "messages" => native' = native /\ captured' = captured
      BY <2>1 DEF Closes
    <3>2. at' = at /\ dialect' = dialect /\ answer' = answer /\ script' = script /\ store' = store
      BY <2>1 DEF Closes
    <3> QED BY <3>1, <3>2 DEF Results
  <2>2. CASE Lost
    BY <2>2 DEF Lost, Results
  <2>3. CASE Put
    BY <2>3 DEF Put, Results
  <2>4. CASE UNCHANGED streamVars
    BY <2>4 DEF streamVars, Results
  <2> QED BY <2>1, <2>2, <2>3, <2>4
<1>2. PlainMessage(answer)' = PlainMessage(answer)
  BY <1>1 DEF PlainMessage
<1>3. WholeAt(script, at \div 2)' = WholeAt(script, at \div 2)
  BY <1>1 DEF WholeAt
<1>4. InStream'
  BY <1>1 DEF NativeInv, InStream
<1>5. NativeReads'
  BY <1>1, <1>2, <1>3 DEF NativeInv, NativeReads
<1> QED BY <1>4, <1>5 DEF NativeInv

LEMMA StreamsStay == NativeInv /\ [StreamsNext]_streamVars => NativeInv'
BY DeliverKeepsNative, RestKeepsNative DEF StreamsNext

\* The invariant gives the property.
LEMMA NativeInvExact == NativeInv => NativeCaptureExact
<1> SUFFICES ASSUME NativeInv, dialect = "messages"
             PROVE  /\ \A e \in Results : Whole /\ e = PlainMessage(answer)
                    /\ Whole /\ Intact(answer) => FinishMessage(native, FALSE) # {}
  BY DEF NativeCaptureExact
<1> DEFINE n == at \div 2
<1>1. InStream /\ NativeReads
  BY DEF NativeInv
<1>2. n \in 0..Len(script)
  <2>1. script \in Seq(Events(answer)) /\ Len(script) \in Nat
    BY <1>1, NativeScript
  <2> QED BY <1>1, <2>1 DEF InStream
<1>3. Whole <=> WholeAt(script, n)
  BY DEF Whole, WholeAt, Finishes, Stops
<1> HIDE DEF n
<1>4. \A e \in Results : Whole /\ e = PlainMessage(answer)
  BY <1>1, <1>3 DEF NativeReads, n
<1>5. native = Run("line", NativeNew, SubSeq(script, 1, n))
  BY <1>1 DEF NativeReads, n
<1>6. Whole => native = Final(answer)
  BY <1>1, <1>2, <1>3, <1>5, DoneIsWhole
<1>7. IsAnswer(answer)
  BY <1>1, NativeScript
<1> QED BY <1>4, <1>6, <1>7, FinalFinishes

\* A native stream is stored exactly when it came whole and was understood, and
\* then as the message a plain call returns: for any answers of any blocks, however
\* the transport cuts them and whatever comes in between.
THEOREM NativeStreamsAreExact == StreamsSpec => []NativeCaptureExact
<1>1. StreamsSpec => []NativeInv
  BY NativeInit, StreamsStay, PTL DEF StreamsSpec
<1> QED BY <1>1, NativeInvExact, PTL
-----------------------------------------------------------------------------
(* Two stages are one.  An adapter gives chat lines, and the capture reads *)
(* them: line by line, or all the lines first, it comes to the same.       *)

Pair(t, c) == [t |-> t, c |-> c]

\* What the translator of a way makes of a line.
Told(way, t, e) == IF way = "gemini" THEN TranslateGemini(t, e) ELSE TranslateAnthropic(t, e)
LinesOf(way) == IF way = "gemini" THEN "geminiLines" ELSE "anthropicLines"

\* What a translator gives for a line is none, one or two chat lines.
LEMMA ToldAre ==
    ASSUME NEW way \in {"anthropic", "gemini"}, NEW t, NEW e
    PROVE  \E C : Told(way, t, e).out \in Seq(C)
<1> DEFINE o == Told(way, t, e).out
<1>1. ASSUME o = <<>> PROVE \E C : o \in Seq(C)
  <2>1. o \in Seq({})
    BY <1>1
  <2> QED BY <2>1
<1>2. ASSUME NEW x, o = <<x>> PROVE \E C : o \in Seq(C)
  <2>1. o \in Seq({x})
    BY <1>2
  <2> QED BY <2>1
<1>3. ASSUME NEW x, NEW y, o = <<x, y>> PROVE \E C : o \in Seq(C)
  <2>1. o \in Seq({x, y})
    BY <1>3
  <2> QED BY <2>1
<1>4. o = <<>> \/ (\E x : o = <<x>>) \/ (\E x, y : o = <<x, y>>)
  <2>1. CASE way = "gemini"
    <3>1. o = TranslateGemini(t, e).out
      BY <2>1 DEF Told
    <3>2. CASE e.type # "frame"
      BY <3>1, <3>2 DEF TranslateGemini
    <3>3. CASE e.type = "frame"
      BY <3>1, <3>3 DEF TranslateGemini
    <3> QED BY <3>2, <3>3
  <2>2. CASE way = "anthropic"
    <3> DEFINE quiet == [t |-> t, out |-> <<>>]
               n == Cardinality(DOMAIN t.tools)
    <3>0. o = TranslateAnthropic(t, e).out
      BY <2>2 DEF Told
    <3>1. TranslateAnthropic(t, e) \in
            {quiet, [quiet EXCEPT !.t = Absorb(t, e.usage)],
             [t |-> [t EXCEPT !.tools = With(@, e.index, n)],
              out |-> <<Chunk(<<>>, <<Call(n, {e.block.id}, <<>>)>>, {}, {})>>],
             [quiet EXCEPT !.out = <<Text(e.text)>>],
             [quiet EXCEPT !.out = <<Chunk(<<>>, <<Call(t.tools[e.index], {}, e.text)>>, {}, {})>>],
             [t |-> Absorb(t, e.usage), out |-> Closing(Absorb(t, e.usage), e.stop)]}
      BY Zenon DEF TranslateAnthropic
    <3>2. \E x, y : Closing(Absorb(t, e.usage), e.stop) = <<x, y>>
      BY DEF Closing
    <3> QED BY <3>0, <3>1, <3>2
  <2> QED BY <2>1, <2>2
<1> HIDE DEF o
<1>5. \E C : o \in Seq(C)
  BY <1>1, <1>2, <1>3, <1>4
<1> QED BY <1>5 DEF o
LEMMA StepsAre ==
    ASSUME NEW way \in {"anthropic", "gemini"}, NEW b, NEW e
    PROVE  /\ Step(LinesOf(way), b, e) = Onward(b, Told(way, b.t, e))
           /\ Step(way, b, e) = Crossing(b, Told(way, b.t, e))
<1>1. CASE way = "gemini"
  BY <1>1 DEF Step, LinesOf, Told, GeminiLine
<1>2. CASE way = "anthropic"
  BY <1>2 DEF Step, LinesOf, Told, AnthropicLine
<1> QED BY <1>1, <1>2

LEMMA OnwardHolds ==
    ASSUME NEW acc, NEW step
    PROVE  Onward(acc, step).t = step.t /\ Onward(acc, step).out = acc.out \o step.out
<1> DEFINE o == acc.out \o step.out
<1>1. Onward(acc, step) = [t |-> step.t, out |-> o]
  BY DEF Onward
<1> HIDE DEF o
<1>2. Onward(acc, step).t = step.t /\ Onward(acc, step).out = o
  BY <1>1
<1> QED BY <1>2 DEF o

\* A translator at the head of a part, with no chat line yet.
Onset(t) == [t |-> t, out |-> <<>>]

\* r, the translator and its lines after s, is what the stages on s come to.
Joined(way, t, c, s, r) ==
    /\ \E C : r.out \in Seq(C)
    /\ Run(way, Pair(t, c), s) = Pair(r.t, Run("chunk", c, r.out))
    /\ way = "gemini" /\ (\E k \in DOMAIN s : s[k].type = "frame") => r.out # <<>>

LEMMA StagesJoin ==
    ASSUME NEW way \in {"anthropic", "gemini"}, NEW t, NEW c, NEW s, NEW n \in Nat,
           DOMAIN s = 1..n
    PROVE  Joined(way, t, c, s, Run(LinesOf(way), Onset(t), s))
<1> DEFINE r == Run(LinesOf(way), Onset(t), s)
           a0 == Onset(t)
           b0 == Pair(t, c)
           kind == LinesOf(way)
<1>0. a0.t = t /\ a0.out = <<>> /\ b0.t = t /\ b0.c = c
  BY DEF Pair, Onset
<1> HIDE DEF a0, b0, kind, r
<1>1. PICK x : Trace(kind, a0, s, n, x) /\ r = x[n]
  <2>1. r = Run(kind, a0, s)
    BY DEF a0, kind, r
  <2> QED BY <2>1, RunTraced
<1>2. PICK y : Trace(way, b0, s, n, y) /\ Run(way, b0, s) = y[n]
  BY RunTraced
<1> DEFINE Joins(k) ==
             /\ \E C : x[k].out \in Seq(C)
             /\ y[k].t = x[k].t /\ y[k].c = Run("chunk", c, x[k].out)
             /\ y[k] = Pair(y[k].t, y[k].c)
             /\ way = "gemini" /\ (\E j \in 1..k : s[j].type = "frame") => x[k].out # <<>>
           S == {k \in Nat : k <= n => Joins(k)}
<1>3. 0 \in S
  <2>1. x[0] = a0 /\ y[0] = b0 /\ 1..0 = {}
    BY <1>1, <1>2 DEF Trace
  <2>2. Run("chunk", c, <<>>) = c
    BY RunOfNone
  <2>3. <<>> \in Seq({})
    OBVIOUS
  <2>4. y[0] = Pair(y[0].t, y[0].c)
    BY <1>0, <2>1 DEF b0
  <2> QED BY <1>0, <2>1, <2>2, <2>3, <2>4
<1>4. ASSUME NEW k \in Nat, k \in S PROVE k + 1 \in S
  <2> SUFFICES ASSUME k + 1 <= n, Joins(k) PROVE Joins(k + 1)
    <3> HIDE DEF Joins
    <3> QED BY <1>4
  <2> DEFINE e == s[k + 1]
             d == Told(way, x[k].t, e)
  <2>1. k + 1 \in 1..n /\ (k + 1) - 1 = k
    OBVIOUS
  <2>2. x[k + 1] = Onward(x[k], d)
    BY <1>1, <2>1, StepsAre DEF Trace, kind
  <2>3. y[k + 1] = Crossing(y[k], d)
    BY <1>2, <2>1, StepsAre DEF Trace
  <2>4. x[k + 1].t = d.t /\ x[k + 1].out = x[k].out \o d.out
    <3> HIDE DEF d
    <3> DEFINE z == x[k]
    <3>1. x[k + 1] = Onward(z, d)
      BY <2>2
    <3> HIDE DEF z
    <3>2. Onward(z, d).t = d.t /\ Onward(z, d).out = z.out \o d.out
      BY OnwardHolds
    <3> QED BY <3>1, <3>2 DEF z
  <2>5. y[k + 1] = Pair(d.t, FoldLeft(FeedChunk, y[k].c, d.out))
    BY <2>3 DEF Crossing, Pair
  <2>6. PICK C1 : x[k].out \in Seq(C1)
    OBVIOUS
  <2>7. PICK C2 : d.out \in Seq(C2)
    BY ToldAre
  <2> DEFINE C == C1 \cup C2
  <2>8. x[k].out \in Seq(C) /\ d.out \in Seq(C)
    BY <2>6, <2>7, SeqMonotonic
  <2> HIDE DEF C
  <2>9. x[k].out \o d.out \in Seq(C)
    BY <2>8, ConcatProperties
  <2>10. FoldLeft(FeedChunk, y[k].c, d.out) = Run("chunk", y[k].c, d.out)
    <3>1. Len(d.out) \in Nat /\ DOMAIN d.out = 1..Len(d.out)
      BY <2>8
    <3> QED BY <3>1, FoldsAreRuns
  <2>11. Run("chunk", c, x[k].out \o d.out) = Run("chunk", Run("chunk", c, x[k].out), d.out)
    BY <2>8, RunOfBoth
  <2>12. way = "gemini" /\ e.type = "frame" => d.out = <<Text(e.text)>>
    BY DEF Told, TranslateGemini
  <2>13. way = "gemini" /\ (\E j \in 1..(k + 1) : s[j].type = "frame")
             => x[k].out \o d.out # <<>>
    <3> SUFFICES ASSUME way = "gemini", NEW j \in 1..(k + 1), s[j].type = "frame"
                 PROVE  x[k].out \o d.out # <<>>
      OBVIOUS
    <3> HIDE DEF d
    <3>1. CASE j = k + 1
      <4>0. d.out = <<Text(e.text)>>
        BY <2>12, <3>1
      <4>1. Len(d.out) = 1
        BY <4>0
      <4>2. Len(x[k].out \o d.out) = Len(x[k].out) + Len(d.out) /\ Len(x[k].out) \in Nat
        BY <2>8
      <4>3. Len(x[k].out \o d.out) # 0
        BY <4>1, <4>2
      <4>4. Len(<<>>) = 0
        OBVIOUS
      <4> QED BY <4>3, <4>4
    <3>2. CASE j # k + 1
      <4>1. j \in 1..k
        BY <3>2
      <4>2. x[k].out # <<>>
        BY <4>1
      <4> QED BY <2>8, <4>2
    <3> QED BY <3>1, <3>2
  <2> HIDE DEF d
  <2>14. y[k + 1].t = d.t /\ y[k + 1].c = Run("chunk", y[k].c, d.out)
    BY <2>5, <2>10 DEF Pair
  <2>15. y[k + 1] = Pair(y[k + 1].t, y[k + 1].c)
    BY <2>5, <2>10, <2>14
  <2> QED BY <2>4, <2>9, <2>11, <2>13, <2>14, <2>15
<1>5. n \in S
  <2> HIDE DEF S
  <2> QED BY <1>3, <1>4, FromTheLeast
<1>6. Joins(n)
  <2> HIDE DEF Joins
  <2> QED BY <1>5
<1>7. Run(way, b0, s) = Pair(r.t, Run("chunk", c, r.out))
  BY <1>1, <1>2, <1>6
<1>8. DOMAIN s = 1..n
  OBVIOUS
<1> HIDE DEF Joins
<1>9. /\ \E C : r.out \in Seq(C)
      /\ way = "gemini" /\ (\E k \in DOMAIN s : s[k].type = "frame") => r.out # <<>>
  BY <1>1, <1>6, <1>8 DEF Joins
<1>10. Joined(way, t, c, s, r)
  BY <1>7, <1>9 DEF Joined, b0
<1> QED BY <1>10 DEF r
-----------------------------------------------------------------------------
(* The chat capture, field by field.                                       *)

Gathered(x, f, g, u, d, n) ==
    [content |-> x, calls |-> f, finish |-> g, usage |-> u, done |-> d, unusable |-> n]

\* While it reads, before the finish.
Gathering(x, f) == Gathered(x, f, {}, {}, No, No)

IsChat(c) == c = Gathered(c.content, c.calls, c.finish, c.usage, c.done, c.unusable)

LEMMA GatheredHolds ==
    ASSUME NEW x, NEW f, NEW g, NEW u, NEW d, NEW n, NEW v
    PROVE  /\ [Gathered(x, f, g, u, d, n) EXCEPT !.content = v] = Gathered(v, f, g, u, d, n)
           /\ [Gathered(x, f, g, u, d, n) EXCEPT !.calls = v] = Gathered(x, v, g, u, d, n)
           /\ [Gathered(x, f, g, u, d, n) EXCEPT !.finish = v] = Gathered(x, f, v, u, d, n)
           /\ [Gathered(x, f, g, u, d, n) EXCEPT !.usage = v] = Gathered(x, f, g, v, d, n)
           /\ [Gathered(x, f, g, u, d, n) EXCEPT !.done = v] = Gathered(x, f, g, u, v, n)
           /\ [Gathered(x, f, g, u, d, n) EXCEPT !.unusable = v] = Gathered(x, f, g, u, d, v)
           /\ Gathered(x, f, g, u, d, n).content = x /\ Gathered(x, f, g, u, d, n).calls = f
           /\ Gathered(x, f, g, u, d, n).finish = g /\ Gathered(x, f, g, u, d, n).usage = u
           /\ Gathered(x, f, g, u, d, n).done = d /\ Gathered(x, f, g, u, d, n).unusable = n
BY DEF Gathered

LEMMA ChunkHolds ==
    ASSUME NEW text, NEW calls, NEW finish, NEW usage, NEW l, l = Chunk(text, calls, finish, usage)
    PROVE  /\ l.type = "chunk" /\ l.text = text /\ l.calls = calls
           /\ l.finish = finish /\ l.usage = usage
BY DEF Chunk

\* What one chat line does to a capture that still reads.
LEMMA ChunkFed ==
    ASSUME NEW c, IsChat(c), ~c.done, ~c.unusable,
           NEW text, NEW calls, NEW finish, NEW usage, NEW l, l = Chunk(text, calls, finish, usage)
    PROVE  FeedChunk(c, l) = Gathered(c.content \o text, FoldLeft(Called, c.calls, calls),
                                      Latest(finish, c.finish), Latest(usage, c.usage),
                                      c.done, c.unusable)
<1> DEFINE x1 == c.content \o l.text
           f1 == FoldLeft(Called, c.calls, l.calls)
           g1 == Latest(l.finish, c.finish)
           u1 == Latest(l.usage, c.usage)
<1>1. l.type = "chunk" /\ l.text = text /\ l.calls = calls /\ l.finish = finish /\ l.usage = usage
  BY ChunkHolds
<1>2. FeedChunk(c, l) = [c EXCEPT !.content = x1, !.calls = f1, !.finish = g1, !.usage = u1]
  <2>1. l.type = "chunk"
    BY <1>1
  <2> QED BY <2>1, Zenon DEF FeedChunk
<1> HIDE DEF x1, f1, g1, u1
<1> DEFINE x == c.content
           f == c.calls
           g == c.finish
           u == c.usage
           d == c.done
           n == c.unusable
<1>3. c = Gathered(x, f, g, u, d, n)
  BY DEF IsChat
<1> HIDE DEF x, f, g, u, d, n
<1>4. FeedChunk(c, l) = Gathered(x1, f1, g1, u1, d, n)
  <2>1. FeedChunk(c, l) = [[[[c EXCEPT !.content = x1] EXCEPT !.calls = f1]
                                EXCEPT !.finish = g1] EXCEPT !.usage = u1]
    BY <1>2
  <2>2. [c EXCEPT !.content = x1] = Gathered(x1, f, g, u, d, n)
    BY <1>3, GatheredHolds
  <2>3. [Gathered(x1, f, g, u, d, n) EXCEPT !.calls = f1] = Gathered(x1, f1, g, u, d, n)
    BY GatheredHolds
  <2>4. [Gathered(x1, f1, g, u, d, n) EXCEPT !.finish = g1] = Gathered(x1, f1, g1, u, d, n)
    BY GatheredHolds
  <2>5. [Gathered(x1, f1, g1, u, d, n) EXCEPT !.usage = u1] = Gathered(x1, f1, g1, u1, d, n)
    BY GatheredHolds
  <2> QED BY <2>1, <2>2, <2>3, <2>4, <2>5
<1> QED BY <1>1, <1>4 DEF x1, f1, g1, u1, d, n

LEMMA EndFed ==
    ASSUME NEW c, IsChat(c), ~c.done, ~c.unusable
    PROVE  /\ FeedChunk(c, DoneLine) = Gathered(c.content, c.calls, c.finish, c.usage, Yes, c.unusable)
           /\ FeedChunk(c, ErrorLine) = Gathered(c.content, c.calls, c.finish, c.usage, c.done, Yes)
<1> DEFINE x == c.content
           f == c.calls
           g == c.finish
           u == c.usage
           d == c.done
           n == c.unusable
<1>1. DoneLine.type = "done" /\ ErrorLine.type = "error"
  BY DEF DoneLine, ErrorLine
<1>2. FeedChunk(c, DoneLine) = [c EXCEPT !.done = TRUE]
  BY <1>1, Zenon DEF FeedChunk
<1>3. FeedChunk(c, ErrorLine) = [c EXCEPT !.unusable = TRUE]
  BY <1>1 DEF FeedChunk
<1>4. c = Gathered(x, f, g, u, d, n)
  BY DEF IsChat
<1> HIDE DEF x, f, g, u, d, n
<1>5. [c EXCEPT !.done = Yes] = Gathered(x, f, g, u, Yes, n)
  BY <1>4, GatheredHolds
<1>6. [c EXCEPT !.unusable = Yes] = Gathered(x, f, g, u, d, Yes)
  BY <1>4, GatheredHolds
<1>7. [c EXCEPT !.done = Yes] = [c EXCEPT !.done = TRUE]
  BY Zenon DEF Yes
<1>8. [c EXCEPT !.unusable = Yes] = [c EXCEPT !.unusable = TRUE]
  BY Zenon DEF Yes
<1> QED BY <1>2, <1>3, <1>5, <1>6, <1>7, <1>8 DEF x, f, g, u, d, n

LEMMA ChatStops ==
    ASSUME NEW c, c.done \/ c.unusable, NEW l
    PROVE  FeedChunk(c, l) = c
BY DEF FeedChunk

LEMMA GatheredAre ==
    ASSUME NEW x, NEW f, NEW g, NEW u, NEW d, NEW n
    PROVE  IsChat(Gathered(x, f, g, u, d, n))
BY GatheredHolds DEF IsChat

\* One chunk, fed to a capture that gathers.
LEMMA GatheringFed ==
    ASSUME NEW x, NEW f, NEW text, NEW calls, NEW finish, NEW usage
    PROVE  FeedChunk(Gathering(x, f), Chunk(text, calls, finish, usage))
               = Gathered(x \o text, FoldLeft(Called, f, calls), Latest(finish, {}),
                          Latest(usage, {}), No, No)
<1> DEFINE c == Gathering(x, f)
           l == Chunk(text, calls, finish, usage)
<1>1. IsChat(c)
  BY GatheredAre DEF Gathering
<1>2. /\ c.content = x /\ c.calls = f /\ c.finish = {} /\ c.usage = {}
      /\ c.done = No /\ c.unusable = No
  BY GatheredHolds DEF Gathering
<1>3. ~c.done /\ ~c.unusable
  BY <1>2 DEF No
<1> HIDE DEF c, l
<1>4. l = Chunk(text, calls, finish, usage)
  BY DEF l
<1>5. FeedChunk(c, l) = Gathered(c.content \o text, FoldLeft(Called, c.calls, calls),
                                 Latest(finish, c.finish), Latest(usage, c.usage),
                                 c.done, c.unusable)
  BY <1>1, <1>3, <1>4, ChunkFed
<1>6. FeedChunk(c, l) = Gathered(x \o text, FoldLeft(Called, f, calls), Latest(finish, {}),
                                 Latest(usage, {}), No, No)
  BY <1>2, <1>5
<1> QED BY <1>6 DEF c, l

\* The calls of one chunk: none, or one.
LEMMA NoneCalled == ASSUME NEW f PROVE FoldLeft(Called, f, <<>>) = f
<1>1. DOMAIN <<>> = 1..0 /\ 0 \in Nat
  OBVIOUS
<1>2. FoldLeft(Called, f, <<>>) = Run("call", f, <<>>)
  BY <1>1, FoldsAreRuns
<1> QED BY <1>2, RunOfNone

LEMMA OneCalled == ASSUME NEW f, NEW k PROVE FoldLeft(Called, f, <<k>>) = Called(f, k)
<1>1. DOMAIN <<k>> = 1..1 /\ 1 \in Nat
  OBVIOUS
<1>2. FoldLeft(Called, f, <<k>>) = Run("call", f, <<k>>)
  BY <1>1, FoldsAreRuns
<1>3. Run("call", f, <<k>>) = Called(f, k)
  BY RunOfOne DEF Step
<1> QED BY <1>2, <1>3

\* The lines of a translator that change nothing, bring text, or a call.
LEMMA LineGathered ==
    ASSUME NEW x, NEW f, NEW S, x \in Seq(S)
    PROVE  /\ FoldLeft(FeedChunk, Gathering(x, f), <<>>) = Gathering(x, f)
           /\ \A fs : FoldLeft(FeedChunk, Gathering(x, f), <<Text(fs)>>) = Gathering(x \o fs, f)
           /\ \A k : FoldLeft(FeedChunk, Gathering(x, f), <<Chunk(<<>>, <<k>>, {}, {})>>)
                         = Gathering(x, Called(f, k))
<1> DEFINE c == Gathering(x, f)
<1>0. x \o <<>> = x /\ Latest({}, {}) = {}
  BY ConcatEmptySeq DEF Latest
<1>1. FoldLeft(FeedChunk, c, <<>>) = c
  <2>1. DOMAIN <<>> = 1..0 /\ 0 \in Nat
    OBVIOUS
  <2>2. FoldLeft(FeedChunk, c, <<>>) = Run("chunk", c, <<>>)
    BY <2>1, FoldsAreRuns
  <2> QED BY <2>2, RunOfNone
<1>2. ASSUME NEW l PROVE FoldLeft(FeedChunk, c, <<l>>) = FeedChunk(c, l)
  <2>1. DOMAIN <<l>> = 1..1 /\ 1 \in Nat
    OBVIOUS
  <2>2. FoldLeft(FeedChunk, c, <<l>>) = Run("chunk", c, <<l>>)
    BY <2>1, FoldsAreRuns
  <2>3. Run("chunk", c, <<l>>) = FeedChunk(c, l)
    BY RunOfOne DEF Step
  <2> QED BY <2>2, <2>3
<1>3. ASSUME NEW fs PROVE FoldLeft(FeedChunk, c, <<Text(fs)>>) = Gathering(x \o fs, f)
  <2>1. FeedChunk(c, Chunk(fs, <<>>, {}, {}))
            = Gathered(x \o fs, FoldLeft(Called, f, <<>>), Latest({}, {}), Latest({}, {}), No, No)
    BY GatheringFed
  <2>2. FeedChunk(c, Text(fs)) = Gathering(x \o fs, f)
    BY <1>0, <2>1, NoneCalled DEF Text, Gathering
  <2> QED BY <1>2, <2>2
<1>4. ASSUME NEW k
      PROVE  FoldLeft(FeedChunk, c, <<Chunk(<<>>, <<k>>, {}, {})>>) = Gathering(x, Called(f, k))
  <2>1. FeedChunk(c, Chunk(<<>>, <<k>>, {}, {}))
            = Gathered(x \o <<>>, FoldLeft(Called, f, <<k>>), Latest({}, {}), Latest({}, {}), No, No)
    BY GatheringFed
  <2>2. FeedChunk(c, Chunk(<<>>, <<k>>, {}, {})) = Gathering(x, Called(f, k))
    BY <1>0, <2>1, OneCalled DEF Gathering
  <2> QED BY <1>2, <2>2
<1> HIDE DEF c
<1> QED BY <1>1, <1>3, <1>4 DEF c
-----------------------------------------------------------------------------
(* Anthropic events, one by one.                                           *)

Told0(u, tools) == [usage |-> u, tools |-> tools, finish |-> {}]

\* The two stages on the way: the usage and the tools the translator knows, the
\* text and the calls that are gathered.
Midway(u, tools, x, f) == Pair(Told0(u, tools), Gathering(x, f))

LEMMA MidwayHolds ==
    ASSUME NEW u, NEW tools, NEW x, NEW f
    PROVE  /\ Midway(u, tools, x, f).t = Told0(u, tools)
           /\ Midway(u, tools, x, f).c = Gathering(x, f)
           /\ Told0(u, tools).usage = u /\ Told0(u, tools).tools = tools
           /\ \A v : [Told0(u, tools) EXCEPT !.tools = v] = Told0(u, v)
           /\ \A v : [Told0(u, tools) EXCEPT !.usage = v] = Told0(v, tools)
BY DEF Midway, Pair, Told0

\* Events that say nothing to the caller.
Silent(e) ==
    \/ e.type \notin {"message_start", "content_block_start", "content_block_delta", "message_delta"}
    \/ e.type = "content_block_start" /\ e.block.kind # "tool_use"
    \/ e.type = "content_block_delta" /\ e.delta \notin {"text_delta", "input_json_delta"}

LEMMA SilentCrosses ==
    ASSUME NEW S, NEW u, NEW tools, NEW x \in Seq(S), NEW f, NEW e,
           Silent(e) \/ (/\ e.type = "content_block_delta" /\ e.delta = "input_json_delta"
                         /\ e.index \notin DOMAIN tools)
    PROVE  Step("anthropic", Midway(u, tools, x, f), e) = Midway(u, tools, x, f)
<1> DEFINE t == Told0(u, tools)
           c == Gathering(x, f)
           b == Midway(u, tools, x, f)
           quiet == [t |-> t, out |-> <<>>]
<1>1. b.t = t /\ b.c = c /\ t.tools = tools /\ b = Pair(t, c)
  BY MidwayHolds DEF Midway
<1>2. FoldLeft(FeedChunk, c, <<>>) = c
  BY LineGathered
<1> HIDE DEF t, c, b
<1>3. TranslateAnthropic(t, e) = quiet
  <2>1. CASE e.type \notin {"message_start", "content_block_start", "content_block_delta",
                            "message_delta"}
    BY <2>1 DEF TranslateAnthropic
  <2>2. CASE e.type = "content_block_start" /\ e.block.kind # "tool_use"
    BY <2>2 DEF TranslateAnthropic, OpensCall
  <2>3. CASE e.type = "content_block_delta" /\ e.delta \notin {"text_delta", "input_json_delta"}
    BY <2>3 DEF TranslateAnthropic
  <2>4. CASE /\ e.type = "content_block_delta" /\ e.delta = "input_json_delta"
             /\ e.index \notin DOMAIN tools
    BY <1>1, <2>4 DEF TranslateAnthropic
  <2> QED BY <2>1, <2>2, <2>3, <2>4 DEF Silent
<1>4. Step("anthropic", b, e) = Crossing(b, quiet)
  BY <1>1, <1>3 DEF Step
<1>5. Crossing(b, quiet) = Pair(t, c)
  BY <1>1, <1>2 DEF Crossing, Pair
<1> QED BY <1>1, <1>4, <1>5 DEF b

LEMMA StartCrosses ==
    ASSUME NEW u, NEW tools, NEW S, NEW x \in Seq(S), NEW f, NEW e, e.type = "message_start"
    PROVE  Step("anthropic", Midway(u, tools, x, f), e) = Midway(Merged(u, e.usage), tools, x, f)
<1> DEFINE t == Told0(u, tools)
           c == Gathering(x, f)
           b == Midway(u, tools, x, f)
           w == Told0(Merged(u, e.usage), tools)
           step == [t |-> w, out |-> <<>>]
<1>1. b.t = t /\ b.c = c /\ t.usage = u
  BY MidwayHolds
<1>2. FoldLeft(FeedChunk, c, <<>>) = c
  BY LineGathered
<1>3. Absorb(t, e.usage) = w
  BY <1>1, MidwayHolds DEF Absorb
<1>4. Midway(Merged(u, e.usage), tools, x, f) = Pair(w, c)
  BY DEF Midway
<1> HIDE DEF t, c, b, w
<1>5. TranslateAnthropic(t, e) = step
  BY <1>3 DEF TranslateAnthropic
<1>6. Step("anthropic", b, e) = Crossing(b, step)
  BY <1>1, <1>5 DEF Step
<1>7. Crossing(b, step) = Pair(w, c)
  BY <1>1, <1>2 DEF Crossing, Pair
<1> QED BY <1>4, <1>6, <1>7 DEF b

LEMMA TextCrosses ==
    ASSUME NEW u, NEW tools, NEW S, NEW x \in Seq(S), NEW f, NEW e,
           e.type = "content_block_delta", e.delta = "text_delta"
    PROVE  Step("anthropic", Midway(u, tools, x, f), e) = Midway(u, tools, x \o e.text, f)
<1> DEFINE t == Told0(u, tools)
           c == Gathering(x, f)
           b == Midway(u, tools, x, f)
           d == Gathering(x \o e.text, f)
           step == [t |-> t, out |-> <<Text(e.text)>>]
<1>1. b.t = t /\ b.c = c
  BY MidwayHolds
<1>2. FoldLeft(FeedChunk, c, <<Text(e.text)>>) = d
  BY LineGathered
<1>4. Midway(u, tools, x \o e.text, f) = Pair(t, d)
  BY DEF Midway
<1> HIDE DEF t, c, b, d
<1>5. TranslateAnthropic(t, e) = step
  BY DEF TranslateAnthropic
<1>6. Step("anthropic", b, e) = Crossing(b, step)
  BY <1>1, <1>5 DEF Step
<1>7. Crossing(b, step) = Pair(t, d)
  BY <1>1, <1>2 DEF Crossing, Pair
<1> QED BY <1>4, <1>6, <1>7 DEF b

\* The tools it is told of, and nothing else.
LEMMA ToldTools ==
    ASSUME NEW u, NEW tools, NEW v
    PROVE  [Told0(u, tools) EXCEPT !.tools = v] = Told0(u, v)
BY DEF Told0

LEMMA CallCrosses ==
    ASSUME NEW u, NEW tools, NEW S, NEW x \in Seq(S), NEW f, NEW e,
           e.type = "content_block_start", e.block.kind = "tool_use"
    PROVE  LET n == Cardinality(DOMAIN tools)
           IN Step("anthropic", Midway(u, tools, x, f), e)
                  = Midway(u, With(tools, e.index, n), x, Called(f, Call(n, {e.block.id}, <<>>)))
<1> DEFINE n == Cardinality(DOMAIN tools)
           t == Told0(u, tools)
           c == Gathering(x, f)
           b == Midway(u, tools, x, f)
           k == Call(n, {e.block.id}, <<>>)
           d == Gathering(x, Called(f, k))
           w == Told0(u, With(tools, e.index, n))
           step == [t |-> w, out |-> <<Chunk(<<>>, <<k>>, {}, {})>>]
<1>1. b.t = t /\ b.c = c /\ t.tools = tools
  BY MidwayHolds
<1>2. FoldLeft(FeedChunk, c, <<Chunk(<<>>, <<k>>, {}, {})>>) = d
  <2> HIDE DEF k
  <2> QED BY LineGathered
<1>3. [t EXCEPT !.tools = With(tools, e.index, n)] = w
  <2> DEFINE v == With(tools, e.index, n)
  <2> HIDE DEF n, v
  <2>1. [Told0(u, tools) EXCEPT !.tools = v] = Told0(u, v)
    <3> HIDE DEF t, b, c, d, w, k, step
    <3> QED BY ToldTools
  <2> QED BY <2>1 DEF v
<1>4. Midway(u, With(tools, e.index, n), x, Called(f, k)) = Pair(w, d)
  BY DEF Midway
<1> HIDE DEF t, c, b, d, w
<1>5. TranslateAnthropic(t, e) = step
  <2>1. [t EXCEPT !.tools = With(@, e.index, n)] = w
    BY <1>1, <1>3
  <2>2. Cardinality(DOMAIN t.tools) = n /\ OpensCall(e)
    BY <1>1 DEF OpensCall
  <2> HIDE DEF n
  <2> QED BY <2>1, <2>2 DEF TranslateAnthropic
<1> HIDE DEF k, n
<1>6. Step("anthropic", b, e) = Crossing(b, step)
  BY <1>1, <1>5 DEF Step
<1>7. Crossing(b, step) = Pair(w, d)
  BY <1>1, <1>2 DEF Crossing, Pair
<1> QED BY <1>4, <1>6, <1>7 DEF b, k, n

LEMMA InputCrosses ==
    ASSUME NEW u, NEW tools, NEW S, NEW x \in Seq(S), NEW f, NEW e,
           e.type = "content_block_delta", e.delta = "input_json_delta", e.index \in DOMAIN tools
    PROVE  Step("anthropic", Midway(u, tools, x, f), e)
               = Midway(u, tools, x, Called(f, Call(tools[e.index], {}, e.text)))
<1> DEFINE t == Told0(u, tools)
           c == Gathering(x, f)
           b == Midway(u, tools, x, f)
           k == Call(tools[e.index], {}, e.text)
           d == Gathering(x, Called(f, k))
           step == [t |-> t, out |-> <<Chunk(<<>>, <<k>>, {}, {})>>]
<1>1. b.t = t /\ b.c = c /\ t.tools = tools
  BY MidwayHolds
<1>2. FoldLeft(FeedChunk, c, <<Chunk(<<>>, <<k>>, {}, {})>>) = d
  <2> HIDE DEF k
  <2> QED BY LineGathered
<1>4. Midway(u, tools, x, Called(f, k)) = Pair(t, d)
  BY DEF Midway
<1> HIDE DEF t, c, b, d
<1>5. TranslateAnthropic(t, e) = step
  BY <1>1 DEF TranslateAnthropic
<1> HIDE DEF k
<1>6. Step("anthropic", b, e) = Crossing(b, step)
  BY <1>1, <1>5 DEF Step
<1>7. Crossing(b, step) = Pair(t, d)
  BY <1>1, <1>2 DEF Crossing, Pair
<1> QED BY <1>4, <1>6, <1>7 DEF b, k
-----------------------------------------------------------------------------
(* A block crosses.                                                        *)

CallHeld == [id : SUBSET STRING, args : Seq(STRING)]

\* The call a block is, as the capture gathers it.
Raw(b) == IF b.kind = "tool_use" THEN <<[id |-> {b.id}, args |-> b.body]>> ELSE <<>>

\* Calls by their numbers.
Numbered(cs) == [q \in 0..(Len(cs) - 1) |-> cs[q + 1]]

LEMMA CallOpens ==
    ASSUME NEW C, NEW cs \in Seq(C), NEW id, NEW n, n = Len(cs)
    PROVE  Called(Numbered(cs), Call(n, {id}, <<>>))
               = Numbered(cs \o <<[id |-> {id}, args |-> <<>>]>>)
<1> DEFINE k == Call(n, {id}, <<>>)
           new == [id |-> {id}, args |-> <<>>]
           D == C \cup {new}
           f == Numbered(cs)
           g == Numbered(cs \o <<new>>)
<1>1. k.index = n /\ k.id = {id} /\ k.args = <<>> /\ n \in Nat
  BY DEF Call
<1>2. n \notin DOMAIN f
  BY DEF Numbered
<1>3. <<>> \o <<>> = <<>>
  OBVIOUS
<1>4. Called(f, k) = With(f, n, new)
  <2>1. k.index \notin DOMAIN f /\ k.id # {}
    BY <1>1, <1>2
  <2> HIDE DEF k, f
  <2> QED BY <1>1, <1>3, <2>1 DEF Called
<1>5. cs \in Seq(D) /\ new \in D /\ Len(cs) = n
  OBVIOUS
<1> HIDE DEF new, D
<1>6. Len(cs \o <<new>>) = n + 1 /\ (cs \o <<new>>)[n + 1] = new
      /\ \A q \in 1..n : (cs \o <<new>>)[q] = cs[q]
  BY <1>1, <1>5
<1>7. With(f, n, new) = g
  <2>1. DOMAIN f = 0..(n - 1) /\ \A q \in 0..(n - 1) : f[q] = cs[q + 1]
    BY <1>5 DEF Numbered
  <2>2. g = [q \in 0..n |-> IF q = n THEN new ELSE cs[q + 1]]
    <3>1. \A q \in 0..n : (cs \o <<new>>)[q + 1] = IF q = n THEN new ELSE cs[q + 1]
      BY <1>1, <1>6
    <3> DEFINE z == cs \o <<new>>
    <3>2. g = [q \in 0..(Len(z) - 1) |-> z[q + 1]]
      BY DEF Numbered
    <3>3. Len(z) - 1 = n
      BY <1>1, <1>6
    <3> HIDE DEF z, g
    <3>4. g = [q \in 0..n |-> z[q + 1]]
      BY <3>2, <3>3
    <3> QED BY <3>1, <3>4 DEF z
  <2>3. 0..(n - 1) \cup {n} = 0..n
    BY <1>1
  <2> HIDE DEF f, g
  <2> QED BY <2>1, <2>2, <2>3 DEF With
<1> QED BY <1>4, <1>7 DEF new

LEMMA CallGrows ==
    ASSUME NEW C, NEW cs \in Seq(C), NEW id, NEW a, NEW fs
    PROVE  Called(Numbered(cs \o <<[id |-> id, args |-> a]>>), Call(Len(cs), {}, fs))
               = Numbered(cs \o <<[id |-> id, args |-> a \o fs]>>)
<1> DEFINE n == Len(cs)
           k == Call(n, {}, fs)
           w == a \o fs
           old == [id |-> id, args |-> a]
           new == [id |-> id, args |-> w]
           D == C \cup {old, new}
           f == Numbered(cs \o <<old>>)
           g == Numbered(cs \o <<new>>)
<1>1. k.index = n /\ k.id = {} /\ k.args = fs /\ n \in Nat /\ old.id = id /\ old.args = a
  BY DEF Call
<1>2. cs \in Seq(D) /\ new \in D /\ old \in D /\ Len(cs) = n
  OBVIOUS
<1> HIDE DEF D, n
<1>3. ASSUME NEW v \in D
      PROVE  Numbered(cs \o <<v>>) = [q \in 0..n |-> IF q = n THEN v ELSE cs[q + 1]]
  <2> DEFINE z == cs \o <<v>>
  <2>1. Len(z) = n + 1 /\ z[n + 1] = v /\ \A q \in 1..n : z[q] = cs[q]
    <3>1. cs \in Seq(D) /\ Len(cs) = n
      BY <1>2
    <3> QED BY <3>1
  <2>2. Numbered(z) = [q \in 0..(Len(z) - 1) |-> z[q + 1]]
    BY DEF Numbered
  <2> HIDE DEF z
  <2>3. \A q \in 0..n : z[q + 1] = IF q = n THEN v ELSE cs[q + 1]
    BY <1>1, <2>1
  <2>4. Numbered(z) = [q \in 0..n |-> z[q + 1]]
    BY <1>1, <2>1, <2>2
  <2>5. Numbered(z) = [q \in 0..n |-> IF q = n THEN v ELSE cs[q + 1]]
    BY <2>3, <2>4
  <2> QED BY <2>5 DEF z
<1>4. f = [q \in 0..n |-> IF q = n THEN old ELSE cs[q + 1]]
      /\ g = [q \in 0..n |-> IF q = n THEN new ELSE cs[q + 1]]
  <2> HIDE DEF old, new
  <2> QED BY <1>2, <1>3
<1>5. Called(f, k) = With(f, n, new)
  <2>1. k.index \in DOMAIN f /\ f[n] = old
    BY <1>1, <1>4
  <2> HIDE DEF k, f, old
  <2> QED BY <1>1, <2>1 DEF Called
<1>6. With(f, n, new) = g
  <2>1. 0..n \cup {n} = 0..n
    BY <1>1
  <2> HIDE DEF f, g, old, new
  <2> QED BY <1>4, <2>1 DEF With
<1> QED BY <1>5, <1>6 DEF n

\* What the translator passes over.
Passed(tools, e) ==
    Silent(e) \/ (/\ e.type = "content_block_delta" /\ e.delta = "input_json_delta"
                  /\ e.index \notin DOMAIN tools)

LEMMA PassedRun ==
    ASSUME NEW S, NEW u, NEW tools, NEW x \in Seq(S), NEW f, NEW s, NEW n \in Nat, DOMAIN s = 1..n,
           \A k \in 1..n : Passed(tools, s[k])
    PROVE  Run("anthropic", Midway(u, tools, x, f), s) = Midway(u, tools, x, f)
<1> DEFINE b == Midway(u, tools, x, f)
           tr == [k \in 0..n |-> b]
<1>1. ASSUME NEW k \in 1..n PROVE Step("anthropic", b, s[k]) = b
  BY SilentCrosses DEF Passed
<1> HIDE DEF b
<1>2. tr[0] = b /\ tr[n] = b /\ \A k \in 1..n : tr[k] = b /\ tr[k - 1] = b
  OBVIOUS
<1> HIDE DEF tr
<1>3. Trace("anthropic", b, s, n, tr)
  BY <1>1, <1>2 DEF Trace
<1>4. Run("anthropic", b, s) = tr[n]
  BY <1>3, RunEnds
<1> QED BY <1>2, <1>4 DEF b

\* The two halves of a block's deltas.
Bodies(i, b) == [k \in DOMAIN b.body |-> Delta(i, BodyDelta[b.kind], <<b.body[k]>>)]
Rest(i, b) == [k \in DOMAIN b.more |-> Delta(i, MoreDelta[b.kind], <<b.more[k]>>)]

LEMMA HalvesAre ==
    ASSUME NEW i \in Nat, NEW b, Sound(b), b.kind \in DOMAIN BodyDelta
    PROVE  /\ Bodies(i, b) \in Seq(BlockEvent) /\ Rest(i, b) \in Seq(BlockEvent)
           /\ DOMAIN Bodies(i, b) = 1..Len(b.body) /\ DOMAIN Rest(i, b) = 1..Len(b.more)
           /\ b.body \in Seq(STRING) /\ Len(b.body) \in Nat /\ Len(b.more) \in Nat
           /\ DeltasOf(i, b) = Bodies(i, b) \o Rest(i, b)
<1>1. Bodies(i, b) \in Seq(BlockEvent) /\ Rest(i, b) \in Seq(BlockEvent)
  BY DeltasAreEvents DEF Bodies, Rest
<1>2. b.body \in Seq(STRING) /\ b.more \in Seq(STRING)
  BY DEF Sound, Block
<1>3. DOMAIN Bodies(i, b) = 1..Len(b.body) /\ DOMAIN Rest(i, b) = 1..Len(b.more)
  BY <1>2 DEF Bodies, Rest
<1>4. DeltasOf(i, b) = Bodies(i, b) \o Rest(i, b)
  BY DEF DeltasOf, Bodies, Rest
<1> QED BY <1>1, <1>2, <1>3, <1>4

\* Citations and signatures are passed over, and so is a block that is neither text
\* nor a call.
LEMMA RestPasses ==
    ASSUME NEW S, NEW u, NEW tools, NEW x \in Seq(S), NEW f, NEW i \in Nat, NEW b, Sound(b),
           b.kind \in DOMAIN BodyDelta
    PROVE  Run("anthropic", Midway(u, tools, x, f), Rest(i, b)) = Midway(u, tools, x, f)
<1>1. ASSUME NEW k \in 1..Len(b.more) PROVE Passed(tools, Rest(i, b)[k])
  <2>1. Rest(i, b)[k] = Delta(i, MoreDelta[b.kind], <<b.more[k]>>)
    <3>1. k \in DOMAIN b.more
      BY HalvesAre DEF Sound, Block
    <3> QED BY <3>1 DEF Rest
  <2>2. b.kind \in {"text", "thinking"}
    <3>1. IsTool(b) => Len(b.more) = 0
      BY DEF Sound
    <3> QED BY <3>1, Growing DEF IsTool
  <2>3. MoreDelta[b.kind] \notin {"text_delta", "input_json_delta"}
    BY <2>2, Growing
  <2> QED BY <2>1, <2>3, DeltaHolds DEF Passed, Silent
<1> DEFINE s == Rest(i, b)
           n == Len(b.more)
<1>2. n \in Nat /\ DOMAIN s = 1..n /\ \A k \in 1..n : Passed(tools, s[k])
  BY <1>1, HalvesAre
<1> HIDE DEF s, n
<1>3. Run("anthropic", Midway(u, tools, x, f), s) = Midway(u, tools, x, f)
  BY <1>2, PassedRun
<1> QED BY <1>3 DEF s

LEMMA BodiesPass ==
    ASSUME NEW S, NEW u, NEW tools, NEW x \in Seq(S), NEW f, NEW i \in Nat, NEW b, Sound(b),
           b.kind \in {"thinking", "server_tool_use"}, i \notin DOMAIN tools
    PROVE  Run("anthropic", Midway(u, tools, x, f), Bodies(i, b)) = Midway(u, tools, x, f)
<1>0. b.kind \in DOMAIN BodyDelta
  BY Growing
<1>4. b.body \in Seq(STRING)
  BY <1>0, HalvesAre
<1>1. ASSUME NEW k \in 1..Len(b.body) PROVE Passed(tools, Bodies(i, b)[k])
  <2>1. Bodies(i, b)[k] = Delta(i, BodyDelta[b.kind], <<b.body[k]>>)
    <3>1. k \in DOMAIN b.body
      BY <1>4
    <3> QED BY <3>1 DEF Bodies
  <2>2. CASE b.kind = "thinking"
    BY <2>1, <2>2, DeltaHolds, Growing DEF Passed, Silent
  <2>3. CASE b.kind = "server_tool_use"
    BY <2>1, <2>3, DeltaHolds, Growing DEF Passed
  <2> QED BY <2>2, <2>3
<1> DEFINE s == Bodies(i, b)
           n == Len(b.body)
<1>2. n \in Nat /\ DOMAIN s = 1..n /\ \A k \in 1..n : Passed(tools, s[k])
  BY <1>0, <1>1, HalvesAre
<1> HIDE DEF s, n
<1>3. Run("anthropic", Midway(u, tools, x, f), s) = Midway(u, tools, x, f)
  BY <1>2, PassedRun
<1> QED BY <1>3 DEF s
\* The pieces of a text are gathered one after the other.
LEMMA TextGathers ==
    ASSUME NEW u, NEW tools, NEW x \in Seq(STRING), NEW f, NEW i \in Nat, NEW b, Sound(b),
           b.kind = "text"
    PROVE  Run("anthropic", Midway(u, tools, x, f), Bodies(i, b))
               = Midway(u, tools, x \o b.body, f)
<1> DEFINE n == Len(b.body)
           s == Bodies(i, b)
           tr == [k \in 0..n |-> Midway(u, tools, x \o SubSeq(b.body, 1, k), f)]
<1>0. n \in Nat /\ DOMAIN s = 1..n /\ b.body \in Seq(STRING) /\ DOMAIN b.body = 1..n
  BY HalvesAre, Growing
<1>1. tr[0] = Midway(u, tools, x, f)
  <2>1. SubSeq(b.body, 1, 0) = <<>> /\ x \o <<>> = x
    BY <1>0, SubSeqEmpty, ConcatEmptySeq
  <2> QED BY <1>0, <2>1
<1>2. tr[n] = Midway(u, tools, x \o b.body, f)
  BY <1>0, SubSeqFull
<1>3. ASSUME NEW k \in 1..n PROVE tr[k] = Step("anthropic", tr[k - 1], s[k])
  <2> DEFINE y == x \o SubSeq(b.body, 1, k - 1)
             v == <<b.body[k]>>
             e == s[k]
  <2>1. tr[k - 1] = Midway(u, tools, y, f) /\ tr[k] = Midway(u, tools, x \o SubSeq(b.body, 1, k), f)
    BY <1>0
  <2>2. e = Delta(i, "text_delta", v)
    BY <1>0, Growing DEF Bodies
  <2>3. SubSeq(b.body, 1, k) = SubSeq(b.body, 1, k - 1) \o v /\ v \in Seq(STRING)
        /\ SubSeq(b.body, 1, k - 1) \in Seq(STRING)
    BY <1>0, OneMore
  <2>4. y \in Seq(STRING) /\ x \o SubSeq(b.body, 1, k) = y \o v
    <3> DEFINE a == SubSeq(b.body, 1, k - 1)
    <3>1. a \in Seq(STRING) /\ v \in Seq(STRING) /\ SubSeq(b.body, 1, k) = a \o v
      BY <2>3
    <3> HIDE DEF a, v
    <3>2. x \o a \in Seq(STRING)
      BY <3>1
    <3>4. \A S : \A p, q, r \in Seq(S) : (p \o q) \o r = p \o (q \o r)
      BY ConcatAssociative
    <3>3. x \o (a \o v) = (x \o a) \o v
      BY <3>1, <3>4
    <3> QED BY <3>1, <3>2, <3>3 DEF a
  <2> HIDE DEF tr, y, s, v, e
  <2>5. e.type = "content_block_delta" /\ e.delta = "text_delta" /\ e.text = v
    BY <2>2, DeltaHolds
  <2>6. Step("anthropic", Midway(u, tools, y, f), e) = Midway(u, tools, y \o v, f)
    BY <2>4, <2>5, TextCrosses
  <2> QED BY <2>1, <2>4, <2>6 DEF e
<1> DEFINE b0 == tr[0]
<1> HIDE DEF s, tr, n, b0
<1>4. Trace("anthropic", b0, s, n, tr)
  BY <1>3 DEF Trace, b0
<1>5. Run("anthropic", b0, s) = tr[n]
  BY <1>0, <1>4, RunEnds
<1> QED BY <1>1, <1>2, <1>5 DEF s, b0

\* The calls so far, and one more with these arguments.
OneOn(cs, id, a) == Numbered(cs \o <<[id |-> {id}, args |-> a]>>)

\* The pieces of a call's input are gathered under its number.
LEMMA InputGathers ==
    ASSUME NEW u, NEW tools, NEW x \in Seq(STRING), NEW cs \in Seq(CallHeld), NEW i \in Nat,
           NEW b, Sound(b), b.kind = "tool_use", i \in DOMAIN tools, tools[i] = Len(cs)
    PROVE  Run("anthropic",
               Midway(u, tools, x, Numbered(cs \o <<[id |-> {b.id}, args |-> <<>>]>>)),
               Bodies(i, b))
               = Midway(u, tools, x, Numbered(cs \o <<[id |-> {b.id}, args |-> b.body]>>))
<1>7. b.kind \in DOMAIN BodyDelta
  BY Growing
<1>8. DOMAIN Bodies(i, b) = 1..Len(b.body) /\ b.body \in Seq(STRING)
  BY <1>7, HalvesAre
<1> DEFINE n == Len(b.body)
           s == Bodies(i, b)
           tr == [k \in 0..n |-> Midway(u, tools, x, OneOn(cs, b.id, SubSeq(b.body, 1, k)))]
<1>0. n \in Nat /\ DOMAIN s = 1..n /\ b.body \in Seq(STRING) /\ DOMAIN b.body = 1..n
  BY <1>8
<1>1. tr[0] = Midway(u, tools, x, OneOn(cs, b.id, <<>>))
  <2>1. SubSeq(b.body, 1, 0) = <<>>
    BY <1>0, SubSeqEmpty
  <2>2. tr[0] = Midway(u, tools, x, OneOn(cs, b.id, SubSeq(b.body, 1, 0)))
    BY <1>0
  <2> HIDE DEF tr
  <2> QED BY <2>1, <2>2
<1>2. tr[n] = Midway(u, tools, x, OneOn(cs, b.id, b.body))
  <2>1. SubSeq(b.body, 1, n) = b.body
    BY <1>0, SubSeqFull
  <2>2. tr[n] = Midway(u, tools, x, OneOn(cs, b.id, SubSeq(b.body, 1, n)))
    BY <1>0
  <2> HIDE DEF tr, n
  <2> QED BY <2>1, <2>2
<1>3. ASSUME NEW k \in 1..n PROVE tr[k] = Step("anthropic", tr[k - 1], s[k])
  <2> DEFINE a == SubSeq(b.body, 1, k - 1)
             v == <<b.body[k]>>
             e == s[k]
  <2>1. tr[k - 1] = Midway(u, tools, x, OneOn(cs, b.id, a)) /\ tr[k] = Midway(u, tools, x, OneOn(cs, b.id, SubSeq(b.body, 1, k)))
    <3> QED BY <1>0
  <2>2. e = Delta(i, "input_json_delta", v)
    BY <1>0, Growing DEF Bodies
  <2>3. SubSeq(b.body, 1, k) = a \o v
    BY <1>0, OneMore
  <2> HIDE DEF tr, a, s, v, e
  <2>5. e.type = "content_block_delta" /\ e.delta = "input_json_delta" /\ e.text = v /\ e.index = i
    BY <2>2, DeltaHolds
  <2>6. Step("anthropic", Midway(u, tools, x, OneOn(cs, b.id, a)), e)
            = Midway(u, tools, x, Called(OneOn(cs, b.id, a), Call(Len(cs), {}, v)))
    <3>1. Step("anthropic", Midway(u, tools, x, OneOn(cs, b.id, a)), e)
            = Midway(u, tools, x, Called(OneOn(cs, b.id, a), Call(tools[e.index], {}, e.text)))
      BY <2>5, InputCrosses
    <3> QED BY <2>5, <3>1
  <2>7. Called(OneOn(cs, b.id, a), Call(Len(cs), {}, v)) = OneOn(cs, b.id, a \o v)
    <3> DEFINE d == {b.id}
    <3> HIDE DEF d
    <3>1. Called(Numbered(cs \o <<[id |-> d, args |-> a]>>), Call(Len(cs), {}, v))
              = Numbered(cs \o <<[id |-> d, args |-> a \o v]>>)
      BY CallGrows
    <3> QED BY <3>1 DEF OneOn, d
  <2> QED BY <2>1, <2>3, <2>6, <2>7 DEF e
<1> DEFINE b0 == tr[0]
<1> HIDE DEF s, tr, n, b0
<1>4. Trace("anthropic", b0, s, n, tr)
  BY <1>3 DEF Trace, b0
<1>5. Run("anthropic", b0, s) = tr[n]
  BY <1>0, <1>4, RunEnds
<1>6. Run("anthropic", Midway(u, tools, x, OneOn(cs, b.id, <<>>)), s)
          = Midway(u, tools, x, OneOn(cs, b.id, b.body))
  BY <1>1, <1>2, <1>5 DEF b0
<1> QED BY <1>6 DEF s, OneOn

\* A block b that came whole, as the events es.
Across(u, tools, x, cs, i, b, es) ==
    \E tools2 :
        /\ IsFiniteSet(DOMAIN tools2) /\ DOMAIN tools2 \subseteq DOMAIN tools \cup {i}
        /\ Cardinality(DOMAIN tools2) = Len(cs \o Raw(b))
        /\ Run("anthropic", Midway(u, tools, x, Numbered(cs)), es)
               = Midway(u, tools2, x \o TextOf(b), Numbered(cs \o Raw(b)))

\* A block, from its start to its stop.
LEMMA BlockCrosses ==
    ASSUME NEW u, NEW tools, IsFiniteSet(DOMAIN tools), NEW cs \in Seq(CallHeld),
           Cardinality(DOMAIN tools) = Len(cs), NEW i \in Nat, i \notin DOMAIN tools,
           NEW x \in Seq(STRING), NEW b, Sound(b),
           NEW es, es = BlockEvents(i, b, DeltasOf(i, b))
    PROVE  Across(u, tools, x, cs, i, b, es)
<1> DEFINE open == [type |-> "content_block_start", index |-> i, block |-> Opening(b)]
           stop == [type |-> "content_block_stop", index |-> i]
           ds == DeltasOf(i, b)
           f == Numbered(cs)
           b0 == Midway(u, tools, x, f)
<1>1. b \in Block /\ b.body \in Seq(STRING)
  BY DEF Sound, Block
<1>2. open.type = "content_block_start" /\ open.index = i /\ open.block.kind = b.kind
      /\ open.block.id = b.id /\ stop.type = "content_block_stop"
  BY <1>1 DEF Opening, Block
<1>3. open \in BlockEvent /\ stop \in BlockEvent
  <2>1. Opening(b) \in Block
    BY OpeningIsBlock DEF Sound
  <2> QED BY <2>1 DEF BlockEvent
<1>4. ds \in Seq(BlockEvent)
  BY DeltasFill DEF Sent
<1>5. es = (<<open>> \o ds) \o <<stop>>
  BY DEF BlockEvents
<1>6. x \o <<>> = x /\ cs \o <<>> = cs
  BY ConcatEmptySeq
<1> HIDE DEF open, stop, ds, b0
<1>7. ASSUME NEW b1, NEW tools2, NEW y \in Seq(STRING), NEW g,
             Step("anthropic", b0, open) = b1,
             Run("anthropic", b1, ds) = Midway(u, tools2, y, g)
      PROVE  Run("anthropic", b0, es) = Midway(u, tools2, y, g)
  <2> DEFINE p == <<open>>
             q == <<stop>>
             r == p \o ds
             b2 == Midway(u, tools2, y, g)
  <2>1. p \in Seq(BlockEvent) /\ Run("anthropic", b0, p) = b1
    BY <1>3, <1>7, RunOfOne
  <2>2. Step("anthropic", b2, stop) = b2
    <3>1. Silent(stop)
      BY <1>2 DEF Silent
    <3> QED BY <3>1, SilentCrosses
  <2>3. q \in Seq(BlockEvent) /\ Run("anthropic", b2, q) = b2
    BY <1>3, <2>2, RunOfOne
  <2>4. Run("anthropic", b1, ds) = b2
    BY <1>7
  <2> HIDE DEF p, q, b2
  <2>5. r \in Seq(BlockEvent) /\ Run("anthropic", b0, r) = b2
    BY <1>4, <2>1, <2>4, RunJoined
  <2>6. es = r \o q
    BY <1>5 DEF p, q
  <2> HIDE DEF r
  <2>7. Run("anthropic", b0, r \o q) = b2
    BY <2>3, <2>5, RunJoined
  <2> QED BY <2>6, <2>7 DEF b2
<1>8. CASE b.kind = "tool_use"
  <2> DEFINE n == Len(cs)
             tools2 == With(tools, i, n)
             new == [id |-> {b.id}, args |-> <<>>]
             full == [id |-> {b.id}, args |-> b.body]
             b1 == Midway(u, tools2, x, Numbered(cs \o <<new>>))
             b2 == Midway(u, tools2, x, Numbered(cs \o <<full>>))
  <2>1. Step("anthropic", b0, open) = b1
    <3>1. Step("anthropic", b0, open)
              = Midway(u, With(tools, open.index, n), x, Called(f, Call(n, {open.block.id}, <<>>)))
      <4> HIDE DEF f
      <4> QED BY <1>2, <1>8, CallCrosses DEF b0
    <3>2. Called(f, Call(n, {b.id}, <<>>)) = Numbered(cs \o <<new>>)
      BY CallOpens
    <3> HIDE DEF f, new
    <3> QED BY <1>2, <3>1, <3>2
  <2>2. DOMAIN tools2 = DOMAIN tools \cup {i} /\ tools2[i] = n
    BY DEF With
  <2>3. Run("anthropic", b1, ds) = b2
    <3>1. Bodies(i, b) \in Seq(BlockEvent) /\ Rest(i, b) \in Seq(BlockEvent)
          /\ ds = Bodies(i, b) \o Rest(i, b)
      BY <1>8, HalvesAre, Growing DEF ds
    <3>2. Run("anthropic", b1, Bodies(i, b)) = b2
      <4> HIDE DEF tools2
      <4> QED BY <1>8, <2>2, InputGathers
    <3>3. Run("anthropic", b2, Rest(i, b)) = b2
      <4> DEFINE h == Numbered(cs \o <<full>>)
      <4> HIDE DEF tools2, h, full
      <4>1. Run("anthropic", Midway(u, tools2, x, h), Rest(i, b)) = Midway(u, tools2, x, h)
        BY <1>8, Growing, RestPasses
      <4> QED BY <4>1 DEF h
    <3> HIDE DEF b1, b2
    <3> QED BY <3>1, <3>2, <3>3, RunJoined
  <2>4. Raw(b) = <<full>> /\ TextOf(b) = <<>>
    BY <1>8 DEF Raw, TextOf
  <2>5. Cardinality(DOMAIN tools2) = n + 1 /\ IsFiniteSet(DOMAIN tools2)
    BY <2>2, FS_AddElement
  <2>6. Len(cs \o <<full>>) = n + 1
    OBVIOUS
  <2>7. Run("anthropic", b0, es) = b2
    <3> DEFINE h == Numbered(cs \o <<full>>)
    <3> HIDE DEF b1, h, tools2
    <3> QED BY <1>7, <2>1, <2>3
  <2>8. Run("anthropic", Midway(u, tools, x, f), es)
            = Midway(u, tools2, x \o TextOf(b), Numbered(cs \o Raw(b)))
    BY <1>6, <2>4, <2>7 DEF b0
  <2> HIDE DEF tools2, full
  <2> QED BY <2>2, <2>4, <2>5, <2>6, <2>8 DEF Across
<1>9. CASE b.kind # "tool_use"
  <2>1. Step("anthropic", b0, open) = b0
    <3>1. Silent(open)
      BY <1>2, <1>9 DEF Silent
    <3> QED BY <3>1, SilentCrosses DEF b0
  <2>2. Run("anthropic", b0, ds) = Midway(u, tools, x \o TextOf(b), f)
    <3>1. CASE b.kind \notin DOMAIN BodyDelta
      <4>1. ds = <<>> /\ TextOf(b) = <<>>
        BY <3>1, Growing DEF ds, DeltasOf, TextOf
      <4> QED BY <1>6, <4>1, RunOfNone DEF b0
    <3>2. CASE b.kind \in DOMAIN BodyDelta
      <4> DEFINE y == x \o TextOf(b)
      <4>1. Bodies(i, b) \in Seq(BlockEvent) /\ Rest(i, b) \in Seq(BlockEvent)
            /\ ds = Bodies(i, b) \o Rest(i, b)
        BY <3>2, HalvesAre DEF ds
      <4>2. y \in Seq(STRING) /\ Run("anthropic", b0, Bodies(i, b)) = Midway(u, tools, y, f)
        <5>1. CASE b.kind = "text"
          <6>1. TextOf(b) = b.body
            BY <5>1 DEF TextOf
          <6>2. Run("anthropic", b0, Bodies(i, b)) = Midway(u, tools, x \o b.body, f)
            <7> HIDE DEF f
            <7> QED BY <5>1, TextGathers DEF b0
          <6> QED BY <1>1, <6>1, <6>2, ConcatProperties
        <5>2. CASE b.kind # "text"
          <6>1. TextOf(b) = <<>> /\ b.kind \in {"thinking", "server_tool_use"}
            BY <1>9, <3>2, <5>2, Growing DEF TextOf
          <6>2. Run("anthropic", b0, Bodies(i, b)) = b0
            <7> HIDE DEF f
            <7> QED BY <6>1, BodiesPass DEF b0
          <6> QED BY <1>6, <6>1, <6>2 DEF b0
        <5> QED BY <5>1, <5>2
      <4>3. Run("anthropic", Midway(u, tools, y, f), Rest(i, b)) = Midway(u, tools, y, f)
        <5> HIDE DEF y, f
        <5> QED BY <3>2, <4>2, RestPasses
      <4> DEFINE b2 == Midway(u, tools, y, f)
      <4>4. Run("anthropic", b0, Bodies(i, b)) = b2 /\ Run("anthropic", b2, Rest(i, b)) = b2
        BY <4>2, <4>3
      <4> HIDE DEF b2
      <4>5. Run("anthropic", b0, ds) = b2
        BY <4>1, <4>4, RunJoined
      <4> QED BY <4>5 DEF b2
    <3> QED BY <3>1, <3>2
  <2>3. Raw(b) = <<>>
    BY <1>9 DEF Raw
  <2>4. x \o TextOf(b) \in Seq(STRING)
    <3>1. TextOf(b) \in Seq(STRING)
      <4>1. <<>> \in Seq(STRING)
        OBVIOUS
      <4> QED BY <1>1, <4>1 DEF TextOf
    <3> QED BY <3>1, ConcatProperties
  <2> DEFINE y == x \o TextOf(b)
  <2> HIDE DEF y
  <2>5. Run("anthropic", b0, es) = Midway(u, tools, y, f)
    <3> HIDE DEF f
    <3> QED BY <1>7, <2>1, <2>2, <2>4 DEF y
  <2> QED BY <1>6, <2>3, <2>5 DEF Across, b0, y
<1> QED BY <1>8, <1>9
-----------------------------------------------------------------------------
(* A message crosses.                                                      *)

TextsOf(blocks) == [i \in DOMAIN blocks |-> TextOf(blocks[i])]
RawsOf(blocks) == [i \in DOMAIN blocks |-> Raw(blocks[i])]

LEMMA PartsAre ==
    ASSUME NEW blocks \in Seq(Block), NEW n, n = Len(blocks)
    PROVE  /\ n \in Nat /\ DOMAIN blocks = 1..n
           /\ TextsOf(blocks) \in Seq(Seq(STRING)) /\ Len(TextsOf(blocks)) = n
           /\ RawsOf(blocks) \in Seq(Seq(CallHeld)) /\ Len(RawsOf(blocks)) = n
<1>1. n \in Nat /\ DOMAIN blocks = 1..n
  OBVIOUS
<1>2. ASSUME NEW i \in 1..n
      PROVE  TextOf(blocks[i]) \in Seq(STRING) /\ Raw(blocks[i]) \in Seq(CallHeld)
  <2> DEFINE b == blocks[i]
  <2>1. b.body \in Seq(STRING) /\ b.id \in STRING /\ <<>> \in Seq(STRING) /\ <<>> \in Seq(CallHeld)
    <3>1. b \in Block
      OBVIOUS
    <3> HIDE DEF b
    <3> QED BY <3>1, EmptySeq DEF Block
  <2> HIDE DEF b
  <2>2. TextOf(b) \in Seq(STRING)
    BY <2>1 DEF TextOf
  <2>3. [id |-> {b.id}, args |-> b.body] \in CallHeld
    BY <2>1 DEF CallHeld
  <2>4. Raw(b) \in Seq(CallHeld)
    BY <2>1, <2>3 DEF Raw
  <2> QED BY <2>2, <2>4 DEF b
<1>3. TextsOf(blocks) \in [1..n -> Seq(STRING)] /\ RawsOf(blocks) \in [1..n -> Seq(CallHeld)]
  BY <1>1, <1>2 DEF TextsOf, RawsOf
<1> QED BY <1>1, <1>3, SeqDef

\* The events, text and calls of all the blocks.
EventsOf(blocks) ==
    [i \in DOMAIN blocks |-> BlockEvents(i, blocks[i], DeltasOf(i, blocks[i]))]
AllEvents(blocks) == FlattenSeq(EventsOf(blocks))
AllText(blocks) == FlattenSeq(TextsOf(blocks))
AllCalls(blocks) == FlattenSeq(RawsOf(blocks))

LEMMA BlocksCross ==
    ASSUME NEW u, NEW blocks \in Seq(Block), \A i \in DOMAIN blocks : Sound(blocks[i])
    PROVE  /\ AllText(blocks) \in Seq(STRING) /\ AllCalls(blocks) \in Seq(CallHeld)
           /\ AllEvents(blocks) \in Seq(BlockEvent)
           /\ \E tools : Run("anthropic", Midway(u, Empty, <<>>, Numbered(<<>>)), AllEvents(blocks))
                             = Midway(u, tools, AllText(blocks), Numbered(AllCalls(blocks)))
<1> DEFINE q == EventsOf(blocks)
           texts == AllText(blocks)
           raws == AllCalls(blocks)
<1>0. /\ q = [i \in DOMAIN blocks |-> BlockEvents(i, blocks[i], DeltasOf(i, blocks[i]))]
      /\ texts = FlattenSeq(TextsOf(blocks)) /\ raws = FlattenSeq(RawsOf(blocks))
      /\ AllEvents(blocks) = FlattenSeq(q)
  BY DEF EventsOf, AllText, AllCalls, AllEvents
<1> USE <1>0
<1> HIDE DEF q, texts, raws
<1> DEFINE n == Len(blocks)
           qt == TextsOf(blocks)
           qr == RawsOf(blocks)
           b0 == Midway(u, Empty, <<>>, Numbered(<<>>))
<1>1. n \in Nat /\ DOMAIN blocks = 1..n
  OBVIOUS
<1>2. /\ qt \in Seq(Seq(STRING)) /\ Len(qt) = n /\ qr \in Seq(Seq(CallHeld)) /\ Len(qr) = n
  BY PartsAre
<1>3. \A i \in 1..n : qt[i] = TextOf(blocks[i]) /\ qr[i] = Raw(blocks[i])
  BY <1>1 DEF TextsOf, RawsOf
<1> HIDE DEF n, qt, qr, b0
<1>4. \A i \in 1..n : /\ i \in Nat /\ Sound(blocks[i])
                      /\ q[i] = BlockEvents(i, blocks[i], DeltasOf(i, blocks[i]))
  BY <1>1
<1>5. q \in Seq(Seq(BlockEvent)) /\ Len(q) = n
  <2>1. ASSUME NEW i \in 1..n PROVE q[i] \in Seq(BlockEvent)
    <3>1. Sent(i, blocks[i], DeltasOf(i, blocks[i]))
      BY DEF Sent
    <3> QED BY <1>4, <3>1, BlockIsRead
  <2>2. q \in [1..n -> Seq(BlockEvent)]
    BY <1>1, <2>1
  <2> QED BY <1>1, <2>2, SeqDef
<1>6. PICK fl \in [0..n -> Seq(BlockEvent)] : LaidOut(q, n, fl) /\ FlattenSeq(q) = fl[n]
  BY <1>1, <1>5, FlattenLaysOut
<1>7. PICK ft \in [0..n -> Seq(STRING)] : LaidOut(qt, n, ft) /\ FlattenSeq(qt) = ft[n]
  BY <1>1, <1>2, FlattenLaysOut
<1>8. PICK fr \in [0..n -> Seq(CallHeld)] : LaidOut(qr, n, fr) /\ FlattenSeq(qr) = fr[n]
  BY <1>1, <1>2, FlattenLaysOut
<1> DEFINE Passage(m, tools) ==
             /\ IsFiniteSet(DOMAIN tools) /\ DOMAIN tools \subseteq 1..m
             /\ Cardinality(DOMAIN tools) = Len(fr[m])
             /\ Run("anthropic", b0, fl[m]) = Midway(u, tools, ft[m], Numbered(fr[m]))
           S == {m \in Nat : m <= n => \E tools : Passage(m, tools)}
<1>9. 0 \in S
  <2>1. fl[0] = <<>> /\ ft[0] = <<>> /\ fr[0] = <<>>
    BY <1>6, <1>7, <1>8 DEF LaidOut
  <2>2. DOMAIN Empty = {} /\ IsFiniteSet({}) /\ Cardinality({}) = 0 /\ Len(<<>>) = 0
    BY FS_EmptySet DEF Empty
  <2>3. Run("anthropic", b0, fl[0]) = Midway(u, Empty, ft[0], Numbered(fr[0]))
    BY <2>1, RunOfNone DEF b0
  <2>4. Passage(0, Empty)
    BY <2>1, <2>2, <2>3
  <2> HIDE DEF Passage
  <2> QED BY <2>4
<1>10. ASSUME NEW m \in Nat, m \in S PROVE m + 1 \in S
  <2> SUFFICES ASSUME m + 1 <= n, NEW tools, Passage(m, tools)
               PROVE  \E tools2 : Passage(m + 1, tools2)
    <3> HIDE DEF Passage
    <3> QED BY <1>1, <1>10
  <2> DEFINE i == m + 1
             b == blocks[i]
             es == q[i]
             x == ft[m]
             cs == fr[m]
             p == fl[m]
  <2>1. i \in 1..n /\ i - 1 = m /\ m \in 0..n /\ i \in Nat /\ i \notin DOMAIN tools
    BY <1>1
  <2>2. fl[i] = p \o es /\ ft[i] = x \o TextOf(b) /\ fr[i] = cs \o Raw(b)
    BY <1>3, <1>6, <1>7, <1>8, <2>1 DEF LaidOut
  <2>3. p \in Seq(BlockEvent) /\ x \in Seq(STRING) /\ cs \in Seq(CallHeld)
    BY <2>1
  <2>4. Sound(b) /\ es = BlockEvents(i, b, DeltasOf(i, b))
    BY <1>4, <2>1
  <2>5. es \in Seq(BlockEvent)
    BY <1>5, <2>1, ElementOfSeq
  <2>6. /\ IsFiniteSet(DOMAIN tools) /\ Cardinality(DOMAIN tools) = Len(cs)
        /\ DOMAIN tools \subseteq 1..m
        /\ Run("anthropic", b0, p) = Midway(u, tools, x, Numbered(cs))
    OBVIOUS
  <2> HIDE DEF b, es, x, cs, p, i
  <2>7. PICK tools2 :
              /\ IsFiniteSet(DOMAIN tools2) /\ DOMAIN tools2 \subseteq DOMAIN tools \cup {i}
              /\ Cardinality(DOMAIN tools2) = Len(cs \o Raw(b))
              /\ Run("anthropic", Midway(u, tools, x, Numbered(cs)), es)
                     = Midway(u, tools2, x \o TextOf(b), Numbered(cs \o Raw(b)))
    <3>1. Sound(b) /\ es = BlockEvents(i, b, DeltasOf(i, b))
      BY <2>4
    <3>2. i \in Nat /\ i \notin DOMAIN tools /\ x \in Seq(STRING) /\ cs \in Seq(CallHeld)
      BY <2>1, <2>3
    <3>3. IsFiniteSet(DOMAIN tools) /\ Cardinality(DOMAIN tools) = Len(cs)
      BY <2>6
    <3>4. Across(u, tools, x, cs, i, b, es)
      BY <3>1, <3>2, <3>3, BlockCrosses
    <3> QED BY <3>4 DEF Across
  <2> DEFINE b1 == Midway(u, tools, x, Numbered(cs))
             b2 == Midway(u, tools2, x \o TextOf(b), Numbered(cs \o Raw(b)))
  <2>8. Run("anthropic", b0, p) = b1 /\ Run("anthropic", b1, es) = b2
    BY <2>6, <2>7
  <2> HIDE DEF b1, b2
  <2>9. Run("anthropic", b0, p \o es) = b2
    BY <2>3, <2>5, <2>8, RunJoined
  <2>10. DOMAIN tools2 \subseteq 1..i
    <3>1. 1..m \cup {m + 1} = 1..(m + 1)
      OBVIOUS
    <3> QED BY <2>6, <2>7, <3>1 DEF i
  <2>11. Passage(i, tools2)
    BY <2>2, <2>7, <2>9, <2>10 DEF b2
  <2> HIDE DEF Passage
  <2> QED BY <2>11 DEF i
<1>11. n \in S
  <2> HIDE DEF S
  <2> QED BY <1>1, <1>9, <1>10, FromTheLeast
<1>12. \E tools : Run("anthropic", b0, fl[n]) = Midway(u, tools, ft[n], Numbered(fr[n]))
  BY <1>1, <1>11
<1>13. fl[n] \in Seq(BlockEvent) /\ ft[n] \in Seq(STRING) /\ fr[n] \in Seq(CallHeld)
  BY <1>1
<1>14. fl[n] = FlattenSeq(q) /\ ft[n] = texts /\ fr[n] = raws
  BY <1>6, <1>7, <1>8 DEF qt, qr
<1> QED BY <1>12, <1>13, <1>14 DEF b0, texts, raws

\* A capture fed with the last two lines of a stream.
LEMMA LastLines ==
    ASSUME NEW S, NEW x \in Seq(S), NEW f, NEW g, NEW u
    PROVE  FoldLeft(FeedChunk, Gathering(x, f), <<Chunk(<<>>, <<>>, g, u), DoneLine>>)
               = Gathered(x, f, g, u, Yes, No)
<1> DEFINE c == Gathering(x, f)
           l == Chunk(<<>>, <<>>, g, u)
           d == Gathered(x, f, g, u, No, No)
           e == Gathered(x, f, g, u, Yes, No)
           p == <<l>>
           q == <<DoneLine>>
<1>1. FeedChunk(c, l) = d
  <2>1. FeedChunk(c, l) = Gathered(x \o <<>>, FoldLeft(Called, f, <<>>), Latest(g, {}),
                                   Latest(u, {}), No, No)
    BY GatheringFed
  <2>2. x \o <<>> = x /\ Latest(g, {}) = g /\ Latest(u, {}) = u
    BY ConcatEmptySeq DEF Latest
  <2> HIDE DEF c, l
  <2> QED BY <2>1, <2>2, NoneCalled
<1>2. FeedChunk(d, DoneLine) = e
  <2>1. /\ d.content = x /\ d.calls = f /\ d.finish = g /\ d.usage = u
        /\ d.done = No /\ d.unusable = No /\ IsChat(d)
    BY GatheredHolds, GatheredAre
  <2> HIDE DEF d
  <2>2. ~d.done /\ ~d.unusable
    BY <2>1 DEF No
  <2>3. FeedChunk(d, DoneLine) = Gathered(d.content, d.calls, d.finish, d.usage, Yes, d.unusable)
    BY <2>1, <2>2, EndFed
  <2> QED BY <2>1, <2>3
<1>3. <<l, DoneLine>> = p \o q
  <2> HIDE DEF l
  <2> QED BY PairIsConcat
<1>4. DOMAIN <<l, DoneLine>> = 1..2 /\ 2 \in Nat
  OBVIOUS
<1> HIDE DEF c, l, d, e
<1>5. FoldLeft(FeedChunk, c, <<l, DoneLine>>) = Run("chunk", c, <<l, DoneLine>>)
  BY <1>4, FoldsAreRuns
<1>6. Run("chunk", c, p) = d /\ Run("chunk", d, q) = e
  BY <1>1, <1>2, RunOfOne DEF Step
<1>7. p \in Seq({l, DoneLine}) /\ q \in Seq({l, DoneLine})
  OBVIOUS
<1> HIDE DEF p, q
<1>8. Run("chunk", c, p \o q) = e
  BY <1>6, <1>7, RunJoined
<1> QED BY <1>3, <1>5, <1>8 DEF c, e, l

CountsOf(u) ==
    [prompt |-> Reported(u, "input") + Reported(u, "read"), completion |-> Reported(u, "output"),
     cached |-> Reported(u, "read"),
     reasoning |-> {u[f] : f \in {"thinking"} \cap DOMAIN u}]

FinishOf(stop) == IF stop = "tool_use" THEN "tool_calls" ELSE "stop"

\* The capture after the last two lines of an Anthropic stream.
WholeChat(x, f, stop, u) == Gathered(x, f, {FinishOf(stop)}, {CountsOf(u)}, Yes, No)

\* What the last counted event e of an answer makes of the two stages.
EndsOn(u, tools, x, f, e) ==
    Step("anthropic", Midway(u, tools, x, f), e)
        = Pair(Told0(Merged(u, e.usage), tools),
               WholeChat(x, f, e.stop, Merged(u, e.usage)))

LEMMA EndCrosses ==
    ASSUME NEW u, NEW tools, NEW S, NEW x \in Seq(S), NEW f, NEW e, e.type = "message_delta",
           DOMAIN Merged(u, e.usage) # {}
    PROVE  EndsOn(u, tools, x, f, e)
<1> DEFINE w == Merged(u, e.usage)
<1>0. w = Merged(u, e.usage) /\ DOMAIN w # {}
  OBVIOUS
<1> HIDE DEF w
<1> DEFINE t == Told0(u, tools)
           c == Gathering(x, f)
           b == Midway(u, tools, x, f)
           v == Told0(w, tools)
           out == <<Chunk(<<>>, <<>>, {FinishOf(e.stop)}, {CountsOf(w)}), DoneLine>>
           step == [t |-> v, out |-> out]
           d == Gathered(x, f, {FinishOf(e.stop)}, {CountsOf(w)}, Yes, No)
<1>1. b.t = t /\ b.c = c /\ t.usage = u /\ v.usage = w
  <2>1. \A y : Told0(y, tools).usage = y
    BY DEF Told0
  <2>2. b.t = t /\ b.c = c
    BY MidwayHolds
  <2> HIDE DEF t, c, b, v
  <2> QED BY <2>1, <2>2 DEF t, v
<1>2. FoldLeft(FeedChunk, c, out) = d
  <2> DEFINE g == {FinishOf(e.stop)}
             us == {CountsOf(w)}
  <2>1. g # {} /\ us # {}
    OBVIOUS
  <2> HIDE DEF g, us
  <2> QED BY <2>1, LastLines
<1>3. Absorb(t, e.usage) = v
  BY <1>0, <1>1, MidwayHolds DEF Absorb
<1> HIDE DEF t, c, b, v, d
<1>4. Closing(v, e.stop) = out
  BY <1>0, <1>1 DEF Closing, CountsOf, FinishOf
<1> HIDE DEF out
<1>5. TranslateAnthropic(t, e) = step
  BY <1>3, <1>4 DEF TranslateAnthropic
<1>6. Step("anthropic", b, e) = Crossing(b, step)
  BY <1>1, <1>5 DEF Step
<1>7. Crossing(b, step) = Pair(v, d)
  BY <1>1, <1>2 DEF Crossing, Pair
<1> QED BY <1>0, <1>6, <1>7 DEF b, v, d, WholeChat, EndsOn

\* Events that neither translator has anything to do with.
LEMMA HushedCrosses ==
    ASSUME NEW way \in {"anthropic", "gemini"}, NEW t, NEW c, NEW e,
           e.type \in {"ping", "unknown", "error", "json", "message_stop"}
    PROVE  Step(way, Pair(t, c), e) = Pair(t, c)
<1> DEFINE quiet == [t |-> t, out |-> <<>>]
<1>1. Told(way, t, e) = quiet
  BY DEF Told, TranslateAnthropic, TranslateGemini
<1>2. FoldLeft(FeedChunk, c, <<>>) = c
  <2>1. DOMAIN <<>> = 1..0 /\ 0 \in Nat
    OBVIOUS
  <2>2. FoldLeft(FeedChunk, c, <<>>) = Run("chunk", c, <<>>)
    BY <2>1, FoldsAreRuns
  <2> QED BY <2>2, RunOfNone
<1>3. Pair(t, c).t = t /\ Pair(t, c).c = c
  BY DEF Pair
<1>4. Step(way, Pair(t, c), e) = Crossing(Pair(t, c), quiet)
  BY <1>1, <1>3, StepsAre
<1> QED BY <1>2, <1>3, <1>4 DEF Crossing, Pair

\* The usage that is reported first, then last.
LEMMA MergedTwice ==
    ASSUME NEW a, NEW b
    PROVE  /\ Merged(Merged(Empty, a), b) = Merged(a, b)
           /\ Merged(Merged(Empty, a), a) = Merged(Empty, a)
           /\ Merged(Merged(Empty, a), Merged(a, b)) = Merged(a, b)
           /\ Merged(Empty, Merged(a, b)) = Merged(a, b)
           /\ DOMAIN Merged(a, b) = DOMAIN a \cup DOMAIN b
BY DEF Merged, Empty

\* Before anything has come.
Fresh == Pair(TranslatorNew, ChatNew)

LEMMA FreshIs == Fresh = Midway(Empty, Empty, <<>>, Numbered(<<>>))
<1>1. Numbered(<<>>) = Empty
  <2>1. 0..(Len(<<>>) - 1) = {}
    OBVIOUS
  <2> QED BY <2>1 DEF Numbered, Empty
<1>2. TranslatorNew = Told0(Empty, Empty)
  BY DEF TranslatorNew, Told0
<1>3. ChatNew = Gathering(<<>>, Empty)
  BY DEF ChatNew, Gathering, Gathered, No
<1> QED BY <1>1, <1>2, <1>3 DEF Fresh, Midway

\* The capture when a translated answer is whole.
FinalChat(m) ==
    WholeChat(AllText(m.blocks), Numbered(AllCalls(m.blocks)), m.stop,
              Merged(m.first, m.last))
-----------------------------------------------------------------------------
(* Whatever lines come, torn ones too: the capture is done when the answer *)
(* is, and what it holds can be given.                                     *)

Frags == STRING \cup {"garbled", "{}"}

\* A line as the translator gets it.
Readable(e) ==
    /\ e.type \in {"content_block_delta", "frame"} => e.text \in Seq(Frags)
    /\ e.type = "message_delta" => DOMAIN e.usage # {}
    /\ e.type = "frame" /\ e.finish # {} => DOMAIN e.usage # {}

\* The line that makes the answer whole.
Ready(way, e) == IF way = "gemini" THEN e.type = "frame" /\ e.finish # {}
                 ELSE e.type = "message_delta"

IsCall(v) == v.id # {} /\ v.args \in Seq(Frags) /\ v = [id |-> v.id, args |-> v.args]

\* k calls, numbered from 0, each with its id.
Listed(f, k) == k \in Nat /\ DOMAIN f = 0..(k - 1) /\ \A i \in 0..(k - 1) : IsCall(f[i])

\* The calls that the translator knows of are among them.
Known(tools, f) ==
    /\ IsFiniteSet(DOMAIN tools)
    /\ \E k \in Nat : /\ Listed(f, k) /\ Cardinality(DOMAIN tools) <= k
                      /\ \A i \in DOMAIN tools : tools[i] \in 0..(k - 1)

LEMMA CalledListed ==
    ASSUME NEW k \in Nat, NEW f, Listed(f, k), NEW n \in 0..k, NEW id, n = k => id # {},
           NEW args \in Seq(Frags)
    PROVE  Listed(Called(f, Call(n, id, args)), IF n = k THEN k + 1 ELSE k)
<1> DEFINE c == Call(n, id, args)
           g == Called(f, c)
           old == IF n \in DOMAIN f THEN f[n] ELSE [id |-> {}, args |-> <<>>]
           i1 == IF id = {} THEN old.id ELSE id
           a1 == old.args \o args
           v == [id |-> i1, args |-> a1]
           m == IF n = k THEN k + 1 ELSE k
<1>1. c.index = n /\ c.id = id /\ c.args = args
  BY DEF Call
<1>2. DOMAIN f = 0..(k - 1) /\ \A i \in 0..(k - 1) : IsCall(f[i])
  BY DEF Listed
<1>3. g = With(f, n, v)
  <2> HIDE DEF c
  <2> QED BY <1>1 DEF Called
<1>4. old.args \in Seq(Frags) /\ (n \in DOMAIN f => old.id # {})
  <2>1. CASE n \in DOMAIN f
    BY <1>2, <2>1 DEF IsCall
  <2>2. CASE n \notin DOMAIN f
    <3>1. old.args = <<>>
      BY <2>2
    <3> QED BY <2>2, <3>1, EmptySeq
  <2> QED BY <2>1, <2>2
<1>5. i1 # {}
  <2>1. CASE n = k
    BY <2>1
  <2>2. CASE n # k
    <3>1. n \in DOMAIN f
      BY <1>2, <2>2
    <3> QED BY <1>4, <3>1
  <2> QED BY <2>1, <2>2
<1> HIDE DEF c, g, old
<1>6. a1 \in Seq(Frags)
  BY <1>4, ConcatProperties
<1> HIDE DEF i1, a1
<1>7. IsCall(v)
  BY <1>5, <1>6 DEF IsCall
<1> HIDE DEF v
<1>8. DOMAIN g = 0..(k - 1) \cup {n} /\ \A i \in DOMAIN g : IsCall(g[i])
  <2>1. DOMAIN g = DOMAIN f \cup {n} /\ g[n] = v /\ \A j \in DOMAIN f : j # n => g[j] = f[j]
    BY <1>3 DEF With
  <2> QED BY <1>2, <1>7, <2>1
<1>9. m \in Nat /\ 0..(k - 1) \cup {n} = 0..(m - 1)
  OBVIOUS
<1> HIDE DEF m
<1>10. Listed(g, m)
  BY <1>8, <1>9 DEF Listed
<1> QED BY <1>10 DEF g, c, m

LEMMA CallsStayKnown ==
    ASSUME NEW tools, NEW f, Known(tools, f), NEW i
    PROVE  /\ \A id : Known(With(tools, i, Cardinality(DOMAIN tools)),
                            Called(f, Call(Cardinality(DOMAIN tools), {id}, <<>>)))
           /\ i \in DOMAIN tools => \A fs \in Seq(Frags) :
                  Known(tools, Called(f, Call(tools[i], {}, fs)))
<1> DEFINE n == Cardinality(DOMAIN tools)
<1>1. PICK k \in Nat : /\ Listed(f, k) /\ n <= k
                       /\ \A j \in DOMAIN tools : tools[j] \in 0..(k - 1)
  BY DEF Known
<1>2. IsFiniteSet(DOMAIN tools) /\ n \in Nat
  BY FS_CardinalityType DEF Known
<1> HIDE DEF n
<1>3. ASSUME NEW id PROVE Known(With(tools, i, n), Called(f, Call(n, {id}, <<>>)))
  <2> DEFINE g == Called(f, Call(n, {id}, <<>>))
             w == With(tools, i, n)
             m == IF n = k THEN k + 1 ELSE k
  <2>1. Listed(g, m)
    <3> DEFINE s == {id}
               a == <<>>
    <3>1. s # {} /\ n \in 0..k /\ a \in Seq(Frags)
      BY <1>1, <1>2, EmptySeq
    <3> HIDE DEF s, a
    <3>2. Listed(Called(f, Call(n, s, a)), m)
      BY <1>1, <3>1, CalledListed
    <3> QED BY <3>2 DEF s, a
  <2>2. DOMAIN w = DOMAIN tools \cup {i} /\ w[i] = n
        /\ \A j \in DOMAIN tools : j # i => w[j] = tools[j]
    BY DEF With
  <2>3. m \in Nat /\ m >= k /\ m >= n + 1
    BY <1>1, <1>2
  <2> HIDE DEF g, w, m
  <2>4. IsFiniteSet(DOMAIN w) /\ Cardinality(DOMAIN w) <= n + 1
    <3>1. /\ IsFiniteSet(DOMAIN tools \cup {i})
          /\ Cardinality(DOMAIN tools \cup {i})
                 = IF i \in DOMAIN tools THEN n ELSE n + 1
      BY <1>2, FS_AddElement DEF n
    <3> QED BY <1>2, <2>2, <3>1
  <2>5. Cardinality(DOMAIN w) <= m
    <3>1. Cardinality(DOMAIN w) \in Nat
      BY <2>4, FS_CardinalityType
    <3> QED BY <1>2, <2>3, <2>4, <3>1
  <2>6. \A j \in DOMAIN w : w[j] \in 0..(m - 1)
    BY <1>1, <1>2, <2>2, <2>3
  <2> QED BY <2>1, <2>3, <2>4, <2>5, <2>6 DEF Known, g, w
<1>4. ASSUME i \in DOMAIN tools, NEW fs \in Seq(Frags)
      PROVE  Known(tools, Called(f, Call(tools[i], {}, fs)))
  <2> DEFINE x == tools[i]
             e == {}
  <2>1. x \in 0..k /\ x # k
    BY <1>1, <1>4
  <2> HIDE DEF x, e
  <2>2. Listed(Called(f, Call(x, e, fs)), IF x = k THEN k + 1 ELSE k)
    BY <1>1, <2>1, CalledListed
  <2>3. Listed(Called(f, Call(tools[i], {}, fs)), k)
    BY <2>1, <2>2 DEF x, e
  <2> QED BY <1>1, <1>2, <2>3 DEF Known, n
<1> QED BY <1>3, <1>4 DEF n
\* A capture that is done, or has seen an error, reads no more.
LEMMA FrozenFed ==
    ASSUME NEW c, c.done \/ c.unusable, NEW s, NEW n \in Nat, DOMAIN s = 1..n
    PROVE  Run("chunk", c, s) = c /\ FoldLeft(FeedChunk, c, s) = c
<1> DEFINE tr == [k \in 0..n |-> c]
<1>1. tr[0] = c /\ tr[n] = c /\ \A k \in 1..n : tr[k] = c /\ tr[k - 1] = c
  OBVIOUS
<1>2. \A k \in 1..n : Step("chunk", c, s[k]) = c
  BY ChatStops DEF Step
<1> HIDE DEF tr
<1>3. Trace("chunk", c, s, n, tr)
  BY <1>1, <1>2 DEF Trace
<1>4. Run("chunk", c, s) = c
  BY <1>1, <1>3, RunEnds
<1>5. FoldLeft(FeedChunk, c, s) = Run("chunk", c, s)
  BY FoldsAreRuns
<1> QED BY <1>4, <1>5

\* A capture that gives an answer.
Given(c) ==
    /\ c.done /\ ~c.unusable /\ c.usage # {} /\ c.content \in Seq(Frags)
    /\ \E k \in Nat : Listed(c.calls, k)

Underway(b) ==
    \E u, tools, f : \E x \in Seq(Frags) : b = Midway(u, tools, x, f) /\ Known(tools, f)

LEMMA FreshUnderway == Underway(Fresh)
<1>1. /\ DOMAIN Empty = {} /\ DOMAIN Numbered(<<>>) = 0..(0 - 1) /\ 0 \in Nat
      /\ \A i \in 0..(0 - 1) : IsCall(Numbered(<<>>)[i])
  <2>1. 0..(Len(<<>>) - 1) = 0..(0 - 1) /\ 0..(0 - 1) = {}
    OBVIOUS
  <2> QED BY <2>1 DEF Numbered, Empty
<1>2. IsFiniteSet(DOMAIN Empty) /\ Cardinality(DOMAIN Empty) = 0
  BY <1>1, FS_EmptySet
<1>3. Listed(Numbered(<<>>), 0)
  BY <1>1 DEF Listed
<1>4. Known(Empty, Numbered(<<>>))
  BY <1>1, <1>2, <1>3 DEF Known
<1>5. <<>> \in Seq(Frags)
  BY EmptySeq
<1> QED BY <1>4, <1>5, FreshIs DEF Underway

LEMMA AnthropicKeeps ==
    ASSUME NEW b, Underway(b), NEW e, Readable(e), NEW d, d = Step("anthropic", b, e)
    PROVE  IF e.type = "message_delta" THEN Given(d.c) ELSE Underway(d)
<1>1. PICK u, tools, f : \E x \in Seq(Frags) : b = Midway(u, tools, x, f) /\ Known(tools, f)
  BY DEF Underway
<1>2. PICK x \in Seq(Frags) : b = Midway(u, tools, x, f) /\ Known(tools, f)
  BY <1>1
<1>3. CASE Passed(tools, e)
  <2>1. d = b
    BY <1>2, <1>3, SilentCrosses DEF Passed
  <2>2. e.type # "message_delta"
    BY <1>3 DEF Passed, Silent
  <2> QED BY <2>1, <2>2
<1>4. CASE e.type = "message_start"
  <2>1. d = Midway(Merged(u, e.usage), tools, x, f)
    BY <1>2, <1>4, StartCrosses
  <2> QED BY <1>2, <1>4, <2>1 DEF Underway
<1>5. CASE e.type = "content_block_delta" /\ e.delta = "text_delta"
  <2>1. d = Midway(u, tools, x \o e.text, f)
    BY <1>2, <1>5, TextCrosses
  <2>2. x \o e.text \in Seq(Frags)
    BY <1>5, ConcatProperties DEF Readable
  <2> QED BY <1>2, <1>5, <2>1, <2>2 DEF Underway
<1>6. CASE e.type = "content_block_start" /\ e.block.kind = "tool_use"
  <2> DEFINE n == Cardinality(DOMAIN tools)
             w == With(tools, e.index, n)
             g == Called(f, Call(n, {e.block.id}, <<>>))
  <2>1. d = Midway(u, w, x, g)
    BY <1>2, <1>6, CallCrosses
  <2>2. Known(w, g)
    BY <1>2, CallsStayKnown
  <2> HIDE DEF w, g
  <2> QED BY <1>6, <2>1, <2>2 DEF Underway
<1>7. CASE e.type = "content_block_delta" /\ e.delta = "input_json_delta"
           /\ e.index \in DOMAIN tools
  <2> DEFINE g == Called(f, Call(tools[e.index], {}, e.text))
  <2>1. d = Midway(u, tools, x, g)
    BY <1>2, <1>7, InputCrosses
  <2>2. Known(tools, g)
    BY <1>2, <1>7, CallsStayKnown DEF Readable
  <2> HIDE DEF g
  <2> QED BY <1>7, <2>1, <2>2 DEF Underway
<1>8. CASE e.type = "message_delta"
  <2> DEFINE w == Merged(u, e.usage)
             g == {FinishOf(e.stop)}
             us == {CountsOf(w)}
  <2>1. DOMAIN w # {} /\ w = Merged(u, e.usage)
    BY <1>8 DEF Readable, Merged
  <2> HIDE DEF w
  <2>2. d = Pair(Told0(w, tools), Gathered(x, f, g, us, Yes, No))
    <3>1. Step("anthropic", Midway(u, tools, x, f), e)
              = Pair(Told0(w, tools), WholeChat(x, f, e.stop, w))
      <4>1. e.type = "message_delta" /\ DOMAIN Merged(u, e.usage) # {}
        BY <1>8, <2>1
      <4>2. EndsOn(u, tools, x, f, e)
        BY <4>1, EndCrosses
      <4> QED BY <2>1, <4>2 DEF EndsOn
    <3> QED BY <1>2, <3>1 DEF WholeChat
  <2>3. us # {}
    OBVIOUS
  <2> HIDE DEF g, us
  <2>4. d.c = Gathered(x, f, g, us, Yes, No)
    BY <2>2 DEF Pair
  <2>5. /\ d.c.content = x /\ d.c.calls = f /\ d.c.usage = us
        /\ d.c.done = Yes /\ d.c.unusable = No
    BY <2>4, GatheredHolds
  <2>6. d.c.done /\ ~d.c.unusable
    BY <2>5 DEF Yes, No
  <2>7. \E k \in Nat : Listed(f, k)
    BY <1>2 DEF Known
  <2> QED BY <1>8, <2>3, <2>5, <2>6, <2>7 DEF Given
<1> QED BY <1>3, <1>4, <1>5, <1>6, <1>7, <1>8 DEF Passed, Silent

LEMMA GivenStays ==
    ASSUME NEW way \in {"anthropic", "gemini"}, NEW b, b.c.done \/ b.c.unusable, NEW e
    PROVE  Step(way, b, e).c = b.c
<1> DEFINE o == Told(way, b.t, e)
<1>1. Step(way, b, e) = Crossing(b, o)
  BY StepsAre
<1>2. PICK C : o.out \in Seq(C)
  BY ToldAre
<1> HIDE DEF o
<1>3. DOMAIN o.out = 1..Len(o.out) /\ Len(o.out) \in Nat
  BY <1>2
<1>4. FoldLeft(FeedChunk, b.c, o.out) = b.c
  BY <1>3, FrozenFed
<1> QED BY <1>1, <1>4 DEF Crossing

\* After any lines of the Anthropic way the capture is done exactly when the last
\* event has come, and can then be given.
LEMMA AnthropicRuns ==
    ASSUME NEW s, NEW n \in Nat, DOMAIN s = 1..n, \A k \in 1..n : Readable(s[k]),
           NEW r, r = Run("anthropic", Fresh, s)
    PROVE  IF \E k \in 1..n : s[k].type = "message_delta" THEN Given(r.c) ELSE Underway(r)
<1>1. PICK tr : Trace("anthropic", Fresh, s, n, tr) /\ r = tr[n]
  BY RunTraced
<1> DEFINE Stands(m) == IF \E k \in 1..m : s[k].type = "message_delta"
                        THEN Given(tr[m].c) ELSE Underway(tr[m])
           S == {m \in Nat : m <= n => Stands(m)}
<1>2. 0 \in S
  <2>1. tr[0] = Fresh /\ 1..0 = {}
    BY <1>1 DEF Trace
  <2> QED BY <2>1, FreshUnderway
<1>3. ASSUME NEW m \in Nat, m \in S PROVE m + 1 \in S
  <2> SUFFICES ASSUME m + 1 <= n, Stands(m) PROVE Stands(m + 1)
    <3> HIDE DEF Stands
    <3> QED BY <1>3
  <2>1. m + 1 \in 1..n /\ (m + 1) - 1 = m
    OBVIOUS
  <2>2. tr[m + 1] = Step("anthropic", tr[m], s[m + 1]) /\ Readable(s[m + 1])
    BY <1>1, <2>1 DEF Trace
  <2>3. \A k \in 1..(m + 1) : k \in 1..m \/ k = m + 1
    OBVIOUS
  <2>4. \A k \in 1..m : k \in 1..(m + 1)
    OBVIOUS
  <2>5. CASE \E k \in 1..m : s[k].type = "message_delta"
    <3>1. Given(tr[m].c)
      BY <2>5
    <3>2. tr[m + 1].c = tr[m].c
      BY <2>2, <3>1, GivenStays DEF Given
    <3> QED BY <2>4, <2>5, <3>1, <3>2
  <2>6. CASE ~ \E k \in 1..m : s[k].type = "message_delta"
    <3>1. Underway(tr[m])
      BY <2>6
    <3>2. IF s[m + 1].type = "message_delta" THEN Given(tr[m + 1].c) ELSE Underway(tr[m + 1])
      BY <2>2, <3>1, AnthropicKeeps
    <3>3. (\E k \in 1..(m + 1) : s[k].type = "message_delta") <=> s[m + 1].type = "message_delta"
      BY <2>3, <2>6
    <3> QED BY <3>2, <3>3
  <2> QED BY <2>5, <2>6
<1>4. n \in S
  <2> HIDE DEF S
  <2> QED BY <1>2, <1>3, FromTheLeast
<1> QED BY <1>1, <1>4
-----------------------------------------------------------------------------
(* Gemini frames.                                                          *)

Framed(u, g, x) == Pair([usage |-> u, tools |-> Empty, finish |-> g], Gathering(x, Empty))

Other == {"ping", "unknown", "error", "json", "message_stop"}

FinishAfter(g, e) == IF e.finish = {} THEN g ELSE {GeminiFinish(s) : s \in e.finish}

LEMMA FrameCrosses ==
    ASSUME NEW u, NEW g, NEW S, NEW x \in Seq(S), NEW e, e.type = "frame"
    PROVE  Step("gemini", Framed(u, g, x), e)
               = Framed(Merged(u, e.usage), FinishAfter(g, e), x \o e.text)
<1> DEFINE w == Merged(u, e.usage)
           h == FinishAfter(g, e)
           t == [usage |-> u, tools |-> Empty, finish |-> g]
           v == [usage |-> w, tools |-> Empty, finish |-> h]
           c == Gathering(x, Empty)
           d == Gathering(x \o e.text, Empty)
           b == Framed(u, g, x)
           o == <<Text(e.text)>>
           step == [t |-> v, out |-> o]
<1>1. b.t = t /\ b.c = c /\ t.usage = u /\ t.finish = g
  BY DEF Framed, Pair
<1>2. FoldLeft(FeedChunk, c, o) = d
  BY LineGathered
<1>3. Absorb(t, e.usage) = [usage |-> w, tools |-> Empty, finish |-> g]
  BY DEF Absorb
<1>4. [Absorb(t, e.usage) EXCEPT !.finish =
           IF e.finish = {} THEN @ ELSE {GeminiFinish(s) : s \in e.finish}] = v
  <2> DEFINE q == {GeminiFinish(s) : s \in e.finish}
             p == Absorb(t, e.usage)
  <2>1. p.finish = g
    BY <1>3
  <2>2. h = IF e.finish = {} THEN g ELSE q
    BY DEF FinishAfter
  <2> HIDE DEF w, p, q, h
  <2>3. [p EXCEPT !.finish = IF e.finish = {} THEN @ ELSE q] = [p EXCEPT !.finish = h]
    BY <2>1, <2>2
  <2>4. [p EXCEPT !.finish = h] = v
    BY <1>3 DEF p
  <2> QED BY <2>3, <2>4 DEF p, q
<1>5. Framed(w, h, x \o e.text) = Pair(v, d)
  BY DEF Framed
<1> HIDE DEF t, v, c, d, b, o
<1>6. TranslateGemini(t, e) = step
  BY <1>4 DEF TranslateGemini, o
<1>7. Step("gemini", b, e) = Crossing(b, step)
  BY <1>1, <1>6 DEF Step
<1>8. Crossing(b, step) = Pair(v, d)
  BY <1>1, <1>2 DEF Crossing, Pair
<1> HIDE DEF w, h
<1>9. Step("gemini", b, e) = Framed(w, h, x \o e.text)
  BY <1>5, <1>7, <1>8
<1> QED BY <1>9 DEF b, w, h

LEMMA FreshIsFramed == Fresh = Framed(Empty, {}, <<>>)
<1>1. TranslatorNew = [usage |-> Empty, tools |-> Empty, finish |-> {}]
  BY DEF TranslatorNew
<1>2. ChatNew = Gathering(<<>>, Empty)
  BY DEF ChatNew, Gathering, Gathered, No
<1> QED BY <1>1, <1>2 DEF Fresh, Framed

LEMMA OthersFrame ==
    ASSUME NEW u, NEW g, NEW x, NEW e, e.type \in Other
    PROVE  Step("gemini", Framed(u, g, x), e) = Framed(u, g, x)
<1> DEFINE t == [usage |-> u, tools |-> Empty, finish |-> g]
           c == Gathering(x, Empty)
           way == "gemini"
<1>1. Framed(u, g, x) = Pair(t, c)
  BY DEF Framed
<1>2. way \in {"anthropic", "gemini"}
  OBVIOUS
<1> HIDE DEF t, c, way
<1>3. Step(way, Pair(t, c), e) = Pair(t, c)
  BY <1>2, HushedCrosses DEF Other
<1> QED BY <1>1, <1>3 DEF way

\* After any frames the translator knows the counts once the finish has come.
LEMMA GeminiRuns ==
    ASSUME NEW s, NEW n \in Nat, DOMAIN s = 1..n,
           \A k \in 1..n : Readable(s[k]) /\ (s[k].type = "frame" \/ s[k].type \in Other),
           NEW r, r = Run("gemini", Fresh, s)
    PROVE  \E u, g : \E x \in Seq(Frags) :
               /\ r = Framed(u, g, x)
               /\ (\E k \in 1..n : Ready("gemini", s[k])) => DOMAIN u # {} /\ g # {}
<1>1. PICK tr : Trace("gemini", Fresh, s, n, tr) /\ r = tr[n]
  BY RunTraced
<1> DEFINE At(m, u, g) == (\E k \in 1..m : Ready("gemini", s[k])) => DOMAIN u # {} /\ g # {}
           Stands(m) == \E u, g : \E x \in Seq(Frags) : tr[m] = Framed(u, g, x) /\ At(m, u, g)
           S == {m \in Nat : m <= n => Stands(m)}
<1>2. 0 \in S
  <2>1. tr[0] = Fresh /\ 1..0 = {} /\ <<>> \in Seq(Frags)
    BY <1>1, EmptySeq DEF Trace
  <2>2. At(0, Empty, {})
    BY <2>1
  <2> QED BY <2>1, <2>2, FreshIsFramed
<1>3. ASSUME NEW m \in Nat, m \in S PROVE m + 1 \in S
  <2> SUFFICES ASSUME m + 1 <= n, Stands(m) PROVE Stands(m + 1)
    <3> HIDE DEF Stands
    <3> QED BY <1>3
  <2>1. m + 1 \in 1..n /\ (m + 1) - 1 = m
    <3> HIDE DEF Stands, At
    <3> QED OBVIOUS
  <2> DEFINE e == s[m + 1]
  <2>2. /\ tr[m + 1] = Step("gemini", tr[m], e) /\ Readable(e)
        /\ e.type = "frame" \/ e.type \in Other
    BY <1>1, <2>1 DEF Trace
  <2>3. \A k \in 1..(m + 1) : k \in 1..m \/ k = m + 1
    OBVIOUS
  <2>4. PICK u, g : \E x \in Seq(Frags) : tr[m] = Framed(u, g, x) /\ At(m, u, g)
    <3> HIDE DEF At
    <3> QED OBVIOUS
  <2>5. PICK x \in Seq(Frags) : tr[m] = Framed(u, g, x) /\ At(m, u, g)
    BY <2>4
  <2>6. CASE e.type = "frame"
    <3> DEFINE w == Merged(u, e.usage)
               h == FinishAfter(g, e)
               y == x \o e.text
    <3>1. tr[m + 1] = Framed(w, h, y)
      <4>1. Step("gemini", Framed(u, g, x), e) = Framed(w, h, y)
        BY <2>6, FrameCrosses
      <4> HIDE DEF w, h, y, e
      <4> QED BY <2>2, <2>5, <4>1
    <3>2. y \in Seq(Frags)
      BY <2>2, <2>6, ConcatProperties DEF Readable
    <3>3. At(m + 1, w, h)
      <4> SUFFICES ASSUME NEW k \in 1..(m + 1), Ready("gemini", s[k])
                   PROVE  DOMAIN w # {} /\ h # {}
        OBVIOUS
      <4>1. CASE k = m + 1
        <5>1. e.finish # {} /\ DOMAIN e.usage # {}
          BY <2>2, <4>1 DEF Ready, Readable
        <5>2. h # {}
          BY <5>1 DEF FinishAfter
        <5>3. DOMAIN w # {}
          BY <5>1 DEF Merged
        <5> QED BY <5>2, <5>3
      <4>2. CASE k \in 1..m
        <5>1. DOMAIN u # {} /\ g # {}
          BY <2>5, <4>2
        <5>2. h # {}
          BY <5>1 DEF FinishAfter
        <5>3. DOMAIN w # {}
          BY <5>1 DEF Merged
        <5> QED BY <5>2, <5>3
      <4> QED BY <2>3, <4>1, <4>2
    <3> HIDE DEF w, h, y, At
    <3> QED BY <3>1, <3>2, <3>3
  <2>7. CASE e.type \in Other
    <3>1. tr[m + 1] = tr[m]
      BY <2>2, <2>5, <2>7, OthersFrame
    <3>2. ~Ready("gemini", e)
      BY <2>7 DEF Ready, Other
    <3>3. At(m + 1, u, g)
      BY <2>3, <2>5, <3>2
    <3> HIDE DEF At
    <3> QED BY <2>5, <3>1, <3>3
  <2> QED BY <2>2, <2>6, <2>7
<1>4. n \in S
  <2> HIDE DEF S
  <2> QED BY <1>2, <1>3, FromTheLeast
<1> QED BY <1>1, <1>4
-----------------------------------------------------------------------------
(* A whole answer, and how its script may be disturbed.                    *)

\* What is read before the second part.
LEMMA FrontIs ==
    ASSUME NEW E, NEW s \in Seq(E), NEW t \in Seq(E)
    PROVE  SubSeq(s \o t, 1, Len(s)) = s
<1> DEFINE z == SubSeq(s \o t, 1, Len(s))
<1>1. s \o t \in Seq(E) /\ Len(s \o t) = Len(s) + Len(t)
      /\ \A i \in 1..Len(s) : (s \o t)[i] = s[i]
  OBVIOUS
<1>2. z \in Seq(E) /\ Len(z) = Len(s) /\ \A i \in 1..Len(s) : z[i] = s[i]
  BY <1>1
<1> HIDE DEF z
<1>3. z = s
  BY <1>2, SeqEqual
<1> QED BY <1>3 DEF z

LEMMA Laid ==
    ASSUME NEW E, NEW s \in Seq(E), NEW t \in Seq(E)
    PROVE  /\ Len(s) \in Nat /\ Len(t) \in Nat
           /\ s \o t \in Seq(E) /\ Len(s \o t) = Len(s) + Len(t)
           /\ \A i \in 1..Len(s) : (s \o t)[i] = s[i]
           /\ \A i \in 1..Len(t) : (s \o t)[Len(s) + i] = t[i]
OBVIOUS

LEMMA AnswerCrosses ==
    ASSUME NEW m, IsAnswer(m), NEW a, a = AnthropicEvents(m), NEW L, L = Len(a)
    PROVE  /\ a \in Seq(Events(m)) /\ L \in Nat /\ L >= 3
           /\ \A k \in 1..L : a[k].type = "message_delta" => k = L - 1
           /\ DOMAIN a[L - 1].usage # {}
           /\ Run("anthropic", Fresh, SubSeq(a, 1, L - 1)).c = FinalChat(m)
           /\ Run("anthropic", Fresh, a).c = FinalChat(m)
<1> DEFINE E == Events(m)
           flat == AllEvents(m.blocks)
           s == [type |-> "message_start", usage |-> m.first]
           d == [type |-> "message_delta", stop |-> m.stop, usage |-> m.last]
           t == [type |-> "message_stop"]
           ps == <<s>>
           pd == <<d>>
           pt == <<t>>
           h == ps \o flat
           l == h \o pd
           u == Merged(Empty, m.first)
           v == Merged(m.first, m.last)
           texts == AllText(m.blocks)
           raws == AllCalls(m.blocks)
           b1 == Midway(u, Empty, <<>>, Numbered(<<>>))
<1>1. m.blocks \in Seq(Block) /\ (\A i \in DOMAIN m.blocks : Sound(m.blocks[i]))
      /\ m.stop \in STRING /\ DOMAIN m.last # {}
  BY AnswersAre DEF IsAnswer
<1>2. s \in E /\ d \in E /\ t \in E
  BY <1>1 DEF Events, Event
<1>3. /\ s.type = "message_start" /\ s.usage = m.first /\ t.type = "message_stop"
      /\ d.type = "message_delta" /\ d.stop = m.stop /\ d.usage = m.last
  OBVIOUS
<1>4. /\ texts \in Seq(STRING) /\ flat \in Seq(BlockEvent)
      /\ \E tools : Run("anthropic", b1, flat) = Midway(u, tools, texts, Numbered(raws))
  <2> DEFINE bs == m.blocks
  <2>1. bs \in Seq(Block) /\ (\A i \in DOMAIN bs : Sound(bs[i]))
    BY <1>1
  <2> HIDE DEF bs, u
  <2>2. /\ AllText(bs) \in Seq(STRING) /\ AllEvents(bs) \in Seq(BlockEvent)
        /\ \E tools : Run("anthropic", Midway(u, Empty, <<>>, Numbered(<<>>)), AllEvents(bs))
                          = Midway(u, tools, AllText(bs), Numbered(AllCalls(bs)))
    BY <2>1, BlocksCross
  <2> QED BY <2>2 DEF bs
<1>5. BlockEvent \subseteq E
  BY DEF Events, Event
<1>6. a = (ps \o flat) \o <<d, t>> /\ <<d, t>> = pd \o pt
  <2>1. <<d, t>> = <<d>> \o <<t>>
    BY PairIsConcat
  <2>2. EventsOf(m.blocks) = [i \in DOMAIN m.blocks |-> BlockEvents(i, m.blocks[i],
                [j \in DOMAIN m.blocks |-> DeltasOf(j, m.blocks[j])][i])]
    BY DEF EventsOf
  <2>3. a = (<<s>> \o flat) \o <<d, t>>
    BY <2>2 DEF AnthropicEvents, MessageEvents, AllEvents
  <2> QED BY <2>1, <2>3
<1> HIDE DEF flat, s, d, t, E, u, v, texts, raws
<1>7. flat \in Seq(E)
  BY <1>4, <1>5, SeqMonotonic
<1>8. ps \in Seq(E) /\ pd \in Seq(E) /\ pt \in Seq(E)
      /\ Len(ps) = 1 /\ Len(pd) = 1 /\ Len(pt) = 1 /\ ps[1] = s /\ pd[1] = d /\ pt[1] = t
  BY <1>2
<1>9. Run("anthropic", Fresh, ps) = b1
  <2>1. Run("anthropic", Fresh, ps) = Step("anthropic", Fresh, s)
    BY RunOfOne
  <2> DEFINE x == <<>>
             f == Numbered(<<>>)
             y == Empty
  <2>2. x \in Seq({}) /\ b1 = Midway(Merged(y, s.usage), y, x, f)
        /\ Fresh = Midway(y, y, x, f)
    BY <1>3, FreshIs DEF u
  <2> HIDE DEF x, f, y, b1
  <2>3. Step("anthropic", Midway(y, y, x, f), s) = Midway(Merged(y, s.usage), y, x, f)
    BY <1>3, <2>2, StartCrosses
  <2> QED BY <2>1, <2>2, <2>3
<1>10. PICK tools : Run("anthropic", b1, flat) = Midway(u, tools, texts, Numbered(raws))
  BY <1>4
<1> DEFINE b2 == Midway(u, tools, texts, Numbered(raws))
           b3 == Pair(Told0(v, tools), FinalChat(m))
<1>11. Run("anthropic", b2, pd) = b3
  <2>1. Run("anthropic", b2, pd) = Step("anthropic", b2, d)
    BY RunOfOne
  <2>2. Merged(u, d.usage) = v
    <3>1. \A p, q : Merged(Merged(Empty, p), q) = Merged(p, q)
      BY MergedTwice
    <3> QED BY <1>3, <3>1 DEF u, v
  <2>3. DOMAIN Merged(u, d.usage) # {}
    BY <1>1, <1>3 DEF Merged
  <2>4. Step("anthropic", b2, d)
            = Pair(Told0(Merged(u, d.usage), tools),
                   WholeChat(texts, Numbered(raws), d.stop, Merged(u, d.usage)))
    <3> DEFINE f == Numbered(raws)
    <3>1. d.type = "message_delta" /\ texts \in Seq(STRING)
      BY <1>3, <1>4
    <3> HIDE DEF f, d, u
    <3>2. EndsOn(u, tools, texts, f, d)
      BY <2>3, <3>1, EndCrosses
    <3> QED BY <3>2 DEF EndsOn, f
  <2>5. WholeChat(texts, Numbered(raws), m.stop, v) = FinalChat(m)
    BY DEF FinalChat, texts, raws, v
  <2> QED BY <1>3, <2>1, <2>2, <2>4, <2>5
<1>12. Run("anthropic", b3, pt) = b3
  <2>1. Run("anthropic", b3, pt) = Step("anthropic", b3, t)
    BY RunOfOne
  <2> DEFINE way == "anthropic"
             y == Told0(v, tools)
             c == FinalChat(m)
  <2>2. way \in {"anthropic", "gemini"}
        /\ t.type \in {"ping", "unknown", "error", "json", "message_stop"}
    BY <1>3
  <2> HIDE DEF way, y, c
  <2>3. Step(way, Pair(y, c), t) = Pair(y, c)
    BY <2>2, HushedCrosses
  <2> QED BY <2>1, <2>3 DEF way, y, c
<1> HIDE DEF b1, b2, b3, ps, pd, pt
<1>13. h \in Seq(E) /\ Run("anthropic", Fresh, h) = b2
  <2>1. Run("anthropic", b1, flat) = b2
    BY <1>10 DEF b2
  <2> QED BY <1>7, <1>8, <1>9, <2>1, RunJoined
<1>25. h = ps \o flat
  OBVIOUS
<1>14. /\ Len(h) = Len(flat) + 1 /\ Len(flat) \in Nat /\ h[1] = s
       /\ \A k \in 2..Len(h) : h[k] = flat[k - 1] /\ k - 1 \in 1..Len(flat)
  <2> HIDE DEF h
  <2>1. ps \in Seq(E) /\ flat \in Seq(E)
    BY <1>7, <1>8
  <2>2. /\ Len(flat) \in Nat /\ Len(h) = 1 + Len(flat) /\ h[1] = ps[1]
        /\ \A i \in 1..Len(flat) : h[1 + i] = flat[i]
    <3>1. /\ Len(flat) \in Nat /\ Len(ps \o flat) = Len(ps) + Len(flat)
          /\ \A i \in 1..Len(ps) : (ps \o flat)[i] = ps[i]
          /\ \A i \in 1..Len(flat) : (ps \o flat)[Len(ps) + i] = flat[i]
      BY <2>1, Laid
    <3> QED BY <1>8, <1>25, <3>1
  <2>3. ASSUME NEW k \in 2..Len(h) PROVE h[k] = flat[k - 1] /\ k - 1 \in 1..Len(flat)
    <3>1. k - 1 \in 1..Len(flat) /\ 1 + (k - 1) = k
      BY <2>2
    <3> QED BY <2>2, <3>1
  <2> QED BY <1>8, <2>2, <2>3
<1> HIDE DEF h
<1>15. l \in Seq(E) /\ Run("anthropic", Fresh, l) = b3
  BY <1>8, <1>11, <1>13, RunJoined
<1>26. l = h \o pd
  OBVIOUS
<1>16. /\ Len(l) = Len(h) + 1 /\ l[Len(h) + 1] = d /\ \A k \in 1..Len(h) : l[k] = h[k]
  <2> HIDE DEF l
  <2>1. h \in Seq(E) /\ pd \in Seq(E)
    BY <1>8, <1>13
  <2>2. /\ Len(h \o pd) = Len(h) + Len(pd)
        /\ \A i \in 1..Len(h) : (h \o pd)[i] = h[i]
        /\ \A i \in 1..Len(pd) : (h \o pd)[Len(h) + i] = pd[i]
    BY <2>1, Laid
  <2> QED BY <1>8, <1>26, <2>2
<1>17. a = l \o pt
  <2>1. a = h \o (pd \o pt)
    BY <1>6, <1>25
  <2>2. (h \o pd) \o pt = h \o (pd \o pt)
    <3>1. h \in Seq(E) /\ pd \in Seq(E) /\ pt \in Seq(E)
      BY <1>8, <1>13
    <3> QED BY <3>1, ConcatAssociative
  <2> QED BY <2>1, <2>2
<1> HIDE DEF l
<1>18. a \in Seq(E) /\ Run("anthropic", Fresh, a) = b3
  BY <1>8, <1>12, <1>15, <1>17, RunJoined
<1>19. L = Len(l) + 1 /\ a[L] = t /\ \A k \in 1..Len(l) : a[k] = l[k]
  <2>1. l \in Seq(E) /\ pt \in Seq(E)
    BY <1>8, <1>15
  <2>2. Len(a) = Len(l) + 1 /\ a[Len(l) + 1] = pt[1] /\ \A k \in 1..Len(l) : a[k] = l[k]
    <3>1. /\ Len(l \o pt) = Len(l) + Len(pt)
          /\ \A i \in 1..Len(l) : (l \o pt)[i] = l[i]
          /\ \A i \in 1..Len(pt) : (l \o pt)[Len(l) + i] = pt[i]
      BY <2>1, Laid
    <3> QED BY <1>8, <1>17, <3>1
  <2> QED BY <1>8, <2>2
<1>20. L - 1 = Len(l) /\ SubSeq(a, 1, L - 1) = l
  <2>1. SubSeq(l \o pt, 1, Len(l)) = l
    BY <1>8, <1>15, FrontIs
  <2> QED BY <1>15, <1>17, <1>19, <2>1
<1>21. L \in Nat /\ L >= 3
  <2>1. L = Len(flat) + 3 /\ Len(flat) \in Nat
    BY <1>14, <1>15, <1>16, <1>19
  <2>2. flat # <<>> \/ Len(flat) >= 0
    BY <1>14
  <2> QED BY <2>1
<1>22. a[L - 1] = d
  BY <1>14, <1>16, <1>19, <1>20
<1>23. ASSUME NEW k \in 1..L, k # L - 1 PROVE a[k].type # "message_delta"
  <2>1. CASE k = L
    BY <1>3, <1>19, <2>1
  <2>2. CASE k = 1
    BY <1>3, <1>14, <1>16, <1>19, <1>21, <2>2
  <2>3. CASE k \in 2..Len(h)
    <3>1. a[k] = flat[k - 1] /\ k - 1 \in 1..Len(flat)
      BY <1>14, <1>16, <1>19, <2>3
    <3>2. flat[k - 1] \in BlockEvent
      BY <1>4, <3>1
    <3> QED BY <3>1, <3>2 DEF BlockEvent
  <2>4. L = Len(h) + 2 /\ Len(h) \in Nat
    BY <1>14, <1>16, <1>19
  <2>5. k = L \/ k = 1 \/ k \in 2..Len(h)
    BY <1>21, <1>23, <2>4
  <2> QED BY <2>1, <2>2, <2>3, <2>5
<1>24. b3.c = FinalChat(m)
  BY DEF b3, Pair
<1> QED BY <1>1, <1>3, <1>15, <1>18, <1>20, <1>21, <1>22, <1>23, <1>24 DEF E
\* A frame, and what the translator holds after k frames of L.
FrameLine(m) == [type : {"frame"}, text : Seq(STRING), finish : SUBSET STRING,
                 usage : {m.first, Merged(m.first, m.last)}]

UsageAt(m, k, L) == IF k = 0 THEN Empty
                    ELSE IF k < L THEN Merged(Empty, m.first) ELSE Merged(m.first, m.last)
FinishAt(m, k, L) == IF k < L THEN {} ELSE {GeminiFinish(m.stop)}

FrameAt(e, m, k, L) ==
    /\ e.type = "frame" /\ e.text = <<m.blocks[1].body[k]>>
    /\ e.finish = IF k = L THEN {m.stop} ELSE {}
    /\ e.usage = IF k = L THEN Merged(m.first, m.last) ELSE m.first

\* The usage and the finish of each frame.
LEMMA FramesAre ==
    ASSUME NEW m, IsAnswer(m), ForGemini(m), NEW a, a = GeminiFrames(m), NEW L, L = Len(a)
    PROVE  /\ a \in Seq(FrameLine(m)) /\ L \in Nat /\ L >= 1
           /\ m.blocks[1].body \in Seq(STRING) /\ Len(m.blocks[1].body) = L
           /\ \A k \in 1..L : FrameAt(a[k], m, k, L)
<1> DEFINE x == m.blocks[1].body
           n == Len(x)
           U == {m.first, Merged(m.first, m.last)}
           lastOne(k) == [type |-> "frame", text |-> <<x[k]>>, finish |-> {m.stop},
                          usage |-> Merged(m.first, m.last)]
           early(k) == [type |-> "frame", text |-> <<x[k]>>, finish |-> {}, usage |-> m.first]
<1>1. x \in Seq(STRING) /\ n \in Nat /\ n >= 1 /\ DOMAIN x = 1..n /\ m.stop \in STRING
  <2>1. m.blocks \in Seq(Block) /\ Len(m.blocks) = 1 /\ x # <<>> /\ m.stop \in STRING
    BY DEF IsAnswer, ForGemini
  <2>2. m.blocks[1] \in Block
    BY <2>1
  <2>3. x \in Seq(STRING)
    BY <2>2 DEF Block
  <2> QED BY <2>1, <2>3
<1>2. a = [k \in 1..n |-> IF k = n THEN lastOne(k) ELSE early(k)]
  BY <1>1 DEF GeminiFrames
<1> HIDE DEF x, n
<1>3. \A k \in 1..n : x[k] \in STRING /\ <<x[k]>> \in Seq(STRING)
  BY <1>1 DEF n
<1>4. ASSUME NEW k \in 1..n PROVE lastOne(k) \in FrameLine(m) /\ early(k) \in FrameLine(m)
  BY <1>1, <1>3 DEF FrameLine
<1>5. \A k \in 1..n :
        /\ lastOne(k).type = "frame" /\ lastOne(k).text = <<x[k]>> /\ lastOne(k).finish = {m.stop}
        /\ lastOne(k).usage = Merged(m.first, m.last)
        /\ early(k).type = "frame" /\ early(k).text = <<x[k]>> /\ early(k).finish = {}
        /\ early(k).usage = m.first
  OBVIOUS
<1> HIDE DEF lastOne, early
<1>6. a \in [1..n -> FrameLine(m)]
  BY <1>2, <1>4
<1>7. a \in Seq(FrameLine(m)) /\ L = n
  BY <1>1, <1>6, SeqDef
<1>8. ASSUME NEW k \in 1..L
      PROVE  /\ a[k].type = "frame" /\ a[k].text = <<x[k]>>
             /\ a[k].finish = IF k = L THEN {m.stop} ELSE {}
             /\ a[k].usage = IF k = L THEN Merged(m.first, m.last) ELSE m.first
  <2>1. a[k] = IF k = n THEN lastOne(k) ELSE early(k)
    BY <1>2, <1>7
  <2> QED BY <1>5, <1>7, <2>1
<1> QED BY <1>1, <1>7, <1>8 DEF x, n, FrameAt

LEMMA GeminiCrosses ==
    ASSUME NEW m, IsAnswer(m), ForGemini(m), NEW a, a = GeminiFrames(m)
    PROVE  Run("gemini", Fresh, a)
               = Framed(Merged(m.first, m.last), {GeminiFinish(m.stop)}, m.blocks[1].body)
<1> DEFINE L == Len(a)
           x == m.blocks[1].body
           tr == [k \in 0..L |-> Framed(UsageAt(m, k, L), FinishAt(m, k, L), SubSeq(x, 1, k))]
<1>1. /\ L \in Nat /\ L >= 1 /\ DOMAIN a = 1..L /\ x \in Seq(STRING) /\ Len(x) = L
      /\ \A k \in 1..L : FrameAt(a[k], m, k, L)
  <2>0. L = Len(a)
    OBVIOUS
  <2> HIDE DEF L
  <2>1. a \in Seq(FrameLine(m)) /\ L \in Nat /\ L >= 1 /\ x \in Seq(STRING) /\ Len(x) = L
    BY <2>0, FramesAre
  <2>2. \A k \in 1..L : FrameAt(a[k], m, k, L)
    BY <2>0, FramesAre
  <2> QED BY <2>0, <2>1, <2>2
<1> HIDE DEF L, x
<1>2. tr[0] = Fresh
  <2>1. SubSeq(x, 1, 0) = <<>>
    BY <1>1, SubSeqEmpty
  <2>2. UsageAt(m, 0, L) = Empty /\ FinishAt(m, 0, L) = {}
    BY <1>1 DEF UsageAt, FinishAt
  <2>3. tr[0] = Framed(UsageAt(m, 0, L), FinishAt(m, 0, L), SubSeq(x, 1, 0))
    BY <1>1
  <2> HIDE DEF tr
  <2> QED BY <2>1, <2>2, <2>3, FreshIsFramed
<1>3. tr[L] = Framed(Merged(m.first, m.last), {GeminiFinish(m.stop)}, x)
  <2>1. SubSeq(x, 1, L) = x
    BY <1>1, SubSeqFull
  <2>2. UsageAt(m, L, L) = Merged(m.first, m.last) /\ FinishAt(m, L, L) = {GeminiFinish(m.stop)}
    BY <1>1 DEF UsageAt, FinishAt
  <2>3. tr[L] = Framed(UsageAt(m, L, L), FinishAt(m, L, L), SubSeq(x, 1, L))
    BY <1>1
  <2> HIDE DEF tr
  <2> QED BY <2>1, <2>2, <2>3
<1>4. ASSUME NEW k \in 1..L PROVE tr[k] = Step("gemini", tr[k - 1], a[k])
  <2> DEFINE e == a[k]
             u == UsageAt(m, k - 1, L)
             g == FinishAt(m, k - 1, L)
             y == SubSeq(x, 1, k - 1)
             z == SubSeq(x, 1, k)
  <2>1. tr[k - 1] = Framed(u, g, y) /\ tr[k] = Framed(UsageAt(m, k, L), FinishAt(m, k, L), z)
    BY <1>1
  <2>7. /\ e.type = "frame" /\ e.text = <<x[k]>>
        /\ e.finish = IF k = L THEN {m.stop} ELSE {}
        /\ e.usage = IF k = L THEN Merged(m.first, m.last) ELSE m.first
    BY <1>1 DEF FrameAt, x
  <2>2. y \in Seq(STRING) /\ z = y \o e.text
    <3>1. x \in Seq(STRING) /\ k \in 1..Len(x)
      BY <1>1
    <3> HIDE DEF e
    <3> QED BY <2>7, <3>1, OneMore
  <2>3. Merged(u, e.usage) = UsageAt(m, k, L)
    <3>1. CASE k = L
      <4>1. e.usage = Merged(m.first, m.last) /\ UsageAt(m, k, L) = Merged(m.first, m.last)
            /\ (u = Empty \/ u = Merged(Empty, m.first))
        BY <1>1, <2>7, <3>1 DEF UsageAt
      <4> HIDE DEF u, e
      <4>2. CASE u = Empty
        <5>1. \A p, q : Merged(Empty, Merged(p, q)) = Merged(p, q)
          BY MergedTwice
        <5> QED BY <4>1, <4>2, <5>1
      <4>3. CASE u = Merged(Empty, m.first)
        <5>1. \A p, q : Merged(Merged(Empty, p), Merged(p, q)) = Merged(p, q)
          BY MergedTwice
        <5> QED BY <4>1, <4>3, <5>1
      <4> QED BY <4>1, <4>2, <4>3
    <3>2. CASE k # L
      <4>1. e.usage = m.first /\ UsageAt(m, k, L) = Merged(Empty, m.first)
            /\ (u = Empty \/ u = Merged(Empty, m.first))
        BY <1>1, <2>7, <3>2 DEF UsageAt
      <4> HIDE DEF u, e
      <4>2. CASE u = Empty
        BY <4>1, <4>2
      <4>3. CASE u = Merged(Empty, m.first)
        <5>2. \A p : Merged(Merged(Empty, p), p) = Merged(Empty, p)
          BY MergedTwice
        <5> QED BY <4>1, <4>3, <5>2
      <4> QED BY <4>1, <4>2, <4>3
    <3> QED BY <3>1, <3>2
  <2>4. FinishAfter(g, e) = FinishAt(m, k, L)
    <3>1. CASE k = L
      <4>1. e.finish = {m.stop} /\ FinishAt(m, k, L) = {GeminiFinish(m.stop)}
        BY <1>1, <2>7, <3>1 DEF FinishAt
      <4>2. {GeminiFinish(s) : s \in {m.stop}} = {GeminiFinish(m.stop)}
        OBVIOUS
      <4> QED BY <4>1, <4>2 DEF FinishAfter
    <3>2. CASE k # L
      <4>1. e.finish = {} /\ FinishAt(m, k, L) = {} /\ g = {}
        BY <1>1, <2>7, <3>2 DEF FinishAt
      <4> QED BY <4>1 DEF FinishAfter
    <3> QED BY <3>1, <3>2
  <2>5. e.type = "frame"
    BY <2>7
  <2> HIDE DEF tr, e, u, g, y, z
  <2>6. Step("gemini", Framed(u, g, y), e)
            = Framed(Merged(u, e.usage), FinishAfter(g, e), y \o e.text)
    BY <2>2, <2>5, FrameCrosses
  <2> QED BY <2>1, <2>2, <2>3, <2>4, <2>6 DEF e
<1> HIDE DEF tr
<1>5. Trace("gemini", Fresh, a, L, tr)
  BY <1>2, <1>4 DEF Trace
<1>6. Run("gemini", Fresh, a) = tr[L]
  BY <1>1, <1>5, RunEnds
<1> QED BY <1>3, <1>6 DEF x
\* Lines that belong to no answer.
Stray(e) == \E t \in {"ping", "unknown", "error", "json"} : e = [type |-> t]
Strays == {[type |-> t] : t \in {"ping", "unknown", "error", "json"}}

\* In the first k lines of s are the first p[k] of a, and strays.
Strewn(a, s, p) ==
    /\ p \in [0..Len(s) -> 0..Len(a)] /\ p[0] = 0
    /\ \A i \in 0..Len(s), j \in 0..Len(s) : i <= j => p[i] <= p[j]
    /\ \A k \in 1..Len(s) : \/ p[k] = p[k - 1] + 1 /\ s[k] = a[p[k]]
                            \/ p[k] = p[k - 1] /\ Stray(s[k])

LEMMA ScriptsAreStrewn ==
    ASSUME NEW E, NEW a \in Seq(E), a # <<>>, NEW s, s = a \/ s \in Disturbed(a)
    PROVE  s \in Seq(E \cup Strays) /\ \E p : Strewn(a, s, p)
<1> DEFINE F == E \cup Strays
           L == Len(a)
<1>1. a \in Seq(F) /\ L \in Nat /\ L >= 1
  <2>1. E \subseteq F
    OBVIOUS
  <2>2. a \in Seq(F)
    BY <2>1, SeqMonotonic
  <2> QED BY <2>2
<1>2. \A t \in {"ping", "unknown", "error", "json"} :
        [type |-> t] \in F /\ Stray([type |-> t])
  BY DEF Strays, Stray
<1> HIDE DEF F, L
<1>3. CASE s = a
  <2> DEFINE p == [k \in 0..L |-> k]
  <2>1. p \in [0..L -> 0..L] /\ p[0] = 0
        /\ \A k \in 1..L : p[k] = p[k - 1] + 1 /\ a[k] = a[p[k]]
    BY <1>1
  <2>2. \A i \in 0..L, j \in 0..L : i <= j => p[i] <= p[j]
    OBVIOUS
  <2> HIDE DEF p
  <2>3. Strewn(a, a, p)
    BY <2>1, <2>2 DEF Strewn, L
  <2> QED BY <1>1, <1>3, <2>3 DEF F
<1>4. ASSUME NEW k \in 1..L, NEW t \in {"ping", "unknown"}, s = InsertAt(a, k, [type |-> t])
      PROVE  s \in Seq(F) /\ \E p : Strewn(a, s, p)
  <2> DEFINE e == [type |-> t]
             p == [n \in 0..(L + 1) |-> IF n < k THEN n ELSE n - 1]
  <2>1. e \in F /\ Stray(e) /\ s = InsertAt(a, k, e) /\ k \in 1..Len(a)
    BY <1>2, <1>4 DEF L
  <2> HIDE DEF e
  <2>2. s \in Seq(F) /\ Len(s) = L + 1
    <3>1. s \in Seq(F)
      BY <1>1, <2>1, Inserted
    <3>2. Len(s) = Len(a) + 1
      BY <1>1, <2>1, Inserted
    <3> QED BY <3>1, <3>2 DEF L
  <2>3. \A j \in 1..(k - 1) : s[j] = a[j]
    BY <1>1, <2>1, Inserted
  <2>4. s[k] = e
    BY <1>1, <2>1, Inserted
  <2>5. \A j \in (k + 1)..(L + 1) : s[j] = a[j - 1]
    <3>1. \A j \in (k + 1)..(Len(a) + 1) : s[j] = a[j - 1]
      BY <1>1, <2>1, Inserted
    <3> QED BY <3>1 DEF L
  <2>6. p \in [0..(L + 1) -> 0..L] /\ p[0] = 0
    BY <1>1
  <2>7. \A i \in 0..(L + 1), j \in 0..(L + 1) : i <= j => p[i] <= p[j]
    BY <1>1
  <2>8. ASSUME NEW n \in 1..(L + 1)
        PROVE  \/ p[n] = p[n - 1] + 1 /\ s[n] = a[p[n]]
               \/ p[n] = p[n - 1] /\ Stray(s[n])
    <3>1. CASE n < k
      <4>1. p[n] = n /\ p[n - 1] = n - 1 /\ n \in 1..(k - 1)
        BY <1>1, <3>1
      <4> QED BY <2>3, <4>1
    <3>2. CASE n = k
      <4>1. p[n] = n - 1 /\ p[n - 1] = n - 1
        BY <1>1, <3>2
      <4> QED BY <2>1, <2>4, <3>2, <4>1
    <3>3. CASE n > k
      <4>1. p[n] = n - 1 /\ p[n - 1] = n - 2 /\ n \in (k + 1)..(L + 1)
        BY <1>1, <3>3
      <4>2. (n - 2) + 1 = n - 1
        OBVIOUS
      <4> QED BY <2>5, <4>1, <4>2
    <3> QED BY <3>1, <3>2, <3>3
  <2> HIDE DEF p
  <2>9. Strewn(a, s, p)
    BY <2>2, <2>6, <2>7, <2>8 DEF Strewn, L
  <2> QED BY <2>2, <2>9
<1>5. ASSUME NEW k \in 0..(L - 1), s = SubSeq(a, 1, k) \o <<[type |-> "error"]>>
      PROVE  s \in Seq(F) /\ \E p : Strewn(a, s, p)
  <2> DEFINE e == [type |-> "error"]
             q == SubSeq(a, 1, k)
             p == [n \in 0..(k + 1) |-> IF n <= k THEN n ELSE k]
  <2>1. e \in F /\ Stray(e)
    BY <1>2
  <2>2. q \in Seq(F) /\ Len(q) = k /\ \A j \in 1..k : q[j] = a[j]
    BY <1>1 DEF L
  <2>3. s = q \o <<e>>
    BY <1>5
  <2> HIDE DEF e, q
  <2>4. s \in Seq(F) /\ Len(s) = k + 1 /\ s[k + 1] = e /\ \A j \in 1..k : s[j] = a[j]
    BY <2>1, <2>2, <2>3
  <2>5. p \in [0..(k + 1) -> 0..L] /\ p[0] = 0
    BY <1>1
  <2>6. \A i \in 0..(k + 1), j \in 0..(k + 1) : i <= j => p[i] <= p[j]
    BY <1>1
  <2>7. ASSUME NEW n \in 1..(k + 1)
        PROVE  \/ p[n] = p[n - 1] + 1 /\ s[n] = a[p[n]]
               \/ p[n] = p[n - 1] /\ Stray(s[n])
    <3>1. CASE n <= k
      <4>1. p[n] = n /\ p[n - 1] = n - 1 /\ n \in 1..k
        BY <1>1, <3>1
      <4> QED BY <2>4, <4>1
    <3>2. CASE n = k + 1
      <4>1. p[n] = k /\ p[n - 1] = k
        BY <1>1, <3>2
      <4> QED BY <2>1, <2>4, <3>2, <4>1
    <3> QED BY <3>1, <3>2
  <2> HIDE DEF p
  <2>8. Strewn(a, s, p)
    BY <2>4, <2>5, <2>6, <2>7 DEF Strewn, L
  <2> QED BY <2>4, <2>8
<1>6. ASSUME s = <<[type |-> "json"]>>
      PROVE  s \in Seq(F) /\ \E p : Strewn(a, s, p)
  <2> DEFINE e == [type |-> "json"]
             p == [n \in 0..1 |-> 0]
  <2>1. e \in F /\ Stray(e) /\ s = <<e>>
    BY <1>2, <1>6
  <2> HIDE DEF e
  <2>2. s \in Seq(F) /\ Len(s) = 1 /\ s[1] = e
    BY <2>1
  <2>3. p \in [0..1 -> 0..L] /\ p[0] = 0 /\ p[1] = 0
    BY <1>1
  <2>4. (\A i \in 0..1 : p[i] = 0) /\ \A n \in 1..1 : n = 1 /\ n - 1 = 0
    OBVIOUS
  <2> HIDE DEF p
  <2>5. \A n \in 1..1 : p[n] = p[n - 1] /\ Stray(s[n])
    BY <2>1, <2>2, <2>3, <2>4
  <2>6. Strewn(a, s, p)
    BY <2>2, <2>3, <2>4, <2>5 DEF Strewn, L
  <2> QED BY <2>2, <2>6
<1>7. \/ s = a
      \/ \E k \in 1..L, t \in {"ping", "unknown"} : s = InsertAt(a, k, [type |-> t])
      \/ \E k \in 0..(L - 1) : s = SubSeq(a, 1, k) \o <<[type |-> "error"]>>
      \/ s = <<[type |-> "json"]>>
  BY DEF Disturbed, L
<1> QED BY <1>3, <1>4, <1>5, <1>6, <1>7 DEF F

IsPair(v) == v = Pair(v.t, v.c)

\* The state of the two stages is a pair, whatever has come.
LEMMA TraceOfPairs ==
    ASSUME NEW way \in {"anthropic", "gemini"}, NEW s, NEW n \in Nat, NEW tr,
           Trace(way, Fresh, s, n, tr)
    PROVE  \A k \in 0..n : IsPair(tr[k])
<1> SUFFICES ASSUME NEW k \in 0..n PROVE tr[k] = Pair(tr[k].t, tr[k].c)
  BY DEF IsPair
<1>0. \A t, c : Pair(t, c).t = t /\ Pair(t, c).c = c
  BY DEF Pair
<1>1. CASE k = 0
  <2>1. tr[0] = Pair(TranslatorNew, ChatNew)
    BY DEF Trace, Fresh
  <2> QED BY <1>0, <1>1, <2>1
<1>2. CASE k # 0
  <2>1. tr[k] = Step(way, tr[k - 1], s[k])
    BY <1>2 DEF Trace
  <2>2. Step(way, tr[k - 1], s[k]) = Crossing(tr[k - 1], Told(way, tr[k - 1].t, s[k]))
    BY StepsAre
  <2>3. \A b, o : \E t, c : Crossing(b, o) = Pair(t, c)
    BY DEF Crossing, Pair
  <2>4. \E t, c : tr[k] = Pair(t, c)
    BY <2>1, <2>2, <2>3
  <2> QED BY <1>0, <2>4
<1> QED BY <1>1, <1>2

\* What has come after n lines.
LEMMA PrefixRun ==
    ASSUME NEW kind, NEW b, NEW E, NEW s \in Seq(E), NEW tr, Trace(kind, b, s, Len(s), tr),
           NEW n \in 0..Len(s)
    PROVE  Run(kind, b, SubSeq(s, 1, n)) = tr[n]
<1> DEFINE q == SubSeq(s, 1, n)
<1>1. DOMAIN q = 1..n /\ n \in Nat /\ \A k \in 1..n : q[k] = s[k]
  OBVIOUS
<1>2. \A k \in 1..n : k \in 1..Len(s)
  OBVIOUS
<1> HIDE DEF q
<1>3. Trace(kind, b, q, n, tr)
  BY <1>1, <1>2 DEF Trace
<1>4. Run(kind, b, q) = tr[n]
  BY <1>1, <1>3, RunEnds
<1> QED BY <1>4 DEF q

\* Strays leave no mark.
LEMMA StraysPass ==
    ASSUME NEW way \in {"anthropic", "gemini"}, NEW E, NEW a \in Seq(E),
           NEW F, NEW s \in Seq(F), NEW p, Strewn(a, s, p), NEW n \in 0..Len(s)
    PROVE  Run(way, Fresh, SubSeq(s, 1, n)) = Run(way, Fresh, SubSeq(a, 1, p[n]))
<1> DEFINE L == Len(a)
           m == Len(s)
<1>1. L \in Nat /\ m \in Nat /\ DOMAIN a = 1..L
  OBVIOUS
<1>2. p \in [0..m -> 0..L] /\ p[0] = 0
      /\ \A k \in 1..m : \/ p[k] = p[k - 1] + 1 /\ s[k] = a[p[k]]
                         \/ p[k] = p[k - 1] /\ Stray(s[k])
  BY DEF Strewn
<1>3. n \in 0..m
  OBVIOUS
<1> HIDE DEF L, m
<1>4. PICK x : Trace(way, Fresh, a, L, x)
  BY <1>1, RunTraced
<1>10. \A i \in 0..L : IsPair(x[i])
  BY <1>1, <1>4, TraceOfPairs
<1> DEFINE tr == [k \in 0..m |-> x[p[k]]]
<1>5. tr[0] = Fresh /\ tr[n] = x[p[n]]
  BY <1>1, <1>2, <1>3, <1>4 DEF Trace
<1>6. ASSUME NEW k \in 1..m PROVE tr[k] = Step(way, tr[k - 1], s[k])
  <2>1. tr[k] = x[p[k]] /\ tr[k - 1] = x[p[k - 1]] /\ p[k] \in 0..L /\ p[k - 1] \in 0..L
    BY <1>1, <1>2
  <2> HIDE DEF tr
  <2>2. CASE p[k] = p[k - 1] + 1 /\ s[k] = a[p[k]]
    <3>1. p[k] \in 1..L /\ p[k] - 1 = p[k - 1]
      BY <1>1, <2>1, <2>2
    <3>2. x[p[k]] = Step(way, x[p[k] - 1], a[p[k]])
      BY <1>4, <3>1 DEF Trace
    <3> QED BY <2>1, <2>2, <3>1, <3>2
  <2>3. CASE p[k] = p[k - 1] /\ Stray(s[k])
    <3> DEFINE b == x[p[k]]
               t == b.t
               c == b.c
    <3>1. b = Pair(t, c)
      BY <1>10, <2>1 DEF IsPair
    <3>2. s[k].type \in {"ping", "unknown", "error", "json", "message_stop"}
      BY <2>3 DEF Stray
    <3> HIDE DEF b, t, c
    <3>3. Step(way, Pair(t, c), s[k]) = Pair(t, c)
      BY <3>2, HushedCrosses
    <3> QED BY <2>1, <2>3, <3>1, <3>3 DEF b
  <2> QED BY <1>2, <2>2, <2>3
<1> HIDE DEF tr
<1>7. Trace(way, Fresh, s, m, tr)
  BY <1>5, <1>6 DEF Trace
<1>8. Run(way, Fresh, SubSeq(s, 1, n)) = tr[n]
  BY <1>3, <1>7, PrefixRun DEF m
<1>9. Run(way, Fresh, SubSeq(a, 1, p[n])) = x[p[n]]
  BY <1>2, <1>3, <1>4, PrefixRun DEF L
<1> QED BY <1>5, <1>8, <1>9
-----------------------------------------------------------------------------
(* The lines of the chat ways, as the translator gets them.                *)

Way == IF dialect = "gemini" THEN "gemini" ELSE "anthropic"

\* What may come on a way.
Comes(way, e) == Readable(e) /\ (way = "gemini" => e.type = "frame" \/ e.type \in Other)

Garbled(e) == [e EXCEPT !.text = <<"garbled">>]

\* A line of the answer, or a stray, stays one when it is torn, and makes the answer
\* whole if it did before.
Endures(way, e) ==
    /\ Comes(way, e)
    /\ e.type \in {"content_block_delta", "frame"} =>
           /\ Comes(way, Garbled(e)) /\ Garbled(e).type = e.type
           /\ Ready(way, Garbled(e)) <=> Ready(way, e)

LEMMA FragsHold == \A x \in Seq(STRING) : x \in Seq(Frags)
<1>1. \A v \in STRING : v \in Frags
  BY DEF Frags
<1> HIDE DEF Frags
<1> SUFFICES ASSUME NEW x \in Seq(STRING) PROVE x \in Seq(Frags)
  OBVIOUS
<1>2. Len(x) \in Nat /\ x = [k \in 1..Len(x) |-> x[k]] /\ \A k \in 1..Len(x) : x[k] \in STRING
  OBVIOUS
<1>3. \A k \in 1..Len(x) : x[k] \in Frags
  BY <1>1, <1>2
<1>4. [k \in 1..Len(x) |-> x[k]] \in Seq(Frags)
  BY <1>2, <1>3
<1> QED BY <1>2, <1>4

LEMMA GarbledReads == <<"garbled">> \in Seq(Frags)
<1>1. "garbled" \in Frags
  BY DEF Frags
<1>2. \A v \in Frags : <<v>> \in Seq(Frags)
  <2> HIDE DEF Frags
  <2> QED OBVIOUS
<1> QED BY <1>1, <1>2

LEMMA StraysEndure ==
    ASSUME NEW way \in {"anthropic", "gemini"}, NEW e \in Strays
    PROVE  Endures(way, e)
<1>1. e.type \in {"ping", "unknown", "error", "json"}
  BY DEF Strays
<1> QED BY <1>1 DEF Endures, Comes, Readable, Other

LEMMA EventsEndure ==
    ASSUME NEW m, NEW e \in Events(m), e.type = "message_delta" => DOMAIN e.usage # {}
    PROVE  Endures("anthropic", e)
<1>1. e.type # "frame"
  BY DEF Events, Event, BlockEvent
<1>2. Readable(e)
  <2>1. e.type = "content_block_delta" => e.text \in Seq(STRING)
    BY DEF Events, Event, BlockEvent
  <2> QED BY <1>1, <2>1, FragsHold DEF Readable
<1>3. ASSUME e.type = "content_block_delta"
      PROVE  Garbled(e).type = e.type /\ Garbled(e).text = <<"garbled">>
  <2>1. e \in [type : {"content_block_delta"}, index : Nat, delta : DeltaKind, text : Seq(STRING)]
    BY <1>3 DEF Events, Event, BlockEvent
  <2> QED BY <2>1 DEF Garbled
<1>4. e.type = "content_block_delta" => Readable(Garbled(e))
  BY <1>3, GarbledReads DEF Readable
<1> QED BY <1>1, <1>2, <1>3, <1>4 DEF Endures, Comes, Ready

LEMMA FramesEndure ==
    ASSUME NEW m, NEW e \in FrameLine(m), NEW k, NEW L, FrameAt(e, m, k, L), IsAnswer(m)
    PROVE  Endures("gemini", e)
<1>1. e.type = "frame" /\ e.text \in Seq(Frags)
  BY FragsHold DEF FrameLine
<1>2. e.finish # {} => DOMAIN e.usage # {}
  <2>1. e.finish # {} => e.usage = Merged(m.first, m.last)
    BY DEF FrameAt
  <2>2. "output" \in DOMAIN Merged(m.first, m.last)
    BY DEF IsAnswer, Merged
  <2> QED BY <2>1, <2>2
<1>3. /\ Garbled(e).type = e.type /\ Garbled(e).text = <<"garbled">>
      /\ Garbled(e).finish = e.finish /\ Garbled(e).usage = e.usage
  BY DEF Garbled, FrameLine
<1> QED BY <1>1, <1>2, <1>3, GarbledReads DEF Endures, Comes, Ready, Readable

LEMMA ScriptsEndure ==
    ASSUME InStream, dialect # "messages"
    PROVE  /\ IsAnswer(answer) /\ Way \in {"anthropic", "gemini"}
           /\ \E E : script \in Seq(E)
           /\ \A k \in 1..Len(script) : Endures(Way, script[k])
<1> DEFINE m == answer
           a == Clean(dialect, m)
           L == Len(a)
<1>1. IsAnswer(m) /\ (dialect = "gemini" => ForGemini(m)) /\ script \in Scripts(dialect, m)
  BY StreamsAssumption DEF InStream
<1>2. Way \in {"anthropic", "gemini"}
  BY DEF Way
<1>3. /\ L \in Nat /\ L # 0 /\ (\E E : a \in Seq(E))
      /\ \A k \in 1..L : Endures(Way, a[k])
  <2>1. CASE dialect = "gemini"
    <3>1. a = GeminiFrames(m)
      BY <2>1 DEF Clean
    <3>2. a \in Seq(FrameLine(m)) /\ L \in Nat /\ L >= 1
          /\ \A k \in 1..L : FrameAt(a[k], m, k, L)
      <4> DEFINE M == L
      <4>1. M = Len(a)
        OBVIOUS
      <4> HIDE DEF M, m, a
      <4>2. a \in Seq(FrameLine(m)) /\ M \in Nat /\ M >= 1
            /\ \A k \in 1..M : FrameAt(a[k], m, k, M)
        BY <1>1, <2>1, <3>1, <4>1, FramesAre
      <4> QED BY <4>1, <4>2
    <3>3. \A k \in 1..L : a[k] \in FrameLine(m)
      BY <3>2
    <3>4. \A k \in 1..L : Endures("gemini", a[k])
      <4> HIDE DEF m, a, L
      <4> QED BY <1>1, <3>2, <3>3, FramesEndure
    <3> QED BY <2>1, <3>2, <3>4 DEF Way
  <2>2. CASE dialect # "gemini"
    <3>1. a = AnthropicEvents(m)
      BY <2>2 DEF Clean
    <3>2. /\ a \in Seq(Events(m)) /\ L \in Nat /\ L >= 3
          /\ \A k \in 1..L : a[k].type = "message_delta" => k = L - 1
          /\ DOMAIN a[L - 1].usage # {}
      BY <1>1, <3>1, AnswerCrosses
    <3>3. \A k \in 1..L : a[k] \in Events(m) /\ (a[k].type = "message_delta" => DOMAIN a[k].usage # {})
      BY <3>2
    <3>4. \A k \in 1..L : Endures("anthropic", a[k])
      <4> HIDE DEF m, a, L
      <4> QED BY <3>3, EventsEndure
    <3> QED BY <2>2, <3>2, <3>4 DEF Way
  <2> QED BY <2>1, <2>2
<1>4. PICK E : a \in Seq(E)
  BY <1>3
<1>5. a # <<>> /\ (script = a \/ script \in Disturbed(a))
  BY <1>1, <1>3 DEF Scripts
<1> HIDE DEF a, m
<1>6. script \in Seq(E \cup Strays) /\ \E p : Strewn(a, script, p)
  BY <1>4, <1>5, ScriptsAreStrewn
<1>7. ASSUME NEW k \in 1..Len(script) PROVE Endures(Way, script[k])
  <2>1. PICK p : Strewn(a, script, p)
    BY <1>6
  <2>2. (k \in 0..Len(script)) /\ (k - 1 \in 0..Len(script)) /\ Len(script) \in Nat
    BY <1>6
  <2>3. p[k] \in 0..L /\ p[k - 1] \in 0..L
    BY <2>1, <2>2 DEF Strewn
  <2>4. \/ p[k] = p[k - 1] + 1 /\ script[k] = a[p[k]]
        \/ Stray(script[k])
    BY <2>1 DEF Strewn
  <2>5. CASE p[k] = p[k - 1] + 1 /\ script[k] = a[p[k]]
    <3>1. p[k] \in 1..L
      BY <1>3, <2>3, <2>5
    <3> QED BY <1>3, <2>5, <3>1
  <2>6. CASE Stray(script[k])
    <3>1. script[k] \in Strays
      BY <2>6 DEF Stray, Strays
    <3> QED BY <1>2, <3>1, StraysEndure
  <2> QED BY <2>4, <2>5, <2>6
<1> QED BY <1>1, <1>2, <1>6, <1>7 DEF m
-----------------------------------------------------------------------------
(* The chat ways, step by step.                                            *)

LinesTo(n) == [k \in 1..n |-> Read(k)]

\* The two stages after n lines.
Reached(n) == Run(Way, Fresh, LinesTo(n))

FrameBy(n) == \E k \in 1..n : script[k].type = "frame"

\* Only a line that has text is torn.
TornLines ==
    \A k \in torn : k \in 1..Len(script) /\ script[k].type \in {"content_block_delta", "frame"}

\* The capture c after the end of the body, which two stages b had come to: a body
\* that gave no line is reported, and a Gemini stream is finished.
ClosedFrom(b, c) ==
    \E report \in {<<>>, <<ErrorLine>>} :
        /\ dialect = "gemini" /\ report # <<>> => ~FrameBy(at \div 2)
        /\ c = FoldLeft(FeedChunk, b.c,
                        report \o (IF dialect = "gemini" THEN FinalChunk(b.t) ELSE <<>>))

\* The stages have read what came, and what is stored is what the capture gives.
ChatReads ==
    dialect # "messages" =>
        /\ TornLines
        /\ IF phase = "closed" THEN ClosedFrom(Reached(at \div 2), chat)
           ELSE /\ translator = Reached(at \div 2).t /\ chat = Reached(at \div 2).c
                /\ dialect = "gemini" /\ FrameBy(at \div 2) => emitted
        /\ Results \subseteq FinishChat(chat)

StreamsInv == NativeInv /\ ChatReads

\* A line as it is read is one that may come, and no other than was sent.
ReadAs(k) == /\ Comes(Way, Read(k)) /\ Read(k).type = script[k].type
             /\ Ready(Way, Read(k)) <=> Ready(Way, script[k])

LEMMA LinesRead ==
    ASSUME InStream, dialect # "messages", TornLines, NEW k \in 1..Len(script)
    PROVE  ReadAs(k)
<1>1. Endures(Way, script[k])
  BY ScriptsEndure
<1>2. Read(k) = script[k] \/ (k \in torn /\ Read(k) = Garbled(script[k]))
  BY DEF Read, Garbled
<1>3. k \in torn => script[k].type \in {"content_block_delta", "frame"}
  BY DEF TornLines
<1> QED BY <1>1, <1>2, <1>3 DEF Endures, ReadAs

LEMMA LinesAre ==
    ASSUME NEW n \in Nat
    PROVE  /\ LinesTo(n) \in Seq({Read(k) : k \in Nat}) /\ Len(LinesTo(n)) = n
           /\ DOMAIN LinesTo(n) = 1..n /\ \A k \in 1..n : LinesTo(n)[k] = Read(k)
BY DEF LinesTo

LEMMA RunsArePairs ==
    ASSUME NEW way \in {"anthropic", "gemini"}, NEW s, NEW n \in Nat, DOMAIN s = 1..n
    PROVE  IsPair(Run(way, Fresh, s))
<1>1. PICK tr : Trace(way, Fresh, s, n, tr) /\ Run(way, Fresh, s) = tr[n]
  BY RunTraced
<1>2. \A k \in 0..n : IsPair(tr[k])
  BY <1>1, TraceOfPairs
<1> QED BY <1>1, <1>2

\* The stages went on from b to d, over q.
WentOn(way, b, d, q) ==
    LET r == Run(LinesOf(way), Onset(b.t), q)
    IN /\ \E C : r.out \in Seq(C)
       /\ d.t = r.t /\ d.c = FoldLeft(FeedChunk, b.c, r.out)
       /\ way = "gemini" /\ (\E k \in DOMAIN q : q[k].type = "frame") => r.out # <<>>

\* More lines, and where they lead.
LEMMA RunsOn ==
    ASSUME NEW way \in {"anthropic", "gemini"}, NEW E, NEW s \in Seq(E), NEW q \in Seq(E)
    PROVE  WentOn(way, Run(way, Fresh, s), Run(way, Fresh, s \o q), q)
<1> DEFINE b == Run(way, Fresh, s)
           t == b.t
           c == b.c
           l == Len(q)
           r == Run(LinesOf(way), Onset(b.t), q)
<1>1. b = Pair(t, c)
  <2>1. Len(s) \in Nat /\ DOMAIN s = 1..Len(s)
    OBVIOUS
  <2>2. IsPair(b)
    BY <2>1, RunsArePairs
  <2> QED BY <2>2 DEF IsPair
<1>2. l \in Nat /\ DOMAIN q = 1..l
  OBVIOUS
<1>3. Run(way, Fresh, s \o q) = Run(way, b, q)
  BY RunOfBoth
<1> HIDE DEF b, t, c, l
<1>4. Joined(way, t, c, q, Run(LinesOf(way), Onset(t), q))
  BY <1>2, StagesJoin
<1>5. Joined(way, t, c, q, r)
  BY <1>4 DEF t
<1> HIDE DEF r
<1>6. FoldLeft(FeedChunk, c, r.out) = Run("chunk", c, r.out)
  <2>1. Len(r.out) \in Nat /\ DOMAIN r.out = 1..Len(r.out)
    BY <1>5 DEF Joined
  <2> QED BY <2>1, FoldsAreRuns
<1>7. Run(way, Fresh, s \o q) = Pair(r.t, Run("chunk", c, r.out))
  BY <1>1, <1>3, <1>5 DEF Joined
<1>8. \E C : r.out \in Seq(C)
  BY <1>5 DEF Joined
<1>9. WentOn(way, b, Run(way, Fresh, s \o q), q)
  BY <1>5, <1>6, <1>7, <1>8 DEF WentOn, Pair, Joined, c, r
<1> QED BY <1>9 DEF b

\* The lines after n, up to m.
LinesAfter(n, m) == [k \in 1..(m - n) |-> Read(n + k)]

LEMMA LinesFollow ==
    ASSUME NEW n \in Nat, NEW m \in Nat, n <= m
    PROVE  /\ LinesAfter(n, m) \in Seq({Read(k) : k \in Nat})
           /\ LinesTo(n) \o LinesAfter(n, m) = LinesTo(m)
<1> DEFINE E == {Read(k) : k \in Nat}
           p == LinesTo(n)
           q == LinesAfter(n, m)
           h == p \o q
           l == m - n
<1>1. p \in Seq(E) /\ Len(p) = n /\ DOMAIN p = 1..n /\ \A k \in 1..n : p[k] = Read(k)
  BY LinesAre
<1>2. l \in Nat /\ q \in Seq(E) /\ DOMAIN q = 1..l /\ Len(q) = l
      /\ \A k \in 1..l : q[k] = Read(n + k)
  BY DEF LinesAfter
<1> HIDE DEF E, p, q
<1>3. /\ h \in Seq(E) /\ Len(h) = n + l
      /\ \A i \in 1..n : h[i] = p[i]
      /\ \A i \in 1..l : h[n + i] = q[i]
  <2>1. p \in Seq(E) /\ q \in Seq(E)
    BY <1>1, <1>2
  <2>2. /\ h \in Seq(E) /\ Len(h) = Len(p) + Len(q)
        /\ \A i \in 1..Len(p) : h[i] = p[i]
        /\ \A i \in 1..Len(q) : h[Len(p) + i] = q[i]
    BY <2>1, Laid
  <2> HIDE DEF h, l
  <2> QED BY <1>1, <1>2, <2>2
<1> HIDE DEF h
<1>4. DOMAIN h = 1..m /\ h = [k \in 1..m |-> h[k]]
  BY <1>3
<1>5. ASSUME NEW k \in 1..m PROVE h[k] = Read(k)
  <2>1. CASE k \in 1..n
    BY <1>1, <1>3, <2>1
  <2>2. CASE k \notin 1..n
    <3>1. k - n \in 1..l /\ n + (k - n) = k
      BY <2>2
    <3> QED BY <1>2, <1>3, <3>1
  <2> QED BY <2>1, <2>2
<1>6. h = LinesTo(m)
  BY <1>4, <1>5 DEF LinesTo
<1> QED BY <1>2, <1>6 DEF E, h, p, q

LEMMA ChatInit == StreamsInit => ChatReads
<1> SUFFICES ASSUME StreamsInit PROVE ChatReads
  OBVIOUS
<1>1. /\ at = 0 /\ torn = {} /\ translator = TranslatorNew /\ chat = ChatNew
      /\ phase = "flows" /\ captured = {} /\ store = {}
  BY DEF StreamsInit
<1>2. at \div 2 = 0 /\ 1..0 = {}
  BY <1>1
<1>3. LinesTo(0) = <<>>
  BY <1>2 DEF LinesTo
<1>4. Reached(0) = Fresh
  BY <1>3, RunOfNone DEF Reached
<1>5. Fresh.t = TranslatorNew /\ Fresh.c = ChatNew
  BY DEF Fresh, Pair
<1>6. TornLines
  BY <1>1 DEF TornLines
<1>7. ~FrameBy(0)
  BY <1>2 DEF FrameBy
<1> QED BY <1>1, <1>2, <1>4, <1>5, <1>6, <1>7 DEF ChatReads, Results

\* What a capture gives it gives for good.
LEMMA GivenForGood ==
    ASSUME NEW c, NEW s, NEW n \in Nat, DOMAIN s = 1..n
    PROVE  /\ FinishChat(c) # {} => c.done /\ ~c.unusable
           /\ FinishChat(c) \subseteq FinishChat(FoldLeft(FeedChunk, c, s))
<1>1. FinishChat(c) # {} => c.done /\ ~c.unusable
  BY DEF FinishChat
<1>2. CASE FinishChat(c) # {}
  BY <1>1, <1>2, FrozenFed
<1>3. CASE FinishChat(c) = {}
  BY <1>3
<1> QED BY <1>1, <1>2, <1>3

\* What is stored when some chat lines have been read.
LEMMA CaptureKeeps ==
    ASSUME NEW t, NEW lines, NEW n \in Nat, DOMAIN lines = 1..n, CaptureChat(t, lines),
           store' = store, Results \subseteq FinishChat(chat)
    PROVE  /\ translator' = t /\ chat' = FoldLeft(FeedChunk, chat, lines)
           /\ emitted' = (emitted \/ lines # <<>>)
           /\ Results' \subseteq FinishChat(chat')
<1> DEFINE c == FoldLeft(FeedChunk, chat, lines)
<1>1. /\ translator' = t /\ chat' = c /\ emitted' = (emitted \/ lines # <<>>)
      /\ captured' = IF capturing /\ c.done THEN FinishChat(c) ELSE captured
  BY DEF CaptureChat
<1>2. FinishChat(chat) \subseteq FinishChat(c)
  BY GivenForGood
<1> HIDE DEF c
<1>3. Results' \subseteq Results \cup FinishChat(c)
  BY <1>1 DEF Results
<1> QED BY <1>1, <1>2, <1>3 DEF c

LEMMA DeliverKeepsChat ==
    ASSUME StreamsInv, NEW to \in 1..(2 * Len(script)), Deliver(to)
    PROVE  ChatReads'
<1>1. /\ at' = to /\ to > at /\ phase = "flows" /\ phase' = phase
      /\ dialect' = dialect /\ answer' = answer /\ script' = script /\ store' = store
      /\ torn' = torn \/ (Cuts(to) /\ torn' = torn \cup {(to + 1) \div 2})
  BY DEF Deliver
<1> SUFFICES ASSUME dialect # "messages"
             PROVE  /\ TornLines'
                    /\ translator' = Reached(to \div 2)'.t /\ chat' = Reached(to \div 2)'.c
                    /\ dialect = "gemini" /\ FrameBy(to \div 2)' => emitted'
                    /\ Results' \subseteq FinishChat(chat)'
  <2>1. Reached(at \div 2)' = Reached(to \div 2)' /\ FrameBy(at \div 2)' = FrameBy(to \div 2)'
    BY <1>1 DEF Reached, LinesTo, FrameBy, Way, Read, DecodesPieces
  <2> QED BY <1>1, <2>1 DEF ChatReads
<1> DEFINE n == at \div 2
           m == to \div 2
           q == LinesAfter(n, m)
           r == Run(LinesOf(Way), Onset(translator), q)
<1>2. /\ InStream /\ TornLines /\ translator = Reached(n).t /\ chat = Reached(n).c
      /\ dialect = "gemini" /\ FrameBy(n) => emitted
      /\ Results \subseteq FinishChat(chat)
  BY <1>1 DEF StreamsInv, NativeInv, ChatReads
<1>3. PICK E : script \in Seq(E)
  BY <1>2, ScriptsEndure
<1>4. Way \in {"anthropic", "gemini"} /\ Len(script) \in Nat
  BY <1>3 DEF Way
<1>5. /\ n \in Nat /\ m \in Nat /\ n <= m /\ m <= Len(script)
      /\ to % 2 = 1 => (to + 1) \div 2 = m + 1 /\ m + 1 <= Len(script)
  BY <1>1, <1>2, <1>4 DEF InStream
<1>6. TornLines'
  <2>1. CASE torn' = torn
    BY <1>1, <1>2, <2>1 DEF TornLines
  <2>2. CASE Cuts(to) /\ torn' = torn \cup {(to + 1) \div 2}
    <3>1. to % 2 = 1 /\ script[(to + 1) \div 2].type \in {"content_block_delta", "frame"}
      BY <2>2 DEF Cuts, IsWide
    <3>2. (to + 1) \div 2 \in 1..Len(script)
      BY <1>4, <1>5, <3>1
    <3> QED BY <1>1, <1>2, <2>2, <3>1, <3>2 DEF TornLines
  <2> QED BY <1>1, <2>1, <2>2
<1>7. \A k \in 1..m : k \in torn' <=> k \in torn
  <2>1. CASE torn' = torn
    BY <2>1
  <2>2. CASE Cuts(to) /\ torn' = torn \cup {(to + 1) \div 2}
    <3>1. (to + 1) \div 2 = m + 1
      BY <1>5, <2>2 DEF Cuts
    <3> HIDE DEF m
    <3>2. \A k \in 1..m : k # m + 1
      BY <1>5
    <3> QED BY <2>2, <3>1, <3>2
  <2> QED BY <1>1, <2>1, <2>2
<1>8. Reached(m)' = Reached(m) /\ FrameBy(m)' = FrameBy(m)
  <2>0. to' = to /\ m' = m
    OBVIOUS
  <2> QED BY <1>1, <1>7 DEF Reached, LinesTo, FrameBy, Way, Read, DecodesPieces
<1> HIDE DEF n, m
<1>9. q = Completed(to)
  BY DEF Completed, LinesAfter, n, m
<1>10. DOMAIN q = 1..(m - n) /\ m - n \in Nat
  BY <1>5 DEF LinesAfter
<1> HIDE DEF q
<1>11. TranslateAll(translator, q) = r
  <2>1. CASE dialect = "gemini"
    <3>1. TranslateAll(translator, q) = FoldLeft(GeminiLine, Onset(translator), q)
      BY <2>1 DEF TranslateAll, Onset
    <3>2. LinesOf(Way) = "geminiLines"
      BY <2>1 DEF LinesOf, Way
    <3> QED BY <1>10, <3>1, <3>2, FoldsAreRuns
  <2>2. CASE dialect # "gemini"
    <3>1. TranslateAll(translator, q) = FoldLeft(AnthropicLine, Onset(translator), q)
      BY <2>2 DEF TranslateAll, Onset
    <3>2. LinesOf(Way) = "anthropicLines"
      BY <2>2 DEF LinesOf, Way
    <3> QED BY <1>10, <3>1, <3>2, FoldsAreRuns
  <2> QED BY <2>1, <2>2
<1> HIDE DEF r
<1>12. CaptureChat(r.t, r.out)
  BY <1>9, <1>11 DEF Deliver
<1>13. /\ Reached(m).t = r.t /\ Reached(m).c = FoldLeft(FeedChunk, chat, r.out)
       /\ Way = "gemini" /\ (\E k \in DOMAIN q : q[k].type = "frame") => r.out # <<>>
       /\ \E C : r.out \in Seq(C)
  <2> DEFINE F == {Read(k) : k \in Nat}
             s == LinesTo(n)
  <2>1. s \in Seq(F) /\ q \in Seq(F) /\ s \o q = LinesTo(m)
    BY <1>5, LinesAre, LinesFollow DEF q
  <2>2. Reached(n) = Run(Way, Fresh, s) /\ Reached(m) = Run(Way, Fresh, s \o q)
    BY <2>1 DEF Reached
  <2> DEFINE b == Reached(n)
             w == Way
  <2>3. translator = b.t /\ chat = b.c /\ w \in {"anthropic", "gemini"}
    BY <1>2, <1>4
  <2>4. r = Run(LinesOf(Way), Onset(b.t), q)
    BY <2>3 DEF r
  <2> HIDE DEF F, s, b, w
  <2>5. WentOn(w, Run(w, Fresh, s), Run(w, Fresh, s \o q), q)
    BY <2>1, <2>3, RunsOn
  <2>6. WentOn(Way, b, Reached(m), q)
    BY <2>2, <2>5 DEF w, b
  <2> QED BY <2>3, <2>4, <2>6 DEF WentOn
<1>14. Len(r.out) \in Nat /\ DOMAIN r.out = 1..Len(r.out)
  BY <1>13
<1>15. store' = store /\ Results \subseteq FinishChat(chat)
  BY <1>1, <1>2
<1>16. /\ translator' = r.t /\ chat' = FoldLeft(FeedChunk, chat, r.out)
       /\ emitted' = (emitted \/ r.out # <<>>)
       /\ Results' \subseteq FinishChat(chat')
  <2> DEFINE t == r.t
             lines == r.out
  <2>1. Len(lines) \in Nat /\ DOMAIN lines = 1..Len(lines) /\ CaptureChat(t, lines)
    BY <1>12, <1>14
  <2> HIDE DEF t, lines
  <2>2. /\ translator' = t /\ chat' = FoldLeft(FeedChunk, chat, lines)
        /\ emitted' = (emitted \/ lines # <<>>)
        /\ Results' \subseteq FinishChat(chat')
    BY <1>15, <2>1, CaptureKeeps
  <2> QED BY <2>2 DEF t, lines
<1>17. dialect = "gemini" /\ FrameBy(m) => emitted'
  <2> SUFFICES ASSUME dialect = "gemini", NEW k \in 1..m, script[k].type = "frame"
               PROVE  emitted'
    BY DEF FrameBy
  <2>1. CASE k \in 1..n
    BY <1>2, <1>16, <2>1 DEF FrameBy, n
  <2>2. CASE k \notin 1..n
    <3>1. k - n \in 1..(m - n) /\ n + (k - n) = k /\ k \in 1..Len(script)
      BY <1>4, <1>5, <2>2
    <3>2. q[k - n] = Read(k)
      BY <3>1 DEF q, LinesAfter
    <3>3. Read(k).type = "frame"
      BY <1>2, <3>1, LinesRead DEF ReadAs
    <3>4. Way = "gemini" /\ \E j \in DOMAIN q : q[j].type = "frame"
      BY <1>10, <3>1, <3>2, <3>3 DEF Way
    <3> QED BY <1>13, <1>16, <3>4
  <2> QED BY <2>1, <2>2
<1>18. Reached(to \div 2)' = Reached(m) /\ FrameBy(to \div 2)' = FrameBy(m)
  BY <1>8 DEF m
<1> QED BY <1>6, <1>13, <1>16, <1>17, <1>18

\* Where the stages stand depends on what came alone.
LEMMA ReachedSame ==
    ASSUME at' = at, dialect' = dialect, script' = script, torn' = torn
    PROVE  /\ Reached(at \div 2)' = Reached(at \div 2) /\ FrameBy(at \div 2)' = FrameBy(at \div 2)
           /\ TornLines' = TornLines
BY DEF Reached, LinesTo, FrameBy, TornLines, Way, Read, DecodesPieces

LEMMA EndKeepsChat ==
    ASSUME StreamsInv, Closes
    PROVE  ChatReads'
<1>1. /\ phase = "flows" /\ phase' = "closed" /\ at' = at /\ dialect' = dialect
      /\ script' = script /\ torn' = torn /\ store' = store
      /\ dialect # "messages" => CaptureChat(translator, Ending)
  BY DEF Closes
<1> SUFFICES ASSUME dialect # "messages"
             PROVE  /\ TornLines' /\ ClosedFrom(Reached(at \div 2), chat)'
                    /\ Results' \subseteq FinishChat(chat)'
  BY <1>1 DEF ChatReads
<1> DEFINE b == Reached(at \div 2)
           report == IF DecodesPieces /\ at > 0 /\ ~emitted THEN <<ErrorLine>> ELSE <<>>
           final == IF dialect = "gemini" THEN FinalChunk(b.t) ELSE <<>>
           lines == report \o final
<1>2. /\ TornLines /\ translator = b.t /\ chat = b.c /\ Results \subseteq FinishChat(chat)
      /\ dialect = "gemini" /\ FrameBy(at \div 2) => emitted
  BY <1>1 DEF StreamsInv, ChatReads
<1>3. TornLines' /\ b' = b /\ FrameBy(at \div 2)' = FrameBy(at \div 2)
  BY <1>1, <1>2, ReachedSame
<1>4. Ending = lines
  BY <1>2 DEF Ending
<1> HIDE DEF b
<1>5. \E C : report \in Seq(C) /\ final \in Seq(C)
  <2>1. PICK x : FinalChunk(b.t) = <<x, DoneLine>>
    BY DEF FinalChunk
  <2> DEFINE C == {x, DoneLine, ErrorLine}
  <2>0. x \in C /\ DoneLine \in C /\ ErrorLine \in C
    OBVIOUS
  <2>4. \A v \in C, w \in C : <<v>> \in Seq(C) /\ <<v, w>> \in Seq(C) /\ <<>> \in Seq(C)
    <3> HIDE DEF C
    <3> QED OBVIOUS
  <2> HIDE DEF C
  <2>2. report \in Seq(C)
    BY <2>0, <2>4
  <2> HIDE DEF report
  <2>3. final \in Seq(C)
    BY <2>0, <2>1, <2>4
  <2> QED BY <2>2, <2>3
<1>6. /\ report \in {<<>>, <<ErrorLine>>}
      /\ report # <<>> => ~emitted
  OBVIOUS
<1> HIDE DEF report, final
<1>7. Len(lines) \in Nat /\ DOMAIN lines = 1..Len(lines)
  BY <1>5
<1>8. CaptureChat(translator, lines) /\ store' = store
  BY <1>1, <1>4
<1>9. chat' = FoldLeft(FeedChunk, b.c, lines) /\ Results' \subseteq FinishChat(chat')
  <2> HIDE DEF lines
  <2> QED BY <1>2, <1>7, <1>8, CaptureKeeps
<1>10. ClosedFrom(b, chat)'
  <2>1. chat' = FoldLeft(FeedChunk, b.c,
                         report \o (IF dialect = "gemini" THEN FinalChunk(b.t) ELSE <<>>))
    BY <1>9 DEF final
  <2>2. dialect = "gemini" /\ report # <<>> => ~FrameBy(at \div 2)
    BY <1>2, <1>6
  <2>3. ClosedFrom(b, chat)' <=> \E p \in {<<>>, <<ErrorLine>>} :
            /\ dialect = "gemini" /\ p # <<>> => ~FrameBy(at \div 2)
            /\ chat' = FoldLeft(FeedChunk, b.c,
                                p \o (IF dialect = "gemini" THEN FinalChunk(b.t) ELSE <<>>))
    BY <1>1, <1>3 DEF ClosedFrom
  <2> QED BY <1>6, <2>1, <2>2, <2>3
<1> QED BY <1>3, <1>9, <1>10 DEF b

LEMMA RestKeepsChat ==
    ASSUME StreamsInv, Lost \/ Put \/ UNCHANGED streamVars
    PROVE  ChatReads'
<1>1. /\ at' = at /\ dialect' = dialect /\ script' = script /\ torn' = torn
      /\ translator' = translator /\ chat' = chat /\ emitted' = emitted
      /\ phase' = "closed" <=> phase = "closed"
      /\ Results' \subseteq Results
  <2>1. CASE Lost
    BY <2>1 DEF Lost, Results
  <2>2. CASE Put
    BY <2>2 DEF Put, Results
  <2>3. CASE UNCHANGED streamVars
    BY <2>3 DEF streamVars, Results
  <2> QED BY <2>1, <2>2, <2>3
<1>2. /\ Reached(at \div 2)' = Reached(at \div 2) /\ FrameBy(at \div 2)' = FrameBy(at \div 2)
      /\ TornLines' = TornLines
  BY <1>1, ReachedSame
<1>3. ClosedFrom(Reached(at \div 2), chat)' <=> ClosedFrom(Reached(at \div 2), chat)
  BY <1>1, <1>2 DEF ClosedFrom
<1> QED BY <1>1, <1>2, <1>3 DEF StreamsInv, ChatReads

LEMMA StreamsInvHolds == StreamsSpec => []StreamsInv
<1>1. StreamsInit => StreamsInv
  BY NativeInit, ChatInit DEF StreamsInv
<1>2. StreamsInv /\ [StreamsNext]_streamVars => StreamsInv'
  <2> SUFFICES ASSUME StreamsInv, [StreamsNext]_streamVars PROVE StreamsInv'
    OBVIOUS
  <2>1. NativeInv'
    BY StreamsStay DEF StreamsInv
  <2>2. ChatReads'
    BY DeliverKeepsChat, EndKeepsChat, RestKeepsChat DEF StreamsNext
  <2> QED BY <2>1, <2>2 DEF StreamsInv
<1> QED BY <1>1, <1>2, PTL DEF StreamsSpec
-----------------------------------------------------------------------------
(* What the chat capture holds when the answer is whole.                   *)

LEMMA GivenFinishes == ASSUME NEW c, Given(c) PROVE FinishChat(c) # {}
<1>1. PICK k \in Nat : Listed(c.calls, k)
  BY DEF Given
<1>2. \A i \in DOMAIN c.calls : c.calls[i].id # {}
  BY <1>1 DEF Listed, IsCall
<1>3. PICK u : u \in c.usage
  BY DEF Given
<1>4. c.done /\ ~c.unusable
  BY DEF Given
<1>5. u \in {x \in c.usage : /\ c.done /\ ~c.unusable
                             /\ \A i \in DOMAIN c.calls : c.calls[i].id # {}}
  BY <1>2, <1>3, <1>4
<1> QED BY <1>5 DEF FinishChat

\* While the capture reads the first lines, and after an error, it gives nothing.
LEMMA UnderwayGivesNone ==
    ASSUME NEW b, Underway(b), NEW report \in {<<>>, <<ErrorLine>>}
    PROVE  FinishChat(FoldLeft(FeedChunk, b.c, report)) = {}
<1>1. PICK u, tools, f, x : b = Midway(u, tools, x, f)
  BY DEF Underway
<1> DEFINE c == Gathering(x, f)
<1>2. b.c = c
  BY <1>1, MidwayHolds
<1>3. IsChat(c) /\ c.done = No /\ c.unusable = No
  BY GatheredAre, GatheredHolds DEF Gathering
<1> HIDE DEF c
<1>4. ~c.done /\ ~c.unusable
  BY <1>3 DEF No
<1>5. CASE report = <<>>
  <2>1. FoldLeft(FeedChunk, c, <<>>) = c
    <3>1. DOMAIN <<>> = 1..0 /\ 0 \in Nat
      OBVIOUS
    <3>2. FoldLeft(FeedChunk, c, <<>>) = Run("chunk", c, <<>>)
      BY <3>1, FoldsAreRuns
    <3> QED BY <3>2, RunOfNone
  <2> QED BY <1>2, <1>4, <1>5, <2>1 DEF FinishChat
<1>6. CASE report = <<ErrorLine>>
  <2> DEFINE d == Gathered(c.content, c.calls, c.finish, c.usage, c.done, Yes)
             e == ErrorLine
  <2>1. FeedChunk(c, e) = d
    BY <1>3, <1>4, EndFed
  <2>5. d.unusable = Yes
    BY GatheredHolds
  <2> HIDE DEF d, e
  <2>2. d.unusable
    BY <2>5 DEF Yes
  <2>3. FoldLeft(FeedChunk, c, <<e>>) = d
    <3>1. DOMAIN <<e>> = 1..1 /\ 1 \in Nat
      OBVIOUS
    <3>2. FoldLeft(FeedChunk, c, <<e>>) = Run("chunk", c, <<e>>)
      BY <3>1, FoldsAreRuns
    <3>3. Run("chunk", c, <<e>>) = FeedChunk(c, e)
      BY RunOfOne DEF Step
    <3> QED BY <2>1, <3>2, <3>3
  <2>4. FinishChat(d) = {}
    BY <2>2 DEF FinishChat
  <2> QED BY <1>2, <1>6, <2>3, <2>4 DEF e
<1> QED BY <1>5, <1>6

\* The lines that came, and whether the answer is whole with them.
LEMMA WhatCame ==
    ASSUME StreamsInv, dialect # "messages", NEW n, n = at \div 2
    PROVE  /\ n \in 0..Len(script) /\ (\E E : script \in Seq(E))
           /\ DOMAIN LinesTo(n) = 1..n
           /\ \A k \in 1..n : LinesTo(n)[k] = Read(k) /\ ReadAs(k)
           /\ Whole <=> \E k \in 1..n : Ready(Way, script[k])
<1>1. InStream /\ TornLines
  BY DEF StreamsInv, NativeInv, ChatReads
<1>2. PICK E : script \in Seq(E)
  BY <1>1, ScriptsEndure
<1>3. n \in 0..Len(script) /\ n \in Nat
  BY <1>1, <1>2 DEF InStream
<1>4. \A k \in 1..n : k \in 1..Len(script)
  BY <1>2, <1>3
<1>5. \A k \in 1..n : ReadAs(k)
  BY <1>1, <1>4, LinesRead
<1>6. \A e : Finishes(e) <=> Ready(Way, e)
  BY DEF Finishes, Ready, Way
<1>7. Whole <=> \E k \in 1..n : Ready(Way, script[k])
  BY <1>6 DEF Whole, Stops
<1> QED BY <1>2, <1>3, <1>5, <1>7, LinesAre

\* An Anthropic stream gives an answer exactly when it is whole.
LEMMA AnthropicWays ==
    ASSUME StreamsInv, dialect \notin {"messages", "gemini"}
    PROVE  IF Whole THEN Given(chat) /\ chat = Reached(at \div 2).c ELSE FinishChat(chat) = {}
<1> DEFINE n == at \div 2
           b == Reached(n)
           s == LinesTo(n)
<1>0. n \in Nat /\ n = at \div 2
  BY WhatCame
<1>1. Way = "anthropic"
  BY DEF Way
<1>2. /\ DOMAIN s = 1..n
      /\ \A k \in 1..n : s[k] = Read(k) /\ ReadAs(k)
      /\ Whole <=> \E k \in 1..n : Ready(Way, script[k])
  <2> HIDE DEF n
  <2> QED BY <1>0, WhatCame
<1>3. b = Run("anthropic", Fresh, s)
  BY <1>1 DEF Reached
<1>4. \E report \in {<<>>, <<ErrorLine>>} : chat = FoldLeft(FeedChunk, b.c, report)
  <2>1. CASE phase = "closed"
    <3>1. \A report \in {<<>>, <<ErrorLine>>} : report \o <<>> = report
      BY ConcatEmptySeq
    <3> QED BY <2>1, <3>1 DEF StreamsInv, ChatReads, ClosedFrom
  <2>2. CASE phase # "closed"
    <3>1. chat = b.c
      BY <2>2 DEF StreamsInv, ChatReads
    <3>2. FoldLeft(FeedChunk, b.c, <<>>) = b.c
      <4> HIDE DEF b
      <4>1. DOMAIN <<>> = 1..0 /\ 0 \in Nat
        OBVIOUS
      <4>2. FoldLeft(FeedChunk, b.c, <<>>) = Run("chunk", b.c, <<>>)
        BY <4>1, FoldsAreRuns
      <4> QED BY <4>2, RunOfNone
    <3> QED BY <3>1, <3>2
  <2> QED BY <2>1, <2>2
<1> HIDE DEF b, s, n
<1>5. (\E k \in 1..n : s[k].type = "message_delta") <=> Whole
  BY <1>1, <1>2 DEF ReadAs, Ready
<1>6. \A k \in 1..n : Readable(s[k])
  BY <1>2 DEF ReadAs, Comes
<1>7. IF Whole THEN Given(b.c) ELSE Underway(b)
  BY <1>0, <1>2, <1>3, <1>5, <1>6, AnthropicRuns
<1>8. PICK report \in {<<>>, <<ErrorLine>>} : chat = FoldLeft(FeedChunk, b.c, report)
  BY <1>4
<1>9. CASE Whole
  <2>1. Given(b.c) /\ (b.c.done \/ b.c.unusable)
    BY <1>7, <1>9 DEF Given
  <2>2. Len(report) \in Nat /\ DOMAIN report = 1..Len(report)
    OBVIOUS
  <2>3. FoldLeft(FeedChunk, b.c, report) = b.c
    BY <2>1, <2>2, FrozenFed
  <2>4. chat = b.c
    BY <1>8, <2>3
  <2> QED BY <1>9, <2>1, <2>4 DEF b, n
<1>10. CASE ~Whole
  BY <1>7, <1>8, <1>10, UnderwayGivesNone
<1> QED BY <1>9, <1>10

GeminiCounts(u) ==
    [prompt |-> Reported(u, "input"), completion |-> Reported(u, "output"),
     cached |-> Reported(u, "read"), reasoning |-> {}]

\* The capture of a whole Gemini stream after its end, and before.
GeminiChat(u, g, x) == Gathered(x, Empty, g, {GeminiCounts(u)}, Yes, No)

LEMMA GeminiWays ==
    ASSUME StreamsInv, dialect = "gemini", Whole
    PROVE  \E u, g : \E x \in Seq(Frags) :
               /\ Reached(at \div 2) = Framed(u, g, x) /\ DOMAIN u # {} /\ g # {}
               /\ chat = IF phase = "closed" THEN GeminiChat(u, g, x) ELSE Gathering(x, Empty)
<1> DEFINE n == at \div 2
           b == Reached(n)
           s == LinesTo(n)
<1>0. n \in Nat /\ n = at \div 2
  BY WhatCame
<1>1. Way = "gemini"
  BY DEF Way
<1>2. /\ DOMAIN s = 1..n
      /\ \A k \in 1..n : s[k] = Read(k) /\ ReadAs(k)
      /\ \E k \in 1..n : Ready(Way, script[k])
  <2> HIDE DEF n
  <2> QED BY <1>0, WhatCame
<1>3. b = Run("gemini", Fresh, s)
  BY <1>1 DEF Reached
<1>4. FrameBy(n)
  BY <1>1, <1>2 DEF FrameBy, Ready
<1>5. IF phase = "closed" THEN chat = FoldLeft(FeedChunk, b.c, FinalChunk(b.t))
      ELSE chat = b.c
  <2>1. CASE phase = "closed"
    <3>1. PICK report \in {<<>>, <<ErrorLine>>} :
             /\ report # <<>> => ~FrameBy(n)
             /\ chat = FoldLeft(FeedChunk, b.c, report \o FinalChunk(b.t))
      BY <2>1 DEF StreamsInv, ChatReads, ClosedFrom
    <3>2. report = <<>>
      BY <1>4, <3>1
    <3>3. <<>> \o FinalChunk(b.t) = FinalChunk(b.t)
      <4> HIDE DEF b
      <4>1. PICK v : FinalChunk(b.t) = <<v, DoneLine>>
        BY DEF FinalChunk
      <4>2. \A w : <<>> \o <<v, w>> = <<v, w>>
        OBVIOUS
      <4> QED BY <4>1, <4>2
    <3> QED BY <2>1, <3>1, <3>2, <3>3
  <2>2. CASE phase # "closed"
    BY <2>2 DEF StreamsInv, ChatReads
  <2> QED BY <2>1, <2>2
<1> HIDE DEF b, s, n
<1>6. \A k \in 1..n : Readable(s[k]) /\ (s[k].type = "frame" \/ s[k].type \in Other)
  BY <1>1, <1>2 DEF ReadAs, Comes
<1>7. \E k \in 1..n : Ready("gemini", s[k])
  BY <1>1, <1>2 DEF ReadAs
<1>8. PICK u, g : \E x \in Seq(Frags) : b = Framed(u, g, x) /\ DOMAIN u # {} /\ g # {}
  <2>1. n \in Nat /\ DOMAIN s = 1..n
    BY <1>0, <1>2
  <2>2. \E u, g : \E x \in Seq(Frags) :
            /\ b = Framed(u, g, x)
            /\ (\E k \in 1..n : Ready("gemini", s[k])) => DOMAIN u # {} /\ g # {}
    BY <1>3, <1>6, <2>1, GeminiRuns
  <2> QED BY <1>7, <2>2
<1>9. PICK x \in Seq(Frags) : b = Framed(u, g, x)
  BY <1>8
<1>10. b.c = Gathering(x, Empty) /\ b.t.usage = u /\ b.t.finish = g
  BY <1>9 DEF Framed, Pair
<1>11. FoldLeft(FeedChunk, b.c, FinalChunk(b.t)) = GeminiChat(u, g, x)
  <2> DEFINE v == {GeminiCounts(u)}
  <2>1. FinalChunk(b.t) = <<Chunk(<<>>, <<>>, g, v), DoneLine>>
    BY <1>8, <1>10 DEF FinalChunk, GeminiCounts
  <2>2. v # {}
    OBVIOUS
  <2> HIDE DEF v
  <2>3. FoldLeft(FeedChunk, Gathering(x, Empty), <<Chunk(<<>>, <<>>, g, v), DoneLine>>)
            = Gathered(x, Empty, g, v, Yes, No)
    BY <1>8, <2>2, LastLines
  <2> QED BY <1>10, <2>1, <2>3 DEF GeminiChat, v
<1> QED BY <1>5, <1>8, <1>9, <1>10, <1>11 DEF b, n

\* An answer that came whole can be stored, and an Anthropic one that did not is not.
LEMMA WholeIsGiven ==
    ASSUME StreamsInv, dialect # "messages"
    PROVE  /\ dialect # "gemini" /\ Results # {} => Whole
           /\ Whole /\ (dialect = "gemini" => phase = "closed") => FinishChat(chat) # {}
<1>1. Results \subseteq FinishChat(chat)
  BY DEF StreamsInv, ChatReads
<1>2. CASE dialect # "gemini"
  <2>1. IF Whole THEN Given(chat) ELSE FinishChat(chat) = {}
    BY <1>2, AnthropicWays
  <2> QED BY <1>1, <1>2, <2>1, GivenFinishes
<1>3. CASE dialect = "gemini"
  <2> SUFFICES ASSUME Whole, phase = "closed" PROVE FinishChat(chat) # {}
    BY <1>3
  <2>1. PICK u, g : \E x \in Seq(Frags) : chat = GeminiChat(u, g, x)
    BY <1>3, GeminiWays
  <2>2. PICK x \in Seq(Frags) : chat = GeminiChat(u, g, x)
    BY <2>1
  <2> DEFINE v == {GeminiCounts(u)}
             c == Gathered(x, Empty, g, v, Yes, No)
  <2>3. chat = c /\ v # {}
    BY <2>2 DEF GeminiChat
  <2> HIDE DEF v
  <2>4. /\ c.content = x /\ c.calls = Empty /\ c.usage = v
        /\ c.done = Yes /\ c.unusable = No
    BY GatheredHolds
  <2> HIDE DEF c
  <2>5. Listed(c.calls, 0)
    BY <2>4 DEF Listed, Empty
  <2>6. Given(c)
    BY <2>3, <2>4, <2>5 DEF Given, Yes, No
  <2> QED BY <2>3, <2>6, GivenFinishes
<1> QED BY <1>2, <1>3
-----------------------------------------------------------------------------
(* A whole answer of which nothing is torn.                                *)

LEMMA UntornLines ==
    ASSUME torn = {}, NEW E, script \in Seq(E), NEW n \in 0..Len(script)
    PROVE  LinesTo(n) = SubSeq(script, 1, n)
<1>1. LinesTo(n) = [k \in 1..n |-> script[k]]
  BY DEF LinesTo, Read
<1>2. SubSeq(script, 1, n) = [k \in 1..n |-> script[k]]
  <2> DEFINE q == SubSeq(script, 1, n)
  <2>1. q \in Seq(E) /\ Len(q) = n /\ \A k \in 1..n : q[k] = script[k]
    OBVIOUS
  <2> HIDE DEF q
  <2>2. q = [k \in 1..n |-> q[k]]
    BY <2>1
  <2> QED BY <2>1, <2>2 DEF q
<1> QED BY <1>1, <1>2

\* The stages have come as far as some first lines of the answer, and the line that
\* makes it whole is among them.
LEMMA WholeReached ==
    ASSUME StreamsInv, dialect # "messages", torn = {}, Whole,
           NEW E, NEW a, a = Clean(dialect, answer), a \in Seq(E), a # <<>>
    PROVE  \E j \in 1..Len(a), l \in 1..Len(a) :
               /\ j <= l /\ Ready(Way, a[j])
               /\ Reached(at \div 2) = Run(Way, Fresh, SubSeq(a, 1, l))
<1> DEFINE n == at \div 2
           L == Len(a)
           F == E \cup Strays
           w == Way
<1>0. n = at \div 2
  OBVIOUS
<1>1. InStream /\ (script = a \/ script \in Disturbed(a))
  BY DEF StreamsInv, NativeInv, InStream, Scripts
<1>2. script \in Seq(F) /\ \E p : Strewn(a, script, p)
  BY <1>1, ScriptsAreStrewn
<1>3. PICK p : Strewn(a, script, p)
  BY <1>2
<1> HIDE DEF n
<1>4. n \in 0..Len(script) /\ \E k \in 1..n : Ready(w, script[k])
  BY <1>0, WhatCame
<1>5. PICK k \in 1..n : Ready(w, script[k])
  BY <1>4
<1>6. L \in Nat /\ Len(script) \in Nat /\ w \in {"anthropic", "gemini"}
  BY <1>2 DEF Way
<1>7. k \in 1..Len(script) /\ k \in 0..Len(script) /\ k - 1 \in 0..Len(script) /\ k <= n
  BY <1>4, <1>6
<1> HIDE DEF L, F, w
<1>8. p[k] \in 0..L /\ p[k - 1] \in 0..L /\ p[n] \in 0..L /\ p[k] <= p[n]
  BY <1>3, <1>4, <1>7 DEF Strewn, L
<1>9. p[k] = p[k - 1] + 1 /\ script[k] = a[p[k]]
  <2>1. ~Stray(script[k])
    BY <1>5 DEF Stray, Ready
  <2> QED BY <1>3, <1>7, <2>1 DEF Strewn
<1>10. p[k] \in 1..L /\ p[n] \in 1..L
  BY <1>6, <1>8, <1>9
<1>11. Ready(w, a[p[k]])
  BY <1>5, <1>9
<1>12. Reached(n) = Run(w, Fresh, SubSeq(script, 1, n))
  <2>1. LinesTo(n) = SubSeq(script, 1, n)
    BY <1>2, <1>4, UntornLines
  <2> QED BY <2>1 DEF Reached, w
<1>13. Run(w, Fresh, SubSeq(script, 1, n)) = Run(w, Fresh, SubSeq(a, 1, p[n]))
  <2> DEFINE s == script
  <2>1. s \in Seq(F) /\ Strewn(a, s, p) /\ n \in 0..Len(s)
    BY <1>2, <1>3, <1>4
  <2> HIDE DEF s
  <2>2. Run(w, Fresh, SubSeq(s, 1, n)) = Run(w, Fresh, SubSeq(a, 1, p[n]))
    BY <1>6, <2>1, StraysPass
  <2> QED BY <2>2 DEF s
<1> QED BY <1>8, <1>10, <1>11, <1>12, <1>13 DEF n, L, w

LEMMA AnthropicWhole ==
    ASSUME StreamsInv, dialect \notin {"messages", "gemini"}, torn = {}, Whole
    PROVE  chat = FinalChat(answer)
<1> DEFINE m == answer
           a == AnthropicEvents(m)
           L == Len(a)
<1>1. IsAnswer(m)
  BY ScriptsEndure DEF StreamsInv, NativeInv
<1>2. /\ a \in Seq(Events(m)) /\ L \in Nat /\ L >= 3
      /\ \A k \in 1..L : a[k].type = "message_delta" => k = L - 1
      /\ Run("anthropic", Fresh, SubSeq(a, 1, L - 1)).c = FinalChat(m)
      /\ Run("anthropic", Fresh, a).c = FinalChat(m)
  BY <1>1, AnswerCrosses
<1>3. Way = "anthropic" /\ a = Clean(dialect, answer)
  BY DEF Way, Clean
<1>4. chat = Reached(at \div 2).c
  BY AnthropicWays
<1> HIDE DEF a
<1>5. a # <<>>
  BY <1>2
<1>6. PICK j \in 1..L, l \in 1..L : /\ j <= l /\ Ready("anthropic", a[j])
                                    /\ Reached(at \div 2) = Run("anthropic", Fresh, SubSeq(a, 1, l))
  <2> DEFINE E == Events(m)
  <2>1. a \in Seq(E)
    BY <1>2
  <2> HIDE DEF E
  <2> QED BY <1>3, <1>5, <2>1, WholeReached
<1>7. j = L - 1
  BY <1>2, <1>6 DEF Ready
<1>8. l = L - 1 \/ l = L
  BY <1>2, <1>6, <1>7
<1>9. SubSeq(a, 1, L) = a
  BY <1>2, SubSeqFull
<1> QED BY <1>2, <1>4, <1>6, <1>8, <1>9 DEF m

LEMMA GeminiWhole ==
    ASSUME StreamsInv, dialect = "gemini", torn = {}, Whole
    PROVE  Reached(at \div 2) = Framed(Merged(answer.first, answer.last),
                                       {GeminiFinish(answer.stop)}, answer.blocks[1].body)
<1> DEFINE m == answer
           a == GeminiFrames(m)
           L == Len(a)
<1>1. IsAnswer(m) /\ ForGemini(m)
  BY ScriptsEndure DEF StreamsInv, NativeInv, InStream
<1>2. Way = "gemini" /\ a = Clean(dialect, answer)
  BY DEF Way, Clean
<1>3. /\ a \in Seq(FrameLine(m)) /\ L \in Nat /\ L >= 1
      /\ \A k \in 1..L : FrameAt(a[k], m, k, L)
  <2>1. a = GeminiFrames(m) /\ L = Len(a)
    OBVIOUS
  <2> HIDE DEF a, L, m
  <2>2. a \in Seq(FrameLine(m)) /\ L \in Nat /\ L >= 1
    BY <1>1, <2>1, FramesAre
  <2>3. \A k \in 1..L : FrameAt(a[k], m, k, L)
    BY <1>1, <2>1, FramesAre
  <2> QED BY <2>2, <2>3
<1>4. Run("gemini", Fresh, a) = Framed(Merged(m.first, m.last), {GeminiFinish(m.stop)},
                                       m.blocks[1].body)
  <2>1. a = GeminiFrames(m)
    OBVIOUS
  <2> HIDE DEF a, m
  <2> QED BY <1>1, <2>1, GeminiCrosses
<1> HIDE DEF a
<1>5. a # <<>>
  BY <1>3
<1>6. PICK j \in 1..L, l \in 1..L : /\ j <= l /\ Ready("gemini", a[j])
                                    /\ Reached(at \div 2) = Run("gemini", Fresh, SubSeq(a, 1, l))
  <2> DEFINE E == FrameLine(m)
  <2>1. a \in Seq(E)
    BY <1>3
  <2> HIDE DEF E
  <2> QED BY <1>2, <1>5, <2>1, WholeReached
<1>7. j = L
  <2>1. a[j].finish # {} /\ FrameAt(a[j], m, j, L)
    BY <1>3, <1>6 DEF Ready
  <2> QED BY <2>1 DEF FrameAt
<1>8. l = L
  BY <1>3, <1>6, <1>7
<1>9. SubSeq(a, 1, L) = a
  BY <1>3, SubSeqFull
<1> QED BY <1>4, <1>6, <1>8, <1>9 DEF m
-----------------------------------------------------------------------------
(* It agrees with what a plain call gives.                                 *)

LEMMA GatheredGives ==
    ASSUME NEW x, NEW f, NEW g, NEW u
    PROVE  FinishChat(Gathered(x, f, {g}, {u}, Yes, No)) \subseteq {Completion(x, InOrder(f), g, u, 0)}
<1> DEFINE s == {g}
           v == {u}
           c == Gathered(x, f, s, v, Yes, No)
<1>2. s # {} /\ (CHOOSE h \in s : TRUE) = g
  OBVIOUS
<1> HIDE DEF s, v
<1>1. c.content = x /\ c.calls = f /\ c.finish = s /\ c.usage = v
  BY GatheredHolds
<1> HIDE DEF c
<1>3. FinishChat(c) \subseteq {Completion(x, InOrder(f), g, w, 0) : w \in v}
  BY <1>1, <1>2 DEF FinishChat
<1> QED BY <1>3 DEF c, s, v

LEMMA NumberedInOrder ==
    ASSUME NEW C, NEW cs \in Seq(C)
    PROVE  InOrder(Numbered(cs)) = cs
<1> DEFINE f == Numbered(cs)
           n == Len(cs)
<1>1. n \in Nat /\ 0 \in Int /\ DOMAIN f = 0..(0 + n - 1)
      /\ \A k \in 1..n : f[0 + k - 1] = cs[k]
  BY DEF Numbered
<1>2. cs = [k \in 1..n |-> cs[k]]
  OBVIOUS
<1> HIDE DEF f, n
<1>3. InOrder(f) = [k \in 1..n |-> f[0 + k - 1]]
  <2> DEFINE z == 0
  <2>1. z \in Int /\ n \in Nat /\ DOMAIN f = z..(z + n - 1) /\ z = 0
    BY <1>1
  <2> HIDE DEF z
  <2>2. InOrder(f) = From(f, z, n)
    BY <2>1, IntervalInOrder
  <2> QED BY <2>1, <2>2 DEF From
<1> QED BY <1>1, <1>2, <1>3 DEF f

\* Calls with an empty input spelled out.
Spelled(cs) == [i \in DOMAIN cs |-> [cs[i] EXCEPT !.args = Input(@)]]

CallGiven == [id : (SUBSET STRING) \ {{}}, args : Seq(Frags)]

CallParts(blocks) == [i \in DOMAIN blocks |-> CallsOf(blocks[i])]

LEMMA InputReads == ASSUME NEW s \in Seq(STRING) PROVE Input(s) \in Seq(Frags)
<1>1. "{}" \in Frags
  BY DEF Frags
<1>2. \A v \in Frags : <<v>> \in Seq(Frags)
  <2> HIDE DEF Frags
  <2> QED OBVIOUS
<1>3. s \in Seq(Frags)
  BY FragsHold
<1> QED BY <1>1, <1>2, <1>3 DEF Input

LEMMA OneSpelled ==
    ASSUME NEW b \in Block
    PROVE  Spelled(Raw(b)) = CallsOf(b) /\ CallsOf(b) \in Seq(CallGiven) /\ Raw(b) \in Seq(CallHeld)
<1>1. b.body \in Seq(STRING) /\ b.id \in STRING
  BY DEF Block
<1>2. CASE b.kind = "tool_use"
  <2> DEFINE h == [id |-> {b.id}, args |-> b.body]
             i == Input(b.body)
             g == [id |-> {b.id}, args |-> i]
  <2>1. h \in CallHeld
    BY <1>1 DEF CallHeld
  <2>2. g \in CallGiven
    <3>1. i \in Seq(Frags)
      BY <1>1, InputReads
    <3> HIDE DEF i
    <3> QED BY <1>1, <3>1 DEF CallGiven
  <2>3. [h EXCEPT !.args = Input(@)] = g
    OBVIOUS
  <2>4. Raw(b) = <<h>> /\ CallsOf(b) = <<g>>
    BY <1>2 DEF Raw, CallsOf
  <2> HIDE DEF h, g, i
  <2>5. Spelled(<<h>>) = <<g>>
    BY <2>3 DEF Spelled
  <2> QED BY <2>1, <2>2, <2>4, <2>5
<1>3. CASE b.kind # "tool_use"
  <2>1. Raw(b) = <<>> /\ CallsOf(b) = <<>>
    BY <1>3 DEF Raw, CallsOf
  <2>2. Spelled(<<>>) = <<>>
    BY DEF Spelled
  <2> QED BY <2>1, <2>2
<1> QED BY <1>2, <1>3

LEMMA SpelledJoins ==
    ASSUME NEW C, NEW s \in Seq(C), NEW t \in Seq(C)
    PROVE  Spelled(s \o t) = Spelled(s) \o Spelled(t)
<1> DEFINE h == s \o t
           P(c) == [c EXCEPT !.args = Input(@)]
           D == {P(c) : c \in C}
           x == [i \in DOMAIN s |-> P(s[i])]
           y == [i \in DOMAIN t |-> P(t[i])]
           z == x \o y
           n == Len(s)
           m == Len(t)
<1>1. /\ n \in Nat /\ m \in Nat /\ h \in Seq(C) /\ DOMAIN h = 1..(n + m)
      /\ \A i \in 1..n : h[i] = s[i]
      /\ \A i \in 1..m : h[n + i] = t[i]
  <2>1. Len(h) = n + m
    BY Laid
  <2>2. /\ n \in Nat /\ m \in Nat /\ h \in Seq(C)
        /\ \A i \in 1..n : h[i] = s[i]
        /\ \A i \in 1..m : h[n + i] = t[i]
    BY Laid
  <2> HIDE DEF h, n, m
  <2> QED BY <2>1, <2>2
<1>2. /\ DOMAIN s = 1..n /\ DOMAIN t = 1..m
      /\ (\A i \in 1..n : s[i] \in C) /\ (\A i \in 1..m : t[i] \in C)
  OBVIOUS
<1> HIDE DEF n, m, h
<1>3. /\ x \in Seq(D) /\ Len(x) = n /\ y \in Seq(D) /\ Len(y) = m
      /\ \A i \in 1..n : x[i] = P(s[i])
      /\ \A i \in 1..m : y[i] = P(t[i])
  <2> HIDE DEF P
  <2> QED BY <1>1, <1>2
<1> HIDE DEF x, y, D, P
<1>4. /\ z \in Seq(D) /\ Len(z) = Len(x) + Len(y)
      /\ \A i \in 1..Len(x) : z[i] = x[i]
      /\ \A i \in 1..Len(y) : z[Len(x) + i] = y[i]
  <2>1. x \in Seq(D) /\ y \in Seq(D)
    BY <1>3
  <2> QED BY <2>1, Laid
<1> HIDE DEF z
<1>5. /\ DOMAIN z = 1..(n + m) /\ z = [i \in 1..(n + m) |-> z[i]]
      /\ \A i \in 1..n : z[i] = P(s[i])
      /\ \A i \in 1..m : z[n + i] = P(t[i])
  BY <1>1, <1>3, <1>4
<1>6. ASSUME NEW i \in 1..(n + m) PROVE z[i] = P(h[i])
  <2>1. CASE i \in 1..n
    BY <1>1, <1>5, <2>1
  <2>2. CASE i \notin 1..n
    <3>1. i - n \in 1..m /\ n + (i - n) = i
      BY <1>1, <2>2
    <3> QED BY <1>1, <1>5, <3>1
  <2> QED BY <2>1, <2>2
<1>7. [i \in DOMAIN h |-> P(h[i])] = z
  BY <1>1, <1>5, <1>6
<1> QED BY <1>7 DEF Spelled, P, h, z, x, y

\* The calls that are gathered, spelled out, are those of the plain answer.
LEMMA CallsSpelled ==
    ASSUME NEW blocks \in Seq(Block)
    PROVE  /\ FlattenSeq(CallParts(blocks)) = Spelled(AllCalls(blocks))
           /\ FlattenSeq(CallParts(blocks)) \in Seq(CallGiven)
<1> DEFINE n == Len(blocks)
           p == CallParts(blocks)
           q == RawsOf(blocks)
<1>1. n \in Nat /\ DOMAIN blocks = 1..n /\ \A k \in 1..n : blocks[k] \in Block
  OBVIOUS
<1>2. /\ p \in Seq(Seq(CallGiven)) /\ Len(p) = n /\ q \in Seq(Seq(CallHeld)) /\ Len(q) = n
      /\ \A k \in 1..n : /\ q[k] \in Seq(CallHeld) /\ p[k] = Spelled(q[k])
  <2>1. \A k \in 1..n : /\ CallsOf(blocks[k]) \in Seq(CallGiven) /\ Raw(blocks[k]) \in Seq(CallHeld)
                        /\ CallsOf(blocks[k]) = Spelled(Raw(blocks[k]))
    BY <1>1, OneSpelled
  <2>2. p = [k \in 1..n |-> CallsOf(blocks[k])] /\ q = [k \in 1..n |-> Raw(blocks[k])]
    BY <1>1 DEF CallParts, RawsOf
  <2> HIDE DEF n, p, q
  <2>3. p \in Seq(Seq(CallGiven)) /\ Len(p) = n /\ q \in Seq(Seq(CallHeld)) /\ Len(q) = n
    BY <1>1, <2>1, <2>2
  <2> QED BY <2>1, <2>2, <2>3
<1> HIDE DEF n, p, q
<1>3. PICK gl \in [0..n -> Seq(CallGiven)] : LaidOut(p, n, gl) /\ FlattenSeq(p) = gl[n]
  BY <1>1, <1>2, FlattenLaysOut
<1>4. PICK fl \in [0..n -> Seq(CallHeld)] : LaidOut(q, n, fl) /\ FlattenSeq(q) = fl[n]
  BY <1>1, <1>2, FlattenLaysOut
<1> DEFINE S == {k \in Nat : k <= n => gl[k] = Spelled(fl[k])}
<1>5. 0 \in S
  <2>1. gl[0] = <<>> /\ fl[0] = <<>> /\ Spelled(<<>>) = <<>>
    BY <1>3, <1>4 DEF LaidOut, Spelled
  <2> QED BY <2>1
<1>6. ASSUME NEW k \in Nat, k \in S PROVE k + 1 \in S
  <2> SUFFICES ASSUME k + 1 <= n, gl[k] = Spelled(fl[k]) PROVE gl[k + 1] = Spelled(fl[k + 1])
    BY <1>1, <1>6
  <2>1. k + 1 \in 1..n /\ (k + 1) - 1 = k /\ k \in 0..n
    BY <1>1
  <2>2. gl[k + 1] = gl[k] \o p[k + 1] /\ fl[k + 1] = fl[k] \o q[k + 1]
    BY <1>3, <1>4, <2>1 DEF LaidOut
  <2>3. fl[k] \in Seq(CallHeld) /\ q[k + 1] \in Seq(CallHeld) /\ p[k + 1] = Spelled(q[k + 1])
    BY <1>2, <1>4, <2>1
  <2>4. Spelled(fl[k] \o q[k + 1]) = Spelled(fl[k]) \o Spelled(q[k + 1])
    BY <2>3, SpelledJoins
  <2> QED BY <2>2, <2>3, <2>4
<1>7. n \in S
  <2> HIDE DEF S
  <2> QED BY <1>1, <1>5, <1>6, FromTheLeast
<1>8. gl[n] = Spelled(fl[n]) /\ gl[n] \in Seq(CallGiven)
  BY <1>1, <1>3, <1>7
<1>9. FlattenSeq(p) = Spelled(FlattenSeq(q)) /\ FlattenSeq(p) \in Seq(CallGiven)
  BY <1>3, <1>4, <1>8
<1> QED BY <1>9 DEF AllCalls, p, q

LEMMA CompletionHolds ==
    ASSUME NEW x, NEW cs, NEW g, NEW u, NEW w, NEW e, e = Completion(x, cs, g, u, w)
    PROVE  /\ e.content = x /\ e.calls = cs /\ e.finish = g /\ e.prompt = u.prompt
           /\ e.completion = u.completion /\ e.cached = u.cached /\ e.written = w
           /\ e.reasoning = u.reasoning
           /\ [e EXCEPT !.written = 0] = Completion(x, cs, g, u, 0)
BY DEF Completion

\* The calls cs are those of the plain answer, ps, where these have an input.
CallsAgree(cs, ps) ==
    /\ DOMAIN cs = DOMAIN ps
    /\ \A i \in DOMAIN ps : /\ cs[i].id = ps[i].id
                            /\ ps[i].args # Input(<<>>) => cs[i].args = ps[i].args

LEMMA SpelledAgree ==
    ASSUME NEW cs \in Seq(CallHeld)
    PROVE  CallsAgree(cs, Spelled(cs))
<1> DEFINE ps == Spelled(cs)
<1>1. DOMAIN ps = DOMAIN cs /\ \A i \in DOMAIN cs : ps[i] = [cs[i] EXCEPT !.args = Input(@)]
  BY DEF Spelled
<1> HIDE DEF ps
<1>2. ASSUME NEW i \in DOMAIN cs
      PROVE  cs[i].id = ps[i].id /\ (ps[i].args # Input(<<>>) => cs[i].args = ps[i].args)
  <2>1. cs[i] \in CallHeld
    OBVIOUS
  <2>2. PICK h \in CallHeld : h = cs[i]
    BY <2>1
  <2> DEFINE g == [h EXCEPT !.args = Input(@)]
  <2>3. g.id = h.id /\ g.args = Input(h.args)
    BY DEF CallHeld
  <2>4. ps[i] = g
    BY <1>1, <2>2
  <2> HIDE DEF g
  <2>5. Input(h.args) # Input(<<>>) => Input(h.args) = h.args
    BY DEF Input
  <2> QED BY <2>2, <2>3, <2>4, <2>5
<1>3. CallsAgree(cs, ps)
  BY <1>1, <1>2 DEF CallsAgree
<1> QED BY <1>3 DEF ps

\* The entry e keeps what the plain answer p gives (StreamKeepsAnswer).
Agreement(e, p) ==
    /\ e.content = p.content
    /\ CallsAgree(e.calls, p.calls)
    /\ e.completion = p.completion /\ e.cached = p.cached
    /\ dialect # "gemini" => e.reasoning = p.reasoning
    /\ e.finish = "tool_calls" <=> p.finish = "tool_calls"

LEMMA AnthropicAgrees ==
    ASSUME dialect # "gemini", IsAnswer(answer), NEW e \in FinishChat(FinalChat(answer))
    PROVE  Agreement(e, PlainChat(answer))
<1> DEFINE m == answer
           u == Merged(m.first, m.last)
           cs == AllCalls(m.blocks)
           x == AllText(m.blocks)
           g == FinishOf(m.stop)
           v == CountsOf(u)
           p == PlainChat(m)
           pc == FlattenSeq(CallParts(m.blocks))
           pv == [prompt |-> Reported(u, "input"), completion |-> Reported(u, "output"),
                  cached |-> Reported(u, "read"),
                  reasoning |-> {u[f] : f \in {"thinking"} \cap DOMAIN u}]
<1>1. m.blocks \in Seq(Block) /\ (\A i \in DOMAIN m.blocks : Sound(m.blocks[i]))
      /\ m.stop # "tool_calls"
  BY AnswersAre DEF IsAnswer
<1>2. cs \in Seq(CallHeld)
  BY <1>1, BlocksCross
<1>3. e = Completion(x, InOrder(Numbered(cs)), g, v, 0)
  <2> DEFINE f == Numbered(cs)
  <2>1. FinalChat(m) = Gathered(x, f, {g}, {v}, Yes, No)
    BY DEF FinalChat, WholeChat
  <2> HIDE DEF x, f, g, v
  <2>2. FinishChat(Gathered(x, f, {g}, {v}, Yes, No)) \subseteq {Completion(x, InOrder(f), g, v, 0)}
    BY GatheredGives
  <2> QED BY <2>1, <2>2 DEF f
<1>4. InOrder(Numbered(cs)) = cs
  BY <1>2, NumberedInOrder
<1>5. p = Completion(x, pc, MapStop(m.stop), pv, Reported(u, "written"))
  BY DEF PlainChat, AllText, TextsOf, CallParts
<1>6. CallsAgree(cs, pc)
  <2>1. pc = Spelled(cs)
    BY <1>1, CallsSpelled
  <2> HIDE DEF cs, pc
  <2> QED BY <1>2, <2>1, SpelledAgree
<1>7. v.completion = pv.completion /\ v.cached = pv.cached /\ v.reasoning = pv.reasoning
  BY DEF CountsOf
<1>8. (g = "tool_calls") <=> (MapStop(m.stop) = "tool_calls")
  BY <1>1 DEF FinishOf, MapStop
<1> HIDE DEF x, cs, g, v, p, pc, pv, u
<1>9. e.content = x /\ e.calls = cs /\ e.finish = g
      /\ e.completion = v.completion /\ e.cached = v.cached /\ e.reasoning = v.reasoning
  BY <1>3, <1>4, CompletionHolds
<1>10. p.content = x /\ p.calls = pc /\ p.finish = MapStop(m.stop)
       /\ p.completion = pv.completion /\ p.cached = pv.cached /\ p.reasoning = pv.reasoning
  BY <1>5, CompletionHolds
<1>11. Agreement(e, p)
  BY <1>6, <1>7, <1>8, <1>9, <1>10 DEF Agreement
<1> QED BY <1>11 DEF p

\* The text and calls of an answer of one block of text.
LEMMA OneBlock ==
    ASSUME NEW m, IsAnswer(m), ForGemini(m)
    PROVE  /\ AllText(m.blocks) = m.blocks[1].body
           /\ FlattenSeq(CallParts(m.blocks)) = <<>>
<1> DEFINE b == m.blocks[1]
           q == TextsOf(m.blocks)
           p == CallParts(m.blocks)
<1>1. m.blocks \in Seq(Block) /\ Len(m.blocks) = 1 /\ b.kind = "text"
  BY AnswersAre DEF ForGemini
<1>2. DOMAIN m.blocks = 1..1 /\ b \in Block /\ b.body \in Seq(STRING)
  <2>1. DOMAIN m.blocks = 1..1 /\ b \in Block
    BY <1>1
  <2> QED BY <2>1 DEF Block
<1>3. TextOf(b) = b.body /\ CallsOf(b) = <<>>
  BY <1>1 DEF TextOf, CallsOf
<1>4. /\ q \in Seq(Seq(STRING)) /\ Len(q) = 1 /\ q[1] = b.body
      /\ p \in Seq(Seq(CallGiven)) /\ Len(p) = 1 /\ p[1] = <<>>
  <2>1. q = [i \in 1..1 |-> TextOf(m.blocks[i])] /\ p = [i \in 1..1 |-> CallsOf(m.blocks[i])]
    BY <1>2 DEF TextsOf, CallParts
  <2>2. \A i \in 1..1 : TextOf(m.blocks[i]) = b.body /\ CallsOf(m.blocks[i]) = <<>>
    BY <1>3
  <2>3. q = [i \in 1..1 |-> b.body] /\ p = [i \in 1..1 |-> <<>>]
    BY <2>1, <2>2
  <2>4. <<>> \in Seq(CallGiven) /\ b.body \in Seq(STRING)
    BY <1>2, EmptySeq
  <2>5. \A C : \A v \in Seq(C) : LET z == [i \in 1..1 |-> v]
                             IN z \in Seq(Seq(C)) /\ Len(z) = 1 /\ z[1] = v
    OBVIOUS
  <2> HIDE DEF q, p, b
  <2> QED BY <2>3, <2>4, <2>5
<1> HIDE DEF q, p
<1>5. PICK fl \in [0..1 -> Seq(STRING)] : LaidOut(q, 1, fl) /\ FlattenSeq(q) = fl[1]
  BY <1>4, FlattenLaysOut
<1>6. PICK gl \in [0..1 -> Seq(CallGiven)] : LaidOut(p, 1, gl) /\ FlattenSeq(p) = gl[1]
  BY <1>4, FlattenLaysOut
<1> HIDE DEF b
<1>7. fl[1] = <<>> \o b.body /\ gl[1] = <<>> \o <<>>
  <2>1. 1 \in 1..1 /\ 1 - 1 = 0
    OBVIOUS
  <2> QED BY <1>4, <1>5, <1>6, <2>1 DEF LaidOut
<1>8. <<>> \o b.body = b.body /\ <<>> \o <<>> = <<>>
  BY <1>2, ConcatEmptySeq
<1> QED BY <1>5, <1>6, <1>7, <1>8 DEF AllText, q, p, b

LEMMA FramedHolds ==
    ASSUME NEW u, NEW g, NEW x, NEW v, NEW h, NEW y, Framed(u, g, x) = Framed(v, h, y)
    PROVE  u = v /\ g = h /\ x = y
<1>1. \A a, b, c : Framed(a, b, c).t.usage = a /\ Framed(a, b, c).t.finish = b
                   /\ Framed(a, b, c).c = Gathering(c, Empty)
  BY DEF Framed, Pair
<1>2. ASSUME NEW c PROVE Gathering(c, Empty).content = c
  BY DEF Gathering, Gathered
<1> QED BY <1>1, <1>2

LEMMA GeminiAgrees ==
    ASSUME dialect = "gemini", IsAnswer(answer), ForGemini(answer),
           NEW e \in FinishChat(GeminiChat(Merged(answer.first, answer.last),
                                           {GeminiFinish(answer.stop)}, answer.blocks[1].body))
    PROVE  Agreement(e, PlainChat(answer))
<1> DEFINE m == answer
           u == Merged(m.first, m.last)
           x == m.blocks[1].body
           g == GeminiFinish(m.stop)
           v == GeminiCounts(u)
           p == PlainChat(m)
           pv == [prompt |-> Reported(u, "input"), completion |-> Reported(u, "output"),
                  cached |-> Reported(u, "read"),
                  reasoning |-> {u[f] : f \in {"thinking"} \cap DOMAIN u}]
<1>1. e = Completion(x, InOrder(Empty), g, v, 0)
  <2>1. e \in FinishChat(Gathered(x, Empty, {g}, {v}, Yes, No))
    BY DEF GeminiChat
  <2> HIDE DEF x, g, v
  <2> DEFINE f == Empty
  <2> HIDE DEF f
  <2>2. FinishChat(Gathered(x, f, {g}, {v}, Yes, No)) \subseteq {Completion(x, InOrder(f), g, v, 0)}
    BY GatheredGives
  <2> QED BY <2>1, <2>2 DEF f
<1>2. InOrder(Empty) = <<>>
  <2>1. Numbered(<<>>) = Empty
    BY DEF Numbered, Empty
  <2>2. <<>> \in Seq({})
    OBVIOUS
  <2> QED BY <2>1, <2>2, NumberedInOrder
<1>3. AllText(m.blocks) = x /\ FlattenSeq(CallParts(m.blocks)) = <<>>
  BY OneBlock
<1>4. p = Completion(AllText(m.blocks), FlattenSeq(CallParts(m.blocks)), MapStop(m.stop), pv,
                     Reported(u, "written"))
  BY DEF PlainChat, AllText, TextsOf, CallParts
<1>5. MapStop(m.stop) = g
  BY DEF MapStop
<1>6. v.completion = pv.completion /\ v.cached = pv.cached
  BY DEF GeminiCounts
<1>7. CallsAgree(<<>>, <<>>)
  BY DEF CallsAgree
<1> HIDE DEF x, g, v, p, pv, u
<1>8. e = Completion(x, <<>>, g, v, 0) /\ p = Completion(x, <<>>, g, pv, Reported(u, "written"))
  BY <1>1, <1>2, <1>3, <1>4, <1>5
<1>9. e.content = x /\ e.calls = <<>> /\ e.finish = g
      /\ e.completion = v.completion /\ e.cached = v.cached
  BY <1>8, CompletionHolds
<1>10. p.content = x /\ p.calls = <<>> /\ p.finish = g
       /\ p.completion = pv.completion /\ p.cached = pv.cached
  BY <1>8, CompletionHolds
<1>11. Agreement(e, p)
  BY <1>6, <1>7, <1>9, <1>10 DEF Agreement
<1> QED BY <1>11 DEF p

\* The invariant gives the property.
LEMMA StreamsInvKeeps == StreamsInv => StreamKeepsAnswer
<1> SUFFICES ASSUME StreamsInv, dialect # "messages"
             PROVE  /\ dialect # "gemini" /\ Results # {} => Whole
                    /\ Whole /\ torn = {} => \A e \in Results : Agreement(e, PlainChat(answer))
                    /\ Whole /\ (dialect = "gemini" => phase = "closed") => FinishChat(chat) # {}
  BY DEF StreamKeepsAnswer, Agreement, CallsAgree
<1>1. ASSUME Whole, torn = {}, NEW e \in Results PROVE Agreement(e, PlainChat(answer))
  <2>1. IsAnswer(answer) /\ (dialect = "gemini" => ForGemini(answer)) /\ e \in FinishChat(chat)
    BY ScriptsEndure DEF StreamsInv, NativeInv, InStream, ChatReads
  <2>2. CASE dialect # "gemini"
    <3>1. chat = FinalChat(answer)
      BY <1>1, <2>2, AnthropicWhole
    <3> QED BY <2>1, <2>2, <3>1, AnthropicAgrees
  <2>3. CASE dialect = "gemini"
    <3> DEFINE b == Reached(at \div 2)
               v == Merged(answer.first, answer.last)
               h == {GeminiFinish(answer.stop)}
               y == answer.blocks[1].body
    <3>1. b = Framed(v, h, y)
      BY <1>1, <2>3, GeminiWhole
    <3>2. PICK u, g : \E x \in Seq(Frags) :
             /\ b = Framed(u, g, x)
             /\ chat = IF phase = "closed" THEN GeminiChat(u, g, x) ELSE Gathering(x, Empty)
      BY <1>1, <2>3, GeminiWays
    <3>3. PICK x \in Seq(Frags) :
             /\ b = Framed(u, g, x)
             /\ chat = IF phase = "closed" THEN GeminiChat(u, g, x) ELSE Gathering(x, Empty)
      BY <3>2
    <3> HIDE DEF b, v, h, y
    <3>4. u = v /\ g = h /\ x = y
      <4>1. Framed(u, g, x) = Framed(v, h, y)
        BY <3>1, <3>3
      <4> QED BY <4>1, FramedHolds
    <3>5. FinishChat(Gathering(x, Empty)) = {}
      <4>1. Gathering(x, Empty).done = No
        BY GatheredHolds DEF Gathering
      <4> QED BY <4>1 DEF FinishChat, No
    <3>6. chat = GeminiChat(v, h, y)
      BY <2>1, <3>3, <3>4, <3>5
    <3> QED BY <2>1, <2>3, <3>6, GeminiAgrees DEF v, h, y
  <2> QED BY <2>2, <2>3
<1> QED BY <1>1, WholeIsGiven

\* Of a translated stream that came whole, untorn, the chat endpoints store the text,
\* the calls, the output and cached tokens of the plain call for the same answer and
\* whether it called tools, and what is stored of an Anthropic stream came whole: for
\* any answers, pieces, disturbances and ends.  Of prompt tokens, other finish
\* reasons and cache writes it says nothing (StreamKeepsAnswer).
THEOREM TranslatedStreamsKeepAnswers == StreamsSpec => []StreamKeepsAnswer
BY StreamsInvHolds, StreamsInvKeeps, PTL
-----------------------------------------------------------------------------
(* What is played back.                                                    *)

\* The native replay of the plain message.
LEMMA MessageReplays ==
    ASSUME NEW m, IsAnswer(m), NEW e, e = PlainMessage(m), Unbroken(e.blocks)
    PROVE  FinishMessage(FoldLeft(FeedLine, NativeNew, ReplayMessage(e)), FALSE) = {e}
<1> DEFINE u == Merged(m.first, m.last)
           v == With(u, "output", 0)
           ds == [i \in DOMAIN m.blocks |-> ReplayDeltas(i, m.blocks[i])]
           es == MessageEvents(m.blocks, ds, v, m.stop, u)
           c == FoldLeft(FeedLine, NativeNew, es)
<1>1. m.blocks \in Seq(Block) /\ (\A i \in DOMAIN m.blocks : Sound(m.blocks[i]))
      /\ m.stop \in STRING /\ m.stop # "none"
  BY AnswersAre DEF IsAnswer
<1>3. e.blocks = m.blocks /\ e.usage = u /\ e.stop = m.stop
  BY DEF PlainMessage
<1>4. ReplayMessage(e) = es
  BY <1>3 DEF ReplayMessage
<1>5. Merged(v, u) = u
  <2>1. "output" \in DOMAIN u
    BY DEF IsAnswer, Merged
  <2>2. u = [f \in DOMAIN u |-> u[f]]
    BY DEF Merged
  <2> HIDE DEF u
  <2>3. DOMAIN v \cup DOMAIN u = DOMAIN u
    BY <2>1 DEF With
  <2>4. Merged(v, u) = [f \in DOMAIN u |-> u[f]]
    BY <2>3 DEF Merged
  <2> QED BY <2>2, <2>4
<1>6. \A i \in DOMAIN m.blocks : Sent(i, m.blocks[i], ds[i])
  BY DEF Sent
<1> HIDE DEF u, v, ds
<1>7. /\ es \in Seq(Event({v, u}))
      /\ Run("line", NativeNew, es) = Ended(Merged(v, u), m.stop, HeldAll(m.blocks, Len(m.blocks)))
  BY <1>1, <1>6, MessageIsRead
<1> HIDE DEF es
<1>8. c = Run("line", NativeNew, es)
  <2>1. Len(es) \in Nat /\ DOMAIN es = 1..Len(es)
    BY <1>7
  <2> QED BY <2>1, FoldsAreRuns
<1> HIDE DEF c
<1>9. c = Ended(u, m.stop, HeldAll(m.blocks, Len(m.blocks)))
  BY <1>5, <1>7, <1>8
<1>10. c = Final(m)
  BY <1>9 DEF Final, u
<1>11. Intact(m)
  BY <1>3 DEF Intact, Unbroken
<1> QED BY <1>4, <1>10, <1>11, FinalFinishes DEF c

\* Calls that are mentioned one after the other, whole, are there under their numbers.
Mentioned(cs) == [i \in DOMAIN cs |-> Call(i - 1, cs[i].id, cs[i].args)]

LEMMA CallsReplay ==
    ASSUME NEW C, NEW cs \in Seq(C), \A i \in DOMAIN cs : IsCall(cs[i])
    PROVE  FoldLeft(Called, Empty, Mentioned(cs)) = Numbered(cs)
<1> DEFINE n == Len(cs)
           s == Mentioned(cs)
           tr == [k \in 0..n |-> [q \in 0..(k - 1) |-> cs[q + 1]]]
<1>1. /\ n \in Nat /\ DOMAIN cs = 1..n /\ DOMAIN s = 1..n
      /\ \A i \in 1..n : IsCall(cs[i]) /\ s[i] = Call(i - 1, cs[i].id, cs[i].args)
  BY DEF Mentioned
<1> HIDE DEF n, s
<1>2. tr[0] = Empty
  BY <1>1 DEF Empty
<1>3. tr[n] = Numbered(cs)
  BY <1>1 DEF Numbered, n
<1>4. ASSUME NEW k \in 1..n PROVE tr[k] = Step("call", tr[k - 1], s[k])
  <2> DEFINE f == tr[k - 1]
             id == cs[k].id
             args == cs[k].args
             h == [id |-> id, args |-> args]
  <2>1. /\ f = [q \in 0..(k - 2) |-> cs[q + 1]] /\ tr[k] = [q \in 0..(k - 1) |-> cs[q + 1]]
        /\ k - 1 \in Nat
    BY <1>1
  <2>2. /\ id # {} /\ args \in Seq(Frags) /\ cs[k] = h /\ s[k] = Call(k - 1, id, args)
    BY <1>1 DEF IsCall
  <2> HIDE DEF id, args, tr
  <2>3. (IF id = {} THEN {} ELSE id) = id /\ <<>> \o args = args
    BY <2>2, ConcatEmptySeq
  <2>4. /\ Call(k - 1, id, args).index = k - 1 /\ Call(k - 1, id, args).id = id
        /\ Call(k - 1, id, args).args = args
    BY DEF Call
  <2>5. k - 1 \notin DOMAIN f
    BY <2>1
  <2> HIDE DEF f
  <2>6. Called(f, s[k]) = With(f, k - 1, h)
    <3>1. Called(f, s[k]) = With(f, k - 1, [id |-> IF id = {} THEN {} ELSE id, args |-> <<>> \o args])
      BY <2>2, <2>4, <2>5 DEF Called
    <3> QED BY <2>3, <3>1
  <2> HIDE DEF h
  <2>7. With(f, k - 1, h) = tr[k]
    <3>1. DOMAIN f \cup {k - 1} = 0..(k - 1)
      BY <2>1
    <3>2. \A q \in 0..(k - 1) : (IF q = k - 1 THEN h ELSE f[q]) = cs[q + 1]
      BY <2>1, <2>2
    <3> QED BY <2>1, <3>1, <3>2 DEF With
  <2> QED BY <2>6, <2>7 DEF Step, f
<1> HIDE DEF tr
<1>5. Trace("call", Empty, s, n, tr)
  BY <1>2, <1>4 DEF Trace
<1>6. Run("call", Empty, s) = tr[n] /\ FoldLeft(Called, Empty, s) = Run("call", Empty, s)
  <2>1. n \in Nat /\ DOMAIN s = 1..n
    BY <1>1
  <2>2. Run("call", Empty, s) = tr[n]
    BY <1>5, <2>1, RunEnds
  <2>3. FoldLeft(Called, Empty, s) = Run("call", Empty, s)
    BY <2>1, FoldsAreRuns
  <2> QED BY <2>2, <2>3
<1> QED BY <1>3, <1>6 DEF s

\* A caller who assembles the replay of e has e.
Replays(e) ==
    FinishChat(FoldLeft(FeedChunk, ChatNew, ReplayChat(e))) = {[e EXCEPT !.written = 0]}

\* The capture as it reads a replay: the answer, the finish, the counts, the end.
LEMMA ReplayIsRead ==
    ASSUME NEW S, NEW x \in Seq(S), NEW ms, NEW f, FoldLeft(Called, Empty, ms) = f,
           NEW g, NEW u, g # {}, u # {}
    PROVE  FoldLeft(FeedChunk, ChatNew, <<Chunk(x, ms, {}, {}), Chunk(<<>>, <<>>, g, {}),
                                          Chunk(<<>>, <<>>, {}, u), DoneLine>>)
               = Gathered(x, f, g, u, Yes, No)
<1> DEFINE l1 == Chunk(x, ms, {}, {})
           l2 == Chunk(<<>>, <<>>, g, {})
           l3 == Chunk(<<>>, <<>>, {}, u)
           c0 == Gathering(<<>>, Empty)
           c1 == Gathering(x, f)
           c2 == Gathered(x, f, g, {}, No, No)
           c3 == Gathered(x, f, g, u, No, No)
           c4 == Gathered(x, f, g, u, Yes, No)
           s == <<l1, l2, l3, DoneLine>>
           tr == [k \in 0..4 |-> CASE k = 0 -> c0 [] k = 1 -> c1 [] k = 2 -> c2
                                   [] k = 3 -> c3 [] k = 4 -> c4]
<1>1. c0 = ChatNew
  BY FreshIsFramed DEF Fresh, Framed, Pair
<1>2. /\ Latest({}, {}) = {} /\ Latest(g, {}) = g /\ Latest({}, g) = g /\ Latest(u, {}) = u
      /\ x \o <<>> = x /\ <<>> \o x = x
  BY ConcatEmptySeq DEF Latest
<1>3. FeedChunk(c0, l1) = c1
  <2>1. FeedChunk(c0, l1) = Gathered(<<>> \o x, FoldLeft(Called, Empty, ms), Latest({}, {}),
                                     Latest({}, {}), No, No)
    BY GatheringFed
  <2> QED BY <1>2, <2>1 DEF Gathering
<1>4. FeedChunk(c1, l2) = c2
  <2>1. FeedChunk(c1, l2) = Gathered(x \o <<>>, FoldLeft(Called, f, <<>>), Latest(g, {}),
                                     Latest({}, {}), No, No)
    BY GatheringFed
  <2> HIDE DEF c1, l2
  <2> QED BY <1>2, <2>1, NoneCalled
<1>5. FeedChunk(c2, l3) = c3
  <2>1. /\ c2.content = x /\ c2.calls = f /\ c2.finish = g /\ c2.usage = {}
        /\ c2.done = No /\ c2.unusable = No /\ IsChat(c2)
    BY GatheredHolds, GatheredAre
  <2> HIDE DEF c2
  <2>2. ~c2.done /\ ~c2.unusable
    BY <2>1 DEF No
  <2>3. FeedChunk(c2, l3) = Gathered(c2.content \o <<>>, FoldLeft(Called, c2.calls, <<>>),
                                     Latest({}, c2.finish), Latest(u, c2.usage), c2.done,
                                     c2.unusable)
    BY <2>1, <2>2, ChunkFed
  <2> HIDE DEF l3
  <2> QED BY <1>2, <2>1, <2>3, NoneCalled
<1>6. FeedChunk(c3, DoneLine) = c4
  <2>1. /\ c3.content = x /\ c3.calls = f /\ c3.finish = g /\ c3.usage = u
        /\ c3.done = No /\ c3.unusable = No /\ IsChat(c3)
    BY GatheredHolds, GatheredAre
  <2> HIDE DEF c3
  <2>2. ~c3.done /\ ~c3.unusable
    BY <2>1 DEF No
  <2>3. FeedChunk(c3, DoneLine) = Gathered(c3.content, c3.calls, c3.finish, c3.usage, Yes, c3.unusable)
    BY <2>1, <2>2, EndFed
  <2> QED BY <2>1, <2>3
<1> HIDE DEF l1, l2, l3, c0, c1, c2, c3, c4
<1>7. /\ DOMAIN s = 1..4 /\ 4 \in Nat
      /\ s[1] = l1 /\ s[2] = l2 /\ s[3] = l3 /\ s[4] = DoneLine
  <2> DEFINE l4 == DoneLine
  <2> HIDE DEF l4
  <2>1. DOMAIN <<l1, l2, l3, l4>> = 1..4
    OBVIOUS
  <2> QED BY <2>1 DEF l4
<1> HIDE DEF s
<1>8. tr[0] = c0 /\ tr[1] = c1 /\ tr[2] = c2 /\ tr[3] = c3 /\ tr[4] = c4
  OBVIOUS
<1> HIDE DEF tr
<1>9. Trace("chunk", c0, s, 4, tr)
  <2>1. \A k \in 1..4 : k = 1 \/ k = 2 \/ k = 3 \/ k = 4
    OBVIOUS
  <2>2. \A k \in 1..4 : tr[k] = FeedChunk(tr[k - 1], s[k])
    BY <1>3, <1>4, <1>5, <1>6, <1>7, <1>8, <2>1
  <2> QED BY <1>8, <2>2 DEF Trace, Step
<1>10. FoldLeft(FeedChunk, c0, s) = c4
  <2>1. Run("chunk", c0, s) = tr[4]
    BY <1>7, <1>9, RunEnds
  <2>2. FoldLeft(FeedChunk, c0, s) = Run("chunk", c0, s)
    BY <1>7, FoldsAreRuns
  <2> QED BY <1>8, <2>1, <2>2
<1> QED BY <1>1, <1>10 DEF s, l1, l2, l3, c4

LEMMA ChatReplays ==
    ASSUME NEW x \in Seq(Frags), NEW C, NEW cs \in Seq(C), \A i \in DOMAIN cs : IsCall(cs[i]),
           NEW g, NEW u, NEW w
    PROVE  Replays(Completion(x, cs, g, u, w))
<1> DEFINE e == Completion(x, cs, g, u, w)
           ms == Mentioned(cs)
           f == Numbered(cs)
           v == [prompt |-> e.prompt, completion |-> e.completion, cached |-> e.cached,
                 reasoning |-> e.reasoning]
           gs == {g}
           vs == {v}
           c == Gathered(x, f, gs, vs, Yes, No)
           d == Completion(x, cs, g, v, 0)
<1>1. /\ e.content = x /\ e.calls = cs /\ e.finish = g
      /\ v.prompt = u.prompt /\ v.completion = u.completion /\ v.cached = u.cached
      /\ v.reasoning = u.reasoning
      /\ [e EXCEPT !.written = 0] = Completion(x, cs, g, u, 0)
  BY DEF Completion
<1>2. d = [e EXCEPT !.written = 0]
  <2>1. d = Completion(x, cs, g, u, 0)
    <3> HIDE DEF v, e
    <3> QED BY <1>1 DEF Completion
  <2> HIDE DEF d, e, v
  <2> QED BY <1>1, <2>1
<1>3. ReplayChat(e) = <<Chunk(x, ms, {}, {}), Chunk(<<>>, <<>>, gs, {}),
                        Chunk(<<>>, <<>>, {}, vs), DoneLine>>
  <2> HIDE DEF e
  <2> QED BY <1>1 DEF ReplayChat, Mentioned
<1>4. FoldLeft(Called, Empty, ms) = f
  BY CallsReplay
<1>5. gs # {} /\ vs # {}
  OBVIOUS
<1> HIDE DEF e, ms, v
<1>6. FinishChat(c) \subseteq {Completion(x, InOrder(f), g, v, 0)}
  <2> HIDE DEF f, v
  <2> QED BY GatheredGives
<1>7. InOrder(f) = cs
  BY NumberedInOrder
<1>8. DOMAIN f = 0..(Len(cs) - 1) /\ \A i \in 0..(Len(cs) - 1) : f[i] = cs[i + 1]
  BY DEF Numbered
<1> HIDE DEF f, gs, vs
<1>9. FoldLeft(FeedChunk, ChatNew, ReplayChat(e)) = c
  <2>1. FoldLeft(FeedChunk, ChatNew, <<Chunk(x, ms, {}, {}), Chunk(<<>>, <<>>, gs, {}),
                                       Chunk(<<>>, <<>>, {}, vs), DoneLine>>) = c
    BY <1>4, <1>5, ReplayIsRead
  <2> QED BY <1>3, <2>1
<1>10. FinishChat(c) # {}
  <2>1. /\ c.content = x /\ c.calls = f /\ c.usage = vs
        /\ c.done = Yes /\ c.unusable = No
    BY GatheredHolds
  <2> HIDE DEF c
  <2>2. Listed(c.calls, Len(cs))
    <3>1. \A i \in 0..(Len(cs) - 1) : i + 1 \in DOMAIN cs
      OBVIOUS
    <3> QED BY <1>8, <2>1, <3>1 DEF Listed
  <2>3. Given(c)
    <3>1. Len(cs) \in Nat
      OBVIOUS
    <3> QED BY <1>5, <2>1, <2>2, <3>1 DEF Given, Yes, No
  <2> QED BY <2>3, GivenFinishes
<1> HIDE DEF c
<1>11. FinishChat(c) = {d}
  BY <1>6, <1>7, <1>10
<1> HIDE DEF d
<1>12. Replays(e)
  BY <1>2, <1>9, <1>11 DEF Replays
<1> QED BY <1>12 DEF e

\* What a capture with numbered calls gives can be played back.
LEMMA GivenReplays ==
    ASSUME NEW c, c.content \in Seq(Frags), NEW k, Listed(c.calls, k), NEW e \in FinishChat(c)
    PROVE  Replays(e)
<1> DEFINE f == c.calls
           cs == [i \in 1..k |-> f[0 + i - 1]]
           C == {f[i] : i \in 0..(k - 1)}
<1>1. k \in Nat /\ 0 \in Int /\ DOMAIN f = 0..(0 + k - 1) /\ \A i \in 0..(k - 1) : IsCall(f[i])
  BY DEF Listed
<1>2. PICK g, u : e = Completion(c.content, InOrder(f), g, u, 0)
  BY DEF FinishChat
<1>3. InOrder(f) = cs
  <2> HIDE DEF f
  <2>1. InOrder(f) = From(f, 0, k)
    BY <1>1, IntervalInOrder
  <2> QED BY <2>1 DEF From
<1>4. cs \in Seq(C) /\ \A i \in DOMAIN cs : IsCall(cs[i])
  <2>1. \A i \in 1..k : 0 + i - 1 \in 0..(k - 1)
    BY <1>1
  <2>2. \A i \in 1..k : f[0 + i - 1] \in C /\ IsCall(f[0 + i - 1])
    BY <1>1, <2>1
  <2> HIDE DEF f, C
  <2> QED BY <1>1, <2>2
<1> HIDE DEF cs, C, f
<1>5. Replays(Completion(c.content, cs, g, u, 0))
  BY <1>4, ChatReplays
<1> QED BY <1>2, <1>3, <1>5

\* What the capture may give has numbered calls, be the answer whole or not.
LEMMA ChatIsSane ==
    ASSUME StreamsInv, dialect # "messages", FinishChat(chat) # {}
    PROVE  chat.content \in Seq(Frags) /\ \E k : Listed(chat.calls, k)
<1>1. CASE dialect # "gemini"
  <2>1. IF Whole THEN Given(chat) ELSE FinishChat(chat) = {}
    BY <1>1, AnthropicWays
  <2> QED BY <2>1 DEF Given
<1>2. CASE dialect = "gemini"
  <2> DEFINE n == at \div 2
             b == Reached(n)
             s == LinesTo(n)
  <2>0. n \in Nat /\ n = at \div 2
    BY WhatCame
  <2>1. Way = "gemini"
    BY <1>2 DEF Way
  <2>2. DOMAIN s = 1..n /\ \A k \in 1..n : s[k] = Read(k) /\ ReadAs(k)
    <3> HIDE DEF n
    <3> QED BY <1>2, <2>0, WhatCame
  <2>3. b = Run("gemini", Fresh, s)
    BY <2>1 DEF Reached
  <2>4. IF phase = "closed"
        THEN \E report \in {<<>>, <<ErrorLine>>} :
                 chat = FoldLeft(FeedChunk, b.c, report \o FinalChunk(b.t))
        ELSE chat = b.c
    BY <1>2 DEF StreamsInv, ChatReads, ClosedFrom
  <2> HIDE DEF b, s, n
  <2>5. \A k \in 1..n : Readable(s[k]) /\ (s[k].type = "frame" \/ s[k].type \in Other)
    BY <2>1, <2>2 DEF ReadAs, Comes
  <2>6. PICK u, g : \E x \in Seq(Frags) : b = Framed(u, g, x)
    BY <2>0, <2>2, <2>3, <2>5, GeminiRuns
  <2>7. PICK x \in Seq(Frags) : b = Framed(u, g, x)
    BY <2>6
  <2> DEFINE c == Gathering(x, Empty)
  <2>8. b.c = c
    BY <2>7 DEF Framed, Pair
  <2>9. c.done = No /\ c.unusable = No /\ c.content = x /\ c.calls = Empty /\ IsChat(c)
    BY GatheredHolds, GatheredAre DEF Gathering
  <2> HIDE DEF c
  <2>10. phase = "closed"
    BY <2>4, <2>8, <2>9 DEF FinishChat, No
  <2>11. PICK report \in {<<>>, <<ErrorLine>>} :
            chat = FoldLeft(FeedChunk, c, report \o FinalChunk(b.t))
    BY <2>4, <2>8, <2>10
  <2>12. PICK h, v : FinalChunk(b.t) = <<Chunk(<<>>, <<>>, h, v), DoneLine>>
    BY DEF FinalChunk
  <2> DEFINE l == Chunk(<<>>, <<>>, h, v)
             final == <<l, DoneLine>>
             A == {l, DoneLine, ErrorLine}
  <2>13. /\ final \in Seq(A) /\ <<ErrorLine>> \in Seq(A) /\ <<>> \o final = final
         /\ Len(final) \in Nat /\ DOMAIN final = 1..Len(final)
    <3>1. l \in A /\ DoneLine \in A /\ ErrorLine \in A
      OBVIOUS
    <3>2. \A p \in A : \A q \in A : <<p>> \in Seq(A) /\ <<p, q>> \in Seq(A)
      <4> HIDE DEF A
      <4> QED OBVIOUS
    <3> HIDE DEF A, l
    <3>3. final \in Seq(A) /\ <<ErrorLine>> \in Seq(A)
      BY <3>1, <3>2
    <3> HIDE DEF final
    <3> QED BY <3>3, ConcatEmptySeq
  <2>14. CASE report = <<>>
    <3>1. chat = FoldLeft(FeedChunk, c, final)
      BY <2>11, <2>12, <2>13, <2>14
    <3>2. chat = Gathered(x, Empty, h, v, Yes, No)
      BY <3>1, LastLines DEF c
    <3>3. chat.content = x /\ chat.calls = Empty
      BY <3>2, GatheredHolds
    <3>4. Listed(chat.calls, 0)
      BY <3>3 DEF Listed, Empty
    <3>5. x \in Seq(Frags)
      BY <2>7
    <3> QED BY <3>3, <3>4, <3>5
  <2>15. CASE report = <<ErrorLine>>
    <3> DEFINE p == <<ErrorLine>>
               e == ErrorLine
               d == FeedChunk(c, e)
               q == p \o final
    <3>1. d.unusable
      <4>1. ~c.done /\ ~c.unusable
        BY <2>9 DEF No
      <4>2. d = Gathered(c.content, c.calls, c.finish, c.usage, c.done, Yes)
        BY <2>9, <4>1, EndFed
      <4> HIDE DEF d
      <4>3. d.unusable = Yes
        BY <4>2, GatheredHolds
      <4> QED BY <4>3 DEF Yes
    <3>2. Run("chunk", c, p) = d
      <4> HIDE DEF e
      <4>1. Run("chunk", c, <<e>>) = d
        BY RunOfOne DEF Step
      <4> QED BY <4>1 DEF e
    <3> HIDE DEF final, A, p, d
    <3>3. Run("chunk", d, final) = d
      BY <2>13, <3>1, FrozenFed
    <3>4. p \in Seq(A) /\ final \in Seq(A)
      BY <2>13 DEF p
    <3>5. q \in Seq(A) /\ Run("chunk", c, q) = d
      BY <3>2, <3>3, <3>4, RunJoined
    <3> HIDE DEF q
    <3>6. FoldLeft(FeedChunk, c, q) = d
      <4>1. Len(q) \in Nat /\ DOMAIN q = 1..Len(q)
        BY <3>5
      <4> QED BY <3>5, <4>1, FoldsAreRuns
    <3>7. chat = d
      BY <2>11, <2>12, <2>15, <3>6 DEF q, p, final
    <3> QED BY <3>1, <3>7 DEF FinishChat
  <2> QED BY <2>14, <2>15
<1> QED BY <1>1, <1>2

\* A plain answer can be played back.
LEMMA PlainReplays ==
    ASSUME IsAnswer(answer)
    PROVE  Replays(PlainChat(answer))
<1> DEFINE m == answer
           u == Merged(m.first, m.last)
           x == AllText(m.blocks)
           cs == FlattenSeq(CallParts(m.blocks))
           g == MapStop(m.stop)
           v == [prompt |-> Reported(u, "input"), completion |-> Reported(u, "output"),
                 cached |-> Reported(u, "read"),
                 reasoning |-> {u[f] : f \in {"thinking"} \cap DOMAIN u}]
           w == Reported(u, "written")
<1>1. m.blocks \in Seq(Block) /\ (\A i \in DOMAIN m.blocks : Sound(m.blocks[i]))
  BY AnswersAre
<1>2. x \in Seq(STRING)
  BY <1>1, BlocksCross
<1>3. cs \in Seq(CallGiven)
  BY <1>1, CallsSpelled
<1>4. PlainChat(m) = Completion(x, cs, g, v, w)
  BY DEF PlainChat, AllText, TextsOf, CallParts
<1> HIDE DEF x, cs, g, v, w
<1>5. \A h \in CallGiven : IsCall(h)
  BY DEF CallGiven, IsCall
<1>6. \A i \in DOMAIN cs : IsCall(cs[i])
  <2> HIDE DEF m
  <2> QED BY <1>3, <1>5
<1>7. x \in Seq(Frags)
  BY <1>2, FragsHold
<1>8. Replays(Completion(x, cs, g, v, w))
  BY <1>3, <1>6, <1>7, ChatReplays
<1> QED BY <1>4, <1>8 DEF m

LEMMA StreamsInvReplays == StreamsInv => ReplayRebuilds
<1> SUFFICES ASSUME StreamsInv PROVE ReplayRebuilds
  OBVIOUS
<1>1. CASE dialect = "messages"
  <2> SUFFICES ASSUME NEW e \in store \cup {PlainMessage(answer)}, Intact(e)
               PROVE  FinishMessage(FoldLeft(FeedLine, NativeNew, ReplayMessage(e)), FALSE) = {e}
    BY <1>1 DEF ReplayRebuilds
  <2>1. e = PlainMessage(answer) /\ IsAnswer(answer)
    BY <1>1, NativeScript DEF StreamsInv, NativeInv, NativeReads, Results
  <2>2. Unbroken(e.blocks)
    BY DEF Intact, Unbroken
  <2> QED BY <2>1, <2>2, MessageReplays
<1>2. CASE dialect # "messages"
  <2>1. IsAnswer(answer)
    BY <1>2, ScriptsEndure DEF StreamsInv, NativeInv
  <2>2. ASSUME NEW e \in store PROVE Replays(e)
    <3>1. e \in FinishChat(chat)
      BY <1>2, <2>2 DEF StreamsInv, ChatReads, Results
    <3>2. chat.content \in Seq(Frags) /\ \E k : Listed(chat.calls, k)
      BY <1>2, <3>1, ChatIsSane
    <3> QED BY <3>1, <3>2, GivenReplays
  <2>3. \A e \in store \cup {PlainChat(answer)} : Replays(e)
    BY <2>1, <2>2, PlainReplays
  <2> QED BY <1>2, <2>3 DEF ReplayRebuilds, Replays
<1> QED BY <1>1, <1>2

\* What is stored, of a stream or of a plain call, is played back as it was: a caller
\* who assembles the replay has the entry again, on every way.
THEOREM ReplaysAreExact == StreamsSpec => []ReplayRebuilds
BY StreamsInvHolds, StreamsInvReplays, PTL
=============================================================================
