--------------------------- MODULE MeteringProofs ---------------------------
(***************************************************************************)
(* Proofs about Metering: its types, that a call is charged once and told  *)
(* what it is charged, that prompts and events leave only with consent,    *)
(* and that the cache holds whole answers.                                 *)
(***************************************************************************)
EXTENDS Metering, FiniteSetTheorems, SequenceTheorems, TLAPS

-----------------------------------------------------------------------------
(* Lemmas about the operators the model is built from.                     *)

\* Removing an element leaves the others, one fewer.
LEMMA RemoveAtKeeps ==
    ASSUME NEW S, NEW s \in Seq(S), NEW i \in 1..Len(s)
    PROVE  /\ RemoveAt(s, i) \in Seq(S)
           /\ Len(RemoveAt(s, i)) = Len(s) - 1
           /\ \A j \in 1..Len(RemoveAt(s, i)) :
                 \E k \in 1..Len(s) : RemoveAt(s, i)[j] = s[k]
<1>0. Len(s) \in Nat /\ i \in Nat /\ i >= 1 /\ i <= Len(s)
  OBVIOUS
<1>1. PICK a \in Seq(S) : /\ a = SubSeq(s, 1, i - 1) /\ Len(a) = i - 1
                          /\ \A j \in 1..(i - 1) : a[j] = s[j]
  <2> DEFINE x == SubSeq(s, 1, i - 1)
  <2>1. x \in Seq(S) /\ Len(x) = i - 1 /\ \A j \in 1..(i - 1) : x[j] = s[j]
    OBVIOUS
  <2> QED  BY <2>1
<1>2. PICK b \in Seq(S) : /\ b = SubSeq(s, i + 1, Len(s)) /\ Len(b) = Len(s) - i
                          /\ \A j \in 1..(Len(s) - i) : b[j] = s[i + j]
  <2> DEFINE x == SubSeq(s, i + 1, Len(s))
  <2>1. x \in Seq(S) /\ Len(x) = Len(s) - i /\ \A j \in 1..(Len(s) - i) : x[j] = s[i + j]
    OBVIOUS
  <2> QED  BY <2>1
<1>3. RemoveAt(s, i) = a \o b
  BY <1>1, <1>2 DEF RemoveAt
<1>4. PICK r \in Seq(S) :
         /\ r = a \o b /\ Len(r) = Len(a) + Len(b)
         /\ \A j \in 1..(Len(a) + Len(b)) :
               r[j] = IF j <= Len(a) THEN a[j] ELSE b[j - Len(a)]
  <2>1. /\ a \o b \in Seq(S) /\ Len(a \o b) = Len(a) + Len(b)
        /\ \A j \in 1..(Len(a) + Len(b)) :
              (a \o b)[j] = IF j <= Len(a) THEN a[j] ELSE b[j - Len(a)]
    BY ConcatProperties
  <2> QED  BY ONLY <2>1
<1> DEFINE n == Len(s)
<1>a. Len(a) = i - 1 /\ Len(b) = n - i /\ n \in Nat /\ i \in Nat /\ i >= 1 /\ i <= n
  BY <1>0, <1>1, <1>2
<1>b. Len(r) = Len(a) + Len(b)
  BY <1>4
<1> HIDE DEF n
<1>5. Len(a) + Len(b) = n - 1 /\ Len(r) = n - 1
  BY ONLY <1>a, <1>b
<1> USE DEF n
<1>6. ASSUME NEW j \in 1..(Len(s) - 1)
      PROVE  \E k \in 1..Len(s) : r[j] = s[k]
  <2>0. j \in Nat /\ j >= 1 /\ j <= Len(s) - 1 /\ j \in 1..(Len(a) + Len(b))
    BY <1>0, <1>5
  <2>1. CASE j <= i - 1
    BY <1>0, <1>1, <1>4, <2>0, <2>1
  <2>2. CASE ~(j <= i - 1)
    <3>1. /\ j - (i - 1) \in 1..(Len(s) - i)
          /\ i + (j - (i - 1)) = j + 1 /\ j + 1 \in 1..Len(s)
      BY <1>0, <2>0, <2>2
    <3>2. r[j] = b[j - (i - 1)]
      BY <1>1, <1>4, <2>0, <2>2
    <3> QED  BY <1>2, <3>1, <3>2
  <2> QED  BY <2>1, <2>2
<1> QED  BY <1>3, <1>4, <1>5, <1>6

\* Appending leaves the others, one more.
LEMMA AppendKeeps ==
    ASSUME NEW S, NEW s \in Seq(S), NEW e \in S
    PROVE  /\ Append(s, e) \in Seq(S)
           /\ Len(Append(s, e)) = Len(s) + 1
           /\ \A j \in 1..(Len(s) + 1) :
                 Append(s, e)[j] = IF j <= Len(s) THEN s[j] ELSE e
  OBVIOUS

\* A set of lines of a script is finite, so it has a size.
LEMMA LinesCount ==
    ASSUME NEW n \in Nat, NEW S \in SUBSET (1..n)
    PROVE  Cardinality(S) \in Nat
<1>1. IsFiniteSet(1..n)
  BY FS_Interval
<1>2. IsFiniteSet(S)
  BY <1>1, FS_Subset
<1> QED  BY <1>2, FS_CardinalityType

AtMostOne(S) == Cardinality(S) <= 1

LEMMA OneEntry ==
    AtMostOne({}) /\ \A e, S : S = {e} => AtMostOne(S)
<1>1. Cardinality({}) = 0
  BY FS_EmptySet
<1>2. ASSUME NEW e PROVE Cardinality({e}) = 1
  BY FS_Singleton
<1>3. AtMostOne({})
  BY <1>1 DEF AtMostOne
<1>4. ASSUME NEW e, NEW S, S = {e} PROVE AtMostOne(S)
  <2>1. Cardinality(S) = 1
    BY <1>2, <1>4
  <2> QED  BY <2>1 DEF AtMostOne
<1> QED  BY <1>3, <1>4

-----------------------------------------------------------------------------
(* What is true of a call, of its tasks and of its log, at every moment.    *)

\* A charge the stream's logger has still to spawn.
Pending(q) == IF q.pc = "streaming" /\ ~q.stream.recorded THEN 1 ELSE 0
Due(q, ts, l) == Len(l.ledger) + l.lost + Len(ts) + Pending(q)

\* A call is due nothing until it answers, and one charge once it is owed:
\* in between, a plain chat has spawned its task before its store is awaited,
\* and a message has not.
Counted(q, ts, l) ==
    /\ Due(q, ts, l) <= 1
    /\ q.pc \in {"new", "asking", "guarding"} => Due(q, ts, l) = 0
    /\ q.pc = "storing" => Due(q, ts, l) = (IF q.ask.kind = "plain" THEN 1 ELSE 0)
    /\ q.pc = "streaming" \/ q.told # {} \/ q.stream # NoStream => Due(q, ts, l) = 1

\* Before its answer a call has no stream and has told nothing; a stream tells
\* its cost only as it is recorded.
Placed(q) ==
    /\ q.pc \in {"new", "asking", "guarding", "storing"} => q.stream = NoStream /\ q.told = {}
    /\ q.pc = "guarding" => q.ask.kind = "plain"
    /\ q.pc = "storing" => q.ask.kind \in {"plain", "messages"}
    /\ q.pc = "streaming" => q.ask.kind = "stream" /\ (q.told # {} => q.stream.recorded)

\* Every row and task of the call carries this charge.
Carries(ts, l, x) ==
    /\ \A i \in 1..Len(l.ledger) : l.ledger[i].charge = x
    /\ \A i \in 1..Len(ts) : ts[i].charge = x

\* What a plain chat will tell when its store is done is already spawned.
Truthful(q, ts, l) ==
    /\ \A x \in q.told : Carries(ts, l, x)
    /\ q.pc = "storing" /\ q.ask.kind = "plain" => Carries(ts, l, Flat("reported"))

Consented(q, l) ==
    /\ q.pc = "new" => l.prompts = <<>> /\ l.egress = <<>>
    /\ q.ask.kind \in Chats =>
         /\ l.prompts # <<>> => ~q.ask.noLog /\ (q.began.prompts \/ q.ask.retain)
         /\ l.egress # <<>> => ~q.ask.noLog /\ q.began.prompts

Sound(q, ts, l) ==
    Counted(q, ts, l) /\ Placed(q) /\ Truthful(q, ts, l) /\ Consented(q, l)

CallsSound == \A c \in Calls : Sound(call[c], tasks[c], log[c])

MeterInv == TypeOK /\ CallsSound

\* c moves on, its types kept, and stays sound.
Moves(c) ==
    \E q \in Call, ts \in Seq(Task), l \in Log :
        /\ call' = [call EXCEPT ![c] = q]
        /\ tasks' = [tasks EXCEPT ![c] = ts]
        /\ log' = [log EXCEPT ![c] = l]
        /\ Sound(q, ts, l)

Fresh(stage, charge) == [stage |-> stage, charge |-> charge, linked |-> FALSE]

LEMMA SoundCalls ==
    ASSUME MeterInv, NEW c \in Calls
    PROVE  /\ call[c] \in Call /\ tasks[c] \in Seq(Task) /\ log[c] \in Log
           /\ Sound(call[c], tasks[c], log[c])
  BY DEF MeterInv, TypeOK, CallsSound

\* A call that stands still moves: actions that leave a variable alone.
LEMMA Standing ==
    ASSUME MeterInv, NEW c \in Calls
    PROVE  /\ call = [call EXCEPT ![c] = call[c]]
           /\ tasks = [tasks EXCEPT ![c] = tasks[c]]
           /\ log = [log EXCEPT ![c] = log[c]]
  BY DEF MeterInv, TypeOK

LEMMA DueIsNat ==
    ASSUME NEW q \in Call, NEW ts \in Seq(Task), NEW l \in Log
    PROVE  /\ Len(l.ledger) \in Nat /\ l.lost \in Nat /\ Len(ts) \in Nat
           /\ Pending(q) \in 0..1
           /\ Due(q, ts, l) \in Nat
<1>1. Len(l.ledger) \in Nat /\ l.lost \in Nat /\ Len(ts) \in Nat
  BY DEF Log
<1>2. Pending(q) \in 0..1
  BY DEF Pending
<1> QED  BY <1>1, <1>2 DEF Due

\* Nothing due: nothing on the ledger, in a task or with a logger.
LEMMA NothingDue ==
    ASSUME NEW q \in Call, NEW ts \in Seq(Task), NEW l \in Log, Due(q, ts, l) = 0
    PROVE  Len(l.ledger) = 0 /\ l.lost = 0 /\ Len(ts) = 0 /\ Pending(q) = 0
  BY DueIsNat DEF Due

\* The logger holds the one charge: there is no other.
LEMMA LoggerHoldsIt ==
    ASSUME NEW q \in Call, NEW ts \in Seq(Task), NEW l \in Log,
           Due(q, ts, l) <= 1, Pending(q) = 1
    PROVE  Len(l.ledger) = 0 /\ l.lost = 0 /\ Len(ts) = 0 /\ Due(q, ts, l) = 1
  BY DueIsNat DEF Due
\* All a handler or a logger changes of its call once it has begun.
Turned(q, p, s, t) == [q EXCEPT !.pc = p, !.stream = s, !.told = t]
Places == {"new", "asking", "streaming", "guarding", "storing", "closed"}

LEMMA TurnedFields ==
    ASSUME NEW q \in Call, NEW p \in Places, NEW s \in Stream, NEW t \in SUBSET Charge
    PROVE  /\ Turned(q, p, s, t) \in Call
           /\ Turned(q, p, s, t).pc = p /\ Turned(q, p, s, t).ask = q.ask
           /\ Turned(q, p, s, t).began = q.began
           /\ Turned(q, p, s, t).stream = s /\ Turned(q, p, s, t).told = t
  BY DEF Turned, Call, Places

LEMMA CallFields ==
    ASSUME NEW q \in Call
    PROVE  /\ q.pc \in Places /\ q.ask \in Ask /\ q.began \in Storage
           /\ q.stream \in Stream /\ q.told \in SUBSET Charge
           /\ q.ask.kind \in Kinds
  BY DEF Call, Places, Ask

LEMMA FreshFields ==
    ASSUME NEW stage \in {"failure", "prompt", "cost"}, NEW x \in Charge
    PROVE  Fresh(stage, x) \in Task /\ Fresh(stage, x).charge = x
  BY DEF Fresh, Task

\* A charge is spawned where none was: the call is then due that one, and may
\* tell no other.
LEMMA SpawnIsSound ==
    ASSUME NEW q \in Call, NEW ts \in Seq(Task), NEW l \in Log, Sound(q, ts, l),
           NEW p \in {"closed", "streaming", "storing"}, NEW s \in Stream,
           NEW t \in SUBSET Charge, NEW stage \in {"failure", "prompt", "cost"},
           NEW x \in Charge,
           Len(l.ledger) = 0 /\ l.lost = 0 /\ Len(ts) = 0,
           t \subseteq {x},
           p = "streaming" => q.ask.kind = "stream" /\ s.recorded,
           p = "storing" => /\ q.ask.kind = "plain" /\ x = Flat("reported")
                            /\ s = NoStream /\ t = {},
           q.pc # "new"
    PROVE  Sound(Turned(q, p, s, t), Append(ts, Fresh(stage, x)), l)
<1> DEFINE h == Turned(q, p, s, t)
           u == Append(ts, Fresh(stage, x))
<1>0. p \in Places
  BY DEF Places
<1>1. /\ h \in Call /\ h.pc = p /\ h.ask = q.ask /\ h.began = q.began
      /\ h.stream = s /\ h.told = t
  BY <1>0, TurnedFields
<1>2. u \in Seq(Task) /\ Len(u) = 1 /\ u[1].charge = x
  <2>1. Fresh(stage, x) \in Task /\ Fresh(stage, x).charge = x
    BY FreshFields
  <2> QED  BY <2>1, AppendKeeps
<1> HIDE DEF h, u
<1>3. Pending(h) = 0
  BY <1>1 DEF Pending
<1>4. Due(h, u, l) = 1
  BY <1>2, <1>3 DEF Due
<1>5. Counted(h, u, l)
  BY <1>1, <1>4 DEF Counted
<1>6. Placed(h)
  BY <1>1 DEF Placed
<1>7. Carries(u, l, x)
  BY <1>2 DEF Carries
<1>8. Truthful(h, u, l)
  BY <1>1, <1>7 DEF Truthful
<1>9. Consented(h, l)
  BY <1>1 DEF Sound, Consented
<1>10. Sound(h, u, l)
  BY <1>5, <1>6, <1>8, <1>9 DEF Sound
<1> QED  BY <1>10 DEF h, u

\* A call turns, spawning nothing: what it is due stays.
LEMMA TurnIsSound ==
    ASSUME NEW q \in Call, NEW ts \in Seq(Task), NEW l \in Log, Sound(q, ts, l),
           NEW p \in Places, NEW s \in Stream, NEW t \in SUBSET Charge,
           p # "new" /\ q.pc # "new",
           Placed(Turned(q, p, s, t)),
           Due(Turned(q, p, s, t), ts, l) <= 1,
           p \in {"asking", "guarding"} => Due(Turned(q, p, s, t), ts, l) = 0,
           p = "storing" => q.ask.kind = "messages" /\ Due(Turned(q, p, s, t), ts, l) = 0,
           p = "streaming" \/ t # {} \/ s # NoStream => Due(Turned(q, p, s, t), ts, l) = 1,
           \A x \in t : Carries(ts, l, x)
    PROVE  Sound(Turned(q, p, s, t), ts, l)
<1> DEFINE h == Turned(q, p, s, t)
<1>1. /\ h \in Call /\ h.pc = p /\ h.ask = q.ask /\ h.began = q.began
      /\ h.stream = s /\ h.told = t
  BY TurnedFields
<1>2. Counted(h, ts, l)
  BY <1>1 DEF Counted
<1>3. Truthful(h, ts, l)
  BY <1>1 DEF Truthful
<1>4. Consented(h, l)
  BY <1>1 DEF Sound, Consented
<1> QED  BY <1>2, <1>3, <1>4 DEF Sound
\* A task moves on: the charge changes its place and not itself, and what the
\* task shows or sends is with consent.
LEMMA TaskIsSound ==
    ASSUME NEW q \in Call, NEW ts \in Seq(Task), NEW l \in Log, Sound(q, ts, l),
           NEW us \in Seq(Task), NEW m \in Log, Len(ts) > 0,
           Len(m.ledger) + m.lost + Len(us) = Len(l.ledger) + l.lost + Len(ts),
           \A x \in Charge : Carries(ts, l, x) => Carries(us, m, x),
           q.ask.kind \in Chats =>
             /\ m.prompts = l.prompts \/ (~q.ask.noLog /\ (q.began.prompts \/ q.ask.retain))
             /\ m.egress = l.egress \/ (~q.ask.noLog /\ q.began.prompts)
    PROVE  Sound(q, us, m)
<1>1. Due(q, us, m) = Due(q, ts, l)
  BY DueIsNat DEF Due
<1>2. q.pc # "new"
  BY DueIsNat, NothingDue DEF Sound, Counted
<1>3. Counted(q, us, m)
  BY <1>1 DEF Sound, Counted
<1>4. Truthful(q, us, m)
  <2>1. q.told \in SUBSET Charge /\ Flat("reported") \in Charge
    BY CallFields DEF Flat, Charge
  <2> QED  BY <2>1 DEF Sound, Truthful
<1>5. Consented(q, m)
  BY <1>2 DEF Sound, Consented
<1> QED  BY <1>3, <1>4, <1>5 DEF Sound

LEMMA LogFields ==
    ASSUME NEW l \in Log, NEW ledger \in Seq([charge : Charge, linked : BOOLEAN]),
           NEW prompts \in Seq(Shown), NEW egress \in Seq(Shown),
           NEW failures \in Nat, NEW lost \in Nat
    PROVE  LET m == [l EXCEPT !.ledger = ledger, !.prompts = prompts, !.egress = egress,
                              !.failures = failures, !.lost = lost]
           IN  /\ m \in Log /\ m.ledger = ledger /\ m.prompts = prompts
               /\ m.egress = egress /\ m.failures = failures /\ m.lost = lost
  BY DEF Log

\* A stage changed in place.
Staged(ts, i, stage, linked) == [ts EXCEPT ![i] = [ts[i] EXCEPT !.stage = stage, !.linked = linked]]

LEMMA StagedTask ==
    ASSUME NEW ts \in Seq(Task), NEW l \in Log, NEW i \in 1..Len(ts),
           NEW stage \in {"failure", "prompt", "cost"}, NEW linked \in BOOLEAN
    PROVE  LET us == Staged(ts, i, stage, linked)
           IN  /\ us \in Seq(Task) /\ Len(us) = Len(ts)
               /\ \A m \in Log, x \in Charge :
                    m.ledger = l.ledger => (Carries(ts, l, x) => Carries(us, m, x))
<1> DEFINE y == [ts[i] EXCEPT !.stage = stage, !.linked = linked]
           us == [ts EXCEPT ![i] = y]
<1>1. ts[i] \in Task
  OBVIOUS
<1>2. y \in Task /\ y.charge = ts[i].charge
  BY <1>1 DEF Task
<1> HIDE DEF y
<1>3. us \in Seq(Task) /\ Len(us) = Len(ts)
      /\ \A j \in 1..Len(ts) : us[j] = IF j = i THEN y ELSE ts[j]
  BY <1>2
<1> HIDE DEF us
<1>4. ASSUME NEW m \in Log, NEW x \in Charge, m.ledger = l.ledger, Carries(ts, l, x)
      PROVE  Carries(us, m, x)
  BY <1>2, <1>3, <1>4 DEF Carries
<1>5. us \in Seq(Task) /\ Len(us) = Len(ts)
      /\ \A m \in Log, x \in Charge :
            m.ledger = l.ledger => (Carries(ts, l, x) => Carries(us, m, x))
  BY <1>3, <1>4
<1> QED  BY <1>5 DEF us, y, Staged
Row == [charge : Charge, linked : BOOLEAN]

LEMMA OneMoves ==
    \A a, b, n \in Nat : (a + 1) + b + (n - 1) = a + b + n /\ a + (b + 1) + (n - 1) = a + b + n
  OBVIOUS

\* A task that ended, its charge on the ledger or lost.
Entered(l, t, ok) ==
    IF ok THEN Append(l.ledger, [charge |-> t.charge, linked |-> t.linked]) ELSE l.ledger
Forgone(l, ok) == IF ok THEN l.lost ELSE l.lost + 1

LEMMA EndedTask ==
    ASSUME NEW ts \in Seq(Task), NEW l \in Log, NEW i \in 1..Len(ts), NEW ok \in BOOLEAN
    PROVE  LET us == RemoveAt(ts, i)
               ledger == Entered(l, ts[i], ok)
               lost == Forgone(l, ok)
           IN  /\ us \in Seq(Task) /\ ledger \in Seq(Row) /\ lost \in Nat
               /\ Len(ledger) + lost + Len(us) = Len(l.ledger) + l.lost + Len(ts)
               /\ \A m \in Log, x \in Charge :
                    m.ledger = ledger => (Carries(ts, l, x) => Carries(us, m, x))
<1> DEFINE row == [charge |-> ts[i].charge, linked |-> ts[i].linked]
           lost == IF ok THEN l.lost ELSE l.lost + 1
<1>1. ts[i] \in Task
  OBVIOUS
<1>2. row \in Row /\ row.charge = ts[i].charge
  BY <1>1 DEF Task, Row
<1> HIDE DEF row
<1>3. l.ledger \in Seq(Row) /\ l.lost \in Nat
  BY DEF Log, Row
<1>4. PICK us \in Seq(Task) :
         /\ us = RemoveAt(ts, i) /\ Len(us) = Len(ts) - 1
         /\ \A j \in 1..Len(us) : \E k \in 1..Len(ts) : us[j] = ts[k]
  BY ONLY i \in 1..Len(ts), ts \in Seq(Task), RemoveAtKeeps
<1>5. PICK ledger \in Seq(Row) :
         /\ ledger = (IF ok THEN Append(l.ledger, row) ELSE l.ledger)
         /\ Len(ledger) = (IF ok THEN Len(l.ledger) + 1 ELSE Len(l.ledger))
         /\ \A j \in 1..Len(ledger) :
               ledger[j] = row \/ (j \in 1..Len(l.ledger) /\ ledger[j] = l.ledger[j])
  <2>1. CASE ok
    <3>1. /\ Append(l.ledger, row) \in Seq(Row)
          /\ Len(Append(l.ledger, row)) = Len(l.ledger) + 1
          /\ \A j \in 1..(Len(l.ledger) + 1) :
                Append(l.ledger, row)[j] = IF j <= Len(l.ledger) THEN l.ledger[j] ELSE row
      BY <1>2, <1>3, AppendKeeps
    <3>2. Len(l.ledger) \in Nat
      BY <1>3
    <3> DEFINE a == Append(l.ledger, row)
    <3>3. /\ a \in Seq(Row) /\ Len(a) = Len(l.ledger) + 1
          /\ \A j \in 1..Len(a) :
                a[j] = row \/ (j \in 1..Len(l.ledger) /\ a[j] = l.ledger[j])
      BY <3>1, <3>2
    <3> QED  BY ONLY <2>1, <3>3
  <2>2. CASE ~ok
    BY <2>2, <1>3
  <2> QED  BY <2>1, <2>2
<1>6. Len(ledger) + lost + Len(us) = Len(l.ledger) + l.lost + Len(ts)
  <2>1. Len(ts) \in Nat /\ Len(l.ledger) \in Nat
    BY <1>3
  <2>2. Len(us) = Len(ts) - 1
    BY <1>4
  <2>3. Len(ledger) = (IF ok THEN Len(l.ledger) + 1 ELSE Len(l.ledger))
    BY <1>5
  <2>4. l.lost \in Nat
    BY <1>3
  <2>5. CASE ok
    <3>1. lost = l.lost /\ Len(ledger) = Len(l.ledger) + 1
      BY <2>3, <2>5
    <3>2. (Len(l.ledger) + 1) + l.lost + (Len(ts) - 1) = Len(l.ledger) + l.lost + Len(ts)
      BY <2>1, <2>4, OneMoves
    <3> QED  BY ONLY <2>2, <3>1, <3>2
  <2>6. CASE ~ok
    <3>1. lost = l.lost + 1 /\ Len(ledger) = Len(l.ledger)
      BY <2>3, <2>6
    <3> QED  BY ONLY <2>1, <2>2, <2>4, <3>1, OneMoves
  <2> QED  BY <2>5, <2>6
<1>7. ASSUME NEW m \in Log, NEW x \in Charge, m.ledger = ledger, Carries(ts, l, x)
      PROVE  Carries(us, m, x)
  BY <1>2, <1>4, <1>5, <1>7 DEF Carries
<1>8. lost \in Nat
  BY <1>3
<1> QED  BY <1>4, <1>5, <1>6, <1>7, <1>8 DEF row, Entered, Forgone
-----------------------------------------------------------------------------
(* Handlers.                                                               *)

LEMMA ChargesAreTyped ==
    /\ \A basis \in {"reported", "estimated", "guessed", "saved"} : Flat(basis) \in Charge
    /\ \A s \in Stream : Settlement(s) \in Charge
    /\ NoStream \in Stream
<1>1. \A basis \in {"reported", "estimated", "guessed", "saved"} : Flat(basis) \in Charge
  BY DEF Flat, Charge
<1>2. ASSUME NEW s \in Stream PROVE Settlement(s) \in Charge
  BY <1>1 DEF Settlement, Stream, Charge
<1>3. NoStream \in Stream
  BY DEF NoStream, Stream
<1> QED  BY <1>1, <1>2, <1>3

LEMMA BeginMoves ==
    ASSUME MeterInv, NEW c \in Calls, NEW a \in Ask, Begin(c, a)
    PROVE  Moves(c)
<1>1. /\ call[c] \in Call /\ tasks[c] \in Seq(Task) /\ log[c] \in Log
      /\ storage \in Storage /\ Sound(call[c], tasks[c], log[c])
  BY SoundCalls, MeteringAssumption DEF MeterInv, TypeOK
<1>2. PICK q \in Call :
         /\ call' = [call EXCEPT ![c] = q]
         /\ q.pc = "asking" /\ q.stream = NoStream /\ q.told = {}
  <2> DEFINE h == [pc |-> "asking", ask |-> a, began |-> storage,
                   stream |-> NoStream, told |-> {}]
  <2>1. h \in Call /\ h.pc = "asking" /\ h.stream = NoStream /\ h.told = {}
    BY <1>1, ChargesAreTyped DEF Call
  <2>2. call' = [call EXCEPT ![c] = h]
    BY DEF Begin
  <2> QED  BY <2>1, <2>2
<1>3. tasks' = [tasks EXCEPT ![c] = tasks[c]] /\ log' = [log EXCEPT ![c] = log[c]]
  BY Standing DEF Begin
<1>4. call[c].pc = "new"
  BY DEF Begin
<1>5. Sound(q, tasks[c], log[c])
  <2>1. Due(call[c], tasks[c], log[c]) = 0
    BY <1>1, <1>4 DEF Sound, Counted
  <2>2. Pending(call[c]) = 0 /\ Pending(q) = 0
    BY <1>2, <1>4 DEF Pending
  <2>3. Due(q, tasks[c], log[c]) = 0
    BY <2>1, <2>2 DEF Due
  <2>4. Counted(q, tasks[c], log[c])
    BY <1>2, <2>3 DEF Counted
  <2>5. Placed(q) /\ Truthful(q, tasks[c], log[c])
    BY <1>2 DEF Placed, Truthful
  <2>6. Consented(q, log[c])
    BY <1>1, <1>2, <1>4 DEF Sound, Consented
  <2> QED  BY <2>4, <2>5, <2>6 DEF Sound
<1> QED  BY <1>1, <1>2, <1>3, <1>5 DEF Moves

\* The handlers that spawn their logging as they answer.
LEMMA TellMoves ==
    ASSUME MeterInv, NEW c \in Calls, NEW p \in {"closed", "storing"},
           NEW t \in SUBSET Charge, NEW x \in Charge,
           call' = [call EXCEPT ![c] = Turned(call[c], p, call[c].stream, t)],
           Spawn(c, "prompt", x), UNCHANGED log,
           call[c].pc \in {"asking", "guarding"}
             \/ (call[c].pc = "storing" /\ call[c].ask.kind = "messages"),
           t \subseteq {x},
           p = "storing" => call[c].ask.kind = "plain" /\ x = Flat("reported") /\ t = {}
    PROVE  Moves(c)
<1>1. /\ call[c] \in Call /\ tasks[c] \in Seq(Task) /\ log[c] \in Log
      /\ Sound(call[c], tasks[c], log[c])
  BY SoundCalls
<1>2. call[c].stream \in Stream /\ p \in Places
  BY <1>1, CallFields DEF Places
<1>3. Turned(call[c], p, call[c].stream, t) \in Call
  BY <1>1, <1>2, TurnedFields
<1>4. Append(tasks[c], Fresh("prompt", x)) \in Seq(Task)
  BY <1>1, FreshFields, AppendKeeps
<1>5. tasks' = [tasks EXCEPT ![c] = Append(tasks[c], Fresh("prompt", x))]
  BY DEF Spawn, Fresh
<1>6. log' = [log EXCEPT ![c] = log[c]]
  BY Standing
<1>7. Sound(Turned(call[c], p, call[c].stream, t),
            Append(tasks[c], Fresh("prompt", x)), log[c])
  <2>1. Due(call[c], tasks[c], log[c]) = 0
    BY <1>1 DEF Sound, Counted
  <2>2. Len(log[c].ledger) = 0 /\ log[c].lost = 0 /\ Len(tasks[c]) = 0
    BY <1>1, <2>1, NothingDue
  <2>3. call[c].stream = NoStream
    BY <1>1 DEF Sound, Placed
  <2> QED  BY <1>1, <1>2, <2>2, <2>3, SpawnIsSound
<1> QED  BY <1>1, <1>3, <1>4, <1>5, <1>6, <1>7 DEF Moves
\* The updates the actions write, as one form.
LEMMA TurnedCalls ==
    ASSUME MeterInv, NEW c \in Calls, NEW p \in Places,
           call' = [call EXCEPT ![c].pc = p]
    PROVE  call' = [call EXCEPT ![c] = Turned(call[c], p, call[c].stream, call[c].told)]
<1>1. call[c] \in Call /\ call \in [Calls -> Call]
  BY DEF MeterInv, TypeOK
<1>2. [call[c] EXCEPT !.pc = p] = Turned(call[c], p, call[c].stream, call[c].told)
  BY <1>1 DEF Turned, Call
<1> QED  BY <1>1, <1>2

LEMMA ToldCalls ==
    ASSUME MeterInv, NEW c \in Calls, NEW x \in Charge, Tell(c, x)
    PROVE  \E t \in SUBSET Charge :
              /\ t = {x}
              /\ call' = [call EXCEPT ![c] = Turned(call[c], "closed", call[c].stream, t)]
<1>1. PICK t \in SUBSET Charge : t = {x}
  OBVIOUS
<1>2. call' = [call EXCEPT ![c].pc = "closed", ![c].told = t]
  BY <1>1 DEF Tell
<1>3. Turned(call[c], "closed", call[c].stream, t) = [call[c] EXCEPT !.pc = "closed", !.told = t]
  BY SoundCalls DEF Turned, Call
<1>4. call' = [call EXCEPT ![c] = Turned(call[c], "closed", call[c].stream, t)]
  BY <1>2, <1>3 DEF MeterInv, TypeOK
<1> QED  BY <1>1, <1>4

\* A handler that spawns its logging and closes.
LEMMA AnswerMoves ==
    ASSUME MeterInv, NEW c \in Calls, NEW x \in Charge,
           Spawn(c, "prompt", x), UNCHANGED log, Tell(c, x) \/ Close(c),
           call[c].pc \in {"asking", "guarding"}
             \/ (call[c].pc = "storing" /\ call[c].ask.kind = "messages")
    PROVE  Moves(c)
<1>1. "closed" \in Places
  BY DEF Places
<1>2. CASE Tell(c, x)
  <2>1. PICK t \in SUBSET Charge :
           /\ t = {x}
           /\ call' = [call EXCEPT ![c] = Turned(call[c], "closed", call[c].stream, t)]
    BY <1>2, ToldCalls
  <2> QED  BY <2>1, TellMoves
<1>3. CASE Close(c)
  <2>1. PICK t \in SUBSET Charge : t = {} /\ t = call[c].told
    <3>1. call[c].told = {}
      BY SoundCalls DEF Sound, Placed
    <3> QED  BY <3>1
  <2>2. call' = [call EXCEPT ![c].pc = "closed"]
    BY <1>3 DEF Close
  <2>3. call' = [call EXCEPT ![c] = Turned(call[c], "closed", call[c].stream, t)]
    BY <1>1, <2>1, <2>2, TurnedCalls, Zenon
  <2> QED  BY <2>1, <2>3, TellMoves
<1> QED  BY <1>2, <1>3

LEMMA SpawningAnswersMove ==
    ASSUME MeterInv, NEW c \in Calls,
           \/ CacheHit(c) \/ MessagesStreamOpens(c)
           \/ ResponsesAnswers(c) \/ EmbeddingsAnswers(c) \/ ImagesAnswers(c)
           \/ SpeechAnswers(c) \/ TranscriptionAnswers(c) \/ SearchAnswers(c)
    PROVE  Moves(c)
<1> USE ChargesAreTyped, AnswerMoves
<1>1. ASSUME NEW kind, AnswersAtOnce(c, kind) PROVE Moves(c)
  BY <1>1 DEF AnswersAtOnce
<1>2. CASE CacheHit(c)
  BY <1>2 DEF CacheHit
<1>3. CASE MessagesStreamOpens(c)
  BY <1>3 DEF MessagesStreamOpens
<1> QED
  BY <1>1, <1>2, <1>3 DEF ResponsesAnswers, EmbeddingsAnswers, ImagesAnswers,
        SpeechAnswers, TranscriptionAnswers, SearchAnswers

\* A call turns and spawns nothing.
LEMMA TurnMoves ==
    ASSUME MeterInv, NEW c \in Calls, NEW p \in Places, NEW s \in Stream,
           NEW t \in SUBSET Charge,
           call' = [call EXCEPT ![c] = Turned(call[c], p, s, t)],
           UNCHANGED <<tasks, log>>,
           Sound(Turned(call[c], p, s, t), tasks[c], log[c])
    PROVE  Moves(c)
<1>1. Turned(call[c], p, s, t) \in Call
  BY SoundCalls, TurnedFields
<1> QED  BY <1>1, SoundCalls, Standing DEF Moves

\* A call goes where its handler is due what it was: on to its guardrails or
\* its store, or closed.
LEMMA HandlerTurns ==
    ASSUME MeterInv, NEW c \in Calls, NEW p \in {"guarding", "storing", "closed"},
           call' = [call EXCEPT ![c].pc = p], UNCHANGED <<tasks, log>>,
           call[c].pc \in {"asking", "guarding", "storing"},
           p = "guarding" => call[c].pc = "asking" /\ call[c].ask.kind = "plain",
           p = "storing" => call[c].pc = "asking" /\ call[c].ask.kind = "messages"
    PROVE  Moves(c)
<1>1. /\ call[c] \in Call /\ tasks[c] \in Seq(Task) /\ log[c] \in Log
      /\ Sound(call[c], tasks[c], log[c])
  BY SoundCalls
<1>2. call[c].stream = NoStream /\ call[c].told = {}
  BY <1>1 DEF Sound, Placed
<1>3. PICK s \in Stream : s = NoStream
  BY ChargesAreTyped
<1>4. PICK t \in SUBSET Charge : t = {}
  OBVIOUS
<1>5. p \in Places
  BY DEF Places
<1>6. call' = [call EXCEPT ![c] = Turned(call[c], p, s, t)]
  BY <1>2, <1>3, <1>4, <1>5, TurnedCalls
<1> DEFINE h == Turned(call[c], p, s, t)
<1>7. /\ h \in Call /\ h.pc = p /\ h.ask = call[c].ask /\ h.stream = s /\ h.told = t
  BY <1>1, <1>5, TurnedFields
<1>8. Due(h, tasks[c], log[c]) = Due(call[c], tasks[c], log[c])
  BY <1>7 DEF Due, Pending
<1>9. Placed(h)
  BY <1>3, <1>4, <1>7 DEF Placed
<1> HIDE DEF h
<1>10. /\ Due(h, tasks[c], log[c]) <= 1
       /\ p \in {"guarding", "storing"} => Due(h, tasks[c], log[c]) = 0
  BY <1>1, <1>8 DEF Sound, Counted
<1> USE DEF h
<1>11. Sound(h, tasks[c], log[c])
  BY <1>1, <1>3, <1>4, <1>5, <1>9, <1>10, TurnIsSound
<1> QED  BY <1>5, <1>6, <1>11, TurnMoves

LEMMA QuietAnswersMove ==
    ASSUME MeterInv, NEW c \in Calls,
           PlainAnswers(c) \/ MessagesAnswers(c) \/ CallFails(c)
    PROVE  Moves(c)
<1>1. CASE PlainAnswers(c)
  BY <1>1, HandlerTurns DEF PlainAnswers, Answers
<1>2. CASE MessagesAnswers(c)
  BY <1>2, HandlerTurns DEF MessagesAnswers, Answers
<1>3. CASE CallFails(c)
  BY <1>3, HandlerTurns DEF CallFails, Close
<1> QED  BY <1>1, <1>2, <1>3
LEMMA GuardrailMoves ==
    ASSUME MeterInv, NEW c \in Calls, GuardrailDecides(c)
    PROVE  Moves(c)
<1> USE ChargesAreTyped
<1>1. call[c].pc = "guarding" /\ UNCHANGED log
  BY DEF GuardrailDecides
<1>2. CASE Close(c) /\ UNCHANGED tasks
  BY <1>1, <1>2, HandlerTurns DEF Close
<1>3. CASE Spawn(c, "prompt", Flat("reported")) /\ Tell(c, Flat("reported"))
  BY <1>1, <1>3, AnswerMoves
<1>4. CASE Spawn(c, "prompt", Flat("reported")) /\ call' = [call EXCEPT ![c].pc = "storing"]
  <2>1. call[c].ask.kind = "plain" /\ call[c].told = {}
    BY <1>1, SoundCalls DEF Sound, Placed
  <2>2. PICK t \in SUBSET Charge : t = {}
    OBVIOUS
  <2>3. "storing" \in Places
    BY DEF Places
  <2>4. call' = [call EXCEPT ![c] = Turned(call[c], "storing", call[c].stream, t)]
    BY <1>4, <2>1, <2>2, <2>3, TurnedCalls
  <2> QED  BY <1>1, <1>4, <2>1, <2>2, <2>4, TellMoves
<1> QED  BY <1>2, <1>3, <1>4 DEF GuardrailDecides

LEMMA StoredMoves ==
    ASSUME MeterInv, NEW c \in Calls, Stored(c)
    PROVE  Moves(c)
<1> USE ChargesAreTyped
<1>1. /\ call[c].pc = "storing" /\ UNCHANGED log /\ Tell(c, Flat("reported"))
      /\ call[c] \in Call /\ tasks[c] \in Seq(Task) /\ log[c] \in Log
      /\ Sound(call[c], tasks[c], log[c])
  BY SoundCalls DEF Stored
<1>2. CASE call[c].ask.kind = "messages" /\ Spawn(c, "prompt", Flat("reported"))
  BY <1>1, <1>2, AnswerMoves
<1>3. CASE call[c].ask.kind = "plain" /\ UNCHANGED tasks
  <2>1. PICK t \in SUBSET Charge :
           /\ t = {Flat("reported")}
           /\ call' = [call EXCEPT ![c] = Turned(call[c], "closed", call[c].stream, t)]
    BY <1>1, ToldCalls
  <2>2. "closed" \in Places /\ call[c].stream \in Stream
    BY <1>1, CallFields DEF Places
  <2>3. PICK s \in Stream : s = call[c].stream
    BY <2>2
  <2> DEFINE h == Turned(call[c], "closed", s, t)
  <2>4. /\ h \in Call /\ h.pc = "closed" /\ h.ask = call[c].ask /\ h.stream = s /\ h.told = t
    BY <1>1, <2>2, TurnedFields
  <2>5. Due(h, tasks[c], log[c]) = Due(call[c], tasks[c], log[c])
    BY <1>1, <2>4 DEF Due, Pending
  <2>6. Placed(h)
    BY <2>4 DEF Placed
  <2>7. Due(call[c], tasks[c], log[c]) = 1 /\ Carries(tasks[c], log[c], Flat("reported"))
    BY <1>1, <1>3 DEF Sound, Counted, Truthful
  <2>8. Due(h, tasks[c], log[c]) = 1
    BY <2>5, <2>7
  <2>9. Sound(h, tasks[c], log[c])
    BY <1>1, <2>1, <2>2, <2>6, <2>7, <2>8, TurnIsSound
  <2> QED  BY <1>1, <1>3, <2>1, <2>2, <2>3, <2>9, TurnMoves
<1> QED  BY <1>2, <1>3 DEF Stored

-----------------------------------------------------------------------------
(* The stream and its logger.                                              *)

LEMMA OpensMoves ==
    ASSUME MeterInv, NEW c \in Calls, NEW script \in Scripts, StreamOpens(c, script)
    PROVE  Moves(c)
<1>1. /\ call[c].pc = "asking" /\ call[c].ask.kind = "stream" /\ UNCHANGED <<tasks, log>>
      /\ call[c] \in Call /\ tasks[c] \in Seq(Task) /\ log[c] \in Log
      /\ Sound(call[c], tasks[c], log[c])
  BY SoundCalls DEF StreamOpens
<1>2. PICK s \in Stream :
         /\ s = [NoStream EXCEPT !.script = script, !.capture = call[c].ask.cached]
         /\ s.recorded = FALSE
  <2>1. script \in Seq(Lines) /\ call[c].ask.cached \in BOOLEAN
    BY <1>1, CallFields, MeteringAssumption DEF Ask
  <2> DEFINE x == [NoStream EXCEPT !.script = script, !.capture = call[c].ask.cached]
  <2>2. x \in Stream /\ x.recorded = FALSE
    BY <2>1, ChargesAreTyped DEF NoStream, Stream
  <2> QED  BY <2>2
<1>3. PICK t \in SUBSET Charge : t = {}
  OBVIOUS
<1>4. call[c].told = {}
  BY <1>1 DEF Sound, Placed
<1>5. call' = [call EXCEPT ![c] = Turned(call[c], "streaming", s, t)]
  <2>1. [call[c] EXCEPT !.pc = "streaming", !.stream = s] = Turned(call[c], "streaming", s, t)
    BY <1>1, <1>3, <1>4 DEF Turned, Call
  <2>2. call' = [call EXCEPT ![c].pc = "streaming", ![c].stream = s]
    BY <1>2 DEF StreamOpens
  <2> QED  BY <2>1, <2>2 DEF MeterInv, TypeOK
<1>6. "streaming" \in Places
  BY DEF Places
<1> DEFINE h == Turned(call[c], "streaming", s, t)
<1>7. /\ h \in Call /\ h.pc = "streaming" /\ h.ask = call[c].ask /\ h.stream = s /\ h.told = t
  BY <1>1, <1>6, TurnedFields
<1>8. Placed(h)
  BY <1>1, <1>3, <1>7 DEF Placed
<1>9. Due(h, tasks[c], log[c]) = 1
  <2>1. Due(call[c], tasks[c], log[c]) = 0
    BY <1>1 DEF Sound, Counted
  <2>2. Len(log[c].ledger) = 0 /\ log[c].lost = 0 /\ Len(tasks[c]) = 0
    BY <1>1, <2>1, NothingDue
  <2> HIDE DEF h
  <2>3. Pending(h) = 1
    BY <1>2, <1>7 DEF Pending
  <2> QED  BY <2>2, <2>3 DEF Due
<1>10. Sound(h, tasks[c], log[c])
  BY <1>1, <1>3, <1>6, <1>8, <1>9, TurnIsSound
<1> QED  BY <1>1, <1>5, <1>6, <1>10, TurnMoves
\* Where the logger holds the charge, it is the only one and nothing is told.
LEMMA Unsettled ==
    ASSUME MeterInv, NEW c \in Calls, call[c].pc = "streaming", ~call[c].stream.recorded
    PROVE  /\ Len(log[c].ledger) = 0 /\ log[c].lost = 0 /\ Len(tasks[c]) = 0
           /\ call[c].told = {}
<1>1. /\ call[c] \in Call /\ tasks[c] \in Seq(Task) /\ log[c] \in Log
      /\ Sound(call[c], tasks[c], log[c])
  BY SoundCalls
<1>2. Pending(call[c]) = 1
  BY DEF Pending
<1>3. Due(call[c], tasks[c], log[c]) <= 1 /\ call[c].told = {}
  BY <1>1 DEF Sound, Counted, Placed
<1> QED  BY <1>1, <1>2, <1>3, LoggerHoldsIt

\* The logger settles: the stream is recorded and its charge spawned.
LEMMA SettleMoves ==
    ASSUME MeterInv, NEW c \in Calls, NEW p \in {"streaming", "closed"}, NEW s \in Stream,
           NEW t \in SUBSET Charge, NEW stage \in {"failure", "prompt", "cost"},
           NEW x \in Charge, call[c].pc = "streaming", ~call[c].stream.recorded,
           call' = [call EXCEPT ![c] = Turned(call[c], p, s, t)],
           Spawn(c, stage, x), UNCHANGED log, s.recorded = TRUE, t = {} \/ t = {x}
    PROVE  Moves(c)
<1>1. /\ call[c] \in Call /\ tasks[c] \in Seq(Task) /\ log[c] \in Log
      /\ Sound(call[c], tasks[c], log[c]) /\ call[c].ask.kind = "stream" /\ p \in Places
  BY SoundCalls DEF Sound, Placed, Places
<1>2. Turned(call[c], p, s, t) \in Call /\ Append(tasks[c], Fresh(stage, x)) \in Seq(Task)
  BY <1>1, TurnedFields, FreshFields, AppendKeeps
<1>3. tasks' = [tasks EXCEPT ![c] = Append(tasks[c], Fresh(stage, x))]
  BY DEF Spawn, Fresh
<1>4. Sound(Turned(call[c], p, s, t), Append(tasks[c], Fresh(stage, x)), log[c])
  <2>1. t \subseteq {x}
    OBVIOUS
  <2> QED  BY <1>1, <2>1, Unsettled, SpawnIsSound
<1> QED  BY <1>1, <1>2, <1>3, <1>4, Standing DEF Moves

\* The logger reads on, or lets go of a stream it has settled.
LEMMA ReadsOnMoves ==
    ASSUME MeterInv, NEW c \in Calls, NEW p \in {"streaming", "closed"}, NEW s \in Stream,
           call[c].pc = "streaming", s.recorded = call[c].stream.recorded,
           p = "closed" => s.recorded,
           call' = [call EXCEPT ![c] = Turned(call[c], p, s, call[c].told)],
           UNCHANGED <<tasks, log>>
    PROVE  Moves(c)
<1>1. /\ call[c] \in Call /\ tasks[c] \in Seq(Task) /\ log[c] \in Log
      /\ Sound(call[c], tasks[c], log[c]) /\ p \in Places
  BY SoundCalls DEF Places
<1>2. PICK t \in SUBSET Charge : t = call[c].told
  BY <1>1, CallFields
<1> DEFINE h == Turned(call[c], p, s, t)
<1>3. /\ h \in Call /\ h.pc = p /\ h.ask = call[c].ask /\ h.stream = s /\ h.told = t
  BY <1>1, TurnedFields
<1>4. Placed(h)
  BY <1>1, <1>2, <1>3 DEF Sound, Placed
<1> HIDE DEF h
<1>5. Due(h, tasks[c], log[c]) = 1
  <2>1. Pending(h) = Pending(call[c])
    BY <1>3 DEF Pending
  <2>2. Due(call[c], tasks[c], log[c]) = 1
    BY <1>1 DEF Sound, Counted
  <2> QED  BY <2>1, <2>2 DEF Due
<1>6. \A x \in t : Carries(tasks[c], log[c], x)
  BY <1>1, <1>2 DEF Sound, Truthful
<1> USE DEF h
<1>7. Sound(h, tasks[c], log[c])
  BY <1>1, <1>4, <1>5, <1>6, TurnIsSound
<1> QED  BY <1>1, <1>2, <1>7, TurnMoves

LEMMA RecordMoves ==
    ASSUME MeterInv, NEW c \in Calls, StreamBreaks(c) \/ BodyDropped(c)
    PROVE  Moves(c)
<1>1. PICK stage \in {"failure", "prompt", "cost"} :
         Record(c, stage) /\ UNCHANGED log /\ call[c].pc = "streaming"
  BY DEF StreamBreaks, BodyDropped
<1>2. call[c] \in Call /\ call[c].stream \in Stream /\ call[c].told \in SUBSET Charge
  BY SoundCalls, CallFields
<1>3. PICK s \in Stream :
         s = [call[c].stream EXCEPT !.recorded = TRUE, !.capture = FALSE] /\ s.recorded = TRUE
  <2> DEFINE x == [call[c].stream EXCEPT !.recorded = TRUE, !.capture = FALSE]
  <2>1. x \in Stream /\ x.recorded = TRUE
    BY <1>2 DEF Stream
  <2> QED  BY <2>1
<1>4. call' = [call EXCEPT ![c] = Turned(call[c], "closed", s, call[c].told)]
  <2>1. [call[c] EXCEPT !.pc = "closed", !.stream = s] = Turned(call[c], "closed", s, call[c].told)
    BY <1>2 DEF Turned, Call
  <2>2. call' = [call EXCEPT ![c].pc = "closed", ![c].stream = s]
    BY <1>1, <1>3 DEF Record
  <2> QED  BY <2>1, <2>2 DEF MeterInv, TypeOK
<1>5. CASE call[c].stream.recorded
  <2>1. UNCHANGED tasks
    BY <1>1, <1>5 DEF Record
  <2>2. s.recorded = call[c].stream.recorded
    BY <1>2, <1>3, <1>5 DEF Stream
  <2> QED  BY <1>1, <1>3, <1>4, <2>1, <2>2, ReadsOnMoves
<1>6. CASE ~call[c].stream.recorded
  <2>1. PICK x \in Charge : x = Settlement(call[c].stream)
    BY <1>2, ChargesAreTyped
  <2>2. Spawn(c, stage, x)
    BY <1>1, <1>6, <2>1 DEF Record
  <2>3. PICK t \in SUBSET Charge : t = {} /\ t = call[c].told
    BY <1>1, <1>2, <1>6, Unsettled
  <2>4. call' = [call EXCEPT ![c] = Turned(call[c], "closed", s, t)]
    BY <1>4, <2>3
  <2>5. UNCHANGED log /\ call[c].pc = "streaming"
    BY <1>1
  <2>6. s.recorded = TRUE /\ t = {}
    BY <1>3, <2>3
  <2> QED  BY <1>6, <2>2, <2>4, <2>5, <2>6, SettleMoves
<1> QED  BY <1>5, <1>6
\* What a chunk leaves of the stream.
AfterChunk(s, to, torn, read, done, ends) ==
    [s EXCEPT !.at = to, !.torn = torn,
              !.text = @ + Cardinality(read \cap LinesOf(s.script, "delta")),
              !.usage = @ \/ read \cap LinesOf(s.script, "usage") # {},
              !.recorded = @ \/ done,
              !.capture = @ /\ ~ends]

LEMMA ReadStream ==
    ASSUME NEW s \in Stream, NEW to \in 1..(3 * Len(s.script)), NEW torn \in BOOLEAN,
           NEW read \in SUBSET (1..Len(s.script)), NEW done \in BOOLEAN, NEW ends \in BOOLEAN
    PROVE  LET after == AfterChunk(s, to, torn, read, done, ends)
           IN  /\ after \in Stream /\ after.script = s.script /\ after.at = to
               /\ after.recorded = (s.recorded \/ done)
<1>1. /\ s.script \in Seq(Lines) /\ Len(s.script) \in Nat /\ s.text \in Nat
      /\ s.usage \in BOOLEAN /\ s.recorded \in BOOLEAN /\ s.capture \in BOOLEAN
  BY DEF Stream
<1>2. PICK n \in Nat : n = Cardinality(read \cap LinesOf(s.script, "delta"))
  <2>1. read \cap LinesOf(s.script, "delta") \in SUBSET (1..Len(s.script))
    OBVIOUS
  <2> QED  BY <1>1, <2>1, LinesCount
<1>3. to \in Nat /\ s.text + n \in Nat
  BY <1>1
<1>4. PICK u \in BOOLEAN : u = (s.usage \/ read \cap LinesOf(s.script, "usage") # {})
  BY <1>1
<1>5. PICK r \in BOOLEAN : r = (s.recorded \/ done)
  BY <1>1
<1>6. PICK k \in BOOLEAN : k = (s.capture /\ ~ends)
  BY <1>1
<1> DEFINE h == [s EXCEPT !.at = to, !.torn = torn, !.text = s.text + n, !.usage = u,
                          !.recorded = r, !.capture = k]
<1>7. h \in Stream /\ h.script = s.script /\ h.at = to /\ h.recorded = r
  BY <1>3 DEF Stream
<1> QED  BY <1>2, <1>4, <1>5, <1>6, <1>7 DEF AfterChunk
\* A chunk turns its call: read on, and settled with [DONE], or only read on.
ReadTo(c, to, z, t) ==
    /\ call' = [call EXCEPT ![c] = Turned(call[c], "streaming", z, t)]
    /\ z.script = call[c].stream.script /\ z.at = to
    /\ \/ /\ ~call[c].stream.recorded /\ z.recorded = TRUE
          /\ t = {Settlement(z)} /\ Spawn(c, "prompt", Settlement(z))
       \/ /\ z.recorded = call[c].stream.recorded
          /\ t = call[c].told /\ UNCHANGED tasks

LEMMA ChunkTurns ==
    ASSUME MeterInv, NEW c \in Calls, NEW to, NEW torn \in BOOLEAN, ChunkPasses(c, to, torn)
    PROVE  \E z \in Stream, t \in SUBSET Charge : ReadTo(c, to, z, t)
<1> DEFINE s     == call[c].stream
           read  == IF s.torn \/ torn THEN {} ELSE Parsed(s.script, s.at, to)
           done  == \E i \in read : s.script[i] = "done"
           ends  == s.capture /\ LinesOf(s.script, "done") \cap Completed(s.script, to) # {}
           after == [s EXCEPT !.at = to, !.torn = torn,
                           !.text = @ + Cardinality(read \cap LinesOf(s.script, "delta")),
                           !.usage = @ \/ read \cap LinesOf(s.script, "usage") # {},
                           !.recorded = @ \/ done,
                           !.capture = @ /\ ~ends]
<1>1. /\ call[c] \in Call /\ s \in Stream /\ call[c].told \in SUBSET Charge
      /\ call \in [Calls -> Call]
  BY SoundCalls, CallFields DEF MeterInv, TypeOK
<1>2. /\ call[c].pc = "streaming" /\ UNCHANGED log /\ to \in (s.at + 1)..(3 * Len(s.script))
      /\ \/ /\ done /\ ~s.recorded
            /\ call' = [call EXCEPT ![c].stream = after, ![c].told = {Settlement(after)}]
            /\ Spawn(c, "prompt", Settlement(after))
         \/ /\ ~done \/ s.recorded
            /\ call' = [call EXCEPT ![c].stream = after]
            /\ UNCHANGED tasks
  BY DEF ChunkPasses
<1>3. PICK d \in BOOLEAN : d = done
  OBVIOUS
<1>4. PICK z \in Stream : /\ z = after /\ z.recorded = (s.recorded \/ d)
                        /\ z.script = s.script /\ z.at = to
  <2>1. to \in 1..(3 * Len(s.script))
    <3>1. to \in (s.at + 1)..(3 * Len(s.script)) /\ s.at \in Nat /\ Len(s.script) \in Nat
      <4>1. to \in (s.at + 1)..(3 * Len(s.script))
        BY <1>2
      <4>2. s.at \in Nat /\ s.script \in Seq(Lines)
        BY <1>1 DEF Stream
      <4> QED  BY <4>1, <4>2
    <3> QED  BY ONLY <3>1
  <2>2. read \in SUBSET (1..Len(s.script))
    BY DEF Parsed
  <2>3. PICK e \in BOOLEAN : e = ends
    BY <1>1 DEF Stream
  <2>4. PICK r \in SUBSET (1..Len(s.script)) : r = read
    BY <2>2
  <2> DEFINE y == AfterChunk(s, to, torn, r, d, e)
  <2>5. /\ y \in Stream /\ y.recorded = (s.recorded \/ d)
        /\ y.script = s.script /\ y.at = to
    BY <1>1, <2>1, ReadStream
  <2>6. y = after
    BY <1>3, <2>3, <2>4 DEF AfterChunk
  <2> QED  BY ONLY <2>5, <2>6
<1> HIDE DEF read, done, ends, after
<1>5. CASE done /\ ~s.recorded
  <2>1. PICK x \in Charge : x = Settlement(z)
    BY ChargesAreTyped
  <2>2. PICK t \in SUBSET Charge : t = {x}
    OBVIOUS
  <2>3. /\ call' = [call EXCEPT ![c].stream = z, ![c].told = t]
        /\ Spawn(c, "prompt", x)
    BY <1>2, <1>4, <1>5, <2>1, <2>2
  <2>4. [call[c] EXCEPT !.stream = z, !.told = t] = Turned(call[c], "streaming", z, t)
    BY <1>1, <1>2 DEF Turned, Call
  <2>5. call' = [call EXCEPT ![c] = Turned(call[c], "streaming", z, t)]
    BY <1>1, <2>3, <2>4
  <2>6. z.recorded = TRUE
    BY <1>3, <1>4, <1>5
  <2> QED  BY <1>4, <1>5, <2>1, <2>2, <2>3, <2>5, <2>6 DEF ReadTo
<1>6. CASE ~done \/ s.recorded
  <2>1. call' = [call EXCEPT ![c].stream = z] /\ UNCHANGED tasks
    BY <1>2, <1>4, <1>6
  <2>2. [call[c] EXCEPT !.stream = z] = Turned(call[c], "streaming", z, call[c].told)
    BY <1>1, <1>2 DEF Turned, Call
  <2>3. call' = [call EXCEPT ![c] = Turned(call[c], "streaming", z, call[c].told)]
    BY <1>1, <2>1, <2>2
  <2>4. z.recorded = s.recorded
    <3>1. s.recorded \in BOOLEAN
      BY <1>1 DEF Stream
    <3> QED  BY <1>3, <1>4, <1>6, <3>1
  <2>5. PICK t \in SUBSET Charge : t = call[c].told
    BY <1>1
  <2> QED  BY <1>4, <2>1, <2>3, <2>4, <2>5 DEF ReadTo
<1> QED  BY <1>5, <1>6
LEMMA ChunkMoves ==
    ASSUME MeterInv, NEW c \in Calls, NEW to, NEW torn \in BOOLEAN, ChunkPasses(c, to, torn)
    PROVE  Moves(c)
<1>1. PICK z \in Stream, t \in SUBSET Charge : ReadTo(c, to, z, t)
  BY ChunkTurns
<1>2. call[c].pc = "streaming" /\ UNCHANGED log
  BY DEF ChunkPasses
<1>3. PICK x \in Charge : x = Settlement(z)
  BY ChargesAreTyped
<1>4. CASE ~call[c].stream.recorded /\ z.recorded = TRUE /\ t = {x} /\ Spawn(c, "prompt", x)
  BY <1>1, <1>2, <1>4, SettleMoves DEF ReadTo
<1>5. CASE z.recorded = call[c].stream.recorded /\ t = call[c].told /\ UNCHANGED tasks
  <2>1. call' = [call EXCEPT ![c] = Turned(call[c], "streaming", z, call[c].told)]
    BY <1>1, <1>5 DEF ReadTo
  <2> QED  BY <1>2, <1>5, <2>1, ReadsOnMoves
<1> QED  BY <1>1, <1>3, <1>4, <1>5 DEF ReadTo

-----------------------------------------------------------------------------
(* The spawned tasks.                                                      *)

\* What a step of a task has to show.
LEMMA TaskMoves ==
    ASSUME MeterInv, NEW c \in Calls, NEW us \in Seq(Task), NEW m \in Log,
           UNCHANGED call, tasks' = [tasks EXCEPT ![c] = us], log' = [log EXCEPT ![c] = m],
           Len(tasks[c]) > 0,
           Len(m.ledger) + m.lost + Len(us)
             = Len(log[c].ledger) + log[c].lost + Len(tasks[c]),
           \A x \in Charge : Carries(tasks[c], log[c], x) => Carries(us, m, x),
           call[c].ask.kind \in Chats =>
             /\ \/ m.prompts = log[c].prompts
                \/ ~call[c].ask.noLog /\ (call[c].began.prompts \/ call[c].ask.retain)
             /\ \/ m.egress = log[c].egress
                \/ ~call[c].ask.noLog /\ call[c].began.prompts
    PROVE  Moves(c)
<1>1. /\ call[c] \in Call /\ tasks[c] \in Seq(Task) /\ log[c] \in Log
      /\ Sound(call[c], tasks[c], log[c])
  BY SoundCalls
<1>2. Sound(call[c], us, m)
  BY <1>1, TaskIsSound
<1>3. call' = [call EXCEPT ![c] = call[c]]
  BY Standing
<1> QED  BY <1>1, <1>2, <1>3 DEF Moves

LEMMA LogTyped ==
    ASSUME NEW l \in Log
    PROVE  /\ l.ledger \in Seq(Row) /\ l.prompts \in Seq(Shown) /\ l.egress \in Seq(Shown)
           /\ l.failures \in Nat /\ l.lost \in Nat
           /\ Len(l.ledger) \in Nat
  BY DEF Log, Row

LEMMA LogFailureMoves ==
    ASSUME MeterInv, NEW c \in Calls, NEW i \in 1..Len(tasks[c]), NEW ok \in BOOLEAN,
           LogFailure(c, i, ok)
    PROVE  Moves(c)
<1>1. PICK ts \in Seq(Task), l \in Log : ts = tasks[c] /\ l = log[c]
  BY SoundCalls
<1>2. ts[i] \in Task /\ i \in 1..Len(ts)
  BY <1>1
<1> DEFINE us == Staged(ts, i, "prompt", ts[i].linked)
<1>3. us = [ts EXCEPT ![i].stage = "prompt"]
  BY <1>2 DEF Staged, Task
<1>4. tasks' = [tasks EXCEPT ![c] = us]
  BY <1>1, <1>3 DEF LogFailure
<1>5. /\ us \in Seq(Task) /\ Len(us) = Len(ts)
      /\ \A m \in Log, x \in Charge :
            m.ledger = l.ledger => (Carries(ts, l, x) => Carries(us, m, x))
  <2>1. ts[i].linked \in BOOLEAN
    BY <1>2 DEF Task
  <2> QED  BY <1>2, <2>1, StagedTask
<1> HIDE DEF us
<1>6. PICK m \in Log :
         /\ log' = [log EXCEPT ![c] = m]
         /\ m.ledger = l.ledger /\ m.lost = l.lost
         /\ m.prompts = l.prompts /\ m.egress = l.egress
  <2>1. CASE ok
    <3>0. PICK n \in Nat : n = l.failures + 1
      BY LogTyped
    <3> DEFINE h == [l EXCEPT !.failures = n]
    <3>1. /\ h \in Log /\ h.ledger = l.ledger /\ h.lost = l.lost
          /\ h.prompts = l.prompts /\ h.egress = l.egress
      BY DEF Log
    <3>2. log' = [log EXCEPT ![c] = h]
      BY <1>1, <2>1, <3>0 DEF LogFailure
    <3> QED  BY <3>1, <3>2
  <2>2. CASE ~ok
    BY <1>1, <2>2, Standing DEF LogFailure
  <2> QED  BY <2>1, <2>2
<1>7. UNCHANGED call /\ Len(ts) > 0
  BY <1>2 DEF LogFailure
<1> QED  BY <1>1, <1>4, <1>5, <1>6, <1>7, TaskMoves
\* A task that goes on to the ledger.
LEMMA StagedMoves ==
    ASSUME MeterInv, NEW c \in Calls, NEW i \in 1..Len(tasks[c]), NEW linked \in BOOLEAN,
           NEW m \in Log, UNCHANGED call,
           tasks' = [tasks EXCEPT ![c] = Staged(tasks[c], i, "cost", linked)],
           log' = [log EXCEPT ![c] = m],
           m.ledger = log[c].ledger, m.lost = log[c].lost, m.egress = log[c].egress,
           call[c].ask.kind \in Chats =>
             \/ m.prompts = log[c].prompts
             \/ ~call[c].ask.noLog /\ (call[c].began.prompts \/ call[c].ask.retain)
    PROVE  Moves(c)
<1>1. PICK ts \in Seq(Task), l \in Log : ts = tasks[c] /\ l = log[c]
  BY SoundCalls
<1>2. PICK us : us = Staged(ts, i, "cost", linked)
  OBVIOUS
<1>3. /\ us \in Seq(Task) /\ Len(us) = Len(ts)
      /\ \A n \in Log, x \in Charge :
            n.ledger = l.ledger => (Carries(ts, l, x) => Carries(us, n, x))
  BY <1>1, <1>2, StagedTask
<1>4. Len(ts) > 0
  BY <1>1
<1> QED  BY <1>1, <1>2, <1>3, <1>4, TaskMoves

\* The prompt rows of chats are consented to.
LEMMA PromptsConsented ==
    ASSUME NEW q, NEW x, q.ask.kind \in Chats, WritesPrompt(q, x)
    PROVE  ~q.ask.noLog /\ (q.began.prompts \/ q.ask.retain)
  BY DEF WritesPrompt, SkipLog

LEMMA WritePromptMoves ==
    ASSUME MeterInv, NEW c \in Calls, NEW i \in 1..Len(tasks[c]), NEW ok \in BOOLEAN,
           WritePrompt(c, i, ok)
    PROVE  Moves(c)
<1>1. PICK ts \in Seq(Task), l \in Log : ts = tasks[c] /\ l = log[c]
  BY SoundCalls
<1>2. ts[i] \in Task /\ i \in 1..Len(ts) /\ UNCHANGED call
  BY <1>1 DEF WritePrompt
<1>3. CASE tasks' = [tasks EXCEPT ![c][i].stage = "cost"] /\ UNCHANGED log
  <2>1. tasks' = [tasks EXCEPT ![c] = Staged(ts, i, "cost", ts[i].linked)]
    <3>1. Staged(ts, i, "cost", ts[i].linked) = [ts EXCEPT ![i].stage = "cost"]
      BY <1>2 DEF Staged, Task
    <3> QED  BY <1>1, <1>3, <3>1
  <2>2. PICK linked \in BOOLEAN : linked = ts[i].linked
    BY <1>2 DEF Task
  <2>3. log' = [log EXCEPT ![c] = l]
    BY <1>1, <1>3, Standing
  <2> QED  BY <1>1, <1>2, <2>1, <2>2, <2>3, StagedMoves
<1>4. CASE /\ WritesPrompt(call[c], ts[i].charge)
           /\ tasks' = [tasks EXCEPT ![c][i].stage = "cost", ![c][i].linked = TRUE]
           /\ log' = [log EXCEPT ![c].prompts =
                         Append(@, Show(KeepsContent(call[c], ts[i].charge)))]
  <2>1. tasks' = [tasks EXCEPT ![c] = Staged(ts, i, "cost", TRUE)]
    <3>1. Staged(ts, i, "cost", TRUE) = [ts EXCEPT ![i].stage = "cost", ![i].linked = TRUE]
      BY <1>2 DEF Staged, Task
    <3> QED  BY <1>1, <1>4, <3>1 DEF MeterInv, TypeOK
  <2>2. PICK prompts \in Seq(Shown) :
           prompts = Append(l.prompts, Show(KeepsContent(call[c], ts[i].charge)))
    <3>1. Show(KeepsContent(call[c], ts[i].charge)) \in Shown
      BY DEF Show, Shown
    <3> QED  BY <3>1, LogTyped, AppendKeeps
  <2> DEFINE m == [l EXCEPT !.prompts = prompts]
  <2>3. /\ m \in Log /\ m.ledger = l.ledger /\ m.lost = l.lost /\ m.egress = l.egress
    BY DEF Log
  <2>4. log' = [log EXCEPT ![c] = m]
    BY <1>1, <1>4, <2>2
  <2> HIDE DEF m
  <2>5. call[c].ask.kind \in Chats =>
          ~call[c].ask.noLog /\ (call[c].began.prompts \/ call[c].ask.retain)
    BY <1>4, PromptsConsented
  <2> QED  BY <1>1, <1>2, <2>1, <2>3, <2>4, <2>5, StagedMoves
<1>5. CASE /\ tasks' = [tasks EXCEPT ![c] = RemoveAt(@, i)]
           /\ log' = [log EXCEPT ![c].lost = @ + 1]
  <2>1. PICK us : us = RemoveAt(ts, i)
    OBVIOUS
  <2>2. PICK lost \in Nat : lost = l.lost + 1
    BY LogTyped
  <2> DEFINE m == [l EXCEPT !.lost = lost]
  <2>3. /\ m \in Log /\ m.ledger = l.ledger /\ m.lost = lost
        /\ m.egress = l.egress /\ m.prompts = l.prompts
    BY DEF Log
  <2>4. tasks' = [tasks EXCEPT ![c] = us] /\ log' = [log EXCEPT ![c] = m]
    BY <1>1, <1>5, <2>1, <2>2
  <2> HIDE DEF m
  <2>5. /\ us \in Seq(Task)
        /\ Len(m.ledger) + m.lost + Len(us) = Len(l.ledger) + l.lost + Len(ts)
        /\ \A x \in Charge : Carries(ts, l, x) => Carries(us, m, x)
    <3>1. Entered(l, ts[i], FALSE) = l.ledger /\ Forgone(l, FALSE) = lost
      BY <2>2 DEF Entered, Forgone
    <3>2. /\ us \in Seq(Task)
          /\ Len(l.ledger) + lost + Len(us) = Len(l.ledger) + l.lost + Len(ts)
          /\ \A n \in Log, x \in Charge :
               n.ledger = l.ledger => (Carries(ts, l, x) => Carries(us, n, x))
      BY ONLY <1>2, <2>1, <3>1, EndedTask
    <3> QED  BY ONLY <2>3, <3>2
  <2>6. Len(ts) > 0
    BY <1>2
  <2> QED  BY <1>1, <1>2, <2>3, <2>4, <2>5, <2>6, TaskMoves
<1> QED  BY <1>1, <1>3, <1>4, <1>5 DEF WritePrompt
LEMMA EventsConsented ==
    ASSUME NEW q, NEW t, q.ask.kind \in Chats, Notifies(q, t)
    PROVE  ~q.ask.noLog /\ q.began.prompts
  BY DEF Notifies, SkipLog, Chats

LEMMA WriteCostMoves ==
    ASSUME MeterInv, NEW c \in Calls, NEW i \in 1..Len(tasks[c]), NEW ok \in BOOLEAN,
           WriteCost(c, i, ok)
    PROVE  Moves(c)
<1> DEFINE event == IF Notifies(call[c], tasks[c][i]) THEN <<Show(storage.content)>> ELSE <<>>
<1>1. PICK ts \in Seq(Task), l \in Log : ts = tasks[c] /\ l = log[c]
  BY SoundCalls
<1>2. i \in 1..Len(ts) /\ UNCHANGED call /\ Len(ts) > 0
  BY <1>1 DEF WriteCost
<1>3. PICK us : us = RemoveAt(ts, i)
  OBVIOUS
<1>4. PICK ledger : ledger = Entered(l, ts[i], ok)
  OBVIOUS
<1>5. PICK lost : lost = Forgone(l, ok)
  OBVIOUS
<1>6. /\ us \in Seq(Task) /\ ledger \in Seq(Row) /\ lost \in Nat
      /\ Len(ledger) + lost + Len(us) = Len(l.ledger) + l.lost + Len(ts)
      /\ \A m \in Log, x \in Charge :
            m.ledger = ledger => (Carries(ts, l, x) => Carries(us, m, x))
  BY <1>2, <1>3, <1>4, <1>5, EndedTask
<1>7. PICK egress \in Seq(Shown) :
         /\ egress = l.egress \o event
         /\ call[c].ask.kind \in Chats =>
               egress = l.egress \/ (~call[c].ask.noLog /\ call[c].began.prompts)
  <2>1. l.egress \in Seq(Shown)
    BY LogTyped
  <2>2. CASE Notifies(call[c], tasks[c][i])
    <3>1. PICK e \in Seq(Shown) : e = <<Show(storage.content)>>
      <4>1. Show(storage.content) \in Shown
        BY DEF Show, Shown
      <4>2. \A y \in Shown : <<y>> \in Seq(Shown)
        OBVIOUS
      <4> QED  BY <4>1, <4>2
    <3>2. l.egress \o e \in Seq(Shown)
      BY <2>1, ConcatProperties
    <3>3. e = event
      BY <2>2, <3>1
    <3>4. call[c].ask.kind \in Chats => ~call[c].ask.noLog /\ call[c].began.prompts
      BY <2>2, EventsConsented
    <3> QED  BY <3>2, <3>3, <3>4
  <2>3. CASE ~Notifies(call[c], tasks[c][i])
    <3>1. l.egress \o <<>> = l.egress
      BY <2>1
    <3> QED  BY <2>1, <2>3, <3>1
  <2> QED  BY <2>2, <2>3
<1> DEFINE m == [l EXCEPT !.ledger = ledger, !.lost = lost, !.egress = egress]
<1>8. /\ m \in Log /\ m.ledger = ledger /\ m.lost = lost
      /\ m.egress = egress /\ m.prompts = l.prompts
  BY <1>6 DEF Log, Row
<1>9. tasks' = [tasks EXCEPT ![c] = us] /\ log' = [log EXCEPT ![c] = m]
  <2>1. tasks' = [tasks EXCEPT ![c] = us]
    BY <1>1, <1>3 DEF WriteCost
  <2>2. log' = [log EXCEPT ![c].ledger = ledger, ![c].lost = lost, ![c].egress = egress]
    BY <1>1, <1>4, <1>5, <1>7 DEF WriteCost, Entered, Forgone
  <2> QED  BY <1>1, <2>1, <2>2 DEF MeterInv, TypeOK
<1> HIDE DEF m, event
<1> QED  BY <1>1, <1>2, <1>6, <1>7, <1>8, <1>9, TaskMoves
-----------------------------------------------------------------------------
(* Around them, and every step.                                            *)

\* An exit closes the call and loses what it was due.
LEMMA ExitIsSound ==
    ASSUME NEW q \in Call, NEW ts \in Seq(Task), NEW l \in Log, Sound(q, ts, l)
    PROVE  LET h == [q EXCEPT !.pc = "closed"]
               m == [l EXCEPT !.lost = @ + Len(ts) + Pending(q)]
           IN  h \in Call /\ m \in Log /\ Sound(h, <<>>, m)
<1>1. PICK h \in Call : /\ h = [q EXCEPT !.pc = "closed"] /\ h.pc = "closed" /\ h.ask = q.ask
                        /\ h.began = q.began /\ h.stream = q.stream /\ h.told = q.told
  <2> DEFINE x == [q EXCEPT !.pc = "closed"]
  <2>1. /\ x \in Call /\ x.pc = "closed" /\ x.ask = q.ask
        /\ x.began = q.began /\ x.stream = q.stream /\ x.told = q.told
    BY DEF Call
  <2> QED  BY <2>1
<1>2. PICK n \in Nat : n = l.lost + Len(ts) + Pending(q)
  BY DueIsNat
<1>3. PICK m \in Log : /\ m = [l EXCEPT !.lost = n] /\ m.lost = n /\ m.ledger = l.ledger
                       /\ m.prompts = l.prompts /\ m.egress = l.egress
  <2> DEFINE x == [l EXCEPT !.lost = n]
  <2>1. /\ x \in Log /\ x.lost = n /\ x.ledger = l.ledger
        /\ x.prompts = l.prompts /\ x.egress = l.egress
    BY DEF Log
  <2> QED  BY <2>1
<1>4. Due(h, <<>>, m) = Due(q, ts, l)
  <2>1. Pending(h) = 0 /\ Len(<<>>) = 0
    BY <1>1 DEF Pending
  <2>2. Due(h, <<>>, m) = Len(l.ledger) + n + 0 + 0
    BY <1>3, <2>1 DEF Due
  <2>3. Due(q, ts, l) = Len(l.ledger) + l.lost + Len(ts) + Pending(q)
    BY DEF Due
  <2>4. Len(l.ledger) \in Nat /\ l.lost \in Nat /\ Len(ts) \in Nat /\ Pending(q) \in Nat
    BY DueIsNat
  <2>5. \A w, x, y, z \in Nat : w + (x + y + z) + 0 + 0 = w + x + y + z
    OBVIOUS
  <2>6. Len(l.ledger) + n + 0 + 0 = Len(l.ledger) + l.lost + Len(ts) + Pending(q)
    BY ONLY <1>2, <2>4, <2>5
  <2> QED  BY ONLY <2>2, <2>3, <2>6
<1>5. Counted(h, <<>>, m)
  BY <1>1, <1>4 DEF Sound, Counted
<1>6. Placed(h)
  BY <1>1 DEF Placed
<1>7. Truthful(h, <<>>, m)
  BY <1>1, <1>3 DEF Sound, Truthful, Carries
<1>8. Consented(h, m)
  BY <1>1, <1>3 DEF Sound, Consented
<1> QED  BY <1>1, <1>2, <1>3, <1>5, <1>6, <1>7, <1>8 DEF Sound

LEMMA ExitKeeps ==
    ASSUME MeterInv, Exit
    PROVE  /\ call' \in [Calls -> Call] /\ tasks' \in [Calls -> Seq(Task)]
           /\ log' \in [Calls -> Log]
           /\ CallsSound'
<1>1. ASSUME NEW c \in Calls
      PROVE  /\ call'[c] \in Call /\ tasks'[c] \in Seq(Task) /\ log'[c] \in Log
             /\ Sound(call'[c], tasks'[c], log'[c])
  <2>1. PICK q \in Call, ts \in Seq(Task), l \in Log :
           q = call[c] /\ ts = tasks[c] /\ l = log[c] /\ Sound(q, ts, l)
    BY SoundCalls
  <2>2. call'[c] = [q EXCEPT !.pc = "closed"] /\ tasks'[c] = <<>>
    BY <2>1 DEF Exit
  <2>3. log'[c] = [l EXCEPT !.lost = @ + Len(ts) + Pending(q)]
    BY <2>1 DEF Exit, Unrecorded, Pending
  <2>4. <<>> \in Seq(Task)
    OBVIOUS
  <2> QED  BY <2>1, <2>2, <2>3, <2>4, ExitIsSound
<1>2. /\ call' = [c \in Calls |-> call'[c]] /\ tasks' = [c \in Calls |-> tasks'[c]]
      /\ log' = [c \in Calls |-> log'[c]]
  BY DEF Exit
<1> QED  BY <1>1, <1>2 DEF CallsSound

LEMMA MovesKeep ==
    ASSUME MeterInv, NEW c \in Calls, Moves(c)
    PROVE  /\ call' \in [Calls -> Call] /\ tasks' \in [Calls -> Seq(Task)]
           /\ log' \in [Calls -> Log]
           /\ CallsSound'
<1>1. PICK q \in Call, ts \in Seq(Task), l \in Log :
        /\ call' = [call EXCEPT ![c] = q]
        /\ tasks' = [tasks EXCEPT ![c] = ts]
        /\ log' = [log EXCEPT ![c] = l]
        /\ Sound(q, ts, l)
  BY DEF Moves
<1>2. /\ call \in [Calls -> Call] /\ tasks \in [Calls -> Seq(Task)] /\ log \in [Calls -> Log]
  BY DEF MeterInv, TypeOK
<1>3. ASSUME NEW d \in Calls PROVE Sound(call'[d], tasks'[d], log'[d])
  <2>1. CASE d = c
    BY <1>1, <1>2, <2>1
  <2>2. CASE d # c
    BY <1>1, <1>2, <2>2, SoundCalls
  <2> QED  BY <2>1, <2>2
<1> QED  BY <1>1, <1>2, <1>3 DEF CallsSound
\* The cache and the policy keep their types; one response is cached.
LEMMA AroundTyped ==
    ASSUME MeterInv, Next
    PROVE  /\ puts' \in [Calls -> Seq([by : Calls, text : Nat])]
           /\ cache' \in SUBSET [by : Calls, text : Nat] /\ AtMostOne(cache')
           /\ storage' \in Storages /\ up' \in BOOLEAN
<1> DEFINE Entry == [by : Calls, text : Nat]
<1>1. /\ puts \in [Calls -> Seq(Entry)]
      /\ cache \in SUBSET Entry /\ AtMostOne(cache)
      /\ storage \in Storages /\ up \in BOOLEAN
  BY DEF MeterInv, TypeOK, AtMostOne
<1>2. CASE UNCHANGED <<puts, cache, storage, up>>
  BY <1>1, <1>2
<1>3. ASSUME NEW c \in Calls, NEW to, NEW torn \in BOOLEAN, ChunkPasses(c, to, torn)
      PROVE  /\ puts' \in [Calls -> Seq(Entry)]
             /\ UNCHANGED <<cache, storage, up>>
  <2>1. Captured(c, to) \in Entry
    <3> DEFINE script == call[c].stream.script
               lines  == LinesOf(script, "delta") \cap Completed(script, to)
    <3>1. Len(script) \in Nat
      BY SoundCalls, CallFields DEF Stream
    <3>2. lines \in SUBSET (1..Len(script))
      BY DEF LinesOf
    <3>3. Cardinality(lines) \in Nat
      BY <3>1, <3>2, LinesCount
    <3> QED  BY <3>3 DEF Captured
  <2>2. PICK e \in Entry : e = Captured(c, to)
    BY <2>1
  <2>3. puts' = puts \/ puts' = [puts EXCEPT ![c] = Append(puts[c], e)]
    BY <1>3, <2>2 DEF ChunkPasses
  <2>4. Append(puts[c], e) \in Seq(Entry)
    BY <1>1, AppendKeeps
  <2> HIDE DEF Entry
  <2> QED  BY <1>1, <1>3, <2>3, <2>4 DEF ChunkPasses
<1>4. ASSUME NEW c \in Calls, NEW i \in 1..Len(puts[c]), NEW ok \in BOOLEAN,
             PutCaptured(c, i, ok)
      PROVE  /\ puts' \in [Calls -> Seq(Entry)]
             /\ cache' \in SUBSET Entry /\ AtMostOne(cache')
             /\ UNCHANGED <<storage, up>>
  <2>1. RemoveAt(puts[c], i) \in Seq(Entry) /\ puts[c][i] \in Entry
    <3>1. puts[c] \in Seq(Entry)
      BY <1>1
    <3> HIDE DEF Entry
    <3> QED  BY <3>1, RemoveAtKeeps
  <2> HIDE DEF Entry
  <2>2. puts' \in [Calls -> Seq(Entry)]
    BY <1>1, <1>4, <2>1 DEF PutCaptured
  <2>3. cache' = {puts[c][i]} \/ cache' = cache
    BY <1>4 DEF PutCaptured
  <2>4. cache' \in SUBSET Entry /\ AtMostOne(cache')
    BY <1>1, <2>1, <2>3, OneEntry
  <2> QED  BY <1>4, <2>2, <2>4 DEF PutCaptured
<1>5. ASSUME NEW c \in Calls, Stored(c)
      PROVE  /\ cache' \in SUBSET Entry /\ AtMostOne(cache')
             /\ UNCHANGED <<puts, storage, up>>
  <2>1. PICK e \in Entry : e = [by |-> c, text |-> 0]
    OBVIOUS
  <2>2. cache' = {e} \/ cache' = cache
    BY <1>5, <2>1 DEF Stored
  <2> HIDE DEF Entry
  <2>3. cache' \in SUBSET Entry /\ AtMostOne(cache')
    BY <1>1, <2>2, OneEntry
  <2> QED  BY <1>5, <2>3 DEF Stored
<1>6. CASE Expire
  BY <1>1, <1>6, OneEntry DEF Expire
<1>7. CASE \E s \in Storages : Reload(s)
  BY <1>1, <1>7 DEF Reload
<1>8. CASE Exit
  <2>1. <<>> \in Seq(Entry)
    OBVIOUS
  <2>2. puts' = [c \in Calls |-> <<>>] /\ UNCHANGED <<cache, storage>> /\ up' = FALSE
    BY <1>8 DEF Exit
  <2> HIDE DEF Entry
  <2>3. puts' \in [Calls -> Seq(Entry)]
    BY <2>1, <2>2
  <2> USE DEF Entry
  <2> QED  BY <1>1, <2>2, <2>3
<1>9. ASSUME NEW c \in Calls, NEW i \in 1..Len(tasks[c]), TaskRuns(c, i)
      PROVE  UNCHANGED <<puts, cache, storage, up>>
  BY <1>9 DEF TaskRuns, LogFailure, WritePrompt, WriteCost
<1>10. ASSUME NEW c \in Calls, NEW a \in Ask, Begin(c, a)
       PROVE  UNCHANGED <<puts, cache, storage, up>>
  BY <1>10 DEF Begin
<1>11. ASSUME NEW c \in Calls, NEW script \in Scripts, StreamOpens(c, script)
       PROVE  UNCHANGED <<puts, cache, storage, up>>
  BY <1>11 DEF StreamOpens
<1>12. ASSUME NEW c \in Calls,
              \/ PlainAnswers(c) \/ MessagesAnswers(c) \/ MessagesStreamOpens(c)
              \/ ResponsesAnswers(c) \/ EmbeddingsAnswers(c) \/ ImagesAnswers(c)
              \/ SpeechAnswers(c) \/ TranscriptionAnswers(c) \/ SearchAnswers(c)
       PROVE  UNCHANGED <<puts, cache, storage, up>>
  BY <1>12 DEF PlainAnswers, MessagesAnswers, Answers, MessagesStreamOpens, AnswersAtOnce,
       ResponsesAnswers, EmbeddingsAnswers, ImagesAnswers, SpeechAnswers,
       TranscriptionAnswers, SearchAnswers
<1>13. ASSUME NEW c \in Calls,
              CacheHit(c) \/ GuardrailDecides(c) \/ CallFails(c) \/ BodyEnds(c)
       PROVE  UNCHANGED <<puts, cache, storage, up>>
  BY <1>13 DEF CacheHit, GuardrailDecides, CallFails, BodyEnds, StreamBreaks, BodyDropped
<1> HIDE DEF Entry
<1> DEFINE Done == /\ puts' \in [Calls -> Seq(Entry)]
                   /\ cache' \in SUBSET Entry /\ AtMostOne(cache')
                   /\ storage' \in Storages /\ up' \in BOOLEAN
<1>14. UNCHANGED <<puts, cache, storage, up>> => Done
  BY <1>1
<1>15. ASSUME NEW c \in Calls, NEW to, NEW torn \in BOOLEAN, ChunkPasses(c, to, torn) PROVE Done
  BY <1>1, <1>3, <1>15
<1>16. ASSUME NEW c \in Calls, NEW i \in 1..Len(puts[c]), NEW ok \in BOOLEAN,
              PutCaptured(c, i, ok)
       PROVE  Done
  BY <1>1, <1>4, <1>16
<1>17. ASSUME NEW c \in Calls, Stored(c) PROVE Done
  BY <1>1, <1>5, <1>17
<1>18. Expire \/ (\E s \in Storages : Reload(s)) \/ Exit => Done
  BY <1>1, <1>6, <1>7, <1>8 DEF Entry
<1> HIDE DEF Done
<1>19. Done
  BY <1>9, <1>10, <1>11, <1>12, <1>13, <1>14, <1>15, <1>16, <1>17, <1>18 DEF Next
<1> QED  BY <1>19 DEF Done, Entry
LEMMA StandsStill ==
    ASSUME MeterInv, UNCHANGED <<call, tasks, log>>
    PROVE  /\ call' \in [Calls -> Call] /\ tasks' \in [Calls -> Seq(Task)]
           /\ log' \in [Calls -> Log]
           /\ CallsSound'
  BY DEF MeterInv, TypeOK, CallsSound

LEMMA MeterStep ==
    ASSUME MeterInv, [Next]_vars
    PROVE  MeterInv'
<1> DEFINE Kept == /\ call' \in [Calls -> Call] /\ tasks' \in [Calls -> Seq(Task)]
                   /\ log' \in [Calls -> Log]
                   /\ CallsSound'
<1>1. ASSUME NEW c \in Calls, Moves(c) PROVE Kept
  BY <1>1, MovesKeep
<1>2. UNCHANGED <<call, tasks, log>> => Kept
  BY StandsStill
<1>3. Exit => Kept
  BY ExitKeeps
<1> HIDE DEF Kept
<1>4. CASE Next
  <2>1. ASSUME NEW c \in Calls, NEW a \in Ask, Begin(c, a) PROVE Kept
    BY <1>1, <2>1, BeginMoves
  <2>2. ASSUME NEW c \in Calls, NEW script \in Scripts, StreamOpens(c, script) PROVE Kept
    BY <1>1, <2>2, OpensMoves
  <2>3. ASSUME NEW c \in Calls,
               \/ PlainAnswers(c) \/ MessagesAnswers(c) \/ MessagesStreamOpens(c)
               \/ ResponsesAnswers(c) \/ EmbeddingsAnswers(c) \/ ImagesAnswers(c)
               \/ SpeechAnswers(c) \/ TranscriptionAnswers(c) \/ SearchAnswers(c)
        PROVE  Kept
    BY <1>1, <2>3, QuietAnswersMove, SpawningAnswersMove
  <2>4. ASSUME NEW c \in Calls,
               \/ CacheHit(c) \/ GuardrailDecides(c) \/ Stored(c)
               \/ CallFails(c) \/ BodyEnds(c)
        PROVE  Kept
    BY <1>1, <2>4, SpawningAnswersMove, GuardrailMoves, StoredMoves, QuietAnswersMove,
       RecordMoves DEF BodyEnds
  <2>5. ASSUME NEW c \in Calls, NEW to, NEW torn \in BOOLEAN, ChunkPasses(c, to, torn)
        PROVE  Kept
    BY <1>1, <2>5, ChunkMoves
  <2>6. ASSUME NEW c \in Calls, NEW i \in 1..Len(tasks[c]), TaskRuns(c, i) PROVE Kept
    BY <1>1, <2>6, LogFailureMoves, WritePromptMoves, WriteCostMoves DEF TaskRuns
  <2>7. ASSUME NEW c \in Calls, NEW i \in 1..Len(puts[c]), NEW ok \in BOOLEAN,
               PutCaptured(c, i, ok)
        PROVE  Kept
    BY <1>2, <2>7 DEF PutCaptured
  <2>8. Expire \/ (\E s \in Storages : Reload(s)) => Kept
    BY <1>2 DEF Expire, Reload
  <2>9. Kept
    BY <1>3, <1>4, <2>1, <2>2, <2>3, <2>4, <2>5, <2>6, <2>7, <2>8 DEF Next
  <2> QED  BY <1>4, <2>9, AroundTyped DEF Kept, MeterInv, TypeOK, AtMostOne
<1>5. CASE UNCHANGED vars
  <2>1. UNCHANGED <<call, tasks, puts, log, cache, storage, up>>
    BY <1>5 DEF vars
  <2> QED  BY <1>2, <2>1 DEF Kept, MeterInv, TypeOK
<1> QED  BY <1>4, <1>5

LEMMA MeterInit == Init => MeterInv
<1> SUFFICES ASSUME Init PROVE MeterInv
  OBVIOUS
<1>1. ASSUME NEW c \in Calls
      PROVE  /\ call[c] \in Call /\ tasks[c] \in Seq(Task) /\ log[c] \in Log
             /\ Sound(call[c], tasks[c], log[c])
  <2>1. PICK q \in Call :
           /\ q = call[c] /\ q.pc = "new" /\ q.stream = NoStream /\ q.told = {}
    <3> DEFINE a == CHOOSE b \in Workload[c] : TRUE
    <3>1. a \in Ask /\ storage \in Storage
      BY MeteringAssumption DEF Init
    <3> DEFINE x == [pc |-> "new", ask |-> a, began |-> storage, stream |-> NoStream,
                     told |-> {}]
    <3> HIDE DEF a
    <3>2. x \in Call /\ x.pc = "new" /\ x.stream = NoStream /\ x.told = {}
      BY <3>1, ChargesAreTyped DEF Call
    <3>3. call[c] = x
      BY DEF Init, NewCall, a
    <3> QED  BY <3>2, <3>3
  <2>2. PICK l \in Log :
           /\ l = log[c] /\ l.ledger = <<>> /\ l.prompts = <<>> /\ l.egress = <<>> /\ l.lost = 0
    <3>1. /\ NewLog \in Log /\ NewLog.ledger = <<>> /\ NewLog.prompts = <<>>
          /\ NewLog.egress = <<>> /\ NewLog.lost = 0
      BY DEF NewLog, Log
    <3>2. log[c] = NewLog
      BY DEF Init
    <3> QED  BY <3>1, <3>2
  <2>3. tasks[c] = <<>> /\ <<>> \in Seq(Task)
    BY DEF Init
  <2>4. Due(q, <<>>, l) = 0
    BY <2>1, <2>2 DEF Due, Pending
  <2>5. Sound(q, <<>>, l)
    BY <2>1, <2>2, <2>4 DEF Sound, Counted, Placed, Truthful, Consented
  <2> QED  BY <2>1, <2>2, <2>3, <2>5
<1>2. call \in [Calls -> Call] /\ tasks \in [Calls -> Seq(Task)] /\ log \in [Calls -> Log]
  BY <1>1 DEF Init
<1>3. puts \in [Calls -> Seq([by : Calls, text : Nat])]
  BY DEF Init
<1>4. cache \in SUBSET [by : Calls, text : Nat] /\ Cardinality(cache) <= 1
  BY OneEntry DEF Init, AtMostOne
<1> QED  BY <1>1, <1>2, <1>3, <1>4 DEF Init, MeterInv, TypeOK, CallsSound

\* In every reachable state each call is due what it should be, tells what it
\* is charged and leaves only what was consented to.
THEOREM MeterInvariant == Spec => []MeterInv
<1>1. MeterInv /\ [Next]_vars => MeterInv'
  BY MeterStep
<1> QED  BY MeterInit, <1>1, PTL DEF Spec

\* Calls, tasks, logs and cache keep their types, and one response is cached.
THEOREM MeteringTypeCorrect == Spec => []TypeOK
<1>1. MeterInv => TypeOK
  BY DEF MeterInv
<1> QED  BY MeterInvariant, <1>1, PTL

\* Whatever ends a stream or a handler, and whatever fails or exits, an owed
\* call is charged once: on the ledger, on its way, or known to be lost.
THEOREM CallsAreChargedOnce == Spec => []ChargedExactlyOnce
<1>1. MeterInv => ChargedExactlyOnce
  <2> SUFFICES ASSUME MeterInv, NEW c \in Calls
               PROVE  ChargesOf(c) <= 1 /\ (Owed(c) => ChargesOf(c) = 1)
    BY DEF ChargedExactlyOnce
  <2>1. ChargesOf(c) = Due(call[c], tasks[c], log[c])
    BY DEF ChargesOf, Unrecorded, Due, Pending
  <2>2. Counted(call[c], tasks[c], log[c])
    BY SoundCalls DEF Sound
  <2> QED  BY <2>1, <2>2 DEF Counted, Owed
<1> QED  BY MeterInvariant, <1>1, PTL

\* The cost in the answer is the one on the ledger, or on its way there.
THEOREM ToldCostsAreCharged == Spec => []ToldIsCharged
<1>1. MeterInv => ToldIsCharged
  <2> SUFFICES ASSUME MeterInv, NEW c \in Calls, NEW x \in call[c].told
               PROVE  Carries(tasks[c], log[c], x)
    BY DEF ToldIsCharged, Carries
  <2> QED  BY SoundCalls DEF Sound, Truthful
<1> QED  BY MeterInvariant, <1>1, PTL

\* Prompt rows of chats, and events, exist only with the consent of the caller
\* and of the operator's policy when the call began.
THEOREM ConsentIsHonoured == Spec => []ConsentHonoured
<1>1. MeterInv => ConsentHonoured
  BY SoundCalls DEF Sound, Consented, ConsentHonoured
<1> QED  BY MeterInvariant, <1>1, PTL
-----------------------------------------------------------------------------
(* The cache.                                                              *)

\* A provider that sends [DONE] sends nothing after it.  Without this a script
\* could go on once its capture has been stored, and the entry lack its end.
DoneIsLast ==
    \A script \in Scripts : \A i \in 1..Len(script) : script[i] = "done" => i = Len(script)

\* e is the whole of what q's provider streamed.
Whole(e, q) ==
    LET script == q.stream.script
    IN  q.ask.kind = "stream" =>
          /\ e.text = Cardinality(LinesOf(script, "delta"))
          /\ LinesOf(script, "usage") # {} /\ LinesOf(script, "odd") = {}
          /\ q.stream.at = 3 * Len(script)

Early == {"new", "asking", "guarding", "storing"}

\* A call stores nothing before it has answered; what it stored, or is about
\* to, is whole, so the stream it came from has no chunk left to add.
Stores(c, q, ps, es) ==
    /\ q.pc \in Early => Len(ps) = 0 /\ \A e \in es : e.by # c
    /\ q.pc = "streaming" => q.stream.script \in Scripts
    /\ \A i \in 1..Len(ps) : ps[i].by = c /\ Whole(ps[i], q)
    /\ \A e \in es : e.by = c => Whole(e, q)

StoresTrue == \A c \in Calls : Stores(c, call[c], puts[c], cache)

\* d's call stands, or closes, or moves on without touching its script.
Steady(d) ==
    /\ call'[d].ask = call[d].ask
    /\ call'[d].stream.script = call[d].stream.script
    /\ call'[d].stream.at = call[d].stream.at
    /\ call'[d].pc \in Early => call[d].pc \in Early
    /\ call'[d].pc = "streaming" => call[d].pc = "streaming"

\* An update of c's place and cost is steady for every call.
LEMMA SteadyUpdates ==
    ASSUME MeterInv, NEW c \in Calls, NEW p \in {"guarding", "storing", "closed"},
           NEW h, h.ask = call[c].ask, h.stream = call[c].stream, h.pc = p,
           p \in Early => call[c].pc \in Early,
           call' = [call EXCEPT ![c] = h]
    PROVE  \A d \in Calls : Steady(d)
<1>1. call \in [Calls -> Call]
  BY DEF MeterInv, TypeOK
<1>2. ASSUME NEW d \in Calls PROVE Steady(d)
  <2>1. CASE d = c
    BY <1>1, <2>1 DEF Steady
  <2>2. CASE d # c
    BY <1>1, <2>2 DEF Steady
  <2> QED  BY <2>1, <2>2
<1> QED  BY <1>2

LEMMA SteadyPlaces ==
    ASSUME MeterInv, NEW c \in Calls, NEW p \in {"guarding", "storing", "closed"},
           p \in Early => call[c].pc \in Early,
           call' = [call EXCEPT ![c].pc = p]
    PROVE  \A d \in Calls : Steady(d)
<1>1. call[c] \in Call
  BY SoundCalls
<1>2. PICK h : h = Turned(call[c], p, call[c].stream, call[c].told)
  OBVIOUS
<1>3. p \in Places /\ call[c].stream \in Stream /\ call[c].told \in SUBSET Charge
  BY <1>1, CallFields DEF Places
<1>4. h.ask = call[c].ask /\ h.stream = call[c].stream /\ h.pc = p
  BY <1>1, <1>2, <1>3, TurnedFields
<1>5. call' = [call EXCEPT ![c] = h]
  BY <1>2, <1>3, TurnedCalls
<1>6. p \in Early => call[c].pc \in Early
  OBVIOUS
<1> HIDE DEF Early
<1> QED  BY ONLY MeterInv, c \in Calls, p \in {"guarding", "storing", "closed"},
              <1>4, <1>5, <1>6, SteadyUpdates

LEMMA SteadyTelling ==
    ASSUME MeterInv, NEW c \in Calls, NEW x \in Charge, Tell(c, x)
    PROVE  \A d \in Calls : Steady(d)
<1>1. PICK t \in SUBSET Charge :
         call' = [call EXCEPT ![c] = Turned(call[c], "closed", call[c].stream, t)]
  BY ToldCalls
<1>2. PICK h : h = Turned(call[c], "closed", call[c].stream, t)
  OBVIOUS
<1>3. call[c] \in Call /\ "closed" \in Places /\ call[c].stream \in Stream
  BY SoundCalls, CallFields DEF Places
<1>4. h.ask = call[c].ask /\ h.stream = call[c].stream /\ h.pc = "closed"
  BY <1>2, <1>3, TurnedFields
<1>5. call' = [call EXCEPT ![c] = h]
  BY <1>1, <1>2
<1> QED  BY <1>4, <1>5, SteadyUpdates DEF Early

LEMMA HandlersAreSteady ==
    ASSUME MeterInv, NEW c \in Calls,
           \/ PlainAnswers(c) \/ MessagesAnswers(c) \/ MessagesStreamOpens(c)
           \/ ResponsesAnswers(c) \/ EmbeddingsAnswers(c) \/ ImagesAnswers(c)
           \/ SpeechAnswers(c) \/ TranscriptionAnswers(c) \/ SearchAnswers(c)
           \/ CacheHit(c) \/ GuardrailDecides(c) \/ Stored(c) \/ CallFails(c)
    PROVE  \A d \in Calls : Steady(d)
<1>1. ASSUME NEW p \in {"guarding", "storing", "closed"}, call[c].pc \in Early,
             call' = [call EXCEPT ![c].pc = p]
      PROVE  \A d \in Calls : Steady(d)
  BY <1>1, SteadyPlaces
<1>2. ASSUME NEW basis \in {"reported", "saved"}, Tell(c, Flat(basis))
      PROVE  \A d \in Calls : Steady(d)
  <2>1. PICK x \in Charge : x = Flat(basis)
    BY ChargesAreTyped
  <2> QED  BY <1>2, <2>1, SteadyTelling
<1>3. ASSUME NEW kind, AnswersAtOnce(c, kind) PROVE \A d \in Calls : Steady(d)
  BY <1>2, <1>3 DEF AnswersAtOnce
<1>4. CASE PlainAnswers(c) \/ MessagesAnswers(c) \/ MessagesStreamOpens(c)
  BY <1>1, <1>4 DEF PlainAnswers, MessagesAnswers, Answers, MessagesStreamOpens, Close, Early
<1>5. CASE CallFails(c)
  BY <1>1, <1>5 DEF CallFails, Close, Early
<1>6. CASE CacheHit(c) \/ Stored(c)
  BY <1>2, <1>6 DEF CacheHit, Stored
<1>7. CASE GuardrailDecides(c)
  BY <1>1, <1>2, <1>7 DEF GuardrailDecides, Close, Early
<1> QED
  BY <1>3, <1>4, <1>5, <1>6, <1>7 DEF ResponsesAnswers, EmbeddingsAnswers, ImagesAnswers,
     SpeechAnswers, TranscriptionAnswers, SearchAnswers

\* Record touches neither the script nor how far it was read.
LEMMA RecordIsSteady ==
    ASSUME MeterInv, NEW c \in Calls, NEW stage, Record(c, stage)
    PROVE  \A d \in Calls : Steady(d)
<1>1. call[c] \in Call /\ call[c].stream \in Stream /\ call \in [Calls -> Call]
  BY SoundCalls, CallFields DEF MeterInv, TypeOK
<1>2. PICK s : /\ s = [call[c].stream EXCEPT !.recorded = TRUE, !.capture = FALSE]
              /\ s.script = call[c].stream.script /\ s.at = call[c].stream.at
  <2> DEFINE x == [call[c].stream EXCEPT !.recorded = TRUE, !.capture = FALSE]
  <2>1. x.script = call[c].stream.script /\ x.at = call[c].stream.at
    BY <1>1 DEF Stream
  <2> QED  BY <2>1
<1>3. PICK h : /\ h = [call[c] EXCEPT !.pc = "closed", !.stream = s]
              /\ h.ask = call[c].ask /\ h.stream = s /\ h.pc = "closed"
  <2> DEFINE x == [call[c] EXCEPT !.pc = "closed", !.stream = s]
  <2>1. x.ask = call[c].ask /\ x.stream = s /\ x.pc = "closed"
    BY <1>1 DEF Call
  <2> QED  BY <2>1
<1>4. call' = [call EXCEPT ![c] = h]
  <2>1. call' = [call EXCEPT ![c].pc = "closed", ![c].stream.recorded = TRUE,
                             ![c].stream.capture = FALSE]
    BY DEF Record
  <2>2. call' = [call EXCEPT ![c] = [call[c] EXCEPT !.pc = "closed", !.stream.recorded = TRUE,
                                                    !.stream.capture = FALSE]]
    BY ONLY <2>1
  <2>3. [call[c] EXCEPT !.pc = "closed", !.stream.recorded = TRUE, !.stream.capture = FALSE] = h
    BY ONLY <1>2, <1>3
  <2> QED  BY ONLY <2>2, <2>3
<1>5. ASSUME NEW d \in Calls PROVE Steady(d)
  <2>1. CASE d = c
    BY <1>1, <1>2, <1>3, <1>4, <2>1 DEF Steady, Early
  <2>2. CASE d # c
    BY <1>1, <1>4, <2>2 DEF Steady
  <2> QED  BY <2>1, <2>2
<1> QED  BY <1>5
\* While scripts stand, what is stored stays whole, and anything new is too.
LEMMA SteadyStores ==
    ASSUME StoresTrue, \A d \in Calls : Steady(d),
           \A d \in Calls :
             /\ Len(puts[d]) = 0 => Len(puts'[d]) = 0
             /\ \A i \in 1..Len(puts'[d]) : \E k \in 1..Len(puts[d]) : puts'[d][i] = puts[d][k],
           \A e \in cache' :
             \/ e \in cache
             \/ e.by \in Calls /\ call'[e.by].pc \notin Early /\ Whole(e, call'[e.by])
    PROVE  StoresTrue'
<1>1. ASSUME NEW d \in Calls PROVE Stores(d, call'[d], puts'[d], cache')
  <2>1. PICK q, r : q = call[d] /\ r = call'[d]
    OBVIOUS
  <2>2. /\ Stores(d, q, puts[d], cache)
        /\ r.ask = q.ask /\ r.stream.script = q.stream.script /\ r.stream.at = q.stream.at
        /\ r.pc \in Early => q.pc \in Early
        /\ r.pc = "streaming" => q.pc = "streaming"
    BY <2>1 DEF StoresTrue, Steady
  <2>3. \A e : Whole(e, q) => Whole(e, r)
    BY <2>2 DEF Whole
  <2>4. r.pc \in Early => Len(puts'[d]) = 0 /\ \A e \in cache' : e.by # d
    BY <2>1, <2>2 DEF Stores
  <2>5. \A i \in 1..Len(puts'[d]) : puts'[d][i].by = d /\ Whole(puts'[d][i], r)
    BY <2>2, <2>3 DEF Stores
  <2>6. \A e \in cache' : e.by = d => Whole(e, r)
    BY <2>1, <2>2, <2>3 DEF Stores
  <2>7. r.pc = "streaming" => r.stream.script \in Scripts
    BY <2>2 DEF Stores
  <2> QED  BY <2>1, <2>4, <2>5, <2>6, <2>7 DEF Stores
<1> QED  BY <1>1 DEF StoresTrue

\* The calls that keep their place and script, and what they had stored.
LEMMA QuietStores ==
    ASSUME MeterInv, StoresTrue, \A d \in Calls : Steady(d), UNCHANGED puts,
           cache' \subseteq cache
    PROVE  StoresTrue'
  BY SteadyStores

LEMMA StoredStores ==
    ASSUME MeterInv, StoresTrue, NEW c \in Calls, Stored(c)
    PROVE  StoresTrue'
<1>1. (\A d \in Calls : Steady(d)) /\ UNCHANGED puts
  BY HandlersAreSteady DEF Stored
<1>2. call'[c].pc = "closed" /\ call'[c].ask = call[c].ask
  <2>1. call[c] \in Call /\ call \in [Calls -> Call]
    BY SoundCalls DEF MeterInv, TypeOK
  <2>2. call'[c].pc = "closed"
    BY <2>1 DEF Stored, Tell, Call
  <2> QED  BY <1>1, <2>2 DEF Steady
<1>3. CASE cache' = {[by |-> c, text |-> 0]} /\ call[c].ask.kind = "plain"
  <2>1. \A e \in cache' : /\ e.by \in Calls /\ call'[e.by].pc \notin Early
                          /\ Whole(e, call'[e.by])
    BY <1>2, <1>3 DEF Early, Whole
  <2> QED  BY <1>1, <2>1, SteadyStores
<1>4. CASE cache' = cache
  BY <1>1, <1>4, QuietStores
<1> QED  BY <1>3, <1>4 DEF Stored

LEMMA PutStores ==
    ASSUME MeterInv, StoresTrue, NEW c \in Calls, NEW i \in 1..Len(puts[c]),
           NEW ok \in BOOLEAN, PutCaptured(c, i, ok)
    PROVE  StoresTrue'
<1>1. /\ puts \in [Calls -> Seq([by : Calls, text : Nat])]
      /\ puts' = [puts EXCEPT ![c] = RemoveAt(puts[c], i)] /\ UNCHANGED call
      /\ cache' = {puts[c][i]} \/ cache' = cache
  BY DEF MeterInv, TypeOK, PutCaptured
<1>2. \A d \in Calls : Steady(d)
  BY <1>1 DEF Steady
<1>3. PICK ps \in Seq([by : Calls, text : Nat]) : ps = puts[c]
  BY <1>1
<1>4. ASSUME NEW d \in Calls
      PROVE  /\ Len(puts[d]) = 0 => Len(puts'[d]) = 0
             /\ \A j \in 1..Len(puts'[d]) : \E k \in 1..Len(puts[d]) : puts'[d][j] = puts[d][k]
  <2>1. CASE d = c
    <3>1. Len(ps) # 0
      BY <1>3
    <3>2. \A j \in 1..Len(RemoveAt(ps, i)) : \E k \in 1..Len(ps) : RemoveAt(ps, i)[j] = ps[k]
      <4> DEFINE Put == [by : Calls, text : Nat]
      <4>1. ps \in Seq(Put) /\ i \in 1..Len(ps)
        BY <1>3
      <4> HIDE DEF Put
      <4>2. \A s \in Seq(Put) : \A k \in 1..Len(s) : \A j \in 1..Len(RemoveAt(s, k)) :
               \E m \in 1..Len(s) : RemoveAt(s, k)[j] = s[m]
        BY ONLY RemoveAtKeeps
      <4> QED  BY ONLY <4>1, <4>2
    <3>3. puts'[d] = RemoveAt(ps, i)
      BY <1>1, <1>3, <2>1
    <3> QED  BY <1>3, <2>1, <3>1, <3>2, <3>3
  <2>2. CASE d # c
    <3>1. puts'[d] = puts[d]
      BY <1>1, <2>2
    <3> QED  BY <3>1
  <2> QED  BY <2>1, <2>2
<1>5. ASSUME NEW e \in cache', e \notin cache
      PROVE  e.by \in Calls /\ call'[e.by].pc \notin Early /\ Whole(e, call'[e.by])
  <2>1. e = ps[i]
    BY <1>1, <1>3, <1>5
  <2>2. Stores(c, call[c], ps, cache)
    BY <1>3 DEF StoresTrue
  <2>3. e.by = c /\ Whole(e, call[c]) /\ call[c].pc \notin Early
    BY <1>3, <2>1, <2>2 DEF Stores
  <2> QED  BY <1>1, <2>3
<1> QED  BY <1>2, <1>4, <1>5, SteadyStores
\* A call that has stored nothing starts, or opens its stream.
LEMMA FreshStores ==
    ASSUME MeterInv, StoresTrue, NEW c \in Calls, NEW h, call[c].pc \in Early,
           call' = [call EXCEPT ![c] = h], UNCHANGED <<puts, cache>>,
           h.pc = "streaming" => h.stream.script \in Scripts
    PROVE  StoresTrue'
<1>1. call \in [Calls -> Call]
  BY DEF MeterInv, TypeOK
<1>2. ASSUME NEW d \in Calls PROVE Stores(d, call'[d], puts'[d], cache')
  <2>1. Stores(d, call[d], puts[d], cache)
    BY DEF StoresTrue
  <2>2. CASE d = c
    <3>1. Len(puts[c]) = 0 /\ \A e \in cache : e.by # c
      BY <2>1, <2>2 DEF Stores
    <3>2. 1..Len(puts[c]) = {}
      BY <3>1
    <3>3. call'[d] = h /\ puts' = puts /\ cache' = cache
      BY <1>1, <2>2
    <3> QED  BY <2>2, <3>1, <3>2, <3>3 DEF Stores
  <2>3. CASE d # c
    BY <1>1, <2>1, <2>3
  <2> QED  BY <2>2, <2>3
<1> QED  BY <1>2 DEF StoresTrue

LEMMA BeginStores ==
    ASSUME MeterInv, StoresTrue, NEW c \in Calls, NEW a \in Ask, Begin(c, a)
    PROVE  StoresTrue'
<1>1. PICK h : /\ h = [pc |-> "asking", ask |-> a, began |-> storage,
                       stream |-> NoStream, told |-> {}]
              /\ h.pc = "asking"
  <2> DEFINE x == [pc |-> "asking", ask |-> a, began |-> storage,
                   stream |-> NoStream, told |-> {}]
  <2>1. x.pc = "asking"
    OBVIOUS
  <2> QED  BY <2>1
<1>2. call' = [call EXCEPT ![c] = h] /\ call[c].pc \in Early /\ UNCHANGED <<puts, cache>>
  BY <1>1 DEF Begin, Early
<1> QED  BY <1>1, <1>2, FreshStores

LEMMA OpensStores ==
    ASSUME MeterInv, StoresTrue, NEW c \in Calls, NEW script \in Scripts,
           StreamOpens(c, script)
    PROVE  StoresTrue'
<1>1. call[c] \in Call /\ call \in [Calls -> Call]
  BY SoundCalls DEF MeterInv, TypeOK
<1>2. PICK s : /\ s = [NoStream EXCEPT !.script = script, !.capture = call[c].ask.cached]
              /\ s.script = script
  <2> DEFINE x == [NoStream EXCEPT !.script = script, !.capture = call[c].ask.cached]
  <2>1. x.script = script
    BY DEF NoStream
  <2> QED  BY <2>1
<1>3. PICK h : h = [call[c] EXCEPT !.pc = "streaming", !.stream = s] /\ h.stream = s
  <2> DEFINE x == [call[c] EXCEPT !.pc = "streaming", !.stream = s]
  <2>1. x.stream = s
    BY <1>1 DEF Call
  <2> QED  BY <2>1
<1>4. call' = [call EXCEPT ![c] = h]
  BY <1>1, <1>2, <1>3 DEF StreamOpens
<1>5. call[c].pc \in Early /\ UNCHANGED <<puts, cache>>
  BY DEF StreamOpens, Early
<1>6. h.stream.script \in Scripts
  BY <1>2, <1>3
<1> QED  BY <1>4, <1>5, <1>6, FreshStores

\* Where [DONE] comes last, a capture that reached it has every line.
LEMMA CaptureIsWhole ==
    ASSUME DoneIsLast, NEW script \in Scripts, NEW to \in 1..(3 * Len(script)),
           LinesOf(script, "done") \cap Completed(script, to) # {}, Storable(script, to)
    PROVE  /\ to = 3 * Len(script)
           /\ LinesOf(script, "delta") \cap Completed(script, to) = LinesOf(script, "delta")
           /\ LinesOf(script, "usage") # {} /\ LinesOf(script, "odd") = {}
<1>1. PICK n \in Nat : n = Len(script)
  BY MeteringAssumption
<1>2. PICK i \in 1..n : script[i] = "done" /\ 3 * i <= to
  BY <1>1 DEF LinesOf, Completed
<1>3. i = n
  BY <1>1, <1>2 DEF DoneIsLast
<1>4. to = 3 * n
  BY <1>1, <1>2, <1>3
<1>5. Completed(script, to) = 1..n
  BY <1>1, <1>4 DEF Completed
<1>6. /\ "usage" \in {script[k] : k \in 1..n}
      /\ "odd" \notin {script[k] : k \in 1..n}
  BY <1>5 DEF Storable
<1>7. LinesOf(script, "usage") # {} /\ LinesOf(script, "odd") = {}
  BY <1>1, <1>6 DEF LinesOf
<1>8. LinesOf(script, "delta") \cap Completed(script, to) = LinesOf(script, "delta")
  BY <1>1, <1>5 DEF LinesOf
<1> QED  BY <1>1, <1>4, <1>7, <1>8

LEMMA ChunkStores ==
    ASSUME DoneIsLast, MeterInv, StoresTrue, NEW c \in Calls, NEW to, NEW torn \in BOOLEAN,
           ChunkPasses(c, to, torn)
    PROVE  StoresTrue'
<1> DEFINE s == call[c].stream
<1>1. /\ call[c] \in Call /\ s \in Stream /\ call \in [Calls -> Call]
      /\ call[c].ask.kind = "stream" /\ puts \in [Calls -> Seq([by : Calls, text : Nat])]
  BY SoundCalls, CallFields DEF MeterInv, TypeOK, ChunkPasses, Sound, Placed
<1>2. /\ call[c].pc = "streaming" /\ to \in (s.at + 1)..(3 * Len(s.script))
      /\ s.script \in Scripts /\ s.at \in Nat /\ Len(s.script) \in Nat
  <2>1. call[c].pc = "streaming" /\ to \in (s.at + 1)..(3 * Len(s.script))
    BY DEF ChunkPasses
  <2>2. s.script \in Seq(Lines) /\ s.at \in Nat
    BY <1>1 DEF Stream
  <2>3. s.script \in Scripts
    BY <2>1 DEF StoresTrue, Stores
  <2> QED  BY <2>1, <2>2, <2>3
<1>3. s.at # 3 * Len(s.script) /\ to \in 1..(3 * Len(s.script))
  BY <1>2
<1>4. Stores(c, call[c], puts[c], cache)
  BY DEF StoresTrue
<1>5. (\A i \in 1..Len(puts[c]) : FALSE) /\ (\A e \in cache : e.by # c)
  <2>1. \A e : ~Whole(e, call[c])
    BY <1>1, <1>3 DEF Whole
  <2> QED  BY <1>4, <2>1 DEF Stores
<1>6. PICK h : /\ call' = [call EXCEPT ![c] = h]
              /\ h.pc = "streaming" /\ h.ask = call[c].ask
              /\ h.stream.script = s.script /\ h.stream.at = to
  <2>1. PICK z \in Stream, t \in SUBSET Charge : ReadTo(c, to, z, t)
    BY ChunkTurns
  <2>2. "streaming" \in Places
    BY DEF Places
  <2>3. PICK h : h = Turned(call[c], "streaming", z, t)
    OBVIOUS
  <2>4. h.pc = "streaming" /\ h.ask = call[c].ask /\ h.stream = z
    BY <1>1, <2>2, <2>3, TurnedFields
  <2> QED  BY <2>1, <2>3, <2>4 DEF ReadTo
<1>7. \A i \in 1..Len(puts'[c]) : puts'[c][i].by = c /\ Whole(puts'[c][i], h)
  <2>1. CASE puts' = puts
    BY <1>5, <2>1
  <2>2. CASE /\ LinesOf(s.script, "done") \cap Completed(s.script, to) # {}
             /\ Storable(s.script, to)
             /\ puts' = [puts EXCEPT ![c] = Append(@, Captured(c, to))]
    <3>1. PICK e : e = Captured(c, to)
      OBVIOUS
    <3>2. e.by = c /\ e.text = Cardinality(LinesOf(s.script, "delta"))
      BY <1>2, <1>3, <2>2, <3>1, CaptureIsWhole DEF Captured
    <3>3. Whole(e, h)
      BY <1>2, <1>3, <1>6, <2>2, <3>2, CaptureIsWhole DEF Whole
    <3>4. PICK ps \in Seq([by : Calls, text : Nat]) : ps = puts[c]
      BY <1>1
    <3>5. puts'[c] = Append(ps, e)
      BY <1>1, <2>2, <3>1, <3>4
    <3>6. Len(ps) = 0
      BY <1>5, <3>4
    <3>7. Len(Append(ps, e)) = 1 /\ Append(ps, e)[1] = e
      BY <3>6
    <3> QED  BY <3>2, <3>3, <3>5, <3>7
  <2> QED  BY <2>1, <2>2 DEF ChunkPasses
<1>8. UNCHANGED cache /\ \A d \in Calls \ {c} : puts'[d] = puts[d]
  BY <1>1 DEF ChunkPasses
<1>9. ASSUME NEW d \in Calls PROVE Stores(d, call'[d], puts'[d], cache')
  <2>1. CASE d = c
    <3>1. call'[d] = h /\ "streaming" \notin Early
      BY <1>1, <1>6, <2>1 DEF Early
    <3> QED  BY <1>2, <1>5, <1>6, <1>7, <1>8, <2>1, <3>1 DEF Stores
  <2>2. CASE d # c
    <3>1. Stores(d, call[d], puts[d], cache)
      BY DEF StoresTrue
    <3> QED  BY <1>1, <1>6, <1>8, <2>2, <3>1
  <2> QED  BY <2>1, <2>2
<1> QED  BY <1>9 DEF StoresTrue
LEMMA QuietActions ==
    ASSUME MeterInv, StoresTrue, NEW c \in Calls,
           \/ PlainAnswers(c) \/ MessagesAnswers(c) \/ MessagesStreamOpens(c)
           \/ ResponsesAnswers(c) \/ EmbeddingsAnswers(c) \/ ImagesAnswers(c)
           \/ SpeechAnswers(c) \/ TranscriptionAnswers(c) \/ SearchAnswers(c)
           \/ CacheHit(c) \/ GuardrailDecides(c) \/ CallFails(c) \/ BodyEnds(c)
    PROVE  StoresTrue'
<1>1. \A d \in Calls : Steady(d)
  <2>1. CASE BodyEnds(c)
    BY <2>1, RecordIsSteady DEF BodyEnds, StreamBreaks, BodyDropped
  <2> QED  BY <2>1, HandlersAreSteady
<1>2. UNCHANGED <<puts, cache>>
  BY DEF PlainAnswers, MessagesAnswers, Answers, MessagesStreamOpens, AnswersAtOnce,
     ResponsesAnswers, EmbeddingsAnswers, ImagesAnswers, SpeechAnswers,
     TranscriptionAnswers, SearchAnswers, CacheHit, GuardrailDecides, CallFails,
     BodyEnds, StreamBreaks, BodyDropped
<1> QED  BY <1>1, <1>2, QuietStores

\* Nothing about calls changes, or they close.
LEMMA SteadyAround ==
    ASSUME MeterInv, StoresTrue,
           \/ Expire \/ (\E s \in Storages : Reload(s)) \/ Exit
           \/ \E c \in Calls : \E i \in 1..Len(tasks[c]) : TaskRuns(c, i)
    PROVE  StoresTrue'
<1>1. CASE Exit
  <2>1. ASSUME NEW d \in Calls PROVE Steady(d)
    <3>1. call[d] \in Call
      BY SoundCalls
    <3>2. PICK q \in Call : q = call[d]
      BY <3>1
    <3>3. call'[d] = [q EXCEPT !.pc = "closed"]
      BY <1>1, <3>2 DEF Exit
    <3>4. /\ [q EXCEPT !.pc = "closed"].ask = q.ask /\ [q EXCEPT !.pc = "closed"].pc = "closed"
          /\ [q EXCEPT !.pc = "closed"].stream = q.stream
      BY DEF Call
    <3> QED  BY <3>2, <3>3, <3>4 DEF Steady, Early
  <2>2. \A d \in Calls : Len(puts'[d]) = 0 /\ 1..Len(puts'[d]) = {}
    BY <1>1 DEF Exit
  <2>3. cache' = cache
    BY <1>1 DEF Exit
  <2> QED  BY <2>1, <2>2, <2>3, SteadyStores
<1>2. CASE /\ UNCHANGED <<call, puts>> /\ cache' \subseteq cache
  BY <1>2, QuietStores DEF Steady
<1>3. Expire \/ (\E s \in Storages : Reload(s)) => UNCHANGED <<call, puts>> /\ cache' \subseteq cache
  BY DEF Expire, Reload
<1>4. ASSUME NEW c \in Calls, NEW i \in 1..Len(tasks[c]), TaskRuns(c, i)
      PROVE  UNCHANGED <<call, puts, cache>>
  BY <1>4 DEF TaskRuns, LogFailure, WritePrompt, WriteCost
<1> QED  BY <1>1, <1>2, <1>3, <1>4

LEMMA StoresStep ==
    ASSUME DoneIsLast, MeterInv, StoresTrue, [Next]_vars
    PROVE  StoresTrue'
<1>1. ASSUME NEW c \in Calls, NEW a \in Ask, Begin(c, a) PROVE StoresTrue'
  BY <1>1, BeginStores
<1>2. ASSUME NEW c \in Calls, NEW script \in Scripts, StreamOpens(c, script)
      PROVE  StoresTrue'
  BY <1>2, OpensStores
<1>3. ASSUME NEW c \in Calls, NEW to, NEW torn \in BOOLEAN, ChunkPasses(c, to, torn)
      PROVE  StoresTrue'
  BY <1>3, ChunkStores
<1>4. ASSUME NEW c \in Calls, NEW i \in 1..Len(puts[c]), NEW ok \in BOOLEAN,
             PutCaptured(c, i, ok)
      PROVE  StoresTrue'
  BY <1>4, PutStores
<1>5. ASSUME NEW c \in Calls, Stored(c) PROVE StoresTrue'
  BY <1>5, StoredStores
<1>6. CASE UNCHANGED vars
  BY <1>6 DEF vars, StoresTrue
<1> QED
  BY <1>1, <1>2, <1>3, <1>4, <1>5, <1>6, QuietActions, SteadyAround DEF Next

\* Every entry, cached or about to be, is the whole of what its provider sent,
\* if a provider sends nothing after [DONE]: the capture closes there.
THEOREM CachedAnswersAreWhole ==
    ASSUME DoneIsLast
    PROVE  Spec => []CacheHoldsWholeAnswers
<1>1. Init => StoresTrue
  <2> SUFFICES ASSUME Init, NEW c \in Calls
               PROVE  Stores(c, call[c], puts[c], cache)
    BY DEF StoresTrue
  <2>1. call[c].pc = "new" /\ puts[c] = <<>> /\ cache = {}
    BY DEF Init, NewCall
  <2> QED  BY <2>1 DEF Stores
<1>2. MeterInv /\ StoresTrue /\ [Next]_vars => StoresTrue'
  BY StoresStep
<1>3. MeterInv /\ StoresTrue => CacheHoldsWholeAnswers
  <2> SUFFICES ASSUME MeterInv, StoresTrue, NEW e \in cache, call[e.by].ask.kind = "stream"
               PROVE  Whole(e, call[e.by])
    BY DEF CacheHoldsWholeAnswers, Whole
  <2>1. e.by \in Calls
    BY DEF MeterInv, TypeOK
  <2> QED  BY <2>1 DEF StoresTrue, Stores
<1> QED  BY MeterInvariant, <1>1, <1>2, <1>3, PTL DEF Spec
=============================================================================
