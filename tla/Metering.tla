------------------------------ MODULE Metering ------------------------------
(***************************************************************************)
(* What a call leaves behind once a provider, or the cache, has answered   *)
(* it: the cost-ledger row, the prompt-log row, the event sent to the      *)
(* callbacks, the cached response, and what the caller is told it cost.    *)
(*                                                                         *)
(* Handlers write none of this themselves.  They spawn a task and return,  *)
(* so a row is written while the operator reloads the storage policy, the  *)
(* client hangs up, an insert fails or the process exits.  A streamed chat *)
(* is accounted for by a logger that owns the body (StreamLogger): it      *)
(* reads the chunks as they pass and settles on [DONE], on an error, or    *)
(* when the body is dropped.                                               *)
(*                                                                         *)
(* A stream is a script of SSE lines.  The provider's bytes arrive in      *)
(* chunks cut anywhere: a line is three units, its head, its tail and its  *)
(* newline, and a chunk ends after any unit.                               *)
(***************************************************************************)
EXTENDS Naturals, SequencesExt

CONSTANTS
    Calls,          \* calls in the window looked at, which share a cache key
    Workload,       \* call -> what it may ask for, a set of Ask
    Scripts,        \* what a provider may stream, a set of sequences of Lines
    Storages        \* the storage policies an operator may load

VARIABLES
    call,           \* call -> its handler and, when it streams, its logger
    tasks,          \* call -> the logging tasks spawned for it, unfinished
    puts,           \* call -> the cache stores spawned for it, unfinished
    log,            \* call -> the rows and callback events it left
    cache,          \* the response cached under the key, if any
    storage,        \* AppState::storage, the policy in force
    up              \* the process runs

vars == <<call, tasks, puts, log, cache, storage, up>>

\* "plain" and "stream" are /v1/chat/completions.
Chats == {"plain", "stream"}
Contentless == {"embeddings", "images", "speech", "transcription", "search"}
Kinds == Chats \cup Contentless \cup {"messages", "messages_stream", "responses"}

\* noLog: the x-no-log header; retain: bound to an experiment that retains
\* content; cached: the caller's directives and policy allow the cache.
Ask == [kind : Kinds, noLog : BOOLEAN, retain : BOOLEAN, cached : BOOLEAN]

\* store_prompts and store_prompt_content.
Storage == [prompts : BOOLEAN, content : BOOLEAN]

\* "odd" is a line the capture does not understand (an error event, a second
\* choice); "usage" carries the provider's token counts.
Lines == {"delta", "odd", "usage", "done"}

ASSUME MeteringAssumption ==
    /\ Workload \in [Calls -> SUBSET Ask]
    /\ \A c \in Calls : Workload[c] # {} /\ \A a \in Workload[c] : a.retain => ~a.cached
    /\ Scripts \subseteq Seq(Lines)
    /\ Storages \subseteq Storage

\* What a call is charged: by the provider's counts, by a count of the text
\* that was read, by a guess when the stream starts, or nothing (a cache hit).
Charge == [basis : {"reported", "estimated", "guessed", "saved"}, text : Nat]
Flat(basis) == [basis |-> basis, text |-> 0]

\* StreamAcc and what else StreamLogger owns.
Stream == [script : Seq(Lines), at : Nat,
           torn     : BOOLEAN,      \* the last chunk ended inside a character
           text     : Nat,          \* deltas read into content
           usage    : BOOLEAN,      \* usage has been read
           recorded : BOOLEAN,      \* a ledger write has been spawned
           capture  : BOOLEAN]      \* the cache capture is still on
NoStream == [script |-> <<>>, at |-> 0, torn |-> FALSE, text |-> 0,
             usage |-> FALSE, recorded |-> FALSE, capture |-> FALSE]

Call == [pc : {"new", "asking", "streaming", "guarding", "storing", "closed"},
         ask : Ask, began : Storage, stream : Stream,
         told : SUBSET Charge]      \* the cost in the answer, at most one

Task == [stage : {"failure", "prompt", "cost"}, charge : Charge, linked : BOOLEAN]

Shown == {"content", "placeholder"}
Log == [ledger : Seq([charge : Charge, linked : BOOLEAN]), prompts : Seq(Shown),
        egress : Seq(Shown), failures : Nat, lost : Nat]

Show(content) == IF content THEN "content" ELSE "placeholder"

-----------------------------------------------------------------------------
(* Reading a stream.                                                       *)

LineStart(i) == 3 * i - 2
TextEnd(i) == 3 * i - 1

LinesOf(script, kind) == {i \in 1..Len(script) : script[i] = kind}

\* parse_sse_chunk: the lines whose text lies within the units from+1..to.
Parsed(script, from, to) ==
    {i \in 1..Len(script) : from < LineStart(i) /\ TextEnd(i) <= to}

\* SseLineBuffer: the lines completed by their newline, whatever the chunks.
Completed(script, to) == {i \in 1..Len(script) : 3 * i <= to}
HasPartialLine(to) == to % 3 # 0

\* Mutant: whatever reached [DONE] is stored.
StorableOnceDone(script, to) ==
    "done" \in {script[i] : i \in Completed(script, to)}

\* ChatStreamCapture::finish gives a result.
Storable(script, to) ==
    LET lines == {script[i] : i \in Completed(script, to)}
    IN  {"usage", "done"} \subseteq lines /\ "odd" \notin lines /\ ~HasPartialLine(to)

\* What it assembles: the deltas of every completed line.
Captured(c, to) ==
    LET script == call[c].stream.script
    IN  [by |-> c, text |-> Cardinality(LinesOf(script, "delta") \cap Completed(script, to))]

\* A cut between head and tail of a delta may fall inside a character, and
\* from_utf8 then rejects the chunks on both sides of it.
MayTear(script, to) ==
    \E i \in LinesOf(script, "delta") : to = LineStart(i)

-----------------------------------------------------------------------------
(* Spawning.                                                               *)

\* settle
Settlement(s) == IF s.usage THEN Flat("reported")
                 ELSE [basis |-> "estimated", text |-> s.text]

Spawn(c, stage, charge) ==
    tasks' = [tasks EXCEPT ![c] =
                Append(@, [stage |-> stage, charge |-> charge, linked |-> FALSE])]

Tell(c, charge) == call' = [call EXCEPT ![c].pc = "closed", ![c].told = {charge}]
Close(c) == call' = [call EXCEPT ![c].pc = "closed"]

\* Mutant: only the caller's header gates the callbacks.
SkipLogByHeader(q) == q.ask.noLog

SkipLog(q) == q.ask.noLog \/ ~q.began.prompts

-----------------------------------------------------------------------------
(* Handlers, from the storage policy they load to their answer.            *)

Begin(c, a) ==
    /\ up /\ call[c].pc = "new" /\ a \in Workload[c]
    /\ call' = [call EXCEPT ![c] = [pc |-> "asking", ask |-> a, began |-> storage,
                                    stream |-> NoStream, told |-> {}]]
    /\ UNCHANGED <<tasks, puts, log, cache, storage, up>>

\* Mutant: a hit is written to the ledger as spend.
CacheHitAsSpend(c) ==
    /\ call[c].pc = "asking"
    /\ call[c].ask.kind \in Chats /\ call[c].ask.cached
    /\ cache # {}
    /\ Spawn(c, "prompt", Flat("reported"))
    /\ Tell(c, Flat("saved"))
    /\ UNCHANGED <<puts, log, cache, storage, up>>

CacheHit(c) ==
    /\ call[c].pc = "asking"
    /\ call[c].ask.kind \in Chats /\ call[c].ask.cached
    /\ cache # {}
    /\ Spawn(c, "prompt", Flat("saved"))
    /\ Tell(c, Flat("saved"))
    /\ UNCHANGED <<puts, log, cache, storage, up>>

\* The provider answers a streamed chat: its body opens, and is captured for
\* the cache if it may be stored.
StreamOpens(c, script) ==
    /\ call[c].pc = "asking" /\ call[c].ask.kind = "stream"
    /\ call' = [call EXCEPT ![c].pc = "streaming",
                            ![c].stream = [NoStream EXCEPT !.script = script,
                                                           !.capture = call[c].ask.cached]]
    /\ UNCHANGED <<tasks, puts, log, cache, storage, up>>

\* The provider answers any other call.
Answers(c, kind, then) ==
    /\ call[c].pc = "asking" /\ call[c].ask.kind = kind
    /\ call' = [call EXCEPT ![c].pc = then]
    /\ UNCHANGED <<tasks, puts, log, cache, storage, up>>

\* A plain chat goes on to the response guardrails, a message to its cache.
PlainAnswers(c)    == Answers(c, "plain", "guarding")
MessagesAnswers(c) == Answers(c, "messages", "storing")

\* A streamed message is logged on a guess made as the stream starts.
MessagesStreamOpens(c) ==
    /\ call[c].pc = "asking" /\ call[c].ask.kind = "messages_stream"
    /\ Spawn(c, "prompt", Flat("guessed"))
    /\ Close(c)
    /\ UNCHANGED <<puts, log, cache, storage, up>>

\* The other endpoints spawn their logging and answer at once.
AnswersAtOnce(c, kind) ==
    /\ call[c].pc = "asking" /\ call[c].ask.kind = kind
    /\ Spawn(c, "prompt", Flat("reported"))
    /\ Tell(c, Flat("reported"))
    /\ UNCHANGED <<puts, log, cache, storage, up>>

ResponsesAnswers(c)     == AnswersAtOnce(c, "responses")
EmbeddingsAnswers(c)    == AnswersAtOnce(c, "embeddings")
ImagesAnswers(c)        == AnswersAtOnce(c, "images")
SpeechAnswers(c)        == AnswersAtOnce(c, "speech")
TranscriptionAnswers(c) == AnswersAtOnce(c, "transcription")
SearchAnswers(c)        == AnswersAtOnce(c, "search")

\* check_response decides on a plain chat; a blocked answer leaves no row.
GuardrailDecides(c) ==
    /\ call[c].pc = "guarding"
    /\ \/ Close(c) /\ UNCHANGED tasks
       \/ /\ Spawn(c, "prompt", Flat("reported"))
          /\ IF call[c].ask.cached THEN call' = [call EXCEPT ![c].pc = "storing"]
                                   ELSE Tell(c, Flat("reported"))
    /\ UNCHANGED <<puts, log, cache, storage, up>>

\* The awaited store ends and the answer goes out.  /v1/messages, whose entries
\* are its own, spawns its logging only now.
Stored(c) ==
    /\ call[c].pc = "storing"
    /\ \/ /\ call[c].ask.kind = "plain"
          /\ cache' = {[by |-> c, text |-> 0]}
          /\ UNCHANGED tasks
       \/ /\ call[c].ask.kind = "messages"
          /\ Spawn(c, "prompt", Flat("reported"))
          /\ UNCHANGED cache
    /\ Tell(c, Flat("reported"))
    /\ UNCHANGED <<puts, log, storage, up>>

\* The provider fails, or the client hangs up and the handler is dropped.
CallFails(c) ==
    /\ call[c].pc \in {"asking", "guarding", "storing"}
    /\ Close(c)
    /\ UNCHANGED <<tasks, puts, log, cache, storage, up>>

-----------------------------------------------------------------------------
(* The stream logger.                                                      *)

\* observe(Ok): the capture is fed, the chunk read, and on [DONE] the stream
\* is settled, once, and the caller told.
ChunkPasses(c, to, torn) ==
    LET s     == call[c].stream
        read  == IF s.torn \/ torn THEN {} ELSE Parsed(s.script, s.at, to)
        done  == \E i \in read : s.script[i] = "done"
        ends  == s.capture /\ LinesOf(s.script, "done") \cap Completed(s.script, to) # {}
        after == [s EXCEPT !.at = to, !.torn = torn,
                           !.text = @ + Cardinality(read \cap LinesOf(s.script, "delta")),
                           !.usage = @ \/ read \cap LinesOf(s.script, "usage") # {},
                           !.recorded = @ \/ done,
                           !.capture = @ /\ ~ends]
    IN  /\ call[c].pc = "streaming"
        /\ to \in (s.at + 1)..(3 * Len(s.script))
        /\ torn => MayTear(s.script, to)
        /\ puts' = IF ends /\ Storable(s.script, to)
                   THEN [puts EXCEPT ![c] = Append(@, Captured(c, to))]
                   ELSE puts
        /\ \/ /\ done /\ ~s.recorded
              /\ call' = [call EXCEPT ![c].stream = after, ![c].told = {Settlement(after)}]
              /\ Spawn(c, "prompt", Settlement(after))
           \/ /\ ~done \/ s.recorded
              /\ call' = [call EXCEPT ![c].stream = after]
              /\ UNCHANGED tasks
        /\ UNCHANGED <<log, cache, storage, up>>

\* Mutant: the drop guard does not look whether the stream was recorded.
RecordAgain(c, stage) ==
    /\ Close(c)
    /\ Spawn(c, stage, Settlement(call[c].stream))

\* record: spawn the ledger write unless one has been spawned.
Record(c, stage) ==
    LET s == call[c].stream
    IN  /\ call' = [call EXCEPT ![c].pc = "closed", ![c].stream.recorded = TRUE,
                                ![c].stream.capture = FALSE]
        /\ IF s.recorded THEN UNCHANGED tasks ELSE Spawn(c, stage, Settlement(s))

\* Mutant: no drop guard.
BodyDroppedUnguarded(c) ==
    /\ call[c].pc = "streaming"
    /\ Close(c)
    /\ UNCHANGED <<tasks, puts, log, cache, storage, up>>

\* observe(Err) with the drop that follows; the drop alone: the provider closed
\* the body, or the client went away.
StreamBreaks(c) ==
    /\ call[c].pc = "streaming"
    /\ Record(c, "failure")
    /\ UNCHANGED <<puts, log, cache, storage, up>>

BodyDropped(c) ==
    /\ call[c].pc = "streaming"
    /\ Record(c, "prompt")
    /\ UNCHANGED <<puts, log, cache, storage, up>>

-----------------------------------------------------------------------------
(* The spawned tasks; ok says whether the insert succeeded.                *)

\* record_failure, ahead of the ledger write of a stream that broke.
LogFailure(c, i, ok) ==
    /\ i \in 1..Len(tasks[c]) /\ tasks[c][i].stage = "failure"
    /\ tasks' = [tasks EXCEPT ![c][i].stage = "prompt"]
    /\ log' = IF ok THEN [log EXCEPT ![c].failures = @ + 1] ELSE log
    /\ UNCHANGED <<call, puts, cache, storage, up>>

\* Whether the task writes a prompt row.  The chat handlers decided when they
\* began; the other endpoints apply the policy of the moment.
WritesPrompt(q, charge) ==
    IF charge.basis = "saved" THEN ~SkipLog(q)
    ELSE IF q.ask.kind \in Chats
    THEN ~q.ask.noLog /\ (q.began.prompts \/ q.ask.retain)
    ELSE storage.prompts \/ (q.ask.kind = "embeddings" /\ q.ask.retain)

\* What the row shows: some endpoints have no messages to log.
KeepsContent(q, charge) ==
    IF charge.basis = "saved" THEN storage.content
    ELSE IF q.ask.kind \in Chats THEN q.began.content \/ q.ask.retain
    ELSE q.ask.kind \notin Contentless /\ storage.content

\* Whether the task goes on to the ledger when its prompt insert failed.
SurvivesPromptFailure(q, charge) == q.ask.kind # "plain" \/ charge.basis = "saved"

WritePrompt(c, i, ok) ==
    LET q == call[c]
        t == tasks[c][i]
    IN  /\ i \in 1..Len(tasks[c]) /\ t.stage = "prompt"
        /\ \/ /\ ~WritesPrompt(q, t.charge) /\ ok
              /\ tasks' = [tasks EXCEPT ![c][i].stage = "cost"]
              /\ UNCHANGED log
           \/ /\ WritesPrompt(q, t.charge) /\ ok
              /\ tasks' = [tasks EXCEPT ![c][i].stage = "cost", ![c][i].linked = TRUE]
              /\ log' = [log EXCEPT ![c].prompts =
                            Append(@, Show(KeepsContent(q, t.charge)))]
           \/ /\ WritesPrompt(q, t.charge) /\ ~ok
              /\ SurvivesPromptFailure(q, t.charge)
              /\ tasks' = [tasks EXCEPT ![c][i].stage = "cost"]
              /\ UNCHANGED log
           \/ /\ WritesPrompt(q, t.charge) /\ ~ok
              /\ ~SurvivesPromptFailure(q, t.charge)
              /\ tasks' = [tasks EXCEPT ![c] = RemoveAt(@, i)]
              /\ log' = [log EXCEPT ![c].lost = @ + 1]
        /\ UNCHANGED <<call, puts, cache, storage, up>>

\* Which tasks end by handing an event to the callbacks.
Notifies(q, t) ==
    \/ q.ask.kind = "plain" /\ t.charge.basis # "saved" /\ t.linked /\ ~SkipLog(q)
    \/ q.ask.kind = "messages"

WriteCost(c, i, ok) ==
    LET q == call[c]
        t == tasks[c][i]
        event == IF Notifies(q, t) THEN <<Show(storage.content)>> ELSE <<>>
    IN  /\ i \in 1..Len(tasks[c]) /\ t.stage = "cost"
        /\ tasks' = [tasks EXCEPT ![c] = RemoveAt(@, i)]
        /\ log' = [log EXCEPT
             ![c].ledger = IF ok THEN Append(@, [charge |-> t.charge, linked |-> t.linked])
                                 ELSE @,
             ![c].lost   = IF ok THEN @ ELSE @ + 1,
             ![c].egress = @ \o event]
        /\ UNCHANGED <<call, puts, cache, storage, up>>

\* A captured stream passes the response guardrails and is stored, or not.
PutCaptured(c, i, allowed) ==
    /\ i \in 1..Len(puts[c])
    /\ puts' = [puts EXCEPT ![c] = RemoveAt(@, i)]
    /\ cache' = IF allowed THEN {puts[c][i]} ELSE cache
    /\ UNCHANGED <<call, tasks, log, storage, up>>

-----------------------------------------------------------------------------
(* Around them.                                                            *)

Expire ==
    /\ cache # {}
    /\ cache' = {}
    /\ UNCHANGED <<call, tasks, puts, log, storage, up>>

\* The storage policy is reloaded.
Reload(s) ==
    /\ storage' = s
    /\ UNCHANGED <<call, tasks, puts, log, cache, up>>

\* The process exits: handlers, loggers and spawned tasks are dropped where
\* they stand, and a logger dropped now has nothing to spawn on.
Unrecorded(c) == call[c].pc = "streaming" /\ ~call[c].stream.recorded

Exit ==
    /\ up /\ up' = FALSE
    /\ call' = [c \in Calls |-> [call[c] EXCEPT !.pc = "closed"]]
    /\ tasks' = [c \in Calls |-> <<>>]
    /\ puts' = [c \in Calls |-> <<>>]
    /\ log' = [c \in Calls |-> [log[c] EXCEPT
                 !.lost = @ + Len(tasks[c]) + (IF Unrecorded(c) THEN 1 ELSE 0)]]
    /\ UNCHANGED <<cache, storage>>

-----------------------------------------------------------------------------
NewCall(c, s) == [pc |-> "new", ask |-> CHOOSE a \in Workload[c] : TRUE, began |-> s,
                  stream |-> NoStream, told |-> {}]
NewLog == [ledger |-> <<>>, prompts |-> <<>>, egress |-> <<>>, failures |-> 0, lost |-> 0]

Init ==
    /\ storage \in Storages
    /\ call = [c \in Calls |-> NewCall(c, storage)]
    /\ tasks = [c \in Calls |-> <<>>]
    /\ puts = [c \in Calls |-> <<>>]
    /\ log = [c \in Calls |-> NewLog]
    /\ cache = {}
    /\ up = TRUE

\* A call's own body and tasks moving on.
BodyEnds(c) == StreamBreaks(c) \/ BodyDropped(c)

TaskRuns(c, i) ==
    \E ok \in BOOLEAN :
        LogFailure(c, i, ok) \/ WritePrompt(c, i, ok) \/ WriteCost(c, i, ok)

Next ==
    \/ \E c \in Calls, a \in Ask : Begin(c, a)
    \/ \E c \in Calls, script \in Scripts : StreamOpens(c, script)
    \/ \E c \in Calls : \/ PlainAnswers(c) \/ MessagesAnswers(c) \/ MessagesStreamOpens(c)
                        \/ ResponsesAnswers(c) \/ EmbeddingsAnswers(c) \/ ImagesAnswers(c)
                        \/ SpeechAnswers(c) \/ TranscriptionAnswers(c) \/ SearchAnswers(c)
    \/ \E c \in Calls : \/ CacheHit(c) \/ GuardrailDecides(c) \/ Stored(c)
                        \/ CallFails(c) \/ BodyEnds(c)
    \/ \E c \in Calls : \E to \in 1..(3 * Len(call[c].stream.script)), torn \in BOOLEAN :
            ChunkPasses(c, to, torn)
    \/ \E c \in Calls : \E i \in 1..Len(tasks[c]) : TaskRuns(c, i)
    \/ \E c \in Calls : \E i \in 1..Len(puts[c]), ok \in BOOLEAN : PutCaptured(c, i, ok)
    \/ Expire
    \/ \E s \in Storages : Reload(s)
    \/ Exit

Spec == Init /\ [][Next]_vars

\* The runtime runs what was spawned, and a body ends: the provider's client
\* bounds the whole response by timeout_secs.  Handlers may take for ever.
FairSpec ==
    /\ Spec
    /\ \A c \in Calls :
         /\ WF_vars(BodyEnds(c))
         /\ WF_vars(\E i \in 1..Len(tasks[c]) : TaskRuns(c, i))

-----------------------------------------------------------------------------
(* Properties.                                                             *)

\* Every variable keeps its shape, and one key caches one response.
TypeOK ==
    /\ call \in [Calls -> Call]
    /\ tasks \in [Calls -> Seq(Task)]
    /\ puts \in [Calls -> Seq([by : Calls, text : Nat])]
    /\ log \in [Calls -> Log]
    /\ cache \in SUBSET [by : Calls, text : Nat] /\ Cardinality(cache) <= 1
    /\ storage \in Storages
    /\ up \in BOOLEAN

\* The answers that must be charged: an opened stream, whatever becomes of it,
\* an answer that was delivered, and a plain chat past its guardrails.
Owed(c) ==
    \/ call[c].stream # NoStream
    \/ call[c].told # {}
    \/ call[c].pc = "storing" /\ call[c].ask.kind = "plain"

\* A charge is on the ledger, on its way there in a task, still with the
\* stream's logger, or lost to a failed insert or an exit; and it is in one of
\* these places once.  Neither [DONE] followed by an error or a drop, nor a
\* drop before [DONE], charges a caller twice or not at all.
ChargesOf(c) ==
    Len(log[c].ledger) + log[c].lost + Len(tasks[c]) + (IF Unrecorded(c) THEN 1 ELSE 0)

ChargedExactlyOnce ==
    \A c \in Calls : ChargesOf(c) <= 1 /\ (Owed(c) => ChargesOf(c) = 1)

\* What the caller is told a call cost is what the ledger says, although the
\* stream goes on after it was told and the row is written later (README.md,
\* "Every figure is the value the router wrote to its cost_ledger").
ToldIsCharged ==
    \A c \in Calls : \A told \in call[c].told :
        /\ \A i \in 1..Len(log[c].ledger) : log[c].ledger[i].charge = told
        /\ \A i \in 1..Len(tasks[c]) : tasks[c][i].charge = told

\* A chat leaves a prompt row only if the caller did not opt out and, when it
\* began, the operator kept prompts or an experiment retained them; events
\* leave the router only with the caller's and the operator's leave, whatever
\* an experiment retains and however often the policy is reloaded meanwhile.
ConsentHonoured ==
    \A c \in Calls :
        LET q == call[c]
        IN  q.ask.kind \in Chats =>
              /\ log[c].prompts # <<>> =>
                    ~q.ask.noLog /\ (q.began.prompts \/ q.ask.retain)
              /\ log[c].egress # <<>> => ~q.ask.noLog /\ q.began.prompts

\* Only a stream that reached [DONE] and was understood in full is replayed to
\* other callers: never a broken, cut short or partly read one.
CacheHoldsWholeAnswers ==
    \A e \in cache :
        LET script == call[e.by].stream.script
        IN  call[e.by].ask.kind = "stream" =>
              /\ e.text = Cardinality(LinesOf(script, "delta"))
              /\ LinesOf(script, "usage") # {} /\ LinesOf(script, "odd") = {}
              /\ call[e.by].stream.at = 3 * Len(script)

\* Every opened stream is charged in the end, however it ends, unless an
\* insert fails or the process exits.
StreamsAreCharged ==
    \A c \in Calls :
        call[c].pc = "streaming" ~> log[c].ledger # <<>> \/ log[c].lost > 0
=============================================================================
