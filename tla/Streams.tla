------------------------------ MODULE Streams ------------------------------
(***************************************************************************)
(* One streamed answer on its way through the process: what the provider   *)
(* sends, how the transport cuts it, how an adapter turns it into the      *)
(* caller's dialect, how it is assembled for the response cache, and how   *)
(* the entry is played back to a later caller.                             *)
(*                                                                         *)
(* Four ways are modelled.  "messages": Anthropic events handed on as they *)
(* are and read by MessagesStreamCapture.  "anthropic": the same events    *)
(* turned into chat chunks by AnthropicSseTranslator and read by           *)
(* ChatStreamCapture.  "vertex": the same translator behind the line       *)
(* buffer of the Vertex adapter.  "gemini": Gemini frames behind that      *)
(* buffer.  An OpenAI-shaped stream passes as it is and is the business of *)
(* Metering.                                                               *)
(*                                                                         *)
(* Text, thinking and tool input are sequences of fragments, one a delta.  *)
(* A line is delivered in one piece or in two; what is between data lines  *)
(* (event names, blank lines) is left out.                                 *)
(***************************************************************************)
EXTENDS Integers, FiniteSets, SequencesExt

CONSTANTS
    Answers,        \* the answers the provider may give
    Dialects,       \* the ways modelled, of the four above
    Wide,           \* fragments with a character of several bytes
    Broken          \* fragments of tool input that never become JSON

VARIABLES
    dialect, answer,
    script,         \* the data lines the provider sends, if nothing breaks
    at,             \* half lines delivered
    torn,           \* lines that were cut inside a character
    native,         \* MessagesStreamCapture
    translator,     \* AnthropicSseTranslator or GeminiSseTranslator
    chat,           \* ChatStreamCapture
    emitted,        \* the adapter has produced some line
    capturing,      \* the capture is still there
    phase,          \* the body "flows", was "closed" by the provider, or "lost"
    captured,       \* what was captured and is not yet stored
    store           \* the entry under the request's key

streamVars == <<dialect, answer, script, at, torn, native, translator, chat, emitted,
                capturing, phase, captured, store>>

-----------------------------------------------------------------------------
(* The answers.  A block's body is its text, thinking or tool input; more is    *)
(* what else its deltas carry: citations of a text, the signature of thinking.  *)

Block == [kind : STRING, id : STRING, body : Seq(STRING), more : Seq(STRING)]

\* Thinking is signed once, a tool use carries nothing else, an answer says why it
\* ends, in the provider's own words, and its last event counts the output.
IsAnswer(m) ==
    /\ m.blocks \in Seq(Block)
    /\ \A i \in DOMAIN m.blocks :
           /\ m.blocks[i].kind = "thinking" => Len(m.blocks[i].more) <= 1
           /\ m.blocks[i].kind \in {"tool_use", "server_tool_use"} =>
                  m.blocks[i].more = <<>>
    /\ m.stop \in STRING \ {"none", "tool_calls"}
    /\ "output" \in DOMAIN m.last
    /\ \A u \in {m.first, m.last} : \A f \in DOMAIN u : u[f] \in Nat

ASSUME StreamsAssumption == \A m \in Answers : IsAnswer(m)

-----------------------------------------------------------------------------
(* What the provider sends. *)

Empty == [f \in {} |-> 0]
With(f, i, v) == [j \in DOMAIN f \cup {i} |-> IF j = i THEN v ELSE f[j]]

\* What is reported later replaces what was reported before, field by field.
Merged(old, new) ==
    [f \in DOMAIN old \cup DOMAIN new |-> IF f \in DOMAIN new THEN new[f] ELSE old[f]]

Reported(usage, field) == IF field \in DOMAIN usage THEN usage[field] ELSE 0

\* Blocks that open empty and grow by deltas; every other kind opens complete.
BodyDelta == [text |-> "text_delta", thinking |-> "thinking_delta",
              tool_use |-> "input_json_delta", server_tool_use |-> "input_json_delta"]
MoreDelta == [text |-> "citations_delta", thinking |-> "signature_delta"]

Opening(b) == IF b.kind \in DOMAIN BodyDelta
              THEN [b EXCEPT !.body = <<>>, !.more = <<>>] ELSE b

Delta(i, type, fs) ==
    [type |-> "content_block_delta", index |-> i, delta |-> type, text |-> fs]

\* Each names its fragments one by one, and a citation or signature after them.
DeltasOf(i, b) ==
    IF b.kind \notin DOMAIN BodyDelta THEN <<>>
    ELSE [k \in DOMAIN b.body |-> Delta(i, BodyDelta[b.kind], <<b.body[k]>>)]
         \o [k \in DOMAIN b.more |-> Delta(i, MoreDelta[b.kind], <<b.more[k]>>)]

BlockEvents(i, b, deltas) ==
    <<[type |-> "content_block_start", index |-> i, block |-> Opening(b)]>>
    \o deltas \o <<[type |-> "content_block_stop", index |-> i]>>

\* deltas: those of each block.
MessageEvents(blocks, deltas, first, stop, last) ==
    <<[type |-> "message_start", usage |-> first]>>
    \o FlattenSeq([i \in DOMAIN blocks |-> BlockEvents(i, blocks[i], deltas[i])])
    \o <<[type |-> "message_delta", stop |-> stop, usage |-> last],
         [type |-> "message_stop"]>>

AnthropicEvents(m) ==
    MessageEvents(m.blocks, [i \in DOMAIN m.blocks |-> DeltasOf(i, m.blocks[i])],
                  m.first, m.stop, m.last)

\* Gemini reports usage with every frame and the finish reason with the last.
GeminiFrames(m) ==
    LET body == m.blocks[1].body
    IN [k \in DOMAIN body |->
            IF k = Len(body)
            THEN [type |-> "frame", text |-> <<body[k]>>, finish |-> {m.stop},
                  usage |-> Merged(m.first, m.last)]
            ELSE [type |-> "frame", text |-> <<body[k]>>, finish |-> {}, usage |-> m.first]]

ForGemini(m) == /\ Len(m.blocks) = 1 /\ m.blocks[1].kind = "text"
                /\ m.blocks[1].body # <<>> /\ m.blocks[1].more = <<>>

Clean(d, m) == IF d = "gemini" THEN GeminiFrames(m) ELSE AnthropicEvents(m)

\* A keep-alive somewhere in it, an event nobody knows, an error that ends it,
\* or a JSON body where a stream was asked for.
Disturbed(s) ==
    {InsertAt(s, k, [type |-> t]) : k \in 1..Len(s), t \in {"ping", "unknown"}}
    \cup {SubSeq(s, 1, k) \o <<[type |-> "error"]>> : k \in 0..(Len(s) - 1)}
    \cup {<<[type |-> "json"]>>}

Scripts(d, m) == {Clean(d, m)} \cup Disturbed(Clean(d, m))

-----------------------------------------------------------------------------
(* MessagesStreamCapture: one line of the native stream. *)

NativeNew == [message |-> {}, blocks |-> Empty, done |-> FALSE, unusable |-> FALSE]

\* Mutant: an unknown event is passed over.
IgnoreUnknown(c, e) == c
Unknown(c, e) == [c EXCEPT !.unusable = TRUE]

Start(c, e) == [c EXCEPT !.message = {[usage |-> e.usage, stop |-> "none"]}]

Open(c, e) == [c EXCEPT !.blocks = With(@, e.index, [block |-> e.block, json |-> <<>>])]

\* A signature replaces the one before it, everything else is appended.
Grown(acc, e) ==
    CASE e.delta \in {"text_delta", "thinking_delta"} ->
            [acc EXCEPT !.block.body = @ \o e.text]
      [] e.delta = "input_json_delta" -> [acc EXCEPT !.json = @ \o e.text]
      [] e.delta = "signature_delta" -> [acc EXCEPT !.block.more = e.text]
      [] e.delta = "citations_delta" -> [acc EXCEPT !.block.more = @ \o e.text]

Grow(c, e) == IF e.index \in DOMAIN c.blocks
              THEN [c EXCEPT !.blocks[e.index] = Grown(@, e)]
              ELSE Unknown(c, e)

Amend(c, e) == IF c.message = {} THEN Unknown(c, e)
               ELSE [c EXCEPT !.message = {[usage |-> Merged(m.usage, e.usage),
                                               stop |-> e.stop] : m \in @}]

FeedLine(c, e) ==
    IF c.unusable \/ c.done THEN c ELSE
    CASE e.type \in {"json", "ping", "content_block_stop"} -> c
      [] e.type = "message_start" -> Start(c, e)
      [] e.type = "content_block_start" -> Open(c, e)
      [] e.type = "content_block_delta" -> Grow(c, e)
      [] e.type = "message_delta" -> Amend(c, e)
      [] e.type = "message_stop" -> [c EXCEPT !.done = TRUE]
      [] OTHER -> Unknown(c, e)

\* The values of f by their numbers, as a BTreeMap gives them.
InOrder(f) ==
    [k \in 1..Cardinality(DOMAIN f) |->
        f[CHOOSE i \in DOMAIN f : Cardinality({j \in DOMAIN f : j < i}) = k - 1]]

\* Tool input is put in place once it is whole; nothing at all is {}.
Assembled(acc) ==
    IF acc.block.kind = "tool_use" \/ acc.json # <<>>
    THEN [acc.block EXCEPT !.body = acc.json] ELSE acc.block

IsJson(acc) == \A k \in DOMAIN acc.json : acc.json[k] \notin Broken

\* MessagesStreamCapture::finish: no answer unless it is whole.
FinishMessage(c, partial) ==
    {[blocks |-> InOrder([i \in DOMAIN c.blocks |-> Assembled(c.blocks[i])]),
      usage |-> m.usage, stop |-> m.stop] :
        m \in {x \in c.message : /\ c.done /\ ~c.unusable /\ ~partial
                                 /\ x.stop # "none"
                                 /\ \A i \in DOMAIN c.blocks : IsJson(c.blocks[i])}}

-----------------------------------------------------------------------------
(* The translators: one line in, no chat line, one, or the last two. *)

Chunk(text, calls, finish, usage) ==
    [type |-> "chunk", text |-> text, calls |-> calls, finish |-> finish, usage |-> usage]
Text(fs) == Chunk(fs, <<>>, {}, {})
Call(i, id, args) == [index |-> i, id |-> id, args |-> args]
DoneLine == [type |-> "done"]
ErrorLine == [type |-> "error"]

\* tools: content block -> number among the tool calls; finish: for Gemini.
TranslatorNew == [usage |-> Empty, tools |-> Empty, finish |-> {}]

Absorb(t, usage) == [t EXCEPT !.usage = Merged(@, usage)]

Closing(t, stop) ==
    LET prompt == Reported(t.usage, "input") + Reported(t.usage, "read")
    IN <<Chunk(<<>>, <<>>, {IF stop = "tool_use" THEN "tool_calls" ELSE "stop"},
               IF DOMAIN t.usage = {} THEN {}
               ELSE {[prompt |-> prompt, completion |-> Reported(t.usage, "output"),
                      cached |-> Reported(t.usage, "read"),
                      reasoning |-> {t.usage[f] : f \in {"thinking"} \cap DOMAIN t.usage}]}),
         DoneLine>>

\* Mutant: every tool use is one.
OpensAnyCall(e) == e.block.kind \in {"tool_use", "server_tool_use"}
\* Whether a block that opens is a call of the caller's tools.
OpensCall(e) == e.block.kind = "tool_use"

\* [t, out]: the translator after the line, and the chat lines it gives.
TranslateAnthropic(t, e) ==
    LET quiet == [t |-> t, out |-> <<>>]
        n == Cardinality(DOMAIN t.tools)
    IN CASE e.type = "message_start" -> [quiet EXCEPT !.t = Absorb(t, e.usage)]
         [] e.type = "content_block_start" /\ OpensCall(e) ->
                [t |-> [t EXCEPT !.tools = With(@, e.index, n)],
                 out |-> <<Chunk(<<>>, <<Call(n, {e.block.id}, <<>>)>>, {}, {})>>]
         [] e.type = "content_block_delta" /\ e.delta = "text_delta" ->
                [quiet EXCEPT !.out = <<Text(e.text)>>]
         [] /\ e.type = "content_block_delta" /\ e.delta = "input_json_delta"
            /\ e.index \in DOMAIN t.tools ->
                [quiet EXCEPT !.out = <<Chunk(<<>>, <<Call(t.tools[e.index], {}, e.text)>>,
                                              {}, {})>>]
         [] e.type = "message_delta" ->
                [t |-> Absorb(t, e.usage), out |-> Closing(Absorb(t, e.usage), e.stop)]
         [] OTHER -> quiet

GeminiFinish(stop) == CASE stop = "max_tokens" -> "length"
                        [] stop = "refusal" -> "content_filter"
                        [] OTHER -> "stop"

TranslateGemini(t, e) ==
    IF e.type # "frame" THEN [t |-> t, out |-> <<>>]
    ELSE [t |-> [Absorb(t, e.usage) EXCEPT
                     !.finish = IF e.finish = {} THEN @
                                ELSE {GeminiFinish(s) : s \in e.finish}],
          out |-> <<Text(e.text)>>]

\* acc: the translator, and the chat lines so far.
Onward(acc, step) == [t |-> step.t, out |-> acc.out \o step.out]
AnthropicLine(acc, e) == Onward(acc, TranslateAnthropic(acc.t, e))
GeminiLine(acc, e) == Onward(acc, TranslateGemini(acc.t, e))

TranslateAll(t, lines) ==
    IF dialect = "gemini" THEN FoldLeft(GeminiLine, [t |-> t, out |-> <<>>], lines)
    ELSE FoldLeft(AnthropicLine, [t |-> t, out |-> <<>>], lines)

\* GeminiSseTranslator::final_chunk, sent when the body has ended.
FinalChunk(t) ==
    <<Chunk(<<>>, <<>>, IF t.finish = {} THEN {"stop"} ELSE t.finish,
            IF DOMAIN t.usage = {} THEN {}
            ELSE {[prompt |-> Reported(t.usage, "input"),
                   completion |-> Reported(t.usage, "output"),
                   cached |-> Reported(t.usage, "read"), reasoning |-> {}]}),
      DoneLine>>

-----------------------------------------------------------------------------
(* ChatStreamCapture: one line of the chat stream. *)

ChatNew == [content |-> <<>>, calls |-> Empty, finish |-> {}, usage |-> {},
            done |-> FALSE, unusable |-> FALSE]

\* A call's first mention makes it; its identity is set, its arguments grow.
Called(calls, k) ==
    LET old == IF k.index \in DOMAIN calls THEN calls[k.index]
               ELSE [id |-> {}, args |-> <<>>]
    IN With(calls, k.index, [id   |-> IF k.id = {} THEN old.id ELSE k.id,
                             args |-> old.args \o k.args])

Latest(new, old) == IF new = {} THEN old ELSE new

FeedChunk(c, l) ==
    IF c.unusable \/ c.done THEN c ELSE
    CASE l.type = "done" -> [c EXCEPT !.done = TRUE]
      [] l.type = "error" -> [c EXCEPT !.unusable = TRUE]
      [] l.type = "chunk" ->
            [c EXCEPT !.content = @ \o l.text, !.calls = FoldLeft(Called, @, l.calls),
                      !.finish = Latest(l.finish, @), !.usage = Latest(l.usage, @)]

Completion(content, calls, finish, u, written) ==
    [content |-> content, calls |-> calls, finish |-> finish, prompt |-> u.prompt,
     completion |-> u.completion, cached |-> u.cached, written |-> written,
     reasoning |-> u.reasoning]

\* ChatStreamCapture::finish.
FinishChat(c) ==
    {Completion(c.content, InOrder(c.calls),
                IF c.finish = {} THEN "stop" ELSE CHOOSE f \in c.finish : TRUE, u, 0) :
        u \in {x \in c.usage : /\ c.done /\ ~c.unusable
                               /\ \A i \in DOMAIN c.calls : c.calls[i].id # {}}}

-----------------------------------------------------------------------------
(* Playing an entry back. *)

\* Mutant: no citation or signature is played back.
ReplayBodies(i, b) ==
    IF b.kind \notin DOMAIN BodyDelta THEN <<>>
    ELSE <<Delta(i, BodyDelta[b.kind], b.body)>>

\* replay_block: a delta for the body, one for each citation or the signature.
ReplayDeltas(i, b) ==
    IF b.kind \notin DOMAIN BodyDelta THEN <<>>
    ELSE <<Delta(i, BodyDelta[b.kind], b.body)>>
         \o [k \in DOMAIN b.more |-> Delta(i, MoreDelta[b.kind], <<b.more[k]>>)]
\* messages_replay_sse: the whole usage at the end, and no output yet at the start.
ReplayMessage(m) ==
    MessageEvents(m.blocks, [i \in DOMAIN m.blocks |-> ReplayDeltas(i, m.blocks[i])],
                  With(m.usage, "output", 0), m.stop, m.usage)

\* chat_replay_chunks, and the usage chunk and [DONE] of replay_completion_stream.
ReplayChat(p) ==
    <<Chunk(p.content, [i \in DOMAIN p.calls |-> Call(i - 1, p.calls[i].id, p.calls[i].args)],
            {}, {}),
      Chunk(<<>>, <<>>, {p.finish}, {}),
      Chunk(<<>>, <<>>, {}, {[prompt |-> p.prompt, completion |-> p.completion,
                              cached |-> p.cached, reasoning |-> p.reasoning]}),
      DoneLine>>

-----------------------------------------------------------------------------
(* The stream in the process. *)

StreamsInit ==
    /\ dialect \in Dialects
    /\ answer \in {m \in Answers : dialect = "gemini" => ForGemini(m)}
    /\ script \in Scripts(dialect, answer)
    /\ at = 0 /\ torn = {}
    /\ native = NativeNew /\ translator = TranslatorNew /\ chat = ChatNew
    /\ emitted = FALSE /\ capturing = TRUE /\ phase = "flows"
    /\ captured = {} /\ store = {}

IsWide(e) == /\ e.type \in {"content_block_delta", "frame"}
             /\ \E k \in DOMAIN e.text : e.text[k] \in Wide

\* The Vertex adapter decodes each piece by itself; a character cut in two
\* comes out as replacement characters.  SseLineBuffer keeps the bytes.
DecodesPieces == dialect \in {"vertex", "gemini"}

Read(k) == IF DecodesPieces /\ k \in torn THEN [script[k] EXCEPT !.text = <<"garbled">>]
           ELSE script[k]

\* The lines that a chunk up to half line `to` completes.
Completed(to) == [k \in 1..((to \div 2) - (at \div 2)) |-> Read((at \div 2) + k)]

Cuts(to) == to % 2 = 1 /\ IsWide(script[(to + 1) \div 2])

CaptureNative(lines, partial) ==
    LET c == FoldLeft(FeedLine, native, lines)
    IN /\ native' = c
       /\ captured' = IF capturing /\ c.done THEN FinishMessage(c, partial) ELSE captured
       /\ capturing' = (capturing /\ ~c.done)
       /\ UNCHANGED <<translator, chat, emitted>>

\* The lines an adapter gives are whole, so the chat capture has no partial one.
CaptureChat(t, lines) ==
    LET c == FoldLeft(FeedChunk, chat, lines)
    IN /\ translator' = t /\ chat' = c
       /\ emitted' = (emitted \/ lines # <<>>)
       /\ captured' = IF capturing /\ c.done THEN FinishChat(c) ELSE captured
       /\ capturing' = (capturing /\ ~c.done)
       /\ UNCHANGED native

Deliver(to) ==
    /\ phase = "flows" /\ to > at
    /\ IF dialect = "messages" THEN CaptureNative(Completed(to), to % 2 = 1)
       ELSE LET step == TranslateAll(translator, Completed(to))
            IN CaptureChat(step.t, step.out)
    /\ at' = to
    /\ \/ torn' = torn
       \/ Cuts(to) /\ torn' = torn \cup {(to + 1) \div 2}
    /\ UNCHANGED <<dialect, answer, script, phase, store>>

\* The body ends.  The Vertex adapter reports one that gave no line at all, and
\* finishes a Gemini stream itself.
Ending ==
    (IF DecodesPieces /\ at > 0 /\ ~emitted THEN <<ErrorLine>> ELSE <<>>)
    \o (IF dialect = "gemini" THEN FinalChunk(translator) ELSE <<>>)

Closes ==
    /\ phase = "flows" /\ phase' = "closed"
    /\ IF dialect = "messages"
       THEN UNCHANGED <<native, translator, chat, emitted, captured, capturing>>
       ELSE CaptureChat(translator, Ending)
    /\ UNCHANGED <<dialect, answer, script, at, torn, store>>

\* The connection breaks, or the caller leaves.
Lost ==
    /\ phase = "flows" /\ phase' = "lost"
    /\ capturing' = FALSE
    /\ UNCHANGED <<dialect, answer, script, at, torn, native, translator, chat,
                   emitted, captured, store>>

\* The spawned task stores what was captured; response guardrails may keep an
\* answer of the chat endpoints from it (one that rewrites the text is left out).
Put ==
    /\ captured # {} /\ captured' = {}
    /\ \/ store' = captured
       \/ dialect # "messages" /\ store' = store
    /\ UNCHANGED <<dialect, answer, script, at, torn, native, translator, chat,
                   emitted, capturing, phase>>

StreamsNext == \/ \E to \in 1..(2 * Len(script)) : Deliver(to)
               \/ Closes \/ Lost \/ Put

StreamsSpec == StreamsInit /\ [][StreamsNext]_streamVars

-----------------------------------------------------------------------------
(* What a plain call for the same answer would have stored. *)

PlainMessage(m) == [blocks |-> m.blocks, usage |-> Merged(m.first, m.last), stop |-> m.stop]

MapStop(stop) == IF dialect = "gemini" THEN GeminiFinish(stop)
                 ELSE IF stop = "tool_use" THEN "tool_calls" ELSE stop

\* A plain answer spells an empty input out; a stream may name none of it.
Input(fs) == IF fs = <<>> THEN <<"{}">> ELSE fs

TextOf(b) == IF b.kind = "text" THEN b.body ELSE <<>>
CallsOf(b) == IF b.kind = "tool_use" THEN <<[id |-> {b.id}, args |-> Input(b.body)]>>
              ELSE <<>>

PlainChat(m) ==
    LET u == Merged(m.first, m.last)
    IN Completion(FlattenSeq([i \in DOMAIN m.blocks |-> TextOf(m.blocks[i])]),
                  FlattenSeq([i \in DOMAIN m.blocks |-> CallsOf(m.blocks[i])]),
                  MapStop(m.stop),
                  [prompt |-> Reported(u, "input"), completion |-> Reported(u, "output"),
                   cached |-> Reported(u, "read"),
                   reasoning |-> {u[f] : f \in {"thinking"} \cap DOMAIN u}],
                  Reported(u, "written"))

-----------------------------------------------------------------------------
(* Properties. *)

\* The line that makes the answer whole has come, and with it, for the strict
\* reader of the native stream, nothing it has to stop at.
Finishes(e) == CASE dialect = "messages" -> e.type = "message_stop"
                 [] dialect = "gemini" -> e.type = "frame" /\ e.finish # {}
                 [] OTHER -> e.type = "message_delta"

Stops(e) == dialect = "messages" /\ e.type \in {"unknown", "error"}

Whole == \E k \in 1..(at \div 2) : /\ Finishes(script[k])
                                  /\ \A j \in 1..k : ~Stops(script[j])

Results == captured \cup store

\* No tool input was cut short by the token limit.
Intact(m) == \A i \in DOMAIN m.blocks : Range(m.blocks[i].body) \cap Broken = {}

\* MessagesStreamCapture stores an answer exactly when it came whole and was
\* understood, and then the very message a plain /v1/messages call returns: block
\* by block, with tool inputs put together, usage merged and the stop reason, for
\* every way the transport cuts it, whatever error, unknown event or end comes in
\* between (stream.rs:12-15, 231-341).
NativeCaptureExact ==
    dialect = "messages" =>
        /\ \A e \in Results : Whole /\ e = PlainMessage(answer)
        /\ Whole /\ Intact(answer) => FinishMessage(native, FALSE) # {}

\* An answer that came whole over a translated stream is stored with the text of
\* the plain call, its tool calls under their ids, in their order and each with its
\* own arguments (content blocks and calls are numbered differently, anthropic.rs:
\* 628-632), the tokens it cost and those the provider's cache gave, its thinking
\* tokens on the two Anthropic ways, and "tool_calls" for its finish exactly when
\* the plain call has that, on which clients dispatch (anthropic.rs:391-396); and it
\* can be stored.  That the whole entry is the plain call's, as cache/stream.rs:3-4
\* has it, is not so and is not asserted: prompt tokens, the other finish reasons,
\* the tokens written to the provider's cache, the arguments of a call without input
\* and Gemini's thinking tokens differ.  Also left out: a character cut on the
\* Vertex way, a Gemini body that ends before its finish reason, and a tool input
\* the token limit cut short.
StreamKeepsAnswer ==
    LET plain == PlainChat(answer)
        SameCalls(e) ==
            /\ DOMAIN e.calls = DOMAIN plain.calls
            /\ \A i \in DOMAIN plain.calls :
                   /\ e.calls[i].id = plain.calls[i].id
                   /\ plain.calls[i].args # Input(<<>>) => e.calls[i].args = plain.calls[i].args
        Keeps(e) ==
            /\ e.content = plain.content
            /\ Intact(answer) => SameCalls(e)
            /\ e.completion = plain.completion /\ e.cached = plain.cached
            /\ dialect # "gemini" => e.reasoning = plain.reasoning
            /\ e.finish = "tool_calls" <=> plain.finish = "tool_calls"
    IN dialect # "messages" =>
        /\ dialect # "gemini" /\ Results # {} => Whole
        /\ Whole /\ torn = {} => \A e \in Results : Keeps(e)
        /\ Whole /\ (dialect = "gemini" => phase = "closed") => FinishChat(chat) # {}

\* A caller who assembles the replay of an entry has the entry again, be it stored
\* from a stream or by a plain call: every block with its citations, signature and
\* input, every call, the counts and the finish (stream.rs:159-188, 350-436).  A
\* chat replay has no place for the tokens written to the provider's cache.
ReplayRebuilds ==
    IF dialect = "messages"
    THEN \A e \in store \cup {PlainMessage(answer)} :
            Intact(e) => FinishMessage(FoldLeft(FeedLine, NativeNew, ReplayMessage(e)), FALSE)
                             = {e}
    ELSE \A e \in store \cup {PlainChat(answer)} :
            FinishChat(FoldLeft(FeedChunk, ChatNew, ReplayChat(e)))
                = {[e EXCEPT !.written = 0]}

\* The text that is stored for later callers is the text the provider sent.  The
\* Vertex adapter decodes each piece of the body by itself (vertex/adapter.rs:425).
TextSurvives ==
    dialect # "messages" /\ Whole =>
        \A e \in store : e.content = PlainChat(answer).content
=============================================================================
