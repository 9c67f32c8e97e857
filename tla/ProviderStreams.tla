--------------------------- MODULE ProviderStreams ---------------------------
(***************************************************************************)
(* One streamed answer: the events of the provider, the assembler of its   *)
(* adapter (OpenAIStreamAssembler, AnthropicStreamAssembler,               *)
(* GeminiStreamAssembler), and the loop of Conversation.sendStream that    *)
(* collects the canonical chunks into the assistant message of the turn.   *)
(* The connection may end at any event, the provider may report an error,  *)
(* and the consumer may cancel.                                            *)
(***************************************************************************)
EXTENDS StreamedAnswers

VARIABLES
  answer,   \* the answer the provider is sending
  todo,     \* the events of each part that are still to come
  phase,    \* of the provider: "opening", "parts", "stopping", "ended", or "broken"
  last,     \* the calls of Gemini's latest chunk, which it may send again
  tools,    \* toolBuffer, or replayCalls of Gemini: key -> call
  asm,      \* the other fields of the assembler
  chunks,   \* the chunks the consumer has received
  turn,     \* what sendStream has collected from them
  status    \* "reading", "recorded", "failed" or "cancelled"

vars == <<answer, todo, phase, last, tools, asm, chunks, turn, status>>
server == <<answer, todo, phase, last>>
reader == <<tools, asm, chunks, turn, status>>

Provider == answer.provider
Missing == <<<<0, 0>>>>   \* arguments a pending tool call does not have yet: of no part

Init ==
  /\ answer \in Answers
  /\ todo \in IF Provider = "google" THEN {<<GeminiParts(answer)>>}
              ELSE {t \in [DOMAIN answer.output -> UNION {PartEvents(answer, i) : i \in DOMAIN answer.output}] :
                      \A i \in DOMAIN t : t[i] \in PartEvents(answer, i)}
  /\ phase = IF Provider = "anthropic" THEN "opening" ELSE "parts"
  /\ last = <<>>
  /\ tools = <<>>
  /\ asm = [started |-> FALSE, observed |-> FALSE, terminal |-> FALSE, reasoning |-> FALSE,
            finish |-> "stop", replay |-> <<>>]
  /\ chunks = <<>>
  /\ turn = [text |-> <<>>, calls |-> <<>>, finish |-> "none", valid |-> TRUE]
  /\ status = "reading"

(***************************************************************************)
(* The chunks, and what the conversation makes of each.                    *)
(***************************************************************************)
Chunk(type, id, name, json) == [type |-> type, id |-> id, name |-> name, json |-> json]
TextDelta(json) == Chunk("text-delta", <<>>, "none", json)
Start(id, name) == Chunk("tool-call-start", id, name, <<>>)
ArgsDelta(id, json) == Chunk("tool-call-delta", id, "none", json)
Arguments(id, name, json) == Chunk("tool-call-arguments", id, name, json)
Reasoning(type, json) == Chunk(type, <<>>, "none", json)
Done(finish) == Chunk("done", <<>>, finish, <<>>)

Pending(t, id) == {k \in DOMAIN t.calls : t.calls[k].id = id}

Collected(t, c) ==
  LET broken == [t EXCEPT !.valid = FALSE]
      known == Pending(t, c.id)
      k == CHOOSE k \in known : TRUE
  IN CASE ~t.valid                  -> t
       [] c.type = "text-delta"     -> [t EXCEPT !.text = @ \o c.json]
       [] c.type = "tool-call-start" ->
            IF known # {} THEN broken
            ELSE [t EXCEPT !.calls = Append(@, [id |-> c.id, name |-> c.name, args |-> Missing])]
       [] c.type = "tool-call-delta" ->
            IF known = {} \/ t.calls[k].args # Missing THEN broken ELSE t
       [] c.type = "tool-call-arguments" ->
            IF known = {} \/ t.calls[k].name # c.name \/ t.calls[k].args # Missing THEN broken
            ELSE [t EXCEPT !.calls[k].args = c.json]
       [] c.type = "done"           -> [t EXCEPT !.finish = c.name]
       [] OTHER                     -> t

CollectedAll(t, cs) ==
  LET after[n \in 0 .. Len(cs)] == IF n = 0 THEN t ELSE Collected(after[n - 1], cs[n])
  IN  after[Len(cs)]

Yield(cs) ==
  /\ chunks' = chunks \o cs
  /\ turn' = CollectedAll(turn, cs)
  /\ status' = IF turn'.valid THEN "reading" ELSE "failed"

Throw == status' = "failed" /\ UNCHANGED <<tools, asm, chunks, turn>>

(***************************************************************************)
(* The provider sends the events of a part in order, the parts in order of *)
(* their first events, and a text only when the parts before it are over:  *)
(* calls may overlap, texts do not.                                        *)
(***************************************************************************)
Opened(i) == todo[i] = <<>> \/ todo[i] \notin PartEvents(answer, i)

Sends(i, type) ==
  /\ status = "reading" /\ phase = "parts" /\ Provider # "google"
  /\ todo[i] # <<>> /\ Head(todo[i]).type = type
  /\ \A k \in 1 .. i - 1 : Opened(k) /\ (answer.output[k].kind # "call" => todo[k] = <<>>)
  /\ answer.output[i].kind # "call" => \A k \in 1 .. i - 1 : todo[k] = <<>>
  /\ todo' = [todo EXCEPT ![i] = Tail(@)]
  /\ UNCHANGED <<answer, phase, last>>

AllSent == \A i \in DOMAIN todo : todo[i] = <<>>
Json(i) == Head(todo[i]).json

(***************************************************************************)
(* OpenAI: events are keyed by the item id, the chunks by its call id.     *)
(***************************************************************************)
ItemId(i) == <<"item", i>>
CallId(i) == <<"call", i>>
ToolOf(i) == answer.output[i].name

Buffered(i) == IF ItemId(i) \in DOMAIN tools THEN tools[ItemId(i)]
               ELSE [args |-> <<>>, callId |-> ItemId(i), name |-> "tool"]
Put(key, tool) == tools' = [k \in DOMAIN tools \cup {key} |-> IF k = key THEN tool ELSE tools[k]]
Drop(key) == tools' = [k \in DOMAIN tools \ {key} |-> tools[k]]

OpenAITextDelta(i) ==
  /\ Provider = "openai" /\ Sends(i, "text.delta")
  /\ Yield(<<TextDelta(Json(i))>>)
  /\ UNCHANGED <<tools, asm>>

\* Events of another type, the deltas of a refusal among them, say nothing.
IgnoredEvent(i) ==
  /\ Sends(i, "other")
  /\ UNCHANGED reader

OpenAIItemAdded(i) ==
  /\ Provider = "openai" /\ Sends(i, "item.added")
  /\ IF ItemId(i) \in DOMAIN tools
     THEN /\ Put(ItemId(i), [callId |-> CallId(i), name |-> ToolOf(i),
                             args |-> IF Len(Json(i)) > Len(Buffered(i).args) THEN Json(i)
                                      ELSE Buffered(i).args])
          /\ UNCHANGED <<chunks, turn, status>>
     ELSE /\ Put(ItemId(i), [callId |-> CallId(i), name |-> ToolOf(i), args |-> Json(i)])
          /\ Yield(<<Start(CallId(i), ToolOf(i))>>
                     \o (IF Json(i) = <<>> THEN <<>> ELSE <<ArgsDelta(CallId(i), Json(i))>>))
  /\ UNCHANGED asm

OpenAIArgumentsDelta(i) ==
  /\ Provider = "openai" /\ Sends(i, "args.delta")
  /\ Put(ItemId(i), [Buffered(i) EXCEPT !.args = @ \o Json(i)])
  /\ Yield(<<ArgsDelta(Buffered(i).callId, Json(i))>>)
  /\ UNCHANGED asm

OpenAIArgumentsDone(i) ==
  /\ Provider = "openai" /\ Sends(i, "args.done")
  /\ Put(ItemId(i), [args |-> Json(i), callId |-> CallId(i), name |-> ToolOf(i)])
  /\ UNCHANGED <<asm, chunks, turn, status>>

OpenAIItemDone(i) ==
  /\ Provider = "openai" /\ Sends(i, "item.done")
  /\ IF Parsed(answer, Json(i))
     THEN /\ Drop(ItemId(i))
          /\ asm' = [asm EXCEPT !.finish = "tool_call"]
          /\ Yield(<<Arguments(CallId(i), ToolOf(i), Json(i))>>)
     ELSE Throw

OpenAICompleted ==
  /\ Provider = "openai" /\ status = "reading" /\ phase = "parts" /\ AllSent
  /\ phase' = "ended"
  /\ IF OpenAIPayloadValid(answer)
     THEN /\ asm' = [asm EXCEPT !.finish = OpenAIFinish(answer), !.terminal = TRUE]
          /\ UNCHANGED <<tools, chunks, turn, status>>
     ELSE Throw
  /\ UNCHANGED <<answer, todo, last>>

\* response.failed and error
OpenAIFailed ==
  /\ Provider = "openai" /\ status = "reading" /\ phase = "parts"
  /\ phase' = "broken"
  /\ Throw
  /\ UNCHANGED <<answer, todo, last>>

\* An event that is not JSON, or that the adapter's schema checks reject.
MalformedEvent(p) ==
  /\ Provider = p /\ status = "reading" /\ phase # "ended"
  /\ phase' = "broken"
  /\ Throw
  /\ UNCHANGED <<answer, todo, last>>
OpenAIMalformedEvent == MalformedEvent("openai")
AnthropicMalformedEvent == MalformedEvent("anthropic")
GeminiMalformedChunk == MalformedEvent("google")

(***************************************************************************)
(* Anthropic: events are keyed by the index of the content block.          *)
(***************************************************************************)
AnthropicMessageStart ==
  /\ Provider = "anthropic" /\ status = "reading" /\ phase = "opening"
  /\ phase' = "parts"
  /\ asm' = [asm EXCEPT !.started = TRUE]
  /\ UNCHANGED <<answer, todo, last, tools, chunks, turn, status>>

\* A text block is not output before its first delta; any other block is.
AnthropicBlockStart(i) ==
  /\ Provider = "anthropic" /\ Sends(i, "block.start")
  /\ asm' = [asm EXCEPT !.observed = TRUE]
  /\ IF answer.output[i].kind = "call"
     THEN /\ Put(i, [args |-> <<>>, callId |-> CallId(i), name |-> ToolOf(i)])
          /\ Yield(<<Start(CallId(i), ToolOf(i))>>)
     ELSE UNCHANGED <<tools, chunks, turn, status>>

AnthropicTextDelta(i) ==
  /\ Provider = "anthropic" /\ Sends(i, "text.delta")
  /\ asm' = [asm EXCEPT !.observed = TRUE]
  /\ Yield(<<TextDelta(Json(i))>>)
  /\ UNCHANGED tools

AnthropicJsonDelta(i) ==
  /\ Provider = "anthropic" /\ Sends(i, "json.delta")
  /\ tools' = [tools EXCEPT ![i].args = @ \o Json(i)]
  /\ Yield(<<ArgsDelta(tools[i].callId, Json(i))>>)
  /\ UNCHANGED asm

\* content_block_stop: flushToolCall
AnthropicBlockStop(i) ==
  /\ Provider = "anthropic" /\ Sends(i, "block.stop")
  /\ IF Parsed(answer, tools[i].args)
     THEN /\ Drop(i)
          /\ Yield(<<Arguments(tools[i].callId, tools[i].name, tools[i].args)>>)
          /\ UNCHANGED asm
     ELSE Throw

AnthropicMessageDelta ==
  /\ Provider = "anthropic" /\ status = "reading" /\ phase = "parts" /\ AllSent
  /\ phase' = "stopping"
  /\ asm' = [asm EXCEPT !.finish = AnthropicFinish(answer.stop)]
  /\ UNCHANGED <<answer, todo, last, tools, chunks, turn, status>>

AnthropicMessageStop ==
  /\ Provider = "anthropic" /\ status = "reading" /\ phase = "stopping"
  /\ phase' = "ended"
  /\ asm' = [asm EXCEPT !.terminal = TRUE]
  /\ UNCHANGED <<answer, todo, last, tools, chunks, turn, status>>

(***************************************************************************)
(* Gemini: a chunk holds some of the parts, each whole.  A call is known   *)
(* by its place in the chunk and its name; sent again, it is merged.       *)
(***************************************************************************)
CloseReasoning(s) ==
  IF s.asm.reasoning
  THEN [s EXCEPT !.asm.reasoning = FALSE, !.out = Append(@, Reasoning("reasoning-end", <<>>))]
  ELSE s

Shown(s, cs) == [s EXCEPT !.asm.observed = TRUE, !.out = @ \o cs]

\* Mutant of GeminiThought: a thought is shown like any text.
ThoughtShownAsText(s, part) ==
  Shown([s EXCEPT !.asm.replay = Append(@, part)], <<TextDelta(part.json)>>)

GeminiThought(s, part) ==
  LET kept == [s EXCEPT !.asm.replay = Append(@, part)]
      opening == IF s.asm.reasoning THEN <<>> ELSE <<Reasoning("reasoning-start", <<>>)>>
  IN IF ~answer.showThoughts THEN kept
     ELSE [Shown(kept, opening \o <<Reasoning("reasoning-delta", part.json)>>)
             EXCEPT !.asm.reasoning = TRUE]

GeminiText(s, part) ==
  Shown(CloseReasoning([s EXCEPT !.asm.replay = Append(@, part)]), <<TextDelta(part.json)>>)

MergedPart(old, new) == [new EXCEPT !.signed = @ \/ old.signed]

\* Mutant of GeminiCall: a call that is sent again is emitted again.
CallEmittedAgain(s, place, part) ==
  LET id == <<place, part.name>>
      t == CloseReasoning(s)
  IN Shown([t EXCEPT !.asm.replay = Append(@, part),
                     !.tools = [k \in DOMAIN @ \cup {id} |->
                                  IF k = id THEN [name |-> part.name, args |-> part.json,
                                                  part |-> Len(t.asm.replay) + 1]
                                  ELSE @[k]]],
           <<Start(id, part.name), Arguments(id, part.name, part.json)>>)

\* Mutant of GeminiCall: the call's place is counted before its part is kept.
CallPlacedTooEarly(s, place, part) ==
  LET id == <<place, part.name>>
      t == CloseReasoning(s)
  IN IF id \in DOMAIN t.tools THEN t
     ELSE Shown([t EXCEPT !.asm.replay = Append(@, part),
                          !.tools = [k \in DOMAIN @ \cup {id} |->
                                       IF k = id THEN [name |-> part.name, args |-> part.json,
                                                       part |-> Len(t.asm.replay)]
                                       ELSE @[k]]],
                <<Start(id, part.name), Arguments(id, part.name, part.json)>>)

GeminiCall(s, place, part) ==
  LET id == <<place, part.name>>
      t == CloseReasoning(s)
  IN IF id \in DOMAIN t.tools
     THEN [t EXCEPT !.asm.observed = TRUE,
                    !.asm.replay[t.tools[id].part] = MergedPart(@, part)]
     ELSE Shown([t EXCEPT !.asm.replay = Append(@, part),
                          !.tools = [k \in DOMAIN @ \cup {id} |->
                                       IF k = id THEN [name |-> part.name, args |-> part.json,
                                                       part |-> Len(t.asm.replay) + 1]
                                       ELSE @[k]]],
                <<Start(id, part.name), Arguments(id, part.name, part.json)>>)

GeminiPart(s, place, part) ==
  CASE part.kind = "thought" -> GeminiThought(s, part)
    [] part.kind = "text"    -> GeminiText(s, part)
    [] part.kind = "call"    -> GeminiCall(s, place, part)

\* Mutant of Finished: only the calls of the last chunk count.
FinishedByLastChunk(s, final) ==
  IF final
  THEN [s EXCEPT !.asm.terminal = TRUE,
                 !.asm.finish = GeminiFinish(answer.stop, \E c \in Range(s.out) : c.type = "tool-call-start")]
  ELSE s

\* finishReason of a candidate: STOP is tool_call when this or an earlier chunk
\* called a tool.
Finished(s, final) ==
  IF final
  THEN [s EXCEPT !.asm.terminal = TRUE,
                 !.asm.finish = GeminiFinish(answer.stop, DOMAIN s.tools # {})]
  ELSE s

GeminiConsumes(parts, final) ==
  LET begin == [tools |-> tools, asm |-> asm, out |-> <<>>]
      after[n \in 0 .. Len(parts)] ==
        IF n = 0 THEN begin ELSE GeminiPart(after[n - 1], n, parts[n])
      end == Finished(after[Len(parts)], final)
  IN /\ tools' = end.tools
     /\ asm' = end.asm
     /\ Yield(end.out)

Calls(parts) == {j \in DOMAIN parts : parts[j].kind = "call"}

\* A chunk of the next parts.  The provider does not put two calls of the same
\* tool at the same place of two chunks (see Departures in README.md); it may
\* hold a signature back for a later chunk.
GeminiChunk ==
  /\ Provider = "google" /\ status = "reading" /\ phase = "parts"
  /\ \E n \in 0 .. Len(todo[1]), final \in BOOLEAN, signs \in BOOLEAN :
       LET next == SubSeq(todo[1], 1, n)
           sent == [j \in 1 .. n |-> [next[j] EXCEPT !.signed = @ /\ signs]]
       IN /\ n > 0 \/ final
          /\ final => n = Len(todo[1])
          /\ \A j \in Calls(next) : <<j, next[j].name>> \notin DOMAIN tools
          /\ todo' = <<SubSeq(todo[1], n + 1, Len(todo[1]))>>
          /\ phase' = IF final THEN "ended" ELSE phase
          /\ last' = IF Calls(next) = DOMAIN next THEN next ELSE <<>>
          /\ GeminiConsumes(sent, final)
  /\ UNCHANGED answer

\* The latest calls once more, with their signatures.
GeminiRepeats ==
  /\ Provider = "google" /\ status = "reading" /\ phase = "parts" /\ last # <<>>
  /\ GeminiConsumes(last, FALSE)
  /\ last' = <<>>
  /\ UNCHANGED <<answer, todo, phase>>

(***************************************************************************)
(* The end: the provider closes the stream, or the connection breaks.      *)
(***************************************************************************)
Output == asm.observed \/ asm.finish = "content_filter"

\* Mutant of Finishes: the end of the connection is taken for the end of the answer.
FinishesWhenClosed ==
  CASE Provider = "openai"    -> tools = <<>>
    [] Provider = "anthropic" -> asm.started /\ tools = <<>> /\ Output
    [] Provider = "google"    -> Output

Finishes ==
  CASE Provider = "openai"    -> asm.terminal /\ tools = <<>>
    [] Provider = "anthropic" -> asm.started /\ asm.terminal /\ tools = <<>> /\ Output
    [] Provider = "google"    -> asm.terminal /\ Output

\* The checks of sendStream after its loop.
Recordable(t) ==
  /\ t.valid /\ t.finish # "none"
  /\ \A k \in DOMAIN t.calls : t.calls[k].args # Missing
  /\ t.finish = "tool_call" <=> t.calls # <<>>

EndOfStream ==
  /\ status = "reading"
  /\ LET end == CloseReasoning([asm |-> asm, out |-> <<>>])
         cs == end.out \o (IF Finishes THEN <<Done(asm.finish)>> ELSE <<>>)
         t == CollectedAll(turn, cs)
     IN /\ asm' = end.asm
        /\ chunks' = chunks \o cs
        /\ turn' = t
        /\ status' = IF Finishes /\ Recordable(t) THEN "recorded" ELSE "failed"
  /\ phase' = IF phase = "ended" THEN phase ELSE "broken"
  /\ UNCHANGED <<answer, todo, last, tools>>

Cancel ==
  /\ status = "reading"
  /\ status' = "cancelled"
  /\ UNCHANGED <<server, tools, asm, chunks, turn>>

Next ==
  \/ \E i \in DOMAIN todo :
       \/ OpenAITextDelta(i) \/ IgnoredEvent(i) \/ OpenAIItemAdded(i)
       \/ OpenAIArgumentsDelta(i) \/ OpenAIArgumentsDone(i) \/ OpenAIItemDone(i)
       \/ AnthropicBlockStart(i) \/ AnthropicTextDelta(i)
       \/ AnthropicJsonDelta(i) \/ AnthropicBlockStop(i)
  \/ OpenAICompleted \/ OpenAIFailed
  \/ AnthropicMessageStart \/ AnthropicMessageDelta \/ AnthropicMessageStop
  \/ GeminiChunk \/ GeminiRepeats
  \/ OpenAIMalformedEvent \/ AnthropicMalformedEvent \/ GeminiMalformedChunk
  \/ EndOfStream \/ Cancel

Spec == Init /\ [][Next]_vars

(***************************************************************************)
(* Properties.                                                             *)
(***************************************************************************)

\* stateMatchesMessage of the recorded calls and the replay state
StateMatchesMessage(calls, parts, state) ==
  /\ Len(calls) = Cardinality(DOMAIN state)
  /\ \A k \in DOMAIN calls :
       /\ calls[k].id \in DOMAIN state
       /\ LET call == state[calls[k].id]
          IN /\ call.part \in DOMAIN parts
             /\ parts[call.part].kind = "call"
             /\ calls[k].name = call.name /\ calls[k].args = call.args
             /\ parts[call.part].name = call.name /\ parts[call.part].json = call.args
             /\ \A j \in 1 .. k - 1 : state[calls[j].id].part < call.part
Attached == tools # <<>> /\ \E k \in DOMAIN asm.replay : asm.replay[k].signed

\* A recorded streamed turn has the text, the tool calls in their order and the
\* finish reason that complete() gives for the same answer, and the replay state
\* attached to a Gemini turn is the state of that message: otherwise the session
\* would drop the signatures.  (The deltas of an OpenAI refusal are the one thing
\* the stream leaves out.)
StreamMatchesComplete ==
  status = "recorded" =>
    LET calls == [k \in DOMAIN turn.calls |->
                    [name |-> turn.calls[k].name, args |-> turn.calls[k].args]]
        recorded == [text |-> turn.text, calls |-> calls, finish |-> turn.finish]
    IN /\ recorded = [Response(answer) EXCEPT !.text = TextOf(answer, {"text"})]
       /\ Provider = "google" /\ Attached => StateMatchesMessage(turn.calls, asm.replay, tools)

\* What complete() would take as a turn: not refused, something to show, and
\* stopped for its calls exactly if it makes any.
Consistent(a) ==
  /\ Accepted(a)
  /\ Response(a).finish = "tool_call" <=> HasCall(a)
  /\ a.provider = "anthropic" =>
       \/ Response(a).finish = "content_filter"
       \/ \E i \in DOMAIN a.output : a.output[i].kind # "text" \/ a.output[i].size > 0

\* A stream that broke before the provider said it was finished, or in which it
\* reported an error, never becomes a recorded turn; one that was not cut always
\* does, unless its answer is not one complete() takes as a turn.
RecordedIffWhole ==
  /\ status = "recorded" => phase = "ended"
  /\ status = "failed" /\ Consistent(answer) => phase = "broken"

\* Consumers see each tool call start once, then its deltas, then its arguments
\* once, under one id and name; the deltas add up to the arguments; done is last.
At(id, type) == {k \in DOMAIN chunks : chunks[k].id = id /\ chunks[k].type = type}
Joined(ks) == LET is == InOrder(ks) IN FlattenSeq([j \in DOMAIN is |-> chunks[is[j]].json])
ToolLifecycle ==
  /\ \A k \in DOMAIN chunks : chunks[k].type = "done" => k = Len(chunks)
  /\ \A a \in DOMAIN chunks : chunks[a].type = "tool-call-arguments" =>
       LET id == chunks[a].id
           deltas == At(id, "tool-call-delta")
       IN /\ At(id, "tool-call-arguments") = {a}
          /\ \E s \in 1 .. a - 1 : /\ At(id, "tool-call-start") = {s}
                                  /\ chunks[s].name = chunks[a].name
                                  /\ \A d \in deltas : s < d /\ d < a
          /\ deltas # {} => Joined(deltas) = chunks[a].json
=============================================================================
