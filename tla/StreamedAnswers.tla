-------------------------- MODULE StreamedAnswers --------------------------
(***************************************************************************)
(* What the model providers answer, whole and as a stream of events, and   *)
(* what complete() makes of the whole answer.                              *)
(*                                                                         *)
(* An answer is a sequence of parts.  Part i of size n is made of the      *)
(* pieces <<i, 1>> .. <<i, n>>: one text delta, or one fragment of the     *)
(* JSON text of a call's arguments, is one piece.  A part that is not      *)
(* whole is the last one of an answer cut at the provider's token limit.   *)
(***************************************************************************)
EXTENDS Sequences, SequencesExt, Ordering

CONSTANTS
  Names,      \* the tools the model may call
  MaxParts,   \* bound: parts of an answer
  MaxPieces   \* bound: pieces of a part

ASSUME StreamBounds == MaxParts \in Nat /\ MaxPieces \in Nat \ {0}

Providers == {"openai", "anthropic", "google"}

Stops(p) == CASE p = "openai"    -> {"completed", "max_output_tokens", "content_filter"}
              [] p = "anthropic" -> {"end_turn", "tool_use", "max_tokens", "refusal"}
              [] p = "google"    -> {"STOP", "MAX_TOKENS", "SAFETY", "OTHER"}
AtLimit == {"max_output_tokens", "max_tokens", "MAX_TOKENS"}

\* OpenAI may refuse in a part of its own; the others may show their thinking.
SilentKind(p) == IF p = "openai" THEN "refusal" ELSE "thought"

PartsOf(p) ==
  [kind : {"text", SilentKind(p)}, name : {"none"}, size : {0, MaxPieces},
   whole : {TRUE}, signed : {FALSE}]
    \cup
  [kind : {"call"}, name : Names,
   size : IF p = "anthropic" THEN {0, MaxPieces} ELSE {MaxPieces},
   whole : IF p = "google" THEN {TRUE} ELSE BOOLEAN,
   signed : IF p = "google" THEN BOOLEAN ELSE {FALSE}]

HasCall(a) == \E i \in DOMAIN a.output : a.output[i].kind = "call"

Plausible(a) ==
  /\ \A i \in DOMAIN a.output :
       a.output[i].whole \/ (i = Len(a.output) /\ a.stop \in AtLimit)
  /\ a.stop = "tool_use" => HasCall(a)
  /\ a.stop \in {"end_turn", "refusal"} => ~HasCall(a)

Answers ==
  UNION {{a \in [provider : {p}, output : SeqOf(PartsOf(p), MaxParts), stop : Stops(p),
                 showThoughts : IF p = "google" THEN BOOLEAN ELSE {FALSE}] : Plausible(a)}
           : p \in Providers}

Body(a, i) == [j \in 1 .. a.output[i].size |-> <<i, j>>]

\* JSON.parse of an argument text gives an object: it is all of a call that was
\* not cut, or Anthropic's empty text, which is read as {}.
Parsed(a, json) ==
  \/ a.provider = "anthropic" /\ json = <<>>
  \/ json # <<>> /\ \E i \in DOMAIN a.output :
       a.output[i].kind = "call" /\ a.output[i].whole /\ json = Body(a, i)

(***************************************************************************)
(* The translation of a whole answer.                                      *)
(***************************************************************************)
OpenAIFinish(a) ==
  CASE HasCall(a)                   -> "tool_call"
    [] a.stop = "content_filter"    -> "content_filter"
    [] a.stop = "max_output_tokens" -> "length"
    [] OTHER                        -> "stop"

AnthropicFinish(stop) ==
  CASE stop = "max_tokens" -> "length"
    [] stop = "tool_use"   -> "tool_call"
    [] stop = "refusal"    -> "content_filter"
    [] OTHER               -> "stop"

GeminiFinish(stop, called) ==
  CASE stop = "MAX_TOKENS" -> "length"
    [] stop = "SAFETY"     -> "content_filter"
    [] stop = "STOP"       -> IF called THEN "tool_call" ELSE "stop"
    [] OTHER               -> "error"

Places(a, kinds) == InOrder({i \in DOMAIN a.output : a.output[i].kind \in kinds})
TextOf(a, kinds) ==
  LET is == Places(a, kinds) IN FlattenSeq([k \in DOMAIN is |-> Body(a, is[k])])
CallsOf(a) ==
  LET is == Places(a, {"call"})
  IN [k \in DOMAIN is |-> [name |-> a.output[is[k]].name, args |-> Body(a, is[k])]]

\* A refusal of OpenAI is text of the response; Anthropic's thinking and Gemini's
\* thoughts are not.
OpenAIResponse(a) ==
  [text |-> TextOf(a, {"text", "refusal"}), calls |-> CallsOf(a), finish |-> OpenAIFinish(a)]
AnthropicResponse(a) ==
  [text |-> TextOf(a, {"text"}), calls |-> CallsOf(a), finish |-> AnthropicFinish(a.stop)]
GeminiResponse(a) ==
  [text |-> TextOf(a, {"text"}), calls |-> CallsOf(a), finish |-> GeminiFinish(a.stop, HasCall(a))]

Response(a) == CASE a.provider = "openai"    -> OpenAIResponse(a)
                 [] a.provider = "anthropic" -> AnthropicResponse(a)
                 [] a.provider = "google"    -> GeminiResponse(a)

\* The payload checks of complete(); the fields' types are taken for granted here,
\* an event that breaks them is MalformedEvent of ProviderStreams.
OpenAIPayloadValid(a) == a.output # <<>>
AnthropicPayloadValid(a) == a.output # <<>> \/ a.stop = "refusal"
GeminiPayloadValid(a) ==
  \/ a.stop = "SAFETY"
  \/ \E i \in DOMAIN a.output :
        a.output[i].kind = "call" \/ (a.output[i].kind = "text" /\ a.output[i].size > 0)

Accepted(a) ==
  /\ CASE a.provider = "openai"    -> OpenAIPayloadValid(a)
       [] a.provider = "anthropic" -> AnthropicPayloadValid(a)
       [] a.provider = "google"    -> GeminiPayloadValid(a)
  /\ a.provider = "openai" =>
       \A i \in DOMAIN a.output : a.output[i].kind = "call" => Parsed(a, Body(a, i))

(***************************************************************************)
(* The events that carry part i, one sequence for each way of sending it.  *)
(***************************************************************************)
Event(type, json) == [type |-> type, json |-> json]
Fragments(a, i, type) == [j \in 1 .. a.output[i].size |-> Event(type, <<<<i, j>>>>)]

\* OpenAI announces a call with "" or with all of its arguments, and may announce
\* it twice.  Of a call that was cut the closing events may be missing.
OpenAICallEvents(a, i) ==
  LET body == Body(a, i)
      args == Fragments(a, i, "args.delta")
      end  == <<Event("args.done", body), Event("item.done", body)>>
      open == <<Event("item.added", <<>>)>>
  IN {open \o args \o end,
      <<Event("item.added", body)>> \o end,
      open \o <<Head(args), Event("item.added", SubSeq(body, 1, 1))>> \o Tail(args) \o end}
     \cup (IF a.output[i].whole THEN {} ELSE {open \o args})

AnthropicCallEvents(a, i) ==
  LET opened == <<Event("block.start", <<>>)>> \o Fragments(a, i, "json.delta")
  IN {opened \o <<Event("block.stop", <<>>)>>}
     \cup (IF a.output[i].whole THEN {} ELSE {opened})

PartEvents(a, i) ==
  CASE a.output[i].kind = "text" -> {Fragments(a, i, "text.delta")}
    [] a.output[i].kind = "call" ->
         IF a.provider = "openai" THEN OpenAICallEvents(a, i) ELSE AnthropicCallEvents(a, i)
    [] OTHER -> {(IF a.provider = "anthropic" THEN <<Event("block.start", <<>>)>> ELSE <<>>)
                   \o Fragments(a, i, "other")}

\* Gemini sends its parts themselves: a call whole, a text piece by piece.
GeminiParts(a) ==
  FlattenSeq([i \in DOMAIN a.output |->
    LET q == a.output[i]
        sent(json) == [kind |-> q.kind, name |-> q.name, json |-> json, signed |-> q.signed]
    IN IF q.kind = "call" THEN <<sent(Body(a, i))>>
       ELSE [j \in 1 .. q.size |-> sent(<<<<i, j>>>>)]])
=============================================================================
