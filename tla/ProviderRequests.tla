-------------------------- MODULE ProviderRequests --------------------------
(* What becomes of a conversation on its way into a provider's request:     *)
(* the checks of src/message-validation.ts, src/tool-validation.ts and      *)
(* src/cache-validation.ts, the capability checks of the three adapters,    *)
(* and their translations (translateOpenAIRequest,                          *)
(* translateAnthropicRequest, translateGeminiRequest).                      *)
(*                                                                          *)
(* A part is a record: type, the set of fields it was given, the subset of  *)
(* those that are empty strings, a tag that stands for its payload, its     *)
(* cache mark, and, for tool calls and results, the id of the call. A       *)
(* message with string content is one with a single text part: every        *)
(* adapter sends both alike.                                                *)
EXTENDS Integers, SequencesExt, Ordering

Providers == {"openai", "anthropic", "google"}

\* message.content as parts; message.role
IsText(p) == p.type = "text"

-----------------------------------------------------------------------------
(* message-validation.ts, tool-validation.ts, cache-validation.ts *)

PartFields ==
    [audio        |-> {"data", "mediaType", "url"},
     document     |-> {"cacheControl", "data", "mediaType", "title", "url"},
     image_base64 |-> {"cacheControl", "data", "mediaType"},
     image_url    |-> {"cacheControl", "mediaType", "url"},
     text         |-> {"cacheControl", "text"},
     tool_call    |-> {"args", "cacheControl", "id", "name"},
     tool_result  |-> {"cacheControl", "isError", "name", "result", "toolCallId"}]

Required ==
    [audio |-> {"mediaType"}, document |-> {"mediaType"},
     image_base64 |-> {"data", "mediaType"}, image_url |-> {"url"},
     text |-> {"text"}, tool_call |-> {"args", "id", "name"},
     tool_result |-> {"result", "toolCallId"}]

\* the fields that may not be empty strings
Identifiers == {"id", "name", "toolCallId"}

ValidCacheControl(c) ==
    c.type = "ephemeral" /\ ("ttl" \in DOMAIN c => c.ttl \in {"5m", "1h"})

\* clonePart: no field the type does not have, every required one, an
\* identifier is not empty, audio and documents have data or a url.
ValidPart(p) ==
    /\ p.type \in DOMAIN PartFields
    /\ p.fields \subseteq PartFields[p.type]
    /\ Required[p.type] \subseteq p.fields
    /\ p.empty \intersect Identifiers = {}
    /\ p.type \in {"audio", "document"} => p.fields \intersect {"data", "url"} # {}
    /\ "cacheControl" \in p.fields => ValidCacheControl(p.cache)

\* cloneMessage
ValidMessage(m) ==
    /\ m.role \in {"system", "user", "assistant"}
    /\ \A i \in DOMAIN m.parts : ValidPart(m.parts[i])

ValidMessages(messages) == \A i \in DOMAIN messages : ValidMessage(messages[i])

\* cloneTool and the map of seen names of validateAndCloneTools
ValidTools(tools) ==
    /\ \A i \in DOMAIN tools : tools[i].portable /\ tools[i].described /\ tools[i].objectSchema
    /\ \A i, j \in DOMAIN tools : tools[i].name = tools[j].name => i = j

\* validateOpenAIPromptCaching: a key is not blank, a retention is a known one.
ValidPromptCaching(caching) ==
    /\ "key" \in DOMAIN caching => caching.key # ""
    /\ "retention" \in DOMAIN caching => caching.retention \in {"in_memory", "24h"}

\* validateAnthropicCacheControls: the mark of the request and of every part.
ValidCacheMarks(request) ==
    /\ ValidCacheControl(request.cacheControl)
    /\ \A i \in DOMAIN request.messages : \A j \in DOMAIN request.messages[i].parts :
          LET p == request.messages[i].parts[j]
          IN  "cacheControl" \in p.fields => ValidCacheControl(p.cache)

-----------------------------------------------------------------------------
(* assertCapabilities of the adapters *)

HasPart(messages, types) ==
    \E i \in DOMAIN messages : \E j \in DOMAIN messages[i].parts :
        messages[i].parts[j].type \in types

\* The capabilities of the model a request asks for.
Needed(request) ==
    (IF request.tools # <<>> THEN {"supportsTools"} ELSE {})
    \union (IF request.stream THEN {"supportsStreaming"} ELSE {})
    \union (IF HasPart(request.messages, {"image_base64", "image_url"})
            THEN {"supportsVision"} ELSE {})

\* Parts an adapter refuses whatever the model can do.
NeverSent ==
    [openai |-> {"audio", "document"}, anthropic |-> {"audio"}, google |-> {}]

Capable(provider, request, capabilities) ==
    /\ Needed(request) \subseteq capabilities
    /\ ~HasPart(request.messages, NeverSent[provider])

-----------------------------------------------------------------------------
(* The parts of a message, in the order the provider's request has them.    *)
(* Refuses* say where the translation throws.                               *)

Given(p, field) == field \in p.fields \ p.empty

RefusesPart(provider, role, p) ==
    CASE p.type = "tool_call"   -> role # "assistant"
      [] p.type = "tool_result" -> role # "user"
      [] p.type = "audio"       -> provider # "google" \/ ~(Given(p, "data") \/ Given(p, "url"))
      [] p.type = "document"    -> provider = "openai" \/ ~(Given(p, "data") \/ Given(p, "url"))
      [] p.type \in {"image_base64", "image_url"} -> provider = "openai" /\ role = "assistant"
      [] OTHER -> FALSE

\* The text of system messages is lifted out; nothing else may be in one.
Refuses(provider, messages) ==
    \E i \in DOMAIN messages : \E j \in DOMAIN messages[i].parts :
        LET p == messages[i].parts[j]
        IN  IF messages[i].role = "system" THEN ~IsText(p)
            ELSE RefusesPart(provider, messages[i].role, p)

\* translateOpenAIUserMessage and translateOpenAIAssistantMessage: one message
\* item with the texts and images in front, then an item per call or result.
Picked(parts, places) == [n \in DOMAIN InOrder(places) |-> parts[InOrder(places)[n]]]
OpenAIItems(m) ==
    LET apart == {j \in DOMAIN m.parts : m.parts[j].type \in {"tool_call", "tool_result"}}
    IN  Picked(m.parts, DOMAIN m.parts \ apart) \o Picked(m.parts, apart)

\* translateAnthropicMessage, translateGeminiMessage: part by part.
ItemsOf(provider, m) == IF provider = "openai" THEN OpenAIItems(m) ELSE m.parts

\* What is sent of one part. Anthropic prefers a document's url, Gemini its
\* data; the error flag of a result is not part of OpenAI's items; a name for
\* the result is Gemini's only link to the call; the marks for the cache are
\* Anthropic's.
Sent(provider, role, p) ==
    [role |-> role, type |-> p.type, tag |-> p.tag, call |-> p.call,
     source |-> IF p.type \notin {"audio", "document"} THEN "none"
                ELSE IF provider = "google"
                     THEN (IF Given(p, "data") THEN "data" ELSE "url")
                     ELSE (IF Given(p, "url") THEN "url" ELSE "data"),
     marked |-> provider = "anthropic" /\ "cacheControl" \in p.fields,
     isError |-> provider # "openai" /\ "isError" \in p.fields,
     name |-> IF provider = "google" /\ p.type = "tool_result" /\ "name" \notin p.fields
              THEN "toolCallId" ELSE "name"]

Contents(provider, messages) ==
    FlattenSeq([i \in DOMAIN messages |->
        LET m == messages[i] items == ItemsOf(provider, m)
        IN  IF m.role = "system" THEN <<>>
            ELSE [j \in DOMAIN items |-> Sent(provider, m.role, items[j])]])

\* translateOpenAISystemMessage, translateAnthropicSystemPrompt,
\* translateGeminiSystemInstruction: the explicit prompt, then the texts of the
\* system messages in order.
System(explicit, messages) ==
    explicit \o FlattenSeq([i \in DOMAIN messages |->
        IF messages[i].role = "system"
        THEN [j \in DOMAIN messages[i].parts |-> messages[i].parts[j].tag] ELSE <<>>])

\* Anthropic keeps the blocks apart only when one of them is marked for the
\* cache; joined into a string they lose the marks they do not have.
SystemAsBlocks(messages) ==
    \E i \in DOMAIN messages : messages[i].role = "system"
        /\ \E j \in DOMAIN messages[i].parts : "cacheControl" \in messages[i].parts[j].fields

-----------------------------------------------------------------------------
(* Tool choice and thinking budget *)

\* translateOpenAIToolChoice, translateAnthropicToolChoice,
\* translateGeminiToolChoice: mode, tool named, parallel calls switched off.
ToolChoice(provider, choice) ==
    LET off == choice.type = "tool" /\ choice.disableParallel
        named == IF choice.type = "tool" THEN choice.name ELSE "none"
    IN  [mode |-> CASE choice.type = "any"  -> "must"
                    [] choice.type = "tool" -> "must"
                    [] choice.type = "auto" -> "may"
                    [] choice.type = "none" -> "never",
         only |-> named,
         oneAtATime |-> provider # "google" /\ off]

\* translateAnthropicThinking: -1 stands for a budget or a limit not given.
ThinkingAccepted(type, budget, maxTokens) ==
    budget = -1 \/ (type = "enabled" /\ budget >= 0 /\ maxTokens # -1 /\ budget < maxTokens)

-----------------------------------------------------------------------------
(* The whole of a request *)

\* What the translation throws on.
TranslationRefused(provider, request) ==
    \/ ~ValidTools(request.tools)
    \/ Refuses(provider, request.messages)
    \/ provider = "openai" /\ ~ValidPromptCaching(request.caching)
    \/ provider = "anthropic" /\ ~(ValidCacheMarks(request)
          /\ ThinkingAccepted(request.thinking, request.budget, request.maxTokens))

Translation(provider, request) ==
    [system |-> System(request.system, request.messages),
     blocks |-> provider = "anthropic" /\ SystemAsBlocks(request.messages),
     contents |-> Contents(provider, request.messages),
     choice |-> ToolChoice(provider, request.choice),
     tools |-> [i \in DOMAIN request.tools |-> request.tools[i].name]]
=============================================================================
