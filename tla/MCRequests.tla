----------------------------- MODULE MCRequests -----------------------------
(* Three models of three providers, a router with a weighted rule and a     *)
(* fallback, and the messages, options, answers and registry changes of     *)
(* small conversations; the pages a client lists while sessions are written; *)
(* and the trials of the algorithms and parsers. The three share no state:  *)
(* in one behaviour only one of them moves.                                 *)
EXTENDS RequestPipeline, ParserTrials, SessionListing

CONSTANTS MaxNodes, MaxDepth, MaxProperties

Format == INSTANCE StructuredOutput WITH Absent <- None
HasFormat(capabilities, format, stream) == Format!FormatSupported(capabilities, format, stream)
RefusesFormat(provider, format, mentionsJson) ==
    Format!FormatRefused(provider, format, mentionsJson)
SentSchema(provider, format) == Format!SchemaSent(provider, format)

Part(type, call) ==
    [type |-> type, fields |-> Required[type], empty |-> {}, tag |-> None,
     cache |-> None, call |-> call]

Marked(part) == [part EXCEPT !.fields = @ \union {"cacheControl"},
                             !.cache = [type |-> "ephemeral", ttl |-> "1h"]]

Message(role, parts) == [role |-> role, parts |-> parts]

WrittenMessages ==
    {Message("system", <<Marked(Part("text", None))>>),
     Message("user", <<Part("text", None), Marked(Part("image_url", None))>>),
     Message("user", <<Part("tool_result", "c"), Part("text", None), Part("tool_result", "d")>>),
     Message("user", <<[Part("tool_call", "c") EXCEPT !.empty = {"id"}]>>)}

AnswerParts ==
    {<<Part("text", None)>>,
     <<Part("tool_call", "c"), Part("text", None), Part("tool_call", "d")>>}

\* A nested object, open, in an array of objects.
Leaf == [type |-> "string", props |-> <<>>, items |-> <<>>, required |-> None,
         extra |-> "none", odd |-> FALSE]
Object(props, required, extra) ==
    [Leaf EXCEPT !.type = "object", !.props = props, !.required = required, !.extra = extra]
List(item) == [Leaf EXCEPT !.type = "array", !.items = <<item>>]
Schemas ==
    {Object([a |-> List(Object([b |-> Leaf], None, inner)), c |-> Leaf], {"c"}, "none")
       : inner \in {"none", "yes"}}

TextFormat == [type |-> "text"]
PlainAsk ==
    [model |-> NoName, provider |-> NoName, tenantId |-> "t1", tools |-> <<>>,
     stream |-> FALSE, format |-> TextFormat, system |-> <<"prompt">>,
     choice |-> [type |-> "auto"], caching |-> <<>>,
     cacheControl |-> [type |-> "ephemeral"],
     thinking |-> "disabled", budget |-> -1, maxTokens |-> 8, managed |-> FALSE]
Tool == [name |-> "f", portable |-> TRUE, described |-> TRUE, objectSchema |-> TRUE]

AskOptions ==
    {PlainAsk, [PlainAsk EXCEPT !.managed = TRUE],
     [PlainAsk EXCEPT !.tools = <<Tool>>, !.tenantId = "t2", !.model = "g1",
        !.choice = [type |-> "tool", name |-> "f", disableParallel |-> TRUE]]}
    \union {[PlainAsk EXCEPT !.format = [type |-> "json_schema", schema |-> s,
                                         strict |-> TRUE, parse |-> TRUE]] : s \in Schemas}

Target(model) == [model |-> model, provider |-> NoName]
RouteRules ==
    <<[match |-> [tenantId |-> "t1"], target |-> NoName, fallback |-> <<Target("g1")>>,
       variants |-> <<[model |-> "o1", provider |-> NoName, weight |-> 1],
                      [model |-> "a1", provider |-> "anthropic", weight |-> 1]>>]>>

Model(id, provider) ==
    [id |-> id, provider |-> provider, kind |-> "completion", inputPrice |-> 1,
     outputPrice |-> 1, cacheReadPrice |-> 1, cacheWritePrice |-> 1,
     contextWindow |-> 100, modalities |-> {}, dimensions |-> Unset,
     speechPrices |-> <<>>, capabilities |-> Capabilities]

SeedModels == [o1 |-> Model("o1", "openai"), a1 |-> Model("a1", "anthropic"),
               g1 |-> Model("g1", "google")]

Sized(min, default, max) ==
    [min |-> min, default |-> default, max |-> max, recommended |-> {default}]
NewInfos ==
    {[Model("o1", "openai") EXCEPT !.capabilities = {"supportsTools"}],
     [Model("g1", "google") EXCEPT !.dimensions = Sized(1, 2, 3)],
     [Model("a1", "anthropic") EXCEPT !.kind = Unset]}
NewPrices ==
    {[o1 |-> [inputPrice |-> 2]],
     [a1 |-> [cacheReadPrice |-> -1]],
     [g1 |-> [dimensions |-> Sized(3, 2, 3)]]}

UsageReports ==
    {[counts EXCEPT !.provider = provider] : provider \in Providers, counts \in
       {[provider |-> None, input |-> 5, output |-> 2, cacheRead |-> 3, cacheWrite |-> 4,
         thoughts |-> 1],
        [provider |-> None, input |-> Unset, output |-> 2, cacheRead |-> Unset,
         cacheWrite |-> Unset, thoughts |-> Unset]}}

-----------------------------------------------------------------------------
(* Listing: two sessions of one tenant and one of another.                  *)

Session(tenant, name) == [tenant |-> tenant, name |-> name]
ListedSessions == {Session(1, 1), Session(1, 2), Session(2, 1)}
ListFilters == {[tenant |-> Undefined, model |-> Undefined], [tenant |-> 1, model |-> Undefined]}
ListedKeys ==
    {{}, {<<Session(1, 1), 1>>, <<Session(1, 2), 2>>, <<Session(2, 1), 1>>},
     {<<Session(1, 1), 2>>, <<Session(2, 1), 2>>}}

-----------------------------------------------------------------------------
(* Search results, scopes, two ranked lists and texts to be chunked.        *)

Texts == {<<"x">>, <<"x", " ", "x", "x">>, <<"x", "x", " ", " ", "x", "x", "x", "x", "x">>}
SearchResults == [chunk : {1, 2}, source : {"s", "t"}, text : Texts]
SmallContexts ==
    [results : UNION {[1..n -> SearchResults] : n \in 0..3},
     maxTokens : 2..9, maxResults : 1..2, perSource : 1..2]

Scopes(values) == [tenantId : values, botId : values]
SmallScopes ==
    [question : {"q"}, filter : Scopes({NotSet, "", "a", "b"}),
     request : Scopes({NotSet, "a", "b"}), required : SUBSET {"tenantId", "botId"},
     allowUnscoped : BOOLEAN]

\* Two of these four have one key, s:t:c.
SmallHits == [chunk : {<<"c">>, <<"t", ":", "c">>}, source : {<<"s">>, <<"s", ":", "t">>}]
RankedLists == {list \in UNION {[1..n -> SmallHits] : n \in 0..3} : IsInjective(list)}
SmallMerges == [dense : RankedLists, lexical : RankedLists, weight : {1, 2}, lexicalWeight : {1}]

SmallTexts ==
    {call \in [text : UNION {[1..n -> {"a", Chunk!Space, Chunk!Newline, "."}] : n \in 1..6},
              size : 1..4, minimum : 1..4, overlap : 0..2] :
        Chunk!ValidOptions(call.size, call.minimum, call.overlap)}

-----------------------------------------------------------------------------
(* Settings of conversations, and speech requests.                          *)

Unsaved ==
    [sessionId |-> "session", messages |-> "messages", createdAt |-> 0, updatedAt |-> 0,
     totalTokens |-> 0, totalCostUSD |-> 0, version |-> 0]
    @@ [field \in Saved!Settings \union Saved!NotSaved |-> NotSet]

Handled == <<[name |-> "f", execute |-> TRUE], [name |-> "g", execute |-> FALSE]>>
Twice == <<[name |-> "f", execute |-> TRUE], [name |-> "f", execute |-> FALSE]>>

SmallSettings ==
    {[Unsaved EXCEPT !.budgetUsd = budget, !.maxToolRounds = rounds, !.timeout = timeout,
        !.toolValidation = validation, !.maxTokens = tokens, !.providerOptions = provider,
        !.responseFormat = format, !.toolChoice = choice] :
       budget \in {NotSet, 0, 3}, rounds \in {NotSet, 0, 5, 10, 14},
       timeout \in {NotSet, 1, 2, 3, 60}, validation \in {NotSet, "strict", "permissive"},
       tokens \in {NotSet, 0, 5, 8},
       provider \in {NotSet, [google_thinking_budget |-> -2],
                     [anthropic_thinking_type |-> "enabled", anthropic_thinking_budget |-> 4]},
       format \in {NotSet, [type |-> "json_schema", fields |-> {"schema", "strict"}]},
       choice \in {NotSet, [type |-> "any", fields |-> {}]}}
    \union
    {[Unsaved EXCEPT !.tools = tools, !.budgetExceededAction = action, !.onCompaction = observer,
        !.toolCallDispatcher = dispatcher, !.maxToolRounds = rounds] :
       tools \in {NotSet, Handled, Twice}, action \in {NotSet, "throw", "skip"},
       observer \in {NotSet, "observer"}, dispatcher \in {NotSet, "dispatcher"},
       rounds \in {NotSet, 0}}

GivenSettings ==
    {Unsaved, [Unsaved EXCEPT !.maxToolRounds = 0, !.toolValidation = "strict"],
     [Unsaved EXCEPT !.maxToolRounds = 14, !.tools = Handled, !.budgetExceededAction = "warn",
        !.toolCallDispatcher = "dispatcher", !.onCompaction = "observer"]}

SmallSnapshots ==
    [options : SmallSettings, given : GivenSettings, tokens : {7}, cost : {1},
     created : {3}, updated : {5}]

SpeechPrices ==
    {<<>>, [secondsOut |-> 2], [secondsIn |-> 1, textOut |-> 3], [textOut |-> 1],
     [textIn |-> 1, secondsOut |-> 1, request |-> 1]}

SpeechAsks ==
    {[kind |-> kind, budget |-> budget, action |-> action, length |-> length,
      estimatedSeconds |-> known, maxSeconds |-> bound,
      givenSeconds |-> known, derivedSeconds |-> bound] :
       kind \in {"speech", "transcription"}, budget \in {NotSet, 0, 2, 4},
       action \in {"throw", "skip", "warn"}, length \in {1, 5},
       known \in {NotSet, 1, 3}, bound \in {NotSet, 1, 3}}

SmallSpeech ==
    [request : SpeechAsks, prices : SpeechPrices,
     answer : [seconds : {NotSet, 2, 3}, length : {0, 5}],
     fired : {"never", "before", "answering", "logging"}]

-----------------------------------------------------------------------------
MCInit == PipelineInit /\ TrialInit /\ ListInit

\* Nothing is listed yet, and nothing stored.
NoListing == writes = 0 /\ records = <<>> /\ listing.phase = "idle" /\ listing.pages = <<>>

MCNext ==
    \/ TrialInit /\ NoListing /\ PipelineNext /\ UNCHANGED <<trial, lvars>>
    \/ PipelineInit /\ NoListing /\ (Try \/ TryParser) /\ UNCHANGED <<pipelineVars, lvars>>
    \/ PipelineInit /\ TrialInit /\ ListNext /\ UNCHANGED <<pipelineVars, trial>>

MCSpec == MCInit /\ [][MCNext]_<<pipelineVars, trial, lvars>>
-----------------------------------------------------------------------------
\* A schema sent to a provider that enforces it leaves nothing open: every
\* object in it refuses other properties, for OpenAI every property is
\* required, and no property, at any depth, was lost or added on the way.
SchemasKept ==
    wire # None /\ phase = "sent" /\ wire.schema # None =>
        LET format == prepared.ask.format
            strict == Format!StrictFor(wire.provider, format)
        IN  /\ Format!SameShape(wire.schema, format.schema)
            /\ \A node \in Format!NodesOf(wire.schema) :
                  Format!IsObject(node) /\ strict =>
                     /\ node.extra = "no"
                     /\ wire.provider = "openai" /\ DOMAIN node.props # {}
                          => node.required = DOMAIN node.props
=============================================================================
