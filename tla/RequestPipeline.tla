--------------------------- MODULE RequestPipeline ---------------------------
(* A completion on its way through src/client.ts: the router picks the      *)
(* routes from the registry, each route's adapter checks what its model can *)
(* do, translates the request and sends it, and the answer is priced from   *)
(* the registry. Meanwhile models are registered and re-priced, and the     *)
(* caller goes on writing into its own messages: a caller of complete() or, *)
(* for a conversation (a managed call), the context manager that picked     *)
(* them. Retries, budgets, logging and aborts are ClientRequests'.          *)
(*                                                                          *)
(* Cap: MaxMessages messages of the caller, MaxChanges changes of the       *)
(* registry, MaxSends requests on the wire for one call.                    *)
EXTENDS ModelRegistry, ProviderRequests

CONSTANTS Ids,            \* the model ids a provider may answer with
          Asks,           \* the options of a call besides its messages
          Written,        \* the messages a caller writes: role and parts
          Answers,        \* the parts of a model's answer
          Usages,         \* what a provider reports as usage, with its name
          Rules,          \* the rules of the ModelRouter
          Sides,
          MaxMessages, MaxChanges, MaxSends, NoName, None,
          FormatCapable(_, _, _),   \* structured-output.ts: whether a model
          FormatRejected(_, _, _),  \* has a format, whether its provider
          SchemaOnWire(_, _)        \* refuses one, and the schema it is sent

\* A message has a role and parts, a part the fields of ProviderRequests.
PartFieldsGiven == {"type", "fields", "empty", "tag", "cache", "call"}
ArePartsOf(parts) ==
    /\ parts \in Seq(Range(parts))
    /\ \A j \in DOMAIN parts : PartFieldsGiven \subseteq DOMAIN parts[j]

\* OpenAI and Gemini count the tokens they read from the cache as input too.
Reported(usage, field) == IF usage[field] = Unset THEN 0 ELSE usage[field]
Counts == {"input", "output", "cacheRead", "cacheWrite", "thoughts"}

ASSUME PipelineAssumption ==
    /\ \A message \in Written : {"role", "parts"} \subseteq DOMAIN message
                             /\ ArePartsOf(message.parts)
    /\ \A parts \in Answers : ArePartsOf(parts)
    /\ \A ask \in Asks : ask.system \in Seq(Range(ask.system))
    /\ Rules \in Seq(Range(Rules))
    /\ \A i \in DOMAIN Rules : Rules[i].fallback \in Seq(Range(Rules[i].fallback))
    /\ \A usage \in Usages :
          /\ \A field \in Counts : Reported(usage, field) \in Nat
          /\ usage.provider # "anthropic" => Reported(usage, "cacheRead") <= Reported(usage, "input")

VARIABLES conversation,   \* the caller's messages
          asked,          \* the same when the call was made, or, for a caller
                          \* whose array is shared, when it was sent last
          prepared,       \* the messages and the options
          plan, at,       \* the routes of the request, and the one it is on
          phase,          \* "idle", "planned", "sent", "failed"
          wire,           \* what was sent last
          sends,          \* how often something was sent
          bill,           \* the usage and the cost of the last answer
          changes         \* how often the registry was changed

callVars == <<asked, prepared, plan, at, phase, wire, sends>>
pipelineVars == <<registryVars, conversation, callVars, bill, changes>>

Router == INSTANCE ModelRouter
Bill == INSTANCE Costs

-----------------------------------------------------------------------------
\* A message with the place of each part as its tag.
Tagged(message, place) ==
    [message EXCEPT !.parts = [j \in DOMAIN @ |-> [@[j] EXCEPT !.tag = <<place, j>>]]]

Add(message) == conversation' = Append(conversation, Tagged(message, Len(conversation) + 1))

\* prepareModelStepMessages: what a context manager returns is checked and
\* copied, so that it may go on writing into its own array.
Cloned(ask, messages) ==
    [ask |-> ask, messages |-> IF ask.managed THEN messages ELSE <<>>]

\* Mutant: the conversation keeps the array of its context manager.
MessagesShared(req) == conversation

\* withValidatedRequest keeps the array of a caller as it is: every attempt on
\* every route reads it anew.
Messages(req) == IF req.ask.managed THEN req.messages ELSE conversation

\* The options of LLMClient as the adapters take them.
Options(req) ==
    [messages |-> Messages(req), system |-> req.ask.system, tools |-> req.ask.tools,
     stream |-> req.ask.stream, choice |-> req.ask.choice, caching |-> req.ask.caching,
     cacheControl |-> req.ask.cacheControl, thinking |-> req.ask.thinking,
     budget |-> req.ask.budget, maxTokens |-> req.ask.maxTokens]

Known == [id \in DOMAIN models |-> models[id].provider]

\* buildRouterContext
Context(ask) ==
    [requestedModel |-> ask.model, requestedProvider |-> ask.provider,
     hasTools |-> ask.tools # <<>>, tenantId |-> ask.tenantId]

\* resolveRequest for one attempt of the plan
RouteAccepts(attempt, ask) ==
    /\ models[attempt.model].provider = attempt.provider
    /\ FormatCapable(models[attempt.model].capabilities, ask.format, ask.stream)

Mentions(messages) ==
    \E i \in DOMAIN messages : \E j \in DOMAIN messages[i].parts :
        messages[i].parts[j].type = "text"

\* The adapter's body of the request, or its refusal.
Body(route, req) ==
    LET options == Options(req)
        format == req.ask.format
        sent == Translation(route.provider, options)
    IN  IF \/ TranslationRefused(route.provider, options)
           \/ FormatRejected(route.provider, format,
                             Mentions(Messages(req)) \/ req.ask.system # <<>>)
        THEN [refused |-> TRUE]
        ELSE [refused |-> FALSE, system |-> sent.system, blocks |-> sent.blocks,
              contents |-> sent.contents, choice |-> sent.choice, tools |-> sent.tools,
              schema |-> IF format.type = "json_schema"
                         THEN SchemaOnWire(route.provider, format) ELSE None,
              provider |-> route.provider, model |-> route.model]

\* resolveOpenAIModelId, resolveAnthropicModelId: the model that answered when
\* it is in the registry, the requested one otherwise; Gemini: the requested.
BilledModel(route, answered) ==
    IF route.provider # "google" /\ answered # NoName /\ Supported(answered)
    THEN answered ELSE route.model

-----------------------------------------------------------------------------
PipelineInit ==
    /\ RegistryInit
    /\ \A i \in DOMAIN Rules : Router!ValidRule(Rules[i])   \* or the router is not built
    /\ conversation = <<>> /\ asked = <<>> /\ prepared = None
    /\ plan = <<>> /\ at = 0 /\ phase = "idle" /\ wire = None /\ sends = 0
    /\ bill = None /\ changes = 0

\* The caller writes a message, whether or not a call is running.
Write(message) ==
    /\ Len(conversation) < MaxMessages
    /\ Add(message)
    /\ UNCHANGED <<registryVars, callVars, bill, changes>>

\* models.register and updatePrices, by whoever holds the registry.
ChangeRegistry ==
    /\ changes < MaxChanges
    /\ changes' = changes + 1
    /\ RegistryNext
    /\ UNCHANGED <<conversation, callVars, bill>>

\* complete, stream: withValidatedRequest and resolveRequestPlan. All routes
\* are resolved before the first is tried; one that is not usable fails all.
Call(ask, roll) ==
    LET defaults == [model |-> NoName, provider |-> NoName]
        req == Cloned(ask, conversation)
        routes == Router!Resolve(Rules, Context(ask), defaults, roll, Known)
    IN  /\ phase = "idle" /\ conversation # <<>>
        /\ asked' = conversation
        /\ IF /\ ask.managed => ValidMessages(conversation)
              /\ ValidCacheMarks([cacheControl |-> ask.cacheControl, messages |-> conversation])
              /\ ValidPromptCaching(ask.caching) /\ ValidTools(ask.tools)
              /\ Router!Resolves(Rules, Context(ask), defaults, roll, Known)
              /\ \A i \in DOMAIN routes : RouteAccepts(routes[i], ask)
           THEN /\ prepared' = req /\ plan' = routes /\ at' = 1 /\ phase' = "planned"
           ELSE /\ prepared' = None /\ plan' = <<>> /\ at' = 0 /\ phase' = "failed"
        /\ sends' = 0 /\ wire' = None /\ bill' = None
        /\ UNCHANGED <<registryVars, conversation, changes>>

\* buildRequestInit: the body is translated for each attempt; what the
\* translation refuses is not retryable and ends the request.
SendBody ==
    LET body == Body(plan[at], prepared)
    IN  /\ IF body.refused
           THEN phase' = "failed" /\ UNCHANGED <<asked, wire, sends>>
           ELSE /\ phase' = "sent" /\ wire' = body /\ sends' = sends + 1
                /\ asked' = IF prepared.ask.managed THEN asked ELSE conversation
        /\ UNCHANGED <<registryVars, conversation, prepared, plan, at, bill, changes>>

\* dispatchComplete, dispatchStream: the adapter checks once on each route what
\* its model can do.
DispatchCall ==
    LET route == plan[at]
    IN  /\ phase = "planned"
        /\ IF Capable(route.provider, Options(prepared),
                      {c \in Capabilities : HasCapability(models, route.model, c)})
           THEN SendBody
           ELSE /\ phase' = "failed"
                /\ UNCHANGED <<registryVars, conversation, asked, prepared, plan, at, wire,
                               sends, bill, changes>>

\* withRetry: a transient failure sends the request again.
RetrySend == phase = "sent" /\ sends < MaxSends /\ SendBody

\* A retryable failure leaves the route for the next one, if there is any.
FallBack ==
    /\ phase = "sent"
    /\ IF at < Len(plan) /\ sends < MaxSends
       THEN at' = at + 1 /\ phase' = "planned"
       ELSE phase' = "failed" /\ UNCHANGED at
    /\ UNCHANGED <<registryVars, conversation, asked, prepared, plan, wire, sends, bill, changes>>

\* translateOpenAIResponse and its siblings price the answer from the registry
\* of that moment; the caller takes the answer into its conversation.
Answer(parts, usage, answered) ==
    LET route == plan[at]
        billed == BilledModel(route, answered)
    IN  /\ phase = "sent" /\ Len(conversation) < MaxMessages
        /\ usage.provider = route.provider
        /\ bill' = [provider |-> route.provider, usage |-> usage, prices |-> models[billed],
                    cost |-> Bill!Cost(models[billed], Bill!Canonical(route.provider, usage))]
        /\ Add([role |-> "assistant", parts |-> parts])
        /\ phase' = "idle" /\ plan' = <<>> /\ at' = 0 /\ prepared' = None
        /\ asked' = <<>> /\ wire' = None /\ sends' = 0
        /\ UNCHANGED <<registryVars, changes>>

\* The error has reached the caller.
Failed ==
    /\ phase = "failed"
    /\ phase' = "idle" /\ plan' = <<>> /\ at' = 0 /\ prepared' = None
    /\ asked' = <<>> /\ wire' = None /\ sends' = 0
    /\ UNCHANGED <<registryVars, conversation, bill, changes>>

PipelineNext ==
    \/ \E message \in Written : Write(message)
    \/ ChangeRegistry
    \/ \E ask \in Asks, roll \in 1..Sides : Call(ask, roll)
    \/ DispatchCall \/ RetrySend \/ FallBack
    \/ \E parts \in Answers, usage \in Usages, answered \in Ids \union {NoName} :
          Answer(parts, usage, answered)
    \/ Failed

PipelineSpec == PipelineInit /\ [][PipelineNext]_pipelineVars

-----------------------------------------------------------------------------
(* What callers may rely on.                                                *)

\* Every part of the conversation is in the request exactly once, as it was
\* when the call was made, whichever route it takes and whatever its context
\* manager has written since, or, for a caller whose array is shared, as it was
\* when this attempt was sent: the messages in order, the calls and results of
\* a message in order, each under its own role, and all system texts after the
\* prompt. No mark for Anthropic's cache is lost, and a tool the caller insists
\* on is still the one the model must call.
RequestFaithful ==
    LET cached(q) == "cacheControl" \in asked[q[1]].parts[q[2]].fields IN
    wire # None /\ phase = "sent" =>
        LET places == UNION {{<<i, j>> : j \in DOMAIN asked[i].parts} : i \in DOMAIN asked}
            lifted == {q \in places : asked[q[1]].role = "system"}
            tagAt(n) == wire.contents[n].tag
            system == SubSeq(wire.system, Len(prepared.ask.system) + 1, Len(wire.system))
        IN  /\ IsInjective([n \in DOMAIN wire.contents |-> tagAt(n)])
            /\ {tagAt(n) : n \in DOMAIN wire.contents} = places \ lifted
            /\ Range(system) = lifted /\ IsInjective(system)
            /\ IsPrefix(prepared.ask.system, wire.system)
            /\ \A n \in DOMAIN wire.contents :
                  LET at_n == wire.contents[n] IN
                  /\ at_n.role = asked[at_n.tag[1]].role
                  /\ at_n.call = asked[at_n.tag[1]].parts[at_n.tag[2]].call
            /\ \A m, n \in DOMAIN wire.contents : m < n =>
                  \/ tagAt(m)[1] < tagAt(n)[1]
                  \/ /\ tagAt(m)[1] = tagAt(n)[1]
                     /\ wire.contents[m].type = wire.contents[n].type
                            => tagAt(m)[2] < tagAt(n)[2]
            /\ wire.provider = "anthropic" =>
                 /\ \A n \in DOMAIN wire.contents : wire.contents[n].marked = cached(tagAt(n))
                 /\ (\E q \in lifted : cached(q)) => wire.blocks
            /\ prepared.ask.choice.type = "tool" =>
                 wire.choice.only = prepared.ask.choice.name /\ wire.choice.mode = "must"

\* Where every kind of token has the same price an answer costs that price for
\* every token the provider counted: a cached token is neither billed twice
\* nor forgotten, although providers disagree on what their totals include.
FlatPrice(info) == {info.inputPrice, info.outputPrice, info.cacheReadPrice,
                    info.cacheWritePrice} = {info.inputPrice}

TokensBilledOnce ==
    bill # None /\ FlatPrice(bill.prices) =>
        LET used == bill.usage
            counted == Reported(used, "input") + Reported(used, "output")
              + (IF bill.provider = "anthropic"
                 THEN Reported(used, "cacheRead") + Reported(used, "cacheWrite") ELSE 0)
              + (IF bill.provider = "google" THEN Reported(used, "thoughts") ELSE 0)
        IN  bill.cost = 20 * counted * bill.prices.inputPrice

\* However prices are overridden and models replaced, the registry holds only
\* records its validation accepts, and the models of a running request are in
\* it: an answer that was paid for can always be priced.
RegistrySound ==
    /\ \A id \in DOMAIN models : models[id].id = id /\ ValidInfo(models[id], TRUE)
    /\ \A i \in DOMAIN plan : Supported(plan[i].model)
=============================================================================
