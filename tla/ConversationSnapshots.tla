------------------------ MODULE ConversationSnapshots ------------------------
(* The settings of a conversation on their way through a store: the options *)
(* the constructor accepts, the snapshot buildSnapshot writes, what         *)
(* src/conversation-snapshot-validation.ts lets back in, and the            *)
(* conversation restore builds from it.                                     *)
(*                                                                          *)
(* A conversation is a record of settings; Unset is undefined. Numbers that *)
(* need not be whole are counted in halves: an odd one is not an integer.   *)
EXTENDS Integers, FiniteSets

CONSTANTS Unset,
          DefaultRounds, MaxRounds,         \* DEFAULT_, MAX_TOOL_ROUNDS
          DefaultTimeout, MaxTimeout,       \* ..._TOOL_EXECUTION_TIMEOUT_MS, halves
          KnownProviders,                   \* PROVIDERS
          ControlNames                      \* the names with control characters

Whole(halves) == halves % 2 = 0
Optional(value, accepted) == value = Unset \/ accepted

\* What a snapshot holds of the options of a conversation.
Settings == {"budgetUsd", "maxToolRounds", "maxContextTokens", "maxTokens", "model",
             "provider", "providerOptions", "responseFormat", "system", "tenantId",
             "timeout", "toolValidation", "toolChoice", "tools"}

\* What it does not hold; the observer of compactions is not even taken from
\* the options of restore.
Runtime == {"budgetExceededAction", "contextManager", "onWarning", "store",
            "toolCallDispatcher", "toolCallDispatcherMetadata"}
NotSaved == Runtime \union {"onCompaction"}

Fields == Settings \union NotSaved \union
          {"sessionId", "messages", "createdAt", "updatedAt", "totalTokens",
           "totalCostUSD", "version"}

\* Tools are told apart by their names; execute says whether one has a handler.
Distinct(tools) ==
    \A i, j \in DOMAIN tools : tools[i].name = tools[j].name => i = j

-----------------------------------------------------------------------------
(* The constructor of Conversation. *)

\* normalizeMaxToolRounds, normalizeToolExecutionTimeoutMs
Rounds(option) == IF option = Unset THEN DefaultRounds ELSE option
Timeout(option) == IF option = Unset THEN DefaultTimeout ELSE option

Constructible(options) ==
    /\ Optional(options.budgetUsd, options.budgetUsd >= 0)
    /\ Whole(Rounds(options.maxToolRounds))
    /\ Rounds(options.maxToolRounds) \in 0..MaxRounds
    /\ Timeout(options.timeout) > 0 /\ Timeout(options.timeout) <= MaxTimeout
    /\ Optional(options.tools, Distinct(options.tools))

\* What the constructor keeps: every option, four of them with their defaults;
\* createdAt and updatedAt are the time now.
Constructed(options, now) ==
    [options EXCEPT !.maxToolRounds = Rounds(@), !.timeout = Timeout(@),
                    !.toolValidation = IF @ = Unset THEN "strict" ELSE @,
                    !.budgetExceededAction = IF @ = Unset THEN "throw" ELSE @,
                    !.createdAt = now, !.updatedAt = now]

-----------------------------------------------------------------------------
(* buildSnapshot: a setting that has its default is left out, and of a tool *)
(* the handler, which JSON has no form for.                                 *)

Definitions(tools) ==
    IF tools = Unset THEN Unset
    ELSE [i \in DOMAIN tools |-> [name |-> tools[i].name, execute |-> FALSE]]

Held(c) == [field \in DOMAIN c |-> IF field \in NotSaved THEN Unset ELSE c[field]]

\* Mutant: a setting that is zero is left out as well.
SnapshotOfTruthy(c) ==
    [Held(c) EXCEPT !.maxToolRounds = IF @ \in {0, DefaultRounds} THEN Unset ELSE @,
                    !.timeout = IF @ = DefaultTimeout THEN Unset ELSE @,
                    !.toolValidation = IF @ = "strict" THEN Unset ELSE @,
                    !.tools = Definitions(@)]

Snapshot(c) ==
    [Held(c) EXCEPT !.maxToolRounds = IF @ = DefaultRounds THEN Unset ELSE @,
                    !.timeout = IF @ = DefaultTimeout THEN Unset ELSE @,
                    !.toolValidation = IF @ = "strict" THEN Unset ELSE @,
                    !.tools = Definitions(@)]

-----------------------------------------------------------------------------
(* validateSnapshot *)

\* optionalResponseFormat, for the fields the format was given.
FormatAccepted(format) ==
    /\ format.type \in {"text", "json_object", "json_schema"}
    /\ IF format.type = "json_schema" THEN "schema" \in format.fields
       ELSE format.fields \intersect {"schema", "name", "strict"} = {}

\* optionalToolChoice
ChoiceAccepted(choice) ==
    IF choice.type = "tool" THEN choice.name \notin {Unset, ""}
    ELSE choice.type \in {"any", "auto", "none"} /\ choice.fields = {}

\* optionalProviderOptions: the values of every option that has a fixed set.
OptionValues ==
    [anthropic_effort          |-> {"high", "low", "max", "medium", "xhigh"},
     anthropic_cache_type      |-> {"ephemeral"},
     anthropic_cache_ttl       |-> {"1h", "5m"},
     anthropic_thinking_type   |-> {"adaptive", "disabled", "enabled"},
     anthropic_thinking_display |-> {"omitted", "summarized"},
     google_thinking_level     |-> {"high", "low", "medium", "minimal"},
     google_includeThoughts    |-> BOOLEAN,
     openai_caching_retention  |-> {"24h", "in_memory"},
     openai_effort             |-> {"high", "low", "medium", "minimal", "none", "xhigh"},
     openai_includeEncrypted   |-> BOOLEAN,
     openai_summary            |-> {"auto", "concise", "detailed"}]

\* numericField: whole, and no less than its minimum; -1 is Gemini's dynamic
\* thinking.
OptionMinimum == [anthropic_thinking_budget |-> 0, google_thinking_budget |-> -2]

Names == {"google_cachedContent", "openai_caching_key"}

ProviderOptionsAccepted(options) ==
    /\ DOMAIN options \subseteq DOMAIN OptionValues \union DOMAIN OptionMinimum \union Names
    /\ \A name \in DOMAIN options \intersect DOMAIN OptionValues :
          options[name] \in OptionValues[name]
    /\ \A name \in DOMAIN options \intersect DOMAIN OptionMinimum :
          Whole(options[name]) /\ options[name] >= OptionMinimum[name]
    /\ DOMAIN options \intersect {"anthropic_thinking_display", "anthropic_thinking_budget"} # {}
          => "anthropic_thinking_type" \in DOMAIN options
    /\ "anthropic_cache_ttl" \in DOMAIN options => "anthropic_cache_type" \in DOMAIN options

Accepted(s) ==
    /\ s.updatedAt >= s.createdAt
    /\ s.sessionId # "" /\ s.sessionId \notin ControlNames
    /\ Optional(s.provider, s.provider \in KnownProviders)
    /\ s.totalTokens >= 0 /\ s.totalCostUSD >= 0 /\ s.version >= 0
    /\ Optional(s.budgetUsd, s.budgetUsd >= 0)
    /\ Optional(s.maxContextTokens, s.maxContextTokens >= 0 /\ Whole(s.maxContextTokens))
    /\ Optional(s.maxTokens, s.maxTokens >= 0 /\ Whole(s.maxTokens))
    /\ Optional(s.maxToolRounds, s.maxToolRounds \in 0..MaxRounds /\ Whole(s.maxToolRounds))
    /\ Optional(s.timeout, s.timeout >= 2 /\ s.timeout <= MaxTimeout)
    /\ Optional(s.providerOptions, ProviderOptionsAccepted(s.providerOptions))
    /\ Optional(s.responseFormat, FormatAccepted(s.responseFormat))
    /\ Optional(s.toolChoice, ChoiceAccepted(s.toolChoice))
    /\ Optional(s.toolValidation, s.toolValidation \in {"permissive", "strict"})
    /\ Optional(s.tools, Distinct(s.tools) /\ \A i \in DOMAIN s.tools : ~s.tools[i].execute)

-----------------------------------------------------------------------------
\* Conversation.restore: an option of the caller goes before the snapshot's;
\* the totals, the dates and the version are the snapshot's.
Chosen(options, s) ==
    [field \in DOMAIN s |->
       IF field \in Settings \union Runtime /\ options[field] # Unset
       THEN options[field] ELSE s[field]]

Restored(options, s) ==
    [Constructed(Chosen(options, s), 0) EXCEPT !.createdAt = s.createdAt,
                                               !.updatedAt = s.updatedAt]

\* commit: a turn adds its usage, dates the conversation and counts a version.
Committed(c, tokens, cost, now) ==
    [c EXCEPT !.totalTokens = @ + tokens, !.totalCostUSD = @ + cost,
              !.updatedAt = now, !.version = @ + 1]
=============================================================================
