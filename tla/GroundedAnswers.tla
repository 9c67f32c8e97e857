-------------------------- MODULE GroundedAnswers --------------------------
(* src/chatbot.ts: retrieveAndComplete, which searches, puts what fits into *)
(* the prompt, asks the model, and lets an answer through only when its     *)
(* citations and the caller's check hold.                                   *)
EXTENDS Integers, FiniteSets

CONSTANTS Fallback,     \* fallbackText
          Unset         \* a scope field that is not given

ScopeFields == {"tenantId", "botId"}

\* assertRetrievalScope: a blank value counts as missing.
ScopeGiven(filter, required, allowUnscoped) ==
    allowUnscoped \/ \A field \in required : filter[field] \notin {Unset, ""}

\* assertCompletionScope
ScopesAgree(request, filter) ==
    \A field \in ScopeFields :
        request[field] = Unset \/ filter[field] = Unset \/ request[field] = filter[field]

\* withCompletionScope: what the completion is billed to.
CompletionScope(request, filter) ==
    [field \in ScopeFields |-> IF request[field] = Unset THEN filter[field] ELSE request[field]]

\* Mutant: an ordinal of nought passes.
OrdinalsAbove(cited, count) == {n \in cited : n > count}

\* validateCitationReferences: cited is the set of ordinals the text names.
InvalidOrdinals(cited, count) == {n \in cited : n < 1 \/ n > count}

CitationsValid(cited, count, required) ==
    /\ InvalidOrdinals(cited, count) = {}
    /\ ~(required /\ count > 0 /\ cited = {})

\* The call, once the search has answered: shown is the number of results in
\* the context, answer the model's text with the ordinals it cites, supported
\* what the grounding check says (TRUE when there is none).
Outcome(options, shown, answer, supported) ==
    IF shown = 0
    THEN [status |-> "no_results", text |-> Fallback, asked |-> FALSE]
    ELSE LET good == CitationsValid(answer.cited, shown, options.requireCitations) /\ supported
         IN  [status |-> IF good THEN "answered" ELSE "ungrounded",
              text |-> IF good \/ options.onUngrounded = "return" THEN answer.text ELSE Fallback,
              asked |-> TRUE]

\* What is refused before anything is searched.
Refused(options) ==
    \/ options.question = ""
    \/ ~ScopeGiven(options.filter, options.required, options.allowUnscoped)
    \/ ~ScopesAgree(options.request, options.filter)
=============================================================================
