--------------------------- MODULE SpeechRequests ---------------------------
(* LLMClient.speak and transcribe (src/client.ts) with the usage the OpenAI *)
(* adapter reports for them (src/providers/openai.ts): the budget checked   *)
(* before a request is sent, and what is logged for it afterwards. Prices   *)
(* and measured quantities are functions on the units of Costs.             *)
EXTENDS Costs

Known(quantities) ==
    [u \in {u \in DOMAIN quantities : quantities[u] # Unset} |-> quantities[u]]

\* estimateTokens
TokensOf(length) == (length + 3) \div 4

\* What is known of a request before it is sent. The seconds of a file to be
\* transcribed may be derived from its header.
Estimate(o) ==
    Known(IF o.kind = "speech"
          THEN [charsIn |-> o.length, textIn |-> TokensOf(o.length),
                secondsOut |-> Or(o.estimatedSeconds, o.maxSeconds)]
          ELSE [secondsIn |-> Or(o.givenSeconds, o.derivedSeconds)])

\* What the adapter reports: the caller's own estimate of the seconds spoken
\* goes before what the audio says, the provider's count of the seconds heard
\* before the caller's.
Usage(o, answer) ==
    Known(IF o.kind = "speech"
          THEN [charsIn |-> o.length, textIn |-> TokensOf(o.length),
                secondsOut |-> Or(o.estimatedSeconds, Or(answer.seconds, o.maxSeconds))]
          ELSE [secondsIn |-> Or(answer.seconds, Or(o.givenSeconds, o.derivedSeconds)),
                charsOut |-> answer.length, textOut |-> TokensOf(answer.length)])

\* Mutant: seconds nobody has given are taken for free.
PreflightUnmeasured(o, prices) ==
    LET cost == SpeechCost(prices, Estimate(o))
    IN  IF o.budget = Unset \/ cost = Unset \/ cost <= o.budget \/ o.action = "warn"
        THEN "continue" ELSE IF o.action = "skip" THEN "skip" ELSE "throw"

\* handleSpeechBudgetExceededAction, resolveSpeechBudgetExceededAction
Preflight(o, prices) ==
    LET cost == SpeechCost(prices, Estimate(o))
        seconds == IF o.kind = "speech" THEN "secondsOut" ELSE "secondsIn"
        unmeasured == seconds \in DOMAIN prices /\ seconds \notin DOMAIN Estimate(o)
    IN  IF o.budget = Unset THEN "continue"
        ELSE IF prices = <<>> \/ unmeasured THEN "throw"
        ELSE IF cost = Unset \/ cost <= o.budget \/ o.action = "warn" THEN "continue"
        ELSE o.action

\* speak, transcribe: whether the request was sent, the costs logged, and
\* whether the caller got an answer. The signal may have fired before the
\* call, while the provider answered, or while the answer was logged.
Outcome(o, prices, answer, fired) ==
    LET decision == Preflight(o, prices)
        nothing == [sent |-> FALSE, logged |-> <<>>, answered |-> FALSE]
    IN  IF fired = "before" \/ decision = "throw" THEN nothing
        ELSE IF decision = "skip" THEN [nothing EXCEPT !.logged = <<0>>, !.answered = TRUE]
        ELSE IF fired = "answering" THEN [nothing EXCEPT !.sent = TRUE]
        ELSE [sent |-> TRUE, logged |-> <<SpeechCost(prices, Usage(o, answer))>>,
              answered |-> fired = "never"]
=============================================================================
