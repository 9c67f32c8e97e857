------------------------------- MODULE Costs -------------------------------
(* src/utils/cost.ts: from the usage a provider reports to what a call      *)
(* cost. Prices are integers per token; Unset is a field the provider or    *)
(* the price table does not have. A cost is in twentieths of a price, as    *)
(* the default price of a cache hit is a tenth of the input price and that *)
(* of a cache write five quarters of it.                                    *)
EXTENDS Integers, SequencesExt

CONSTANTS Unset

Or(value, default) == IF value = Unset THEN default ELSE value

-----------------------------------------------------------------------------
(* anthropicUsageToCanonical, openaiUsageToCanonical,                       *)
(* geminiUsageToCanonical. A reported usage is [input, output, cacheRead,   *)
(* cacheWrite, thoughts]: OpenAI and Gemini count the cached tokens in      *)
(* input, Anthropic does not; OpenAI counts reasoning in output, Gemini     *)
(* reports it apart.                                                        *)

\* Mutant: what was read from the cache stays in the billed input.
CanonicalGross(provider, usage) ==
    [inputTokens |-> Or(usage.input, 0), outputTokens |-> Or(usage.output, 0),
     billedInput |-> Or(usage.input, 0), cachedRead |-> Or(usage.cacheRead, 0),
     cachedWrite |-> IF provider = "anthropic" THEN Or(usage.cacheWrite, 0) ELSE 0,
     cachedTokens |-> Or(usage.cacheRead, 0),
     billedReasoning |-> IF provider = "google" THEN Or(usage.thoughts, 0) ELSE 0]

Canonical(provider, usage) ==
    LET input == Or(usage.input, 0)
        read == Or(usage.cacheRead, 0)
        write == IF provider = "anthropic" THEN Or(usage.cacheWrite, 0) ELSE 0
    IN  [inputTokens |-> input,
         outputTokens |-> Or(usage.output, 0),
         billedInput |-> IF provider = "anthropic" THEN input
                         ELSE IF input >= read THEN input - read ELSE 0,
         cachedRead |-> read,
         cachedWrite |-> write,
         cachedTokens |-> read + write,
         billedReasoning |-> IF provider = "google" THEN Or(usage.thoughts, 0) ELSE 0]

-----------------------------------------------------------------------------
(* calcCostUSD, in twentieths. *)

CacheReadPrice(prices) == IF prices.cacheReadPrice = Unset
                          THEN 2 * prices.inputPrice ELSE 20 * prices.cacheReadPrice
CacheWritePrice(prices) == IF prices.cacheWritePrice = Unset
                           THEN 25 * prices.inputPrice ELSE 20 * prices.cacheWritePrice

Cost(prices, usage) ==
    20 * usage.billedInput * prices.inputPrice
    + 20 * (usage.outputTokens + usage.billedReasoning) * prices.outputPrice
    + usage.cachedRead * CacheReadPrice(prices)
    + usage.cachedWrite * CacheWritePrice(prices)

\* calcSpeechCostUSD: one line per unit that is both measured and priced; a
\* request price is charged once. No line, no cost.
SpeechUnits == {"textIn", "textOut", "audioIn", "audioOut", "secondsIn",
                "secondsOut", "charsIn", "charsOut"}

SpeechLines(prices, measured) ==
    {unit \in SpeechUnits \intersect DOMAIN prices \intersect DOMAIN measured :
        measured[unit] > 0}
    \union (IF "request" \in DOMAIN prices THEN {"request"} ELSE {})

SpeechCost(prices, measured) ==
    LET lines == SpeechLines(prices, measured)
        amount(unit) == IF unit \in lines THEN prices[unit] * measured[unit] ELSE 0
        request == IF "request" \in lines THEN prices["request"] ELSE 0
    IN  IF lines = {} THEN Unset
        ELSE amount("textIn") + amount("textOut") + amount("audioIn") + amount("audioOut")
             + amount("secondsIn") + amount("secondsOut") + amount("charsIn")
             + amount("charsOut") + request
=============================================================================
