--------------------------- MODULE AlgorithmTrials ---------------------------
(* The library's pure algorithms, each tried on every call of a set: a      *)
(* trial is one call, and the properties compare its answer with what the   *)
(* call promises, or with a definition that does not share its method.      *)
EXTENDS Integers, SequencesExt, Ordering

CONSTANTS NotSet,         \* undefined
          ContextCalls, ScopeCalls, MergeCalls, ChunkCalls, SnapshotCalls, SpeechCalls,
          Ordinals,       \* what an answer may cite
          FusionK, Scale, HeaderLen, EnvelopeLen, PrefixLen, MarkerLen,
          DefaultRounds, MaxRounds, DefaultTimeout, MaxTimeout,
          KnownProviders, ControlNames

VARIABLE trial            \* the kind of the call and its arguments

Ranking == INSTANCE RetrievalRanking
Chat == INSTANCE GroundedAnswers WITH Fallback <- "fallback", Unset <- NotSet
Chunk == INSTANCE Chunking
Saved == INSTANCE ConversationSnapshots WITH Unset <- NotSet
Speech == INSTANCE SpeechRequests WITH Unset <- NotSet

ASSUME NotSetAssumption == NotSet \notin Int \union {"", "strict", "permissive", "throw"}

-----------------------------------------------------------------------------
(* Search results, a token budget and an answer with citations.             *)

ASSUME ContextAssumption ==
    /\ HeaderLen \in Nat /\ EnvelopeLen \in Nat /\ PrefixLen \in Nat /\ MarkerLen \in Nat
    /\ Ordinals \subseteq Int
    /\ \A call \in ContextCalls :
         /\ call.results \in Seq(Range(call.results))
         /\ \A r \in Range(call.results) : r.text \in Seq(Range(r.text))
         /\ call.maxTokens \in Nat /\ call.maxResults \in Nat /\ call.perSource \in Nat

\* The text formatRetrievedContext builds stays within its budget, every result
\* that is not in it is counted as left out, and one that was cut was cut as
\* late as the budget allows.
ContextWithinBudget ==
    trial.of = "context" =>
        LET call == trial.call
            results == call.results
            budget == call.maxTokens
            limited == Ranking!Limit(results, call.maxResults, call.perSource)
            context == Ranking!Context(results, budget, call.maxResults, call.perSource)
            shown == Ranking!Blocks(limited, budget)
            last == Len(shown.blocks)
            cuts(text) == {Ranking!CutBlock(Ranking!Trimmed(text, n)) : n \in 0..Len(text)}
        IN  /\ context.tokens <= budget
            /\ context.used + context.omitted = Len(results)
            /\ ~context.truncated =>
                 shown.blocks = [i \in DOMAIN results |-> Ranking!WholeBlock(results[i])]
            /\ context.used > 0 /\ shown.partial =>
                 /\ context.truncated
                 /\ \A length \in cuts(limited[last].text) :
                      length > shown.blocks[last] =>
                        ~Ranking!Fits(Append(Front(shown.blocks), length), budget)

\* An answer passes for grounded only when there was something to ground it on
\* and everything it cites is in the context the model was shown, not merely
\* among the results of the search; whatever else it says, the caller gets the
\* fallback text. And it is charged to whom the search was for: to the filter's
\* tenant and bot, and to a tenant at all unless the caller renounced it.
AnswersGrounded ==
    /\ trial.of = "scope" /\ ~Chat!Refused(trial.call) =>
        LET o == trial.call
            charged == Chat!CompletionScope(o.request, o.filter)
        IN  \A field \in Chat!ScopeFields :
              /\ o.filter[field] # NotSet => charged[field] = o.filter[field]
              /\ field \in o.required /\ ~o.allowUnscoped => charged[field] \notin {NotSet, ""}
    /\ trial.of = "context" =>
        LET call == trial.call
            shown == Ranking!Context(call.results, call.maxTokens,
                                     call.maxResults, call.perSource).used
        IN  \A cited \in SUBSET Ordinals, required, supported \in BOOLEAN :
              LET options == [requireCitations |-> required, onUngrounded |-> "fallback"]
                  outcome == Chat!Outcome(options, shown, [text |-> "answer", cited |-> cited],
                                          supported)
              IN  outcome.text = "answer" =>
                    /\ shown > 0 /\ supported
                    /\ cited \subseteq 1..shown
                    /\ required => cited # {}

-----------------------------------------------------------------------------
(* Two ranked lists.                                                        *)

ASSUME MergeAssumption ==
    /\ FusionK \in Nat /\ Scale \in Nat
    /\ \A call \in MergeCalls :
         /\ call.dense \in Seq(Range(call.dense)) /\ call.lexical \in Seq(Range(call.lexical))
         /\ \A hit \in Range(call.dense) \union Range(call.lexical) :
              hit = [chunk |-> hit.chunk, source |-> hit.source]
         /\ call.weight \in Nat /\ call.lexicalWeight \in Nat

\* What the places of a list that have a key are worth together.
Worth(list, weight, key) ==
    Ranking!Loop(LAMBDA sum, n : IF Ranking!Key(list[n]) = key
                                 THEN sum + Ranking!Share(weight, n) ELSE sum,
                 0, Len(list))

\* Fusion by reciprocal ranks gives every key of either list once, as the first
\* result that has it, with the sum of what all its places in both lists are
\* worth, best first, and among equals the one met first. Results are told
\* apart by their keys: two whose identifiers join to one key are one here.
FusionRanks ==
    trial.of = "merge" =>
        LET dense == trial.call.dense
            lexical == trial.call.lexical
            both == dense \o lexical
            merged == Ranking!Merge(dense, lexical, trial.call.weight,
                                    trial.call.lexicalWeight, Len(both), Len(both))
            total(key) == Worth(dense, trial.call.weight, key)
                          + Worth(lexical, trial.call.lexicalWeight, key)
            hit(n) == [chunk |-> merged[n].chunk, source |-> merged[n].source]
            key(n) == Ranking!Key(merged[n])
            none(k, places) == \A i \in places : Ranking!Key(both[i]) # k
        IN  /\ \A h \in Range(both) : \E n \in DOMAIN merged : key(n) = Ranking!Key(h)
            /\ \A n \in DOMAIN merged :
                 /\ merged[n].score = total(key(n))
                 /\ \E i \in DOMAIN both : both[i] = hit(n) /\ none(key(n), 1..(i - 1))
            /\ \A m, n \in DOMAIN merged : m < n =>
                 /\ key(m) # key(n)
                 /\ \/ merged[m].score > merged[n].score
                    \/ /\ merged[m].score = merged[n].score
                       /\ \E i \in DOMAIN both :
                            Ranking!Key(both[i]) = key(m) /\ none(key(n), 1..i)

\* Every result of either list is among the merged ones. Not checked: it does
\* not hold, for results of different sources whose identifiers join to one key.
EveryHitGiven ==
    trial.of = "merge" =>
        LET both == trial.call.dense \o trial.call.lexical
            merged == Ranking!Merge(trial.call.dense, trial.call.lexical, trial.call.weight,
                                    trial.call.lexicalWeight, Len(both), Len(both))
        IN  \A h \in Range(both) : \E n \in DOMAIN merged :
              merged[n].chunk = h.chunk /\ merged[n].source = h.source

-----------------------------------------------------------------------------
(* A text and chunk options.                                                *)

ASSUME ChunkAssumption ==
    \A call \in ChunkCalls :
        /\ call.text \in Seq(Range(call.text))
        /\ call.size \in Nat /\ call.minimum \in Nat /\ call.overlap \in Nat
        /\ Chunk!ValidOptions(call.size, call.minimum, call.overlap)

\* Nothing of a text is lost between its chunks: every character that is not
\* blank is in one; no chunk is empty or longer than asked, they begin at
\* growing offsets, and none begins or ends with a blank.
ChunksCoverText ==
    trial.of = "chunks" =>
        LET call == trial.call
            text == Chunk!CleanText(call.text)
            chunks == Chunk!Chunks(text, call.size, call.minimum, call.overlap)
            held == UNION {Chunk!Offsets(chunks[i]) : i \in DOMAIN chunks}
        IN  /\ {o \in 0..(Len(text) - 1) : ~Chunk!BlankAt(text, o)} \subseteq held
            /\ \A i \in DOMAIN chunks :
                  /\ chunks[i].start < chunks[i].end
                  /\ chunks[i].end - chunks[i].start <= call.size
                  /\ ~Chunk!BlankAt(text, chunks[i].start)
                  /\ ~Chunk!BlankAt(text, chunks[i].end - 1)
            /\ \A i, j \in DOMAIN chunks : i < j => chunks[i].start < chunks[j].start

-----------------------------------------------------------------------------
(* The settings of a conversation, saved and restored. Numbers in halves.   *)

\* What the types let a caller ask for, in the values the provider accepts.
SettingsTyped(options) ==
    /\ DOMAIN options = Saved!Fields
    /\ \A field \in {"budgetUsd", "maxToolRounds", "maxContextTokens", "maxTokens", "timeout"} :
          options[field] \in Int \union {NotSet}
    /\ \A field \in {"totalTokens", "totalCostUSD", "version"} : options[field] \in Nat
    /\ options.sessionId \notin {""} \union ControlNames
    /\ options.provider \in KnownProviders \union {NotSet}
    /\ options.toolValidation \in {"permissive", "strict", NotSet}
    /\ options.budgetExceededAction \in {"throw", "skip", "warn", NotSet}
    /\ options.providerOptions # NotSet =>
          Saved!ProviderOptionsAccepted(options.providerOptions)
    /\ options.responseFormat # NotSet => Saved!FormatAccepted(options.responseFormat)
    /\ options.toolChoice # NotSet => Saved!ChoiceAccepted(options.toolChoice)

ASSUME SnapshotAssumption ==
    /\ MaxRounds \in Nat /\ DefaultRounds \in 0..MaxRounds /\ Saved!Whole(DefaultRounds)
    /\ MaxTimeout \in Nat /\ DefaultTimeout \in 2..MaxTimeout
    /\ \A call \in SnapshotCalls :
         /\ SettingsTyped(call.options) /\ SettingsTyped(call.given)
         /\ call.tokens \in Nat /\ call.cost \in Nat
         /\ call.created \in Nat /\ call.updated \in Nat /\ call.created <= call.updated

\* What the types do not say: whole numbers are whole, no number is out of its
\* range, a time limit is at least a millisecond, no two tools have one name.
Proper(options) ==
    /\ Saved!Constructible(options)
    /\ Saved!Optional(options.timeout, options.timeout >= 2)
    /\ \A field \in {"maxTokens", "maxContextTokens"} :
         Saved!Optional(options[field], options[field] >= 0 /\ Saved!Whole(options[field]))

\* A conversation as it comes back to a caller who gives these options: what
\* is given goes first; what no snapshot holds and was not given again has its
\* default; tools that were not given have lost their handlers; all else is as
\* it was, zero and the defaults included.
Expected(c, given) ==
    [field \in DOMAIN c |->
       IF field \in Saved!Settings \union Saved!Runtime /\ given[field] # NotSet
       THEN given[field]
       ELSE CASE field = "budgetExceededAction" -> "throw"
              [] field \in Saved!NotSaved \ {"budgetExceededAction"} -> NotSet
              [] field = "tools" -> Saved!Definitions(c.tools)
              [] OTHER -> c[field]]

NoOptions == [field \in Saved!Fields |-> NotSet]

\* A conversation can be read back after any turn, if the clock does not run
\* backwards, and again after it was read back and changed by options: each
\* time with every setting a snapshot holds.
SnapshotRoundTrip ==
    trial.of = "snapshot" =>
        LET call == trial.call
            saved == Saved!Committed(Saved!Constructed(call.options, call.created),
                                     call.tokens, call.cost, call.updated)
            again == Saved!Restored(call.given, Saved!Snapshot(saved))
        IN  Proper(call.options) /\ Proper(call.given) =>
              /\ Saved!Accepted(Saved!Snapshot(saved))
              /\ again = Expected(saved, call.given)
              /\ Saved!Accepted(Saved!Snapshot(again))
              /\ Saved!Restored(NoOptions, Saved!Snapshot(again)) = Expected(again, NoOptions)

\* docs/CONVERSATIONS_AND_TOOLS.md:53 calls the options a caller gives when a
\* snapshot is restored the trusted runtime policy, and
\* docs/RUNTIME_API_IMPROVEMENTS.md:52 has the caller of client.conversation,
\* which restores what is stored, observe compactions with onCompaction: an
\* option that is given is in force. Not checked: restore drops the observer.
GivenOptionsKept ==
    trial.of = "snapshot" =>
        LET call == trial.call
            saved == Saved!Constructed(call.options, call.created)
            again == Saved!Restored(call.given, Saved!Snapshot(saved))
        IN  \A field \in Saved!Settings \union Saved!NotSaved :
              call.given[field] # NotSet => again[field] = call.given[field]

-----------------------------------------------------------------------------
(* Speech requests, with and without a budget.                              *)

ASSUME SpeechAssumption ==
    \A call \in SpeechCalls :
        /\ \A unit \in DOMAIN call.prices : call.prices[unit] \in Nat
        /\ call.request.kind \in {"speech", "transcription"}
        /\ call.request.budget \in Nat \union {NotSet}
        /\ call.request.action \in {"throw", "skip", "warn"}
        /\ call.request.length \in Nat /\ call.answer.length \in Nat
        /\ \A field \in {"estimatedSeconds", "maxSeconds", "givenSeconds", "derivedSeconds"} :
             call.request[field] \in Nat \union {NotSet}
        /\ call.answer.seconds \in Nat \union {NotSet}

\* A spoken or transcribed request whose budget is not to be exceeded costs no
\* more than that, as logged, for what can be known beforehand, when the audio
\* is no longer than the caller or its own header said; what was skipped was
\* not sent and costs nothing, and every answer given has been logged once.
SpeechBudgetKept ==
    trial.of = "speech" =>
        LET o == trial.call.request
            prices == trial.call.prices
            answer == trial.call.answer
            outcome == Speech!Outcome(o, prices, answer, trial.call.fired)
            bounded == DOMAIN prices \ {"textOut", "charsOut"}
            said == IF o.kind = "speech" THEN o.maxSeconds
                    ELSE Speech!Or(o.givenSeconds, o.derivedSeconds)
            longer == /\ answer.seconds # NotSet
                      /\ said # NotSet /\ answer.seconds > said
            cost == Speech!SpeechCost([u \in bounded |-> prices[u]], Speech!Usage(o, answer))
        IN  /\ outcome.sent /\ o.budget # NotSet /\ o.action # "warn" /\ ~longer
               => cost = NotSet \/ cost <= o.budget
            /\ outcome.answered => Len(outcome.logged) = 1
            /\ ~outcome.sent => outcome.logged \in {<<>>, <<0>>}
            /\ outcome.logged = <<0>> /\ ~outcome.sent => o.action = "skip"

-----------------------------------------------------------------------------
TrialInit == trial = [of |-> "none"]

Calls(kind) ==
    CASE kind = "context" -> ContextCalls
      [] kind = "scope" -> ScopeCalls
      [] kind = "merge" -> MergeCalls
      [] kind = "chunks" -> ChunkCalls
      [] kind = "snapshot" -> SnapshotCalls
      [] kind = "speech" -> SpeechCalls

TrialKinds == {"context", "scope", "merge", "chunks", "snapshot", "speech"}

Try ==
    /\ trial.of = "none"
    /\ \E kind \in TrialKinds : \E call \in Calls(kind) : trial' = [of |-> kind, call |-> call]

TrialSpec == TrialInit /\ [][Try]_trial
=============================================================================
