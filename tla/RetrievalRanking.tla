-------------------------- MODULE RetrievalRanking --------------------------
(* What src/retrieval.ts does with search results once they are there: the  *)
(* reciprocal rank fusion of a dense and a lexical list, the limits on the  *)
(* number of results and on the results of one source, and the context text *)
(* that is cut to a token budget.                                           *)
(*                                                                          *)
(* A result is a record with fields chunk and source. Where results are     *)
(* fused these identifiers are sequences of characters; texts are sequences *)
(* of characters of which only the blank matters.                           *)
EXTENDS Integers, SequencesExt, Ordering

CONSTANTS FusionK,      \* options.fusionK: how much the first ranks weigh
          Scale         \* a common multiple of the ranks' denominators

Blank == " "

-----------------------------------------------------------------------------
(* Limits and fusion. *)

\* limitRetrievalResults: in order, no more than topK, no more than perSource
\* of one source.
Keep(kept, r, topK, perSource) ==
    IF /\ Len(kept) < topK
       /\ Cardinality({i \in DOMAIN kept : kept[i].source = r.source}) < perSource
    THEN Append(kept, r) ELSE kept

Limit(results, topK, perSource) ==
    Loop(LAMBDA kept, n : Keep(kept, results[n], topK, perSource), <<>>, Len(results))

\* weight / (fusionK + index + 1), in units of 1 / Scale.
Share(weight, rank) == (weight * Scale) \div (FusionK + rank)

\* Mutant: chunks of different sources with one identifier are taken for one.
SameChunk(r, s) == r.chunk = s.chunk

\* getRetrievalResultKey: both identifiers, joined by a colon that neither of
\* them is kept from having. Results with one key are one result.
Key(r) == r.source \o <<":">> \o r.chunk

SameResult(r, s) == Key(r) = Key(s)

\* applyReciprocalRankFusion: one pass over one list. A result met before adds
\* to its entry, which keeps its place; a new one is appended.
Credit(entries, r, share, strategy) ==
    LET old == {j \in DOMAIN entries : SameResult(entries[j], r)}
    IN  IF old = {}
        THEN Append(entries, [chunk |-> r.chunk, source |-> r.source,
                              score |-> share, by |-> {strategy}])
        ELSE [j \in DOMAIN entries |->
                IF j \in old THEN [entries[j] EXCEPT !.score = @ + share,
                                                     !.by = @ \union {strategy}]
                ELSE entries[j]]

Fuse(entries, results, weight, strategy) ==
    Loop(LAMBDA fused, n : Credit(fused, results[n], Share(weight, n), strategy),
         entries, Len(results))

\* A stable sort, best first.
Before(entries, i, j) ==
    \/ entries[i].score > entries[j].score
    \/ entries[i].score = entries[j].score /\ i < j

Sorted(entries) ==
    [n \in DOMAIN entries |-> entries[
        CHOOSE i \in DOMAIN entries :
            Cardinality({j \in DOMAIN entries : Before(entries, j, i)}) = n - 1]]

\* mergeRetrievalCandidates: both lists fused, sorted by score, limited.
Merge(dense, lexical, denseWeight, lexicalWeight, topK, perSource) ==
    LET fused == Fuse(Fuse(<<>>, dense, denseWeight, "dense"),
                      lexical, lexicalWeight, "lexical")
    IN  Limit(Sorted(fused), topK, perSource)

-----------------------------------------------------------------------------
(* formatRetrievedContext. Lengths are characters; the texts around a       *)
(* result's own text have fixed lengths.                                    *)

CONSTANTS HeaderLen,    \* the header and its blank line
          EnvelopeLen,  \* the BEGIN and END UNTRUSTED lines
          PrefixLen,    \* source, scores and metadata above a text
          MarkerLen     \* [truncated]

\* estimateTokens: ceil(length / 3.5)
Tokens(length) == (2 * length + 6) \div 7

Total(lengths) == Loop(LAMBDA sum, n : sum + lengths[n], 0, Len(lengths))

\* contextText: the envelope is there only when there is a block in it.
ContextLen(blocks) ==
    IF blocks = <<>> THEN HeaderLen
    ELSE HeaderLen + EnvelopeLen + Total(blocks) + 2 * (Len(blocks) - 1)

\* Mutant: the budget is compared with the blocks alone.
BlocksFit(blocks, maxTokens) == Tokens(Total(blocks)) <= maxTokens

Fits(blocks, maxTokens) == Tokens(ContextLen(blocks)) <= maxTokens

\* text.slice(0, n).trimEnd(), as a length
Trimmed(text, n) == Max({0} \union {i \in 1..n : text[i] # Blank})

\* A block with all of a text, and with the first characters of one.
WholeBlock(r) == PrefixLen + Trimmed(r.text, Len(r.text))
CutBlock(n) == PrefixLen + n + MarkerLen

\* truncateBlock: the binary search for the longest cut that fits. Each round
\* leaves fewer lengths to try than there were, so Len(text) + 1 are enough.
Halve(search, text, blocks, maxTokens) ==
    LET middle == (search.low + search.high) \div 2
        cut == Trimmed(text, middle)
    IN  IF search.low > search.high THEN search
        ELSE IF Fits(Append(blocks, CutBlock(cut)), maxTokens)
        THEN [search EXCEPT !.low = middle + 1, !.best = cut]
        ELSE [search EXCEPT !.high = middle - 1]

LongestCut(text, blocks, maxTokens) ==
    Loop(LAMBDA search, n : Halve(search, text, blocks, maxTokens),
         [low |-> 0, high |-> Len(text), best |-> 0], Len(text) + 1).best

\* The loop over the limited results: whole blocks while they fit, then one
\* cut block if there is room for its frame, then nothing more.
AddBlock(shown, r, maxTokens) ==
    LET whole == Append(shown.blocks, WholeBlock(r))
        cut == Append(shown.blocks, CutBlock(LongestCut(r.text, shown.blocks, maxTokens)))
    IN  CASE shown.stop -> shown
          [] ~shown.stop /\ Fits(whole, maxTokens) -> [shown EXCEPT !.blocks = whole]
          [] ~shown.stop /\ ~Fits(whole, maxTokens)
                /\ Fits(Append(shown.blocks, CutBlock(0)), maxTokens)
               -> [blocks |-> cut, stop |-> TRUE, partial |-> TRUE]
          [] OTHER -> [shown EXCEPT !.stop = TRUE]

Blocks(results, maxTokens) ==
    Loop(LAMBDA shown, n : AddBlock(shown, results[n], maxTokens),
         [blocks |-> <<>>, stop |-> FALSE, partial |-> FALSE], Len(results))

\* The whole call: what is shown, in tokens, and what is reported as left out.
Context(results, maxTokens, maxResults, perSource) ==
    LET limited == Limit(results, maxResults, perSource)
        shown == Blocks(limited, maxTokens)
        omitted == Len(results) - Len(shown.blocks)
    IN  IF limited = <<>> \/ Tokens(HeaderLen) > maxTokens
        THEN [tokens |-> 0, used |-> 0, omitted |-> Len(results),
              truncated |-> Len(results) > 0]
        ELSE [tokens |-> Tokens(ContextLen(shown.blocks)), used |-> Len(shown.blocks),
              omitted |-> omitted, truncated |-> shown.partial \/ omitted > 0]
=============================================================================
