------------------------------ MODULE Chunking ------------------------------
(* src/chunking.ts: the split of a cleaned text into overlapping chunks.    *)
(* A text is a sequence of characters; offsets count from zero, so that     *)
(* text[offset + 1] is the character at an offset.                          *)
EXTENDS Integers, SequencesExt, Ordering

Space == "space"
Newline == "newline"
Whitespace == {Space, Newline, "tab"}
BlankAt(text, offset) == text[offset + 1] \in Whitespace

\* chunkOptions: what it accepts.
ValidOptions(chunkSize, minChunkSize, overlap) ==
    /\ chunkSize >= 1
    /\ minChunkSize \in 1..chunkSize
    /\ overlap \in 0..(chunkSize - 1)

\* cleanText: one blank between words, no blank beside a line break, no more
\* than two line breaks in a row, nothing of either at the ends.
EndsWith(text, suffix) == Len(text) >= Len(suffix) /\ IsSuffix(suffix, text)

WithoutLast(text, set) ==
    IF text # <<>> /\ Last(text) \in set THEN Front(text) ELSE text

Clean(text, c) ==
    LET line == WithoutLast(text, {Space})
    IN  CASE c \notin Whitespace -> Append(text, c)
          [] c \in {Space, "tab"} -> IF text = <<>> \/ Last(text) \in Whitespace
                                    THEN text ELSE Append(text, Space)
          [] c = Newline -> IF line = <<>> \/ EndsWith(line, <<Newline, Newline>>)
                            THEN line ELSE Append(line, Newline)

CleanText(input) ==
    LET text == Loop(LAMBDA text, n : Clean(text, input[n]), <<>>, Len(input))
    IN  WithoutLast(WithoutLast(text, {Space, Newline}), {Newline})

\* The places a chunk would rather end at, best first.
Breaks == << <<Newline, Newline>>, <<".", Space>>, <<"!", Space>>, <<"?", Space>>,
             <<Newline>>, <<Space>> >>

\* input.lastIndexOf(pattern, from), -1 when there is none. A match may reach
\* beyond from.
LastIndexOf(text, pattern, from) ==
    Max({-1} \union {i \in 0..from :
           /\ i + Len(pattern) <= Len(text)
           /\ SubSeq(text, i + 1, i + Len(pattern)) = pattern})

\* findChunkBoundary
Boundary(text, start, proposed, minChunkSize) ==
    LET minimum == Min({start + minChunkSize, proposed})
        good == {b \in DOMAIN Breaks : LastIndexOf(text, Breaks[b], proposed - 1) >= minimum}
        best == Breaks[Min(good)]
    IN  IF good = {} THEN proposed
        ELSE LastIndexOf(text, best, proposed - 1) + Len(best)

\* Mutant: the last character of a chunk is cut off.
TrimEndShort(text, from, to) ==
    Max({from} \union {i \in (from + 1)..(to - 1) : ~BlankAt(text, i - 1)})

\* skipLeadingWhitespace and the two loops of trimChunkRange
SkipBlank(text, from, to) == Min({to} \union {i \in from..(to - 1) : ~BlankAt(text, i)})

TrimEnd(text, from, to) == Max({from} \union {i \in (from + 1)..to : ~BlankAt(text, i - 1)})

\* chunkText: one round of its loop, which has come to the offset start.
Advance(walk, text, chunkSize, minChunkSize, overlap) ==
    LET length == Len(text)
        start == walk.start
        proposed == Min({start + chunkSize, length})
        chosen == IF proposed < length
                  THEN Boundary(text, start, proposed, minChunkSize) ELSE proposed
        first == SkipBlank(text, start, chosen)
        last == TrimEnd(text, first, chosen)
        next == SkipBlank(text, Max({chosen - overlap, start + 1}), length)
    IN  IF start >= length THEN walk
        ELSE IF first >= last THEN [walk EXCEPT !.start = Min({length, chosen + 1})]
        ELSE [start |-> IF chosen >= length THEN length ELSE next,
              chunks |-> Append(walk.chunks, [start |-> first, end |-> last])]

\* The chunks as [start, end] offsets; every round goes forward.
Chunks(text, chunkSize, minChunkSize, overlap) ==
    Loop(LAMBDA walk, n : Advance(walk, text, chunkSize, minChunkSize, overlap),
         [start |-> 0, chunks |-> <<>>], Len(text)).chunks

\* The offsets a chunk holds.
Offsets(chunk) == chunk.start..(chunk.end - 1)
=============================================================================
