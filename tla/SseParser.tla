----------------------------- MODULE SseParser -----------------------------
(* src/utils/parse-sse.ts: the payloads of a server-sent event stream that  *)
(* arrives in reads cut anywhere. A text is a sequence of symbols: CR, LF,  *)
(* Comment (a leading colon), Data (the characters "data:") and payload     *)
(* symbols; Done is the payload that ends a stream.                         *)
EXTENDS Integers, SequencesExt

CONSTANTS CR, LF, Comment, Data, Done

\* The state parseSSE keeps between reads, and the payloads it has yielded.
Start == [buffer |-> <<>>, dataLines |-> <<>>, events |-> <<>>]

\* dataLines.join('\n')
Joined(lines) ==
    FoldLeftDomain(LAMBDA text, i : IF i = 1 THEN lines[i] ELSE text \o <<LF>> \o lines[i],
                   <<>>, lines)

\* flushEvent
Flush(s) ==
    IF s.dataLines = <<>> THEN s
    ELSE [s EXCEPT !.dataLines = <<>>,
                   !.events = IF Joined(s.dataLines) = Done THEN @
                              ELSE Append(@, Joined(s.dataLines))]

\* processLine
Line(s, line) ==
    IF line = <<>> THEN Flush(s)
    ELSE IF Head(line) = Data THEN [s EXCEPT !.dataLines = Append(@, Tail(line))]
    ELSE s

\* buffer.search(/\r?\n/): where the first line ends and how long its end is.
FirstBreak(buffer) ==
    LET at == SelectInSeq(buffer, LAMBDA c : c = LF)
    IN  IF at > 1 /\ buffer[at - 1] = CR
        THEN [end |-> at - 2, next |-> at + 1] ELSE [end |-> at - 1, next |-> at + 1]

\* The inner loop over the lines the buffer holds.
RECURSIVE Lines(_)
Lines(s) ==
    IF ~Contains(s.buffer, LF) THEN s
    ELSE LET break == FirstBreak(s.buffer)
             rest == [s EXCEPT !.buffer = SubSeq(@, break.next, Len(@))]
         IN  Lines(Line(rest, SubSeq(s.buffer, 1, break.end)))

\* Mutant: what was left of the last read is forgotten.
ReadAlone(s, text) == Lines([s EXCEPT !.buffer = text])

\* One read, and the end of the stream.
Read(s, text) == Lines([s EXCEPT !.buffer = @ \o text])

Finish(s) ==
    Flush(IF s.buffer = <<>> THEN s ELSE [Line(s, s.buffer) EXCEPT !.buffer = <<>>])

Events(reads) == Finish(FoldLeft(Read, Start, reads)).events
=============================================================================
