---------------------------- MODULE ParserTrials ----------------------------
(* The library's parsers, each tried on every input of a small set: event   *)
(* streams, and texts with personal data.                                   *)
EXTENDS AlgorithmTrials, TLC

-----------------------------------------------------------------------------
(* A server-sent event stream, cut into reads.                              *)

Sse == INSTANCE SseParser WITH CR <- "CR", LF <- "LF", Comment <- ":",
                               Data <- "data:", Done <- <<"DONE">>

Symbols == {"data:", ":", "p", "DONE", "CR", "LF"}

TryStream ==
    \E text \in UNION {[1..n -> Symbols] : n \in 1..5} :
        trial' = [of |-> "stream", text |-> text]

\* The reads a text arrives in when the transport cuts it after some symbols.
Cut(text, places) ==
    LET ends == SetToSortSeq(places \union {Len(text)}, <)
    IN  [i \in DOMAIN ends |-> SubSeq(text, IF i = 1 THEN 1 ELSE ends[i - 1] + 1, ends[i])]

\* Where the network cuts a stream makes no difference to its payloads, be it
\* inside a line or between the two characters of a line end.
PayloadsIndependentOfReads ==
    trial.of = "stream" =>
        \A places \in SUBSET (1..(Len(trial.text) - 1)) :
            Sse!Events(Cut(trial.text, places)) = Sse!Events(<<trial.text>>)

-----------------------------------------------------------------------------
(* Texts with numbers and addresses, and a tool call that holds them.       *)

DigitValue == "1" :> 1 @@ "8" :> 8
Marks == [credit_card |-> "[card]", email |-> "[email]", phone |-> "[phone]"]
Privacy == INSTANCE PrivacyFilters
           WITH Value <- DigitValue, Letters <- {"a"}, CardLengths <- <<6, 4>>,
                MinDigits <- 3, MaxDigits <- 5, Replacement <- Marks

Fragments == {<<"1", "8", "1", "8">>, <<"1", "8">>, <<"1", "-", "1", "-", "1">>, <<"+">>,
              <<"a", "@", "a", ".", "a", "a">>, <<" ">>, <<"-">>, <<"a">>, <<"(", "1", ")">>}

TryRedact ==
    \E fragments \in UNION {[1..n -> Fragments] : n \in 1..3}, validate \in BOOLEAN,
       kinds \in {{"credit_card", "email", "phone"}, {"email", "phone"}, {"credit_card"}} :
        trial' = [of |-> "redaction", text |-> FlattenSeq(fragments), kinds |-> kinds,
                  validate |-> validate]

\* A tool call with a text in every place a text can be: `kept' in those where
\* it is a link, an annotation, media data or encoded, `open' in the others.
Arguments(kept, open) ==
    LET text(t, encoded) == [type |-> "text", text |-> t, encoded |-> encoded]
        entry(key, value) == [key |-> key, value |-> value]
        object(media, entries) == [type |-> "object", media |-> media, entries |-> entries]
        list(items) == [type |-> "list", items |-> items]
    IN  object(TRUE, <<entry("link", text(kept, FALSE)),
                       entry("annotations", list(<<text(kept, FALSE)>>)),
                       entry("data", text(kept, FALSE)),
                       entry("other", list(<<text(kept, TRUE), text(open, FALSE),
                                             object(FALSE, <<entry("data", text(open, FALSE))>>)>>))>>)

\* The reported ranges are replaced by their marks, and nothing else changes.
ReplacesReported(text, result, covered) ==
    LET rest == SelectSeq([i \in DOMAIN text |-> i], LAMBDA i : i \notin covered)
    IN  /\ SelectSeq(result.text, LAMBDA c : c \notin Range(Marks))
             = [i \in DOMAIN rest |-> text[rest[i]]]
        /\ SelectSeq(result.text, LAMBDA c : c \in Range(Marks))
             = [i \in DOMAIN result.occurrences |-> Marks[result.occurrences[i].kind]]

\* Every address is covered that shares no symbol with a card number.
AddressesCovered(text, found) ==
    \A e \in Privacy!Ranges(text, {"email"}, TRUE) :
        \/ e \in found
        \/ \E r \in found : r.kind = "credit_card" /\ e.start <= r.end /\ r.start <= e.end

\* Every number is covered that is as a whole a card number.
CardsCovered(text, covered) ==
    \A a, b \in DOMAIN text :
        LET whole(ends) == ends # <<>> /\ Last(ends) = b
            card(digits) == Len(digits) \in {4, 6} /\ Privacy!PassesLuhn(digits)
        IN  Privacy!StartsNumber(text, a) /\ whole(Privacy!DigitEnds(text, a))
              /\ card(Privacy!DigitsIn(text, a, b))
              => a..b \subseteq covered

RedactedSoundly(text, kinds, validate, result) ==
    LET found == Range(result.occurrences)
        covered == UNION {r.start..r.end : r \in found}
        call(args) == [type |-> "tool_call", name |-> "f", args |-> args]
    IN  /\ ReplacesReported(text, result, covered)
        /\ "email" \in kinds => AddressesCovered(text, found)
        /\ "credit_card" \in kinds => CardsCovered(text, covered)
        /\ validate => Privacy!RedactedPart(call(Arguments(text, text)), kinds)
                         = call(Arguments(text, result.text))

\* Redaction replaces what it reports and nothing else; every address goes that
\* shares no symbol with a card number, and every number that is as a whole a
\* card number; and in a tool call it reaches every text but those that are
\* links, annotations, media data or encoded.
RedactionSound ==
    trial.of = "redaction" =>
        RedactedSoundly(trial.text, trial.kinds, trial.validate,
                        Privacy!Redacted(trial.text, trial.kinds, trial.validate))

-----------------------------------------------------------------------------
TryParser ==
    /\ trial.of = "none"
    /\ TryStream \/ TryRedact
=============================================================================
