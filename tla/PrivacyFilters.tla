--------------------------- MODULE PrivacyFilters ---------------------------
(* src/pii.ts: which parts of a text, a JSON value or a message part are    *)
(* replaced. A text is a sequence of symbols, positions in it are numbers   *)
(* from 1, and a range is [start, end, kind] with both ends inside. The     *)
(* replacement of a kind is one symbol that is no word character. Card      *)
(* numbers are short here: CardLengths lists their lengths, longest first.  *)
EXTENDS Integers, FiniteSetsExt, SequencesExt, Functions

CONSTANTS Value,        \* the number a digit stands for, by digit
          Letters, CardLengths, MinDigits, MaxDigits,
          Replacement   \* by kind

Digits == DOMAIN Value
Symbol(text, i) == IF i \in DOMAIN text THEN text[i] ELSE "none"
IsDigit(text, i) == Symbol(text, i) \in Digits
IsWord(text, i) == Symbol(text, i) \in Digits \union Letters
Separated(text, i) == Symbol(text, i) \in {" ", "-"}
DigitsIn(text, a, b) == SelectSeq(SubSeq(text, a, b), LAMBDA c : c \in Digits)

\* The last position of the run of symbols in `class' that begins at i.
RunEnd(text, i, class) ==
    LET stop == SelectInSubSeq(text, i, Len(text), LAMBDA c : c \notin class)
    IN  IF stop = 0 THEN Len(text) ELSE stop - 1

-----------------------------------------------------------------------------
(* addRange: what overlaps a range found before is dropped. *)

\* Mutant: ranges may overlap.
AddRangeAlways(ranges, range) == ranges \union {range}

AddRange(ranges, range) ==
    IF \E r \in ranges : range.start <= r.end /\ range.end >= r.start
    THEN ranges ELSE ranges \union {range}

-----------------------------------------------------------------------------
(* addCreditCardRanges. *)

\* passesLuhn
PassesLuhn(digits) ==
    LET n == Len(digits)
        weighed(i) == LET v == Value[digits[i]] * (IF (n - i) % 2 = 1 THEN 2 ELSE 1)
                      IN  IF v > 9 THEN v - 9 ELSE v
    IN  /\ \E i \in 1..n : digits[i] # digits[1]
        /\ FoldLeftDomain(LAMBDA sum, i : sum + weighed(i), 0, digits) % 10 = 0

\* The digits from start on, with at most one blank or hyphen between two.
DigitEnds(text, start) ==
    LET joined(i) == IsDigit(text, i) \/ (Separated(text, i) /\ IsDigit(text, i + 1)
                                            /\ IsDigit(text, i - 1))
        reached(e) == e >= start /\ IsDigit(text, e) /\ \A i \in start..e : joined(i)
    IN  SelectSeq([i \in DOMAIN text |-> i], reached)

\* The candidate lengths at a start, the first of which is taken.
CardsAt(text, start, validate) ==
    LET ends == DigitEnds(text, start)
        fits(length) == /\ length \in DOMAIN ends
                        /\ ~IsDigit(text, ends[length] + 1)
                        /\ validate => PassesLuhn(DigitsIn(text, start, ends[length]))
        lengths == SelectSeq(CardLengths, fits)
    IN  [i \in DOMAIN lengths |-> [start |-> start, end |-> ends[lengths[i]],
                                   kind |-> "credit_card"]]

StartsNumber(text, start) ==
    /\ IsDigit(text, start) /\ ~IsDigit(text, start - 1)
    /\ ~(Separated(text, start - 1) /\ IsDigit(text, start - 2))

RECURSIVE AddCreditCards(_, _, _, _)
AddCreditCards(text, start, validate, ranges) ==
    LET after(cards) ==
          IF cards = <<>> THEN AddCreditCards(text, start + 1, validate, ranges)
          ELSE AddCreditCards(text, cards[1].end + 1, validate, AddRange(ranges, cards[1]))
    IN  IF start > Len(text) THEN ranges
        ELSE after(IF StartsNumber(text, start) THEN CardsAt(text, start, validate) ELSE <<>>)

-----------------------------------------------------------------------------
(* addEmailRanges, addPhoneRanges: all matches of a pattern from the left,  *)
(* each as long as it can be.                                               *)

\* Where the pattern of an address, begun at start, ends; 0 if it does not.
EmailEnd(text, start) ==
    LET ends(first, host) ==
          {e \in {RunEnd(text, dot + 1, Letters) : dot \in {d \in first..host : text[d] = "."}} :
             /\ ~IsWord(text, e + 1)
             /\ e <= host /\ text[e] \in Letters /\ text[e - 1] \in Letters}
        after(at) ==
          IF at > start /\ Symbol(text, at) = "@" /\ IsWord(text, start) # IsWord(text, start - 1)
          THEN Max({0} \union
                   ends(at + 2, RunEnd(text, at + 1, Digits \union Letters \union {".", "-"})))
          ELSE 0
    IN  after(RunEnd(text, start, Digits \union Letters \union {".", "_", "%", "+", "-"}) + 1)

\* A number begins with a digit or with up to four in parentheses, and at
\* least three more symbols of a number precede its last digit.
PhoneEnd(text, start) ==
    LET first == IF Symbol(text, start) = "+" THEN start + 1 ELSE start
        close == RunEnd(text, first + 1, Digits) + 1
        group == IF IsDigit(text, first) THEN first
                 ELSE IF /\ Symbol(text, first) = "(" /\ Symbol(text, close) = ")"
                         /\ close - first \in 2..5
                 THEN close ELSE 0
        run == RunEnd(text, group + 1, Digits \union {"(", ")", ".", " ", "-"})
    IN  IF group = 0 THEN 0
        ELSE Max({0} \union {e \in (group + 4)..run : IsDigit(text, e)})

\* What is no phone number though it matches: part of a word, too few or too
\* many digits, or a date.
IsPhone(text, start, end) ==
    LET n == Len(DigitsIn(text, start, end))
    IN  /\ ~IsWord(text, start - 1) /\ ~IsWord(text, end + 1)
        /\ n >= MinDigits /\ n <= MaxDigits
        /\ ~(/\ end - start = 9 /\ n = 8 /\ text[start + 4] = "-" /\ text[start + 7] = "-")

RECURSIVE AddMatches(_, _, _, _)
AddMatches(text, start, kind, ranges) ==
    LET after(end) ==
          IF end = 0 THEN AddMatches(text, start + 1, kind, ranges)
          ELSE AddMatches(text, end + 1, kind,
                          IF kind = "email" \/ IsPhone(text, start, end)
                          THEN AddRange(ranges, [start |-> start, end |-> end, kind |-> kind])
                          ELSE ranges)
    IN  IF start > Len(text) THEN ranges
        ELSE after(IF kind = "email" THEN EmailEnd(text, start) ELSE PhoneEnd(text, start))

-----------------------------------------------------------------------------
(* redactTextAtPath. *)

Ranges(text, kinds, validate) ==
    LET matched(kind, ranges) ==
          IF kind \in kinds THEN AddMatches(text, 1, kind, ranges) ELSE ranges
        cards == IF "credit_card" \in kinds THEN AddCreditCards(text, 1, validate, {}) ELSE {}
    IN  matched("phone", matched("email", cards))

\* Every range is replaced by the mark of its kind.
Replaced(text, ranges) ==
    LET from(i) == IF i = 1 THEN 1 ELSE ranges[i - 1].end + 1
        pieces == [i \in DOMAIN ranges |->
                     Append(SubSeq(text, from(i), ranges[i].start - 1),
                            Replacement[ranges[i].kind])]
    IN  [occurrences |-> ranges,
         text |-> FlattenSeq(pieces) \o SubSeq(text, from(Len(ranges) + 1), Len(text))]

Redacted(text, kinds, validate) ==
    Replaced(text, SetToSortSeq(Ranges(text, kinds, validate), LAMBDA a, b : a.start < b.start))

-----------------------------------------------------------------------------
(* redactJsonValue, redactPart. A value is a text (`encoded' if it is a URL *)
(* or base64), a list, or an object, whose entries have keys that name a    *)
(* link, annotations, data, or anything else.                               *)

RECURSIVE RedactedJson(_, _)
RedactedJson(value, kinds) ==
    LET entry(e) == IF \/ e.key = "annotations"
                       \/ e.value.type = "text" /\ e.key = "link"
                       \/ e.value.type = "text" /\ e.key = "data" /\ value.media
                    THEN e ELSE [e EXCEPT !.value = RedactedJson(@, kinds)]
    IN  CASE value.type = "text" ->
               IF value.encoded THEN value
               ELSE [value EXCEPT !.text = Redacted(@, kinds, TRUE).text]
          [] value.type = "list" ->
               [value EXCEPT !.items = [i \in DOMAIN @ |-> RedactedJson(@[i], kinds)]]
          [] value.type = "object" ->
               [value EXCEPT !.entries = [i \in DOMAIN @ |-> entry(@[i])]]

RedactedPart(part, kinds) ==
    CASE part.type = "text" -> [part EXCEPT !.text = Redacted(@, kinds, TRUE).text]
      [] part.type = "tool_call" -> [part EXCEPT !.args = RedactedJson(@, kinds)]
      [] part.type = "tool_result" -> [part EXCEPT !.result = RedactedJson(@, kinds)]
      [] OTHER -> part
=============================================================================
