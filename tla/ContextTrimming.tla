--------------------------- MODULE ContextTrimming ---------------------------
(***************************************************************************)
(* The context strategies of src/src/context-manager.ts as operators on a  *)
(* list of messages.  A message matters through its kind ("user",          *)
(* "assistant", "calls": an assistant message with tool calls, "results":  *)
(* a user message with tool results), whether it is pinned, and its size.  *)
(***************************************************************************)
EXTENDS Integers, Sequences, FiniteSets, FiniteSetsExt, SequencesExt, Ordering

CONSTANTS
    Kind(_), Pinned(_), TokenSize(_),
    MaxMessages, MaxTokens,  \* limits of the strategy, or NoLimit
    NoLimit,
    KeepLastMessages,        \* keepLastMessages of SummarisationStrategy
    Summary                  \* the message a summarizer's text becomes

RoleIsUser(m) == Kind(m) \in {"user", "results"}
HasToolPart(m) == Kind(m) \in {"calls", "results"}

(* findLatestUserIndex, 0 when there is none.                              *)
LatestUser(w) == Max({0} \cup {i \in DOMAIN w : RoleIsUser(w[i])})

(* findRemovableMessageGroups: plain messages alone, tool calls together   *)
(* with their results; never a pinned message, the latest message of role  *)
(* user, or calls and results that are not a pair.                         *)
RemovableGroups(w) ==
    LET free(i) == ~Pinned(w[i]) /\ i # LatestUser(w)
        pair(i) == /\ i + 1 \in DOMAIN w
                   /\ Kind(w[i]) = "calls" /\ Kind(w[i + 1]) = "results"
    IN {{i} : i \in {i \in DOMAIN w : free(i) /\ ~HasToolPart(w[i])}}
         \cup {{i, i + 1} : i \in {i \in DOMAIN w : pair(i) /\ free(i) /\ free(i + 1)}}

OldestGroup(groups) == CHOOSE g \in groups : \A h \in groups : Min(g) <= Min(h)
Without(w, gone) == LET kept == InOrder(DOMAIN w \ gone)
                    IN [i \in DOMAIN kept |-> w[kept[i]]]

Tokens(w) == FoldLeft(LAMBDA sum, m : sum + TokenSize(m), 0, w)
ShouldTrim(w) ==
    \/ MaxMessages # NoLimit /\ Len(w) > MaxMessages
    \/ MaxTokens # NoLimit /\ Tokens(w) > MaxTokens

(* A round of the loop of SlidingWindowStrategy.trim.                      *)
TrimOnce(v) == IF ShouldTrim(v) /\ RemovableGroups(v) # {}
               THEN Without(v, OldestGroup(RemovableGroups(v)))
               ELSE v

(* SlidingWindowStrategy.trim: the list after every round; as each removes *)
(* a message, Len(w) rounds are enough.  A list is chosen from the one     *)
(* that follows so that TLC evaluates it once.                             *)
SlidingWindow(w) ==
    LET trimmed[n \in 0..Len(w)] ==
          IF n = 0 THEN w
          ELSE CHOOSE u \in {TrimOnce(v) : v \in {trimmed[n - 1]}} : TRUE
    IN  trimmed[Len(w)]

(* The oldest n groups.                                                    *)
OldestGroups(groups, n) ==
    {g \in groups : Cardinality({h \in groups : Min(h) < Min(g)}) < n}

(* SummarisationStrategy.trim; `answered' tells whether the summarizer     *)
(* returned a non-empty text.                                              *)
Summarise(w, answered) ==
    LET groups == RemovableGroups(w)
        target == Cardinality(groups) - KeepLastMessages
        gone   == UNION OldestGroups(groups, target)
        first  == Min(gone)
        trimmed == SubSeq(w, 1, first - 1) \o <<Summary>>
                     \o Without(SubSeq(w, first, Len(w)), {i - first + 1 : i \in gone})
    IN IF ~ShouldTrim(w) THEN w
       ELSE IF target < 2 \/ ~answered THEN SlidingWindow(w)
       ELSE IF ShouldTrim(trimmed) THEN SlidingWindow(trimmed) ELSE trimmed
=============================================================================
