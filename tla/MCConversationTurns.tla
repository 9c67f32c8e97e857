------------------------- MODULE MCConversationTurns -------------------------
(***************************************************************************)
(* Instances of ConversationTurns for TLC: which turns stream, their       *)
(* budgets, and the context manager plugged in.                            *)
(***************************************************************************)
EXTENDS ConversationTurns, TLC

CONSTANTS s1, s2, x1, None

(* No context manager, or one that never trims.                            *)
KeepAll(w) == {w}

(* SlidingWindowStrategy with maxMessages 3, nothing pinned.               *)
Window == INSTANCE ContextTrimming WITH
    Kind <- LAMBDA m : m.kind, Pinned <- LAMBDA m : FALSE, TokenSize <- LAMBDA m : 1,
    MaxMessages <- 3, MaxTokens <- None, NoLimit <- None,
    KeepLastMessages <- 2, Summary <- Msg(Foreign, "assistant")
SlideWindow(w) == {Window!SlidingWindow(w)}

NoLimits == [t \in Turns |-> NoBudget]
Throwing == [t \in Turns |-> "throw"]
Skipping == [t \in Turns |-> "skip"]
BudgetOfTwo == [t \in Turns |-> IF t \in Streams THEN 2 ELSE NoBudget]
=============================================================================
