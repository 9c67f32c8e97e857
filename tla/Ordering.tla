------------------------------ MODULE Ordering ------------------------------
(***************************************************************************)
(* Loops over arrays.  InOrder is the order in which a loop meets some of  *)
(* the indices: a finite set of numbers as an increasing sequence.  The    *)
(* n-th member is the one with n members up to itself, a definition        *)
(* without recursion.  Loop is the state a loop has after k rounds.        *)
(***************************************************************************)
EXTENDS Integers, FiniteSets

InOrder(S) ==
    [n \in 1..Cardinality(S) |-> CHOOSE x \in S : Cardinality({y \in S : y <= x}) = n]

\* Round(state, n) is the state after round n, entered in state.
Loop(Round(_, _), first, k) ==
    LET after[n \in 0..k] == IF n = 0 THEN first
                             ELSE LET state == after[n - 1] IN Round(state, n)
    IN  after[k]
=============================================================================
