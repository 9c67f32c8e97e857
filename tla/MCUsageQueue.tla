---------------------------- MODULE MCUsageQueue ----------------------------
(***************************************************************************)
(* Instances of UsageQueue for TLC: events e1, e2 and e3 are completions,  *)
(* the others speech.                                                      *)
(***************************************************************************)
EXTENDS UsageQueue

CONSTANTS e1, e2, e3

LaneOf == [e \in Event |-> IF e \in {e1, e2, e3} THEN "text" ELSE "speech"]
=============================================================================
