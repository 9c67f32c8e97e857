------------------------- MODULE MCRedisSessionStore -------------------------
(***************************************************************************)
(* Instances of RedisSessionStore for TLC.  Tuples first and twin share    *)
(* their legacy key (they differ in where the delimiter falls), and the    *)
(* legacy key of other is the v2 key of first.                             *)
(***************************************************************************)
EXTENDS RedisSessionStore, TLC

CONSTANTS first, twin, other, k1, k2, k3, shared

V2Keys == [x \in Tuple |-> CASE x = first -> k1 [] x = twin -> k2 [] OTHER -> k3]
LegacyKeys == [x \in Tuple |-> IF x = other THEN k1 ELSE shared]

GuardedCalls == {"get", "guarded set", "guarded delete"}
Callers == Permutations(Client)
=============================================================================
