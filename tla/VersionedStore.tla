--------------------------- MODULE VersionedStore ---------------------------
(***************************************************************************)
(* What guarded calls promise of a session store: each session is one      *)
(* versioned record.  A write that expects version v replaces the record   *)
(* at version v (0: creates it) by one of version v + 1; a delete that     *)
(* expects version v removes that record; nothing else changes a record.   *)
(***************************************************************************)
EXTENDS Naturals

CONSTANTS Client, Tuple, NoTuple, Old,
          Expected     \* the versions callers expect

VARIABLE current     \* the record of every session

Nil == [tuple |-> NoTuple, version |-> 0, data |-> Old]

Init ==
  current \in [Tuple -> {Nil} \cup [tuple : Tuple, version : {1}, data : {Old}]]

Write(t, expected, c) ==
  /\ current[t].version = expected
  /\ current' = [current EXCEPT ![t] = [tuple |-> t, version |-> expected + 1, data |-> c]]

Delete(t, expected) ==
  /\ current[t].version = expected
  /\ current' = [current EXCEPT ![t] = Nil]

Next ==
  \E t \in Tuple : \E expected \in Expected :
    Delete(t, expected) \/ \E c \in Client : Write(t, expected, c)

Spec == Init /\ [][Next]_current
=============================================================================
