--------------------------- MODULE SerialSessions ---------------------------
(***************************************************************************)
(* What the session API promises when nobody deletes: every request that   *)
(* changes a session takes effect at once, at most once, on the session as *)
(* it is at that moment.  A session is its list of turns; a turn is named  *)
(* by the request that brought it.  Sessions are never lost, a turn is     *)
(* only ever added at the end, and only a compaction drops turns, the      *)
(* oldest first.                                                           *)
(***************************************************************************)
EXTENDS Naturals, Sequences

CONSTANTS Request, Session,
          AllowImplicit      \* a message may create the session it names

VARIABLES present,   \* the sessions that exist
          turns,     \* their turns
          copied,    \* what a fork in flight has copied from its source
          served     \* the requests that took effect

vars == <<present, turns, copied, served>>

Init ==
  /\ present = {}
  /\ turns = [s \in Session |-> <<>>]
  /\ copied = [r \in Request |-> <<>>]
  /\ served = {}

Serve(r) ==
  /\ r \notin served
  /\ served' = served \cup {r}

\* A new session with its first turn: POST /sessions.
Create(r, s) ==
  /\ Serve(r)
  /\ s \notin present
  /\ present' = present \cup {s}
  /\ turns' = [turns EXCEPT ![s] = <<r>>]
  /\ UNCHANGED copied

\* One more turn of a session: POST /sessions/:id/message.
AppendTurn(r, s) ==
  /\ Serve(r)
  /\ s \in present \/ AllowImplicit
  /\ present' = present \cup {s}
  /\ turns' = [turns EXCEPT ![s] = Append(@, r)]
  /\ UNCHANGED copied

\* The oldest turns are dropped: POST /sessions/:id/compact.
Compact(r, s) ==
  /\ Serve(r)
  /\ s \in present
  /\ \E n \in 1 .. Len(turns[s]) + 1 :
       turns' = [turns EXCEPT ![s] = SubSeq(@, n, Len(@))]
  /\ UNCHANGED <<present, copied>>

\* A fork first copies its source ...
Copy(r, s) ==
  /\ r \notin served
  /\ s \in present
  /\ copied' = [copied EXCEPT ![r] = turns[s]]
  /\ UNCHANGED <<present, turns, served>>

\* ... and then opens the new session with a beginning of the copy.
Fork(r, s) ==
  /\ Serve(r)
  /\ s \notin present
  /\ present' = present \cup {s}
  /\ \E n \in 1 .. Len(copied[r]) :
       turns' = [turns EXCEPT ![s] = SubSeq(copied[r], 1, n)]
  /\ UNCHANGED copied

Next ==
  \E r \in Request, s \in Session :
    Create(r, s) \/ AppendTurn(r, s) \/ Compact(r, s) \/ Copy(r, s) \/ Fork(r, s)

Spec == Init /\ [][Next]_vars
=============================================================================
