----------------------------- MODULE UsageQueue -----------------------------
(***************************************************************************)
(* PostgresUsageLogger (usage.ts): usage events wait in two queues, of     *)
(* text and of speech events, until one flush at a time writes all of      *)
(* them, text first.  What cannot be written goes back to the head of its  *)
(* queue.  Event ids are unique in the tables, so that a batch whose       *)
(* outcome is unknown can be written again.                                *)
(*                                                                         *)
(* A caller runs to completion between awaits; an insert takes any time.   *)
(***************************************************************************)
EXTENDS Naturals, Sequences, Functions

CONSTANTS Event,        \* usage events, each logged by one call
          Lane,         \* the queue of an event
          Flusher,      \* calls of flush(), getUsage() and getSpeechUsage()
          Closing,      \* those that are calls of close()
          Alarm,        \* flushes started by the timer that may overlap
          BatchSize,    \* batchSize
          MaxFailures   \* bound on the inserts that fail

Lanes == {"text", "speech"}
Caller == Event \cup Flusher \cup Alarm

ASSUME SizesAssumption == BatchSize \in Nat \ {0} /\ MaxFailures \in Nat
ASSUME CallersAssumption ==
  /\ Lane \in [Event -> Lanes]
  /\ Closing \subseteq Flusher
  /\ Event \cap Flusher = {} /\ Event \cap Alarm = {} /\ Flusher \cap Alarm = {}

VARIABLES queue,     \* the queue of every lane
          batch,     \* what the running flush has taken from it
          stage,     \* the lane it is inserting, "idle" without a flush
          timer,     \* flushTimer is set
          rows,      \* how often every event is in its table
          pc,        \* where every call is
          failures,  \* inserts that have failed
          owed       \* history: what was logged before a flush was called

vars == <<queue, batch, stage, timer, rows, pc, failures, owed>>

Places == {"idle", "owner", "joined", "woken", "ok", "failed"}
Nothing == [l \in Lanes |-> <<>>]

Logged == {e \in Event : pc[e] # "idle"}
Holds(q, e) == \E l \in Lanes : e \in Range(q[l])
Pending(e) == Holds(queue, e)
Taken(e) == Holds(batch, e)

TypeOK ==
  /\ queue \in [Lanes -> Seq(Event)]
  /\ batch \in [Lanes -> Seq(Event)]
  /\ stage \in Lanes \cup {"idle"}
  /\ (batch = Nothing) <=> (stage = "idle")
  /\ timer \in BOOLEAN
  /\ rows \in [Event -> Nat]
  /\ pc \in [Caller -> Places]
  /\ failures \in 0 .. MaxFailures
  /\ owed \in [Flusher -> SUBSET Event]

Init ==
  /\ queue = Nothing /\ batch = Nothing
  /\ stage = "idle"
  /\ timer = FALSE
  /\ rows = [e \in Event |-> 0]
  /\ pc = [c \in Caller |-> "idle"]
  /\ failures = 0
  /\ owed = [f \in Flusher |-> {}]

----------------------------------------------------------------------------
\* flush() by caller c, when the queues are q and the timer is armed or not.
Flush(c, q, armed) ==
  \/ /\ stage # "idle"
     /\ pc' = [pc EXCEPT ![c] = "joined"]
     /\ queue' = q /\ timer' = armed
     /\ UNCHANGED <<batch, stage>>
  \/ /\ stage = "idle" /\ q = Nothing
     /\ pc' = [pc EXCEPT ![c] = "ok"]
     /\ queue' = q /\ timer' = armed
     /\ UNCHANGED <<batch, stage>>
  \/ /\ stage = "idle" /\ q # Nothing
     /\ pc' = [pc EXCEPT ![c] = "owner"]
     /\ batch' = q
     /\ stage' = IF q["text"] # <<>> THEN "text" ELSE "speech"
     /\ queue' = Nothing
     /\ timer' = FALSE

\* log() and logSpeech(): a full queue is flushed, and the caller waits for it.
Log(e) ==
  /\ pc[e] = "idle"
  /\ LET q == [queue EXCEPT ![Lane[e]] = Append(@, e)] IN
     \/ Len(q[Lane[e]]) >= BatchSize /\ Flush(e, q, timer)
     \/ /\ Len(q[Lane[e]]) < BatchSize
        /\ queue' = q
        /\ timer' = TRUE
        /\ pc' = [pc EXCEPT ![e] = "ok"]
        /\ UNCHANGED <<batch, stage>>
  /\ UNCHANGED <<rows, failures, owed>>

\* An explicit flush(), or the one in getUsage() and close().
CallFlush(f) ==
  /\ pc[f] = "idle"
  /\ owed' = [owed EXCEPT ![f] = Logged]
  /\ Flush(f, queue, timer /\ f \notin Closing)
  /\ UNCHANGED <<rows, failures>>

TimerFires(a) ==
  /\ timer /\ pc[a] \in {"idle", "ok", "failed"}
  /\ Flush(a, queue, FALSE)
  /\ UNCHANGED <<rows, failures, owed>>

\* Mutant: a call that joined a flush is content with it.
ResumeContent(c) ==
  /\ pc[c] = "woken"
  /\ pc' = [pc EXCEPT ![c] = "ok"]
  /\ UNCHANGED <<queue, batch, stage, timer, rows, failures, owed>>

\* A call that waited for the flush of another looks at the queues again.
Resume(c) ==
  /\ pc[c] = "woken"
  /\ \/ /\ queue = Nothing
        /\ pc' = [pc EXCEPT ![c] = "ok"]
        /\ UNCHANGED <<queue, batch, stage, timer>>
     \/ queue # Nothing /\ Flush(c, queue, timer)
  /\ UNCHANGED <<rows, failures, owed>>

----------------------------------------------------------------------------
\* Mutants: the timer is not armed again; the flush is not cleared.
SettleUnarmed(q, joined, own) ==
  /\ queue' = q /\ batch' = Nothing /\ stage' = "idle"
  /\ pc' = [c \in Caller |-> CASE pc[c] = "joined" -> joined
                               [] pc[c] = "owner" -> own
                               [] OTHER -> pc[c]]
  /\ UNCHANGED timer
\* The flush ends: its promise settles for everyone who waits for it, and the
\* timer is armed if anything is queued.
Settle(q, joined, own) ==
  /\ queue' = q /\ batch' = Nothing /\ stage' = "idle"
  /\ pc' = [c \in Caller |-> CASE pc[c] = "joined" -> joined
                               [] pc[c] = "owner" -> own
                               [] OTHER -> pc[c]]
  /\ timer' = (timer \/ q # Nothing)

\* Mutant: no unique index.
InsertTwice ==
  rows' = [e \in Event |-> rows[e] + (IF e \in Range(batch[stage]) THEN 1 ELSE 0)]

\* INSERT ... ON CONFLICT (event_id) DO NOTHING
Insert ==
  rows' = [e \in Event |-> IF e \in Range(batch[stage]) THEN 1 ELSE rows[e]]

InsertSucceeds ==
  /\ stage # "idle"
  /\ Insert
  /\ \/ /\ stage = "text" /\ batch["speech"] # <<>>
        /\ stage' = "speech"
        /\ batch' = [batch EXCEPT !["text"] = <<>>]
        /\ UNCHANGED <<queue, timer, pc>>
     \/ /\ stage = "speech" \/ batch["speech"] = <<>>
        /\ Settle(queue, "woken", "ok")
  /\ UNCHANGED <<failures, owed>>

\* Mutant: a failed text insert forgets the speech events taken with it.
RequeuedAlone == [queue EXCEPT ![stage] = batch[stage] \o queue[stage]]

\* flushBatch and flushSpeechBatch put back what they took, and a failed text
\* insert the speech events too.
Requeued == [l \in Lanes |-> batch[l] \o queue[l]]

\* The insert fails, or its answer does after it took effect.
InsertFails ==
  /\ stage # "idle"
  /\ failures < MaxFailures
  /\ failures' = failures + 1
  /\ Insert \/ UNCHANGED rows
  /\ Settle(Requeued, "failed", "failed")
  /\ UNCHANGED owed

Next ==
  \/ \E e \in Event : Log(e)
  \/ \E f \in Flusher : CallFlush(f)
  \/ \E a \in Alarm : TimerFires(a)
  \/ \E c \in Caller : Resume(c)
  \/ InsertSucceeds \/ InsertFails

Spec == Init /\ [][Next]_vars

\* The timer fires, inserts end, and callers are resumed.
Fairness ==
  /\ WF_vars(\E a \in Alarm : TimerFires(a))
  /\ WF_vars(InsertSucceeds \/ InsertFails)
  /\ \A c \in Caller : WF_vars(Resume(c))

FairSpec == Spec /\ Fairness

----------------------------------------------------------------------------
(* docs/PERSISTENCE_AND_SESSION_API.md:176: "retrying a batch after an     *)
(* ambiguous commit does not duplicate aggregates"; and an event that is   *)
(* in no table yet is still waiting: nothing is lost or counted twice.     *)
CountedOnce ==
  \A e \in Event :
    /\ rows[e] <= 1
    /\ e \in Logged => rows[e] = 1 \/ Pending(e) \/ Taken(e)
    /\ e \notin Logged => rows[e] = 0 /\ ~Pending(e) /\ ~Taken(e)

(* Whatever joined, failed or was closed: while no flush runs and an event *)
(* is queued, the timer is armed, so that the event is not stranded.       *)
RetryArmed ==
  stage = "idle" /\ queue # Nothing => timer

(* When a flush returns, none of the events logged before it was called is *)
(* still queued: each is in its table, or taken by a flush that runs.      *)
FlushLeavesNothingQueued ==
  [][\A f \in Flusher :
       pc[f] # "ok" /\ pc'[f] = "ok" => \A e \in owed'[f] : ~Pending(e)']_vars

(* Every event that was logged gets into its table, if inserts do not fail *)
(* for ever.                                                               *)
EveryEventCounted ==
  \A e \in Event : e \in Logged ~> rows[e] = 1

(* No event is stranded in a queue: not by a flush that returns, nor in    *)
(* the end.                                                                *)
NoEventStranded == FlushLeavesNothingQueued /\ EveryEventCounted

(* docs/PERSISTENCE_AND_SESSION_API.md:177: "Explicit `flush()',           *)
(* `getUsage()', `getSpeechUsage()', and `close()' calls propagate pending *)
(* persistence failures": a call that returns without an error has written *)
(* every event logged before it.                                           *)
FlushDelivers ==
  [][\A f \in Flusher :
       pc[f] # "ok" /\ pc'[f] = "ok" => \A e \in owed'[f] : rows'[e] = 1]_vars
=============================================================================
