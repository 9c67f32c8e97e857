--------------------------- MODULE SessionRequests ---------------------------
(***************************************************************************)
(* The handlers of the session API (session-api.ts), as requests served at *)
(* the same time, by one worker or by several, over one shared session     *)
(* store.  A handler is a sequence of store calls with awaits between      *)
(* them; every store call is atomic and every other request may run at an  *)
(* await.  Writes are compare-and-set on the version of the record the     *)
(* handler read (session-store.ts, the in-memory and Postgres stores).     *)
(*                                                                         *)
(* A turn is named by the request that brought it; what a turn does inside *)
(* the conversation is ConversationTurns.  A record's `origin' is history: *)
(* the request whose write brought this incarnation of the session into    *)
(* being.  (It is not the record's createdAt, which a create that restores *)
(* a session deleted in the meantime carries over.)                        *)
(***************************************************************************)
EXTENDS Naturals, Sequences

CONSTANTS Request, Session,
          Nobody,          \* the origin of a session that does not exist
          Kinds,           \* the endpoints in use
          AllowImplicit,   \* SessionApi.allowImplicitSessionCreate
          FaultyStore,     \* a write may fail, before or after taking effect
          Expiring         \* records may expire (ttlSeconds of a Redis store)

AllKinds == {"create", "send", "stream", "compact", "fork", "delete"}

ASSUME KindsAssumption == Kinds \subseteq AllKinds
ASSUME FlagsAssumption == {AllowImplicit, FaultyStore, Expiring} \subseteq BOOLEAN
ASSUME NobodyAssumption == Nobody \notin Request

VARIABLES store,      \* the records by session
          job,        \* the endpoint, session and fork target of a request
          pc,         \* where its handler stands
          base,       \* the record it last read to work on
          view,       \* the turns of the session its answer shows
          status,     \* its answer
          announced,  \* streams that have sent response.completed
          applied     \* history: requests whose write took effect

vars == <<store, job, pc, base, view, status, announced, applied>>

\* get() of a session that does not exist: null, whose version is 0.
Absent == [version |-> 0, turns |-> <<>>, origin |-> Nobody]

Record == [version : Nat \ {0}, turns : Seq(Request), origin : Request]

\* Only a fork names a second session.
Job == {j \in [kind : Kinds, session : Session, to : Session] :
          j.kind # "fork" => j.to = j.session}

Places == {"idle", "check", "load", "turn", "write", "read", "ended"}

Answers == {"none", "ok", "exists", "missing", "conflict", "failed"}

TypeOK ==
  /\ store \in [Session -> Record \cup {Absent}]
  /\ job \in [Request -> Job]
  /\ pc \in [Request -> Places]
  /\ base \in [Request -> Record \cup {Absent}]
  /\ view \in [Request -> Seq(Request)]
  /\ status \in [Request -> Answers]
  /\ announced \in SUBSET Request
  /\ applied \in SUBSET Request

Init ==
  /\ store = [s \in Session |-> Absent]
  /\ job \in [Request -> Job]
  /\ pc = [r \in Request |-> "idle"]
  /\ base = [r \in Request |-> Absent]
  /\ view = [r \in Request |-> <<>>]
  /\ status = [r \in Request |-> "none"]
  /\ announced = {}
  /\ applied = {}

----------------------------------------------------------------------------
Kind(r) == job[r].kind
Source(r) == job[r].session
\* The session a request writes: a fork writes a new one.
Destination(r) == IF Kind(r) = "fork" THEN job[r].to ELSE Source(r)

Exists(s) == store[s].version # 0

\* Mutant: only creation is guarded.
VersionMatchesCreation(record, expected) == expected = 0 => record.version = 0

\* The compare of compare-and-set; 0 expects that there is no record.
VersionMatches(record, expected) == record.version = expected

\* The version a handler expects to find at the session it writes.
Expected(r) == IF Kind(r) \in {"create", "fork"} THEN 0 ELSE base[r].version

Goto(r, place) == pc' = [pc EXCEPT ![r] = place]

Answer(r, answer) ==
  /\ Goto(r, "ended")
  /\ status' = [status EXCEPT ![r] = answer]

----------------------------------------------------------------------------
Arrive(r) ==
  /\ pc[r] = "idle"
  /\ Goto(r, IF Kind(r) = "create" \/ (Kind(r) \in {"send", "stream"} /\ ~AllowImplicit)
             THEN "check" ELSE "load")
  /\ UNCHANGED <<store, job, base, view, status, announced, applied>>

\* create and fork refuse an id that is taken.  A fork then writes; a create
\* goes on to client.conversation(), which reads the session again.
RequireFresh(r) ==
  /\ pc[r] = "check" /\ Kind(r) \in {"create", "fork"}
  /\ \/ Exists(Destination(r)) /\ Answer(r, "exists")
     \/ /\ ~Exists(Destination(r))
        /\ Goto(r, IF Kind(r) = "create" THEN "load" ELSE "write")
        /\ UNCHANGED status
  /\ UNCHANGED <<store, job, base, view, announced, applied>>

\* A message to an unknown session is refused, unless it may create it.
RequireSession(r) ==
  /\ pc[r] = "check" /\ Kind(r) \in {"send", "stream"}
  /\ \/ ~Exists(Source(r)) /\ Answer(r, "missing")
     \/ Exists(Source(r)) /\ Goto(r, "load") /\ UNCHANGED status
  /\ UNCHANGED <<store, job, base, view, announced, applied>>

\* client.conversation(): a second read, which restores the record it finds,
\* also for a create whose session came into being since the check, or
\* starts a new conversation at version 0.
LoadConversation(r) ==
  /\ pc[r] = "load" /\ Kind(r) \in {"create", "send", "stream"}
  /\ base' = [base EXCEPT ![r] = store[Source(r)]]
  /\ Goto(r, IF Kind(r) = "create" THEN "write" ELSE "turn")
  /\ UNCHANGED <<store, job, view, status, announced, applied>>

\* compact, delete and fork work on the record they read first; a fork at a
\* message that the session does not have is refused.
LoadRecord(r) ==
  /\ pc[r] = "load" /\ Kind(r) \in {"compact", "fork", "delete"}
  /\ \/ /\ ~Exists(Source(r))
        /\ Answer(r, "missing")
        /\ UNCHANGED base
     \/ /\ Exists(Source(r))
        /\ Kind(r) = "fork" /\ Answer(r, "failed")
        /\ UNCHANGED base
     \/ /\ Exists(Source(r))
        /\ Kind(r) = "fork" => store[Source(r)].turns # <<>>
        /\ base' = [base EXCEPT ![r] = store[Source(r)]]
        /\ Goto(r, IF Kind(r) = "fork" THEN "check" ELSE "write")
        /\ UNCHANGED status
  /\ UNCHANGED <<store, job, view, announced, applied>>

\* The model loop of the turn ends.  A stream first sends
\* response.completed with the session as it is now, before the turn is
\* committed; when the session does not exist it sends response.error and
\* stops pulling, so that the turn is never committed.
TurnEnds(r) ==
  /\ pc[r] = "turn"
  /\ \/ /\ Kind(r) = "send"
        /\ Goto(r, "write")
        /\ UNCHANGED <<view, status, announced>>
     \/ /\ Kind(r) = "stream" /\ Exists(Source(r))
        /\ view' = [view EXCEPT ![r] = store[Source(r)].turns]
        /\ announced' = announced \cup {r}
        /\ Goto(r, "write")
        /\ UNCHANGED status
     \/ /\ Kind(r) = "stream" /\ ~Exists(Source(r))
        /\ Answer(r, "missing")
        /\ UNCHANGED <<view, announced>>
  /\ UNCHANGED <<store, job, base, applied>>

\* The provider or a tool fails, or the client goes away.
TurnFails(r) ==
  /\ pc[r] = "turn" \/ (pc[r] = "write" /\ Kind(r) \in {"send", "stream"})
  /\ Answer(r, "failed")
  /\ UNCHANGED <<store, job, base, view, announced, applied>>

----------------------------------------------------------------------------
\* What a create writes: the messages of its request, or the session that
\* client.conversation() restored in their place.
Started(r) == IF base[r] = Absent THEN <<r>> ELSE base[r].turns

\* What a compaction may leave: the strategy drops the oldest turns.
Compactions(r) ==
  {SubSeq(base[r].turns, n, Len(base[r].turns)) : n \in 1 .. Len(base[r].turns) + 1}

\* What a fork may copy: a beginning with at least one turn.
Beginnings(r) == {SubSeq(base[r].turns, 1, n) : n \in 1 .. Len(base[r].turns)}

\* What a request makes of the turns it has read.
NewTurns(r) ==
  CASE Kind(r) = "create" -> {Started(r)}
    [] Kind(r) \in {"send", "stream"} -> {Append(base[r].turns, r)}
    [] Kind(r) = "compact" -> Compactions(r)
    [] Kind(r) = "fork" -> Beginnings(r)
    [] OTHER -> {<<>>}

\* The record a write leaves: its version is one above the current one and
\* an existing record keeps its origin.
NextRecord(r, new) ==
  LET current == store[Destination(r)]
  IN  [version |-> current.version + 1,
       turns   |-> new,
       origin  |-> IF current.version = 0 THEN r ELSE current.origin]

\* The effect of the guarded set() or delete() of a request.
Apply(r) ==
  /\ VersionMatches(store[Destination(r)], Expected(r))
  /\ applied' = applied \cup {r}
  /\ IF Kind(r) = "delete"
     THEN store' = [store EXCEPT ![Source(r)] = Absent]
     ELSE \E new \in NewTurns(r) :
            store' = [store EXCEPT ![Destination(r)] = NextRecord(r, new)]

\* compact, fork and stream answer with what they wrote; create and send
\* read the session again.
Commit(r) ==
  /\ pc[r] = "write"
  /\ Apply(r)
  /\ \/ /\ Kind(r) \in {"create", "send"}
        /\ Goto(r, "read")
        /\ UNCHANGED <<view, status>>
     \/ /\ Kind(r) \in {"compact", "fork"}
        /\ view' = [view EXCEPT ![r] = store'[Destination(r)].turns]
        /\ Answer(r, "ok")
     \/ /\ Kind(r) \in {"stream", "delete"}
        /\ Answer(r, "ok")
        /\ UNCHANGED view
  /\ UNCHANGED <<job, base, announced>>

\* Mutant: the conflict is swallowed and the handler answers as if it had written.
ConflictSwallowed(r) ==
  /\ pc[r] = "write"
  /\ ~VersionMatches(store[Destination(r)], Expected(r))
  /\ Answer(r, "ok")
  /\ UNCHANGED <<store, job, base, view, announced, applied>>

Conflict(r) ==
  /\ pc[r] = "write"
  /\ ~VersionMatches(store[Destination(r)], Expected(r))
  /\ Answer(r, "conflict")
  /\ UNCHANGED <<store, job, base, view, announced, applied>>

\* The connection to the store breaks before or after the write.
StoreFails(r) ==
  /\ FaultyStore
  /\ pc[r] = "write"
  /\ Apply(r) \/ UNCHANGED <<store, applied>>
  /\ Answer(r, "failed")
  /\ UNCHANGED <<job, base, view, announced>>

\* Mutant: the answer shows the record the handler restored.
ReadBackStale(r) ==
  /\ pc[r] = "read"
  /\ view' = [view EXCEPT ![r] = base[r].turns]
  /\ Answer(r, "ok")
  /\ UNCHANGED <<store, job, base, announced, applied>>

\* Mutant: the handler waits for a session that was deleted.
ReadBackExisting(r) ==
  /\ pc[r] = "read"
  /\ Exists(Source(r))
  /\ view' = [view EXCEPT ![r] = store[Source(r)].turns]
  /\ Answer(r, "ok")
  /\ UNCHANGED <<store, job, base, announced, applied>>

ReadBack(r) ==
  /\ pc[r] = "read"
  /\ \/ /\ Exists(Source(r))
        /\ view' = [view EXCEPT ![r] = store[Source(r)].turns]
        /\ Answer(r, "ok")
     \/ /\ ~Exists(Source(r))
        /\ Answer(r, "missing")
        /\ UNCHANGED view
  /\ UNCHANGED <<store, job, base, announced, applied>>

Expire(s) ==
  /\ Expiring
  /\ Exists(s)
  /\ store' = [store EXCEPT ![s] = Absent]
  /\ UNCHANGED <<job, pc, base, view, status, announced, applied>>

Progress(r) ==
  \/ RequireFresh(r) \/ RequireSession(r)
  \/ LoadConversation(r) \/ LoadRecord(r)
  \/ TurnEnds(r) \/ TurnFails(r)
  \/ Commit(r) \/ Conflict(r) \/ StoreFails(r) \/ ReadBack(r)

Next ==
  \/ \E r \in Request : Arrive(r) \/ Progress(r)
  \/ \E s \in Session : Expire(s)

Spec == Init /\ [][Next]_vars

\* Once a handler runs, its store calls and its turn settle.
Fairness == \A r \in Request : WF_vars(Progress(r))

FairSpec == Spec /\ Fairness

----------------------------------------------------------------------------
(* The compare-and-set of the handlers: nothing is created over a record,  *)
(* not even by a create that read the session twice, and a write over a    *)
(* record, or a delete of one, replaces exactly the record its handler     *)
(* read, as long as the session was not deleted and created again in       *)
(* between.                                                                *)
NoSilentOverwrite ==
  [][\A r \in applied' \ applied :
       LET current == store[Destination(r)]
       IN  current # Absent =>
             /\ Kind(r) \notin {"create", "fork"}
             /\ current.origin = base[r].origin => current = base[r]]_vars

(* A request answered with success took effect, and one refused as a       *)
(* duplicate or as stale did not.                                          *)
AnswersMatchEffects ==
  \A r \in Request :
    /\ status[r] = "ok" => r \in applied
    /\ status[r] \in {"exists", "conflict"} => r \notin applied

(* Unless records expire, the session in the answer to a message shows     *)
(* that message's turn, once, or that session was compacted or deleted.    *)
OwnTurnInReply ==
  \A r \in Request :
    Kind(r) = "send" /\ status[r] = "ok" /\ ~Expiring =>
      \/ \E i \in 1 .. Len(view[r]) :
           \A j \in 1 .. Len(view[r]) : view[r][j] = r <=> j = i
      \/ \E c \in applied : Kind(c) \in {"compact", "delete"} /\ Source(c) = Source(r)

(* No answer says more or less than what the request did to the store.     *)
AnswersTrue == AnswersMatchEffects /\ OwnTurnInReply

(* Every request that arrived is answered: a lost race ends in a refusal,  *)
(* never in a handler that waits.                                          *)
EveryRequestAnswered ==
  \A r \in Request : pc[r] # "idle" ~> pc[r] = "ended"

(* While nothing is deleted, the interleaved handlers are                  *)
(* indistinguishable from requests that take effect one at a time.         *)
Serial == INSTANCE SerialSessions WITH
  present <- {s \in Session : Exists(s)},
  turns <- [s \in Session |-> store[s].turns],
  copied <- [r \in Request |-> IF Kind(r) = "fork" THEN base[r].turns ELSE <<>>],
  served <- applied

ImplementsSerialSessions == Serial!Spec

----------------------------------------------------------------------------
(* docs/PERSISTENCE_AND_SESSION_API.md:96: "Every core session record      *)
(* carries a monotonic `meta.version' ... preventing two workers from      *)
(* silently overwriting the same base state": a message is only ever       *)
(* added to the record its handler read.                                   *)
WritesBuildOnWhatTheyRead ==
  [][\A r \in applied' \ applied :
       Kind(r) \in {"send", "stream", "compact"} => store[Source(r)] = base[r]]_vars

(* docs/SESSION_API_REFERENCE.md:65: POST /sessions "Creates and persists  *)
(* a new session snapshot": the session it creates holds the messages of   *)
(* its request.  (A create that meets another one and a delete writes the  *)
(* deleted session again, without its own messages.)                       *)
CreatedSessionsAreNew ==
  [][\A r \in applied' \ applied :
       Kind(r) = "create" => store'[Source(r)].turns = <<r>>]_vars

(* docs/SESSION_API_REFERENCE.md:58: "unknown message sessions return      *)
(* `404' unless `allowImplicitSessionCreate: true'": without it, no        *)
(* message brings a session into being.                                    *)
MessagesCreateNothing ==
  [][~AllowImplicit =>
       \A r \in applied' \ applied :
         Kind(r) \in {"send", "stream"} => Exists(Source(r))]_vars

(* The same sentence: with allowImplicitSessionCreate and nobody deleting, *)
(* a message to an unknown session is never answered with 404.             *)
ImplicitMessagesAccepted ==
  AllowImplicit =>
    \A r \in Request : Kind(r) \in {"send", "stream"} => status[r] # "missing"

(* docs/SESSION_API_REFERENCE.md:94: a message "runs the model, persists   *)
(* the updated snapshot, and returns the canonical response plus updated   *)
(* session state": the session that response.completed carries holds the   *)
(* turn it completes, when nobody compacts or deletes.                     *)
CompletedShowsTurn ==
  \A r \in announced : \E i \in 1 .. Len(view[r]) : view[r][i] = r
=============================================================================
