-------------------------- MODULE RedisSessionStore --------------------------
(***************************************************************************)
(* RedisSessionStore (session-store.ts): sessions in a Redis whose records *)
(* may still lie under the delimiter-based legacy key of their tuple       *)
(* (tenant, session), or under its v2 key.  A legacy key can belong to     *)
(* several tuples, and be the v2 key of another.  Every Redis command and  *)
(* every script is atomic; a call of the store is several of them.         *)
(*                                                                         *)
(* Guarded calls (with expectedVersion, what Conversation and SessionApi   *)
(* use) run one script.  The others read first and write or delete after.  *)
(***************************************************************************)
EXTENDS Naturals

CONSTANTS Client,        \* callers, one call each
          Tuple,         \* (tenant, session) pairs
          Key,           \* Redis keys
          V2, Legacy,    \* the two keys of a tuple
          NoTuple, Old,  \* of no tuple; data from before
          Calls,         \* the calls in use
          Expected,      \* the versions callers expect
          Duplicates     \* both copies of a record may be there at first

AllCalls == {"get", "set", "delete", "guarded set", "guarded delete"}

ASSUME CallsAssumption == Calls \subseteq AllCalls /\ Expected \subseteq Nat
ASSUME KeysAssumption ==
  /\ V2 \in [Tuple -> Key] /\ Legacy \in [Tuple -> Key]
  /\ \A t, u \in Tuple : V2[t] = V2[u] => t = u   \* base64url components
  /\ \A t \in Tuple : V2[t] # Legacy[t]
ASSUME NoTupleAssumption == NoTuple \notin Tuple

VARIABLES redis,      \* what is stored under every key
          call,       \* the call of a client
          pc,         \* its next command
          seen,       \* the record it has read
          outcome,    \* how it ended
          absent      \* history: clients whose session was absent meanwhile

vars == <<redis, call, pc, seen, outcome, absent>>

Record == [tuple : Tuple, version : Nat \ {0}, data : Client \cup {Old}]

Nil == [tuple |-> NoTuple, version |-> 0, data |-> Old]
\* A value that does not parse as a record.
Junk == [tuple |-> NoTuple, version |-> 1, data |-> Old]

Call == [kind : Calls, tuple : Tuple, expected : Expected]

Places == {"idle", "existing", "v2", "legacy", "write", "unlink v2", "unlink legacy",
           "script", "done"}

TypeOK ==
  /\ redis \in [Key -> Record \cup {Nil, Junk}]
  /\ call \in [Client -> Call]
  /\ pc \in [Client -> Places]
  /\ seen \in [Client -> Record \cup {Nil}]
  /\ outcome \in [Client -> {"none", "ok", "conflict", "key conflict"}]
  /\ absent \in SUBSET Client

\* Mutant: any record under one of the tuple's keys is taken for its own.
MineUnverified(value, t) == value # Nil

\* redisRecordMatches: only a record that names the tuple is the tuple's.
Mine(value, t) == value.tuple = t

\* What get() finds when nothing happens meanwhile.
Visible(t) ==
  IF Mine(redis[V2[t]], t) THEN redis[V2[t]]
  ELSE IF Mine(redis[Legacy[t]], t) THEN redis[Legacy[t]] ELSE Nil

OneCopy == \A t \in Tuple : ~(redis[V2[t]].tuple = t /\ redis[Legacy[t]].tuple = t)

Init ==
  /\ redis \in [Key -> {Nil, Junk} \cup [tuple : Tuple, version : {1}, data : {Old}]]
  /\ \A t \in Tuple, k \in Key : redis[k].tuple = t => k \in {V2[t], Legacy[t]}
  /\ Duplicates \/ OneCopy
  /\ call \in [Client -> Call]
  /\ pc = [c \in Client |-> "idle"]
  /\ seen = [c \in Client |-> Nil]
  /\ outcome = [c \in Client |-> "none"]
  /\ absent = {}

----------------------------------------------------------------------------
Kind(c) == call[c].kind
Own(c) == call[c].tuple

Goto(c, place) == pc' = [pc EXCEPT ![c] = place]

Return(c, how) ==
  /\ Goto(c, "done")
  /\ outcome' = [outcome EXCEPT ![c] = how]

Begin(c) ==
  /\ pc[c] = "idle"
  /\ Goto(c, CASE Kind(c) = "set" -> "existing"
               [] Kind(c) \in {"get", "delete"} -> "v2"
               [] OTHER -> "script")
  /\ UNCHANGED <<redis, seen, outcome>>

\* An unconditional set() refuses a v2 key that holds anything else.
ReadExisting(c) ==
  /\ pc[c] = "existing"
  /\ LET raw == redis[V2[Own(c)]] IN
     \/ raw = Nil /\ Goto(c, "v2") /\ UNCHANGED <<seen, outcome>>
     \/ /\ Mine(raw, Own(c))
        /\ seen' = [seen EXCEPT ![c] = raw]
        /\ Goto(c, "write")
        /\ UNCHANGED outcome
     \/ /\ raw # Nil /\ ~Mine(raw, Own(c))
        /\ Return(c, "key conflict")
        /\ UNCHANGED seen
  /\ UNCHANGED redis

\* The reads of get(), which set() calls too, and of delete().
Found(c, raw, next) ==
  /\ seen' = [seen EXCEPT ![c] = IF Kind(c) = "delete" THEN Nil ELSE raw]
  /\ IF Kind(c) = "get" THEN Return(c, "ok")
     ELSE Goto(c, IF Kind(c) = "set" THEN "write" ELSE next) /\ UNCHANGED outcome

ReadV2(c) ==
  /\ pc[c] = "v2"
  /\ LET raw == redis[V2[Own(c)]] IN
     \/ Mine(raw, Own(c)) /\ Found(c, raw, "unlink v2")
     \/ ~Mine(raw, Own(c)) /\ Goto(c, "legacy") /\ UNCHANGED <<seen, outcome>>
  /\ UNCHANGED redis

ReadLegacy(c) ==
  /\ pc[c] = "legacy"
  /\ LET raw == redis[Legacy[Own(c)]] IN
     \/ Mine(raw, Own(c)) /\ Found(c, raw, "unlink legacy")
     \/ /\ ~Mine(raw, Own(c))
        /\ IF Kind(c) = "set" THEN Goto(c, "write") /\ UNCHANGED outcome
           ELSE Return(c, "ok")
        /\ UNCHANGED seen
  /\ UNCHANGED redis

\* The version comes from what was read, and the legacy copy stays.
Write(c) ==
  /\ pc[c] = "write"
  /\ redis' = [redis EXCEPT ![V2[Own(c)]] =
                 [tuple |-> Own(c), version |-> seen[c].version + 1, data |-> c]]
  /\ Return(c, "ok")
  /\ UNCHANGED seen

Unlink(c) ==
  \/ /\ pc[c] = "unlink v2"
     /\ redis' = [redis EXCEPT ![V2[Own(c)]] = Nil]
     /\ Goto(c, "legacy")
     /\ UNCHANGED <<seen, outcome>>
  \/ /\ pc[c] = "unlink legacy"
     /\ redis' = [redis EXCEPT ![Legacy[Own(c)]] = Nil]
     /\ Return(c, "ok")
     /\ UNCHANGED seen

----------------------------------------------------------------------------
\* Mutant: the scripts know only v2 keys.
CurrentV2(t) == IF Mine(redis[V2[t]], t) THEN redis[V2[t]] ELSE Nil

\* The scripts look at the v2 key, and at the legacy key when that is free.
Current(t) ==
  IF redis[V2[t]] # Nil THEN redis[V2[t]]
  ELSE IF Mine(redis[Legacy[t]], t) THEN redis[Legacy[t]] ELSE Nil

Taken(t) == redis[V2[t]] # Nil /\ ~Mine(redis[V2[t]], t)

\* Mutant: the copy under the legacy key is left behind.
SourceKeyV2(t) == V2[t]

\* Where the current record lies.
SourceKey(t) == IF redis[V2[t]] = Nil THEN Legacy[t] ELSE V2[t]

\* REDIS_CAS_SET_SCRIPT: the record moves to the v2 key.
GuardedSet(c) ==
  LET t == Own(c)
      old == Current(t)
  IN  /\ pc[c] = "script" /\ Kind(c) = "guarded set"
      /\ \/ Taken(t) /\ Return(c, "key conflict") /\ UNCHANGED redis
         \/ /\ ~Taken(t) /\ old.version # call[c].expected
            /\ Return(c, "conflict")
            /\ UNCHANGED redis
         \/ /\ ~Taken(t) /\ old.version = call[c].expected
            /\ redis' = [k \in Key |->
                 IF k = V2[t]
                 THEN [tuple |-> t, version |-> old.version + 1, data |-> c]
                 ELSE IF k = SourceKey(t) /\ old # Nil THEN Nil ELSE redis[k]]
            /\ Return(c, "ok")
      /\ UNCHANGED seen

\* REDIS_CAS_DELETE_SCRIPT: only the copy that was compared goes.
GuardedDelete(c) ==
  LET t == Own(c)
      old == Current(t)
  IN  /\ pc[c] = "script" /\ Kind(c) = "guarded delete"
      /\ \/ Taken(t) /\ Return(c, "key conflict") /\ UNCHANGED redis
         \/ /\ ~Taken(t) /\ old.version # call[c].expected
            /\ Return(c, "conflict")
            /\ UNCHANGED redis
         \/ /\ ~Taken(t) /\ old.version = call[c].expected
            /\ redis' = IF old = Nil THEN redis ELSE [redis EXCEPT ![SourceKey(t)] = Nil]
            /\ Return(c, "ok")
      /\ UNCHANGED seen

Command(c) ==
  \/ ReadExisting(c) \/ ReadV2(c) \/ ReadLegacy(c)
  \/ Write(c) \/ Unlink(c)
  \/ GuardedSet(c) \/ GuardedDelete(c)

\* Remembers whose session was absent at some moment of the call.
ObserveAbsence ==
  absent' = absent \cup {c \in Client : pc'[c] # "idle" /\ (Visible(Own(c)) = Nil)'}

Next ==
  /\ \E c \in Client : Begin(c) \/ Command(c)
  /\ UNCHANGED call
  /\ ObserveAbsence

Spec == Init /\ [][Next]_vars

----------------------------------------------------------------------------
Running(c) == pc[c] \notin {"idle", "done"}

(* A call never replaces or removes a record of another tuple, although    *)
(* their keys may be the same: README.md:339, legacy keys are used "only   *)
(* when [the] stored metadata exactly matches the requested tenant/session *)
(* tuple, preventing legacy delimiter collisions from crossing tenants".   *)
KeptApart ==
  [][\A k \in Key :
       redis[k].tuple # NoTuple /\ redis'[k] # redis[k] =>
         \E c \in Client : Running(c) /\ pc'[c] # pc[c] /\ Own(c) = redis[k].tuple]_vars

(* A get answers with a record of the tuple it was asked for, or with      *)
(* nothing.                                                                *)
GetsReadOwn ==
  \A c \in Client : seen[c] # Nil => seen[c].tuple = Own(c)

(* A guarded call that is accepted compared its expected version with the  *)
(* record a get would have found at that moment, under whichever key.      *)
GuardsCompareVisible ==
  [][\A c \in Client :
       pc[c] = "script" /\ outcome'[c] = "ok" => Visible(Own(c)).version = call[c].expected]_vars

(* Calls keep to their own tuple, whatever else lies under its keys: what  *)
(* they return, what they change, and what a guard is compared with.       *)
CallsKeepToTuple == []GetsReadOwn /\ KeptApart /\ GuardsCompareVisible

(* With guarded writes only, and records that start with one copy, no      *)
(* record ever has two.                                                    *)
OneCopyKept == OneCopy

(* Then the store is one versioned record per tuple, whichever keys the    *)
(* records lie under and however calls interleave.                         *)
Table == [t \in Tuple |-> Visible(t)]
Store == INSTANCE VersionedStore WITH current <- Table

ImplementsVersionedStore == Store!Spec

----------------------------------------------------------------------------
(* README.md:341: "Core session stores expose a monotonic                  *)
(* `record.meta.version'": the version of a session that stays in the      *)
(* store does not go down.                                                 *)
VersionMonotonic ==
  [][\A t \in Tuple :
       Visible(t) # Nil /\ Visible(t)' # Nil => Visible(t).version <= (Visible(t)').version]_vars

(* docs/SESSION_API_REFERENCE.md:145: a delete "deletes the stored session *)
(* snapshot": after an accepted guarded delete there is none.              *)
DeletedIsGone ==
  [][\A c \in Client :
       pc[c] = "script" /\ Kind(c) = "guarded delete" /\ outcome'[c] = "ok"
         => Visible(Own(c))' = Nil]_vars

(* docs/SESSION_API_REFERENCE.md:118: a get "returns the session metadata  *)
(* and full history": it finds a session that exists all the while.        *)
ExistingSessionsFound ==
  \A c \in Client :
    Kind(c) = "get" /\ outcome[c] = "ok" /\ seen[c] = Nil => c \in absent
=============================================================================
