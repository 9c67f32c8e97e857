-------------------------- MODULE SessionApiProofs --------------------------
(***************************************************************************)
(* Theorems about the session API.  The first part is about                *)
(* SessionRequests, for every set of requests and sessions: the answers,   *)
(* the compare-and-set, and, while nothing is deleted, that the handlers   *)
(* implement SerialSessions.  The second part is about SessionListing, for *)
(* every set of sessions, models, filters and page sizes, and however many *)
(* pages and writes.                                                       *)
(***************************************************************************)
EXTENDS SessionRequests, SessionListing, FiniteSetTheorems, SequenceTheorems, TLAPS

(* A request is in `applied' from its one write on.                        *)
AppliedInv ==
  \A r \in Request :
    /\ pc[r] \notin {"read", "ended"} => r \notin applied
    /\ pc[r] = "read" => r \in applied
    /\ status[r] # "none" => pc[r] = "ended"
    /\ status[r] = "ok" => r \in applied
    /\ status[r] \in {"exists", "conflict"} => r \notin applied

(* An incarnation of a session was created by a request that was applied.  *)
OriginInv ==
  /\ \A s \in Session : store[s] # Absent => store[s].origin \in applied
  /\ \A r \in Request : base[r] # Absent => base[r].origin \in applied

(* Within one incarnation versions only grow and a version names one       *)
(* record: what a handler has read is older than the record, or equal.     *)
BaseInv ==
  \A r \in Request :
    LET current == store[Source(r)]
    IN  base[r] # Absent /\ base[r].origin = current.origin =>
          /\ base[r].version <= current.version
          /\ base[r].version = current.version => base[r] = current

IInv == TypeOK /\ AppliedInv /\ OriginInv /\ BaseInv

----------------------------------------------------------------------------
(* An absent session is the one at version 0.                              *)
LEMMA AbsentVersion ==
  ASSUME NEW x \in Record \cup {Absent}
  PROVE  /\ x.version \in Nat
         /\ x.turns \in Seq(Request)
         /\ x.version = 0 <=> x = Absent
         /\ x # Absent => x \in Record /\ x.origin \in Request
<1>1. <<>> \in Seq(Request)
  OBVIOUS
<1>2. CASE x = Absent
  <2>1. x.version = 0 /\ x.turns = <<>>
    BY <1>2 DEF Absent
  <2>. QED
    BY <1>1, <1>2, <2>1
<1>3. CASE x \in Record
  <2>1. x.version \in Nat \ {0} /\ x.turns \in Seq(Request) /\ x.origin \in Request
    BY <1>3 DEF Record
  <2>2. x # Absent
    BY <2>1 DEF Absent
  <2>. QED
    BY <1>3, <2>1, <2>2
<1>. QED
  BY <1>2, <1>3

(* What a request writes is a list of turns.                               *)
LEMMA NewTurnsType ==
  ASSUME TypeOK, NEW r \in Request
  PROVE  NewTurns(r) \subseteq Seq(Request)
<1>. DEFINE t == base[r].turns
<1>1. t \in Seq(Request)
  BY AbsentVersion DEF TypeOK
<1>2. Append(t, r) \in Seq(Request)
  BY <1>1
<1>3. \A n \in 1 .. Len(t) + 1 : SubSeq(t, n, Len(t)) \in Seq(Request)
  <2>. SUFFICES ASSUME NEW n \in 1 .. Len(t) + 1
                PROVE  SubSeq(t, n, Len(t)) \in Seq(Request)
    OBVIOUS
  <2>1. Len(t) \in Int /\ n \in Int /\ \A i \in n .. Len(t) : t[i] \in Request
    BY <1>1
  <2>. HIDE DEF t
  <2>. QED
    BY <2>1, SubSeqProperties
<1>4. \A n \in 1 .. Len(t) : SubSeq(t, 1, n) \in Seq(Request)
  <2>. SUFFICES ASSUME NEW n \in 1 .. Len(t)
                PROVE  SubSeq(t, 1, n) \in Seq(Request)
    OBVIOUS
  <2>1. 1 \in Int /\ n \in Int /\ \A i \in 1 .. n : t[i] \in Request
    BY <1>1
  <2>. HIDE DEF t
  <2>. QED
    BY <2>1, SubSeqProperties
<1>5. <<>> \in Seq(Request) /\ <<r>> \in Seq(Request)
  OBVIOUS
<1>6. Started(r) \in Seq(Request)
  BY <1>1, <1>5 DEF Started
<1>. QED
  BY <1>2, <1>3, <1>4, <1>5, <1>6 DEF NewTurns, Compactions, Beginnings

(* The one write of a request: it removes the record, or leaves one a      *)
(* version later.                                                          *)
LEMMA ApplyFacts ==
  ASSUME TypeOK, NEW r \in Request, Apply(r)
  PROVE  \E rec \in Record \cup {Absent} :
           /\ store' = [store EXCEPT ![Destination(r)] = rec]
           /\ rec = Absent => Kind(r) = "delete"
           /\ rec # Absent =>
                /\ Kind(r) # "delete"
                /\ rec.version = store[Destination(r)].version + 1
                /\ rec.origin = IF store[Destination(r)] = Absent
                                THEN r ELSE store[Destination(r)].origin
                /\ rec.turns \in NewTurns(r)
<1>. DEFINE current == store[Destination(r)]
<1>1. Destination(r) \in Session
  BY DEF TypeOK, Destination, Source, Kind, Job
<1>2. current \in Record \cup {Absent}
  BY <1>1 DEF TypeOK
<1>3. CASE Kind(r) = "delete"
  BY <1>3 DEF Apply, Destination
<1>4. CASE Kind(r) # "delete"
  <2>1. PICK new \in NewTurns(r) :
          store' = [store EXCEPT ![Destination(r)] = NextRecord(r, new)]
    BY <1>4 DEF Apply
  <2>2. current.version \in Nat /\ (current.version = 0 <=> current = Absent)
        /\ (current # Absent => current.origin \in Request)
    <3>. HIDE DEF current
    <3>. QED
      BY <1>2, AbsentVersion
  <2>3. NextRecord(r, new) = [version |-> current.version + 1, turns |-> new,
                              origin |-> IF current.version = 0 THEN r ELSE current.origin]
    BY DEF NextRecord
  <2>4. new \in Seq(Request)
    BY NewTurnsType
  <2>5. NextRecord(r, new) \in Record
    <3>. HIDE DEF current
    <3>. QED
      BY <2>2, <2>3, <2>4 DEF Record
  <2>6. NextRecord(r, new) # Absent
    <3>. HIDE DEF current
    <3>. QED
      BY <2>2, <2>3 DEF Absent
  <2>. DEFINE rec == NextRecord(r, new)
  <2>7. /\ rec.version = current.version + 1
        /\ rec.origin = IF current = Absent THEN r ELSE current.origin
        /\ rec.turns = new
    <3>. HIDE DEF current
    <3>. QED
      BY <2>2, <2>3
  <2>8. rec \in Record \cup {Absent} /\ rec # Absent
    BY <2>5, <2>6
  <2>9. store' = [store EXCEPT ![Destination(r)] = rec] /\ rec.turns \in NewTurns(r)
    BY <2>1, <2>7
  <2>. HIDE DEF rec
  <2>. QED
    BY <1>4, <2>7, <2>8, <2>9
<1>. QED
  BY <1>3, <1>4

(* The record at the destination is the one the request expects.           *)
LEMMA ApplyGuard ==
  ASSUME TypeOK, NEW r \in Request, Apply(r)
  PROVE  /\ Kind(r) \in {"create", "fork"} => store[Destination(r)] = Absent
         /\ Kind(r) \notin {"create", "fork"} =>
              /\ Destination(r) = Source(r)
              /\ store[Source(r)].version = base[r].version
              /\ store[Source(r)] = Absent <=> base[r] = Absent
<1>1. Destination(r) \in Session /\ Source(r) \in Session
  BY DEF TypeOK, Destination, Source, Kind, Job
<1>2. /\ store[Destination(r)] \in Record \cup {Absent}
      /\ store[Source(r)] \in Record \cup {Absent}
      /\ base[r] \in Record \cup {Absent}
  BY <1>1 DEF TypeOK
<1>3. store[Destination(r)].version = Expected(r)
  BY DEF Apply, VersionMatches
<1>4. CASE Kind(r) \in {"create", "fork"}
  BY <1>2, <1>3, <1>4, AbsentVersion DEF Expected
<1>5. CASE Kind(r) \notin {"create", "fork"}
  <2>1. Destination(r) = Source(r) /\ Expected(r) = base[r].version
    BY <1>5 DEF Destination, Expected
  <2>. QED
    BY <1>2, <1>3, <1>5, <2>1, AbsentVersion
<1>. QED
  BY <1>4, <1>5

LEMMA InitType == Init => TypeOK
<1>1. <<>> \in Seq(Request)
  OBVIOUS
<1>. QED
  BY <1>1 DEF Init, TypeOK, Places, Answers

LEMMA NextType == TypeOK /\ [Next]_vars => TypeOK'
<1>. SUFFICES ASSUME TypeOK, [Next]_vars
              PROVE  TypeOK'
  OBVIOUS
<1>. USE DEF Places, Answers
<1>1. ASSUME NEW r \in Request, Arrive(r)
      PROVE  TypeOK'
  BY <1>1 DEF TypeOK, Arrive, Goto
<1>2. ASSUME NEW r \in Request, RequireFresh(r)
      PROVE  TypeOK'
  BY <1>2 DEF TypeOK, RequireFresh, Goto, Answer
<1>3. ASSUME NEW r \in Request, RequireSession(r)
      PROVE  TypeOK'
  BY <1>3 DEF TypeOK, RequireSession, Goto, Answer
<1>4. ASSUME NEW r \in Request, LoadConversation(r)
      PROVE  TypeOK'
  <2>1. store[Source(r)] \in Record \cup {Absent}
    BY DEF TypeOK, Source, Job
  <2>. QED
    BY <1>4, <2>1 DEF TypeOK, LoadConversation, Goto
<1>5. ASSUME NEW r \in Request, LoadRecord(r)
      PROVE  TypeOK'
  <2>1. store[Source(r)] \in Record \cup {Absent}
    BY DEF TypeOK, Source, Job
  <2>. QED
    BY <1>5, <2>1 DEF TypeOK, LoadRecord, Goto, Answer
<1>6. ASSUME NEW r \in Request, TurnEnds(r)
      PROVE  TypeOK'
  <2>1. store[Source(r)] \in Record \cup {Absent}
    BY DEF TypeOK, Source, Job
  <2>2. store[Source(r)].turns \in Seq(Request)
    BY <2>1, AbsentVersion
  <2>. QED
    BY <1>6, <2>2 DEF TypeOK, TurnEnds, Goto, Answer
<1>7. ASSUME NEW r \in Request, TurnFails(r)
      PROVE  TypeOK'
  BY <1>7 DEF TypeOK, TurnFails, Goto, Answer
<1>8. ASSUME NEW r \in Request, Apply(r)
      PROVE  /\ store' \in [Session -> Record \cup {Absent}]
             /\ store'[Destination(r)].turns \in Seq(Request)
             /\ applied' \in SUBSET Request
  <2>1. PICK rec \in Record \cup {Absent} :
          store' = [store EXCEPT ![Destination(r)] = rec]
    BY <1>8, ApplyFacts
  <2>2. Destination(r) \in Session
    BY DEF TypeOK, Destination, Source, Kind, Job
  <2>3. rec.turns \in Seq(Request)
    BY AbsentVersion
  <2>4. store'[Destination(r)] = rec
    BY <2>1, <2>2 DEF TypeOK
  <2>5. applied' = applied \cup {r}
    BY <1>8 DEF Apply
  <2>. QED
    BY <2>1, <2>3, <2>4, <2>5 DEF TypeOK
<1>9. ASSUME NEW r \in Request, Commit(r)
      PROVE  TypeOK'
  <2>1. Apply(r)
    BY <1>9 DEF Commit
  <2>. HIDE DEF Places, Answers
  <2>2. job' \in [Request -> Job] /\ base' \in [Request -> Record \cup {Absent}]
        /\ announced' \in SUBSET Request
    BY <1>9 DEF TypeOK, Commit
  <2>3. pc' \in [Request -> Places] /\ status' \in [Request -> Answers]
    BY <1>9 DEF TypeOK, Commit, Goto, Answer, Places, Answers
  <2>4. view' \in [Request -> Seq(Request)]
    BY <1>8, <1>9, <2>1 DEF TypeOK, Commit
  <2>. QED
    BY <1>8, <2>1, <2>2, <2>3, <2>4 DEF TypeOK
<1>10. ASSUME NEW r \in Request, Conflict(r)
       PROVE  TypeOK'
  BY <1>10 DEF TypeOK, Conflict, Goto, Answer
<1>11. ASSUME NEW r \in Request, StoreFails(r)
       PROVE  TypeOK'
  <2>1. /\ store' \in [Session -> Record \cup {Absent}]
        /\ applied' \in SUBSET Request
    BY <1>8, <1>11 DEF StoreFails, TypeOK
  <2>. QED
    BY <1>11, <2>1 DEF TypeOK, StoreFails, Goto, Answer
<1>12. ASSUME NEW r \in Request, ReadBack(r)
       PROVE  TypeOK'
  <2>1. store[Source(r)] \in Record \cup {Absent}
    BY DEF TypeOK, Source, Job
  <2>2. store[Source(r)].turns \in Seq(Request)
    BY <2>1, AbsentVersion
  <2>. QED
    BY <1>12, <2>2 DEF TypeOK, ReadBack, Goto, Answer
<1>13. ASSUME NEW s \in Session, Expire(s)
       PROVE  TypeOK'
  BY <1>13 DEF TypeOK, Expire
<1>14. CASE UNCHANGED vars
  BY <1>14 DEF TypeOK, vars
<1>. QED
  BY <1>1, <1>2, <1>3, <1>4, <1>5, <1>6, <1>7, <1>9, <1>10, <1>11, <1>12, <1>13, <1>14
     DEF Next, Progress

----------------------------------------------------------------------------
(* What a step can do to the records and to what handlers hold of them.    *)
Loads(r) ==
  /\ base' = [base EXCEPT ![r] = store[Source(r)]]
  /\ UNCHANGED <<store, applied>>

Writes(r) ==
  /\ pc[r] = "write"
  /\ Apply(r)
  /\ UNCHANGED base

LEMMA StepCases ==
  ASSUME [Next]_vars
  PROVE  /\ job' = job
         /\ \/ UNCHANGED <<store, base, applied>>
            \/ \E r \in Request : Loads(r) \/ Writes(r)
            \/ \E s \in Session : Expire(s)
<1>1. CASE UNCHANGED vars
  BY <1>1 DEF vars
<1>2. ASSUME NEW r \in Request, Arrive(r) \/ Progress(r)
      PROVE  /\ job' = job
             /\ UNCHANGED <<store, base, applied>> \/ Loads(r) \/ Writes(r)
  <2>1. CASE \/ Arrive(r) \/ RequireFresh(r) \/ RequireSession(r) \/ TurnEnds(r)
             \/ TurnFails(r) \/ Conflict(r) \/ ReadBack(r)
    BY <2>1 DEF Arrive, RequireFresh, RequireSession, TurnEnds, TurnFails, Conflict, ReadBack
  <2>2. CASE LoadConversation(r) \/ LoadRecord(r)
    BY <2>2 DEF LoadConversation, LoadRecord, Loads
  <2>3. CASE Commit(r) \/ StoreFails(r)
    BY <2>3 DEF Commit, StoreFails, Writes
  <2>. QED
    BY <1>2, <2>1, <2>2, <2>3 DEF Progress
<1>3. ASSUME NEW s \in Session, Expire(s)
      PROVE  job' = job
  BY <1>3 DEF Expire
<1>. QED
  BY <1>1, <1>2, <1>3 DEF Next

LEMMA NextApplied ==
  TypeOK /\ AppliedInv /\ [Next]_vars => AppliedInv'
<1>. SUFFICES ASSUME TypeOK, AppliedInv, [Next]_vars, NEW r \in Request
              PROVE  /\ pc'[r] \notin {"read", "ended"} => r \notin applied'
                     /\ pc'[r] = "read" => r \in applied'
                     /\ status'[r] # "none" => pc'[r] = "ended"
                     /\ status'[r] = "ok" => r \in applied'
                     /\ status'[r] \in {"exists", "conflict"} => r \notin applied'
  BY DEF AppliedInv
<1>. USE DEF AppliedInv
<1>0. pc \in [Request -> Places] /\ status \in [Request -> Answers]
  BY DEF TypeOK
<1>1. ASSUME NEW q \in Request,
             \/ Arrive(q) \/ RequireFresh(q) \/ RequireSession(q)
             \/ LoadConversation(q) \/ LoadRecord(q) \/ TurnEnds(q)
             \/ TurnFails(q) \/ Conflict(q) \/ ReadBack(q)
      PROVE  /\ applied' = applied
             /\ pc[q] # "ended"
             /\ \/ pc[q] # "read" /\ UNCHANGED status
                  /\ \E place \in {"check", "load", "turn", "write"} : Goto(q, place)
                \/ pc[q] # "read" /\ \E a \in {"exists", "missing", "conflict", "failed"} : Answer(q, a)
                \/ pc[q] = "read" /\ \E a \in {"ok", "missing"} : Answer(q, a)
  BY <1>1 DEF Arrive, RequireFresh, RequireSession, LoadConversation, LoadRecord,
              TurnEnds, TurnFails, Conflict, ReadBack
<1>2. ASSUME NEW q \in Request,
             \/ Arrive(q) \/ RequireFresh(q) \/ RequireSession(q)
             \/ LoadConversation(q) \/ LoadRecord(q) \/ TurnEnds(q)
             \/ TurnFails(q) \/ Conflict(q) \/ ReadBack(q)
      PROVE  /\ pc'[r] \notin {"read", "ended"} => r \notin applied'
             /\ pc'[r] = "read" => r \in applied'
             /\ status'[r] # "none" => pc'[r] = "ended"
             /\ status'[r] = "ok" => r \in applied'
             /\ status'[r] \in {"exists", "conflict"} => r \notin applied'
  BY <1>0, <1>1, <1>2 DEF Goto, Answer
<1>3. ASSUME NEW q \in Request, Commit(q)
      PROVE  /\ pc'[r] \notin {"read", "ended"} => r \notin applied'
             /\ pc'[r] = "read" => r \in applied'
             /\ status'[r] # "none" => pc'[r] = "ended"
             /\ status'[r] = "ok" => r \in applied'
             /\ status'[r] \in {"exists", "conflict"} => r \notin applied'
  <2>1. applied' = applied \cup {q} /\ pc[q] = "write"
    BY <1>3 DEF Commit, Apply
  <2>2. (Goto(q, "read") /\ UNCHANGED status) \/ Answer(q, "ok")
    BY <1>3 DEF Commit
  <2>. QED
    BY <1>0, <2>1, <2>2 DEF Goto, Answer
<1>4. ASSUME NEW q \in Request, StoreFails(q)
      PROVE  /\ pc'[r] \notin {"read", "ended"} => r \notin applied'
             /\ pc'[r] = "read" => r \in applied'
             /\ status'[r] # "none" => pc'[r] = "ended"
             /\ status'[r] = "ok" => r \in applied'
             /\ status'[r] \in {"exists", "conflict"} => r \notin applied'
  <2>1. (applied' = applied \/ applied' = applied \cup {q}) /\ pc[q] = "write" /\ Answer(q, "failed")
    BY <1>4 DEF StoreFails, Apply
  <2>2. /\ pc'[q] = "ended" /\ status'[q] = "failed"
        /\ r # q => pc'[r] = pc[r] /\ status'[r] = status[r] /\ (r \in applied' <=> r \in applied)
    BY <1>0, <2>1 DEF Answer, Goto
  <2>. QED
    BY <2>2
<1>5. ASSUME NEW s \in Session, Expire(s)
      PROVE  UNCHANGED <<pc, status, applied>>
  BY <1>5 DEF Expire
<1>6. CASE UNCHANGED vars
  BY <1>6 DEF vars
<1>. QED
  BY <1>2, <1>3, <1>4, <1>5, <1>6 DEF Next, Progress

LEMMA NextOrigin ==
  TypeOK /\ OriginInv /\ [Next]_vars => OriginInv'
<1>. SUFFICES ASSUME TypeOK, OriginInv, [Next]_vars
              PROVE  OriginInv'
  OBVIOUS
<1>. USE DEF OriginInv
<1>0. /\ store \in [Session -> Record \cup {Absent}]
      /\ base \in [Request -> Record \cup {Absent}]
      /\ \A r \in Request : Source(r) \in Session /\ Destination(r) \in Session
  BY DEF TypeOK, Source, Destination, Kind, Job
<1>1. CASE UNCHANGED <<store, base, applied>>
  BY <1>1
<1>2. ASSUME NEW r \in Request, Loads(r)
      PROVE  OriginInv'
  BY <1>0, <1>2 DEF Loads
<1>3. ASSUME NEW r \in Request, Writes(r)
      PROVE  OriginInv'
  <2>1. PICK rec \in Record \cup {Absent} :
          /\ store' = [store EXCEPT ![Destination(r)] = rec]
          /\ rec # Absent =>
               rec.origin = IF store[Destination(r)] = Absent
                            THEN r ELSE store[Destination(r)].origin
    BY <1>3, ApplyFacts DEF Writes
  <2>2. applied' = applied \cup {r} /\ base' = base
    BY <1>3 DEF Writes, Apply
  <2>3. rec # Absent => rec.origin \in applied'
    BY <1>0, <2>1, <2>2
  <2>. QED
    BY <1>0, <2>1, <2>2, <2>3
<1>4. ASSUME NEW s \in Session, Expire(s)
      PROVE  OriginInv'
  BY <1>0, <1>4 DEF Expire
<1>. QED
  BY <1>1, <1>2, <1>3, <1>4, StepCases

LEMMA NextBase ==
  IInv /\ [Next]_vars => BaseInv'
<1>. SUFFICES ASSUME IInv, [Next]_vars, NEW r \in Request,
                     base'[r] # Absent,
                     base'[r].origin = store'[Source(r)'].origin
              PROVE  /\ base'[r].version <= store'[Source(r)'].version
                     /\ base'[r].version = store'[Source(r)'].version =>
                          base'[r] = store'[Source(r)']
  BY DEF BaseInv
<1>0. /\ store \in [Session -> Record \cup {Absent}]
      /\ base \in [Request -> Record \cup {Absent}]
      /\ \A q \in Request : Source(q) \in Session /\ Destination(q) \in Session
      /\ \A q \in Request : Source(q)' = Source(q)
  <2>1. job' = job
    BY StepCases
  <2>. QED
    BY <2>1 DEF IInv, TypeOK, Source, Destination, Kind, Job
<1>. DEFINE current == store[Source(r)]
<1>1. /\ current \in Record \cup {Absent} /\ base[r] \in Record \cup {Absent}
      /\ current.version \in Nat /\ base[r].version \in Nat
      /\ base[r] # Absent => base[r].origin \in Request
  BY <1>0, AbsentVersion
<1>2. base[r] # Absent /\ base[r].origin = current.origin =>
        /\ base[r].version <= current.version
        /\ base[r].version = current.version => base[r] = current
  BY DEF IInv, BaseInv
<1>3. CASE UNCHANGED <<store, base, applied>>
  BY <1>0, <1>2, <1>3
<1>4. ASSUME NEW q \in Request, Loads(q)
      PROVE  /\ base'[r].version <= store'[Source(r)'].version
             /\ base'[r].version = store'[Source(r)'].version =>
                  base'[r] = store'[Source(r)']
  BY <1>0, <1>1, <1>2, <1>4 DEF Loads
<1>5. ASSUME NEW q \in Request, Writes(q)
      PROVE  /\ base'[r].version <= store'[Source(r)'].version
             /\ base'[r].version = store'[Source(r)'].version =>
                  base'[r] = store'[Source(r)']
  <2>1. PICK rec \in Record \cup {Absent} :
          /\ store' = [store EXCEPT ![Destination(q)] = rec]
          /\ rec # Absent =>
               /\ rec.version = store[Destination(q)].version + 1
               /\ rec.origin = IF store[Destination(q)] = Absent
                               THEN q ELSE store[Destination(q)].origin
    BY <1>5, ApplyFacts DEF Writes, IInv
  <2>2. base' = base /\ q \notin applied
    BY <1>5 DEF Writes, IInv, AppliedInv
  <2>3. CASE Destination(q) # Source(r)
    <3>1. store'[Source(r)] = current
      BY <1>0, <2>1, <2>3
    <3>. QED
      BY <1>0, <1>2, <2>2, <3>1
  <2>4. CASE Destination(q) = Source(r)
    <3>1. store'[Source(r)] = rec /\ base'[r] = base[r] /\ base[r].origin = rec.origin
      BY <1>0, <2>1, <2>2, <2>4
    <3>2. base[r].origin \in Request /\ base[r].origin \in applied
      BY <1>1, <2>2 DEF IInv, OriginInv
    <3>3. rec # Absent
      BY <3>1, <3>2, NobodyAssumption DEF Absent
    <3>4. current # Absent /\ rec.origin = current.origin
      BY <2>1, <2>2, <2>4, <3>1, <3>2, <3>3
    <3>5. base[r].version <= current.version /\ rec.version = current.version + 1
      BY <1>2, <2>1, <2>2, <2>4, <3>1, <3>3, <3>4
    <3>. HIDE DEF current
    <3>. QED
      BY <1>0, <1>1, <3>1, <3>5
  <2>. QED
    BY <2>3, <2>4
<1>6. ASSUME NEW s \in Session, Expire(s)
      PROVE  /\ base'[r].version <= store'[Source(r)'].version
             /\ base'[r].version = store'[Source(r)'].version =>
                  base'[r] = store'[Source(r)']
  <2>1. store' = [store EXCEPT ![s] = Absent] /\ base' = base
    BY <1>6 DEF Expire
  <2>2. Source(r) # s
    BY <1>0, <1>1, <2>1, NobodyAssumption DEF Absent
  <2>. QED
    BY <1>0, <1>2, <2>1, <2>2
<1>. QED
  BY <1>3, <1>4, <1>5, <1>6, StepCases

LEMMA InitInv == Init => IInv
<1>. SUFFICES ASSUME Init PROVE IInv
  OBVIOUS
<1>1. TypeOK
  BY InitType
<1>2. AppliedInv
  BY DEF Init, AppliedInv
<1>3. OriginInv /\ BaseInv
  BY DEF Init, OriginInv, BaseInv
<1>. QED
  BY <1>1, <1>2, <1>3 DEF IInv

(* The inductive invariant holds of every reachable state.                 *)
THEOREM Inductive == Spec => []IInv
<1>1. Init => IInv
  BY InitInv
<1>2. IInv /\ [Next]_vars => IInv'
  BY NextType, NextApplied, NextOrigin, NextBase DEF IInv
<1>. QED
  BY <1>1, <1>2, PTL DEF Spec

(* Types are respected: in particular stored versions start at 1.          *)
THEOREM TypeCorrect == Spec => []TypeOK
<1>1. IInv => TypeOK
  BY DEF IInv
<1>. QED
  BY <1>1, Inductive, PTL

(* Success means that the request took effect; a refusal as duplicate or   *)
(* stale means that it did not.                                            *)
THEOREM AnswersCorrect == Spec => []AnswersMatchEffects
<1>1. IInv => AnswersMatchEffects
  BY DEF IInv, AppliedInv, AnswersMatchEffects
<1>. QED
  BY <1>1, Inductive, PTL

(* Nothing is created over a record, and within one incarnation of a       *)
(* session a guarded write replaces exactly the record its handler read.   *)
THEOREM OverwriteCorrect == Spec => NoSilentOverwrite
<1>. DEFINE NotLost == \A r \in applied' \ applied :
              LET current == store[Destination(r)]
              IN  current # Absent =>
                    /\ Kind(r) \notin {"create", "fork"}
                    /\ current.origin = base[r].origin => current = base[r]
<1>1. IInv /\ [Next]_vars => [NotLost]_vars
  <2>. SUFFICES ASSUME IInv, [Next]_vars, NEW r \in applied', r \notin applied,
                       store[Destination(r)] # Absent
                PROVE  /\ Kind(r) \notin {"create", "fork"}
                       /\ store[Destination(r)].origin = base[r].origin =>
                            store[Destination(r)] = base[r]
    OBVIOUS
  <2>1. PICK q \in Request : Writes(q)
    BY StepCases DEF Loads, Expire
  <2>2. r = q
    BY <2>1 DEF Writes, Apply
  <2>3. Apply(r) /\ r \in Request
    BY <2>1, <2>2 DEF Writes
  <2>4. /\ Kind(r) \notin {"create", "fork"}
        /\ Destination(r) = Source(r)
        /\ store[Source(r)].version = base[r].version
        /\ base[r] # Absent
    BY <2>3, ApplyGuard DEF IInv
  <2>5. base[r].origin = store[Source(r)].origin => base[r] = store[Source(r)]
    BY <2>3, <2>4 DEF IInv, BaseInv
  <2>. QED
    BY <2>4, <2>5
<1>. QED
  BY <1>1, Inductive, PTL DEF Spec, NoSilentOverwrite

----------------------------------------------------------------------------
(* Without deletes and expiry a session that exists keeps its incarnation, *)
(* and a handler that has passed its checks holds a record of it.          *)
NothingDeleted == "delete" \notin Kinds /\ ~Expiring

KeptInv ==
  \A r \in Request :
    /\ base[r] # Absent => store[Source(r)].origin = base[r].origin
    /\ Kind(r) \in {"compact", "fork"} /\ pc[r] \in {"check", "write"} => base[r] # Absent
    /\ Kind(r) \in {"send", "stream"} /\ ~AllowImplicit =>
         /\ pc[r] \in {"load", "turn", "write"} => store[Source(r)] # Absent
         /\ pc[r] \in {"turn", "write"} => base[r] # Absent

LEMMA SessionsPersist ==
  ASSUME TypeOK, NothingDeleted, [Next]_vars, NEW s \in Session, store[s] # Absent
  PROVE  store'[s] # Absent /\ store'[s].origin = store[s].origin
<1>0. /\ store \in [Session -> Record \cup {Absent}]
      /\ \A q \in Request : Destination(q) \in Session /\ Kind(q) \in Kinds
  BY DEF TypeOK, Source, Destination, Kind, Job
<1>1. ASSUME NEW r \in Request, Loads(r)
      PROVE  UNCHANGED store
  BY <1>1 DEF Loads
<1>2. ASSUME NEW r \in Request, Writes(r)
      PROVE  store'[s] # Absent /\ store'[s].origin = store[s].origin
  <2>1. PICK rec \in Record \cup {Absent} :
          /\ store' = [store EXCEPT ![Destination(r)] = rec]
          /\ rec = Absent => Kind(r) = "delete"
          /\ rec # Absent =>
               rec.origin = IF store[Destination(r)] = Absent
                            THEN r ELSE store[Destination(r)].origin
    BY <1>2, ApplyFacts DEF Writes
  <2>2. rec # Absent
    BY <1>0, <2>1 DEF NothingDeleted
  <2>. QED
    BY <1>0, <2>1, <2>2
<1>3. ASSUME NEW t \in Session, Expire(t)
      PROVE  FALSE
  BY <1>3 DEF Expire, NothingDeleted
<1>. QED
  BY <1>1, <1>2, <1>3, StepCases

LEMMA ExistsPresent ==
  ASSUME TypeOK, NEW s \in Session
  PROVE  Exists(s) <=> store[s] # Absent
BY AbsentVersion DEF TypeOK, Exists

LEMMA NextKept ==
  NothingDeleted /\ TypeOK /\ KeptInv /\ [Next]_vars => KeptInv'
<1>. SUFFICES ASSUME NothingDeleted, TypeOK, KeptInv, [Next]_vars
              PROVE  KeptInv'
  OBVIOUS
<1>0. /\ store \in [Session -> Record \cup {Absent}]
      /\ base \in [Request -> Record \cup {Absent}]
      /\ pc \in [Request -> Places]
      /\ \A q \in Request : Source(q) \in Session
      /\ \A q \in Request : Source(q)' = Source(q) /\ Kind(q)' = Kind(q)
  <2>1. job' = job
    BY StepCases
  <2>. QED
    BY <2>1 DEF TypeOK, Source, Kind, Job
<1>1. ASSUME NEW r \in Request, base'[r] # Absent
      PROVE  store'[Source(r)].origin = base'[r].origin
  <2>1. CASE base'[r] = base[r]
    <3>1. base[r].origin \in Request /\ store[Source(r)].origin = base[r].origin
      BY <1>0, <1>1, <2>1, AbsentVersion DEF KeptInv
    <3>2. store[Source(r)] # Absent
      BY <3>1, NobodyAssumption DEF Absent
    <3>. QED
      BY <1>0, <2>1, <3>1, <3>2, SessionsPersist
  <2>2. CASE base'[r] # base[r]
    <3>1. base'[r] = store[Source(r)] /\ UNCHANGED store
      BY <1>0, <2>2, StepCases DEF Loads, Writes, Expire
    <3>. QED
      BY <3>1
  <2>. QED
    BY <2>1, <2>2
<1>2. ASSUME NEW r \in Request, store[Source(r)] # Absent
      PROVE  store'[Source(r)] # Absent
  BY <1>0, <1>2, SessionsPersist
<1>3. \A r \in Request : Exists(Source(r)) <=> store[Source(r)] # Absent
  BY <1>0, ExistsPresent
<1>4. ASSUME NEW r \in Request, Kind(r) \in {"compact", "fork"},
             pc'[r] \in {"check", "write"}
      PROVE  base'[r] # Absent
  <2>0. pc[r] \in {"check", "write"} => base[r] # Absent
    BY <1>4 DEF KeptInv
  <2>1. ASSUME NEW q \in Request,
               \/ Arrive(q) \/ RequireFresh(q) \/ RequireSession(q)
               \/ LoadConversation(q) \/ TurnEnds(q)
               \/ TurnFails(q) \/ Conflict(q) \/ ReadBack(q)
               \/ Commit(q) \/ StoreFails(q)
        PROVE  base'[r] = base[r] /\ pc[r] \in {"check", "write"}
    BY <1>0, <1>4, <2>1
       DEF Arrive, RequireFresh, RequireSession, LoadConversation, TurnEnds, TurnFails,
           Conflict, ReadBack, Commit, StoreFails, Goto, Answer, Places
  <2>2. ASSUME NEW q \in Request, LoadRecord(q)
        PROVE  base'[r] # Absent
    BY <1>0, <1>3, <1>4, <2>0, <2>2 DEF LoadRecord, Goto, Answer
  <2>3. ASSUME NEW s \in Session, Expire(s)
        PROVE  UNCHANGED <<base, pc>>
    BY <2>3 DEF Expire
  <2>4. CASE UNCHANGED vars
    BY <1>4, <2>0, <2>4 DEF vars
  <2>. QED
    BY <1>4, <2>0, <2>1, <2>2, <2>3, <2>4 DEF Next, Progress
<1>5. ASSUME NEW r \in Request, Kind(r) \in {"send", "stream"}, ~AllowImplicit
      PROVE  /\ pc'[r] \in {"load", "turn", "write"} => store'[Source(r)] # Absent
             /\ pc'[r] \in {"turn", "write"} => base'[r] # Absent
  <2>0. /\ pc[r] \in {"load", "turn", "write"} => store[Source(r)] # Absent
        /\ pc[r] \in {"turn", "write"} => base[r] # Absent
    BY <1>5 DEF KeptInv
  <2>1. ASSUME NEW q \in Request,
               \/ Arrive(q) \/ RequireFresh(q) \/ TurnEnds(q)
               \/ TurnFails(q) \/ Conflict(q) \/ ReadBack(q)
               \/ Commit(q) \/ StoreFails(q) \/ LoadRecord(q)
        PROVE  /\ pc'[r] \in {"load", "turn", "write"} => pc[r] \in {"load", "turn", "write"}
               /\ pc'[r] \in {"turn", "write"} => pc[r] \in {"turn", "write"}
               /\ base'[r] = base[r]
    BY <1>0, <1>5, <2>1
       DEF Arrive, RequireFresh, TurnEnds, TurnFails,
           Conflict, ReadBack, Commit, StoreFails, LoadRecord, Goto, Answer, Places
  <2>2. ASSUME NEW q \in Request, RequireSession(q) \/ LoadConversation(q)
        PROVE  /\ pc'[r] \in {"load", "turn", "write"} => store[Source(r)] # Absent
               /\ pc'[r] \in {"turn", "write"} => base'[r] # Absent
    BY <1>0, <1>3, <1>5, <2>0, <2>2 DEF RequireSession, LoadConversation, Goto, Answer, Places
  <2>3. ASSUME NEW s \in Session, Expire(s)
        PROVE  UNCHANGED <<base, pc>>
    BY <2>3 DEF Expire
  <2>4. CASE UNCHANGED vars
    BY <1>2, <2>0, <2>4 DEF vars
  <2>. QED
    BY <1>2, <2>0, <2>1, <2>2, <2>3, <2>4 DEF Next, Progress
<1>. QED
  BY <1>0, <1>1, <1>4, <1>5 DEF KeptInv

----------------------------------------------------------------------------
(* The variables of SerialSessions in terms of those of SessionRequests.   *)
SerialPresent == {s \in Session : Exists(s)}
SerialTurns == [s \in Session |-> store[s].turns]
SerialCopied == [r \in Request |-> IF Kind(r) = "fork" THEN base[r].turns ELSE <<>>]

LEMMA SerialInit == Init => Serial!Init
<1>. SUFFICES ASSUME Init PROVE Serial!Init
  OBVIOUS
<1>1. SerialPresent = {} /\ SerialTurns = [s \in Session |-> <<>>]
  BY DEF Init, Absent, Exists, SerialPresent, SerialTurns
<1>2. SerialCopied = [r \in Request |-> <<>>]
  BY DEF Init, Absent, SerialCopied
<1>. QED
  BY <1>1, <1>2 DEF Init, Serial!Init, SerialPresent, SerialTurns, SerialCopied

(* The write of a request is its one step of SerialSessions.               *)
LEMMA SerialWrite ==
  ASSUME NothingDeleted, IInv, KeptInv, job' = job, NEW r \in Request, Writes(r),
         NEW d \in Session, d = Destination(r)
  PROVE  Serial!Next
<1>00. Kind(r) \in Kinds /\ Source(r) \in Session
  BY DEF IInv, TypeOK, Source, Kind, Job
<1>01. Kind(r) \in {"create", "send", "stream", "compact", "fork"}
  BY <1>00, KindsAssumption DEF NothingDeleted, AllKinds
<1>02. SerialCopied' = SerialCopied
  BY DEF Writes, SerialCopied, Kind
<1>0. /\ store \in [Session -> Record \cup {Absent}]
      /\ base \in [Request -> Record \cup {Absent}]
      /\ Source(r) \in Session
      /\ Kind(r) \in {"create", "send", "stream", "compact", "fork"}
      /\ Apply(r) /\ TypeOK
      /\ SerialCopied' = SerialCopied
  BY <1>00, <1>01, <1>02 DEF IInv, TypeOK, Writes
<1>1. PICK rec \in Record \cup {Absent} :
        /\ store' = [store EXCEPT ![d] = rec]
        /\ rec # Absent
        /\ rec.turns \in NewTurns(r)
  BY <1>0, ApplyFacts
<1>2. /\ SerialPresent' = SerialPresent \cup {d}
      /\ SerialTurns' = [SerialTurns EXCEPT ![d] = rec.turns]
  <2>1. \A s \in Session : Exists(s) <=> store[s] # Absent
    BY <1>0, ExistsPresent
  <2>2. rec.version # 0
    BY <1>1, AbsentVersion
  <2>3. \A s \in Session : store'[s] = IF s = d THEN rec ELSE store[s]
    BY <1>0, <1>1
  <2>. QED
    BY <1>0, <1>1, <2>1, <2>2, <2>3 DEF SerialPresent, SerialTurns, Exists
<1>3. d \in SerialPresent <=> store[d] # Absent
  BY <1>0, ExistsPresent DEF SerialPresent
<1>4. Serial!Serve(r)
  BY DEF Serial!Serve, Writes, Apply, IInv, AppliedInv
<1>5. SerialTurns[d] = store[d].turns
  BY <1>0 DEF SerialTurns
<1>6. Kind(r) \notin {"create", "fork"} => d = Source(r) /\ store[d] = base[r]
  <2>. SUFFICES ASSUME Kind(r) \notin {"create", "fork"}
                PROVE  d = Source(r) /\ store[d] = base[r]
    OBVIOUS
  <2>1. /\ d = Source(r) /\ store[Source(r)].version = base[r].version
        /\ store[Source(r)] = Absent <=> base[r] = Absent
    BY <1>0, ApplyGuard
  <2>2. CASE base[r] = Absent
    BY <2>1, <2>2
  <2>3. CASE base[r] # Absent
    <3>1. store[Source(r)].origin = base[r].origin
      BY <2>3 DEF KeptInv
    <3>. QED
      BY <2>1, <2>3, <3>1 DEF IInv, BaseInv
  <2>. QED
    BY <2>2, <2>3
<1>7. CASE Kind(r) = "create"
  <2>1. store[d] = Absent
    BY <1>0, <1>7, ApplyGuard
  <2>2. base[r] = Absent
    <3>1. d = Source(r) /\ Absent.origin = Nobody
      BY <1>7 DEF Destination, Absent
    <3>2. base[r] # Absent => Absent.origin \in Request
      BY <1>0, <2>1, <3>1, AbsentVersion DEF KeptInv
    <3>. QED
      BY <3>1, <3>2, NobodyAssumption
  <2>3. rec.turns = <<r>>
    BY <1>1, <1>7, <2>2 DEF NewTurns, Started
  <2>4. Serial!Create(r, d)
    BY <1>0, <1>2, <1>3, <1>4, <2>1, <2>3
       DEF Serial!Create, SerialPresent, SerialTurns, SerialCopied
  <2>. QED
    BY <2>4 DEF Serial!Next
<1>8. CASE Kind(r) \in {"send", "stream"}
  <2>1. rec.turns = Append(base[r].turns, r)
    BY <1>1, <1>8 DEF NewTurns
  <2>2. store[d] # Absent \/ AllowImplicit
    BY <1>6, <1>8 DEF KeptInv, Writes
  <2>3. SerialTurns' = [SerialTurns EXCEPT ![d] = Append(@, r)]
    BY <1>0, <1>2, <1>5, <1>6, <1>8, <2>1
  <2>4. Serial!AppendTurn(r, d)
    BY <1>0, <1>2, <1>3, <1>4, <2>2, <2>3
       DEF Serial!AppendTurn, SerialPresent, SerialTurns, SerialCopied
  <2>. QED
    BY <2>4 DEF Serial!Next
<1>9. CASE Kind(r) = "compact"
  <2>1. PICK n \in 1 .. Len(base[r].turns) + 1 :
          rec.turns = SubSeq(base[r].turns, n, Len(base[r].turns))
    BY <1>1, <1>9 DEF NewTurns, Compactions
  <2>2. store[d] # Absent
    BY <1>6, <1>9 DEF KeptInv, Writes
  <2>3. /\ n \in 1 .. Len(SerialTurns[d]) + 1
        /\ SerialTurns' = [SerialTurns EXCEPT ![d] = SubSeq(@, n, Len(@))]
    BY <1>0, <1>2, <1>5, <1>6, <1>9, <2>1
  <2>4. SerialPresent' = SerialPresent
    BY <1>2, <1>3, <2>2
  <2>5. Serial!Compact(r, d)
    BY <1>0, <1>3, <1>4, <2>2, <2>3, <2>4
       DEF Serial!Compact, SerialPresent, SerialTurns, SerialCopied
  <2>. QED
    BY <2>5 DEF Serial!Next
<1>10. CASE Kind(r) = "fork"
  <2>1. PICK n \in 1 .. Len(base[r].turns) : rec.turns = SubSeq(base[r].turns, 1, n)
    BY <1>1, <1>10 DEF NewTurns, Beginnings
  <2>2. store[d] = Absent
    BY <1>0, <1>10, ApplyGuard
  <2>3. SerialCopied[r] = base[r].turns
    BY <1>10 DEF SerialCopied
  <2>4. \E k \in 1 .. Len(SerialCopied[r]) :
          SerialTurns' = [SerialTurns EXCEPT ![d] = SubSeq(SerialCopied[r], 1, k)]
    BY <1>2, <2>1, <2>3
  <2>5. Serial!Fork(r, d)
    BY <1>0, <1>2, <1>3, <1>4, <2>2, <2>4
       DEF Serial!Fork, SerialPresent, SerialTurns, SerialCopied
  <2>. QED
    BY <2>5 DEF Serial!Next
<1>. QED
  BY <1>0, <1>7, <1>8, <1>9, <1>10

(* Reading the source is the copy of a fork, and nothing to the others.    *)
LEMMA SerialLoad ==
  ASSUME IInv, job' = job, NEW r \in Request, Loads(r), pc[r] = "load",
         NEW s \in Session, s = Source(r),
         Kind(r) = "fork" => store[s] # Absent
  PROVE  Serial!Next \/ UNCHANGED Serial!vars
<1>0. /\ store \in [Session -> Record \cup {Absent}]
      /\ base \in [Request -> Record \cup {Absent}]
      /\ Source(r) = s
      /\ SerialPresent' = SerialPresent /\ SerialTurns' = SerialTurns
      /\ base' = [base EXCEPT ![r] = store[s]]
      /\ applied' = applied
      /\ r \notin applied
  BY DEF IInv, TypeOK, AppliedInv, Source, Job, Loads, SerialPresent, SerialTurns, Exists
<1>1. CASE Kind(r) = "fork"
  <2>1. SerialCopied' = [SerialCopied EXCEPT ![r] = SerialTurns[s]]
    BY <1>0, <1>1 DEF SerialCopied, SerialTurns, Kind
  <2>2. s \in SerialPresent
    BY <1>0, <1>1, ExistsPresent DEF SerialPresent, IInv
  <2>3. Serial!Copy(r, s)
    BY <1>0, <2>1, <2>2 DEF Serial!Copy, SerialPresent, SerialTurns, SerialCopied
  <2>. QED
    BY <2>3 DEF Serial!Next
<1>2. CASE Kind(r) # "fork"
  <2>1. SerialCopied' = SerialCopied
    BY <1>0, <1>2 DEF SerialCopied, Kind
  <2>. QED
    BY <1>0, <2>1 DEF Serial!vars, SerialPresent, SerialTurns, SerialCopied
<1>. QED
  BY <1>1, <1>2

LEMMA SerialStep ==
  NothingDeleted /\ IInv /\ KeptInv /\ [Next]_vars => [Serial!Next]_(Serial!vars)
<1>. SUFFICES ASSUME NothingDeleted, IInv, KeptInv, [Next]_vars
              PROVE  Serial!Next \/ UNCHANGED Serial!vars
  OBVIOUS
<1>0. job' = job
  BY StepCases
<1>1. CASE UNCHANGED <<store, base, applied>>
  <2>1. SerialPresent' = SerialPresent /\ SerialTurns' = SerialTurns
        /\ SerialCopied' = SerialCopied
    BY <1>0, <1>1 DEF SerialPresent, SerialTurns, SerialCopied, Exists, Kind
  <2>. QED
    BY <1>1, <2>1 DEF Serial!vars, SerialPresent, SerialTurns, SerialCopied
<1>2. ASSUME NEW r \in Request, Writes(r)
      PROVE  Serial!Next
  <2>1. PICK d \in Session : d = Destination(r)
    BY DEF IInv, TypeOK, Source, Destination, Kind, Job
  <2>. QED
    BY <1>0, <1>2, <2>1, SerialWrite
<1>3. ASSUME NEW r \in Request, LoadConversation(r) \/ LoadRecord(r)
      PROVE  \/ UNCHANGED <<store, base, applied>>
             \/ Loads(r) /\ pc[r] = "load" /\ (Kind(r) = "fork" => store[Source(r)] # Absent)
  <2>1. Exists(Source(r)) <=> store[Source(r)] # Absent
    BY ExistsPresent DEF IInv, TypeOK, Source, Job
  <2>. QED
    BY <1>3, <2>1 DEF LoadConversation, LoadRecord, Loads
<1>4. ASSUME NEW r \in Request, LoadConversation(r) \/ LoadRecord(r)
      PROVE  Serial!Next \/ UNCHANGED Serial!vars
  <2>1. PICK s \in Session : s = Source(r)
    BY DEF IInv, TypeOK, Source, Job
  <2>. QED
    BY <1>0, <1>1, <1>3, <1>4, <2>1, SerialLoad
<1>5. ASSUME NEW r \in Request, Commit(r) \/ StoreFails(r)
      PROVE  Serial!Next \/ UNCHANGED Serial!vars
  <2>1. Writes(r) \/ UNCHANGED <<store, base, applied>>
    BY <1>5 DEF Commit, StoreFails, Writes
  <2>. QED
    BY <1>1, <1>2, <2>1
<1>6. ASSUME NEW r \in Request,
             \/ Arrive(r) \/ RequireFresh(r) \/ RequireSession(r) \/ TurnEnds(r)
             \/ TurnFails(r) \/ Conflict(r) \/ ReadBack(r)
      PROVE  UNCHANGED <<store, base, applied>>
  BY <1>6 DEF Arrive, RequireFresh, RequireSession, TurnEnds, TurnFails, Conflict, ReadBack
<1>7. ASSUME NEW s \in Session, Expire(s)
      PROVE  FALSE
  BY <1>7 DEF Expire, NothingDeleted
<1>8. CASE UNCHANGED vars
  BY <1>1, <1>8 DEF vars
<1>. QED
  BY <1>1, <1>4, <1>5, <1>6, <1>7, <1>8 DEF Next, Progress

(* While nothing is deleted or expires, every behaviour of the handlers is *)
(* one of SerialSessions: requests take effect one at a time, each on the  *)
(* session as it is when it does.                                          *)
THEOREM Serializable ==
  ASSUME NothingDeleted
  PROVE  Spec => ImplementsSerialSessions
<1>1. Init => IInv /\ KeptInv /\ Serial!Init
  <2>1. Init => KeptInv
    BY DEF Init, KeptInv
  <2>. QED
    BY <2>1, InitInv, SerialInit
<1>2. IInv /\ KeptInv /\ [Next]_vars => IInv' /\ KeptInv'
  BY NextType, NextApplied, NextOrigin, NextBase, NextKept DEF IInv
<1>3. IInv /\ KeptInv /\ [Next]_vars => [Serial!Next]_(Serial!vars)
  BY SerialStep
<1>. QED
  BY <1>1, <1>2, <1>3, PTL DEF Spec, ImplementsSerialSessions, Serial!Spec
----------------------------------------------------------------------------
(* What the answer to a message shows.  A turn is nowhere before its       *)
(* request has written; from then on, while records do not expire and      *)
(* nobody compacts or deletes its session, the session stays the same      *)
(* incarnation and holds the turn once.                                    *)
Occurs(q, t) == \E i \in 1 .. Len(t) : t[i] = q
OccursOnce(q, t) == \E i \in 1 .. Len(t) : \A j \in 1 .. Len(t) : t[j] = q <=> j = i

Disturbed(s) == \E c \in applied : Kind(c) \in {"compact", "delete"} /\ Source(c) = s

UnwrittenInv ==
  \A q \in Request \ applied :
    /\ \A s \in Session : ~Occurs(q, store[s].turns)
    /\ \A r \in Request : ~Occurs(q, base[r].turns)

UndisturbedInv ==
  ~Expiring => \A r \in Request : ~Disturbed(Source(r)) =>
    /\ base[r] # Absent => store[Source(r)].origin = base[r].origin
    /\ Kind(r) = "send" /\ r \in applied => OccursOnce(r, store[Source(r)].turns)

RInv == IInv /\ UnwrittenInv /\ UndisturbedInv /\ OwnTurnInReply

(* Only a request itself brings its turn into what it writes.              *)
LEMMA NewTurnsFrom ==
  ASSUME TypeOK, NEW r \in Request, NEW new \in NewTurns(r), NEW q, Occurs(q, new)
  PROVE  q = r \/ Occurs(q, base[r].turns)
<1>. DEFINE t == base[r].turns
<1>1. t \in Seq(Request) /\ Len(t) \in Nat
  BY AbsentVersion DEF TypeOK
<1>2. PICK i \in 1 .. Len(new) : new[i] = q
  BY DEF Occurs
<1>3. CASE new = <<r>> \/ new = <<>>
  BY <1>2, <1>3
<1>4. CASE new = Append(t, r)
  BY <1>1, <1>2, <1>4 DEF Occurs
<1>5. ASSUME NEW n \in 1 .. Len(t) + 1, new = SubSeq(t, n, Len(t))
      PROVE  Occurs(q, t)
  BY <1>1, <1>2, <1>5 DEF Occurs
<1>6. ASSUME NEW n \in 1 .. Len(t), new = SubSeq(t, 1, n)
      PROVE  Occurs(q, t)
  BY <1>1, <1>2, <1>6 DEF Occurs
<1>7. new \in {<<r>>, <<>>, t, Append(t, r)} \/ new \in Compactions(r) \/ new \in Beginnings(r)
  BY DEF NewTurns, Started
<1>8. CASE new = t
  BY <1>8
<1>. QED
  BY <1>3, <1>4, <1>5, <1>6, <1>7, <1>8 DEF Compactions, Beginnings

(* Appending a turn that is not there leaves the others as often as they   *)
(* were, and the new one once.                                             *)
LEMMA AppendOnce ==
  ASSUME NEW t \in Seq(Request), NEW w \in Request, ~Occurs(w, t)
  PROVE  /\ OccursOnce(w, Append(t, w))
         /\ \A q \in Request : q # w /\ OccursOnce(q, t) => OccursOnce(q, Append(t, w))
<1>. DEFINE n == Append(t, w)
<1>1. /\ Len(t) \in Nat /\ Len(n) = Len(t) + 1 /\ n[Len(t) + 1] = w
      /\ \A j \in 1 .. Len(t) : n[j] = t[j]
  OBVIOUS
<1>2. \A j \in 1 .. Len(n) : j \in 1 .. Len(t) \/ j = Len(t) + 1
  BY <1>1
<1>3. OccursOnce(w, n)
  <2>1. \A j \in 1 .. Len(n) : n[j] = w <=> j = Len(t) + 1
    BY <1>1, <1>2 DEF Occurs
  <2>2. Len(t) + 1 \in 1 .. Len(n)
    BY <1>1
  <2>. QED
    BY <2>1, <2>2 DEF OccursOnce
<1>4. ASSUME NEW q \in Request, q # w, OccursOnce(q, t)
      PROVE  OccursOnce(q, n)
  <2>1. PICK i \in 1 .. Len(t) : \A j \in 1 .. Len(t) : t[j] = q <=> j = i
    BY <1>4 DEF OccursOnce
  <2>2. i \in 1 .. Len(n) /\ i # Len(t) + 1
    BY <1>1
  <2>3. \A j \in 1 .. Len(n) : n[j] = q <=> j = i
    BY <1>1, <1>2, <1>4, <2>1, <2>2
  <2>. QED
    BY <2>2, <2>3 DEF OccursOnce
<1>. QED
  BY <1>3, <1>4

LEMMA NextUnwritten ==
  TypeOK /\ UnwrittenInv /\ [Next]_vars => UnwrittenInv'
<1>. SUFFICES ASSUME TypeOK, UnwrittenInv, [Next]_vars
              PROVE  UnwrittenInv'
  OBVIOUS
<1>. USE DEF UnwrittenInv
<1>0. /\ store \in [Session -> Record \cup {Absent}]
      /\ base \in [Request -> Record \cup {Absent}]
      /\ \A r \in Request : Source(r) \in Session /\ Destination(r) \in Session
  BY DEF TypeOK, Source, Destination, Kind, Job
<1>1. \A q : ~Occurs(q, Absent.turns)
  BY DEF Occurs, Absent
<1>2. CASE UNCHANGED <<store, base, applied>>
  BY <1>2
<1>3. ASSUME NEW r \in Request, Loads(r)
      PROVE  UnwrittenInv'
  BY <1>0, <1>3 DEF Loads
<1>4. ASSUME NEW w \in Request, Writes(w)
      PROVE  UnwrittenInv'
  <2>1. PICK rec \in Record \cup {Absent} :
          /\ store' = [store EXCEPT ![Destination(w)] = rec]
          /\ rec # Absent => rec.turns \in NewTurns(w)
    BY <1>4, ApplyFacts DEF Writes
  <2>2. applied' = applied \cup {w} /\ base' = base
    BY <1>4 DEF Writes, Apply
  <2>3. ASSUME NEW q \in Request \ applied'
        PROVE  ~Occurs(q, rec.turns)
    BY <1>1, <2>1, <2>2, <2>3, NewTurnsFrom
  <2>4. \A s \in Session : store'[s] = store[s] \/ store'[s] = rec
    BY <1>0, <2>1
  <2>. QED
    BY <2>2, <2>3, <2>4
<1>5. ASSUME NEW s \in Session, Expire(s)
      PROVE  UnwrittenInv'
  <2>1. \A u \in Session : store'[u] = store[u] \/ store'[u] = Absent
    BY <1>0, <1>5 DEF Expire
  <2>2. UNCHANGED <<base, applied>>
    BY <1>5 DEF Expire
  <2>. QED
    BY <1>1, <2>1, <2>2
<1>. QED
  BY <1>2, <1>3, <1>4, <1>5, StepCases

(* A write to an undisturbed session keeps its incarnation and its turns,  *)
(* and adds the one of its request.                                        *)
LEMMA UndisturbedWrite ==
  ASSUME RInv, ~Expiring, job' = job,
         NEW w \in Request, Writes(w),
         NEW r \in Request, ~Disturbed(Source(r))'
  PROVE  /\ base'[r] # Absent => store'[Source(r)].origin = base'[r].origin
         /\ Kind(r) = "send" /\ r \in applied' => OccursOnce(r, store'[Source(r)].turns)
<1>0. /\ TypeOK /\ Apply(w)
      /\ store \in [Session -> Record \cup {Absent}]
      /\ base \in [Request -> Record \cup {Absent}]
      /\ Source(r) \in Session /\ Destination(w) \in Session
      /\ applied' = applied \cup {w} /\ base' = base /\ w \notin applied
  BY DEF RInv, IInv, AppliedInv, TypeOK, Source, Destination, Kind, Job, Writes, Apply
<1>1. /\ ~Disturbed(Source(r))
      /\ Kind(w) \in {"compact", "delete"} => Source(w) # Source(r)
  BY <1>0 DEF Disturbed, Source, Kind
<1>2. /\ base[r] # Absent => store[Source(r)].origin = base[r].origin
      /\ Kind(r) = "send" /\ r \in applied => OccursOnce(r, store[Source(r)].turns)
  BY <1>1 DEF RInv, UndisturbedInv
<1>3. ~OccursOnce(r, Absent.turns)
  BY DEF OccursOnce, Absent
<1>4. PICK rec \in Record \cup {Absent} :
        /\ store' = [store EXCEPT ![Destination(w)] = rec]
        /\ rec = Absent => Kind(w) = "delete"
        /\ rec # Absent =>
             /\ rec.origin = IF store[Destination(w)] = Absent
                             THEN w ELSE store[Destination(w)].origin
             /\ rec.turns \in NewTurns(w)
  BY <1>0, ApplyFacts
<1>5. CASE Destination(w) # Source(r)
  <2>1. store'[Source(r)] = store[Source(r)]
    BY <1>0, <1>4, <1>5
  <2>2. Kind(r) = "send" => r # w
    BY <1>5 DEF Destination
  <2>. QED
    BY <1>0, <1>2, <2>1, <2>2
<1>6. CASE Destination(w) = Source(r)
  <2>1. store'[Source(r)] = rec
    BY <1>0, <1>4, <1>6
  <2>2. Kind(w) \notin {"compact", "delete"} /\ rec # Absent
    BY <1>1, <1>4, <1>6 DEF Destination
  <2>3. Kind(w) \in {"create", "fork", "send", "stream"}
    BY <2>2, KindsAssumption DEF RInv, IInv, TypeOK, Kind, Job, AllKinds
  <2>4. ASSUME base[r] # Absent
        PROVE  rec.origin = base[r].origin
    <3>1. base[r].origin \in Request /\ store[Source(r)].origin = base[r].origin
      BY <1>0, <1>2, <2>4, AbsentVersion
    <3>2. store[Source(r)] # Absent
      BY <3>1, NobodyAssumption DEF Absent
    <3>. QED
      BY <1>4, <1>6, <2>2, <3>1, <3>2
  <2>5. CASE Kind(w) \in {"create", "fork"}
    <3>1. store[Source(r)] = Absent
      BY <1>0, <1>6, <2>5, ApplyGuard
    <3>2. Kind(r) = "send" => r \notin applied /\ r # w
      BY <1>2, <1>3, <2>5, <3>1
    <3>. QED
      BY <1>0, <2>1, <2>4, <3>2
  <2>6. CASE Kind(w) \in {"send", "stream"}
    <3>1. /\ Source(w) = Source(r)
          /\ store[Source(w)].version = base[w].version
          /\ store[Source(w)] = Absent <=> base[w] = Absent
      BY <1>0, <1>6, <2>6, ApplyGuard
    <3>2. base[w] = store[Source(r)]
      <4>1. CASE base[w] = Absent
        BY <3>1, <4>1
      <4>2. CASE base[w] # Absent
        <5>1. store[Source(w)].origin = base[w].origin
          BY <1>1, <3>1, <4>2 DEF RInv, UndisturbedInv
        <5>. QED
          BY <3>1, <4>2, <5>1 DEF RInv, IInv, BaseInv
      <4>. QED
        BY <4>1, <4>2
    <3>. DEFINE t == store[Source(r)].turns
    <3>3. rec.turns = Append(t, w)
      BY <1>4, <2>2, <2>6, <3>2 DEF NewTurns
    <3>4. t \in Seq(Request) /\ ~Occurs(w, t)
      BY <1>0, AbsentVersion DEF RInv, UnwrittenInv
    <3>. HIDE DEF t
    <3>5. Kind(r) = "send" /\ r \in applied' => OccursOnce(r, Append(t, w))
      <4>1. Kind(r) = "send" /\ r \in applied => OccursOnce(r, t)
        BY <1>2 DEF t
      <4>. QED
        BY <1>0, <3>4, <4>1, AppendOnce
    <3>. QED
      BY <1>0, <2>1, <2>4, <3>3, <3>5
  <2>. QED
    BY <2>3, <2>5, <2>6
<1>. QED
  BY <1>5, <1>6

LEMMA NextUndisturbed ==
  RInv /\ [Next]_vars => UndisturbedInv'
<1>. SUFFICES ASSUME RInv, [Next]_vars
              PROVE  UndisturbedInv'
  OBVIOUS
<1>00. job' = job
  BY StepCases
<1>. SUFFICES ASSUME ~Expiring, NEW r \in Request, ~Disturbed(Source(r))'
              PROVE  /\ base'[r] # Absent => store'[Source(r)].origin = base'[r].origin
                     /\ Kind(r) = "send" /\ r \in applied' =>
                          OccursOnce(r, store'[Source(r)].turns)
  BY <1>00 DEF UndisturbedInv, Source, Kind
<1>0. /\ job' = job
      /\ store \in [Session -> Record \cup {Absent}]
      /\ base \in [Request -> Record \cup {Absent}]
      /\ Source(r) \in Session
  BY StepCases DEF RInv, IInv, TypeOK, Source, Job
<1>1. ASSUME UNCHANGED <<store, applied>>
      PROVE  /\ base[r] # Absent => store'[Source(r)].origin = base[r].origin
             /\ Kind(r) = "send" /\ r \in applied' => OccursOnce(r, store'[Source(r)].turns)
  <2>1. ~Disturbed(Source(r))
    BY <1>0, <1>1 DEF Disturbed, Source, Kind
  <2>. QED
    BY <1>1, <2>1 DEF RInv, UndisturbedInv
<1>2. CASE UNCHANGED <<store, base, applied>>
  BY <1>1, <1>2
<1>3. ASSUME NEW q \in Request, Loads(q)
      PROVE  /\ base'[r] # Absent => store'[Source(r)].origin = base'[r].origin
             /\ Kind(r) = "send" /\ r \in applied' => OccursOnce(r, store'[Source(r)].turns)
  BY <1>0, <1>1, <1>3 DEF Loads
<1>4. ASSUME NEW w \in Request, Writes(w)
      PROVE  /\ base'[r] # Absent => store'[Source(r)].origin = base'[r].origin
             /\ Kind(r) = "send" /\ r \in applied' => OccursOnce(r, store'[Source(r)].turns)
  BY <1>0, <1>4, UndisturbedWrite
<1>5. ASSUME NEW s \in Session, Expire(s)
      PROVE  FALSE
  BY <1>5 DEF Expire
<1>. QED
  BY <1>2, <1>3, <1>4, <1>5, StepCases

LEMMA NextReply ==
  RInv /\ [Next]_vars => OwnTurnInReply'
<1>. SUFFICES ASSUME RInv, [Next]_vars, ~Expiring,
                     NEW r \in Request, Kind(r)' = "send", status'[r] = "ok",
                     ~Disturbed(Source(r))'
              PROVE  OccursOnce(r, view'[r])
  BY DEF OwnTurnInReply, Disturbed, OccursOnce, Source, Kind
<1>0. /\ job' = job
      /\ store \in [Session -> Record \cup {Absent}]
      /\ view \in [Request -> Seq(Request)]
      /\ status \in [Request -> Answers]
      /\ Source(r) \in Session
      /\ Kind(r) = "send"
  <2>1. job' = job
    BY StepCases
  <2>. QED
    BY <2>1 DEF RInv, IInv, TypeOK, Source, Kind, Job
<1>1. ~Disturbed(Source(r))
  <2>1. applied \subseteq applied'
    BY StepCases DEF Loads, Writes, Apply, Expire
  <2>. QED
    BY <1>0, <2>1 DEF Disturbed, Source, Kind
<1>2. status[r] = "ok" => OccursOnce(r, view[r])
  BY <1>0, <1>1 DEF RInv, OwnTurnInReply, Disturbed, OccursOnce
<1>3. ASSUME NEW q \in Request,
             \/ Arrive(q) \/ RequireFresh(q) \/ RequireSession(q)
             \/ LoadConversation(q) \/ LoadRecord(q) \/ TurnEnds(q)
             \/ TurnFails(q) \/ Conflict(q) \/ StoreFails(q)
      PROVE  status[r] = "ok" /\ view'[r] = view[r]
  BY <1>0, <1>3
     DEF Arrive, RequireFresh, RequireSession, LoadConversation, LoadRecord, TurnEnds,
         TurnFails, Conflict, StoreFails, Answer, Goto
<1>4. ASSUME NEW q \in Request, Commit(q)
      PROVE  status[r] = "ok" /\ view'[r] = view[r]
  BY <1>0, <1>4 DEF Commit, Answer, Goto
<1>5. ASSUME NEW q \in Request, ReadBack(q)
      PROVE  OccursOnce(r, view'[r])
  <2>1. CASE q # r
    BY <1>0, <1>2, <1>5, <2>1 DEF ReadBack, Answer
  <2>2. CASE q = r
    <3>1. view'[r] = store[Source(r)].turns /\ pc[r] = "read"
      BY <1>0, <1>5, <2>2 DEF ReadBack, Answer
    <3>2. r \in applied
      BY <3>1 DEF RInv, IInv, AppliedInv
    <3>. QED
      BY <1>0, <1>1, <3>1, <3>2 DEF RInv, UndisturbedInv
  <2>. QED
    BY <2>1, <2>2
<1>6. ASSUME NEW s \in Session, Expire(s)
      PROVE  FALSE
  BY <1>6 DEF Expire
<1>7. CASE UNCHANGED vars
  BY <1>2, <1>7 DEF vars
<1>. QED
  BY <1>2, <1>3, <1>4, <1>5, <1>6, <1>7 DEF Next, Progress

(* What an answer says is so: success and refusal agree with what became   *)
(* of the store, and the session that the answer to a message shows holds  *)
(* that message's turn exactly once, unless records expire or the session  *)
(* was compacted or deleted.                                               *)
THEOREM RepliesCorrect == Spec => []AnswersTrue
<1>1. Init => RInv
  <2>. SUFFICES ASSUME Init PROVE RInv
    OBVIOUS
  <2>1. IInv
    BY InitInv
  <2>2. UnwrittenInv
    BY DEF Init, UnwrittenInv, Occurs, Absent
  <2>3. UndisturbedInv /\ OwnTurnInReply
    BY DEF Init, UndisturbedInv, OwnTurnInReply
  <2>. QED
    BY <2>1, <2>2, <2>3 DEF RInv
<1>2. RInv /\ [Next]_vars => RInv'
  BY NextType, NextApplied, NextOrigin, NextBase, NextUnwritten, NextUndisturbed, NextReply
     DEF RInv, IInv
<1>3. RInv => AnswersTrue
  BY DEF RInv, IInv, AppliedInv, AnswersMatchEffects, AnswersTrue
<1>. QED
  BY <1>1, <1>2, <1>3, PTL DEF Spec
-----------------------------------------------------------------------------
(* The pages of a listing.                                                  *)


Metas == [session : Sessions, at : Nat, model : Models]

(* What has a place in the listing: a session with its time, or the key of *)
(* a cursor.                                                               *)
Placed(x) == x.at \in Int /\ x.session \in Sessions
SamePlace(x, y) == x.at = y.at /\ x.session = y.session

(* What a store may list: at most one record of a session.                 *)
Listable(S) ==
    /\ IsFiniteSet(S)
    /\ S \subseteq Metas
    /\ \A m, n \in S : m.session = n.session => m = n

Ascending(q) == \A i, j \in 1..Len(q) : i < j => Before(q[i], q[j])
Shows(q, m) == \E i \in 1..Len(q) : q[i] = m

----------------------------------------------------------------------------
(* The order of the listing.                                               *)

LEMMA PlaceDomain ==
    \A s \in Sessions : s.tenant \in Int /\ s.name \in Int
BY ListingAssumption

LEMMA SessionsDiffer ==
    ASSUME NEW s \in Sessions, NEW t \in Sessions, s.tenant = t.tenant, s.name = t.name
    PROVE  s = t
<1>1. s \in [tenant : Int, name : Int] /\ t \in [tenant : Int, name : Int]
  BY ListingAssumption
<1>. QED
  BY <1>1

LEMMA BeforeIrreflexive ==
    ASSUME NEW a, NEW b, Placed(a), Placed(b), SamePlace(a, b)
    PROVE  ~Before(a, b)
BY PlaceDomain DEF Before, Placed, SamePlace

LEMMA BeforeTransitive ==
    ASSUME NEW a, NEW b, NEW c, Placed(a), Placed(b), Placed(c), Before(a, b), Before(b, c)
    PROVE  Before(a, c)
BY PlaceDomain DEF Before, Placed

LEMMA BeforeAsymmetric ==
    ASSUME NEW a, NEW b, Placed(a), Placed(b), Before(a, b)
    PROVE  ~Before(b, a)
BY PlaceDomain DEF Before, Placed

LEMMA BeforeTotal ==
    ASSUME NEW a, NEW b, Placed(a), Placed(b)
    PROVE  Before(a, b) \/ Before(b, a) \/ SamePlace(a, b)
<1>1. CASE a.session.tenant = b.session.tenant /\ a.session.name = b.session.name
  BY <1>1, PlaceDomain, SessionsDiffer DEF Before, Placed, SamePlace
<1>2. CASE ~(a.session.tenant = b.session.tenant /\ a.session.name = b.session.name)
  BY <1>2, PlaceDomain DEF Before, Placed
<1>. QED
  BY <1>1, <1>2

(* A cursor stands where the session it was made from stands.              *)
LEMMA KeyPlace ==
    ASSUME NEW m, Placed(m)
    PROVE  /\ Placed(KeyOf(m)) /\ SamePlace(KeyOf(m), m)
           /\ \A x : (Before(KeyOf(m), x) <=> Before(m, x)) /\ (Before(x, KeyOf(m)) <=> Before(x, m))
BY DEF KeyOf, Placed, SamePlace, Before

LEMMA MetaPlaced == \A m \in Metas : Placed(m)
BY DEF Metas, Placed

----------------------------------------------------------------------------
(* Sorting: a session stands at the place that the number of sessions      *)
(* before it gives.                                                        *)

Ahead(S, m) == {o \in S : Before(o, m)}
Rank(S, m) == Cardinality(Ahead(S, m))

LEMMA Ranks ==
    ASSUME NEW S, Listable(S)
    PROVE  /\ Cardinality(S) \in Nat
           /\ \A m \in S : Rank(S, m) \in 0..(Cardinality(S) - 1)
           /\ \A m, n \in S : Before(m, n) => Rank(S, m) < Rank(S, n)
           /\ \A m, n \in S : Rank(S, m) = Rank(S, n) => m = n
<1>1. Cardinality(S) \in Nat
  BY FS_CardinalityType DEF Listable
<1>2. ASSUME NEW m \in S
      PROVE  /\ IsFiniteSet(Ahead(S, m)) /\ Rank(S, m) \in Nat
             /\ m \notin Ahead(S, m)
             /\ Cardinality(Ahead(S, m) \cup {m}) = Rank(S, m) + 1
  <2>1. Ahead(S, m) \in SUBSET S
    BY DEF Ahead
  <2>2. IsFiniteSet(Ahead(S, m))
    BY <2>1, FS_Subset DEF Listable
  <2>3. m \notin Ahead(S, m)
    BY BeforeIrreflexive, MetaPlaced DEF Ahead, Listable, SamePlace
  <2>. QED
    BY <2>2, <2>3, FS_CardinalityType, FS_AddElement DEF Rank
<1>3. ASSUME NEW m \in S
      PROVE  Rank(S, m) \in 0..(Cardinality(S) - 1)
  <2>1. Ahead(S, m) \cup {m} \in SUBSET S
    BY DEF Ahead
  <2>2. Cardinality(Ahead(S, m) \cup {m}) <= Cardinality(S)
    BY <2>1, FS_Subset DEF Listable
  <2>. QED
    BY <1>1, <1>2, <2>2
<1>4. ASSUME NEW m \in S, NEW n \in S, Before(m, n)
      PROVE  Rank(S, m) < Rank(S, n)
  <2>1. Ahead(S, m) \cup {m} \subseteq Ahead(S, n)
    <3>1. \A x \in S : Placed(x)
      BY MetaPlaced DEF Listable
    <3>2. \A x \in S : Before(x, m) => Before(x, n)
      BY <1>4, <3>1, BeforeTransitive
    <3>. QED
      BY <1>4, <3>2 DEF Ahead
  <2>2. Cardinality(Ahead(S, m) \cup {m}) <= Cardinality(Ahead(S, n))
    BY <1>2, <2>1, FS_Subset
  <2>3. Rank(S, m) + 1 <= Rank(S, n)
    BY <1>2, <2>2 DEF Rank
  <2>4. Rank(S, m) \in Nat /\ Rank(S, n) \in Nat
    BY <1>2
  <2>. QED
    BY <2>3, <2>4
<1>5. ASSUME NEW m \in S, NEW n \in S, Rank(S, m) = Rank(S, n)
      PROVE  m = n
  <2>0. Rank(S, m) \in Nat /\ Rank(S, n) \in Nat
    BY <1>2
  <2>1. ~Before(m, n) /\ ~Before(n, m)
    <3>1. Before(m, n) => Rank(S, m) < Rank(S, n)
      BY <1>4, Zenon
    <3>2. Before(n, m) => Rank(S, n) < Rank(S, m)
      BY <1>4, Zenon
    <3>. QED
      BY <1>5, <2>0, <3>1, <3>2
  <2>2. SamePlace(m, n)
    BY <2>1, BeforeTotal, MetaPlaced DEF Listable
  <2>. QED
    BY <2>2 DEF SamePlace, Listable
<1>. QED
  BY <1>1, <1>3, <1>4, <1>5

(* As many places as sessions, and no two sessions at one: every place is  *)
(* taken.                                                                  *)
LEMMA RanksTaken ==
    ASSUME NEW S, Listable(S), NEW n \in 1..Cardinality(S)
    PROVE  \E m \in S : Rank(S, m) = n - 1
<1>1. Cardinality(S) \in Nat
  BY Ranks
<1>. DEFINE f == [m \in S |-> Rank(S, m)]
            T == 0..(Cardinality(S) - 1)
<1>2. f \in Injection(S, T)
  BY Ranks DEF Injection, IsInjective
<1>3. IsFiniteSet(T) /\ Cardinality(T) = Cardinality(S)
  <2>. DEFINE b == Cardinality(S) - 1
  <2>1. b \in Int /\ 0 \in Int /\ (IF 0 > b THEN 0 ELSE b - 0 + 1) = Cardinality(S)
    BY <1>1
  <2>2. T = 0..b
    OBVIOUS
  <2>. HIDE DEF T, b
  <2>3. IsFiniteSet(0..b) /\ Cardinality(0..b) = IF 0 > b THEN 0 ELSE b - 0 + 1
    BY <2>1, FS_Interval
  <2>. QED
    BY <2>1, <2>2, <2>3
<1>4. f \in Surjection(S, T)
  BY <1>2, <1>3, FS_Injection
<1>5. n - 1 \in T
  BY <1>1
<1>6. \E m \in S : f[m] = n - 1
  BY <1>4, <1>5 DEF Surjection
<1>. QED
  BY <1>6

(* The sorted list has every session once, in order.                       *)
LEMMA SortedLists ==
    ASSUME NEW S, Listable(S)
    PROVE  /\ Cardinality(S) \in Nat
           /\ Sorted(S) \in [1..Cardinality(S) -> S]
           /\ Sorted(S) \in Seq(S) /\ Len(Sorted(S)) = Cardinality(S)
           /\ \A n \in 1..Cardinality(S) : Rank(S, Sorted(S)[n]) = n - 1
           /\ \A m \in S : Rank(S, m) + 1 \in 1..Cardinality(S) /\ Sorted(S)[Rank(S, m) + 1] = m
           /\ Ascending(Sorted(S))
           /\ \A m \in S : Shows(Sorted(S), m)
<1>1. Cardinality(S) \in Nat
  BY Ranks
<1>2. ASSUME NEW n \in 1..Cardinality(S)
      PROVE  Sorted(S)[n] \in S /\ Rank(S, Sorted(S)[n]) = n - 1
  <2>1. Sorted(S)[n] = CHOOSE m \in S : Cardinality({o \in S : Before(o, m)}) = n - 1
    BY DEF Sorted
  <2>2. \E m \in S : Cardinality({o \in S : Before(o, m)}) = n - 1
    BY RanksTaken DEF Rank, Ahead
  <2>. QED
    BY <2>1, <2>2 DEF Rank, Ahead
<1>3. Sorted(S) \in [1..Cardinality(S) -> S]
  BY <1>2 DEF Sorted
<1>4. Sorted(S) \in Seq(S) /\ Len(Sorted(S)) = Cardinality(S)
  BY <1>1, <1>3
<1>5. ASSUME NEW m \in S
      PROVE  Rank(S, m) + 1 \in 1..Cardinality(S) /\ Sorted(S)[Rank(S, m) + 1] = m
  <2>1. Rank(S, m) + 1 \in 1..Cardinality(S)
    BY <1>1, Ranks
  <2>2. Sorted(S)[Rank(S, m) + 1] \in S /\ Rank(S, Sorted(S)[Rank(S, m) + 1]) = Rank(S, m)
    BY <1>2, <2>1, Ranks
  <2>. QED
    BY <2>1, <2>2, Ranks
<1>6. ASSUME NEW i \in 1..Cardinality(S), NEW j \in 1..Cardinality(S), i < j
      PROVE  Before(Sorted(S)[i], Sorted(S)[j])
  <2>. DEFINE a == Sorted(S)[i]
              b == Sorted(S)[j]
  <2>1. a \in S /\ b \in S /\ Rank(S, a) = i - 1 /\ Rank(S, b) = j - 1
    BY <1>2
  <2>2. Placed(a) /\ Placed(b)
    BY <2>1, MetaPlaced DEF Listable
  <2>. HIDE DEF a, b
  <2>3. ~Before(b, a)
    BY <1>6, <2>1, Ranks
  <2>4. ~SamePlace(a, b)
    BY <1>6, <2>1 DEF SamePlace, Listable
  <2>5. Before(a, b)
    BY <2>2, <2>3, <2>4, BeforeTotal
  <2>. QED
    BY <2>5 DEF a, b
<1>. QED
  BY <1>1, <1>2, <1>3, <1>4, <1>5, <1>6 DEF Ascending, Shows

----------------------------------------------------------------------------
(* A page.                                                                 *)

Options == [direction : Directions, filter : Filters, limit : Nat \ {0}]
CursorOrNone == Cursors \cup {Undefined}

Opposite(direction) == IF direction = "forward" THEN "backward" ELSE "forward"

(* The last session of a list for who walks in a direction.                *)
Edge(q, direction) == IF direction = "forward" THEN q[Len(q)] ELSE q[1]

(* The sessions a page takes of its candidates.                            *)
Taken(C, options) ==
    IF Cardinality(C) <= options.limit THEN Sorted(C)
    ELSE IF options.direction = "forward" THEN SubSeq(Sorted(C), 1, options.limit)
    ELSE SubSeq(Sorted(C), Cardinality(C) - options.limit + 1, Cardinality(C))
PageTaken(C, options, cursor) ==
    Page(Taken(C, options), options, cursor, Cardinality(C) > options.limit)

LEMMA LimitDomain == \A o \in Options : o.limit \in Nat \ {0} /\ o.direction \in Directions /\ o.filter \in Filters
BY DEF Options

LEMMA CandidatesListable ==
    ASSUME NEW S, Listable(S), NEW options, NEW cursor
    PROVE  Listable(Candidates(S, options, cursor))
<1>. DEFINE C == Candidates(S, options, cursor)
<1>1. C \in SUBSET S
  BY DEF Candidates
<1>2. IsFiniteSet(C)
  BY <1>1, FS_Subset DEF Listable
<1>. QED
  BY <1>1, <1>2 DEF Listable

(* A piece of a list has the elements of the list between two places.      *)
LEMMA Slice ==
    ASSUME NEW T, NEW q \in Seq(T), NEW a \in Nat \ {0}, NEW b \in Nat, b <= Len(q), a <= b + 1
    PROVE  /\ SubSeq(q, a, b) \in Seq(T)
           /\ Len(SubSeq(q, a, b)) = b - a + 1
           /\ \A i \in 1..(b - a + 1) : SubSeq(q, a, b)[i] = q[a + i - 1]
<1>1. \A i \in a..b : q[i] \in T
  BY ElementOfSeq
<1>. QED
  BY <1>1, SubSeqProperties

(* The memory store, Redis and Postgres cut the same page.                 *)
LEMMA PaginatedTakes ==
    ASSUME NEW S, Listable(S), NEW options \in Options, NEW cursor
    PROVE  Paginated(S, options, cursor) = PageTaken(Candidates(S, options, cursor), options, cursor)
<1>. DEFINE C == Candidates(S, options, cursor)
<1>1. Len(Sorted(C)) = Cardinality(C) /\ Cardinality(C) \in Nat
  BY CandidatesListable, SortedLists
<1>2. options.limit \in Nat
  BY LimitDomain
<1>3. (Len(Sorted(C)) > options.limit) = (Cardinality(C) > options.limit)
  BY <1>1
<1>4. ~(Cardinality(C) > options.limit) <=> Cardinality(C) <= options.limit
  BY <1>1, <1>2
<1>. HIDE DEF C
<1>5. Taken(C, options) =
        IF ~(Len(Sorted(C)) > options.limit) THEN Sorted(C)
        ELSE IF options.direction = "forward" THEN SubSeq(Sorted(C), 1, options.limit)
        ELSE SubSeq(Sorted(C), Len(Sorted(C)) - options.limit + 1, Len(Sorted(C)))
  BY <1>1, <1>3, <1>4 DEF Taken
<1>6. Paginated(S, options, cursor) =
        Page(IF ~(Len(Sorted(C)) > options.limit) THEN Sorted(C)
             ELSE IF options.direction = "forward" THEN SubSeq(Sorted(C), 1, options.limit)
             ELSE SubSeq(Sorted(C), Len(Sorted(C)) - options.limit + 1, Len(Sorted(C))),
             options, cursor, Len(Sorted(C)) > options.limit)
  BY DEF Paginated, C
<1>7. Paginated(S, options, cursor) =
        Page(Taken(C, options), options, cursor, Len(Sorted(C)) > options.limit)
  BY <1>5, <1>6, Zenon
<1>8. Paginated(S, options, cursor) = PageTaken(C, options, cursor)
  BY <1>3, <1>7 DEF PageTaken
<1>. QED
  BY <1>8 DEF C

LEMMA Reversed ==
    ASSUME NEW T, NEW q \in Seq(T)
    PROVE  /\ Reverse(q) \in Seq(T) /\ Len(Reverse(q)) = Len(q)
           /\ \A i \in 1..Len(q) : Reverse(q)[i] = q[Len(q) - i + 1]
BY DEF Reverse

(* The rows a query of Postgres returns, and those the page keeps.         *)
Rows(q, limit) == SubSeq(q, 1, IF Len(q) > limit THEN limit + 1 ELSE Len(q))
RowsKept(q, limit) == IF Len(Rows(q, limit)) > limit THEN Front(Rows(q, limit)) ELSE Rows(q, limit)

LEMMA RowsAreTheFirst ==
    ASSUME NEW T, NEW q \in Seq(T), NEW limit \in Nat
    PROVE  /\ (Len(Rows(q, limit)) > limit) = (Len(q) > limit)
           /\ RowsKept(q, limit) \in Seq(T)
           /\ Len(RowsKept(q, limit)) = IF Len(q) > limit THEN limit ELSE Len(q)
           /\ \A i \in 1..Len(RowsKept(q, limit)) : RowsKept(q, limit)[i] = q[i]
<1>. DEFINE n == Len(q)
            top == IF n > limit THEN limit + 1 ELSE n
            rows == Rows(q, limit)
            size == IF n > limit THEN limit ELSE n
<1>1. n \in Nat /\ top \in Nat /\ top <= n /\ size \in Nat /\ size <= top
  OBVIOUS
<1>2. rows \in Seq(T) /\ Len(rows) = top /\ \A i \in 1..top : rows[i] = q[i]
  <2>1. rows = SubSeq(q, 1, top)
    BY DEF Rows
  <2>. HIDE DEF rows, n, top
  <2>2. /\ SubSeq(q, 1, top) \in Seq(T) /\ Len(SubSeq(q, 1, top)) = top - 1 + 1
        /\ \A i \in 1..(top - 1 + 1) : SubSeq(q, 1, top)[i] = q[1 + i - 1]
    BY <1>1, Slice DEF n
  <2>3. \A i \in 1..top : i \in 1..(top - 1 + 1) /\ 1 + i - 1 = i
    BY <1>1
  <2>. QED
    BY <1>1, <2>1, <2>2, <2>3
<1>3. (Len(rows) > limit) = (n > limit)
  <2>. HIDE DEF rows, n
  <2>. QED
    BY <1>1, <1>2
<1>. DEFINE kept == RowsKept(q, limit)
<1>4. kept \in Seq(T) /\ Len(kept) = size /\ \A i \in 1..size : kept[i] = q[i]
  <2>0. kept = IF Len(rows) > limit THEN Front(rows) ELSE rows
    BY DEF RowsKept
  <2>. HIDE DEF rows, kept
  <2>1. CASE n > limit
    <3>1. kept = SubSeq(rows, 1, limit)
      BY <1>2, <1>3, <2>0, <2>1 DEF Front
    <3>2. size = limit /\ top = limit + 1
      BY <2>1
    <3>. HIDE DEF n, top, size
    <3>3. /\ SubSeq(rows, 1, limit) \in Seq(T) /\ Len(SubSeq(rows, 1, limit)) = limit - 1 + 1
          /\ \A i \in 1..(limit - 1 + 1) : SubSeq(rows, 1, limit)[i] = rows[1 + i - 1]
      BY <1>2, <3>2, Slice
    <3>4. \A i \in 1..limit : i \in 1..top /\ i \in 1..(limit - 1 + 1) /\ 1 + i - 1 = i
      BY <3>2
    <3>. QED
      BY <1>2, <3>1, <3>2, <3>3, <3>4
  <2>2. CASE ~(n > limit)
    BY <1>2, <1>3, <2>0, <2>2
  <2>. QED
    BY <2>1, <2>2
<1>. HIDE DEF kept
<1>5. QED
  BY <1>3, <1>4 DEF kept

(* The rows of a forward query are the start of the list, those of a       *)
(* backward query, put back in order, its end.                             *)
LEMMA ForwardRows ==
    ASSUME NEW T, NEW q \in Seq(T), NEW limit \in Nat
    PROVE  RowsKept(q, limit) = IF Len(q) <= limit THEN q ELSE SubSeq(q, 1, limit)
<1>. DEFINE kept == RowsKept(q, limit)
            wanted == IF Len(q) <= limit THEN q ELSE SubSeq(q, 1, limit)
<1>1. /\ kept \in Seq(T) /\ Len(kept) = IF Len(q) > limit THEN limit ELSE Len(q)
      /\ \A i \in 1..Len(kept) : kept[i] = q[i]
  BY RowsAreTheFirst
<1>. HIDE DEF kept
<1>2. CASE Len(q) > limit
  <2>1. /\ SubSeq(q, 1, limit) \in Seq(T) /\ Len(SubSeq(q, 1, limit)) = limit - 1 + 1
        /\ \A i \in 1..(limit - 1 + 1) : SubSeq(q, 1, limit)[i] = q[1 + i - 1]
    BY <1>2, Slice
  <2>2. \A i \in 1..limit : i \in 1..(limit - 1 + 1) /\ 1 + i - 1 = i
    OBVIOUS
  <2>3. wanted = SubSeq(q, 1, limit)
    BY <1>2
  <2>. HIDE DEF wanted
  <2>4. wanted \in Seq(T) /\ Len(wanted) = limit /\ \A i \in 1..limit : wanted[i] = kept[i]
    BY <1>1, <1>2, <2>1, <2>2, <2>3
  <2>5. kept = wanted
    BY <1>1, <1>2, <2>4, SeqEqual
  <2>. QED
    BY <2>5 DEF kept, wanted
<1>3. CASE ~(Len(q) > limit)
  <2>1. kept = q
    BY <1>1, <1>3, SeqEqual
  <2>. QED
    BY <1>3, <2>1 DEF kept
<1>. QED
  BY <1>2, <1>3

LEMMA BackwardRows ==
    ASSUME NEW T, NEW q \in Seq(T), NEW limit \in Nat
    PROVE  Reverse(RowsKept(Reverse(q), limit)) =
             IF Len(q) <= limit THEN q ELSE SubSeq(q, Len(q) - limit + 1, Len(q))
<1>. DEFINE n == Len(q)
            r == Reverse(q)
            kept == RowsKept(r, limit)
            size == IF n > limit THEN limit ELSE n
            wanted == IF n <= limit THEN q ELSE SubSeq(q, n - limit + 1, n)
<1>1. n \in Nat /\ size \in Nat /\ size <= n
  OBVIOUS
<1>2. r \in Seq(T) /\ Len(r) = n /\ \A i \in 1..n : r[i] = q[n - i + 1]
  BY Reversed
<1>3. kept \in Seq(T) /\ Len(kept) = size /\ \A i \in 1..size : kept[i] = q[n - i + 1]
  <2>. HIDE DEF r, n
  <2>1. /\ kept \in Seq(T) /\ Len(kept) = IF Len(r) > limit THEN limit ELSE Len(r)
        /\ \A i \in 1..Len(kept) : kept[i] = r[i]
    BY <1>2, RowsAreTheFirst
  <2>. HIDE DEF kept
  <2>2. Len(kept) = size
    BY <1>2, <2>1
  <2>3. \A i \in 1..size : i \in 1..n
    BY <1>1
  <2>. QED
    BY <1>2, <2>1, <2>2, <2>3
<1>4. wanted \in Seq(T) /\ Len(wanted) = size /\ \A i \in 1..size : wanted[i] = q[n - size + i]
  <2>1. CASE n > limit
    <3>1. size = limit /\ wanted = SubSeq(q, n - limit + 1, n)
      BY <2>1
    <3>2. n - limit + 1 \in Nat \ {0} /\ n - limit + 1 <= n + 1
      BY <2>1
    <3>. DEFINE a == n - limit + 1
    <3>. HIDE DEF a
    <3>3. /\ SubSeq(q, a, n) \in Seq(T) /\ Len(SubSeq(q, a, n)) = n - a + 1
          /\ \A i \in 1..(n - a + 1) : SubSeq(q, a, n)[i] = q[a + i - 1]
      BY <3>2, Slice DEF a
    <3>4. n - a + 1 = limit /\ \A i \in 1..limit : a + i - 1 = n - limit + i
      BY DEF a
    <3>. QED
      BY <3>1, <3>3, <3>4 DEF a
  <2>2. CASE ~(n > limit)
    BY <2>2
  <2>. QED
    BY <2>1, <2>2
<1>5. Reverse(kept) = wanted
  <2>. HIDE DEF kept, wanted, size, n
  <2>1. /\ Reverse(kept) \in Seq(T) /\ Len(Reverse(kept)) = size
        /\ \A i \in 1..size : Reverse(kept)[i] = kept[size - i + 1]
    BY <1>3, Reversed
  <2>2. \A i \in 1..size : size - i + 1 \in 1..size /\ n - (size - i + 1) + 1 = n - size + i
    BY <1>1
  <2>3. \A i \in 1..size : Reverse(kept)[i] = wanted[i]
    BY <1>3, <1>4, <2>1, <2>2
  <2>. QED
    BY <1>4, <2>1, <2>3, SeqEqual
<1>. QED
  BY <1>5

LEMMA QueriedTakes ==
    ASSUME NEW S, Listable(S), NEW options \in Options, NEW cursor
    PROVE  Queried(S, options, cursor) = PageTaken(Candidates(S, options, cursor), options, cursor)
<1>. DEFINE C == Candidates(S, options, cursor)
            limit == options.limit
            found == IF options.direction = "backward" THEN Reverse(Sorted(C)) ELSE Sorted(C)
            kept == RowsKept(found, limit)
<1>1. Sorted(C) \in Seq(C) /\ Len(Sorted(C)) = Cardinality(C) /\ Cardinality(C) \in Nat
  BY CandidatesListable, SortedLists
<1>2. limit \in Nat /\ options.direction \in Directions
  BY LimitDomain
<1>3. Queried(S, options, cursor) =
        Page(IF options.direction = "backward" THEN Reverse(kept) ELSE kept,
             options, cursor, Len(Rows(found, limit)) > limit)
  BY DEF Queried, Rows, RowsKept
<1>. HIDE DEF C
<1>4. found \in Seq(C) /\ Len(found) = Cardinality(C)
  BY <1>1, Reversed
<1>5. (Len(Rows(found, limit)) > limit) = (Cardinality(C) > limit)
  <2>. HIDE DEF found
  <2>. QED
    BY <1>2, <1>4, RowsAreTheFirst
<1>6. (IF options.direction = "backward" THEN Reverse(kept) ELSE kept) = Taken(C, options)
  <2>1. CASE options.direction = "backward"
    <3>1. Reverse(RowsKept(Reverse(Sorted(C)), limit)) =
            IF Len(Sorted(C)) <= limit THEN Sorted(C)
            ELSE SubSeq(Sorted(C), Len(Sorted(C)) - limit + 1, Len(Sorted(C)))
      BY <1>1, <1>2, BackwardRows
    <3>. QED
      BY <1>1, <2>1, <3>1 DEF Taken
  <2>2. CASE options.direction = "forward"
    <3>1. RowsKept(Sorted(C), limit) =
            IF Len(Sorted(C)) <= limit THEN Sorted(C) ELSE SubSeq(Sorted(C), 1, limit)
      BY <1>1, <1>2, ForwardRows
    <3>. QED
      BY <1>1, <2>2, <3>1 DEF Taken
  <2>. QED
    BY <1>2, <2>1, <2>2 DEF Directions
<1>. HIDE DEF kept, found
<1>7. Queried(S, options, cursor) = PageTaken(C, options, cursor)
  BY <1>3, <1>5, <1>6 DEF PageTaken
<1>. QED
  BY <1>7 DEF C

(* What a page shows of its candidates: sorted, all of them when it is the *)
(* last, and otherwise those that its cursor has passed.                   *)
PageShows(page, C, options, cursor) ==
    /\ page.items \in Seq(C) /\ Ascending(page.items)
    /\ page.next = Undefined => \A m \in C : Shows(page.items, m)
    /\ page.next # Undefined =>
         /\ page.items # <<>>
         /\ page.next = [direction |-> options.direction, filter |-> options.filter,
                         key |-> KeyOf(Edge(page.items, options.direction))]
         /\ \A m \in C : Shows(page.items, m) <=> ~Follows(options.direction, page.next, m)
    /\ page.previous # Undefined =>
         /\ cursor # Undefined /\ page.items # <<>>
         /\ page.previous = [direction |-> Opposite(options.direction), filter |-> options.filter,
                             key |-> KeyOf(Edge(page.items, Opposite(options.direction)))]

LEMMA PageFields ==
    ASSUME NEW items, NEW options, options.direction \in Directions, NEW cursor, NEW hasMore \in BOOLEAN
    PROVE  LET page == Page(items, options, cursor, hasMore)
           IN  /\ page.items = items
               /\ page.next = IF items = <<>> \/ ~hasMore THEN Undefined
                              ELSE [direction |-> options.direction, filter |-> options.filter,
                                    key |-> KeyOf(Edge(items, options.direction))]
               /\ page.previous = IF items = <<>> \/ cursor = Undefined THEN Undefined
                              ELSE [direction |-> Opposite(options.direction), filter |-> options.filter,
                                    key |-> KeyOf(Edge(items, Opposite(options.direction)))]
<1>1. CASE options.direction = "forward"
  BY <1>1 DEF Page, Edge, Opposite
<1>2. CASE options.direction = "backward"
  BY <1>2 DEF Page, Edge, Opposite
<1>. QED
  BY <1>1, <1>2 DEF Directions

(* In an ascending list the order of the places is that of the sessions.   *)
LEMMA AscendingPlaces ==
    ASSUME NEW q \in Seq(Metas), Ascending(q)
    PROVE  \A i, j \in 1..Len(q) : /\ Before(q[i], q[j]) <=> i < j
                                   /\ q[i] = q[j] => i = j
<1>. SUFFICES ASSUME NEW i \in 1..Len(q), NEW j \in 1..Len(q)
              PROVE  /\ Before(q[i], q[j]) <=> i < j
                     /\ q[i] = q[j] => i = j
  OBVIOUS
<1>. DEFINE a == q[i]
            b == q[j]
<1>1. Placed(a) /\ Placed(b)
  BY MetaPlaced
<1>2. (i < j => Before(a, b)) /\ (j < i => Before(b, a))
  BY DEF Ascending
<1>3. i = j => a = b
  OBVIOUS
<1>. HIDE DEF a, b
<1>4. a = b => ~Before(a, b) /\ ~Before(b, a)
  BY <1>1, BeforeIrreflexive DEF SamePlace
<1>5. Before(a, b) => ~Before(b, a)
  BY <1>1, BeforeAsymmetric
<1>6. i < j \/ j < i \/ i = j
  OBVIOUS
<1>7. (Before(a, b) <=> i < j) /\ (a = b => i = j)
  BY <1>2, <1>3, <1>4, <1>5, <1>6
<1>. QED
  BY <1>7 DEF a, b

LEMMA PageTakenShows ==
    ASSUME NEW C, Listable(C), NEW options \in Options, NEW cursor
    PROVE  PageShows(PageTaken(C, options, cursor), C, options, cursor)
<1>. DEFINE q == Sorted(C)
            n == Cardinality(C)
            limit == options.limit
            hasMore == n > limit
            items == Taken(C, options)
            page == PageTaken(C, options, cursor)
            from == IF options.direction = "forward" \/ ~hasMore THEN 1 ELSE n - limit + 1
            to == IF options.direction = "forward" /\ hasMore THEN limit ELSE n
            last == Edge(items, options.direction)
            edge == IF options.direction = "forward" THEN to ELSE from
<1>1. /\ q \in Seq(C) /\ Len(q) = n /\ n \in Nat /\ Ascending(q)
      /\ \A m \in C : Shows(q, m)
  BY SortedLists
<1>2. q \in Seq(Metas)
  BY <1>1 DEF Listable
<1>3. limit \in Nat \ {0} /\ options.direction \in Directions
  BY LimitDomain
<1>4. from \in Nat \ {0} /\ to \in Nat /\ to <= n /\ from <= to + 1 /\ (hasMore => from <= to)
  BY <1>1, <1>3
<1>5. items \in Seq(C) /\ Len(items) = to - from + 1 /\ \A i \in 1..(to - from + 1) : items[i] = q[from + i - 1]
  <2>1. CASE hasMore
    <3>1. items = IF options.direction = "forward" THEN SubSeq(q, 1, limit) ELSE SubSeq(q, n - limit + 1, n)
      <4>1. ~(n <= limit)
        BY <1>1, <1>3, <2>1
      <4>. QED
        BY <4>1, Zenon DEF Taken
    <3>2. items = SubSeq(q, from, to)
      BY <2>1, <3>1
    <3>. HIDE DEF q, from, to, n, items
    <3>3. q \in Seq(C) /\ from \in Nat \ {0} /\ to \in Nat /\ to <= Len(q) /\ from <= to + 1
      BY <1>1, <1>4
    <3>4. /\ SubSeq(q, from, to) \in Seq(C) /\ Len(SubSeq(q, from, to)) = to - from + 1
          /\ \A i \in 1..(to - from + 1) : SubSeq(q, from, to)[i] = q[from + i - 1]
      BY <3>3, Slice
    <3>. QED
      BY <3>2, <3>4
  <2>2. CASE ~hasMore
    <3>1. items = q /\ from = 1 /\ to = n
      BY <1>1, <1>3, <2>2 DEF Taken
    <3>2. \A i \in 1..n : 1 + i - 1 = i
      OBVIOUS
    <3>. HIDE DEF q, from, to, n, items
    <3>. QED
      BY <1>1, <3>1, <3>2
  <2>. QED
    BY <2>1, <2>2
<1>6. /\ page.items = items
      /\ page.next = IF items = <<>> \/ ~hasMore THEN Undefined
                     ELSE [direction |-> options.direction, filter |-> options.filter,
                           key |-> KeyOf(last)]
      /\ page.previous = IF items = <<>> \/ cursor = Undefined THEN Undefined
                     ELSE [direction |-> Opposite(options.direction), filter |-> options.filter,
                           key |-> KeyOf(Edge(items, Opposite(options.direction)))]
  <2>1. hasMore \in BOOLEAN
    OBVIOUS
  <2>2. page = Page(items, options, cursor, hasMore)
    BY DEF PageTaken
  <2>. HIDE DEF items, hasMore, page
  <2>3. options.direction \in Directions
    BY <1>3
  <2>. QED
    BY <2>1, <2>2, <2>3, PageFields DEF last
<1>7. \A i, j \in 1..n : (Before(q[i], q[j]) <=> i < j) /\ (q[i] = q[j] => i = j)
  BY <1>1, <1>2, AscendingPlaces
<1>. HIDE DEF q, items, page
<1>8. Ascending(items)
  <2>. SUFFICES ASSUME NEW i \in 1..Len(items), NEW j \in 1..Len(items), i < j
                PROVE  Before(items[i], items[j])
    BY DEF Ascending
  <2>. HIDE DEF n, from, to
  <2>1. /\ from + i - 1 \in 1..n /\ from + j - 1 \in 1..n /\ from + i - 1 < from + j - 1
        /\ i \in 1..(to - from + 1) /\ j \in 1..(to - from + 1)
    BY <1>1, <1>4, <1>5
  <2>. QED
    BY <1>5, <1>7, <2>1
<1>9. ~hasMore => \A m \in C : Shows(items, m)
  <2>. SUFFICES ASSUME ~hasMore PROVE items = q
    BY <1>1
  <2>1. from = 1 /\ to = n
    OBVIOUS
  <2>2. \A i \in 1..n : 1 + i - 1 = i
    OBVIOUS
  <2>. HIDE DEF n, from, to
  <2>. QED
    BY <1>1, <1>5, <2>1, <2>2, SeqEqual
<1>10. ASSUME hasMore
       PROVE  items # <<>> /\ last = q[edge] /\ edge \in 1..n
  <2>1. Len(items) \in 1..n
    BY <1>1, <1>4, <1>5, <1>10
  <2>2. items # <<>>
    BY <2>1
  <2>3. edge \in 1..n
    BY <1>1, <1>4, <1>10
  <2>4. CASE options.direction = "forward"
    <3>1. last = items[Len(items)] /\ edge = to
      BY <2>4 DEF Edge
    <3>2. Len(items) \in 1..(to - from + 1) /\ from + Len(items) - 1 = to
      <4>. HIDE DEF n, from, to
      <4>. QED
        BY <1>4, <1>5, <2>1
    <3>. HIDE DEF n, from, to, last, edge
    <3>. QED
      BY <1>5, <2>2, <2>3, <3>1, <3>2
  <2>5. CASE options.direction # "forward"
    <3>1. last = items[1] /\ edge = from
      BY <2>5 DEF Edge
    <3>2. 1 \in 1..(to - from + 1) /\ from + 1 - 1 = from
      <4>. HIDE DEF n, from, to
      <4>. QED
        BY <1>4, <1>5, <2>1
    <3>. HIDE DEF n, from, to, last, edge
    <3>. QED
      BY <1>5, <2>2, <2>3, <3>1, <3>2
  <2>. QED
    BY <2>4, <2>5
<1>11. ASSUME hasMore, page.next # Undefined, NEW m \in C
       PROVE  Shows(items, m) <=> ~Follows(options.direction, page.next, m)
  <2>1. PICK r \in 1..n : q[r] = m
    BY <1>1 DEF Shows
  <2>2. Placed(q[edge])
    BY <1>1, <1>2, <1>10, MetaPlaced
  <2>3. /\ Before(page.next.key, m) <=> Before(q[edge], m)
        /\ Before(m, page.next.key) <=> Before(m, q[edge])
    <3>1. page.next.key = KeyOf(q[edge])
      <4>. HIDE DEF hasMore, last
      <4>. QED
        BY <1>6, <1>10, <1>11
    <3>. HIDE DEF edge
    <3>. QED
      BY <2>2, <3>1, KeyPlace
  <2>4. Shows(items, m) <=> r \in from..to
    <3>. HIDE DEF n, from, to
    <3>1. ASSUME Shows(items, m) PROVE r \in from..to
      <4>1. PICK i \in 1..Len(items) : items[i] = m
        BY <3>1 DEF Shows
      <4>2. i \in 1..(to - from + 1) /\ from + i - 1 \in 1..n /\ from + i - 1 \in from..to
        BY <1>1, <1>4, <1>5
      <4>3. q[from + i - 1] = q[r]
        BY <1>5, <2>1, <4>1, <4>2
      <4>. QED
        BY <1>7, <4>2, <4>3
    <3>2. ASSUME r \in from..to PROVE Shows(items, m)
      <4>1. /\ r - from + 1 \in 1..(to - from + 1) /\ from + (r - from + 1) - 1 = r
            /\ r - from + 1 \in 1..Len(items)
        BY <1>4, <1>5, <3>2
      <4>2. items[r - from + 1] = m
        BY <1>5, <2>1, <4>1
      <4>. QED
        BY <4>1, <4>2 DEF Shows
    <3>. QED
      BY <3>1, <3>2
  <2>5. /\ Before(q[edge], m) <=> edge < r
        /\ Before(m, q[edge]) <=> r < edge
    <3>1. edge \in 1..n
      BY <1>10, <1>11
    <3>. HIDE DEF edge, n
    <3>. QED
      BY <1>7, <2>1, <3>1
  <2>6. CASE options.direction = "forward"
    <3>1. Follows(options.direction, page.next, m) <=> edge < r
      <4>. HIDE DEF edge, n
      <4>. QED
        BY <1>11, <2>3, <2>5, <2>6 DEF Follows
    <3>2. edge = to /\ from = 1
      BY <2>6
    <3>3. (edge < r) <=> ~(r \in from..to)
      BY <1>1, <1>4, <3>2
    <3>. QED
      BY <2>4, <3>1, <3>3
  <2>7. CASE options.direction = "backward"
    <3>1. Follows(options.direction, page.next, m) <=> r < edge
      <4>. HIDE DEF edge, n
      <4>. QED
        BY <1>11, <2>3, <2>5, <2>7 DEF Follows
    <3>2. edge = from /\ to = n
      BY <2>7
    <3>3. (r < edge) <=> ~(r \in from..to)
      BY <1>1, <1>4, <3>2
    <3>. QED
      BY <2>4, <3>1, <3>3
  <2>. QED
    BY <1>3, <2>6, <2>7 DEF Directions
<1>. HIDE DEF hasMore, edge, n, from, to
<1>12. items \in Seq(C) /\ (page.next # Undefined => hasMore /\ items # <<>>)
       /\ (page.previous # Undefined => cursor # Undefined /\ items # <<>>)
  BY <1>5, <1>6
<1>13. page.next = Undefined => \A m \in C : Shows(items, m)
  <2>1. ASSUME hasMore PROVE page.next # Undefined
    <3>1. last \in Metas
      BY <1>1, <1>10, <2>1 DEF Listable
    <3>2. KeyOf(last) \in [at : Nat, session : Sessions]
      BY <3>1 DEF KeyOf, Metas
    <3>3. [direction |-> options.direction, filter |-> options.filter, key |-> KeyOf(last)] \in Cursors
      BY <3>2, LimitDomain DEF Cursors
    <3>. QED
      BY <1>6, <1>10, <2>1, <3>3, ListingAssumption
  <2>. QED
    BY <1>9, <2>1
<1>14. page.next # Undefined => \A m \in C : Shows(items, m) <=> ~Follows(options.direction, page.next, m)
  BY <1>11, <1>12
<1>15. PageShows(page, C, options, cursor)
  BY <1>6, <1>8, <1>12, <1>13, <1>14, Zenon DEF PageShows
<1>. QED
  BY <1>15 DEF page

Pages == [items : Seq(Metas), next : CursorOrNone, previous : CursorOrNone]

LEMMA PageType ==
    ASSUME NEW C, Listable(C), NEW options \in Options, NEW cursor
    PROVE  PageTaken(C, options, cursor) \in Pages
<1>. DEFINE page == PageTaken(C, options, cursor)
<1>1. PageShows(page, C, options, cursor)
  BY PageTakenShows
<1>2. page = [items |-> page.items, next |-> page.next, previous |-> page.previous]
  BY DEF PageTaken, Page
<1>. HIDE DEF page
<1>3. page.items \in Seq(Metas)
  BY <1>1 DEF PageShows, Listable
<1>4. ASSUME NEW direction \in Directions, page.items # <<>>
      PROVE  /\ Opposite(direction) \in Directions
             /\ [direction |-> direction, filter |-> options.filter,
                 key |-> KeyOf(Edge(page.items, direction))] \in Cursors
  <2>1. Edge(page.items, direction) \in Metas
    <3>1. Len(page.items) \in 1..Len(page.items) /\ 1 \in 1..Len(page.items)
      BY <1>3, <1>4
    <3>. QED
      BY <1>3, <3>1 DEF Edge
  <2>2. KeyOf(Edge(page.items, direction)) \in [at : Nat, session : Sessions]
    BY <2>1 DEF KeyOf, Metas
  <2>3. Opposite(direction) \in Directions
    BY DEF Opposite, Directions
  <2>. QED
    BY <2>2, <2>3, LimitDomain DEF Cursors
<1>5. options.direction \in Directions /\ Opposite(options.direction) \in Directions
  BY LimitDomain DEF Opposite, Directions
<1>6. page.next \in CursorOrNone
  BY <1>1, <1>4, <1>5 DEF PageShows, CursorOrNone
<1>7. page.previous \in CursorOrNone
  BY <1>1, <1>4, <1>5 DEF PageShows, CursorOrNone
<1>8. page \in Pages
  BY <1>2, <1>3, <1>6, <1>7 DEF Pages
<1>. QED
  BY <1>8 DEF page

----------------------------------------------------------------------------
(* The records.                                                            *)

StoredRecord == [at : Nat, model : Models]
Stored(recs) ==
    /\ IsFiniteSet(DOMAIN recs) /\ DOMAIN recs \subseteq Keys
    /\ \A k \in DOMAIN recs : recs[k] \in StoredRecord

ReadFrom(recs, key) == [session |-> key[1], key |-> key[2],
                        at |-> recs[key].at, model |-> recs[key].model]
HeldIn(recs) == Collected({ReadFrom(recs, k) : k \in DOMAIN recs})

(* The key a session's record is taken from.                               *)
NewestKey(keys, session) ==
    IF <<session, 2>> \in keys THEN <<session, 2>> ELSE <<session, 1>>
MetaAt(recs, key) == [session |-> key[1], at |-> recs[key].at, model |-> recs[key].model]

LEMMA HeldFromRecords == Held = HeldIn(records) /\ Held' = HeldIn(records')
BY DEF Held, HeldIn, Read, ReadFrom, Collected

LEMMA KeyParts ==
    /\ \A k \in Keys : /\ k = <<k[1], k[2]>> /\ k[1] \in Sessions /\ k[2] \in {1, 2}
                       /\ \A s : k \in KeysOf(s) <=> k[1] = s
    /\ \A s \in Sessions, v \in {1, 2} : <<s, v>> \in Keys
BY DEF Keys, KeysOf

LEMMA HeldIs ==
    ASSUME NEW recs, Stored(recs)
    PROVE  \A m : m \in HeldIn(recs) <=>
                    \E s \in SessionsAt(DOMAIN recs) :
                      m = MetaAt(recs, NewestKey(DOMAIN recs, s))
<1>. DEFINE R == {ReadFrom(recs, k) : k \in DOMAIN recs}
            new(s) == NewestKey(DOMAIN recs, s)
<1>1. ASSUME NEW s \in SessionsAt(DOMAIN recs)
      PROVE  /\ new(s) \in DOMAIN recs /\ new(s)[1] = s
             /\ \A k \in DOMAIN recs : k[1] = s => k[2] <= new(s)[2]
             /\ \A k \in DOMAIN recs : k[1] = s /\ new(s)[2] <= k[2] => k = new(s)
  <2>1. PICK k \in DOMAIN recs : k[1] = s
    BY DEF SessionsAt
  <2>2. k = <<s, 1>> \/ k = <<s, 2>>
    BY <2>1, KeyParts DEF Stored
  <2>3. \A l \in DOMAIN recs : l[1] = s => l = <<s, 1>> \/ l = <<s, 2>>
    BY KeyParts DEF Stored
  <2>. QED
    BY <2>1, <2>2, <2>3 DEF NewestKey
<1>2. \A k \in DOMAIN recs : /\ ReadFrom(recs, k) \in R /\ ReadFrom(recs, k).session = k[1]
                             /\ ReadFrom(recs, k).key = k[2]
                             /\ k[1] \in SessionsAt(DOMAIN recs)
                             /\ k[2] \in {1, 2}
  BY KeyParts DEF ReadFrom, SessionsAt, Stored
<1>3. \A r \in R : \E k \in DOMAIN recs : r = ReadFrom(recs, k)
  OBVIOUS
<1>. HIDE DEF R
<1>4. ASSUME NEW m, m \in HeldIn(recs)
      PROVE  \E s \in SessionsAt(DOMAIN recs) : m = MetaAt(recs, new(s))
  <2>1. PICK r \in R : /\ \A q \in R : q.session = r.session => q.key <= r.key
                       /\ m = [session |-> r.session, at |-> r.at, model |-> r.model]
    BY <1>4 DEF HeldIn, Collected, R
  <2>2. PICK k \in DOMAIN recs : r = ReadFrom(recs, k)
    BY <1>3
  <2>. DEFINE s == k[1]
  <2>3. s \in SessionsAt(DOMAIN recs)
    BY <1>2
  <2>4. new(s)[2] <= k[2]
    BY <1>1, <1>2, <2>1, <2>2, <2>3
  <2>5. k = new(s)
    BY <1>1, <2>3, <2>4
  <2>6. m = MetaAt(recs, k)
    BY <2>1, <2>2 DEF ReadFrom, MetaAt
  <2>. QED
    BY <2>3, <2>5, <2>6
<1>5. ASSUME NEW s \in SessionsAt(DOMAIN recs)
      PROVE  MetaAt(recs, new(s)) \in HeldIn(recs)
  <2>. DEFINE k == new(s)
              r == ReadFrom(recs, k)
  <2>1. k \in DOMAIN recs /\ k[1] = s /\ \A l \in DOMAIN recs : l[1] = s => l[2] <= k[2]
    BY <1>1
  <2>. HIDE DEF k
  <2>2. r \in R /\ r.session = s /\ r.key = k[2]
    BY <1>2, <2>1
  <2>3. \A q \in R : q.session = r.session => q.key <= r.key
    BY <1>2, <1>3, <2>1, <2>2
  <2>4. MetaAt(recs, k) = [session |-> r.session, at |-> r.at, model |-> r.model]
    BY DEF MetaAt, ReadFrom
  <2>. HIDE DEF r
  <2>5. MetaAt(recs, k) \in HeldIn(recs)
    BY <2>2, <2>3, <2>4 DEF HeldIn, Collected, R
  <2>. QED
    BY <2>5 DEF k
<1>. QED
  BY <1>4, <1>5

LEMMA HeldListable ==
    ASSUME NEW recs, Stored(recs)
    PROVE  /\ Listable(HeldIn(recs))
           /\ \A m \in HeldIn(recs) : m.session \in SessionsAt(DOMAIN recs)
<1>. DEFINE new(s) == NewestKey(DOMAIN recs, s)
            H == HeldIn(recs)
            T == SessionsAt(DOMAIN recs)
<1>1. \A m : m \in H <=> \E s \in T : m = MetaAt(recs, new(s))
  BY HeldIs
<1>2. ASSUME NEW s \in T
      PROVE  /\ new(s) \in DOMAIN recs /\ new(s)[1] = s
             /\ MetaAt(recs, new(s)) \in Metas /\ MetaAt(recs, new(s)).session = s
  <2>1. PICK k \in DOMAIN recs : k[1] = s
    BY DEF SessionsAt
  <2>2. k = <<s, 1>> \/ k = <<s, 2>>
    BY <2>1, KeyParts DEF Stored
  <2>3. new(s) \in DOMAIN recs /\ new(s)[1] = s
    BY <2>1, <2>2 DEF NewestKey
  <2>4. s \in Sessions /\ recs[new(s)] \in StoredRecord
    BY <2>1, <2>3, KeyParts DEF Stored
  <2>. HIDE DEF new
  <2>. QED
    BY <2>3, <2>4 DEF MetaAt, Metas, StoredRecord
<1>3. IsFiniteSet(H)
  <2>. DEFINE f == [m \in H |-> new(m.session)]
  <2>1. \A m \in H : m.session \in T /\ m = MetaAt(recs, new(m.session))
    BY <1>1, <1>2
  <2>2. f \in Injection(H, DOMAIN recs)
    <3>. HIDE DEF new, H, T
    <3>1. f \in [H -> DOMAIN recs]
      BY <1>2, <2>1
    <3>2. \A m, n \in H : f[m] = f[n] => m = n
      BY <1>2, <2>1
    <3>. QED
      BY <3>1, <3>2 DEF Injection, IsInjective
  <2>. HIDE DEF f, H
  <2>. QED
    BY <2>2, FS_Injection DEF Stored
<1>. HIDE DEF H, T, new
<1>4. \A m \in H : m \in Metas /\ m.session \in T
  BY <1>1, <1>2
<1>5. \A m, n \in H : m.session = n.session => m = n
  BY <1>1, <1>2
<1>6. Listable(H) /\ \A m \in H : m.session \in T
  BY <1>3, <1>4, <1>5 DEF Listable
<1>. QED
  BY <1>6 DEF H, T

(* What is held of a session depends on its own records only.              *)
LEMMA HeldOfSession ==
    ASSUME NEW recs, NEW new, Stored(recs), Stored(new), NEW s,
           /\ s \in SessionsAt(DOMAIN recs) <=> s \in SessionsAt(DOMAIN new)
           /\ s \in SessionsAt(DOMAIN recs) =>
                /\ NewestKey(DOMAIN recs, s) = NewestKey(DOMAIN new, s)
                /\ recs[NewestKey(DOMAIN recs, s)] = new[NewestKey(DOMAIN recs, s)]
    PROVE  \A m : m.session = s => (m \in HeldIn(recs) <=> m \in HeldIn(new))
<1>1. \A m : m \in HeldIn(recs) <=> \E t \in SessionsAt(DOMAIN recs) : m = MetaAt(recs, NewestKey(DOMAIN recs, t))
  BY HeldIs
<1>2. \A m : m \in HeldIn(new) <=> \E t \in SessionsAt(DOMAIN new) : m = MetaAt(new, NewestKey(DOMAIN new, t))
  BY HeldIs
<1>3. \A r, t : MetaAt(r, NewestKey(DOMAIN r, t)).session = t
  BY DEF MetaAt, NewestKey
<1>4. s \in SessionsAt(DOMAIN recs) =>
        MetaAt(recs, NewestKey(DOMAIN recs, s)) = MetaAt(new, NewestKey(DOMAIN new, s))
  BY DEF MetaAt
<1>. QED
  BY <1>1, <1>2, <1>3, <1>4

----------------------------------------------------------------------------
(* The pages of a walk.  A session lies behind a page when its cursor has  *)
(* not passed it.                                                          *)
Behind(page, as, m) == page.next # Undefined /\ Follows(as.direction, page.next, m)

CursorAt(as, direction, items) ==
    [direction |-> direction, filter |-> as.filter, key |-> KeyOf(Edge(items, direction))]

(* What a page has shown, for those sessions of `held' that nobody wrote:  *)
(* what lies behind the page before it and not behind itself.              *)
PageWalked(pages, i, as, held, untouched) ==
    /\ Ascending(pages[i].items)
    /\ \A j \in 1..Len(pages[i].items) :
         /\ Matches(pages[i].items[j], as.filter)
         /\ pages[i].items[j].session \in untouched => pages[i].items[j] \in held
         /\ \A h \in 1..(i - 1) : Behind(pages[h], as, pages[i].items[j])
    /\ pages[i].next # Undefined =>
         pages[i].items # <<>> /\ pages[i].next = CursorAt(as, as.direction, pages[i].items)
    /\ i < Len(pages) => pages[i].next # Undefined
    /\ pages[i].previous # Undefined =>
         /\ i > 1 /\ pages[i].items # <<>>
         /\ pages[i].previous = CursorAt(as, Opposite(as.direction), pages[i].items)
    /\ \A m \in held :
         m.session \in untouched /\ Matches(m, as.filter) =>
           (Shows(pages[i].items, m) <=> (i > 1 => Behind(pages[i - 1], as, m)) /\ ~Behind(pages[i], as, m))
Walked(pages, as, held, untouched) ==
    \A i \in 1..Len(pages) : PageWalked(pages, i, as, held, untouched)

LEMMA WalkStays ==
    ASSUME NEW pages, NEW as, NEW held, NEW untouched, NEW held1, NEW untouched1,
           Walked(pages, as, held, untouched),
           untouched1 \subseteq untouched,
           \A m : m.session \in untouched1 => (m \in held <=> m \in held1)
    PROVE  Walked(pages, as, held1, untouched1)
<1>. SUFFICES ASSUME NEW i \in 1..Len(pages)
              PROVE  PageWalked(pages, i, as, held1, untouched1)
  BY DEF Walked
<1>1. PageWalked(pages, i, as, held, untouched)
  BY DEF Walked
<1>. QED
  BY <1>1 DEF PageWalked

(* The cursor of a page stands at a session that lies behind the pages     *)
(* before it: what lies behind a page lies behind those before it.         *)
LEMMA BehindBefore ==
    ASSUME NEW pages \in Seq(Pages), NEW as, as.direction \in Directions, NEW held, NEW untouched,
           Walked(pages, as, held, untouched),
           NEW j \in 1..Len(pages), NEW i \in 1..(j - 1), NEW m, Placed(m), Behind(pages[j], as, m)
    PROVE  Behind(pages[i], as, m)
<1>. DEFINE items == pages[j].items
            x == Edge(items, as.direction)
<1>1. /\ PageWalked(pages, j, as, held, untouched) /\ PageWalked(pages, i, as, held, untouched)
      /\ i < Len(pages) /\ pages[j] \in Pages /\ pages[i] \in Pages
  <2>1. i \in 1..Len(pages) /\ i < Len(pages)
    OBVIOUS
  <2>2. pages[j] \in Pages /\ pages[i] \in Pages
    BY <2>1
  <2>. QED
    BY <2>1, <2>2, Zenon DEF Walked
<1>2. items # <<>> /\ pages[j].next = CursorAt(as, as.direction, items) /\ items \in Seq(Metas)
  BY <1>1 DEF PageWalked, Behind, Pages
<1>3. x \in Metas /\ \E l \in 1..Len(items) : x = items[l]
  <2>. HIDE DEF items
  <2>1. Len(items) \in 1..Len(items) /\ 1 \in 1..Len(items)
    BY <1>2
  <2>2. \A l \in 1..Len(items) : items[l] \in Metas
    BY <1>2
  <2>3. \E l \in 1..Len(items) : x = items[l]
    BY <2>1 DEF Edge
  <2>. QED
    BY <2>2, <2>3
<1>4. Behind(pages[i], as, x)
  BY <1>1, <1>3 DEF PageWalked
<1>5. pages[i].next # Undefined /\ Placed(pages[i].next.key) /\ Placed(x)
  <2>1. pages[i].next \in Cursors
    BY <1>1, <1>4 DEF Behind, Pages, CursorOrNone
  <2>2. pages[i].next.key \in [at : Nat, session : Sessions]
    BY <2>1 DEF Cursors
  <2>. QED
    BY <1>3, <1>4, <2>2, MetaPlaced DEF Behind, Placed
<1>6. pages[j].next.key = KeyOf(x) /\ pages[j].next # Undefined
  <2>1. CursorAt(as, as.direction, items).key = KeyOf(x)
    BY DEF CursorAt
  <2>. HIDE DEF items, x
  <2>2. pages[j].next # Undefined
    BY DEF Behind
  <2>. QED
    BY <1>2, <2>1, <2>2
<1>. DEFINE key == pages[i].next.key
<1>. HIDE DEF x, items, key
<1>7. CASE as.direction = "forward"
  <2>1. Before(key, x)
    BY <1>4, <1>7 DEF Behind, Follows, key
  <2>2. Before(x, m)
    BY <1>5, <1>6, <1>7, KeyPlace DEF Behind, Follows
  <2>3. Before(key, m)
    BY <1>5, <2>1, <2>2, BeforeTransitive DEF key
  <2>. QED
    BY <1>5, <1>7, <2>3 DEF Behind, Follows, key
<1>8. CASE as.direction = "backward"
  <2>1. Before(x, key)
    BY <1>4, <1>8 DEF Behind, Follows, key
  <2>2. Before(m, x)
    BY <1>5, <1>6, <1>8, KeyPlace DEF Behind, Follows
  <2>3. Before(m, key)
    BY <1>5, <2>1, <2>2, BeforeTransitive DEF key
  <2>. QED
    BY <1>5, <1>8, <2>3 DEF Behind, Follows, key
<1>. QED
  BY <1>7, <1>8 DEF Directions

(* The page that is shown next.                                            *)
LEMMA WalkGrows ==
    ASSUME NEW pages \in Seq(Pages), NEW as, NEW held, NEW untouched,
           NEW S, Listable(S), NEW options \in Options, NEW cursor,
           Walked(pages, as, held, untouched),
           \A m : m.session \in untouched => (m \in held <=> m \in S),
           pages = <<>> => cursor = Undefined,
           pages # <<>> => /\ cursor = pages[Len(pages)].next /\ cursor # Undefined
                           /\ options.direction = as.direction /\ options.filter = as.filter
    PROVE  LET page == PageTaken(Candidates(S, options, cursor), options, cursor)
           IN  Walked(Append(pages, page), options, held, untouched)
<1>. DEFINE C == Candidates(S, options, cursor)
            page == PageTaken(C, options, cursor)
            grown == Append(pages, page)
            n == Len(pages)
<1>1. PageShows(page, C, options, cursor)
  BY CandidatesListable, PageTakenShows
<1>2. \A m : m \in C <=> m \in S /\ Matches(m, options.filter) /\ Follows(options.direction, cursor, m)
  BY DEF Candidates
<1>. HIDE DEF page, C
<1>3. /\ n \in Nat /\ Len(grown) = n + 1 /\ grown[n + 1] = page
      /\ \A i \in 1..n : grown[i] = pages[i]
      /\ n > 0 => pages # <<>>
  OBVIOUS
<1>. HIDE DEF grown
<1>4. ASSUME NEW m
      PROVE  (n > 0 => Behind(pages[n], options, m)) <=> Follows(options.direction, cursor, m)
  <2>1. CASE n > 0
    BY <1>3, <2>1 DEF Behind
  <2>2. CASE ~(n > 0)
    BY <1>3, <2>2 DEF Follows
  <2>. QED
    BY <2>1, <2>2
<1>5. ASSUME NEW i \in 1..n
      PROVE  /\ as.direction = options.direction /\ as.filter = options.filter
             /\ \A p, m : Behind(p, as, m) <=> Behind(p, options, m)
             /\ \A d, q : CursorAt(as, d, q) = CursorAt(options, d, q)
  <2>1. pages # <<>>
    BY <1>3
  <2>2. options.direction = as.direction /\ options.filter = as.filter
    BY <2>1
  <2>. QED
    BY <2>2, Zenon DEF Behind, CursorAt
<1>6. ASSUME NEW i \in 1..n PROVE PageWalked(grown, i, options, held, untouched)
  <2>1. PageWalked(pages, i, as, held, untouched)
    BY DEF Walked
  <2>2. /\ grown[i] = pages[i] /\ (i > 1 => grown[i - 1] = pages[i - 1])
        /\ \A h \in 1..(i - 1) : grown[h] = pages[h]
    BY <1>3
  <2>3. i < Len(grown) => pages[i].next # Undefined
    <3>1. i < n \/ i = n
      BY <1>3
    <3>2. CASE i < n
      BY <2>1, <3>2 DEF PageWalked
    <3>3. CASE i = n
      <4>1. pages # <<>>
        BY <1>3
      <4>. QED
        BY <3>3, <4>1
    <3>. QED
      BY <3>1, <3>2, <3>3
  <2>4. /\ as.direction = options.direction /\ as.filter = options.filter
        /\ \A p, m : Behind(p, as, m) <=> Behind(p, options, m)
        /\ \A d, q : CursorAt(as, d, q) = CursorAt(options, d, q)
    BY <1>5
  <2>. DEFINE page1 == pages[i]
              page0 == pages[i - 1]
  <2>5. /\ Ascending(page1.items)
        /\ \A j \in 1..Len(page1.items) :
             /\ Matches(page1.items[j], as.filter)
             /\ page1.items[j].session \in untouched => page1.items[j] \in held
             /\ \A h \in 1..(i - 1) : Behind(pages[h], as, page1.items[j])
        /\ page1.next # Undefined =>
             page1.items # <<>> /\ page1.next = CursorAt(as, as.direction, page1.items)
        /\ page1.previous # Undefined =>
             /\ i > 1 /\ page1.items # <<>>
             /\ page1.previous = CursorAt(as, Opposite(as.direction), page1.items)
        /\ \A m \in held :
             m.session \in untouched /\ Matches(m, as.filter) =>
               (Shows(page1.items, m) <=> (i > 1 => Behind(page0, as, m)) /\ ~Behind(page1, as, m))
    BY <2>1, Zenon DEF PageWalked
  <2>. HIDE DEF page1, page0
  <2>6. grown[i] = page1 /\ (i > 1 => grown[i - 1] = page0)
    BY <2>2 DEF page1, page0
  <2>7. \A j \in 1..Len(page1.items), h \in 1..(i - 1) : Behind(grown[h], options, page1.items[j])
    BY <2>2, <2>4, <2>5
  <2>8. \A m \in held :
          m.session \in untouched /\ Matches(m, options.filter) =>
            (Shows(page1.items, m) <=>
               (i > 1 => Behind(grown[i - 1], options, m)) /\ ~Behind(page1, options, m))
    BY <2>4, <2>5, <2>6
  <2>9. i < Len(grown) => page1.next # Undefined
    BY <2>3 DEF page1
  <2>10. PageWalked(grown, i, options, held, untouched) <=>
      /\ Ascending(page1.items)
      /\ \A j \in 1..Len(page1.items) :
           /\ Matches(page1.items[j], options.filter)
           /\ page1.items[j].session \in untouched => page1.items[j] \in held
           /\ \A h \in 1..(i - 1) : Behind(grown[h], options, page1.items[j])
      /\ page1.next # Undefined =>
           page1.items # <<>> /\ page1.next = CursorAt(options, options.direction, page1.items)
      /\ i < Len(grown) => page1.next # Undefined
      /\ page1.previous # Undefined =>
           /\ i > 1 /\ page1.items # <<>>
           /\ page1.previous = CursorAt(options, Opposite(options.direction), page1.items)
      /\ \A m \in held :
           m.session \in untouched /\ Matches(m, options.filter) =>
             (Shows(page1.items, m) <=>
                (i > 1 => Behind(grown[i - 1], options, m)) /\ ~Behind(page1, options, m))
    BY <2>6 DEF PageWalked
  <2>. QED
    BY <2>4, <2>5, <2>7, <2>8, <2>9, <2>10
<1>. DEFINE k == n + 1
<1>7. PageWalked(grown, k, options, held, untouched)
  <2>1. /\ grown[k] = page /\ k - 1 = n /\ (k > 1 <=> n > 0) /\ ~(k < Len(grown))
        /\ k > 1 => grown[k - 1] = pages[n]
    BY <1>3
  <2>. HIDE DEF k, n
  <2>2. \A x : Shows(page.items, x) => x \in C
    BY <1>1 DEF PageShows, Shows
  <2>3. \A j \in 1..Len(page.items) : page.items[j] \in C
    BY <1>1 DEF PageShows
  <2>4. \A m : (k > 1 => Behind(grown[k - 1], options, m)) <=> Follows(options.direction, cursor, m)
    BY <1>4, <2>1
  <2>5. \A j \in 1..Len(page.items) :
           /\ Matches(page.items[j], options.filter)
           /\ page.items[j].session \in untouched => page.items[j] \in held
           /\ \A h \in 1..(k - 1) : Behind(grown[h], options, page.items[j])
    <3>. SUFFICES ASSUME NEW j \in 1..Len(page.items)
                  PROVE  /\ Matches(page.items[j], options.filter)
                         /\ page.items[j].session \in untouched => page.items[j] \in held
                         /\ \A h \in 1..(k - 1) : Behind(grown[h], options, page.items[j])
      OBVIOUS
    <3>. DEFINE x == page.items[j]
    <3>1. x \in C
      BY <2>3
    <3>. HIDE DEF x
    <3>2. Matches(x, options.filter) /\ (x.session \in untouched => x \in held) /\ Placed(x)
      BY <1>2, <3>1, MetaPlaced DEF Listable
    <3>3. ASSUME NEW h \in 1..(k - 1) PROVE Behind(grown[h], options, x)
      <4>1. h \in 1..n /\ n \in 1..n /\ n \in 1..Len(pages)
        BY <1>3, <2>1, <3>3 DEF n
      <4>2. Behind(grown[k - 1], options, x) /\ grown[k - 1] = pages[n] /\ grown[h] = pages[h]
        BY <1>2, <1>3, <2>1, <2>4, <3>1, <4>1
      <4>3. Behind(pages[n], as, x) /\ as.direction \in Directions
        BY <1>5, <4>1, <4>2, LimitDomain
      <4>4. CASE h = n
        BY <4>2, <4>4
      <4>5. CASE h \in 1..(n - 1)
        BY <1>5, <3>2, <4>1, <4>2, <4>3, <4>5, BehindBefore
      <4>. QED
        BY <1>3, <4>1, <4>4, <4>5
    <3>. QED
      BY <3>2, <3>3 DEF x
  <2>6. page.next # Undefined =>
           page.items # <<>> /\ page.next = CursorAt(options, options.direction, page.items)
    BY <1>1 DEF PageShows, CursorAt
  <2>7. page.previous # Undefined =>
           /\ k > 1 /\ page.items # <<>>
           /\ page.previous = CursorAt(options, Opposite(options.direction), page.items)
    <3>1. k > 1 \/ cursor = Undefined
      BY <1>3, <2>1 DEF n
    <3>. QED
      BY <1>1, <3>1 DEF PageShows, CursorAt
  <2>8. ASSUME NEW m \in held, m.session \in untouched, Matches(m, options.filter)
        PROVE  Shows(page.items, m) <=>
                 Follows(options.direction, cursor, m) /\ ~Behind(page, options, m)
    <3>1. m \in C <=> Follows(options.direction, cursor, m)
      BY <1>2, <2>8
    <3>2. m \in C => (Shows(page.items, m) <=> ~Behind(page, options, m))
      BY <1>1 DEF PageShows, Behind
    <3>. QED
      BY <2>2, <3>1, <3>2
  <2>9. \A m \in held :
           m.session \in untouched /\ Matches(m, options.filter) =>
             (Shows(page.items, m) <=>
                (k > 1 => Behind(grown[k - 1], options, m)) /\ ~Behind(page, options, m))
    BY <2>4, <2>8
  <2>10. Ascending(page.items)
    BY <1>1 DEF PageShows
  <2>11. page = grown[k] /\ ~(k < Len(grown))
    BY <2>1
  <2>. QED
    BY <2>5, <2>6, <2>7, <2>9, <2>10, <2>11 DEF PageWalked
<1>8. \A i \in 1..Len(grown) : PageWalked(grown, i, options, held, untouched)
  <2>1. \A i \in 1..Len(grown) : i \in 1..n \/ i = k
    BY <1>3
  <2>. HIDE DEF n, k
  <2>. QED
    BY <1>6, <1>7, <2>1
<1>9. Walked(grown, options, held, untouched)
  BY <1>8 DEF Walked
<1>. QED
  BY <1>9 DEF grown, page, C

----------------------------------------------------------------------------
(* What follows for the sessions that nobody wrote.                        *)

PlacesIn(pages, session) ==
    {p \in UNION {{i} \X DOMAIN pages[i].items : i \in DOMAIN pages} :
       pages[p[1]].items[p[2]].session = session}
KeptOf(held, untouched, as) ==
    {m \in held : m.session \in untouched /\ Matches(m, as.filter)}

(* The session m at place p: on a page whose cursor has passed it, behind   *)
(* all the pages before.                                                   *)
ShownAt(pages, as, m, p) ==
    /\ p = <<p[1], p[2]>>
    /\ p[1] \in 1..Len(pages) /\ p[2] \in 1..Len(pages[p[1]].items)
    /\ pages[p[1]].items[p[2]] = m
    /\ pages[p[1]].items \in Seq(Metas) /\ Ascending(pages[p[1]].items)
    /\ ~Behind(pages[p[1]], as, m)
    /\ \A h \in 1..(p[1] - 1) : Behind(pages[h], as, m)

(* A place shows the session as it is held, at a page whose cursor has     *)
(* passed it, behind all the pages before.                                 *)
LEMMA PlaceShows ==
    ASSUME NEW pages \in Seq(Pages), NEW as, as.direction \in Directions, NEW held, Listable(held),
           NEW untouched, Walked(pages, as, held, untouched),
           NEW m \in KeptOf(held, untouched, as), NEW p \in PlacesIn(pages, m.session)
    PROVE  ShownAt(pages, as, m, p)
<1>1. PICK i \in DOMAIN pages : p \in {i} \X DOMAIN pages[i].items
  BY DEF PlacesIn
<1>2. PICK j \in DOMAIN pages[i].items : p = <<i, j>>
  BY <1>1
<1>3. i \in 1..Len(pages) /\ pages[i] \in Pages
  OBVIOUS
<1>4. pages[i].items \in Seq(Metas)
  BY <1>3 DEF Pages
<1>5. j \in 1..Len(pages[i].items)
  BY <1>4
<1>6. p[1] = i /\ p[2] = j /\ p = <<p[1], p[2]>>
  BY <1>2
<1>7. pages[i].items[j].session = m.session
  BY <1>6 DEF PlacesIn
<1>8. m \in held /\ m.session \in untouched /\ Matches(m, as.filter)
  BY DEF KeptOf
<1>9. PageWalked(pages, i, as, held, untouched)
  BY <1>3 DEF Walked
<1>10. pages[i].items[j] \in held
  BY <1>5, <1>7, <1>8, <1>9 DEF PageWalked
<1>11. pages[i].items[j] = m
  BY <1>7, <1>8, <1>10 DEF Listable
<1>12. Shows(pages[i].items, m)
  BY <1>5, <1>11 DEF Shows
<1>13. ~Behind(pages[i], as, m)
  BY <1>8, <1>9, <1>12 DEF PageWalked
<1>14. \A h \in 1..(i - 1) : Behind(pages[h], as, m)
  BY <1>5, <1>9, <1>11 DEF PageWalked
<1>15. Ascending(pages[i].items)
  BY <1>9 DEF PageWalked
<1>. QED
  BY <1>3, <1>4, <1>5, <1>6, <1>11, <1>13, <1>14, <1>15 DEF ShownAt

(* Of the pages whose cursor has passed a session there is a first.        *)
LEMMA FirstPassed ==
    ASSUME NEW pages \in Seq(Pages), NEW as, NEW m, NEW n \in 1..Len(pages), ~Behind(pages[n], as, m)
    PROVE  \E i \in 1..Len(pages) : ~Behind(pages[i], as, m) /\ \A h \in 1..(i - 1) : Behind(pages[h], as, m)
<1>. DEFINE T == {i \in 1..Len(pages) : ~Behind(pages[i], as, m)}
<1>1. T # {} /\ T \subseteq Nat
  <2>1. n \in T
    OBVIOUS
  <2>2. \A i \in 1..Len(pages) : i \in Nat
    OBVIOUS
  <2>. QED
    BY <2>1, <2>2
<1>2. PICK i \in T : \A h \in T : <<h, i>> \notin OpToRel(<, Nat)
  BY <1>1, NatLessThanWellFounded, WFMin
<1>3. \A h \in T : ~(h < i)
  BY <1>1, <1>2 DEF OpToRel
<1>4. \A h \in 1..(i - 1) : h \in 1..Len(pages) /\ h < i
  OBVIOUS
<1>5. \A h \in 1..(i - 1) : Behind(pages[h], as, m)
  BY <1>3, <1>4
<1>. QED
  BY <1>5

(* One place for a session that the walk has passed, none before.          *)
LEMMA PlacesCounted ==
    ASSUME NEW pages \in Seq(Pages), pages # <<>>, NEW as, as.direction \in Directions,
           NEW held, Listable(held), NEW untouched, Walked(pages, as, held, untouched),
           NEW m \in KeptOf(held, untouched, as)
    PROVE  Cardinality(PlacesIn(pages, m.session)) = IF Behind(pages[Len(pages)], as, m) THEN 0 ELSE 1
<1>. DEFINE places == PlacesIn(pages, m.session)
            n == Len(pages)
<1>0. n \in Nat /\ n \in 1..n
  OBVIOUS
<1>1. \A p \in places : /\ p = <<p[1], p[2]>>
                        /\ p[1] \in 1..Len(pages) /\ p[2] \in 1..Len(pages[p[1]].items)
                        /\ pages[p[1]].items[p[2]] = m
                        /\ pages[p[1]].items \in Seq(Metas) /\ Ascending(pages[p[1]].items)
                        /\ ~Behind(pages[p[1]], as, m)
                        /\ \A h \in 1..(p[1] - 1) : Behind(pages[h], as, m)
  <2>1. \A p \in places : ShownAt(pages, as, m, p)
    BY PlaceShows
  <2>. HIDE DEF places
  <2>. QED
    BY <2>1 DEF ShownAt
<1>2. m \in held /\ m.session \in untouched /\ Matches(m, as.filter) /\ Placed(m)
  BY MetaPlaced DEF KeptOf, Listable
<1>3. CASE Behind(pages[n], as, m)
  <2>1. ASSUME NEW p \in places PROVE FALSE
    <3>1. p[1] \in 1..n /\ ~Behind(pages[p[1]], as, m)
      BY <1>1
    <3>. DEFINE a == p[1]
    <3>2. a \in 1..(n - 1)
      <4>1. a \in 1..n /\ a # n
        BY <1>3, <3>1
      <4>. HIDE DEF a, n
      <4>. QED
        BY <1>0, <4>1
    <3>3. Behind(pages[p[1]], as, m)
      BY <1>0, <1>2, <1>3, <3>2, BehindBefore
    <3>. QED
      BY <3>1, <3>3
  <2>2. places = {}
    BY <2>1
  <2>. QED
    BY <1>3, <2>2, FS_EmptySet
<1>4. CASE ~Behind(pages[n], as, m)
  <2>1. PICK i \in 1..n : ~Behind(pages[i], as, m) /\ \A h \in 1..(i - 1) : Behind(pages[h], as, m)
    BY <1>0, <1>4, FirstPassed
  <2>2. PageWalked(pages, i, as, held, untouched)
    BY DEF Walked
  <2>3. Shows(pages[i].items, m)
    <3>1. i > 1 => i - 1 \in 1..(i - 1)
      OBVIOUS
    <3>. QED
      BY <1>2, <2>1, <2>2, <3>1 DEF PageWalked
  <2>4. PICK j \in 1..Len(pages[i].items) : pages[i].items[j] = m
    BY <2>3 DEF Shows
  <2>5. <<i, j>> \in places
    <3>1. i \in DOMAIN pages /\ pages[i] \in Pages
      OBVIOUS
    <3>2. j \in DOMAIN pages[i].items
      BY <3>1 DEF Pages
    <3>3. <<i, j>> \in {i} \X DOMAIN pages[i].items /\ <<i, j>>[1] = i /\ <<i, j>>[2] = j
      BY <3>2
    <3>4. <<i, j>> \in UNION {{l} \X DOMAIN pages[l].items : l \in DOMAIN pages}
      BY <3>1, <3>3
    <3>. QED
      BY <2>4, <3>3, <3>4 DEF PlacesIn
  <2>6. ASSUME NEW p \in places PROVE p = <<i, j>>
    <3>. HIDE DEF places, n
    <3>1. /\ p = <<p[1], p[2]>> /\ p[1] \in 1..n /\ p[2] \in 1..Len(pages[p[1]].items)
          /\ pages[p[1]].items[p[2]] = m
          /\ pages[p[1]].items \in Seq(Metas) /\ Ascending(pages[p[1]].items)
          /\ ~Behind(pages[p[1]], as, m)
          /\ \A h \in 1..(p[1] - 1) : Behind(pages[h], as, m)
      BY <1>1 DEF n
    <3>2. p[1] = i
      <4>1. ~(p[1] \in 1..(i - 1)) /\ ~(i \in 1..(p[1] - 1))
        BY <2>1, <3>1
      <4>. QED
        BY <1>0, <3>1, <4>1
    <3>3. p[2] = j
      BY <2>4, <3>1, <3>2, AscendingPlaces
    <3>. QED
      BY <3>1, <3>2, <3>3
  <2>7. places = {<<i, j>>}
    BY <2>5, <2>6
  <2>8. Cardinality({<<i, j>>}) = 1
    BY FS_Singleton
  <2>. QED
    BY <1>4, <2>7, <2>8
<1>. QED
  BY <1>3, <1>4

(* And the places follow the order of the listing.                         *)
LEMMA PlacesOrdered ==
    ASSUME NEW pages \in Seq(Pages), NEW as, as.direction \in Directions, NEW held, Listable(held),
           NEW untouched, Walked(pages, as, held, untouched),
           NEW m \in KeptOf(held, untouched, as), NEW n \in KeptOf(held, untouched, as), Before(m, n),
           NEW p \in PlacesIn(pages, m.session), NEW q \in PlacesIn(pages, n.session)
    PROVE  IF p[1] = q[1] THEN p[2] < q[2]
           ELSE IF as.direction = "forward" THEN p[1] < q[1] ELSE q[1] < p[1]
<1>1. /\ p[1] \in 1..Len(pages) /\ p[2] \in 1..Len(pages[p[1]].items)
      /\ pages[p[1]].items[p[2]] = m
      /\ pages[p[1]].items \in Seq(Metas) /\ Ascending(pages[p[1]].items)
      /\ ~Behind(pages[p[1]], as, m)
      /\ \A h \in 1..(p[1] - 1) : Behind(pages[h], as, m)
  <2>1. ShownAt(pages, as, m, p)
    BY PlaceShows
  <2>. QED
    BY <2>1 DEF ShownAt
<1>2. /\ q[1] \in 1..Len(pages) /\ q[2] \in 1..Len(pages[q[1]].items)
      /\ pages[q[1]].items[q[2]] = n
      /\ ~Behind(pages[q[1]], as, n)
      /\ \A h \in 1..(q[1] - 1) : Behind(pages[h], as, n)
  <2>1. ShownAt(pages, as, n, q)
    BY PlaceShows
  <2>. QED
    BY <2>1 DEF ShownAt
<1>3. Placed(m) /\ Placed(n)
  BY MetaPlaced DEF KeptOf, Listable
<1>4. \A i \in 1..Len(pages) : pages[i].next # Undefined => Placed(pages[i].next.key)
  <2>. SUFFICES ASSUME NEW i \in 1..Len(pages), pages[i].next # Undefined
                PROVE  Placed(pages[i].next.key)
    OBVIOUS
  <2>0. pages[i] \in Pages
    OBVIOUS
  <2>1. pages[i].next \in Cursors
    BY <2>0 DEF Pages, CursorOrNone
  <2>2. pages[i].next.key \in [at : Nat, session : Sessions]
    BY <2>1 DEF Cursors
  <2>. QED
    BY <2>2 DEF Placed
<1>5. CASE p[1] = q[1]
  BY <1>1, <1>2, <1>5, AscendingPlaces
<1>6. CASE p[1] # q[1] /\ as.direction = "forward"
  <2>1. ASSUME q[1] < p[1] PROVE FALSE
    <3>. DEFINE c == pages[q[1]].next
    <3>. DEFINE a == p[1]
                b == q[1]
    <3>0. a \in Nat /\ b \in Nat /\ 1 <= a /\ 1 <= b
      BY <1>1, <1>2
    <3>9. b \in 1..(a - 1)
      <4>. HIDE DEF a, b
      <4>. QED
        BY <2>1, <3>0 DEF a, b
    <3>1. Behind(pages[q[1]], as, m) /\ ~Behind(pages[q[1]], as, n)
      BY <1>1, <1>2, <3>9, Zenon DEF a, b
    <3>2. c # Undefined /\ Before(c.key, m) /\ Placed(c.key)
      BY <1>2, <1>4, <1>6, <3>1 DEF Behind, Follows
    <3>3. Before(c.key, n)
      BY <1>3, <3>2, BeforeTransitive
    <3>. QED
      BY <1>6, <3>1, <3>2, <3>3 DEF Behind, Follows
  <2>. QED
    BY <1>1, <1>2, <1>6, <2>1
<1>7. CASE p[1] # q[1] /\ as.direction = "backward"
  <2>1. ASSUME p[1] < q[1] PROVE FALSE
    <3>. DEFINE c == pages[p[1]].next
    <3>. DEFINE a == p[1]
                b == q[1]
    <3>0. a \in Nat /\ b \in Nat /\ 1 <= a /\ 1 <= b
      BY <1>1, <1>2
    <3>9. a \in 1..(b - 1)
      <4>. HIDE DEF a, b
      <4>. QED
        BY <2>1, <3>0 DEF a, b
    <3>1. Behind(pages[p[1]], as, n) /\ ~Behind(pages[p[1]], as, m)
      BY <1>1, <1>2, <3>9, Zenon DEF a, b
    <3>2. c # Undefined /\ Before(n, c.key) /\ Placed(c.key)
      BY <1>1, <1>4, <1>7, <3>1 DEF Behind, Follows
    <3>3. Before(m, c.key)
      BY <1>3, <3>2, BeforeTransitive
    <3>. QED
      BY <1>7, <3>1, <3>2, <3>3 DEF Behind, Follows
  <2>. QED
    BY <1>1, <1>2, <1>7, <2>1
<1>. QED
  BY <1>5, <1>6, <1>7 DEF Directions

(* An ascending list has as many sessions before a place as places.        *)
LEMMA FirstOnes ==
    ASSUME NEW q \in Seq(Metas), Ascending(q), NEW n \in 0..Len(q)
    PROVE  IsFiniteSet({q[i] : i \in 1..n}) /\ Cardinality({q[i] : i \in 1..n}) = n
<1>. DEFINE T == {q[i] : i \in 1..n}
            f == [i \in 1..n |-> q[i]]
<1>1. \A i, j \in 1..n : q[i] = q[j] => i = j
  BY AscendingPlaces
<1>2. f \in Surjection(1..n, T)
  BY DEF Surjection
<1>3. f \in Injection(1..n, T)
  BY <1>1 DEF Injection, IsInjective
<1>4. IsFiniteSet(1..n) /\ Cardinality(1..n) = n
  <2>1. n \in Int /\ 1 \in Int /\ (IF 1 > n THEN 0 ELSE n - 1 + 1) = n
    OBVIOUS
  <2>2. IsFiniteSet(1..n) /\ Cardinality(1..n) = IF 1 > n THEN 0 ELSE n - 1 + 1
    BY <2>1, FS_Interval
  <2>. QED
    BY <2>1, <2>2
<1>. HIDE DEF T, f
<1>5. IsFiniteSet(T) /\ Cardinality(T) = Cardinality(1..n)
  BY <1>2, <1>3, <1>4, FS_Surjection
<1>. QED
  BY <1>4, <1>5 DEF T

(* A list that ends the candidates of a backward page, or starts those of  *)
(* a forward page, is the page of its length.                              *)
LEMMA TakesPiece ==
    ASSUME NEW C, Listable(C), NEW q \in Seq(C), Ascending(q),
           NEW options \in Options, options.limit = Len(q),
           \A m \in C, j \in 1..Len(q) :
             ~Shows(q, m) => IF options.direction = "forward" THEN Before(q[j], m) ELSE Before(m, q[j])
    PROVE  Taken(C, options) = q
<1>. DEFINE R == {q[i] : i \in 1..Len(q)}
            D == {m \in C : ~Shows(q, m)}
            L == Len(q)
            d == Cardinality(D)
            s == Sorted(C)
            forward == options.direction = "forward"
<1>1. q \in Seq(Metas) /\ L \in Nat /\ R \in SUBSET C /\ D \in SUBSET C
  BY DEF Listable
<1>2. \A i, j \in 1..L : (Before(q[i], q[j]) <=> i < j) /\ (q[i] = q[j] => i = j)
  BY <1>1, AscendingPlaces
<1>3. \A m \in C : m \in R <=> Shows(q, m)
  BY DEF Shows
<1>4. IsFiniteSet(D) /\ d \in Nat
  BY <1>1, FS_Subset, FS_CardinalityType DEF Listable
<1>5. Cardinality(C) = d + L
  <2>1. IsFiniteSet(R) /\ Cardinality(R) = L
    <3>1. L \in 0..Len(q)
      OBVIOUS
    <3>. HIDE DEF L
    <3>2. IsFiniteSet({q[i] : i \in 1..L}) /\ Cardinality({q[i] : i \in 1..L}) = L
      BY <1>1, <3>1, FirstOnes
    <3>. QED
      BY <3>2 DEF L
  <2>2. C = D \cup R /\ D \cap R = {}
    BY <1>1, <1>3
  <2>3. Cardinality(D \cup R) = d + L - Cardinality(D \cap R)
    BY <1>4, <2>1, FS_Union
  <2>4. Cardinality(D \cap R) = 0
    BY <2>2, FS_EmptySet
  <2>. HIDE DEF D, R, L, d
  <2>. QED
    BY <1>1, <1>4, <2>2, <2>3, <2>4
<1>6. ASSUME NEW j \in 1..L
      PROVE  Rank(C, q[j]) = IF forward THEN j - 1 ELSE d + j - 1
  <2>. DEFINE F == {q[i] : i \in 1..(j - 1)}
              k == j - 1
  <2>1. q[j] \in C /\ q[j] \in Metas
    BY <1>1
  <2>2. k \in 0..Len(q)
    BY <1>1
  <2>3. IsFiniteSet(F) /\ Cardinality(F) = k
    <3>. HIDE DEF k
    <3>1. IsFiniteSet({q[i] : i \in 1..k}) /\ Cardinality({q[i] : i \in 1..k}) = k
      BY <1>1, <2>2, FirstOnes
    <3>. QED
      BY <3>1 DEF k
  <2>4. \A m \in R : m \in Ahead(C, q[j]) <=> m \in F
    BY <1>1, <1>2 DEF Ahead
  <2>5. F \subseteq R
    BY <1>1
  <2>6. \A m \in D : m \in Ahead(C, q[j]) <=> ~forward
    <3>. SUFFICES ASSUME NEW m \in D PROVE Before(m, q[j]) <=> ~forward
      BY DEF Ahead
    <3>. DEFINE x == q[j]
    <3>1. IF forward THEN Before(x, m) ELSE Before(m, x)
      BY <1>6
    <3>2. Placed(x) /\ Placed(m)
      BY <1>1, <2>1, MetaPlaced DEF Listable
    <3>. HIDE DEF x
    <3>3. Before(x, m) => ~Before(m, x)
      BY <3>2, BeforeAsymmetric
    <3>4. Before(m, x) <=> ~forward
      BY <3>1, <3>3
    <3>. QED
      BY <3>4 DEF x
  <2>7. \A m \in C : m \in D \/ m \in R
    BY <1>3
  <2>8. Ahead(C, q[j]) \subseteq C
    BY DEF Ahead
  <2>. DEFINE A == Ahead(C, q[j])
  <2>9. CASE forward
    <3>. HIDE DEF A, D, R, F
    <3>1. A = F
      BY <1>1, <2>4, <2>5, <2>6, <2>7, <2>8, <2>9 DEF A
    <3>. QED
      BY <2>3, <2>9, <3>1 DEF Rank, A
  <2>10. CASE ~forward
    <3>. HIDE DEF A, D, R, F
    <3>1. A = D \cup F
      BY <1>1, <2>4, <2>5, <2>6, <2>7, <2>8, <2>10 DEF A
    <3>2. D \cap F = {}
      BY <1>3, <2>5 DEF D, R
    <3>3. Cardinality(D \cup F) = d + k - Cardinality(D \cap F)
      BY <1>4, <2>3, FS_Union
    <3>4. Cardinality(D \cap F) = 0
      BY <3>2, FS_EmptySet
    <3>5. Cardinality(A) = d + j - 1
      <4>1. k = j - 1 /\ k \in Nat
        BY <2>2
      <4>. HIDE DEF k, d
      <4>. QED
        BY <1>4, <3>1, <3>3, <3>4, <4>1
    <3>. QED
      BY <2>10, <3>5 DEF Rank, A
  <2>. QED
    BY <2>9, <2>10
<1>7. /\ s \in Seq(C) /\ Len(s) = Cardinality(C)
      /\ \A m \in C : s[Rank(C, m) + 1] = m
  BY SortedLists
<1>8. ASSUME NEW j \in 1..L
      PROVE  s[IF forward THEN j ELSE d + j] = q[j]
  <2>1. s[Rank(C, q[j]) + 1] = q[j]
    BY <1>7
  <2>2. Rank(C, q[j]) + 1 = IF forward THEN j ELSE d + j
    <3>. HIDE DEF d, L, forward
    <3>. QED
      BY <1>4, <1>6
  <2>. QED
    BY <2>1, <2>2
<1>. HIDE DEF s, d, L, D, R
<1>9. Len(q) = L /\ options.limit = L
  BY DEF L
<1>10. CASE Cardinality(C) <= L
  <2>1. d = 0 /\ Cardinality(C) = L
    BY <1>1, <1>4, <1>5, <1>10
  <2>2. \A j \in 1..L : s[j] = q[j]
    BY <1>8, <2>1
  <2>3. s = q
    BY <1>7, <1>9, <2>1, <2>2, SeqEqual
  <2>. QED
    BY <1>9, <1>10, <2>3 DEF Taken, s
<1>11. CASE ~(Cardinality(C) <= L)
  <2>. DEFINE a == IF forward THEN 1 ELSE d + 1
              b == IF forward THEN L ELSE d + L
              piece == SubSeq(s, a, b)
  <2>1. Taken(C, options) = piece
    <3>1. Taken(C, options) = IF forward THEN SubSeq(s, 1, L) ELSE SubSeq(s, Cardinality(C) - L + 1, Cardinality(C))
      BY <1>9, <1>11 DEF Taken, s
    <3>2. Cardinality(C) - L + 1 = d + 1
      BY <1>1, <1>4, <1>5
    <3>. QED
      BY <1>5, <3>1, <3>2
  <2>2. a \in Nat \ {0} /\ b \in Nat /\ b <= Len(s) /\ a <= b + 1 /\ b - a + 1 = L
    BY <1>1, <1>4, <1>5, <1>7
  <2>3. \A j \in 1..L : a + j - 1 = IF forward THEN j ELSE d + j
    BY <1>4
  <2>. HIDE DEF a, b
  <2>4. piece \in Seq(C) /\ Len(piece) = b - a + 1 /\ \A i \in 1..(b - a + 1) : piece[i] = s[a + i - 1]
    BY <1>7, <2>2, Slice
  <2>. HIDE DEF piece, forward
  <2>5. \A j \in 1..L : piece[j] = q[j]
    BY <1>8, <2>2, <2>3, <2>4
  <2>6. piece = q
    BY <1>9, <2>2, <2>4, <2>5, SeqEqual
  <2>. QED
    BY <2>1, <2>6
<1>. QED
  BY <1>10, <1>11

(* Stepping back over sessions that did not change shows the page before.  *)
LEMMA StepsBack ==
    ASSUME NEW pages \in Seq(Pages), pages # <<>>, NEW as \in Options, NEW held, Listable(held),
           NEW untouched, Walked(pages, as, held, untouched),
           \A m \in held : m.session \in untouched,
           \A i \in 1..Len(pages) : \A j \in 1..Len(pages[i].items) : pages[i].items[j].session \in untouched,
           pages[Len(pages)].previous # Undefined
    PROVE  LET page == pages[Len(pages)]
               before == pages[Len(pages) - 1].items
           IN  Paginated(held, [direction |-> page.previous.direction, filter |-> as.filter,
                                limit |-> Len(before)], page.previous).items = before
<1>. DEFINE n == Len(pages)
            page == pages[n]
            items == page.items
            back == pages[n - 1]
            before == back.items
            previous == page.previous
            options == [direction |-> previous.direction, filter |-> as.filter, limit |-> Len(before)]
            C == Candidates(held, options, previous)
            edge == Edge(items, Opposite(as.direction))
<1>1. n \in Nat \ {0} /\ as.direction \in Directions /\ as.filter \in Filters
  <2>1. n \in Nat \ {0}
    OBVIOUS
  <2>. HIDE DEF n
  <2>. QED
    BY <2>1, LimitDomain
<1>2. PageWalked(pages, n, as, held, untouched) /\ page \in Pages
  <2>1. n \in 1..Len(pages)
    BY <1>1
  <2>2. page \in Pages
    BY <2>1
  <2>. QED
    BY <2>1, <2>2, Zenon DEF Walked
<1>3. /\ n > 1 /\ items # <<>> /\ previous = CursorAt(as, Opposite(as.direction), items)
      /\ items \in Seq(Metas)
  BY <1>2 DEF PageWalked, Pages
<1>4. n - 1 \in 1..n /\ n - 1 < n /\ n - 1 \in 1..(n - 1)
  BY <1>1, <1>3
<1>5. PageWalked(pages, n - 1, as, held, untouched) /\ back \in Pages
  <2>1. n - 1 \in 1..Len(pages)
    BY <1>4
  <2>2. back \in Pages
    BY <2>1
  <2>. QED
    BY <2>1, <2>2, Zenon DEF Walked
<1>6. /\ back.next # Undefined /\ before # <<>> /\ before \in Seq(Metas)
      /\ back.next = CursorAt(as, as.direction, before) /\ back.next \in Cursors
  BY <1>4, <1>5 DEF PageWalked, Pages, CursorOrNone
<1>. DEFINE key == back.next.key
<1>7. Placed(key)
  <2>1. key \in [at : Nat, session : Sessions]
    BY <1>6 DEF Cursors
  <2>. QED
    BY <2>1 DEF Placed
<1>8. /\ edge \in Metas /\ Placed(edge) /\ Behind(back, as, edge)
      /\ edge = IF as.direction = "backward" THEN items[Len(items)] ELSE items[1]
  <2>1. edge = IF as.direction = "backward" THEN items[Len(items)] ELSE items[1]
    BY <1>1 DEF Edge, Opposite, Directions
  <2>2. \A l \in 1..Len(items) : Behind(back, as, items[l])
    BY <1>2, <1>4, Zenon DEF PageWalked
  <2>. HIDE DEF items
  <2>3. \E l \in 1..Len(items) : edge = items[l]
    <3>1. Len(items) \in 1..Len(items) /\ 1 \in 1..Len(items)
      BY <1>3
    <3>. QED
      BY <2>1, <3>1
  <2>4. \A l \in 1..Len(items) : items[l] \in Metas
    BY <1>3
  <2>5. edge \in Metas /\ Behind(back, as, edge)
    BY <2>2, <2>3, <2>4, Zenon
  <2>. QED
    BY <2>1, <2>5, MetaPlaced, Zenon
<1>9. /\ previous.direction = Opposite(as.direction) /\ previous # Undefined
      /\ \A x : (Before(previous.key, x) <=> Before(edge, x)) /\ (Before(x, previous.key) <=> Before(x, edge))
  <2>1. previous.direction = Opposite(as.direction) /\ previous.key = KeyOf(edge)
    <3>. HIDE DEF items
    <3>. QED
      BY <1>3 DEF CursorAt
  <2>2. previous # Undefined
    OBVIOUS
  <2>. HIDE DEF previous, edge
  <2>3. \A x : (Before(KeyOf(edge), x) <=> Before(edge, x)) /\ (Before(x, KeyOf(edge)) <=> Before(x, edge))
    <3>1. Placed(edge)
      BY <1>8, Zenon
    <3>. QED
      BY <3>1, KeyPlace, Zenon
  <2>. QED
    BY <2>1, <2>2, <2>3
<1>10. options \in Options
  <2>1. Len(before) \in Nat \ {0}
    BY <1>6
  <2>2. Opposite(as.direction) \in Directions
    BY DEF Opposite, Directions
  <2>. QED
    BY <1>1, <1>9, <2>1, <2>2 DEF Options
<1>11. /\ as.direction = "forward" => options.direction = "backward"
       /\ as.direction = "backward" => options.direction = "forward"
       /\ options.filter = as.filter /\ options.limit = Len(before)
  BY <1>9 DEF Opposite
<1>. HIDE DEF options, previous, key
<1>12. ASSUME NEW m \in held, Matches(m, as.filter)
       PROVE  /\ m.session \in untouched /\ Placed(m) /\ m \in Metas
              /\ Shows(items, m) <=> Behind(back, as, m) /\ ~Behind(page, as, m)
              /\ Shows(before, m) <=> (n - 1 > 1 => Behind(pages[n - 1 - 1], as, m)) /\ ~Behind(back, as, m)
  <2>1. m.session \in untouched /\ Placed(m) /\ m \in Metas
    BY MetaPlaced DEF Listable
  <2>. QED
    BY <1>2, <1>3, <1>5, <1>12, <2>1 DEF PageWalked
<1>13. ASSUME NEW m \in held, Matches(m, as.filter)
       PROVE  Follows(options.direction, previous, m) <=> ~Behind(back, as, m)
  <2>1. ASSUME as.direction = "forward"
        PROVE  Before(m, edge) <=> ~Before(key, m)
    <3>1. Before(key, edge)
      BY <1>8, <2>1 DEF Behind, Follows, key
    <3>2. ASSUME ~Before(key, m) PROVE Before(m, edge)
      <4>1. Before(m, key) \/ SamePlace(key, m)
        BY <1>7, <1>12, <1>13, <3>2, BeforeTotal
      <4>2. CASE Before(m, key)
        BY <1>7, <1>8, <1>12, <1>13, <3>1, <4>2, BeforeTransitive
      <4>3. CASE SamePlace(key, m)
        BY <3>1, <4>3 DEF SamePlace, Before
      <4>. QED
        BY <4>1, <4>2, <4>3
    <3>3. ASSUME Before(key, m), Before(m, edge) PROVE FALSE
      <4>1. Behind(back, as, m)
        BY <1>6, <2>1, <3>3 DEF Behind, Follows, key
      <4>2. CASE Behind(page, as, m)
        <5>. DEFINE last == Edge(items, as.direction)
        <5>1. page.next # Undefined /\ page.next = CursorAt(as, as.direction, items) /\ last = items[Len(items)]
          BY <1>2, <2>1, <4>2 DEF PageWalked, Behind, Edge
        <5>2. page.next.key = KeyOf(last)
          <6>. HIDE DEF items
          <6>. QED
            BY <5>1 DEF CursorAt
        <5>3. 1 \in 1..Len(items) /\ Len(items) \in 1..Len(items) /\ Len(items) \in Nat /\ Ascending(items)
          <6>1. Ascending(items)
            BY <1>2 DEF PageWalked
          <6>. HIDE DEF items
          <6>. QED
            BY <1>3, <6>1
        <5>4. last \in Metas /\ Placed(last)
          <6>. HIDE DEF items
          <6>. QED
            BY <1>3, <5>1, <5>3, MetaPlaced
        <5>5. Before(last, m)
          <6>1. Before(page.next.key, m)
            BY <2>1, <4>2, <5>1 DEF Behind, Follows
          <6>2. Before(KeyOf(last), m) <=> Before(last, m)
            <7>. HIDE DEF last
            <7>. QED
              BY <5>4, KeyPlace
          <6>. QED
            BY <5>2, <6>1, <6>2
        <5>6. edge = last \/ Before(edge, last)
          <6>1. edge = items[1]
            BY <1>8, <2>1
          <6>. HIDE DEF items
          <6>. QED
            BY <5>1, <5>3, <6>1 DEF Ascending
        <5>. HIDE DEF last, edge
        <5>7. Before(edge, m)
          BY <1>8, <1>12, <1>13, <5>4, <5>5, <5>6, BeforeTransitive
        <5>. QED
          BY <1>8, <1>12, <1>13, <3>3, <5>7, BeforeAsymmetric
      <4>3. CASE ~Behind(page, as, m)
        <5>1. PICK l \in 1..Len(items) : items[l] = m
          BY <1>12, <1>13, <4>1, <4>3 DEF Shows
        <5>2. Ascending(items) /\ edge = items[1]
          BY <1>2, <1>8, <2>1 DEF PageWalked
        <5>. HIDE DEF items, edge
        <5>3. 1 \in 1..Len(items) /\ ~(l < 1)
          BY <1>3
        <5>4. Before(items[l], items[1]) <=> l < 1
          BY <1>3, <5>2, <5>3, AscendingPlaces
        <5>. QED
          BY <3>3, <5>1, <5>2, <5>3, <5>4
      <4>. QED
        BY <4>2, <4>3
    <3>. QED
      BY <3>2, <3>3
  <2>2. ASSUME as.direction = "backward"
        PROVE  Before(edge, m) <=> ~Before(m, key)
    <3>1. Before(edge, key)
      BY <1>8, <2>2 DEF Behind, Follows, key
    <3>2. ASSUME ~Before(m, key) PROVE Before(edge, m)
      <4>1. Before(key, m) \/ SamePlace(key, m)
        BY <1>7, <1>12, <1>13, <3>2, BeforeTotal
      <4>2. CASE Before(key, m)
        BY <1>7, <1>8, <1>12, <1>13, <3>1, <4>2, BeforeTransitive
      <4>3. CASE SamePlace(key, m)
        BY <3>1, <4>3 DEF SamePlace, Before
      <4>. QED
        BY <4>1, <4>2, <4>3
    <3>3. ASSUME Before(m, key), Before(edge, m) PROVE FALSE
      <4>1. Behind(back, as, m)
        BY <1>6, <2>2, <3>3 DEF Behind, Follows, key
      <4>2. CASE Behind(page, as, m)
        <5>. DEFINE first == Edge(items, as.direction)
        <5>1. page.next # Undefined /\ page.next = CursorAt(as, as.direction, items) /\ first = items[1]
          BY <1>2, <2>2, <4>2 DEF PageWalked, Behind, Edge
        <5>2. page.next.key = KeyOf(first)
          <6>. HIDE DEF items
          <6>. QED
            BY <5>1 DEF CursorAt
        <5>3. 1 \in 1..Len(items) /\ Len(items) \in 1..Len(items) /\ Len(items) \in Nat /\ Ascending(items)
          <6>1. Ascending(items)
            BY <1>2 DEF PageWalked
          <6>. HIDE DEF items
          <6>. QED
            BY <1>3, <6>1
        <5>4. first \in Metas /\ Placed(first)
          <6>. HIDE DEF items
          <6>. QED
            BY <1>3, <5>1, <5>3, MetaPlaced
        <5>5. Before(m, first)
          <6>1. Before(m, page.next.key)
            BY <2>2, <4>2, <5>1 DEF Behind, Follows
          <6>2. Before(m, KeyOf(first)) <=> Before(m, first)
            <7>. HIDE DEF first
            <7>. QED
              BY <5>4, KeyPlace
          <6>. QED
            BY <5>2, <6>1, <6>2
        <5>6. edge = first \/ Before(first, edge)
          <6>1. edge = items[Len(items)]
            BY <1>8, <2>2
          <6>. HIDE DEF items
          <6>. QED
            BY <5>1, <5>3, <6>1 DEF Ascending
        <5>. HIDE DEF first, edge
        <5>7. Before(m, edge)
          BY <1>8, <1>12, <1>13, <5>4, <5>5, <5>6, BeforeTransitive
        <5>. QED
          BY <1>8, <1>12, <1>13, <3>3, <5>7, BeforeAsymmetric
      <4>3. CASE ~Behind(page, as, m)
        <5>1. PICK l \in 1..Len(items) : items[l] = m
          BY <1>12, <1>13, <4>1, <4>3 DEF Shows
        <5>2. Ascending(items) /\ edge = items[Len(items)]
          BY <1>2, <1>8, <2>2 DEF PageWalked
        <5>. HIDE DEF items, edge
        <5>3. Len(items) \in 1..Len(items) /\ ~(Len(items) < l)
          BY <1>3
        <5>4. Before(items[Len(items)], items[l]) <=> Len(items) < l
          BY <1>3, <5>2, <5>3, AscendingPlaces
        <5>. QED
          BY <3>3, <5>1, <5>2, <5>3, <5>4
      <4>. QED
        BY <4>2, <4>3
    <3>. QED
      BY <3>2, <3>3
  <2>. HIDE DEF edge
  <2>3. CASE as.direction = "forward"
    BY <1>6, <1>9, <1>11, <2>1, <2>3 DEF Behind, Follows, key
  <2>4. CASE as.direction = "backward"
    BY <1>6, <1>9, <1>11, <2>2, <2>4 DEF Behind, Follows, key
  <2>. QED
    BY <1>1, <2>3, <2>4 DEF Directions
<1>14. \A m : m \in C <=> m \in held /\ Matches(m, as.filter) /\ ~Behind(back, as, m)
  BY <1>11, <1>13 DEF Candidates
<1>15. Listable(C)
  BY CandidatesListable
<1>. HIDE DEF C
<1>16. \A j \in 1..Len(before) : before[j] \in C
  <2>. SUFFICES ASSUME NEW j \in 1..Len(before) PROVE before[j] \in C
    OBVIOUS
  <2>1. before[j] \in held /\ Matches(before[j], as.filter)
    BY <1>4, <1>5 DEF PageWalked
  <2>2. Shows(before, before[j])
    BY DEF Shows
  <2>. QED
    BY <1>12, <1>14, <2>1, <2>2
<1>17. before \in Seq(C) /\ Ascending(before)
  <2>1. Ascending(before)
    BY <1>5 DEF PageWalked
  <2>. HIDE DEF before
  <2>. QED
    BY <1>6, <1>16, <2>1
<1>18. ASSUME NEW m \in C, NEW j \in 1..Len(before), ~Shows(before, m)
       PROVE  IF options.direction = "forward" THEN Before(before[j], m) ELSE Before(m, before[j])
  <2>. DEFINE x == before[j]
              h == n - 1 - 1
              far == pages[h]
  <2>1. n - 1 > 1 /\ ~Behind(far, as, m) /\ m \in held /\ Placed(m)
    BY <1>12, <1>14, <1>18
  <2>2. h \in 1..(n - 1 - 1) /\ h \in 1..n /\ h < n
    BY <1>1, <2>1
  <2>3. x \in Metas /\ Placed(x)
    BY <1>6, MetaPlaced
  <2>4. Behind(far, as, x)
    BY <1>5, <2>2 DEF PageWalked
  <2>5. far.next # Undefined /\ Placed(far.next.key)
    <3>1. far \in Pages
      BY <2>2
    <3>2. far.next \in Cursors
      BY <2>4, <3>1 DEF Behind, Pages, CursorOrNone
    <3>3. far.next.key \in [at : Nat, session : Sessions]
      BY <3>2 DEF Cursors
    <3>. QED
      BY <2>4, <3>3 DEF Behind, Placed
  <2>. DEFINE k == far.next.key
  <2>. HIDE DEF x
  <2>6. CASE as.direction = "forward"
    <3>1. Before(k, x) /\ ~Before(k, m)
      BY <2>1, <2>4, <2>5, <2>6 DEF Behind, Follows
    <3>. HIDE DEF far, k
    <3>2. Before(m, k) \/ SamePlace(k, m)
      BY <2>1, <2>5, <3>1, BeforeTotal DEF k
    <3>3. Before(m, k) => Before(m, x)
      BY <2>1, <2>3, <2>5, <3>1, BeforeTransitive DEF k
    <3>4. SamePlace(k, m) => Before(m, x)
      BY <3>1 DEF SamePlace, Before
    <3>. QED
      BY <1>11, <2>6, <3>2, <3>3, <3>4 DEF x
  <2>7. CASE as.direction = "backward"
    <3>1. Before(x, k) /\ ~Before(m, k)
      BY <2>1, <2>4, <2>5, <2>7 DEF Behind, Follows
    <3>. HIDE DEF far, k
    <3>2. Before(k, m) \/ SamePlace(k, m)
      BY <2>1, <2>5, <3>1, BeforeTotal DEF k
    <3>3. Before(k, m) => Before(x, m)
      BY <2>1, <2>3, <2>5, <3>1, BeforeTransitive DEF k
    <3>4. SamePlace(k, m) => Before(x, m)
      BY <3>1 DEF SamePlace, Before
    <3>. QED
      BY <1>11, <2>7, <3>2, <3>3, <3>4 DEF x
  <2>. QED
    BY <1>1, <2>6, <2>7 DEF Directions
<1>. HIDE DEF before
<1>19. Taken(C, options) = before
  BY <1>10, <1>11, <1>15, <1>17, <1>18, TakesPiece
<1>20. Paginated(held, options, previous) = PageTaken(C, options, previous)
  BY <1>10, PaginatedTakes DEF C
<1>21. PageTaken(C, options, previous).items = Taken(C, options)
  BY DEF PageTaken, Page
<1>. QED
  BY <1>19, <1>20, <1>21 DEF options, previous, before

----------------------------------------------------------------------------
(* A scan of Redis.                                                        *)

Reads == [session : Sessions, key : {1, 2}, at : Nat, model : Models]
KeyRead(r) == <<r.session, r.key>>

(* A read of a session nobody wrote is of a record that is still there, or *)
(* of the record an earlier release wrote, which has been dropped in       *)
(* favour of the newer one.                                                *)
ReadStands(recs, r) ==
    \/ KeyRead(r) \in DOMAIN recs /\ r = ReadFrom(recs, KeyRead(r))
    \/ r.key = 1 /\ <<r.session, 2>> \in DOMAIN recs

LEMMA ReadType ==
    ASSUME NEW recs, Stored(recs), NEW k \in DOMAIN recs
    PROVE  ReadFrom(recs, k) \in Reads /\ KeyRead(ReadFrom(recs, k)) = k
<1>1. k \in Keys /\ recs[k] \in StoredRecord
  BY DEF Stored
<1>. QED
  BY <1>1, KeyParts DEF ReadFrom, Reads, KeyRead, StoredRecord

(* Of the sessions nobody wrote a whole scan collects what is held.        *)
LEMMA ScanCollects ==
    ASSUME NEW recs, Stored(recs), NEW reads \in SUBSET Reads, IsFiniteSet(reads), NEW untouched,
           \A r, q \in reads : KeyRead(r) = KeyRead(q) => r = q,
           \A r \in reads : r.session \in untouched => ReadStands(recs, r),
           \A k \in DOMAIN recs : k[1] \in untouched => ReadFrom(recs, k) \in reads
    PROVE  /\ Listable(Collected(reads))
           /\ \A m : m.session \in untouched => (m \in HeldIn(recs) <=> m \in Collected(reads))
           /\ \A m \in Collected(reads) : \E r \in reads : r.session = m.session
<1>. DEFINE newest == {r \in reads : \A q \in reads : q.session = r.session => q.key <= r.key}
            meta(r) == [session |-> r.session, at |-> r.at, model |-> r.model]
            T == Collected(reads)
<1>1. T = {meta(r) : r \in newest}
  BY DEF Collected
<1>2. IsFiniteSet(T)
  <2>. DEFINE f == [r \in newest |-> meta(r)]
  <2>1. IsFiniteSet(newest)
    <3>1. newest \in SUBSET reads
      OBVIOUS
    <3>. HIDE DEF newest
    <3>. QED
      BY <3>1, FS_Subset
  <2>2. f \in Surjection(newest, T)
    <3>. HIDE DEF newest, T, meta
    <3>. QED
      BY <1>1 DEF Surjection
  <2>. HIDE DEF newest, T, f
  <2>. QED
    BY <2>1, <2>2, FS_Surjection
<1>3. \A r \in newest : meta(r) \in Metas /\ meta(r).session = r.session /\ r \in Reads
  BY DEF Metas, Reads
<1>4. \A r, q \in newest : r.session = q.session => r = q
  <2>. SUFFICES ASSUME NEW r \in newest, NEW q \in newest, r.session = q.session PROVE r = q
    OBVIOUS
  <2>1. r.key \in {1, 2} /\ q.key \in {1, 2} /\ r.key <= q.key /\ q.key <= r.key
    BY DEF Reads
  <2>2. r.key = q.key
    BY <2>1
  <2>. QED
    BY <2>2 DEF KeyRead
<1>5. Listable(T)
  <2>. HIDE DEF T, newest, meta
  <2>1. T \subseteq Metas
    BY <1>1, <1>3
  <2>2. \A m, n \in T : m.session = n.session => m = n
    BY <1>1, <1>3, <1>4
  <2>. QED
    BY <1>2, <2>1, <2>2 DEF Listable
<1>6. \A m : m \in HeldIn(recs) <=> \E s \in SessionsAt(DOMAIN recs) :
                                       m = MetaAt(recs, NewestKey(DOMAIN recs, s))
  BY HeldIs
<1>7. ASSUME NEW k \in DOMAIN recs, k[1] \in untouched
      PROVE  /\ k \in Keys /\ ReadFrom(recs, k) \in reads /\ ReadFrom(recs, k).session = k[1]
             /\ ReadFrom(recs, k).key = k[2] /\ k = <<k[1], k[2]>>
  BY <1>7, KeyParts DEF Stored, ReadFrom
<1>8. ASSUME NEW m, m.session \in untouched, m \in HeldIn(recs)
      PROVE  m \in T
  <2>1. PICK s \in SessionsAt(DOMAIN recs) : m = MetaAt(recs, NewestKey(DOMAIN recs, s))
    BY <1>6, <1>8
  <2>2. m.session = s
    BY <2>1 DEF MetaAt, NewestKey
  <2>3. PICK k \in DOMAIN recs : k[1] = s
    BY DEF SessionsAt
  <2>4. k = <<s, 1>> \/ k = <<s, 2>>
    BY <2>3, KeyParts DEF Stored
  <2>. DEFINE new == NewestKey(DOMAIN recs, s)
              r == ReadFrom(recs, new)
  <2>5. new \in DOMAIN recs /\ new[1] = s /\ (<<s, 2>> \in DOMAIN recs => new[2] = 2) /\ new[2] \in {1, 2}
    BY <2>3, <2>4 DEF NewestKey
  <2>. HIDE DEF new
  <2>6. r \in reads /\ r.session = s /\ r.key = new[2]
    BY <1>7, <1>8, <2>2, <2>5
  <2>7. ASSUME NEW q \in reads, q.session = s PROVE q.key <= r.key
    <3>1. q.key \in {1, 2}
      BY DEF Reads
    <3>2. q.key = 2 => <<s, 2>> \in DOMAIN recs
      BY <1>8, <2>2, <2>7 DEF ReadStands, KeyRead
    <3>. QED
      BY <2>5, <2>6, <3>1, <3>2
  <2>8. r \in newest
    BY <2>6, <2>7
  <2>9. m = meta(r)
    BY <2>1 DEF new, MetaAt, ReadFrom
  <2>. QED
    BY <1>1, <2>8, <2>9
<1>9. ASSUME NEW m, m.session \in untouched, m \in T
      PROVE  m \in HeldIn(recs)
  <2>1. PICK r \in newest : m = meta(r)
    BY <1>1, <1>9
  <2>. DEFINE s == r.session
  <2>2. m.session = s /\ s \in Sessions /\ r.key \in {1, 2} /\ r \in reads
    BY <2>1 DEF Reads
  <2>3. ReadStands(recs, r)
    BY <1>9, <2>2
  <2>4. ~(r.key = 1 /\ <<s, 2>> \in DOMAIN recs)
    <3>. SUFFICES ASSUME r.key = 1, <<s, 2>> \in DOMAIN recs PROVE FALSE
      OBVIOUS
    <3>. DEFINE q == ReadFrom(recs, <<s, 2>>)
    <3>1. q \in reads /\ q.session = s /\ q.key = 2
      BY <1>7, <1>9, <2>2 DEF ReadFrom
    <3>. HIDE DEF q
    <3>2. q.key <= r.key
      BY <3>1
    <3>. QED
      BY <3>1, <3>2
  <2>5. <<s, r.key>> \in DOMAIN recs /\ r = ReadFrom(recs, <<s, r.key>>)
    BY <2>3, <2>4 DEF ReadStands, KeyRead
  <2>6. NewestKey(DOMAIN recs, s) = <<s, r.key>>
    BY <2>2, <2>4, <2>5 DEF NewestKey
  <2>7. s \in SessionsAt(DOMAIN recs)
    BY <2>5 DEF SessionsAt
  <2>8. m = MetaAt(recs, <<s, r.key>>)
    BY <2>1, <2>5 DEF MetaAt, ReadFrom
  <2>. QED
    BY <1>6, <2>6, <2>7, <2>8
<1>10. \A m \in T : \E r \in reads : r.session = m.session
  BY <1>1, <1>3
<1>. QED
  BY <1>5, <1>8, <1>9, <1>10

----------------------------------------------------------------------------
(* The inductive invariant.                                                *)

Phases == {"idle", "reading", "refused"}
Listings == [phase : Phases, options : Options \cup {Undefined}, cursor : CursorOrNone,
             pages : Seq(Pages), as : Options \cup {Undefined}, reads : SUBSET Reads,
             scanned : SUBSET Keys, due : SUBSET Keys, untouched : SUBSET Sessions, quiet : BOOLEAN]

ListTypeInv ==
    /\ Stored(records) /\ clock \in Nat
    /\ listing \in Listings
    /\ listing.pages # <<>> => listing.as \in Options

(* A page is asked for behind the page before it, in the same direction    *)
(* and with the same filter.                                               *)
AskedInv ==
    listing.phase = "reading" =>
      /\ listing.options \in Options
      /\ listing.pages = <<>> => listing.cursor = Undefined
      /\ listing.pages # <<>> =>
           /\ listing.cursor = listing.pages[Len(listing.pages)].next /\ listing.cursor # Undefined
           /\ listing.options.direction = listing.as.direction
           /\ listing.options.filter = listing.as.filter

(* What a scan has read of the sessions nobody wrote is still so, and what *)
(* it has not read is due.                                                 *)
ScanInv ==
    listing.phase = "reading" =>
      /\ IsFiniteSet(listing.reads)
      /\ \A r \in listing.reads : KeyRead(r) \in listing.scanned
      /\ \A r, q \in listing.reads : KeyRead(r) = KeyRead(q) => r = q
      /\ \A r \in listing.reads : r.session \in listing.untouched => ReadStands(records, r)
      /\ \A k \in DOMAIN records : k[1] \in listing.untouched =>
           k \in listing.due /\ (k \in listing.scanned => ReadFrom(records, k) \in listing.reads)

(* While nothing is written there are no other sessions.                   *)
QuietInv ==
    listing.quiet =>
      /\ listing.pages # <<>> \/ listing.phase = "reading" =>
           SessionsAt(DOMAIN records) \subseteq listing.untouched
      /\ listing.phase = "reading" => \A r \in listing.reads : r.session \in listing.untouched
      /\ \A i \in 1..Len(listing.pages) : \A j \in 1..Len(listing.pages[i].items) :
           listing.pages[i].items[j].session \in listing.untouched

WalkInv == Walked(listing.pages, listing.as, HeldIn(records), listing.untouched)

ListingInv == ListTypeInv /\ AskedInv /\ ScanInv /\ QuietInv /\ WalkInv

LEMMA ListingInit == ListInit => ListingInv
<1>. SUFFICES ASSUME ListInit PROVE ListingInv
  OBVIOUS
<1>1. PICK keys \in StoredKeys : records \in [keys -> [at : {1, 2}, model : Models]]
  BY DEF ListInit
<1>2. Stored(records)
  <2>1. DOMAIN records = keys /\ IsFiniteSet(keys) /\ keys \subseteq Keys
    BY <1>1, ListingAssumption
  <2>2. \A k \in DOMAIN records : records[k] \in StoredRecord
    BY <1>1 DEF StoredRecord
  <2>. QED
    BY <2>1, <2>2 DEF Stored
<1>3. /\ clock = 2
      /\ listing = [phase |-> "idle", options |-> Undefined, cursor |-> Undefined, pages |-> <<>>,
                    as |-> Undefined, reads |-> {}, scanned |-> {}, due |-> {}, untouched |-> {},
                    quiet |-> TRUE]
  BY DEF ListInit
<1>4. listing \in Listings
  <2>1. <<>> \in Seq(Pages)
    OBVIOUS
  <2>. QED
    BY <1>3, <2>1 DEF Listings, Phases, CursorOrNone
<1>5. Len(listing.pages) = 0 /\ listing.phase = "idle" /\ listing.pages = <<>>
  BY <1>3
<1>. QED
  BY <1>2, <1>3, <1>4, <1>5 DEF ListingInv, ListTypeInv, AskedInv, ScanInv, QuietInv, WalkInv, Walked

(* A step of a writer: what is stored of the sessions that stay untouched  *)
(* changes only in that an older record gives way to the newer one.        *)
Undisturbed(recs, new, untouched) ==
    /\ \A k \in DOMAIN new : k[1] \in untouched => k \in DOMAIN recs /\ new[k] = recs[k]
    /\ \A k \in DOMAIN recs : k[1] \in untouched /\ k \notin DOMAIN new =>
         k[2] = 1 /\ <<k[1], 2>> \in DOMAIN recs

LEMMA UndisturbedHeld ==
    ASSUME NEW recs, NEW new, Stored(recs), Stored(new), NEW untouched, Undisturbed(recs, new, untouched)
    PROVE  \A m : m.session \in untouched => (m \in HeldIn(recs) <=> m \in HeldIn(new))
<1>. SUFFICES ASSUME NEW s \in untouched
              PROVE  \A m : m.session = s => (m \in HeldIn(recs) <=> m \in HeldIn(new))
  OBVIOUS
<1>1. \A k \in DOMAIN recs : k = <<k[1], 1>> \/ k = <<k[1], 2>>
  BY KeyParts DEF Stored
<1>2. \A k \in DOMAIN new : k = <<k[1], 1>> \/ k = <<k[1], 2>>
  BY KeyParts DEF Stored
<1>3. /\ <<s, 2>> \in DOMAIN recs <=> <<s, 2>> \in DOMAIN new
      /\ <<s, 1>> \in DOMAIN new => <<s, 1>> \in DOMAIN recs
      /\ <<s, 1>> \in DOMAIN recs => <<s, 1>> \in DOMAIN new \/ <<s, 2>> \in DOMAIN new
      /\ \A v \in {1, 2} : <<s, v>> \in DOMAIN new => new[<<s, v>>] = recs[<<s, v>>]
  BY DEF Undisturbed
<1>4. /\ s \in SessionsAt(DOMAIN recs) <=> <<s, 1>> \in DOMAIN recs \/ <<s, 2>> \in DOMAIN recs
      /\ s \in SessionsAt(DOMAIN new) <=> <<s, 1>> \in DOMAIN new \/ <<s, 2>> \in DOMAIN new
  BY <1>1, <1>2 DEF SessionsAt
<1>5. s \in SessionsAt(DOMAIN recs) <=> s \in SessionsAt(DOMAIN new)
  BY <1>3, <1>4
<1>6. s \in SessionsAt(DOMAIN recs) =>
        /\ NewestKey(DOMAIN recs, s) = NewestKey(DOMAIN new, s)
        /\ recs[NewestKey(DOMAIN recs, s)] = new[NewestKey(DOMAIN recs, s)]
  BY <1>3, <1>4 DEF NewestKey
<1>. QED
  BY <1>5, <1>6, HeldOfSession

LEMMA WriteKeeps ==
    ASSUME ListingInv, Stored(records'), clock' \in Nat, listing' \in Listings,
           listing'.phase = listing.phase, listing'.options = listing.options,
           listing'.cursor = listing.cursor, listing'.pages = listing.pages,
           listing'.as = listing.as, listing'.reads = listing.reads,
           listing'.scanned = listing.scanned,
           listing'.untouched \subseteq listing.untouched,
           listing'.quiet => listing.quiet /\ listing'.untouched = listing.untouched,
           \A k \in listing.due : k[1] \in listing'.untouched => k \in listing'.due,
           Undisturbed(records, records', listing'.untouched),
           listing'.quiet => SessionsAt(DOMAIN records') \subseteq SessionsAt(DOMAIN records)
    PROVE  ListingInv'
<1>. USE DEF ListingInv
<1>1. ListTypeInv'
  BY DEF ListTypeInv
<1>2. AskedInv'
  BY DEF AskedInv
<1>3. ScanInv'
  <2>. SUFFICES ASSUME listing.phase = "reading"
                PROVE  /\ \A r \in listing.reads : r.session \in listing'.untouched => ReadStands(records', r)
                       /\ \A k \in DOMAIN records' : k[1] \in listing'.untouched =>
                            /\ k \in listing'.due
                            /\ k \in listing.scanned => ReadFrom(records', k) \in listing.reads
    BY DEF ScanInv
  <2>1. ASSUME NEW r \in listing.reads, r.session \in listing'.untouched PROVE ReadStands(records', r)
    <3>1. ReadStands(records, r) /\ r \in Reads
      BY <2>1 DEF ScanInv, ListTypeInv, Listings
    <3>2. KeyRead(r)[1] = r.session /\ KeyRead(r)[2] = r.key /\ <<r.session, 2>>[1] = r.session /\ <<r.session, 2>>[2] = 2
      BY DEF KeyRead
    <3>3. <<r.session, 2>> \in DOMAIN records => <<r.session, 2>> \in DOMAIN records'
      BY <2>1, <3>2 DEF Undisturbed
    <3>4. CASE r.key = 1 /\ <<r.session, 2>> \in DOMAIN records
      BY <3>3, <3>4 DEF ReadStands
    <3>5. CASE KeyRead(r) \in DOMAIN records /\ r = ReadFrom(records, KeyRead(r))
      <4>1. CASE KeyRead(r) \in DOMAIN records'
        <5>1. records'[KeyRead(r)] = records[KeyRead(r)]
          BY <2>1, <3>2, <4>1 DEF Undisturbed
        <5>2. ReadFrom(records', KeyRead(r)) = ReadFrom(records, KeyRead(r))
          BY <5>1 DEF ReadFrom
        <5>. QED
          BY <3>5, <4>1, <5>2 DEF ReadStands
      <4>2. CASE KeyRead(r) \notin DOMAIN records'
        <5>1. r.key = 1 /\ <<r.session, 2>> \in DOMAIN records
          BY <2>1, <3>2, <3>5, <4>2 DEF Undisturbed
        <5>. QED
          BY <3>3, <5>1 DEF ReadStands
      <4>. QED
        BY <4>1, <4>2
    <3>. QED
      BY <3>1, <3>4, <3>5 DEF ReadStands
  <2>2. ASSUME NEW k \in DOMAIN records', k[1] \in listing'.untouched
        PROVE  /\ k \in listing'.due
               /\ k \in listing.scanned => ReadFrom(records', k) \in listing.reads
    <3>1. k \in DOMAIN records /\ records'[k] = records[k] /\ k[1] \in listing.untouched
      BY <2>2 DEF Undisturbed
    <3>2. k \in listing.due /\ (k \in listing.scanned => ReadFrom(records, k) \in listing.reads)
      BY <3>1 DEF ScanInv
    <3>3. ReadFrom(records', k) = ReadFrom(records, k)
      BY <3>1 DEF ReadFrom
    <3>. QED
      BY <2>2, <3>2, <3>3
  <2>. QED
    BY <2>1, <2>2
<1>4. QuietInv'
  BY DEF QuietInv
<1>5. WalkInv'
  <2>1. \A m : m.session \in listing'.untouched => (m \in HeldIn(records) <=> m \in HeldIn(records'))
    BY UndisturbedHeld DEF ListTypeInv
  <2>2. Walked(listing.pages, listing.as, HeldIn(records'), listing'.untouched)
    BY <2>1, WalkStays DEF WalkInv
  <2>. QED
    BY <2>2 DEF WalkInv
<1>. QED
  BY <1>1, <1>2, <1>3, <1>4, <1>5

LEMMA SetInv == ASSUME ListingInv, NEW session \in Sessions, Set(session) PROVE ListingInv'
<1>. DEFINE key == <<session, 2>>
<1>1. PICK model \in Models :
        records' = [k \in DOMAIN records \union {key} |->
                      IF k = key THEN [at |-> clock', model |-> model] ELSE records[k]]
  BY DEF Set
<1>2. /\ listing' = [listing EXCEPT !.untouched = @ \ {session}, !.quiet = FALSE, !.due = @ \ {}]
      /\ clock' \in {clock, clock + 1}
  BY DEF Set, Touched, Tick
<1>3. Stored(records) /\ clock \in Nat /\ listing \in Listings
  BY DEF ListingInv, ListTypeInv
<1>4. clock' \in Nat
  BY <1>2, <1>3
<1>5. key \in Keys /\ key[1] = session
  BY KeyParts
<1>. HIDE DEF key
<1>6. DOMAIN records' = DOMAIN records \union {key}
  BY <1>1
<1>7. Stored(records')
  <2>1. IsFiniteSet(DOMAIN records \union {key})
    BY <1>3, FS_AddElement DEF Stored
  <2>2. \A k \in DOMAIN records' : records'[k] \in StoredRecord
    BY <1>1, <1>3, <1>4 DEF Stored, StoredRecord
  <2>. QED
    BY <1>3, <1>5, <1>6, <2>1, <2>2 DEF Stored
<1>8. /\ listing' \in Listings
      /\ listing'.phase = listing.phase /\ listing'.options = listing.options
      /\ listing'.cursor = listing.cursor /\ listing'.pages = listing.pages
      /\ listing'.as = listing.as /\ listing'.reads = listing.reads
      /\ listing'.scanned = listing.scanned /\ listing'.untouched = listing.untouched \ {session}
      /\ listing'.quiet = FALSE /\ listing'.due = listing.due
  BY <1>2, <1>3 DEF Listings
<1>9. Undisturbed(records, records', listing'.untouched)
  <2>1. \A k \in DOMAIN records' : k[1] \in listing'.untouched => k \in DOMAIN records /\ records'[k] = records[k]
    BY <1>1, <1>5, <1>6, <1>8
  <2>. QED
    BY <1>6, <2>1 DEF Undisturbed
<1>. QED
  BY <1>4, <1>7, <1>8, <1>9, WriteKeeps

LEMMA DeleteInv == ASSUME ListingInv, NEW session \in Sessions, Delete(session) PROVE ListingInv'
<1>0. PICK gone \in {{KeyFound(session)}, KeysOf(session)} :
        /\ records' = [k \in DOMAIN records \ gone |-> records[k]]
        /\ Touched(session, gone)
  BY DEF Delete
<1>a. KeyFound(session) \in KeysOf(session)
  BY DEF KeyFound, KeysOf
<1>b. gone \subseteq KeysOf(session)
  BY <1>0, <1>a
<1>1. /\ records' = [k \in DOMAIN records \ gone |-> records[k]]
      /\ listing' = [listing EXCEPT !.untouched = @ \ {session}, !.quiet = FALSE, !.due = @ \ gone]
      /\ clock' = clock
  BY <1>0 DEF Delete, Touched
<1>2. Stored(records) /\ clock \in Nat /\ listing \in Listings
  BY DEF ListingInv, ListTypeInv
<1>3. DOMAIN records' = DOMAIN records \ gone
  BY <1>1
<1>4. Stored(records')
  <2>1. DOMAIN records' \in SUBSET DOMAIN records
    BY <1>3
  <2>2. IsFiniteSet(DOMAIN records')
    BY <1>2, <2>1, FS_Subset DEF Stored
  <2>3. \A k \in DOMAIN records' : records'[k] \in StoredRecord
    BY <1>1, <1>2 DEF Stored
  <2>. QED
    BY <1>2, <2>1, <2>2, <2>3 DEF Stored
<1>5. /\ listing' \in Listings
      /\ listing'.phase = listing.phase /\ listing'.options = listing.options
      /\ listing'.cursor = listing.cursor /\ listing'.pages = listing.pages
      /\ listing'.as = listing.as /\ listing'.reads = listing.reads
      /\ listing'.scanned = listing.scanned /\ listing'.untouched = listing.untouched \ {session}
      /\ listing'.quiet = FALSE /\ listing'.due = listing.due \ gone
  BY <1>1, <1>2 DEF Listings
<1>6. \A k \in Keys : k \in gone => k[1] = session
  BY <1>b, KeyParts
<1>7. Undisturbed(records, records', listing'.untouched)
  <2>1. \A k \in DOMAIN records' : k \in DOMAIN records /\ records'[k] = records[k]
    BY <1>1
  <2>2. \A k \in DOMAIN records : k[1] \in listing'.untouched => k \in DOMAIN records'
    BY <1>2, <1>3, <1>5, <1>6 DEF Stored
  <2>. QED
    BY <2>1, <2>2 DEF Undisturbed
<1>8. \A k \in listing.due : k[1] \in listing'.untouched => k \in listing'.due
  BY <1>2, <1>5, <1>6 DEF Listings
<1>. QED
  BY <1>1, <1>2, <1>4, <1>5, <1>7, <1>8, WriteKeeps

LEMMA DropLegacyInv == ASSUME ListingInv, NEW session \in Sessions, DropLegacy(session) PROVE ListingInv'
<1>. DEFINE key == <<session, 1>>
<1>1. /\ records' = [k \in DOMAIN records \ {key} |-> records[k]]
      /\ KeysOf(session) \subseteq DOMAIN records
      /\ listing' = listing /\ clock' = clock
  BY DEF DropLegacy
<1>2. Stored(records) /\ clock \in Nat /\ listing \in Listings
  BY DEF ListingInv, ListTypeInv
<1>3. key[1] = session /\ key[2] = 1 /\ <<session, 2>> \in DOMAIN records
  BY <1>1 DEF KeysOf
<1>. HIDE DEF key
<1>4. DOMAIN records' = DOMAIN records \ {key} /\ \A k \in DOMAIN records' : records'[k] = records[k]
  BY <1>1
<1>5. Stored(records')
  <2>1. DOMAIN records' \in SUBSET DOMAIN records
    BY <1>4
  <2>2. IsFiniteSet(DOMAIN records')
    BY <1>2, <2>1, FS_Subset DEF Stored
  <2>. QED
    BY <1>2, <1>4, <2>1, <2>2 DEF Stored
<1>6. Undisturbed(records, records', listing'.untouched)
  BY <1>3, <1>4 DEF Undisturbed
<1>7. SessionsAt(DOMAIN records') \subseteq SessionsAt(DOMAIN records)
  BY <1>4 DEF SessionsAt
<1>. QED
  BY <1>1, <1>2, <1>5, <1>6, <1>7, WriteKeeps

LEMMA AskInv == ASSUME ListingInv, Ask PROVE ListingInv'
<1>. DEFINE n == Len(listing.pages)
            fresh == listing.pages = <<>>
<1>1. PICK direction \in Directions, filter \in Filters, limit \in Limits :
        LET options == [direction |-> direction, filter |-> filter, limit |-> limit]
            cursor == IF listing.pages = <<>> THEN Undefined ELSE Last(listing.pages).next
        IN  listing' = [listing EXCEPT
              !.phase = IF Accepts(options, cursor) THEN "reading" ELSE "refused",
              !.options = options, !.cursor = cursor, !.reads = {}, !.scanned = {},
              !.due = DOMAIN records,
              !.untouched = IF listing.pages = <<>> THEN SessionsAt(DOMAIN records) ELSE @,
              !.quiet = listing.pages = <<>> \/ @]
  BY DEF Ask
<1>. DEFINE options == [direction |-> direction, filter |-> filter, limit |-> limit]
            cursor == IF fresh THEN Undefined ELSE listing.pages[n].next
<1>2. UNCHANGED <<records, clock>> /\ listing.phase = "idle"
      /\ (~fresh => listing.pages[n].next # Undefined)
  BY DEF Ask, Last
<1>3. Stored(records) /\ clock \in Nat /\ listing \in Listings /\ (~fresh => listing.as \in Options)
  BY DEF ListingInv, ListTypeInv
<1>4. /\ listing'.phase = IF Accepts(options, cursor) THEN "reading" ELSE "refused"
      /\ listing'.options = options /\ listing'.cursor = cursor
      /\ listing'.pages = listing.pages /\ listing'.as = listing.as
      /\ listing'.reads = {} /\ listing'.scanned = {} /\ listing'.due = DOMAIN records
      /\ listing'.untouched = IF fresh THEN SessionsAt(DOMAIN records) ELSE listing.untouched
      /\ listing'.quiet = (fresh \/ listing.quiet)
      /\ listing' = [phase |-> listing'.phase, options |-> options, cursor |-> cursor,
                     pages |-> listing.pages, as |-> listing.as, reads |-> {}, scanned |-> {},
                     due |-> DOMAIN records, untouched |-> listing'.untouched, quiet |-> listing'.quiet]
  BY <1>1, <1>3 DEF Listings, Last
<1>5. options \in Options
  BY ListingAssumption DEF Options
<1>6. listing.pages \in Seq(Pages) /\ n \in Nat /\ (fresh <=> n = 0)
  BY <1>3 DEF Listings
<1>7. ~fresh => /\ n \in 1..n /\ listing.pages[n] \in Pages
                /\ listing.pages[n].next = CursorAt(listing.as, listing.as.direction, listing.pages[n].items)
  <2>. SUFFICES ASSUME ~fresh
                PROVE  /\ n \in 1..n /\ listing.pages[n] \in Pages
                       /\ listing.pages[n].next =
                            CursorAt(listing.as, listing.as.direction, listing.pages[n].items)
    OBVIOUS
  <2>1. n \in 1..n /\ listing.pages[n] \in Pages
    BY <1>6
  <2>2. PageWalked(listing.pages, n, listing.as, HeldIn(records), listing.untouched)
    BY <2>1, Zenon DEF ListingInv, WalkInv, Walked
  <2>. QED
    BY <1>2, <2>1, <2>2 DEF PageWalked
<1>. HIDE DEF options, cursor, n, fresh
<1>8. cursor \in CursorOrNone
  BY <1>7 DEF cursor, CursorOrNone, Pages
<1>9. ListTypeInv'
  <2>1. SessionsAt(DOMAIN records) \in SUBSET Sessions
    BY <1>3, KeyParts DEF SessionsAt, Stored
  <2>2. listing'.untouched \in SUBSET Sessions /\ listing'.phase \in Phases /\ listing'.quiet \in BOOLEAN
    BY <1>3, <1>4, <2>1 DEF Listings, Phases
  <2>3. listing' \in Listings
    BY <1>3, <1>4, <1>5, <1>8, <2>2 DEF Listings, Stored
  <2>. QED
    BY <1>2, <1>3, <1>4, <2>3 DEF ListTypeInv, fresh
<1>10. AskedInv'
  <2>. SUFFICES ASSUME Accepts(options, cursor), ~fresh
                PROVE  /\ cursor = listing.pages[n].next /\ cursor # Undefined
                       /\ options.direction = listing.as.direction
                       /\ options.filter = listing.as.filter
    BY <1>4, <1>5 DEF AskedInv, cursor, fresh, n
  <2>1. cursor = listing.pages[n].next /\ cursor # Undefined
    BY <1>2 DEF cursor
  <2>2. cursor.direction = options.direction /\ cursor.filter = options.filter
    BY <2>1 DEF Accepts
  <2>. QED
    BY <1>7, <2>1, <2>2 DEF CursorAt
<1>11. ScanInv'
  <2>1. IsFiniteSet({})
    BY FS_EmptySet
  <2>. QED
    BY <1>2, <1>4, <2>1 DEF ScanInv
<1>12. QuietInv'
  <2>1. CASE fresh
    <3>1. Len(listing'.pages) = 0
      BY <1>4, <1>6, <2>1 DEF n
    <3>. QED
      BY <1>2, <1>4, <2>1, <3>1 DEF QuietInv
  <2>2. CASE ~fresh
    BY <1>2, <1>4, <2>2 DEF QuietInv, ListingInv, fresh
  <2>. QED
    BY <2>1, <2>2
<1>13. WalkInv'
  <2>1. CASE fresh
    <3>1. Len(listing'.pages) = 0
      BY <1>4, <1>6, <2>1 DEF n
    <3>. QED
      BY <3>1 DEF WalkInv, Walked
  <2>2. CASE ~fresh
    BY <1>2, <1>4, <2>2 DEF WalkInv, ListingInv
  <2>. QED
    BY <2>1, <2>2
<1>. QED
  BY <1>9, <1>10, <1>11, <1>12, <1>13 DEF ListingInv

LEMMA ScanKeyInv == ASSUME ListingInv, NEW key \in Keys, ScanKey(key) PROVE ListingInv'
<1>. DEFINE read == ReadFrom(records, key)
<1>1. /\ listing.phase = "reading" /\ key \in DOMAIN records /\ key \notin listing.scanned
      /\ listing' = [listing EXCEPT !.scanned = @ \union {key}, !.reads = @ \union {read}]
      /\ UNCHANGED <<records, clock>>
  BY DEF ScanKey, Read, ReadFrom
<1>2. Stored(records) /\ clock \in Nat /\ listing \in Listings
  BY DEF ListingInv, ListTypeInv
<1>3. read \in Reads /\ KeyRead(read) = key /\ read.session = key[1]
  BY <1>1, <1>2, ReadType DEF ReadFrom
<1>. HIDE DEF read
<1>4. /\ listing' \in Listings
      /\ listing'.phase = listing.phase /\ listing'.options = listing.options
      /\ listing'.cursor = listing.cursor /\ listing'.pages = listing.pages
      /\ listing'.as = listing.as /\ listing'.reads = listing.reads \union {read}
      /\ listing'.scanned = listing.scanned \union {key} /\ listing'.untouched = listing.untouched
      /\ listing'.quiet = listing.quiet /\ listing'.due = listing.due
  BY <1>1, <1>2, <1>3 DEF Listings
<1>5. ListTypeInv' /\ AskedInv' /\ WalkInv'
  BY <1>1, <1>2, <1>4 DEF ListingInv, ListTypeInv, AskedInv, WalkInv
<1>6. ScanInv'
  <2>1. /\ IsFiniteSet(listing.reads)
        /\ \A r \in listing.reads : KeyRead(r) \in listing.scanned
        /\ \A r, q \in listing.reads : KeyRead(r) = KeyRead(q) => r = q
        /\ \A r \in listing.reads : r.session \in listing.untouched => ReadStands(records, r)
        /\ \A k \in DOMAIN records : k[1] \in listing.untouched =>
             /\ k \in listing.due
             /\ k \in listing.scanned => ReadFrom(records, k) \in listing.reads
    BY <1>1 DEF ListingInv, ScanInv
  <2>2. IsFiniteSet(listing.reads \union {read})
    BY <2>1, FS_AddElement
  <2>3. \A r \in listing.reads : KeyRead(r) # key
    BY <1>1, <2>1
  <2>4. ReadStands(records, read)
    BY <1>1, <1>3 DEF ReadStands, read
  <2>5. \A r \in listing'.reads : KeyRead(r) \in listing'.scanned
    BY <1>3, <1>4, <2>1
  <2>6. \A r, q \in listing'.reads : KeyRead(r) = KeyRead(q) => r = q
    BY <1>3, <1>4, <2>1, <2>3
  <2>7. \A r \in listing'.reads : r.session \in listing'.untouched => ReadStands(records, r)
    BY <1>4, <2>1, <2>4
  <2>8. \A k \in DOMAIN records : k[1] \in listing'.untouched =>
          k \in listing'.due /\ (k \in listing'.scanned => ReadFrom(records, k) \in listing'.reads)
    BY <1>4, <2>1 DEF read
  <2>. QED
    BY <1>1, <1>4, <2>2, <2>5, <2>6, <2>7, <2>8 DEF ScanInv
<1>7. QuietInv'
  <2>. SUFFICES ASSUME listing.quiet PROVE QuietInv'
    BY <1>4 DEF QuietInv
  <2>1. SessionsAt(DOMAIN records) \subseteq listing.untouched
    BY <1>1 DEF ListingInv, QuietInv
  <2>2. read.session \in listing.untouched
    BY <1>1, <1>3, <2>1 DEF SessionsAt
  <2>. QED
    BY <1>1, <1>4, <2>1, <2>2 DEF ListingInv, QuietInv
<1>. QED
  BY <1>5, <1>6, <1>7 DEF ListingInv

(* A page of a list that agrees with what is held of the sessions nobody   *)
(* wrote.                                                                  *)
LEMMA ShowInv ==
    ASSUME ListingInv, listing.phase = "reading", UNCHANGED <<records, clock>>, NEW S, Listable(S),
           \A m : m.session \in listing.untouched => (m \in HeldIn(records) <=> m \in S),
           listing.quiet => \A m \in S : m.session \in listing.untouched,
           Show(PageTaken(Candidates(S, listing.options, listing.cursor), listing.options, listing.cursor))
    PROVE  ListingInv'
<1>. DEFINE C == Candidates(S, listing.options, listing.cursor)
            page == PageTaken(C, listing.options, listing.cursor)
            n == Len(listing.pages)
<1>1. Stored(records) /\ clock \in Nat /\ listing \in Listings /\ listing.options \in Options
  BY DEF ListingInv, ListTypeInv, AskedInv
<1>2. page \in Pages /\ page.items \in Seq(C)
  BY <1>1, CandidatesListable, PageType, PageTakenShows DEF PageShows
<1>3. C \subseteq S
  BY DEF Candidates
<1>4. listing' = [listing EXCEPT !.phase = "idle", !.pages = Append(@, page),
                                 !.as = listing.options, !.reads = {}, !.scanned = {}, !.due = {}]
  BY DEF Show
<1>5. listing.pages \in Seq(Pages) /\ n \in Nat
  BY <1>1 DEF Listings
<1>6. Walked(listing.pages, listing.as, HeldIn(records), listing.untouched)
  BY DEF ListingInv, WalkInv
<1>7. /\ listing.pages = <<>> => listing.cursor = Undefined
      /\ listing.pages # <<>> =>
           /\ listing.cursor = listing.pages[Len(listing.pages)].next /\ listing.cursor # Undefined
           /\ listing.options.direction = listing.as.direction
           /\ listing.options.filter = listing.as.filter
  BY DEF ListingInv, AskedInv
<1>8. Walked(Append(listing.pages, page), listing.options, HeldIn(records), listing.untouched)
  BY <1>1, <1>5, <1>6, <1>7, WalkGrows
<1>. HIDE DEF page, C
<1>9. Append(listing.pages, page) \in Seq(Pages) /\ Len(Append(listing.pages, page)) = n + 1
      /\ Append(listing.pages, page) # <<>>
      /\ \A i \in 1..(n + 1) : Append(listing.pages, page)[i] = IF i = n + 1 THEN page ELSE listing.pages[i]
  BY <1>2, <1>5
<1>10. /\ listing' \in Listings
       /\ listing'.phase = "idle" /\ listing'.pages = Append(listing.pages, page)
       /\ listing'.as = listing.options /\ listing'.untouched = listing.untouched
       /\ listing'.quiet = listing.quiet
  BY <1>1, <1>4, <1>9 DEF Listings, Phases
<1>11. ListTypeInv' /\ AskedInv' /\ ScanInv' /\ WalkInv'
  BY <1>1, <1>8, <1>9, <1>10 DEF ListTypeInv, AskedInv, ScanInv, WalkInv
<1>12. QuietInv'
  <2>. SUFFICES ASSUME listing.quiet PROVE QuietInv'
    BY <1>10 DEF QuietInv
  <2>1. /\ SessionsAt(DOMAIN records) \subseteq listing.untouched
        /\ \A i \in 1..n : \A j \in 1..Len(listing.pages[i].items) :
             listing.pages[i].items[j].session \in listing.untouched
    BY DEF ListingInv, QuietInv
  <2>2. \A j \in 1..Len(page.items) : page.items[j].session \in listing.untouched
    BY <1>2, <1>3
  <2>. HIDE DEF n
  <2>3. \A i \in 1..(n + 1) : i = n + 1 \/ i \in 1..n
    BY <1>5
  <2>4. \A i \in 1..(n + 1) : \A j \in 1..Len(Append(listing.pages, page)[i].items) :
          Append(listing.pages, page)[i].items[j].session \in listing.untouched
    BY <1>5, <1>9, <2>1, <2>2, <2>3
  <2>. QED
    BY <1>9, <1>10, <2>1, <2>4 DEF QuietInv
<1>. QED
  BY <1>11, <1>12 DEF ListingInv

LEMMA LookOnceInv == ASSUME ListingInv, LookOnce PROVE ListingInv'
<1>1. /\ listing.phase = "reading" /\ UNCHANGED <<records, clock>>
      /\ \/ Show(Paginated(Held, listing.options, listing.cursor))
         \/ Show(Queried(Held, listing.options, listing.cursor))
  BY DEF LookOnce
<1>. DEFINE H == HeldIn(records)
<1>2. Stored(records) /\ listing.options \in Options
  BY <1>1 DEF ListingInv, ListTypeInv, AskedInv
<1>3. Held = H /\ Listable(H) /\ \A m \in H : m.session \in SessionsAt(DOMAIN records)
  BY <1>2, HeldFromRecords, HeldListable
<1>. HIDE DEF H
<1>4. /\ Paginated(H, listing.options, listing.cursor) =
           PageTaken(Candidates(H, listing.options, listing.cursor), listing.options, listing.cursor)
      /\ Queried(H, listing.options, listing.cursor) =
           PageTaken(Candidates(H, listing.options, listing.cursor), listing.options, listing.cursor)
  BY <1>2, <1>3, PaginatedTakes, QueriedTakes
<1>5. Show(PageTaken(Candidates(H, listing.options, listing.cursor), listing.options, listing.cursor))
  BY <1>1, <1>3, <1>4
<1>6. listing.quiet => \A m \in H : m.session \in listing.untouched
  BY <1>1, <1>3 DEF ListingInv, QuietInv
<1>. QED
  BY <1>1, <1>3, <1>5, <1>6, ShowInv DEF H

LEMMA ScanEndsInv == ASSUME ListingInv, ScanEnds PROVE ListingInv'
<1>. DEFINE S == Collected(listing.reads)
<1>1. /\ listing.phase = "reading" /\ UNCHANGED <<records, clock>>
      /\ listing.due \intersect DOMAIN records \subseteq listing.scanned
      /\ Show(Paginated(S, listing.options, listing.cursor))
  BY DEF ScanEnds
<1>2. Stored(records) /\ listing.options \in Options /\ listing.reads \in SUBSET Reads
  BY <1>1 DEF ListingInv, ListTypeInv, AskedInv, Listings
<1>3. /\ IsFiniteSet(listing.reads)
      /\ \A r, q \in listing.reads : KeyRead(r) = KeyRead(q) => r = q
      /\ \A r \in listing.reads : r.session \in listing.untouched => ReadStands(records, r)
      /\ \A k \in DOMAIN records : k[1] \in listing.untouched => ReadFrom(records, k) \in listing.reads
  BY <1>1 DEF ListingInv, ScanInv
<1>. HIDE DEF S
<1>4. /\ Listable(S)
      /\ \A m : m.session \in listing.untouched => (m \in HeldIn(records) <=> m \in S)
      /\ \A m \in S : \E r \in listing.reads : r.session = m.session
  BY <1>2, <1>3, ScanCollects DEF S
<1>5. Show(PageTaken(Candidates(S, listing.options, listing.cursor), listing.options, listing.cursor))
  BY <1>1, <1>2, <1>4, PaginatedTakes
<1>6. listing.quiet => \A m \in S : m.session \in listing.untouched
  BY <1>1, <1>4 DEF ListingInv, QuietInv
<1>. QED
  BY <1>1, <1>4, <1>5, <1>6, ShowInv

LEMMA NextInv == ListingInv /\ [ListNext]_lvars => ListingInv'
<1>. SUFFICES ASSUME ListingInv, [ListNext]_lvars PROVE ListingInv'
  OBVIOUS
<1>1. CASE Ask
  BY <1>1, AskInv
<1>2. CASE LookOnce
  BY <1>2, LookOnceInv
<1>3. CASE ScanEnds
  BY <1>3, ScanEndsInv
<1>4. ASSUME NEW key \in Keys, ScanKey(key) PROVE ListingInv'
  BY <1>4, ScanKeyInv
<1>5. ASSUME NEW session \in Sessions, Set(session) PROVE ListingInv'
  BY <1>5, SetInv
<1>6. ASSUME NEW session \in Sessions, DropLegacy(session) PROVE ListingInv'
  BY <1>6, DropLegacyInv
<1>7. ASSUME NEW session \in Sessions, Delete(session) PROVE ListingInv'
  BY <1>7, DeleteInv
<1>8. CASE UNCHANGED lvars
  BY <1>8 DEF lvars, ListingInv, ListTypeInv, AskedInv, ScanInv, QuietInv, WalkInv
<1>. QED
  BY <1>1, <1>2, <1>3, <1>4, <1>5, <1>6, <1>7, <1>8 DEF ListNext

----------------------------------------------------------------------------
LEMMA InvCovers == ListingInv => PagesCoverListing
<1>. SUFFICES ASSUME ListingInv, listing.pages # <<>> PROVE UndisturbedShownOnce /\ BackShowsSame
  BY DEF PagesCoverListing
<1>. DEFINE P == listing.pages
            H == HeldIn(records)
            n == Len(P)
<1>1. /\ Stored(records) /\ P \in Seq(Pages) /\ listing.as \in Options
      /\ listing.as.direction \in Directions
      /\ Walked(P, listing.as, H, listing.untouched)
  BY LimitDomain DEF ListingInv, ListTypeInv, Listings, WalkInv
<1>2. Held = H /\ Listable(H) /\ \A m \in H : m.session \in SessionsAt(DOMAIN records)
  BY <1>1, HeldFromRecords, HeldListable
<1>3. Kept = KeptOf(H, listing.untouched, listing.as)
  BY <1>2 DEF Kept, KeptOf
<1>4. \A s : Placements(s) = PlacesIn(P, s)
  BY DEF Placements, PlacesIn
<1>. HIDE DEF H
<1>5. \A m : Passed(Last(P), m) <=> ~Behind(P[n], listing.as, m)
  BY DEF Passed, Behind, Last
<1>6. ASSUME NEW m \in Kept
      PROVE  Cardinality(Placements(m.session)) = IF Passed(Last(P), m) THEN 1 ELSE 0
  <2>1. Cardinality(PlacesIn(P, m.session)) = IF Behind(P[n], listing.as, m) THEN 0 ELSE 1
    BY <1>1, <1>2, <1>3, PlacesCounted
  <2>. QED
    BY <1>4, <1>5, <2>1
<1>7. ASSUME NEW a \in Kept, NEW b \in Kept, Before(a, b),
             NEW p \in Placements(a.session), NEW q \in Placements(b.session)
      PROVE  Above(p, q)
  <2>1. a \in KeptOf(H, listing.untouched, listing.as) /\ b \in KeptOf(H, listing.untouched, listing.as)
        /\ p \in PlacesIn(P, a.session) /\ q \in PlacesIn(P, b.session)
    BY <1>3, <1>4
  <2>2. IF p[1] = q[1] THEN p[2] < q[2]
        ELSE IF listing.as.direction = "forward" THEN p[1] < q[1] ELSE q[1] < p[1]
    BY <1>1, <1>2, <1>7, <2>1, PlacesOrdered
  <2>. QED
    BY <2>2 DEF Above
<1>8. UndisturbedShownOnce
  BY <1>6, <1>7 DEF UndisturbedShownOnce
<1>9. BackShowsSame
  <2>. SUFFICES ASSUME listing.quiet, P[n].previous # Undefined
                PROVE  Paginated(Held, [direction |-> P[n].previous.direction,
                                        filter |-> listing.as.filter,
                                        limit |-> Len(P[n - 1].items)],
                                 P[n].previous).items = P[n - 1].items
    BY DEF BackShowsSame, Last
  <2>1. \A m \in H : m.session \in listing.untouched
    BY <1>2 DEF ListingInv, QuietInv
  <2>2. \A i \in 1..Len(P) : \A j \in 1..Len(P[i].items) : P[i].items[j].session \in listing.untouched
    BY DEF ListingInv, QuietInv
  <2>. HIDE DEF P, n
  <2>3. Len(P) = n /\ P # <<>>
    BY DEF P, n
  <2>. QED
    BY <1>1, <1>2, <2>1, <2>2, <2>3, StepsBack, SMTT(60)
<1>. QED
  BY <1>8, <1>9

(* A session nobody wrote during a walk over the listing is shown once,    *)
(* in its place, by memory, Postgres and the scan of Redis alike, whatever *)
(* is written, dropped or deleted meanwhile; and stepping back over a      *)
(* quiet listing shows the page before again.                              *)
THEOREM ListingCorrect == ListSpec => []PagesCoverListing
<1>1. ListSpec => []ListingInv
  BY ListingInit, NextInv, PTL DEF ListSpec
<1>. QED
  BY <1>1, InvCovers, PTL

============================================================================
