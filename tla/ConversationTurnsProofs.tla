----------------------- MODULE ConversationTurnsProofs -----------------------
(***************************************************************************)
(* Theorems about ConversationTurns for every number of turns, calls,      *)
(* rounds and every context manager: types, the turn queue and its order,  *)
(* the re-entrancy guard, the store, and aborts; then what a conversation  *)
(* keeps of its turns: its total cost, its budgets and its history, and    *)
(* what the context strategies leave of a history.                         *)
(***************************************************************************)
EXTENDS ConversationTurns, ContextTrimming, FiniteSetTheorems, FunctionTheorems,
        SequenceTheorems, NaturalsInduction, WellFoundedInduction, TLAPS

(* A queued turn's signal has not fired: onAbort dequeues it at once.      *)
QueueInv ==
    /\ TurnQueueSound
    /\ \A t \in Turns : pc[t] = "queued" => ~aborted[t]

(* The counter counts the callbacks that run; none is of a later round     *)
(* than its turn; a turn in its body has only its own.                     *)
CallbackInv ==
    /\ IsFiniteSet(running)
    /\ activeToolExecutions = Cardinality(running)
    /\ \A cb \in running : cb[2] <= round[cb[1]]
    /\ NoForeignCallback

IInv == TypeOK /\ QueueInv /\ CallbackInv

-----------------------------------------------------------------------------
(* Facts about the operators.                                              *)

(* Removing the i-th element shifts the later ones down by one.            *)
LEMMA RemoveAtFacts ==
    ASSUME NEW S, NEW s \in Seq(S), NEW i \in 1..Len(s)
    PROVE  /\ RemoveAt(s, i) \in Seq(S)
           /\ Len(RemoveAt(s, i)) = Len(s) - 1
           /\ \A j \in 1..(Len(s) - 1) :
                 RemoveAt(s, i)[j] = IF j < i THEN s[j] ELSE s[j + 1]
<1>1. /\ SubSeq(s, 1, i - 1) \in Seq(S)
      /\ Len(SubSeq(s, 1, i - 1)) = i - 1
      /\ \A j \in 1..(i - 1) : SubSeq(s, 1, i - 1)[j] = s[j]
  OBVIOUS
<1>2. /\ SubSeq(s, i + 1, Len(s)) \in Seq(S)
      /\ Len(SubSeq(s, i + 1, Len(s))) = Len(s) - i
      /\ \A j \in 1..(Len(s) - i) : SubSeq(s, i + 1, Len(s))[j] = s[i + j]
  OBVIOUS
<1>. DEFINE front == SubSeq(s, 1, i - 1)
            back  == SubSeq(s, i + 1, Len(s))
<1>3. /\ front \o back \in Seq(S)
      /\ Len(front \o back) = Len(front) + Len(back)
      /\ \A j \in 1..(Len(front) + Len(back)) :
            (front \o back)[j] = IF j <= Len(front) THEN front[j] ELSE back[j - Len(front)]
  <2>. HIDE DEF front, back
  <2>. QED
    BY <1>1, <1>2, ConcatProperties DEF front, back
<1>4. RemoveAt(s, i) = front \o back
  BY DEF RemoveAt
<1>. HIDE DEF front, back
<1>5. Len(front) = i - 1 /\ Len(back) = Len(s) - i /\ Len(s) \in Nat /\ i \in Nat
  BY <1>1, <1>2 DEF front, back
<1>6. ASSUME NEW j \in 1..(Len(s) - 1)
      PROVE  RemoveAt(s, i)[j] = IF j < i THEN s[j] ELSE s[j + 1]
  <2>1. CASE j < i
    BY <1>1, <1>3, <1>4, <1>5, <2>1 DEF front
  <2>2. CASE ~(j < i)
    <3>1. RemoveAt(s, i)[j] = back[j - (i - 1)]
      BY <1>3, <1>4, <1>5, <2>2
    <3>2. j - (i - 1) \in 1..(Len(s) - i) /\ i + (j - (i - 1)) = j + 1
      BY <1>5, <2>2
    <3>3. back[j - (i - 1)] = s[i + (j - (i - 1))]
      BY <1>2, <3>2 DEF back
    <3>. QED
      BY <2>2, <3>1, <3>2, <3>3
  <2>. QED
    BY <2>1, <2>2
<1>7. RemoveAt(s, i) \in Seq(S)
  BY <1>3, <1>4
<1>8. Len(RemoveAt(s, i)) = Len(s) - 1
  <2>1. Len(RemoveAt(s, i)) = Len(front) + Len(back)
    BY <1>3, <1>4
  <2>. QED
    BY <1>5, <2>1
<1>. QED
  BY <1>6, <1>7, <1>8

(* What is left of a queue after its first i elements.                     *)
LEMMA SuffixFacts ==
    ASSUME NEW S, NEW s \in Seq(S), NEW i \in 1..Len(s)
    PROVE  /\ SubSeq(s, i + 1, Len(s)) \in Seq(S)
           /\ Len(SubSeq(s, i + 1, Len(s))) = Len(s) - i
           /\ \A j \in 1..(Len(s) - i) : SubSeq(s, i + 1, Len(s))[j] = s[i + j]
OBVIOUS

(* A message is well-formed.                                               *)
LEMMA MsgType ==
    ASSUME NEW t \in Turns, NEW k \in Kinds
    PROVE  Msg(t, k) \in Message
BY DEF Msg, Message

LEMMA MsgAppendType ==
    ASSUME NEW t \in Turns, NEW k \in Kinds, NEW w \in Seq(Message)
    PROVE  Append(w, Msg(t, k)) \in Seq(Message)
BY MsgType

(* Release keeps the shape of what it changes.                             *)
LEMMA ReleaseType ==
    ASSUME TypeOK, NEW t \in Turns, NEW outcome \in Ended, Release(t, outcome)
    PROVE  /\ pc' \in [Turns -> Phase]
           /\ turnActive' \in BOOLEAN
           /\ turnWaiters' \in Seq(Turns)
<1>. USE DEF Phase, Ended, Holding, Body
<1>1. CASE /\ turnActive' = FALSE
           /\ turnWaiters' = <<>>
           /\ pc' = [u \in Turns |->
                        IF u = t THEN outcome
                        ELSE IF pc[u] = "queued" THEN "rejected" ELSE pc[u]]
  <2>1. pc' \in [Turns -> Phase]
    BY <1>1 DEF TypeOK
  <2>2. turnWaiters' \in Seq(Turns)
    BY <1>1
  <2>3. turnActive' \in BOOLEAN
    BY <1>1
  <2>. QED
    BY <2>1, <2>2, <2>3
<1>2. ASSUME NEW i \in 1..Len(turnWaiters),
             turnWaiters' = SubSeq(turnWaiters, i + 1, Len(turnWaiters)),
             pc' = [u \in Turns |->
                       IF u = t THEN outcome
                       ELSE IF u = turnWaiters[i] THEN "granted"
                       ELSE IF \E j \in 1..(i - 1) : turnWaiters[j] = u THEN "rejected"
                       ELSE pc[u]],
             UNCHANGED turnActive
      PROVE  /\ pc' \in [Turns -> Phase]
             /\ turnActive' \in BOOLEAN
             /\ turnWaiters' \in Seq(Turns)
  <2>1. turnWaiters' \in Seq(Turns)
    BY <1>2, SuffixFacts DEF TypeOK
  <2>2. pc' \in [Turns -> Phase]
    BY <1>2 DEF TypeOK
  <2>. QED
    BY <1>2, <2>1, <2>2 DEF TypeOK
<1>. QED
  BY <1>1, <1>2 DEF Release

(* No turn is in its body right after a release.                           *)
LEMMA ReleaseEndsBody ==
    ASSUME TypeOK, QueueInv, NEW t \in Turns, pc[t] \in Holding,
           NEW outcome \in Ended, Release(t, outcome)
    PROVE  \A u \in Turns : pc'[u] \notin Body
<1>. USE DEF Holding, Body, Ended
<1>1. \A u \in Turns : u # t => pc[u] \notin Body
  BY DEF QueueInv, TurnQueueSound, OneHolder
<1>2. CASE pc' = [u \in Turns |->
                    IF u = t THEN outcome
                    ELSE IF pc[u] = "queued" THEN "rejected" ELSE pc[u]]
  BY <1>1, <1>2
<1>3. ASSUME NEW i \in 1..Len(turnWaiters),
             pc' = [u \in Turns |->
                       IF u = t THEN outcome
                       ELSE IF u = turnWaiters[i] THEN "granted"
                       ELSE IF \E j \in 1..(i - 1) : turnWaiters[j] = u THEN "rejected"
                       ELSE pc[u]]
      PROVE  \A u \in Turns : pc'[u] \notin Body
  BY <1>1, <1>3
<1>. QED
  BY <1>2, <1>3 DEF Release

(* A release keeps the queue sound: with no waiter the conversation        *)
(* becomes free, otherwise the first waiter, whose signal cannot have      *)
(* fired, becomes the holder.                                              *)
LEMMA ReleaseQueue ==
    ASSUME TypeOK, QueueInv, NEW t \in Turns, pc[t] \in Holding,
           NEW outcome \in Ended, Release(t, outcome), UNCHANGED aborted
    PROVE  QueueInv'
<1>. USE DEF Holding, Body, Ended
<1>1. \A u \in Turns : u # t => pc[u] \notin Holding
  BY DEF QueueInv, TurnQueueSound, OneHolder
<1>2. \A i \in 1..Len(turnWaiters) :
         turnWaiters[i] \in Turns /\ pc[turnWaiters[i]] = "queued" /\ ~aborted[turnWaiters[i]]
  <2>1. \A i \in 1..Len(turnWaiters) : turnWaiters[i] \in Turns
    BY DEF TypeOK
  <2>. QED
    BY <2>1 DEF QueueInv, TurnQueueSound
<1>3. CASE /\ \A i \in 1..Len(turnWaiters) : aborted[turnWaiters[i]]
           /\ turnActive' = FALSE
           /\ turnWaiters' = <<>>
           /\ pc' = [u \in Turns |->
                        IF u = t THEN outcome
                        ELSE IF pc[u] = "queued" THEN "rejected" ELSE pc[u]]
  <2>1. \A u \in Turns : pc'[u] \notin Holding /\ pc'[u] # "queued"
    BY <1>1, <1>3
  <2>. QED
    BY <1>3, <2>1 DEF QueueInv, TurnQueueSound, OneHolder
<1>4. ASSUME NEW i \in 1..Len(turnWaiters),
             \A j \in 1..(i - 1) : aborted[turnWaiters[j]],
             turnWaiters' = SubSeq(turnWaiters, i + 1, Len(turnWaiters)),
             pc' = [u \in Turns |->
                       IF u = t THEN outcome
                       ELSE IF u = turnWaiters[i] THEN "granted"
                       ELSE IF \E j \in 1..(i - 1) : turnWaiters[j] = u THEN "rejected"
                       ELSE pc[u]],
             UNCHANGED turnActive
      PROVE  QueueInv'
  <2>1. i = 1
    <3>1. i # 1 => 1 \in 1..(i - 1) /\ 1 \in 1..Len(turnWaiters)
      OBVIOUS
    <3>. QED
      BY <1>2, <1>4, <3>1
  <2>. DEFINE first == turnWaiters[1]
  <2>2. /\ first \in Turns /\ pc[first] = "queued" /\ first # t
        /\ pc' = [u \in Turns |-> IF u = t THEN outcome
                                  ELSE IF u = first THEN "granted" ELSE pc[u]]
    BY <1>2, <1>4, <2>1
  <2>3. /\ Len(turnWaiters') = Len(turnWaiters) - 1
        /\ \A j \in 1..Len(turnWaiters') : turnWaiters'[j] = turnWaiters[j + 1]
        /\ Len(turnWaiters) \in Nat
    <3>1. turnWaiters \in Seq(Turns) /\ Len(turnWaiters) \in Nat
      BY DEF TypeOK
    <3>2. \A j \in 1..(Len(turnWaiters) - 1) : turnWaiters'[j] = turnWaiters[1 + j]
      BY <1>4, <2>1, <3>1, SuffixFacts
    <3>3. Len(turnWaiters') = Len(turnWaiters) - 1
      BY <1>4, <2>1, <3>1, SuffixFacts
    <3>. QED
      BY <3>1, <3>2, <3>3
  <2>. HIDE DEF first
  <2>4. \A u \in Turns : pc'[u] \in Holding <=> u = first
    BY <1>1, <2>2
  <2>5. turnActive'
    BY <1>4 DEF QueueInv, TurnQueueSound
  <2>6. \A u \in Turns : pc'[u] = "queued" <=> pc[u] = "queued" /\ u # first
    BY <1>1, <2>2
  <2>7. \A j \in 1..Len(turnWaiters') : turnWaiters'[j] # first
    BY <2>3 DEF QueueInv, TurnQueueSound, first
  <2>8. ASSUME NEW u \in Turns
        PROVE  pc'[u] = "queued" <=> \E j \in 1..Len(turnWaiters') : turnWaiters'[j] = u
    <3>1. ASSUME pc'[u] = "queued"
          PROVE  \E j \in 1..Len(turnWaiters') : turnWaiters'[j] = u
      <4>1. PICK k \in 1..Len(turnWaiters) : turnWaiters[k] = u
        BY <2>6, <3>1 DEF QueueInv, TurnQueueSound
      <4>2. k # 1
        BY <2>6, <3>1, <4>1 DEF first
      <4>3. k - 1 \in 1..Len(turnWaiters') /\ (k - 1) + 1 = k
        BY <2>3, <4>2
      <4>. QED
        BY <2>3, <4>1, <4>3
    <3>2. ASSUME NEW j \in 1..Len(turnWaiters'), turnWaiters'[j] = u
          PROVE  pc'[u] = "queued"
      <4>1. j + 1 \in 1..Len(turnWaiters) /\ turnWaiters[j + 1] = u
        BY <2>3, <3>2
      <4>. QED
        BY <1>2, <2>6, <2>7, <3>2, <4>1
    <3>. QED
      BY <3>1, <3>2
  <2>9. \A j, k \in 1..Len(turnWaiters') : turnWaiters'[j] = turnWaiters'[k] => j = k
    BY <2>3 DEF QueueInv, TurnQueueSound
  <2>10. \A u \in Turns : pc'[u] = "queued" => ~aborted'[u]
    BY <2>6 DEF QueueInv
  <2>. QED
    BY <2>2, <2>4, <2>5, <2>8, <2>9, <2>10 DEF QueueInv, TurnQueueSound, OneHolder
<1>. QED
  BY <1>3, <1>4 DEF Release

(* A turn that moves on while it holds the conversation leaves the queue   *)
(* alone.                                                                  *)
LEMMA MoveQueue ==
    ASSUME TypeOK, QueueInv, NEW t \in Turns, pc[t] \in Holding, NEW p \in Holding,
           pc' = [pc EXCEPT ![t] = p], UNCHANGED <<queueVars, aborted>>
    PROVE  QueueInv'
<1>1. \A u \in Turns : (pc'[u] \in Holding <=> pc[u] \in Holding)
                         /\ (pc'[u] = "queued" <=> pc[u] = "queued")
  BY DEF TypeOK, Holding, Body
<1>2. UNCHANGED <<turnActive, turnWaiters, aborted>>
  BY DEF queueVars
<1>. QED
  BY <1>1, <1>2 DEF QueueInv, TurnQueueSound, OneHolder

(* A step that touches neither phases nor queue.                           *)
LEMMA QuietQueue ==
    ASSUME QueueInv, UNCHANGED <<pc, queueVars, aborted>>
    PROVE  QueueInv'
BY DEF QueueInv, TurnQueueSound, OneHolder, queueVars

(* A step that starts and settles no callback and lets no turn enter its   *)
(* body.                                                                   *)
LEMMA QuietCallbacks ==
    ASSUME CallbackInv, UNCHANGED <<toolVars, round>>,
           \A u \in Turns : pc'[u] \in Body => pc[u] \in Body
    PROVE  CallbackInv'
BY DEF CallbackInv, NoForeignCallback, toolVars

(* A move within the body.                                                 *)
LEMMA MoveCallbacks ==
    ASSUME TypeOK, CallbackInv, NEW t \in Turns, pc[t] \in Body, NEW p \in Body,
           pc' = [pc EXCEPT ![t] = p], UNCHANGED <<toolVars, round>>
    PROVE  CallbackInv'
<1>1. \A u \in Turns : pc'[u] \in Body => pc[u] \in Body
  BY DEF TypeOK
<1>. QED
  BY <1>1, QuietCallbacks

(* Conclude, FinishRound and Answer move the turn within its body and keep *)
(* its working messages a list of messages.                                *)
LEMMA ConcludeMoves ==
    ASSUME NEW t \in Turns, NEW w \in Seq(Message), Conclude(t, w)
    PROVE  \E p \in Body : pc' = [pc EXCEPT ![t] = p] /\ work' = [work EXCEPT ![t] = w]
BY DEF Conclude, Body

LEMMA FinishRoundMoves ==
    ASSUME NEW t \in Turns, NEW msgs \in Seq(Message), FinishRound(t, msgs)
    PROVE  \E p \in Body : \E w \in Seq(Message) :
              pc' = [pc EXCEPT ![t] = p] /\ work' = [work EXCEPT ![t] = w]
<1>. DEFINE w == Append(msgs, Msg(t, "results"))
<1>1. w \in Seq(Message)
  BY MsgAppendType DEF Kinds
<1>. HIDE DEF w
<1>2. CASE HasExecutor
  BY <1>1, <1>2 DEF FinishRound, Body, w
<1>3. CASE ~HasExecutor
  <2>1. Conclude(t, w)
    BY <1>3 DEF FinishRound, w
  <2>. QED
    BY <1>1, <2>1, ConcludeMoves
<1>. QED
  BY <1>2, <1>3

LEMMA AnswerMoves ==
    ASSUME TypeOK, NEW t \in Turns, NEW c, pc[t] = "executing", Answer(t, c)
    PROVE  /\ pending' \in [Turns -> SUBSET Calls]
           /\ \E p \in Body : \E w \in Seq(Message) :
                 pc' = [pc EXCEPT ![t] = p] /\ work' = [work EXCEPT ![t] = w]
<1>1. pending' \in [Turns -> SUBSET Calls]
  BY DEF TypeOK, Answer
<1>2. work[t] \in Seq(Message)
  BY DEF TypeOK
<1>3. CASE FinishRound(t, work[t])
  BY <1>1, <1>2, <1>3, FinishRoundMoves
<1>4. CASE UNCHANGED <<pc, work>>
  <2>1. pc' = [pc EXCEPT ![t] = "executing"] /\ work' = [work EXCEPT ![t] = work[t]]
    BY <1>4 DEF TypeOK
  <2>. QED
    BY <1>1, <1>2, <2>1 DEF Body
<1>. QED
  BY <1>1, <1>3, <1>4 DEF Answer

LEMMA MoveType ==
    ASSUME TypeOK, NEW t \in Turns,
           \E p \in Body : \E w \in Seq(Message) :
              pc' = [pc EXCEPT ![t] = p] /\ work' = [work EXCEPT ![t] = w]
    PROVE  pc' \in [Turns -> Phase] /\ work' \in [Turns -> Seq(Message)]
BY DEF TypeOK, Phase, Holding

-----------------------------------------------------------------------------
(* Steps that several actions share.                                       *)

(* A turn that fails.                                                      *)
LEMMA FailStep ==
    ASSUME IInv, NEW t \in Turns, pc[t] \in Holding, Fail(t)
    PROVE  IInv'
<1>. USE DEF IInv, Fail
<1>1. Release(t, "failed") /\ "failed" \in Ended
  BY DEF Ended
<1>2. TypeOK'
  BY <1>1, ReleaseType DEF TypeOK, toolVars, loopVars, stateVars, storeVars
<1>3. QueueInv'
  BY <1>1, ReleaseQueue
<1>4. CallbackInv'
  BY <1>1, ReleaseEndsBody, QuietCallbacks DEF loopVars
<1>. QED
  BY <1>2, <1>3, <1>4

(* A turn that moves on in its body without touching callbacks.            *)
LEMMA MoveStep ==
    ASSUME IInv, NEW t \in Turns, pc[t] \in Body,
           \E p \in Body : \E w \in Seq(Message) :
              pc' = [pc EXCEPT ![t] = p] /\ work' = [work EXCEPT ![t] = w],
           pending' \in [Turns -> SUBSET Calls], spent' \in [Turns -> Nat],
           UNCHANGED <<aborted, queueVars, toolVars, round, stateVars, storeVars, arrivals>>
    PROVE  IInv'
<1>. USE DEF IInv
<1>1. TypeOK'
  <2>1. pc' \in [Turns -> Phase] /\ work' \in [Turns -> Seq(Message)]
    BY MoveType
  <2>. QED
    BY <2>1 DEF TypeOK, queueVars, toolVars, stateVars, storeVars
<1>2. QueueInv'
  BY MoveQueue DEF Holding
<1>3. CallbackInv'
  BY MoveCallbacks
<1>. QED
  BY <1>1, <1>2, <1>3

-----------------------------------------------------------------------------
(* The invariant is inductive.                                             *)

LEMMA InitInv == Init => IInv
<1>. SUFFICES ASSUME Init PROVE IInv
  OBVIOUS
<1>1. TypeOK
  <2>1. <<>> \in Seq(Message) /\ <<>> \in Seq(Turns)
    OBVIOUS
  <2>2. stored \in [version : Nat, messages : Seq(Message), cost : Nat]
    BY <2>1 DEF Init
  <2>. QED
    BY <2>1, <2>2 DEF Init, TypeOK, Phase
<1>2. QueueInv
  BY DEF Init, QueueInv, TurnQueueSound, OneHolder, Holding, Body
<1>3. CallbackInv
  BY FS_EmptySet DEF Init, CallbackInv, NoForeignCallback, Body
<1>. QED
  BY <1>1, <1>2, <1>3 DEF IInv

(* A new call is rejected, takes the free conversation, or joins the queue *)
(* at its end.                                                             *)
LEMMA CallStep ==
    ASSUME IInv, NEW t \in Turns, Call(t)
    PROVE  IInv'
<1>. USE DEF IInv
<1>1. pc' \in [Turns -> Phase] /\ turnWaiters' \in Seq(Turns) /\ turnActive' \in BOOLEAN
         /\ arrivals' \in Seq(Turns)
  <2>1. pc' \in [Turns -> Phase]
    BY DEF Call, TypeOK, Phase, Holding, Ended
  <2>2. turnWaiters' \in Seq(Turns)
    <3>1. Append(turnWaiters, t) \in Seq(Turns) /\ turnWaiters \in Seq(Turns)
      BY DEF TypeOK
    <3>. QED
      BY <3>1 DEF Call, queueVars
  <2>3. turnActive' \in BOOLEAN
    BY DEF Call, TypeOK, queueVars
  <2>4. arrivals' \in Seq(Turns)
    <3>1. Append(arrivals, t) \in Seq(Turns) /\ arrivals \in Seq(Turns)
      BY DEF TypeOK
    <3>. QED
      BY <3>1 DEF Call
  <2>. QED
    BY <2>1, <2>2, <2>3, <2>4
<1>2. TypeOK'
  BY <1>1 DEF Call, TypeOK, toolVars, loopVars, stateVars, storeVars
<1>3. QueueInv'
  <2>1. CASE pc' = [pc EXCEPT ![t] = "rejected"] /\ UNCHANGED queueVars
    <3>1. \A u \in Turns : (pc'[u] \in Holding <=> pc[u] \in Holding)
                             /\ (pc'[u] = "queued" <=> pc[u] = "queued")
      BY <2>1 DEF Call, TypeOK, Holding, Body
    <3>. QED
      BY <2>1, <3>1 DEF Call, QueueInv, TurnQueueSound, OneHolder, queueVars
  <2>2. CASE ~turnActive /\ turnActive' = TRUE /\ UNCHANGED turnWaiters
               /\ pc' = [pc EXCEPT ![t] = "granted"]
    <3>1. \A u \in Turns : (pc'[u] \in Holding <=> u = t)
                             /\ (pc'[u] = "queued" <=> pc[u] = "queued")
      BY <2>2 DEF Call, TypeOK, QueueInv, TurnQueueSound, Holding, Body
    <3>. QED
      BY <2>2, <3>1 DEF Call, QueueInv, TurnQueueSound, OneHolder
  <2>3. CASE turnActive /\ ~aborted[t] /\ UNCHANGED turnActive
               /\ turnWaiters' = Append(turnWaiters, t)
               /\ pc' = [pc EXCEPT ![t] = "queued"]
    <3>1. \A u \in Turns : (pc'[u] \in Holding <=> pc[u] \in Holding)
                             /\ (pc'[u] = "queued" <=> pc[u] = "queued" \/ u = t)
      BY <2>3 DEF Call, TypeOK, Holding, Body
    <3>2. /\ Len(turnWaiters') = Len(turnWaiters) + 1 /\ Len(turnWaiters) \in Nat
          /\ \A i \in 1..Len(turnWaiters) : turnWaiters'[i] = turnWaiters[i]
          /\ turnWaiters'[Len(turnWaiters) + 1] = t
      BY <2>3 DEF TypeOK
    <3>3. \A i \in 1..Len(turnWaiters) : turnWaiters[i] # t
      BY DEF Call, QueueInv, TurnQueueSound
    <3>4. \A i, j \in 1..Len(turnWaiters') : turnWaiters'[i] = turnWaiters'[j] => i = j
      BY <3>2, <3>3 DEF QueueInv, TurnQueueSound
    <3>5. \A u \in Turns :
             pc'[u] = "queued" <=> \E i \in 1..Len(turnWaiters') : turnWaiters'[i] = u
      BY <3>1, <3>2 DEF QueueInv, TurnQueueSound
    <3>6. \A u \in Turns : pc'[u] = "queued" => ~aborted'[u]
      BY <2>3, <3>1 DEF Call, QueueInv
    <3>. QED
      BY <2>3, <3>1, <3>4, <3>5, <3>6 DEF QueueInv, TurnQueueSound, OneHolder
  <2>. QED
    BY <2>1, <2>2, <2>3 DEF Call
<1>4. CallbackInv'
  <2>1. \A u \in Turns : pc'[u] \in Body => pc[u] \in Body
    BY DEF Call, TypeOK, Body
  <2>. QED
    BY <2>1, QuietCallbacks DEF Call, loopVars
<1>. QED
  BY <1>2, <1>3, <1>4

(* onAbort takes the waiter out of the queue and closes the gap.           *)
LEMMA AbortStep ==
    ASSUME IInv, NEW t \in Turns, Abort(t)
    PROVE  IInv'
<1>. USE DEF IInv
<1>1. CASE pc[t] # "queued" /\ UNCHANGED <<pc, turnWaiters>>
  <2>1. TypeOK'
    <3>1. aborted' \in [Turns -> BOOLEAN]
      BY DEF Abort, TypeOK
    <3>. QED
      BY <1>1, <3>1 DEF Abort, TypeOK, toolVars, loopVars, stateVars, storeVars
  <2>2. QueueInv'
    <3>1. \A u \in Turns : pc[u] = "queued" => ~aborted'[u]
      BY <1>1 DEF Abort, TypeOK, QueueInv
    <3>. QED
      BY <1>1, <3>1 DEF Abort, QueueInv, TurnQueueSound, OneHolder
  <2>3. CallbackInv'
    BY <1>1, QuietCallbacks DEF Abort, loopVars
  <2>. QED
    BY <2>1, <2>2, <2>3
<1>2. ASSUME NEW i \in 1..Len(turnWaiters), pc[t] = "queued", turnWaiters[i] = t,
             turnWaiters' = RemoveAt(turnWaiters, i),
             pc' = [pc EXCEPT ![t] = "rejected"]
      PROVE  IInv'
  <2>1. /\ turnWaiters' \in Seq(Turns) /\ Len(turnWaiters) \in Nat
        /\ Len(turnWaiters') = Len(turnWaiters) - 1
        /\ \A j \in 1..(Len(turnWaiters) - 1) :
              turnWaiters'[j] = IF j < i THEN turnWaiters[j] ELSE turnWaiters[j + 1]
    <3>1. turnWaiters \in Seq(Turns) /\ Len(turnWaiters) \in Nat
      BY DEF TypeOK
    <3>. QED
      BY <1>2, <3>1, RemoveAtFacts
  <2>2. TypeOK'
    <3>1. pc' \in [Turns -> Phase]
      BY <1>2 DEF TypeOK, Phase, Ended
    <3>. QED
      BY <2>1, <3>1 DEF Abort, TypeOK, toolVars, loopVars, stateVars, storeVars
  <2>3. \A u \in Turns : (pc'[u] \in Holding <=> pc[u] \in Holding)
                           /\ (pc'[u] = "queued" <=> pc[u] = "queued" /\ u # t)
    BY <1>2 DEF TypeOK, Holding, Body
  <2>4. \A j, k \in 1..Len(turnWaiters') : turnWaiters'[j] = turnWaiters'[k] => j = k
    <3>. DEFINE old(j) == IF j < i THEN j ELSE j + 1
    <3>1. \A j \in 1..Len(turnWaiters') :
             old(j) \in 1..Len(turnWaiters) /\ turnWaiters'[j] = turnWaiters[old(j)]
      BY <2>1
    <3>2. \A j, k \in 1..Len(turnWaiters') : old(j) = old(k) => j = k
      BY <2>1
    <3>. HIDE DEF old
    <3>. QED
      BY <3>1, <3>2 DEF QueueInv, TurnQueueSound
  <2>5. ASSUME NEW u \in Turns
        PROVE  pc'[u] = "queued" <=> \E j \in 1..Len(turnWaiters') : turnWaiters'[j] = u
    <3>1. ASSUME pc'[u] = "queued"
          PROVE  \E j \in 1..Len(turnWaiters') : turnWaiters'[j] = u
      <4>1. PICK k \in 1..Len(turnWaiters) : turnWaiters[k] = u /\ k # i
        BY <1>2, <2>3, <3>1 DEF QueueInv, TurnQueueSound
      <4>2. CASE k < i
        <5>1. k \in 1..Len(turnWaiters') /\ turnWaiters'[k] = u
          BY <2>1, <4>1, <4>2
        <5>. QED
          BY <5>1
      <4>3. CASE k > i
        <5>1. k - 1 \in 1..Len(turnWaiters') /\ (k - 1) + 1 = k /\ ~(k - 1 < i)
          BY <2>1, <4>1, <4>3
        <5>2. turnWaiters'[k - 1] = u
          BY <2>1, <4>1, <5>1
        <5>. QED
          BY <5>1, <5>2
      <4>. QED
        BY <4>1, <4>2, <4>3
    <3>2. ASSUME NEW j \in 1..Len(turnWaiters'), turnWaiters'[j] = u
          PROVE  pc'[u] = "queued"
      <4>1. PICK k \in 1..Len(turnWaiters) : turnWaiters[k] = u /\ k # i
        BY <2>1, <3>2
      <4>2. u # t
        BY <1>2, <4>1 DEF QueueInv, TurnQueueSound
      <4>. QED
        BY <2>3, <4>1, <4>2 DEF QueueInv, TurnQueueSound
    <3>. QED
      BY <3>1, <3>2
  <2>6. QueueInv'
    <3>1. turnWaiters' # <<>> => turnActive'
      BY <1>2, <2>1 DEF Abort, QueueInv, TurnQueueSound
    <3>2. \A u \in Turns : pc'[u] = "queued" => ~aborted'[u]
      BY <2>3 DEF Abort, TypeOK, QueueInv
    <3>. QED
      BY <2>3, <2>4, <2>5, <3>1, <3>2 DEF Abort, QueueInv, TurnQueueSound, OneHolder
  <2>7. CallbackInv'
    <3>1. \A u \in Turns : pc'[u] \in Body => pc[u] \in Body
      BY <1>2 DEF TypeOK, Body
    <3>. QED
      BY <3>1, QuietCallbacks DEF Abort, loopVars
  <2>. QED
    BY <2>2, <2>6, <2>7
<1>. QED
  BY <1>1, <1>2 DEF Abort

(* The continuation of acquireTurn enters the body only when no callback   *)
(* runs.                                                                   *)
LEMMA StartStep ==
    ASSUME IInv, NEW t \in Turns, Start(t)
    PROVE  IInv'
<1>. USE DEF IInv
<1>1. pc[t] \in Holding
  BY DEF Start, Holding
<1>2. CASE Fail(t)
  BY <1>1, <1>2, FailStep
<1>3. ASSUME activeToolExecutions = 0,
             pc' = [pc EXCEPT ![t] = "preparing"],
             work' = [work EXCEPT ![t] = Append(messages, Msg(t, "user"))],
             UNCHANGED <<aborted, queueVars, toolVars, round, pending, spent,
                         stateVars, storeVars, arrivals>>
      PROVE  IInv'
  <2>1. "preparing" \in Body /\ "preparing" \in Holding
    BY DEF Body, Holding
  <2>2. TypeOK'
    <3>1. Append(messages, Msg(t, "user")) \in Seq(Message)
      BY MsgAppendType DEF TypeOK, Kinds
    <3>2. pc' \in [Turns -> Phase] /\ work' \in [Turns -> Seq(Message)]
      BY <1>3, <2>1, <3>1, MoveType
    <3>. QED
      BY <1>3, <3>2 DEF TypeOK, queueVars, toolVars, stateVars, storeVars
  <2>3. QueueInv'
    BY <1>1, <1>3, <2>1, MoveQueue
  <2>4. CallbackInv'
    <3>1. running = {}
      BY <1>3, FS_EmptySet DEF CallbackInv
    <3>. QED
      BY <1>3, <3>1 DEF CallbackInv, NoForeignCallback, toolVars
  <2>. QED
    BY <2>2, <2>3, <2>4
<1>. QED
  BY <1>2, <1>3 DEF Start

(* A tool round starts its callbacks and counts each of them; none of them *)
(* can be counted already, because the round is new.                       *)
LEMMA ToolReplyStep ==
    ASSUME IInv, NEW t \in Turns, NEW cost \in Costs, ToolReply(t, cost)
    PROVE  IInv'
<1>. USE DEF IInv
<1>. DEFINE next  == round[t] + 1
            asked == Append(work[t], Msg(t, "calls"))
<1>1. pc[t] \in Body /\ pc[t] \in Holding
  BY DEF ToolReply, Body, Holding
<1>2. spent' \in [Turns -> Nat]
  BY OptionsAssumption DEF ToolReply, TypeOK
<1>3. asked \in Seq(Message)
  BY MsgAppendType DEF TypeOK, Kinds
<1>4. next \in Nat
  BY DEF TypeOK
<1>5. CASE Release(t, "failed") /\ UNCHANGED <<toolVars, round, pending, work>>
  <2>1. "failed" \in Ended
    BY DEF Ended
  <2>2. TypeOK'
    BY <1>2, <1>5, <2>1, ReleaseType DEF ToolReply, TypeOK, toolVars, stateVars, storeVars
  <2>3. QueueInv'
    BY <1>1, <1>5, <2>1, ReleaseQueue DEF ToolReply
  <2>4. CallbackInv'
    BY <1>1, <1>5, <2>1, ReleaseEndsBody, QuietCallbacks
  <2>. QED
    BY <2>2, <2>3, <2>4
<1>6. ASSUME NEW started \in SUBSET Calls,
             round' = [round EXCEPT ![t] = next],
             running' = running \cup {<<t, next, c>> : c \in started},
             activeToolExecutions' = activeToolExecutions + Cardinality(started),
             pending' = [pending EXCEPT ![t] = started],
             \/ FinishRound(t, asked)
             \/ work' = [work EXCEPT ![t] = asked] /\ pc' = [pc EXCEPT ![t] = "executing"],
             UNCHANGED queueVars
      PROVE  IInv'
  <2>1. \E p \in Body : \E w \in Seq(Message) :
           pc' = [pc EXCEPT ![t] = p] /\ work' = [work EXCEPT ![t] = w]
    <3>. HIDE DEF asked
    <3>1. CASE FinishRound(t, asked)
      BY <1>3, <3>1, FinishRoundMoves
    <3>2. CASE work' = [work EXCEPT ![t] = asked] /\ pc' = [pc EXCEPT ![t] = "executing"]
      BY <1>3, <3>2 DEF Body
    <3>. QED
      BY <1>6, <3>1, <3>2
  <2>2. IsFiniteSet(started)
    BY FS_Subset, TurnsAssumption
  <2>. DEFINE fresh == {<<t, next, c>> : c \in started}
  <2>3. IsFiniteSet(fresh) /\ Cardinality(fresh) = Cardinality(started)
    <3>. DEFINE f == [c \in started |-> <<t, next, c>>]
    <3>1. /\ f \in [started -> fresh]
          /\ \A a, b \in started : f[a] = f[b] => a = b
          /\ \A x \in fresh : \E c \in started : f[c] = x
      OBVIOUS
    <3>2. f \in Bijection(started, fresh)
      <4>. HIDE DEF f, fresh
      <4>. QED
        BY <3>1, Fun_IsBij
    <3>. QED
      BY <2>2, <3>2, FS_Bijection DEF ExistsBijection
  <2>4. running \cap fresh = {}
    BY <1>4 DEF CallbackInv, TypeOK
  <2>5. IsFiniteSet(running') /\ Cardinality(running') = Cardinality(running) + Cardinality(fresh)
    <3>. HIDE DEF fresh
    <3>1. running' = running \cup fresh
      BY <1>6 DEF fresh
    <3>2. Cardinality(running \cap fresh) = 0
      BY <2>4, FS_EmptySet
    <3>3. Cardinality(running) \in Nat /\ Cardinality(fresh) \in Nat
      BY <2>3, FS_CardinalityType DEF CallbackInv
    <3>. QED
      BY <2>3, <3>1, <3>2, <3>3, FS_Union DEF CallbackInv
  <2>6. fresh \in SUBSET Callback
    BY <1>4 DEF Callback
  <2>7. TypeOK'
    <3>1. pc' \in [Turns -> Phase] /\ work' \in [Turns -> Seq(Message)]
      BY <2>1, MoveType
    <3>2. activeToolExecutions' \in Nat
      BY <1>6, <2>2, FS_CardinalityType DEF TypeOK
    <3>3. running' \in SUBSET Callback
      BY <1>6, <2>6 DEF TypeOK
    <3>4. round' \in [Turns -> Nat] /\ pending' \in [Turns -> SUBSET Calls]
      BY <1>4, <1>6 DEF TypeOK
    <3>. QED
      BY <1>2, <1>6, <3>1, <3>2, <3>3, <3>4 DEF ToolReply, TypeOK, queueVars, stateVars, storeVars
  <2>8. QueueInv'
    BY <1>1, <1>6, <2>1, MoveQueue DEF ToolReply, Holding
  <2>9. CallbackInv'
    <3>1. activeToolExecutions' = Cardinality(running')
      BY <1>6, <2>3, <2>5 DEF CallbackInv
    <3>2. \A cb \in running' : cb[2] <= round'[cb[1]]
      <4>1. \A cb \in running : cb[1] \in Turns /\ cb[2] \in Nat /\ cb[2] <= round[cb[1]]
        BY DEF CallbackInv, TypeOK, Callback
      <4>2. \A u \in Turns : round[u] \in Nat /\ round'[u] = IF u = t THEN next ELSE round[u]
        BY <1>6 DEF TypeOK
      <4>3. \A cb \in running : cb[2] <= round'[cb[1]]
        BY <4>1, <4>2
      <4>4. \A cb \in fresh : cb[2] <= round'[cb[1]]
        BY <1>4, <4>2
      <4>. QED
        BY <1>6, <4>3, <4>4
    <3>3. \A u \in Turns : pc'[u] \in Body => u = t
      BY <1>1, <2>1 DEF TypeOK, QueueInv, TurnQueueSound, OneHolder, Holding
    <3>4. \A cb \in running' : cb[1] = t
      BY <1>1, <1>6 DEF CallbackInv, NoForeignCallback
    <3>. QED
      BY <2>5, <3>1, <3>2, <3>3, <3>4 DEF CallbackInv, NoForeignCallback
  <2>. QED
    BY <2>7, <2>8, <2>9
<1>. HIDE DEF next, asked
<1>. QED
  BY <1>5, <1>6 DEF ToolReply, next, asked

(* A callback that settles is counted down once.                           *)
LEMMA CallbackSettlesStep ==
    ASSUME IInv, NEW cb \in running, CallbackSettles(cb[1], cb[2], cb[3])
    PROVE  IInv'
<1>. USE DEF IInv
<1>. DEFINE t == cb[1]
<1>1. t \in Turns /\ cb = <<cb[1], cb[2], cb[3]>>
  BY DEF TypeOK, Callback
<1>2. /\ running' = running \ {cb}
      /\ activeToolExecutions' = activeToolExecutions - 1
      /\ UNCHANGED <<aborted, queueVars, round, spent, stateVars, storeVars, arrivals>>
  BY <1>1 DEF CallbackSettles
<1>3. /\ IsFiniteSet(running')
      /\ Cardinality(running') = Cardinality(running) - 1
      /\ Cardinality(running') \in Nat
  BY <1>2, FS_RemoveElement, FS_CardinalityType DEF CallbackInv
<1>4. /\ pending' \in [Turns -> SUBSET Calls]
      /\ pc' \in [Turns -> Phase]
      /\ work' \in [Turns -> Seq(Message)]
      /\ QueueInv'
      /\ \A u \in Turns : pc'[u] \in Body => pc[u] \in Body
  <2>1. CASE pc[t] = "executing" /\ Answer(t, cb[3])
    <3>. HIDE DEF t
    <3>1. /\ pending' \in [Turns -> SUBSET Calls]
          /\ \E p \in Body : \E w \in Seq(Message) :
                pc' = [pc EXCEPT ![t] = p] /\ work' = [work EXCEPT ![t] = w]
      BY <1>1, <2>1, AnswerMoves
    <3>2. pc[t] \in Body /\ pc[t] \in Holding
      BY <2>1 DEF Body, Holding
    <3>3. pc' \in [Turns -> Phase] /\ work' \in [Turns -> Seq(Message)]
      BY <1>1, <3>1, MoveType
    <3>4. QueueInv'
      BY <1>1, <1>2, <3>1, <3>2, MoveQueue DEF Holding
    <3>5. \A u \in Turns : pc'[u] \in Body => pc[u] \in Body
      BY <3>1, <3>2 DEF TypeOK
    <3>. QED
      BY <3>1, <3>3, <3>4, <3>5
  <2>2. CASE UNCHANGED <<pc, work, pending>>
    BY <1>2, <2>2, QuietQueue DEF TypeOK
  <2>. QED
    BY <2>1, <2>2 DEF CallbackSettles
<1>5. TypeOK'
  BY <1>2, <1>3, <1>4 DEF CallbackInv, TypeOK, queueVars, stateVars, storeVars
<1>6. CallbackInv'
  BY <1>2, <1>3, <1>4 DEF CallbackInv, NoForeignCallback
<1>. QED
  BY <1>4, <1>5, <1>6

(* finalizeExecution ends in a release, whatever the store answers.        *)
LEMMA PersistOkStep ==
    ASSUME IInv, NEW t \in Turns, PersistOk(t)
    PROVE  IInv'
<1>. USE DEF IInv
<1>1. /\ pc[t] \in Holding
      /\ \E outcome \in Ended : Release(t, outcome)
      /\ UNCHANGED <<aborted, toolVars, loopVars, foreignWrites, arrivals>>
  BY DEF PersistOk, Persisting, Holding, Body, Ended
<1>2. NextMessages(t) \in Seq(Message) /\ NextCost(t) \in Nat
  BY DEF NextMessages, NextCost, TypeOK
<1>3. Snapshot(NextMessages(t), NextCost(t)) \in [version : Nat, messages : Seq(Message), cost : Nat]
  BY <1>2 DEF Snapshot, TypeOK
<1>4. TypeOK'
  <2>1. stored' \in [version : Nat, messages : Seq(Message), cost : Nat] /\ version' \in Nat
    BY <1>3, SMTT(30) DEF PersistOk, TypeOK
  <2>2. pc' \in [Turns -> Phase] /\ turnActive' \in BOOLEAN /\ turnWaiters' \in Seq(Turns)
    BY <1>1, ReleaseType
  <2>3. messages' \in Seq(Message) /\ totalCostUSD' \in Nat
    BY <1>2 DEF PersistOk
  <2>. QED
    BY <1>1, <2>1, <2>2, <2>3 DEF TypeOK, toolVars, loopVars
<1>5. QueueInv'
  BY <1>1, ReleaseQueue
<1>6. CallbackInv'
  BY <1>1, ReleaseEndsBody, QuietCallbacks DEF loopVars
<1>. QED
  BY <1>4, <1>5, <1>6

LEMMA PersistFailsStep ==
    ASSUME IInv, NEW t \in Turns, PersistFails(t)
    PROVE  IInv'
<1>. USE DEF IInv
<1>1. /\ pc[t] \in Holding
      /\ Release(t, "failed") /\ "failed" \in Ended
      /\ UNCHANGED <<aborted, toolVars, loopVars, stateVars, foreignWrites, arrivals>>
  BY DEF PersistFails, Persisting, Holding, Body, Ended
<1>2. NextMessages(t) \in Seq(Message) /\ NextCost(t) \in Nat
  BY DEF NextMessages, NextCost, TypeOK
<1>3. Snapshot(NextMessages(t), NextCost(t)) \in [version : Nat, messages : Seq(Message), cost : Nat]
  BY <1>2 DEF Snapshot, TypeOK
<1>4. TypeOK'
  <2>1. stored' \in [version : Nat, messages : Seq(Message), cost : Nat]
    BY <1>3 DEF PersistFails, TypeOK
  <2>2. pc' \in [Turns -> Phase] /\ turnActive' \in BOOLEAN /\ turnWaiters' \in Seq(Turns)
    BY <1>1, ReleaseType
  <2>. QED
    BY <1>1, <2>1, <2>2 DEF TypeOK, toolVars, loopVars, stateVars
<1>5. QueueInv'
  BY <1>1, ReleaseQueue
<1>6. CallbackInv'
  BY <1>1, ReleaseEndsBody, QuietCallbacks DEF loopVars
<1>. QED
  BY <1>4, <1>5, <1>6

(* The steps of a turn that move it within its body.                       *)
LEMMA PreparedStep ==
    ASSUME IInv, NEW t \in Turns, Prepared(t)
    PROVE  IInv'
<1>. USE DEF IInv
<1>1. pc[t] \in Body /\ pc[t] \in Holding
  BY DEF Prepared, Body, Holding
<1>2. CASE Fail(t)
  BY <1>1, <1>2, FailStep
<1>3. ASSUME NEW trimmed \in Seq(Message),
             \/ Conclude(t, IF t \in Streams /\ round[t] > 0 THEN work[t] ELSE trimmed)
             \/ work' = [work EXCEPT ![t] = trimmed] /\ pc' = [pc EXCEPT ![t] = "requesting"],
             UNCHANGED <<aborted, queueVars, toolVars, round, pending, spent,
                         stateVars, storeVars, arrivals>>
      PROVE  IInv'
  <2>1. \E p \in Body : \E w \in Seq(Message) :
           pc' = [pc EXCEPT ![t] = p] /\ work' = [work EXCEPT ![t] = w]
    <3>. DEFINE kept == IF t \in Streams /\ round[t] > 0 THEN work[t] ELSE trimmed
    <3>1. kept \in Seq(Message)
      BY DEF TypeOK
    <3>2. CASE Conclude(t, kept)
      <4>. HIDE DEF kept
      <4>. QED
        BY <3>1, <3>2, ConcludeMoves
    <3>3. CASE work' = [work EXCEPT ![t] = trimmed] /\ pc' = [pc EXCEPT ![t] = "requesting"]
      BY <3>3 DEF Body
    <3>. QED
      BY <1>3, <3>2, <3>3
  <2>. QED
    BY <1>1, <1>3, <2>1, MoveStep DEF TypeOK
<1>. QED
  BY <1>2, <1>3 DEF Prepared

LEMMA ReplySteps ==
    ASSUME IInv, NEW t \in Turns,
           \/ SkippedReply(t) \/ ConsumerPulls(t)
           \/ \E cost \in Costs : FinalReply(t, cost) \/ LoggerFails(t, cost)
    PROVE  IInv'
<1>. USE DEF IInv
<1>1. pc[t] \in Body
  BY DEF SkippedReply, ConsumerPulls, FinalReply, LoggerFails, Body
<1>2. work[t] \in Seq(Message) /\ pending \in [Turns -> SUBSET Calls] /\ spent \in [Turns -> Nat]
         /\ work = [work EXCEPT ![t] = work[t]]
  BY DEF TypeOK
<1>3. \A cost \in Costs : [spent EXCEPT ![t] = @ + cost] \in [Turns -> Nat]
  BY OptionsAssumption DEF TypeOK
<1>4. CASE SkippedReply(t)
  <2>1. Conclude(t, work[t])
    BY <1>4 DEF SkippedReply
  <2>2. \E p \in Body : pc' = [pc EXCEPT ![t] = p] /\ work' = [work EXCEPT ![t] = work[t]]
    BY <1>2, <2>1, ConcludeMoves
  <2>. QED
    BY <1>1, <1>2, <1>4, <2>2, MoveStep DEF SkippedReply
<1>5. CASE ConsumerPulls(t)
  <2>1. pc' = [pc EXCEPT ![t] = "committing"] /\ work' = [work EXCEPT ![t] = work[t]]
    BY <1>2, <1>5 DEF ConsumerPulls, loopVars
  <2>. QED
    BY <1>1, <1>2, <1>5, <2>1, MoveStep DEF ConsumerPulls, loopVars, Body
<1>6. ASSUME NEW cost \in Costs, FinalReply(t, cost)
      PROVE  IInv'
  <2>1. PICK kind \in Kinds : Conclude(t, Append(work[t], Msg(t, kind)))
    BY <1>6 DEF FinalReply, Kinds
  <2>. DEFINE w == Append(work[t], Msg(t, kind))
  <2>2. w \in Seq(Message)
    BY <1>2, MsgAppendType
  <2>. HIDE DEF w
  <2>3. \E p \in Body : pc' = [pc EXCEPT ![t] = p] /\ work' = [work EXCEPT ![t] = w]
    BY <2>1, <2>2, ConcludeMoves DEF w
  <2>. QED
    BY <1>1, <1>2, <1>3, <1>6, <2>2, <2>3, MoveStep DEF FinalReply
<1>7. ASSUME NEW cost \in Costs, LoggerFails(t, cost)
      PROVE  IInv'
  <2>1. pc' = [pc EXCEPT ![t] = "billing"] /\ work' = [work EXCEPT ![t] = work[t]]
    BY <1>2, <1>7 DEF LoggerFails
  <2>. QED
    BY <1>1, <1>2, <1>3, <1>7, <2>1, MoveStep DEF LoggerFails, Body
<1>. QED
  BY <1>4, <1>5, <1>6, <1>7

LEMMA CallTimesOutStep ==
    ASSUME IInv, NEW t \in Turns, NEW c \in Calls, CallTimesOut(t, c)
    PROVE  IInv'
<1>1. pc[t] = "executing" /\ pc[t] \in Body
  BY DEF CallTimesOut, Body
<1>2. /\ pending' \in [Turns -> SUBSET Calls]
      /\ \E p \in Body : \E w \in Seq(Message) :
            pc' = [pc EXCEPT ![t] = p] /\ work' = [work EXCEPT ![t] = w]
  BY <1>1, AnswerMoves DEF CallTimesOut, IInv
<1>. QED
  BY <1>1, <1>2, MoveStep DEF CallTimesOut, IInv, TypeOK

(* Steps outside the turns.                                                *)
LEMMA OutsideStep ==
    ASSUME IInv, Clear \/ \E cost \in Costs : ForeignWrite(cost)
    PROVE  IInv'
<1>. USE DEF IInv
<1>1. UNCHANGED <<pc, aborted, queueVars, toolVars, loopVars, totalCostUSD, version, arrivals>>
  BY DEF Clear, ForeignWrite, stateVars
<1>2. QueueInv'
  BY <1>1, QuietQueue
<1>3. CallbackInv'
  BY <1>1, QuietCallbacks DEF loopVars
<1>4. TypeOK'
  <2>1. CASE Clear
    BY <1>1, <2>1 DEF Clear, TypeOK, queueVars, toolVars, loopVars, storeVars
  <2>2. ASSUME NEW cost \in Costs, ForeignWrite(cost)
        PROVE  TypeOK'
    <3>1. Append(stored.messages, Msg(Foreign, "user")) \in Seq(Message)
      <4>1. Msg(Foreign, "user") \in Message
        BY DEF Msg, Message, Kinds
      <4>2. stored.messages \in Seq(Message)
        BY DEF TypeOK
      <4>. QED
        BY <4>1, <4>2
    <3>2. stored.version + 1 \in Nat /\ stored.cost + cost \in Nat /\ foreignWrites + 1 \in Nat
      BY OptionsAssumption DEF TypeOK
    <3>3. stored' \in [version : Nat, messages : Seq(Message), cost : Nat]
             /\ foreignWrites' \in Nat
      BY <2>2, <3>1, <3>2 DEF ForeignWrite
    <3>. QED
      BY <1>1, <2>2, <3>3 DEF ForeignWrite, TypeOK, queueVars, toolVars, loopVars, stateVars
  <2>. QED
    BY <2>1, <2>2
<1>. QED
  BY <1>2, <1>3, <1>4

LEMMA NextInv == IInv /\ [Next]_vars => IInv'
<1>. SUFFICES ASSUME IInv, [Next]_vars PROVE IInv'
  OBVIOUS
<1>1. ASSUME NEW t \in Turns, Call(t) PROVE IInv'
  BY <1>1, CallStep
<1>2. ASSUME NEW t \in Turns, Abort(t) PROVE IInv'
  BY <1>2, AbortStep
<1>3. ASSUME NEW t \in Turns, Progress(t) PROVE IInv'
  <2>1. CASE Start(t)
    BY <2>1, StartStep
  <2>2. CASE Prepared(t)
    BY <2>2, PreparedStep
  <2>3. CASE StepFails(t) \/ AbortObserved(t) \/ ConsumerStops(t) \/ PersistConflicts(t)
    <3>1. pc[t] \in Holding /\ Fail(t)
      BY <2>3 DEF StepFails, AbortObserved, ConsumerStops, PersistConflicts, Persisting,
                  Holding, Body
    <3>. QED
      BY <3>1, FailStep
  <2>4. CASE \/ SkippedReply(t) \/ ConsumerPulls(t)
             \/ \E cost \in Costs : FinalReply(t, cost) \/ LoggerFails(t, cost)
    BY <2>4, ReplySteps
  <2>5. CASE PersistOk(t)
    BY <2>5, PersistOkStep
  <2>6. CASE PersistFails(t)
    BY <2>6, PersistFailsStep
  <2>7. ASSUME NEW cost \in Costs, ToolReply(t, cost) PROVE IInv'
    BY <2>7, ToolReplyStep
  <2>8. ASSUME NEW c \in Calls, CallTimesOut(t, c) PROVE IInv'
    BY <2>8, CallTimesOutStep
  <2>. QED
    BY <1>3, <2>1, <2>2, <2>3, <2>4, <2>5, <2>6, <2>7, <2>8 DEF Progress
<1>4. ASSUME NEW cb \in running, CallbackSettles(cb[1], cb[2], cb[3]) PROVE IInv'
  BY <1>4, CallbackSettlesStep
<1>5. CASE Clear \/ \E cost \in Costs : ForeignWrite(cost)
  BY <1>5, OutsideStep
<1>6. CASE UNCHANGED vars
  BY <1>6, QuietQueue, QuietCallbacks
     DEF vars, IInv, TypeOK, queueVars, toolVars, loopVars, stateVars, storeVars
<1>. QED
  BY <1>1, <1>2, <1>3, <1>4, <1>5, <1>6 DEF Next

-----------------------------------------------------------------------------
(* The theorems.                                                           *)

(* The strengthened invariant holds in every reachable state.              *)
THEOREM Inductive == Spec => []IInv
BY InitInv, NextInv, PTL DEF Spec

(* Every variable of a conversation keeps its type: in particular the      *)
(* re-entrancy counter never becomes negative.                             *)
THEOREM TypeCorrect == Spec => []TypeOK
BY Inductive, PTL DEF IInv

(* The turn queue of acquireTurn, onAbort and createTurnRelease is sound:  *)
(* one holder, no waiter lost, none stranded behind a free conversation.   *)
THEOREM QueueCorrect == Spec => []TurnQueueSound
BY Inductive, PTL DEF IInv, QueueInv

(* assertNoToolExecutionReentrancy, checked before and after the wait,     *)
(* keeps every other turn out while a tool callback still runs.            *)
THEOREM ReentrancyCorrect == Spec => []NoForeignCallback
BY Inductive, PTL DEF IInv, CallbackInv

(* Memory and store: only an accepted write changes what the conversation  *)
(* holds, and every other write makes the store strictly newer.            *)
LEMMA MemoryStep ==
    ASSUME IInv, MemoryMatchesStore, [Next]_vars
    PROVE  MemoryMatchesStore'
<1>. SUFFICES ASSUME HasStore
              PROVE  /\ version' <= stored'.version
                     /\ version' = stored'.version =>
                           /\ totalCostUSD' = stored'.cost
                           /\ messages' \in {stored'.messages, <<>>}
  BY DEF MemoryMatchesStore
<1>. DEFINE Goal == /\ version' <= stored'.version
                    /\ version' = stored'.version =>
                          /\ totalCostUSD' = stored'.cost
                          /\ messages' \in {stored'.messages, <<>>}
<1>1. /\ version \in Nat /\ stored.version \in Nat
      /\ version <= stored.version
      /\ version = stored.version =>
            totalCostUSD = stored.cost /\ messages \in {stored.messages, <<>>}
  BY DEF IInv, TypeOK, MemoryMatchesStore
<1>2. CASE UNCHANGED <<stateVars, stored>>
  BY <1>1, <1>2 DEF stateVars
<1>3. CASE Clear
  BY <1>1, <1>3 DEF Clear, storeVars
<1>4. ASSUME NEW cost \in Costs, ForeignWrite(cost)
      PROVE  Goal
  BY <1>1, <1>4 DEF ForeignWrite, stateVars
<1>5. ASSUME NEW t \in Turns, PersistOk(t)
      PROVE  Goal
  BY <1>1, <1>5 DEF PersistOk, Snapshot
<1>6. ASSUME NEW t \in Turns, PersistFails(t)
      PROVE  Goal
  <2>1. CASE UNCHANGED stored
    BY <1>2, <1>6, <2>1 DEF PersistFails
  <2>2. CASE Accepts /\ stored' = Snapshot(NextMessages(t), NextCost(t))
    BY <1>1, <1>6, <2>2 DEF PersistFails, Accepts, Snapshot, stateVars
  <2>. QED
    BY <1>6, <2>1, <2>2 DEF PersistFails
<1>7. ASSUME NEW t \in Turns,
             \/ Call(t) \/ Abort(t) \/ Start(t) \/ Prepared(t) \/ StepFails(t)
             \/ SkippedReply(t) \/ AbortObserved(t) \/ ConsumerStops(t) \/ ConsumerPulls(t)
             \/ PersistConflicts(t)
             \/ \E cost \in Costs :
                   FinalReply(t, cost) \/ ToolReply(t, cost) \/ LoggerFails(t, cost)
             \/ \E c \in Calls : CallTimesOut(t, c)
      PROVE  UNCHANGED <<stateVars, stored>>
  BY <1>7 DEF Call, Abort, Start, Prepared, StepFails, SkippedReply, AbortObserved,
              ConsumerStops, ConsumerPulls, PersistConflicts, FinalReply, ToolReply,
              LoggerFails, CallTimesOut, Fail, storeVars
<1>8. ASSUME NEW cb \in running, CallbackSettles(cb[1], cb[2], cb[3])
      PROVE  UNCHANGED <<stateVars, stored>>
  BY <1>8 DEF CallbackSettles, storeVars
<1>9. CASE UNCHANGED vars
  BY <1>2, <1>9 DEF vars, storeVars
<1>. QED
  BY <1>2, <1>3, <1>4, <1>5, <1>6, <1>7, <1>8, <1>9 DEF Next, Progress

(* A store call that fails, conflicts or is of unknown outcome leaves      *)
(* history, totals and version as they were: the memory of a conversation  *)
(* never runs ahead of the record of its session.                          *)
THEOREM StoreCorrect == Spec => []MemoryMatchesStore
<1>1. Init => MemoryMatchesStore
  BY DEF Init, MemoryMatchesStore
<1>. QED
  BY Inductive, MemoryStep, <1>1, PTL DEF Spec

-----------------------------------------------------------------------------
(* Aborts.                                                                 *)

AbortEnds == \A u \in Turns : aborted[u] /\ pc'[u] # pc[u] => pc'[u] \in Ended

(* A release only ends turns, or grants one whose signal has not fired.    *)
LEMMA ReleaseAborts ==
    ASSUME TypeOK, NEW t \in Turns, NEW outcome \in Ended, Release(t, outcome)
    PROVE  AbortEnds
<1>1. CASE pc' = [u \in Turns |->
                    IF u = t THEN outcome
                    ELSE IF pc[u] = "queued" THEN "rejected" ELSE pc[u]]
  BY <1>1 DEF AbortEnds, Ended
<1>2. ASSUME NEW i \in 1..Len(turnWaiters),
             ~aborted[turnWaiters[i]],
             pc' = [u \in Turns |->
                       IF u = t THEN outcome
                       ELSE IF u = turnWaiters[i] THEN "granted"
                       ELSE IF \E j \in 1..(i - 1) : turnWaiters[j] = u THEN "rejected"
                       ELSE pc[u]]
      PROVE  AbortEnds
  BY <1>2 DEF AbortEnds, Ended
<1>. QED
  BY <1>1, <1>2 DEF Release

(* A turn that moves although its signal has not fired.                    *)
LEMMA LiveMove ==
    ASSUME TypeOK, NEW t \in Turns, ~aborted[t], \E p \in Phase : pc' = [pc EXCEPT ![t] = p]
    PROVE  AbortEnds
BY DEF AbortEnds, TypeOK

LEMMA AbortStopsStep == IInv /\ [Next]_vars => [AbortEnds]_vars
<1>. SUFFICES ASSUME IInv, Next PROVE AbortEnds
  OBVIOUS
<1>1. TypeOK /\ Body \subseteq Phase
  BY DEF IInv, Phase, Holding
<1>2. ASSUME NEW t \in Turns, Fail(t) PROVE AbortEnds
  BY <1>1, <1>2, ReleaseAborts DEF Fail, Ended
<1>3. ASSUME NEW t \in Turns, \E outcome \in Ended : Release(t, outcome) PROVE AbortEnds
  BY <1>1, <1>3, ReleaseAborts
<1>4. ASSUME NEW t \in Turns, Call(t) PROVE AbortEnds
  BY <1>1, <1>4 DEF Call, AbortEnds, TypeOK, Ended
<1>5. ASSUME NEW t \in Turns, Abort(t) PROVE AbortEnds
  BY <1>1, <1>5 DEF Abort, AbortEnds, TypeOK, Ended
<1>6. ASSUME NEW t \in Turns, NEW w, ~aborted[t], w \in Seq(Message), Conclude(t, w)
      PROVE  AbortEnds
  BY <1>1, <1>6, ConcludeMoves, LiveMove
<1>7. ASSUME NEW t \in Turns, NEW w \in Seq(Message), ~aborted[t], FinishRound(t, w)
      PROVE  AbortEnds
  BY <1>1, <1>7, FinishRoundMoves, LiveMove
<1>8. ASSUME NEW t \in Turns, NEW c, pc[t] = "executing", ~aborted[t], Answer(t, c)
      PROVE  AbortEnds
  BY <1>1, <1>8, AnswerMoves, LiveMove
<1>9. ASSUME NEW t \in Turns, NEW p \in Body, ~aborted[t], pc' = [pc EXCEPT ![t] = p]
      PROVE  AbortEnds
  BY <1>1, <1>9, LiveMove
<1>10. ASSUME UNCHANGED pc PROVE AbortEnds
  BY <1>10 DEF AbortEnds
<1>11. ASSUME NEW t \in Turns, Progress(t) PROVE AbortEnds
  <2>1. CASE Start(t)
    BY <1>2, <1>9, <2>1 DEF Start, Body
  <2>2. CASE Prepared(t)
    <3>1. ASSUME NEW trimmed \in Seq(Message), ~aborted[t],
                 Conclude(t, IF t \in Streams /\ round[t] > 0 THEN work[t] ELSE trimmed)
          PROVE  AbortEnds
      BY <1>1, <1>6, <3>1 DEF TypeOK
    <3>. QED
      BY <1>2, <1>9, <2>2, <3>1 DEF Prepared, Body
  <2>3. CASE StepFails(t) \/ AbortObserved(t) \/ ConsumerStops(t) \/ PersistConflicts(t)
    BY <1>2, <2>3 DEF StepFails, AbortObserved, ConsumerStops, PersistConflicts
  <2>4. CASE SkippedReply(t)
    BY <1>1, <1>6, <2>4 DEF SkippedReply, TypeOK
  <2>5. CASE ConsumerPulls(t)
    BY <1>9, <2>5 DEF ConsumerPulls, Body
  <2>6. CASE PersistOk(t) \/ PersistFails(t)
    BY <1>3, <2>6 DEF PersistOk, PersistFails, Ended
  <2>7. ASSUME NEW cost \in Costs, FinalReply(t, cost) PROVE AbortEnds
    <3>1. PICK kind \in Kinds : Conclude(t, Append(work[t], Msg(t, kind)))
      BY <2>7 DEF FinalReply, Kinds
    <3>2. Append(work[t], Msg(t, kind)) \in Seq(Message)
      BY <1>1, MsgAppendType DEF TypeOK
    <3>. QED
      BY <1>6, <2>7, <3>1, <3>2 DEF FinalReply
  <2>8. ASSUME NEW cost \in Costs, ToolReply(t, cost) PROVE AbortEnds
    <3>1. Append(work[t], Msg(t, "calls")) \in Seq(Message)
      BY <1>1, MsgAppendType DEF TypeOK, Kinds
    <3>2. \/ Release(t, "failed")
          \/ FinishRound(t, Append(work[t], Msg(t, "calls")))
          \/ pc' = [pc EXCEPT ![t] = "executing"]
      BY <2>8 DEF ToolReply
    <3>. QED
      BY <1>3, <1>7, <1>9, <2>8, <3>1, <3>2 DEF ToolReply, Body, Ended
  <2>9. ASSUME NEW cost \in Costs, LoggerFails(t, cost) PROVE AbortEnds
    BY <1>9, <2>9 DEF LoggerFails, Body
  <2>10. ASSUME NEW c \in Calls, CallTimesOut(t, c) PROVE AbortEnds
    BY <1>8, <2>10 DEF CallTimesOut
  <2>. QED
    BY <1>11, <2>1, <2>2, <2>3, <2>4, <2>5, <2>6, <2>7, <2>8, <2>9, <2>10 DEF Progress
<1>12. ASSUME NEW cb \in running, CallbackSettles(cb[1], cb[2], cb[3]) PROVE AbortEnds
  <2>1. cb[1] \in Turns
    BY <1>1 DEF TypeOK, Callback
  <2>. QED
    BY <1>8, <1>10, <1>12, <2>1 DEF CallbackSettles
<1>13. CASE Clear \/ \E cost \in Costs : ForeignWrite(cost)
  BY <1>10, <1>13 DEF Clear, ForeignWrite
<1>. QED
  BY <1>4, <1>5, <1>11, <1>12, <1>13 DEF Next

(* Once the signal of a turn has fired, throwIfAborted and awaitWithAbort  *)
(* let the turn do nothing but end.                                        *)
THEOREM AbortCorrect == Spec => AbortStopsWork
<1>1. [AbortEnds]_vars => [\A t \in Turns :
                             aborted[t] /\ pc'[t] # pc[t] => pc'[t] \in Ended]_vars
  BY DEF AbortEnds
<1>. QED
  BY Inductive, AbortStopsStep, <1>1, PTL DEF Spec, AbortStopsWork

(* Turns exclude one another, in the queue and in the callbacks they run.  *)
THEOREM ExclusionCorrect == Spec => []TurnsExclusive
  BY QueueCorrect, ReentrancyCorrect, PTL DEF TurnsExclusive

-----------------------------------------------------------------------------
(* The shapes of a step, seen from the turns.  A turn enters or leaves the *)
(* queue, or no turn moves; a holder gives up; or a turn in its body goes  *)
(* on to phase p with the working messages w, having spent the cost.       *)
queueSide == <<queueVars, aborted, arrivals>>
ledger    == <<totalCostUSD, messages>>

Waits ==
    /\ UNCHANGED <<spent, work, ledger>>
    /\ \/ UNCHANGED <<pc, queueSide>>
       \/ \E t \in Turns : Call(t) \/ Abort(t)
GivesUp(t) ==
    /\ pc[t] \in Holding /\ Release(t, "failed")
    /\ UNCHANGED <<aborted, arrivals, ledger>>
    /\ \A u \in Turns : u # t => spent'[u] = spent[u]
GoesOn(t, p, w, cost) ==
    /\ pc' = [pc EXCEPT ![t] = p]
    /\ work' = [work EXCEPT ![t] = w]
    /\ spent' = [spent EXCEPT ![t] = @ + cost]
    /\ UNCHANGED <<queueSide, ledger>>

(* How the loop of a turn goes on, phase by phase.                         *)
Closing == {"offered", "committing"}
Begun(t) == pc[t] = "granted" /\ GoesOn(t, "preparing", Append(messages, Msg(t, "user")), 0)
Trimmed(t) ==
    /\ pc[t] = "preparing"
    /\ \E p \in Closing \cup {"requesting"} :
       \E w \in {work[t]} \cup (TrimOutcomes(work[t]) \cap Seq(Message)) :
          /\ GoesOn(t, p, w, 0)
          /\ p = "requesting" /\ BudgetExhausted(t) => BudgetAction[t] = "warn"
Asked(t)    == Append(work[t], Msg(t, "calls"))
Replied(t) ==
    /\ pc[t] = "requesting"
    /\ \E cost \in Costs \cup {0} :
          \/ \E p \in Closing \cup {"billing"} : GoesOn(t, p, work[t], cost)
          \/ \E p \in Closing : \E kind \in {"assistant", "calls"} :
                GoesOn(t, p, Append(work[t], Msg(t, kind)), cost)
          \/ GoesOn(t, "executing", Asked(t), cost)
          \/ \E p \in Closing \cup {"preparing"} :
                GoesOn(t, p, Append(Asked(t), Msg(t, "results")), cost)
Answered(t) ==
    /\ pc[t] = "executing"
    /\ \/ GoesOn(t, "executing", work[t], 0)
       \/ \E p \in Closing \cup {"preparing"} :
             GoesOn(t, p, Append(work[t], Msg(t, "results")), 0)
Pulled(t) == pc[t] = "offered" /\ GoesOn(t, "committing", work[t], 0)

LEMMA NothingSpent ==
    ASSUME TypeOK, NEW t \in Turns, UNCHANGED spent
    PROVE  spent' = [spent EXCEPT ![t] = @ + 0]
BY DEF TypeOK

LEMMA ConcludeShape ==
    ASSUME TypeOK, NEW t \in Turns, NEW w, NEW cost, Conclude(t, w),
           spent' = [spent EXCEPT ![t] = @ + cost], UNCHANGED <<queueSide, ledger>>
    PROVE  \E p \in Closing : GoesOn(t, p, w, cost)
BY DEF Conclude, GoesOn, Closing

LEMMA FinishRoundShape ==
    ASSUME TypeOK, NEW t \in Turns, NEW w, NEW cost, FinishRound(t, w),
           spent' = [spent EXCEPT ![t] = @ + cost], UNCHANGED <<queueSide, ledger>>
    PROVE  \E p \in Closing \cup {"preparing"} : GoesOn(t, p, Append(w, Msg(t, "results")), cost)
<1>. DEFINE done == Append(w, Msg(t, "results"))
<1>1. CASE HasExecutor
  BY <1>1 DEF FinishRound, GoesOn
<1>2. CASE ~HasExecutor
  <2>1. Conclude(t, done)
    BY <1>2 DEF FinishRound
  <2>. HIDE DEF done
  <2>2. \E p \in Closing : GoesOn(t, p, done, cost)
    BY <2>1, ConcludeShape
  <2>. QED
    BY <2>2 DEF done
<1>. QED
  BY <1>1, <1>2

LEMMA AnswerShape ==
    ASSUME TypeOK, NEW t \in Turns, NEW c, pc[t] = "executing", Answer(t, c),
           UNCHANGED <<spent, queueSide, ledger>>
    PROVE  Answered(t)
<1>1. spent' = [spent EXCEPT ![t] = @ + 0]
  BY NothingSpent
<1>2. CASE FinishRound(t, work[t])
  BY <1>1, <1>2, FinishRoundShape DEF Answered
<1>3. CASE UNCHANGED <<pc, work>>
  <2>1. pc' = [pc EXCEPT ![t] = "executing"] /\ work' = [work EXCEPT ![t] = work[t]]
    BY <1>3 DEF TypeOK
  <2>. QED
    BY <1>1, <2>1 DEF Answered, GoesOn
<1>. QED
  BY <1>2, <1>3 DEF Answer

LEMMA PreparedShape ==
    ASSUME TypeOK, NEW t \in Turns, Prepared(t), ~Fail(t)
    PROVE  Trimmed(t)
<1>1. PICK trimmed \in TrimOutcomes(work[t]) \cap Seq(Message) :
         \/ Conclude(t, IF t \in Streams /\ round[t] > 0 THEN work[t] ELSE trimmed)
         \/ /\ BudgetExhausted(t) => BudgetAction[t] = "warn"
            /\ work' = [work EXCEPT ![t] = trimmed]
            /\ pc' = [pc EXCEPT ![t] = "requesting"]
  BY DEF Prepared
<1>2. UNCHANGED <<spent, queueSide, ledger>> /\ pc[t] = "preparing"
  BY DEF Prepared, queueSide, ledger, stateVars
<1>3. spent' = [spent EXCEPT ![t] = @ + 0]
  BY <1>2, NothingSpent
<1>. DEFINE kept == IF t \in Streams /\ round[t] > 0 THEN work[t] ELSE trimmed
<1>4. kept \in {work[t]} \cup (TrimOutcomes(work[t]) \cap Seq(Message))
  OBVIOUS
<1>5. CASE Conclude(t, kept)
  <2>. HIDE DEF kept
  <2>1. PICK p \in Closing : GoesOn(t, p, kept, 0)
    BY <1>2, <1>3, <1>5, ConcludeShape
  <2>2. p # "requesting"
    BY DEF Closing
  <2>. QED
    BY <1>2, <1>4, <2>1, <2>2 DEF Trimmed
<1>6. CASE /\ BudgetExhausted(t) => BudgetAction[t] = "warn"
           /\ work' = [work EXCEPT ![t] = trimmed]
           /\ pc' = [pc EXCEPT ![t] = "requesting"]
  <2>1. GoesOn(t, "requesting", trimmed, 0)
    BY <1>2, <1>3, <1>6 DEF GoesOn
  <2>. QED
    BY <1>2, <1>6, <2>1 DEF Trimmed
<1>. QED
  BY <1>1, <1>5, <1>6

LEMMA ToolReplyShape ==
    ASSUME TypeOK, NEW t \in Turns, NEW cost \in Costs, ToolReply(t, cost)
    PROVE  GivesUp(t) \/ Replied(t)
<1>1. /\ pc[t] = "requesting" /\ spent' = [spent EXCEPT ![t] = @ + cost]
      /\ UNCHANGED <<aborted, arrivals, ledger>>
      /\ \/ Release(t, "failed") /\ UNCHANGED work
         \/ UNCHANGED queueVars /\ FinishRound(t, Asked(t))
         \/ UNCHANGED queueVars /\ work' = [work EXCEPT ![t] = Asked(t)]
               /\ pc' = [pc EXCEPT ![t] = "executing"]
  BY DEF ToolReply, Asked, ledger, stateVars
<1>2. CASE Release(t, "failed")
  <2>1. \A u \in Turns : u # t => spent'[u] = spent[u]
    BY <1>1 DEF TypeOK
  <2>. QED
    BY <1>1, <1>2, <2>1 DEF GivesUp, Holding, Body
<1>3. CASE UNCHANGED queueVars /\ FinishRound(t, Asked(t))
  <2>1. \E p \in Closing \cup {"preparing"} :
           GoesOn(t, p, Append(Asked(t), Msg(t, "results")), cost)
    BY <1>1, <1>3, FinishRoundShape DEF queueSide
  <2>. QED
    BY <1>1, <2>1 DEF Replied
<1>4. CASE UNCHANGED queueVars /\ work' = [work EXCEPT ![t] = Asked(t)]
               /\ pc' = [pc EXCEPT ![t] = "executing"]
  <2>1. GoesOn(t, "executing", Asked(t), cost)
    BY <1>1, <1>4 DEF GoesOn, queueSide
  <2>. QED
    BY <1>1, <2>1 DEF Replied
<1>. QED
  BY <1>1, <1>2, <1>3, <1>4

LEMMA ProgressShape ==
    ASSUME TypeOK, NEW t \in Turns, Progress(t)
    PROVE  \/ GivesUp(t) \/ Begun(t) \/ Trimmed(t) \/ Replied(t) \/ Answered(t) \/ Pulled(t)
           \/ PersistOk(t)
<1>. USE DEF queueSide, ledger, stateVars
<1>1. ASSUME pc[t] \in Holding, Fail(t) PROVE GivesUp(t)
  BY <1>1 DEF GivesUp, Fail, loopVars
<1>2. work = [work EXCEPT ![t] = work[t]]
  BY DEF TypeOK
<1>3. CASE Start(t)
  <2>1. CASE Fail(t)
    BY <1>1, <1>3, <2>1 DEF Start, Holding
  <2>2. CASE /\ pc' = [pc EXCEPT ![t] = "preparing"]
             /\ work' = [work EXCEPT ![t] = Append(messages, Msg(t, "user"))]
             /\ UNCHANGED <<aborted, queueVars, toolVars, round, pending, spent,
                            stateVars, storeVars, arrivals>>
    BY <1>3, <2>2, NothingSpent DEF Start, Begun, GoesOn
  <2>. QED
    BY <1>3, <2>1, <2>2 DEF Start
<1>4. CASE Prepared(t)
  <2>1. pc[t] \in Holding
    BY <1>4 DEF Prepared, Holding, Body
  <2>. QED
    BY <1>1, <1>4, <2>1, PreparedShape
<1>5. CASE StepFails(t) \/ AbortObserved(t) \/ ConsumerStops(t) \/ PersistConflicts(t)
  <2>1. pc[t] \in Holding /\ Fail(t)
    BY <1>5 DEF StepFails, AbortObserved, ConsumerStops, PersistConflicts, Persisting,
                Holding, Body
  <2>. QED
    BY <1>1, <2>1
<1>6. CASE SkippedReply(t)
  <2>1. \E p \in Closing : GoesOn(t, p, work[t], 0)
    BY <1>6, NothingSpent, ConcludeShape DEF SkippedReply
  <2>. QED
    BY <1>6, <2>1 DEF SkippedReply, Replied
<1>7. CASE ConsumerPulls(t)
  BY <1>2, <1>7, NothingSpent DEF ConsumerPulls, Pulled, GoesOn, loopVars
<1>8. CASE PersistFails(t)
  BY <1>8 DEF PersistFails, Persisting, GivesUp, Holding, Body, loopVars
<1>9. ASSUME NEW cost \in Costs, FinalReply(t, cost) PROVE Replied(t)
  <2>1. PICK kind \in {"assistant", "calls"} : Conclude(t, Append(work[t], Msg(t, kind)))
    BY <1>9 DEF FinalReply
  <2>2. \E p \in Closing : GoesOn(t, p, Append(work[t], Msg(t, kind)), cost)
    BY <1>9, <2>1, ConcludeShape DEF FinalReply
  <2>. QED
    BY <1>9, <2>2 DEF FinalReply, Replied
<1>10. ASSUME NEW cost \in Costs, ToolReply(t, cost) PROVE GivesUp(t) \/ Replied(t)
  BY <1>10, ToolReplyShape
<1>11. ASSUME NEW cost \in Costs, LoggerFails(t, cost) PROVE Replied(t)
  <2>1. GoesOn(t, "billing", work[t], cost)
    BY <1>2, <1>11 DEF LoggerFails, GoesOn
  <2>. QED
    BY <1>11, <2>1 DEF LoggerFails, Replied
<1>12. ASSUME NEW c \in Calls, CallTimesOut(t, c) PROVE Answered(t)
  BY <1>12, AnswerShape DEF CallTimesOut
<1>. QED
  BY <1>3, <1>4, <1>5, <1>6, <1>7, <1>8, <1>9, <1>10, <1>11, <1>12 DEF Progress

LEMMA NextShape ==
    ASSUME TypeOK, Next, ~Clear
    PROVE  \/ Waits
           \/ \E t \in Turns : \/ GivesUp(t) \/ Begun(t) \/ Trimmed(t) \/ Replied(t)
                               \/ Answered(t) \/ Pulled(t) \/ PersistOk(t)
<1>. USE DEF queueSide, ledger, stateVars
<1>1. ASSUME NEW t \in Turns, Call(t) \/ Abort(t) PROVE Waits
  BY <1>1 DEF Call, Abort, Waits, loopVars
<1>2. ASSUME NEW cb \in running, CallbackSettles(cb[1], cb[2], cb[3])
      PROVE  Waits \/ \E t \in Turns : Answered(t)
  <2>1. cb[1] \in Turns
    BY DEF TypeOK, Callback
  <2>. QED
    BY <1>2, <2>1, AnswerShape DEF CallbackSettles, Waits
<1>3. ASSUME NEW cost \in Costs, ForeignWrite(cost) PROVE Waits
  BY <1>3 DEF ForeignWrite, Waits, loopVars
<1>. QED
  BY <1>1, <1>2, <1>3, ProgressShape DEF Next

-----------------------------------------------------------------------------
(* The order of the queue.                                                 *)

(* The waiters are in the order of arrival, each turn arrives once, and    *)
(* only after it has been called.                                          *)
ArrivalOrder ==
    /\ \A i \in 1..Len(arrivals) : pc[arrivals[i]] # "idle"
    /\ \A i, j \in 1..Len(arrivals) : arrivals[i] = arrivals[j] => i = j
    /\ \A p, q \in 1..Len(turnWaiters) : \A i, j \in 1..Len(arrivals) :
          p < q /\ arrivals[i] = turnWaiters[p] /\ arrivals[j] = turnWaiters[q] => i < j

ArrivalInv == ArrivalOrder /\ NoOvertaking

LEMMA ArrivalsType ==
    ASSUME TypeOK
    PROVE  /\ arrivals \in Seq(Turns) /\ Len(arrivals) \in Nat
           /\ \A i \in 1..Len(arrivals) : arrivals[i] \in Turns
<1>1. arrivals \in Seq(Turns)
  BY DEF TypeOK
<1>. QED
  BY <1>1

LEMMA WaitersType ==
    ASSUME TypeOK
    PROVE  /\ turnWaiters \in Seq(Turns) /\ Len(turnWaiters) \in Nat
           /\ \A i \in 1..Len(turnWaiters) : turnWaiters[i] \in Turns
<1>1. turnWaiters \in Seq(Turns)
  BY DEF TypeOK
<1>. QED
  BY <1>1

(* A step that serves nobody: no turn starts to wait, nobody who has       *)
(* arrived becomes idle, and of those not rejected only holders move.      *)
LEMMA ArrivalsKept ==
    ASSUME TypeOK, ArrivalInv, UNCHANGED arrivals,
           \A u \in Turns : pc'[u] \in {pc[u], "rejected"}
                              \/ (pc[u] \in Holding /\ pc'[u] \notin {"idle", "queued"}),
           \A p, q \in 1..Len(turnWaiters') : p < q =>
              \E k, l \in 1..Len(turnWaiters) :
                 k < l /\ turnWaiters'[p] = turnWaiters[k] /\ turnWaiters'[q] = turnWaiters[l]
    PROVE  ArrivalInv'
<1>. USE DEF ArrivalInv
<1>1. \A i \in 1..Len(arrivals) : arrivals[i] \in Turns
  BY ArrivalsType
<1>2. ArrivalOrder'
  <2>1. \A i \in 1..Len(arrivals) : pc'[arrivals[i]] # "idle"
    BY <1>1 DEF ArrivalOrder
  <2>2. ASSUME NEW p \in 1..Len(turnWaiters'), NEW q \in 1..Len(turnWaiters'),
               NEW i \in 1..Len(arrivals), NEW j \in 1..Len(arrivals),
               p < q, arrivals[i] = turnWaiters'[p], arrivals[j] = turnWaiters'[q]
        PROVE  i < j
    BY <2>2 DEF ArrivalOrder
  <2>. QED
    BY <2>1, <2>2 DEF ArrivalOrder
<1>3. NoOvertaking'
  <2>1. ASSUME NEW i \in 1..Len(arrivals), NEW j \in 1..Len(arrivals),
               i < j, pc'[arrivals[i]] = "queued"
        PROVE  pc'[arrivals[j]] \in {"queued", "rejected"}
    <3>1. pc[arrivals[i]] = "queued"
      BY <1>1, <2>1
    <3>2. pc[arrivals[j]] \in {"queued", "rejected"}
      BY <2>1, <3>1 DEF NoOvertaking
    <3>3. pc[arrivals[j]] \notin Holding
      BY <3>2 DEF Holding, Body
    <3>. QED
      BY <1>1, <3>2, <3>3
  <2>. QED
    BY <2>1 DEF NoOvertaking
<1>. QED
  BY <1>2, <1>3

(* A release serves the waiter that arrived first, so that nobody who      *)
(* still waits arrived before it.                                          *)
LEMMA ArrivalsReleased ==
    ASSUME IInv, ArrivalInv, NEW t \in Turns, pc[t] \in Holding, NEW outcome \in Ended,
           Release(t, outcome), UNCHANGED <<aborted, arrivals>>
    PROVE  ArrivalInv'
<1>. USE DEF ArrivalInv
<1>0. TypeOK /\ outcome \notin {"idle", "queued"}
  BY DEF IInv, Ended
<1>1. \A i \in 1..Len(turnWaiters) :
         turnWaiters[i] \in Turns /\ pc[turnWaiters[i]] = "queued" /\ ~aborted[turnWaiters[i]]
  <2>1. \A i \in 1..Len(turnWaiters) : turnWaiters[i] \in Turns
    BY DEF IInv, TypeOK
  <2>. QED
    BY <2>1 DEF IInv, QueueInv, TurnQueueSound
<1>2. CASE /\ turnWaiters' = <<>>
           /\ pc' = [u \in Turns |->
                        IF u = t THEN outcome
                        ELSE IF pc[u] = "queued" THEN "rejected" ELSE pc[u]]
  <2>1. \A u \in Turns : pc'[u] \in {pc[u], "rejected"}
                           \/ (pc[u] \in Holding /\ pc'[u] \notin {"idle", "queued"})
    BY <1>0, <1>2
  <2>. QED
    BY <1>0, <1>2, <2>1, ArrivalsKept
<1>3. ASSUME NEW i \in 1..Len(turnWaiters),
             \A j \in 1..(i - 1) : aborted[turnWaiters[j]],
             turnWaiters' = SubSeq(turnWaiters, i + 1, Len(turnWaiters)),
             pc' = [u \in Turns |->
                       IF u = t THEN outcome
                       ELSE IF u = turnWaiters[i] THEN "granted"
                       ELSE IF \E j \in 1..(i - 1) : turnWaiters[j] = u THEN "rejected"
                       ELSE pc[u]]
      PROVE  ArrivalInv'
  <2>1. i = 1
    <3>1. i # 1 => 1 \in 1..(i - 1) /\ 1 \in 1..Len(turnWaiters)
      OBVIOUS
    <3>. QED
      BY <1>1, <1>3, <3>1
  <2>. DEFINE first == turnWaiters[1]
  <2>2. /\ first \in Turns /\ pc[first] = "queued" /\ first # t
        /\ pc' = [u \in Turns |-> IF u = t THEN outcome
                                  ELSE IF u = first THEN "granted" ELSE pc[u]]
    <3>1. pc[t] # "queued"
      BY DEF Holding, Body
    <3>. QED
      BY <1>1, <1>3, <2>1, <3>1
  <2>3. /\ Len(turnWaiters') = Len(turnWaiters) - 1
        /\ \A j \in 1..Len(turnWaiters') : turnWaiters'[j] = turnWaiters[j + 1]
        /\ Len(turnWaiters) \in Nat
    <3>1. turnWaiters \in Seq(Turns) /\ Len(turnWaiters) \in Nat
      BY <1>0, WaitersType
    <3>2. \A j \in 1..(Len(turnWaiters) - 1) : turnWaiters'[j] = turnWaiters[1 + j]
      BY <1>3, <2>1, <3>1, SuffixFacts
    <3>3. Len(turnWaiters') = Len(turnWaiters) - 1
      BY <1>3, <2>1, <3>1, SuffixFacts
    <3>. QED
      BY <3>1, <3>2, <3>3
  <2>4. \A k \in 1..Len(arrivals) : arrivals[k] \in Turns
    BY <1>0, ArrivalsType
  <2>5. ArrivalOrder'
    <3>1. \A k \in 1..Len(arrivals) : pc'[arrivals[k]] # "idle"
      BY <1>0, <2>2, <2>4 DEF ArrivalOrder
    <3>2. ASSUME NEW p \in 1..Len(turnWaiters'), NEW q \in 1..Len(turnWaiters'),
                 NEW k \in 1..Len(arrivals), NEW l \in 1..Len(arrivals),
                 p < q, arrivals[k] = turnWaiters'[p], arrivals[l] = turnWaiters'[q]
          PROVE  k < l
      <4>1. p + 1 \in 1..Len(turnWaiters) /\ q + 1 \in 1..Len(turnWaiters) /\ p + 1 < q + 1
        BY <2>3, <3>2
      <4>. QED
        BY <2>3, <3>2, <4>1, SMTT(30) DEF ArrivalOrder
    <3>. QED
      BY <3>1, <3>2 DEF ArrivalOrder
  <2>6. NoOvertaking'
    <3>1. ASSUME NEW k \in 1..Len(arrivals), NEW l \in 1..Len(arrivals),
                 k < l, pc'[arrivals[k]] = "queued"
          PROVE  pc'[arrivals[l]] \in {"queued", "rejected"}
      <4>1. pc[arrivals[k]] = "queued" /\ arrivals[k] # first
        BY <1>0, <2>2, <2>4, <3>1
      <4>2. pc[arrivals[l]] \in {"queued", "rejected"}
        BY <3>1, <4>1 DEF NoOvertaking
      <4>3. arrivals[l] # t
        BY <4>2 DEF Holding, Body
      <4>4. arrivals[l] # first
        <5>1. PICK p \in 1..Len(turnWaiters) : turnWaiters[p] = arrivals[k]
          BY <2>4, <4>1 DEF IInv, QueueInv, TurnQueueSound
        <5>2. 1 < p /\ 1 \in 1..Len(turnWaiters)
          BY <4>1, <5>1
        <5>3. arrivals[l] = first => l < k
          BY <5>1, <5>2 DEF ArrivalOrder
        <5>. QED
          BY <3>1, <5>3
      <4>. QED
        BY <2>2, <2>4, <4>2, <4>3, <4>4
    <3>. QED
      BY <3>1 DEF NoOvertaking
  <2>. QED
    BY <2>5, <2>6
<1>. QED
  BY <1>2, <1>3 DEF Release

(* A call joins at the end of both lists, or finds nobody waiting.         *)
LEMMA ArrivalsCall ==
    ASSUME IInv, ArrivalInv, NEW t \in Turns, Call(t)
    PROVE  ArrivalInv'
<1>. USE DEF ArrivalInv
<1>0. TypeOK /\ pc[t] = "idle" /\ "idle" \notin Holding
  BY DEF IInv, Call, Holding, Body
<1>1. CASE pc' = [pc EXCEPT ![t] = "rejected"] /\ UNCHANGED <<queueVars, arrivals>>
  <2>1. \A u \in Turns : pc'[u] \in {pc[u], "rejected"}
    BY <1>0, <1>1 DEF TypeOK
  <2>. QED
    BY <1>0, <1>1, <2>1, ArrivalsKept DEF queueVars
<1>2. CASE arrivals' = Append(arrivals, t)
  <2>1. /\ Len(arrivals) \in Nat /\ Len(arrivals') = Len(arrivals) + 1
        /\ arrivals'[Len(arrivals) + 1] = t
        /\ \A i \in 1..Len(arrivals) : /\ arrivals'[i] = arrivals[i]
                                       /\ arrivals[i] \in Turns /\ arrivals[i] # t
    <3>1. \A i \in 1..Len(arrivals) : arrivals[i] # t
      BY <1>0 DEF ArrivalOrder
    <3>. QED
      BY <1>0, <1>2, <3>1, ArrivalsType
  <2>2. /\ pc'[t] # "idle"
        /\ \A u \in Turns : u # t => pc'[u] = pc[u]
    BY <1>0, <1>2 DEF Call, TypeOK
  <2>3. /\ \A i \in 1..Len(arrivals') : pc'[arrivals'[i]] # "idle"
        /\ \A i, j \in 1..Len(arrivals') : arrivals'[i] = arrivals'[j] => i = j
    BY <2>1, <2>2 DEF ArrivalOrder
  <2>4. CASE ~turnActive /\ UNCHANGED turnWaiters /\ pc'[t] = "granted"
    <3>1. turnWaiters = <<>>
      BY <2>4 DEF IInv, QueueInv, TurnQueueSound
    <3>2. \A u \in Turns : pc'[u] # "queued"
      BY <2>2, <2>4, <3>1 DEF IInv, QueueInv, TurnQueueSound
    <3>3. \A i \in 1..Len(arrivals') : arrivals'[i] \in Turns
      BY <2>1
    <3>4. NoOvertaking'
      BY <3>2, <3>3 DEF NoOvertaking
    <3>. QED
      BY <2>3, <2>4, <3>1, <3>4 DEF ArrivalOrder
  <2>5. CASE turnWaiters' = Append(turnWaiters, t) /\ pc'[t] = "queued"
    <3>1. /\ Len(turnWaiters) \in Nat /\ Len(turnWaiters') = Len(turnWaiters) + 1
          /\ turnWaiters'[Len(turnWaiters) + 1] = t
          /\ \A p \in 1..Len(turnWaiters) :
                turnWaiters'[p] = turnWaiters[p] /\ turnWaiters[p] # t
      <4>1. \A p \in 1..Len(turnWaiters) : turnWaiters[p] # t
        BY <1>0 DEF IInv, QueueInv, TurnQueueSound
      <4>. QED
        BY <1>0, <2>5, <4>1, WaitersType
    <3>2. ASSUME NEW p \in 1..Len(turnWaiters'), NEW q \in 1..Len(turnWaiters'),
                 NEW i \in 1..Len(arrivals'), NEW j \in 1..Len(arrivals'),
                 p < q, arrivals'[i] = turnWaiters'[p], arrivals'[j] = turnWaiters'[q]
          PROVE  i < j
      <4>1. p \in 1..Len(turnWaiters) /\ i \in 1..Len(arrivals)
        BY <2>1, <3>1, <3>2
      <4>2. CASE q \in 1..Len(turnWaiters)
        <5>1. j \in 1..Len(arrivals)
          BY <2>1, <3>1, <3>2, <4>2
        <5>. QED
          BY <2>1, <3>1, <3>2, <4>1, <4>2, <5>1 DEF ArrivalOrder
      <4>3. CASE q = Len(turnWaiters) + 1
        BY <2>1, <3>1, <3>2, <4>1, <4>3
      <4>. QED
        BY <3>1, <4>2, <4>3
    <3>3. NoOvertaking'
      BY <2>1, <2>2, <2>5 DEF NoOvertaking
    <3>. QED
      BY <2>3, <3>2, <3>3 DEF ArrivalOrder
  <2>. QED
    BY <1>0, <1>2, <2>4, <2>5 DEF Call, TypeOK
<1>. QED
  BY <1>1, <1>2 DEF Call

(* A waiter that leaves the queue does not change the order of the others. *)
LEMMA ArrivalsAbort ==
    ASSUME IInv, ArrivalInv, NEW t \in Turns, Abort(t)
    PROVE  ArrivalInv'
<1>0. TypeOK /\ UNCHANGED arrivals
  BY DEF IInv, Abort
<1>1. CASE UNCHANGED <<pc, turnWaiters>>
  BY <1>0, <1>1, ArrivalsKept
<1>2. ASSUME NEW i \in 1..Len(turnWaiters), turnWaiters' = RemoveAt(turnWaiters, i),
             pc' = [pc EXCEPT ![t] = "rejected"]
      PROVE  ArrivalInv'
  <2>1. \A u \in Turns : pc'[u] \in {pc[u], "rejected"}
    BY <1>0, <1>2 DEF TypeOK
  <2>2. /\ Len(turnWaiters) \in Nat /\ Len(turnWaiters') = Len(turnWaiters) - 1
        /\ \A j \in 1..(Len(turnWaiters) - 1) :
              turnWaiters'[j] = IF j < i THEN turnWaiters[j] ELSE turnWaiters[j + 1]
    <3>1. turnWaiters \in Seq(Turns) /\ Len(turnWaiters) \in Nat
      BY <1>0, WaitersType
    <3>. QED
      BY <1>2, <3>1, RemoveAtFacts
  <2>. DEFINE old(j) == IF j < i THEN j ELSE j + 1
  <2>3. \A j \in 1..Len(turnWaiters') :
           old(j) \in 1..Len(turnWaiters) /\ turnWaiters'[j] = turnWaiters[old(j)]
    BY <2>2
  <2>4. \A p, q \in 1..Len(turnWaiters') : p < q => old(p) < old(q)
    BY <2>2
  <2>. HIDE DEF old
  <2>5. \A p, q \in 1..Len(turnWaiters') : p < q =>
           \E k, l \in 1..Len(turnWaiters) :
              k < l /\ turnWaiters'[p] = turnWaiters[k] /\ turnWaiters'[q] = turnWaiters[l]
    BY <2>3, <2>4
  <2>. QED
    BY <1>0, <2>1, <2>5, ArrivalsKept
<1>. QED
  BY <1>1, <1>2 DEF Abort

LEMMA ArrivalStep == IInv /\ ArrivalInv /\ [Next]_vars => ArrivalInv'
<1>. SUFFICES ASSUME IInv, ArrivalInv, [Next]_vars PROVE ArrivalInv'
  OBVIOUS
<1>0. TypeOK
  BY DEF IInv
<1>1. ASSUME UNCHANGED <<pc, queueSide>> PROVE ArrivalInv'
  BY <1>0, <1>1, ArrivalsKept DEF queueSide, queueVars
<1>2. CASE Waits
  BY <1>1, <1>2, ArrivalsCall, ArrivalsAbort DEF Waits
<1>3. ASSUME NEW t \in Turns, GivesUp(t) \/ PersistOk(t) PROVE ArrivalInv'
  BY <1>3, ArrivalsReleased DEF GivesUp, PersistOk, Persisting, Holding, Body, Ended
<1>4. ASSUME NEW t \in Turns, NEW p \in Body, NEW w, NEW cost,
             pc[t] \in Holding, GoesOn(t, p, w, cost)
      PROVE  ArrivalInv'
  <2>1. \A u \in Turns : pc'[u] = pc[u]
                           \/ (pc[u] \in Holding /\ pc'[u] \notin {"idle", "queued"})
    BY <1>0, <1>4 DEF GoesOn, TypeOK, Body
  <2>. QED
    BY <1>0, <1>4, <2>1, ArrivalsKept DEF GoesOn, queueSide, queueVars
<1>5. ASSUME NEW t \in Turns, Begun(t) \/ Trimmed(t) \/ Replied(t) \/ Answered(t) \/ Pulled(t)
      PROVE  ArrivalInv'
  BY <1>4, <1>5 DEF Begun, Trimmed, Replied, Answered, Pulled, Holding, Body, Closing
<1>6. CASE Clear
  BY <1>1, <1>6 DEF Clear, queueSide
<1>7. CASE UNCHANGED vars
  BY <1>1, <1>7 DEF vars, queueSide
<1>. QED
  BY <1>0, <1>2, <1>3, <1>5, <1>6, <1>7, NextShape

(* acquireTurn and createTurnRelease serve the turns of a conversation in  *)
(* the order they arrive, whichever of them are aborted while they wait.   *)
THEOREM FairQueue == Spec => []NoOvertaking
<1>1. Init => ArrivalInv
  BY DEF Init, ArrivalInv, ArrivalOrder, NoOvertaking
<1>2. ArrivalInv => NoOvertaking
  BY DEF ArrivalInv
<1>. QED
  BY Inductive, ArrivalStep, <1>1, <1>2, PTL DEF Spec

-----------------------------------------------------------------------------
(* Induction, and sums over finite sets.                                   *)

(* Induction on the natural numbers, for a set instead of a predicate.     *)
LEMMA NatSetInduction ==
    ASSUME NEW T, 0 \in T, \A n \in Nat : n \in T => n + 1 \in T
    PROVE  Nat \subseteq T
<1>. DEFINE Out == Nat \ T
<1>1. SUFFICES ASSUME Out # {} PROVE FALSE
  OBVIOUS
<1>2. PICK n \in Out : \A m \in Out : <<m, n>> \notin OpToRel(<, Nat)
  BY <1>1, NatLessThanWellFounded, WFMin
<1>3. n # 0 /\ n \in Nat
  OBVIOUS
<1>4. n - 1 \in Nat /\ n - 1 < n
  BY <1>3
<1>5. <<n - 1, n>> \in OpToRel(<, Nat)
  BY <1>3, <1>4 DEF OpToRel
<1>6. n - 1 \in T
  BY <1>2, <1>4, <1>5
<1>. QED
  BY <1>3, <1>4, <1>6

(* Induction on a finite set, adding one element at a time.                *)
LEMMA FiniteSetInduction ==
    ASSUME NEW S, IsFiniteSet(S), NEW Good, {} \in Good,
           \A U \in SUBSET S : \A x \in S \ U : U \in Good => U \cup {x} \in Good
    PROVE  S \in Good
<1>. DEFINE T == {n \in Nat : \A U \in SUBSET S : Cardinality(U) = n => U \in Good}
<1>1. 0 \in T
  <2>1. \A U \in SUBSET S : Cardinality(U) = 0 => U = {}
    BY FS_Subset, FS_EmptySet
  <2>. QED
    BY <2>1
<1>2. ASSUME NEW n \in Nat, n \in T PROVE n + 1 \in T
  <2>. SUFFICES ASSUME NEW U \in SUBSET S, Cardinality(U) = n + 1 PROVE U \in Good
    OBVIOUS
  <2>1. IsFiniteSet(U)
    BY FS_Subset
  <2>2. PICK x \in U : TRUE
    BY <2>1, FS_EmptySet
  <2>3. Cardinality(U \ {x}) = n
    <3>1. Cardinality(U \ {x}) = Cardinality(U) - 1
      BY <2>1, <2>2, FS_RemoveElement
    <3>. QED
      BY <3>1
  <2>4. U \ {x} \in Good
    BY <1>2, <2>3
  <2>. QED
    BY <2>2, <2>4
<1>. HIDE DEF T
<1>3. Nat \subseteq T
  BY <1>1, <1>2, NatSetInduction
<1>. QED
  BY <1>3, FS_CardinalityType DEF T

(* A finite set of naturals that is not empty has a maximum.               *)
LEMMA MaxProperties ==
    ASSUME NEW S \in SUBSET Nat, IsFiniteSet(S), S # {}
    PROVE  Max(S) \in S /\ \A y \in S : y <= Max(S)
<1>. DEFINE Good == {U \in SUBSET S : U # {} => \E x \in U : \A y \in U : x >= y}
<1>1. {} \in Good
  OBVIOUS
<1>2. ASSUME NEW U \in SUBSET S, NEW x \in S \ U, U \in Good
      PROVE  U \cup {x} \in Good
  <2>1. CASE U = {}
    BY <2>1
  <2>2. CASE U # {}
    <3>1. PICK m \in U : \A y \in U : m >= y
      BY <1>2, <2>2
    <3>2. CASE x >= m
      BY <3>1, <3>2
    <3>3. CASE ~(x >= m)
      BY <3>1, <3>3
    <3>. QED
      BY <3>2, <3>3
  <2>. QED
    BY <2>1, <2>2
<1>. HIDE DEF Good
<1>3. S \in Good
  BY <1>1, <1>2, FiniteSetInduction
<1>4. \E x \in S : \A y \in S : x >= y
  BY <1>3 DEF Good
<1>5. Max(S) \in S /\ \A y \in S : Max(S) >= y
  BY <1>4 DEF Max
<1>. QED
  BY <1>5

(* The sum of f over S, and the equation of the function that adds it up.  *)
Total(f, S) == MapThenSumSet(LAMBDA x : f[x], S)
Chosen(U) == CHOOSE x \in U : TRUE
Sums(it, f, S) ==
    it = [U \in SUBSET S |-> IF U = {} THEN 0 ELSE f[Chosen(U)] + it[U \ {Chosen(U)}]]

(* Total is the value at S of a function with that equation, if there is   *)
(* one ...                                                                 *)
LEMMA TotalUnfolds ==
    ASSUME NEW f, NEW S, NEW it, Sums(it, f, S)
    PROVE  \E jt : Sums(jt, f, S) /\ Total(f, S) = jt[S]
BY DEF Total, MapThenSumSet, MapThenFoldSet, Sums, Chosen

(* ... and for a finite set there is one: it is built up over the          *)
(* cardinalities of the subsets.                                           *)
Small(S, n) == {U \in SUBSET S : Cardinality(U) <= n}
SmallSums(it, f, S, n) ==
    it = [U \in Small(S, n) |-> IF U = {} THEN 0 ELSE f[Chosen(U)] + it[U \ {Chosen(U)}]]

LEMMA SumsExist ==
    ASSUME NEW f, NEW S, IsFiniteSet(S)
    PROVE  \E it : Sums(it, f, S)
<1>. DEFINE T == {n \in Nat : \E it : SmallSums(it, f, S, n)}
<1>1. 0 \in T
  <2>. DEFINE it == [U \in Small(S, 0) |-> 0]
  <2>1. \A U \in Small(S, 0) : U = {}
    <3>1. \A U \in SUBSET S : IsFiniteSet(U) /\ Cardinality(U) \in Nat
      BY FS_Subset, FS_CardinalityType
    <3>2. \A U \in SUBSET S : Cardinality(U) = 0 => U = {}
      BY <3>1, FS_EmptySet
    <3>. QED
      BY <3>1, <3>2 DEF Small
  <2>2. SmallSums(it, f, S, 0)
    BY <2>1 DEF SmallSums
  <2>. QED
    BY <2>2
<1>2. ASSUME NEW n \in Nat, n \in T PROVE n + 1 \in T
  <2>1. PICK it : SmallSums(it, f, S, n)
    BY <1>2
  <2>. DEFINE val(U) == IF U = {} THEN 0 ELSE f[Chosen(U)] + it[U \ {Chosen(U)}]
              jt == [U \in Small(S, n + 1) |-> val(U)]
  <2>2. ASSUME NEW U \in Small(S, n + 1), U # {}
        PROVE  U \ {Chosen(U)} \in Small(S, n) /\ U \ {Chosen(U)} \in Small(S, n + 1)
    <3>1. Chosen(U) \in U
      BY <2>2 DEF Chosen
    <3>2. IsFiniteSet(U) /\ Cardinality(U) \in Nat
      BY FS_Subset, FS_CardinalityType DEF Small
    <3>3. Cardinality(U \ {Chosen(U)}) = Cardinality(U) - 1
      BY <3>1, <3>2, FS_RemoveElement
    <3>. QED
      BY <3>2, <3>3 DEF Small
  <2>3. \A U \in Small(S, n) : it[U] = val(U)
    BY <2>1 DEF SmallSums
  <2>4. \A U \in Small(S, n + 1) : U # {} => jt[U \ {Chosen(U)}] = it[U \ {Chosen(U)}]
    BY <2>2, <2>3
  <2>5. SmallSums(jt, f, S, n + 1)
    BY <2>4 DEF SmallSums
  <2>. QED
    BY <2>5
<1>. HIDE DEF T
<1>3. Cardinality(S) \in T
  BY <1>1, <1>2, NatSetInduction, FS_CardinalityType
<1>4. PICK it : SmallSums(it, f, S, Cardinality(S))
  BY <1>3 DEF T
<1>5. Small(S, Cardinality(S)) = SUBSET S
  BY FS_Subset DEF Small
<1>. QED
  BY <1>4, <1>5 DEF SmallSums, Sums

(* On the subsets of a finite set, summation takes the elements in any     *)
(* order.                                                                  *)
LEMMA SumsType ==
    ASSUME NEW f, NEW S, IsFiniteSet(S), \A x \in S : f[x] \in Nat,
           NEW it, Sums(it, f, S)
    PROVE  \A U \in SUBSET S : it[U] \in Nat
<1>1. \A U \in SUBSET S :
         it[U] = IF U = {} THEN 0 ELSE f[Chosen(U)] + it[U \ {Chosen(U)}]
  BY DEF Sums
<1>. DEFINE T == {n \in Nat : \A U \in SUBSET S : Cardinality(U) = n => it[U] \in Nat}
<1>2. \A U \in SUBSET S : IsFiniteSet(U) /\ Cardinality(U) \in Nat
  BY FS_Subset, FS_CardinalityType
<1>3. 0 \in T
  <2>1. \A U \in SUBSET S : Cardinality(U) = 0 => U = {}
    BY <1>2, FS_EmptySet
  <2>. QED
    BY <1>1, <2>1
<1>4. ASSUME NEW n \in Nat, n \in T PROVE n + 1 \in T
  <2>. SUFFICES ASSUME NEW U \in SUBSET S, Cardinality(U) = n + 1 PROVE it[U] \in Nat
    OBVIOUS
  <2>1. U # {}
    BY FS_EmptySet
  <2>2. Chosen(U) \in U
    BY <2>1 DEF Chosen
  <2>3. Cardinality(U \ {Chosen(U)}) = n
    <3>1. Cardinality(U \ {Chosen(U)}) = Cardinality(U) - 1
      BY <1>2, <2>2, FS_RemoveElement
    <3>. QED
      BY <3>1
  <2>4. it[U \ {Chosen(U)}] \in Nat /\ f[Chosen(U)] \in Nat
    BY <1>4, <2>2, <2>3
  <2>. QED
    BY <1>1, <2>1, <2>4
<1>. HIDE DEF T
<1>5. Nat \subseteq T
  BY <1>3, <1>4, NatSetInduction
<1>. QED
  BY <1>2, <1>5 DEF T

LEMMA SumsAnyOrder ==
    ASSUME NEW f, NEW S, IsFiniteSet(S), \A x \in S : f[x] \in Nat,
           NEW it, Sums(it, f, S)
    PROVE  \A U \in SUBSET S : \A x \in U : it[U] = f[x] + it[U \ {x}]
<1>1. \A U \in SUBSET S :
         /\ it[U] \in Nat
         /\ U # {} => it[U] = f[Chosen(U)] + it[U \ {Chosen(U)}]
  BY SumsType DEF Sums
<1>. DEFINE Law(U) == \A x \in U : it[U] = f[x] + it[U \ {x}]
            T == {n \in Nat : \A U \in SUBSET S : Cardinality(U) = n => Law(U)}
<1>2. \A U \in SUBSET S : IsFiniteSet(U) /\ Cardinality(U) \in Nat
  BY FS_Subset, FS_CardinalityType
<1>3. 0 \in T
  <2>1. \A U \in SUBSET S : Cardinality(U) = 0 => U = {}
    BY <1>2, FS_EmptySet
  <2>. QED
    BY <2>1
<1>4. ASSUME NEW n \in Nat, n \in T PROVE n + 1 \in T
  <2>. SUFFICES ASSUME NEW U \in SUBSET S, Cardinality(U) = n + 1, NEW x \in U
                PROVE  it[U] = f[x] + it[U \ {x}]
    OBVIOUS
  <2>. DEFINE y == Chosen(U)
  <2>1. y \in U
    BY DEF Chosen
  <2>2. it[U] = f[y] + it[U \ {y}]
    BY <1>1
  <2>3. CASE x = y
    BY <2>2, <2>3
  <2>4. CASE x # y
    <3>. HIDE DEF y
    <3>1. Cardinality(U \ {x}) = n /\ Cardinality(U \ {y}) = n
      <4>1. /\ Cardinality(U \ {x}) = Cardinality(U) - 1
            /\ Cardinality(U \ {y}) = Cardinality(U) - 1
        BY <1>2, <2>1, FS_RemoveElement
      <4>. QED
        BY <4>1
    <3>2. Law(U \ {x}) /\ Law(U \ {y})
      BY <1>4, <3>1
    <3>3. /\ it[U \ {x}] = f[y] + it[(U \ {x}) \ {y}]
          /\ it[U \ {y}] = f[x] + it[(U \ {y}) \ {x}]
      BY <2>1, <2>4, <3>2
    <3>. DEFINE rest == it[(U \ {x}) \ {y}]
    <3>4. (U \ {y}) \ {x} = (U \ {x}) \ {y}
      OBVIOUS
    <3>5. f[x] \in Nat /\ f[y] \in Nat /\ rest \in Nat
      BY <1>1, <2>1
    <3>6. /\ it[U \ {x}] = f[y] + rest
          /\ it[U] = f[y] + (f[x] + rest)
      BY <2>2, <3>3, <3>4
    <3>. HIDE DEF rest
    <3>7. f[x] + (f[y] + rest) = f[y] + (f[x] + rest)
      BY <3>5
    <3>. QED
      BY <3>6, <3>7
  <2>. QED
    BY <2>3, <2>4
<1>. HIDE DEF T
<1>5. Nat \subseteq T
  BY <1>3, <1>4, NatSetInduction
<1>. QED
  BY <1>2, <1>5 DEF T

(* Two summations agree on the sets whose elements they map alike.         *)
LEMMA SumsAgree ==
    ASSUME NEW f, NEW g, NEW S, NEW V, IsFiniteSet(S), IsFiniteSet(V),
           \A x \in S : f[x] \in Nat, \A x \in V : g[x] \in Nat,
           NEW it, NEW jt, Sums(it, f, S), Sums(jt, g, V),
           NEW W \in SUBSET S, W \subseteq V, \A x \in W : f[x] = g[x]
    PROVE  it[W] = jt[W]
<1>. DEFINE Good == {U \in SUBSET W : it[U] = jt[U]}
<1>1. it[{}] = 0 /\ jt[{}] = 0
  BY DEF Sums
<1>2. ASSUME NEW U \in SUBSET W, NEW x \in W \ U, U \in Good
      PROVE  U \cup {x} \in Good
  <2>1. (U \cup {x}) \ {x} = U
    OBVIOUS
  <2>2. it[U \cup {x}] = f[x] + it[(U \cup {x}) \ {x}]
    BY SumsAnyOrder, SMTT(30)
  <2>3. jt[U \cup {x}] = g[x] + jt[(U \cup {x}) \ {x}]
    BY SumsAnyOrder, SMTT(30)
  <2>. QED
    BY <1>2, <2>1, <2>2, <2>3
<1>3. {} \in Good
  BY <1>1
<1>4. IsFiniteSet(W)
  BY FS_Subset
<1>. HIDE DEF Good
<1>5. W \in Good
  BY <1>2, <1>3, <1>4, FiniteSetInduction
<1>. QED
  BY <1>5 DEF Good

(* What the model's sums do: none to add, one more to add, and nothing     *)
(* changed among those that are added.                                     *)
LEMMA TotalEmpty == \A f : Total(f, {}) = 0
<1>. SUFFICES ASSUME NEW f PROVE Total(f, {}) = 0
  OBVIOUS
<1>1. PICK it : Sums(it, f, {}) /\ Total(f, {}) = it[{}]
  BY SumsExist, TotalUnfolds, FS_EmptySet
<1>. QED
  BY <1>1 DEF Sums

LEMMA TotalAdds ==
    ASSUME NEW f, NEW g, NEW S, NEW x, IsFiniteSet(S), x \notin S,
           \A y \in S : f[y] \in Nat /\ g[y] = f[y], g[x] \in Nat
    PROVE  Total(g, S \cup {x}) = Total(f, S) + g[x]
<1>1. IsFiniteSet(S \cup {x})
  BY FS_AddElement
<1>2. PICK it : Sums(it, f, S) /\ Total(f, S) = it[S]
  BY SumsExist, TotalUnfolds
<1>3. PICK jt : Sums(jt, g, S \cup {x}) /\ Total(g, S \cup {x}) = jt[S \cup {x}]
  BY <1>1, SumsExist, TotalUnfolds
<1>4. jt[S \cup {x}] = g[x] + jt[(S \cup {x}) \ {x}]
  <2>1. \A y \in S \cup {x} : g[y] \in Nat
    OBVIOUS
  <2>. QED
    BY <1>1, <1>3, <2>1, SumsAnyOrder
<1>5. (S \cup {x}) \ {x} = S
  OBVIOUS
<1>6. it[S] = jt[S]
  BY <1>1, <1>2, <1>3, SumsAgree
<1>7. it[S] \in Nat
  BY <1>2, SumsType
<1>8. jt[S \cup {x}] = g[x] + it[S]
  BY <1>4, <1>5, <1>6
<1>9. jt[S \cup {x}] = it[S] + g[x]
  BY <1>7, <1>8
<1>. QED
  BY <1>2, <1>3, <1>9

LEMMA TotalSame ==
    ASSUME NEW f, NEW g, NEW S, IsFiniteSet(S), \A y \in S : f[y] \in Nat /\ g[y] = f[y]
    PROVE  Total(g, S) = Total(f, S)
<1>1. PICK it : Sums(it, f, S) /\ Total(f, S) = it[S]
  BY SumsExist, TotalUnfolds
<1>2. PICK jt : Sums(jt, g, S) /\ Total(g, S) = jt[S]
  BY SumsExist, TotalUnfolds
<1>. QED
  BY <1>1, <1>2, SumsAgree

-----------------------------------------------------------------------------
(* The total of a conversation.                                            *)

(* The turns whose cost the conversation has taken over.                   *)
Paid == {t \in Turns : pc[t] \in {"committed", "billed"}}
AccountInv == IsFiniteSet(Paid) /\ totalCostUSD = Total(spent, Paid)

(* Nothing is taken over: the same turns are paid, at the same cost.       *)
Unbilled ==
    /\ UNCHANGED totalCostUSD
    /\ \A u \in Turns : (u \in Paid' <=> u \in Paid) /\ (u \in Paid => spent'[u] = spent[u])

(* A release pays for no turn but its own.                                 *)
LEMMA ReleasePays ==
    ASSUME TypeOK, QueueInv, NEW t \in Turns, NEW outcome \in Ended, Release(t, outcome)
    PROVE  /\ pc'[t] = outcome
           /\ \A u \in Turns : u # t => (u \in Paid' <=> u \in Paid)
<1>1. CASE pc' = [u \in Turns |->
                    IF u = t THEN outcome
                    ELSE IF pc[u] = "queued" THEN "rejected" ELSE pc[u]]
  BY <1>1 DEF Paid
<1>2. ASSUME NEW i \in 1..Len(turnWaiters),
             pc' = [u \in Turns |->
                       IF u = t THEN outcome
                       ELSE IF u = turnWaiters[i] THEN "granted"
                       ELSE IF \E j \in 1..(i - 1) : turnWaiters[j] = u THEN "rejected"
                       ELSE pc[u]]
      PROVE  /\ pc'[t] = outcome
             /\ \A u \in Turns : u # t => (u \in Paid' <=> u \in Paid)
  <2>1. \A j \in 1..Len(turnWaiters) :
           turnWaiters[j] \in Turns /\ turnWaiters[j] \notin Paid
    BY WaitersType DEF QueueInv, TurnQueueSound, Paid
  <2>2. \A j \in 1..(i - 1) : j \in 1..Len(turnWaiters)
    BY WaitersType
  <2>3. ASSUME NEW u \in Turns, u # t PROVE u \in Paid' <=> u \in Paid
    <3>1. CASE u = turnWaiters[i] \/ \E j \in 1..(i - 1) : turnWaiters[j] = u
      <4>1. u \notin Paid
        BY <2>1, <2>2, <3>1
      <4>2. pc'[u] \in {"granted", "rejected"}
        BY <1>2, <2>3, <3>1
      <4>. QED
        BY <4>1, <4>2 DEF Paid
    <3>2. CASE ~(u = turnWaiters[i] \/ \E j \in 1..(i - 1) : turnWaiters[j] = u)
      BY <1>2, <2>3, <3>2 DEF Paid
    <3>. QED
      BY <3>1, <3>2
  <2>. QED
    BY <1>2, <2>3
<1>. QED
  BY <1>1, <1>2 DEF Release

LEMMA GivesUpUnbilled ==
    ASSUME TypeOK, QueueInv, NEW t \in Turns, GivesUp(t)
    PROVE  Unbilled
BY ReleasePays DEF GivesUp, ledger, Unbilled, Paid, Holding, Body, Ended

LEMMA GoesOnUnbilled ==
    ASSUME TypeOK, NEW t \in Turns, pc[t] \in Holding, NEW p \in Body, NEW w, NEW cost,
           GoesOn(t, p, w, cost)
    PROVE  Unbilled
<1>1. pc[t] \notin {"committed", "billed"} /\ p \notin {"committed", "billed"}
  BY DEF Holding, Body
<1>. QED
  BY <1>1 DEF GoesOn, ledger, Unbilled, Paid, TypeOK

LEMMA UnbilledSteps ==
    ASSUME TypeOK, QueueInv, Next
    PROVE  Unbilled \/ \E t \in Turns : PersistOk(t)
<1>1. CASE Waits
  BY <1>1 DEF Waits, ledger, Call, Abort, Unbilled, Paid, TypeOK
<1>2. ASSUME NEW t \in Turns, Begun(t) \/ Trimmed(t) \/ Replied(t) \/ Answered(t) \/ Pulled(t)
      PROVE  Unbilled
  BY <1>2, GoesOnUnbilled DEF Begun, Trimmed, Replied, Answered, Pulled, Holding, Body, Closing
<1>3. CASE Clear
  BY <1>3 DEF Clear, Unbilled, Paid, loopVars
<1>. QED
  BY <1>1, <1>2, <1>3, NextShape, GivesUpUnbilled

LEMMA AccountStep == IInv /\ AccountInv /\ [Next]_vars => AccountInv'
<1>. SUFFICES ASSUME IInv, AccountInv, [Next]_vars PROVE AccountInv'
  OBVIOUS
<1>0. TypeOK /\ QueueInv /\ spent \in [Turns -> Nat]
  BY DEF IInv, TypeOK
<1>1. CASE Unbilled
  <2>1. Paid' = Paid /\ \A u \in Paid : spent[u] \in Nat /\ spent'[u] = spent[u]
    BY <1>0, <1>1 DEF Unbilled, Paid
  <2>2. Total(spent', Paid) = Total(spent, Paid)
    BY <2>1, TotalSame DEF AccountInv
  <2>. QED
    BY <1>1, <2>1, <2>2 DEF AccountInv, Unbilled
<1>2. ASSUME NEW t \in Turns, PersistOk(t) PROVE AccountInv'
  <2>1. /\ pc[t] \in {"committing", "billing"} /\ spent' = spent
        /\ totalCostUSD' = totalCostUSD + spent[t]
        /\ \E outcome \in {"committed", "billed"} : Release(t, outcome)
    BY <1>2 DEF PersistOk, Persisting, NextCost, loopVars
  <2>2. Paid' = Paid \cup {t} /\ t \notin Paid
    BY <1>0, <2>1, ReleasePays DEF Paid, Ended
  <2>3. IsFiniteSet(Paid')
    BY <2>2, FS_AddElement DEF AccountInv
  <2>4. Total(spent, Paid \cup {t}) = Total(spent, Paid) + spent[t]
    <3>1. \A u \in Paid : spent[u] \in Nat
      BY <1>0 DEF Paid
    <3>. QED
      BY <1>0, <2>2, <3>1, TotalAdds DEF AccountInv
  <2>. QED
    BY <2>1, <2>2, <2>3, <2>4 DEF AccountInv
<1>3. CASE UNCHANGED vars
  BY <1>1, <1>3 DEF vars, Unbilled, Paid, loopVars, stateVars
<1>. QED
  BY <1>0, <1>1, <1>2, <1>3, UnbilledSteps

(* The totals of a conversation are the costs of the turns that ended      *)
(* committed or billed, each counted once with all of its rounds.          *)
THEOREM AccountingCorrect == Spec => []AccountingExact
<1>1. Init => AccountInv
  <2>1. Init => Paid = {} /\ totalCostUSD = 0
    BY DEF Init, Paid
  <2>. QED
    BY <2>1, TotalEmpty, FS_EmptySet DEF AccountInv
<1>2. AccountInv => AccountingExact
  BY DEF AccountInv, AccountingExact, Total, Paid
<1>. QED
  BY Inductive, AccountStep, <1>1, <1>2, PTL DEF Spec

-----------------------------------------------------------------------------
(* Budgets.                                                                *)

(* C bounds what one response costs.  A response is paid for only while    *)
(* every budget in force has something left, and a turn starts from what   *)
(* the turns before it left.                                               *)
ConversationPays == ConversationBudget # NoBudget /\ \A u \in Turns : BudgetAction[u] # "warn"
RequestPays(t) == RequestBudget[t] # NoBudget /\ BudgetAction[t] # "warn"
WithinBudgets(t, C) ==
    /\ ConversationPays => totalCostUSD + spent[t] < ConversationBudget + C
    /\ RequestPays(t) => spent[t] < RequestBudget[t] + C

BudgetInv(C) ==
    /\ ConversationPays => totalCostUSD < ConversationBudget + C
    /\ \A t \in Turns :
          /\ pc[t] \in {"idle", "queued", "granted"} => spent[t] = 0
          /\ pc[t] \in Body => WithinBudgets(t, C)
          /\ pc[t] = "requesting" /\ BudgetAction[t] # "warn" => ~BudgetExhausted(t)

BoundsCosts(C) == C \in Nat \ {0} /\ \A cost \in Costs : cost <= C

(* What a budget that is not exhausted still has.                          *)
LEMMA Solvent ==
    ASSUME TypeOK, NEW t \in Turns, ~BudgetExhausted(t)
    PROVE  /\ ConversationBudget # NoBudget => totalCostUSD + spent[t] < ConversationBudget
           /\ RequestBudget[t] # NoBudget => spent[t] < RequestBudget[t]
<1>1. totalCostUSD \in Nat /\ spent[t] \in Nat
  BY DEF TypeOK
<1>2. ASSUME ConversationBudget # NoBudget
      PROVE  totalCostUSD + spent[t] < ConversationBudget
  <2>1. ConversationBudget - (totalCostUSD + spent[t]) \in Remaining(t)
    BY <1>2 DEF Remaining
  <2>2. ~(ConversationBudget - (totalCostUSD + spent[t]) <= 0)
    BY <2>1 DEF BudgetExhausted
  <2>3. ConversationBudget \in Nat
    BY <1>2, BudgetAssumption
  <2>. QED
    BY <1>1, <2>2, <2>3
<1>3. ASSUME RequestBudget[t] # NoBudget
      PROVE  spent[t] < RequestBudget[t]
  <2>1. RequestBudget[t] - spent[t] \in Remaining(t)
    BY <1>3 DEF Remaining
  <2>2. ~(RequestBudget[t] - spent[t] <= 0)
    BY <2>1 DEF BudgetExhausted
  <2>3. RequestBudget[t] \in Nat
    BY <1>3, BudgetAssumption
  <2>. QED
    BY <1>1, <2>2, <2>3
<1>. QED
  BY <1>2, <1>3

(* One response more stays within the bound.                               *)
LEMMA OneResponse ==
    ASSUME TypeOK, NEW C, BoundsCosts(C), NEW t \in Turns,
           BudgetAction[t] # "warn" => ~BudgetExhausted(t), NEW cost \in Costs \cup {0},
           spent' = [spent EXCEPT ![t] = @ + cost], UNCHANGED totalCostUSD
    PROVE  WithinBudgets(t, C)'
<1>1. /\ totalCostUSD \in Nat /\ spent[t] \in Nat /\ cost \in Nat /\ C \in Nat
      /\ cost <= C /\ spent'[t] = spent[t] + cost
  BY OptionsAssumption DEF TypeOK, BoundsCosts
<1>2. ASSUME ConversationPays
      PROVE  totalCostUSD + spent'[t] < ConversationBudget + C
  <2>1. totalCostUSD + spent[t] < ConversationBudget /\ ConversationBudget \in Nat
    BY <1>2, Solvent, BudgetAssumption DEF ConversationPays
  <2>. QED
    BY <1>1, <2>1
<1>3. ASSUME RequestPays(t)
      PROVE  spent'[t] < RequestBudget[t] + C
  <2>1. spent[t] < RequestBudget[t] /\ RequestBudget[t] \in Nat
    BY <1>3, Solvent, BudgetAssumption DEF RequestPays
  <2>. QED
    BY <1>1, <2>1
<1>. QED
  BY <1>2, <1>3 DEF WithinBudgets, ConversationPays, RequestPays

(* A turn in its body goes on to another phase: within budgets, and with   *)
(* an unexhausted one when it asks the model again.                        *)
LEMMA BudgetGoesOn ==
    ASSUME IInv, NEW C, BudgetInv(C), NEW t \in Turns, pc[t] \in Holding, NEW p \in Body,
           NEW w, NEW cost, GoesOn(t, p, w, cost), WithinBudgets(t, C)',
           p = "requesting" /\ BudgetAction[t] # "warn" => ~BudgetExhausted(t)'
    PROVE  BudgetInv(C)'
<1>1. /\ TypeOK /\ UNCHANGED totalCostUSD
      /\ pc' = [pc EXCEPT ![t] = p] /\ spent' = [spent EXCEPT ![t] = @ + cost]
  BY DEF IInv, GoesOn, ledger
<1>2. ASSUME NEW u \in Turns, u # t
      PROVE  pc'[u] = pc[u] /\ spent'[u] = spent[u] /\ pc[u] \notin Body
  <2>1. pc[u] \notin Body
    BY <1>2 DEF IInv, QueueInv, TurnQueueSound, OneHolder, Holding
  <2>. QED
    BY <1>1, <1>2, <2>1 DEF TypeOK
<1>3. pc'[t] = p /\ p \notin {"idle", "queued", "granted"}
  BY <1>1 DEF TypeOK, Body
<1>4. ASSUME NEW u \in Turns
      PROVE  /\ pc'[u] \in {"idle", "queued", "granted"} => spent'[u] = 0
             /\ pc'[u] \in Body => WithinBudgets(u, C)'
             /\ pc'[u] = "requesting" /\ BudgetAction[u] # "warn" => ~BudgetExhausted(u)'
  <2>1. CASE u = t
    BY <1>3, <2>1
  <2>2. CASE u # t
    <3>1. "requesting" \in Body
      BY DEF Body
    <3>. QED
      BY <1>2, <2>2, <3>1 DEF BudgetInv
  <2>. QED
    BY <2>1, <2>2
<1>. QED
  BY <1>1, <1>4 DEF BudgetInv

(* A step after which no turn is in its body.                              *)
LEMMA BudgetRests ==
    ASSUME IInv, NEW C, BudgetInv(C), \A u \in Turns : pc'[u] \notin Body,
           ConversationPays => totalCostUSD' < ConversationBudget + C,
           \A u \in Turns : pc'[u] \in {"idle", "queued", "granted"} =>
                               pc[u] \in {"idle", "queued", "granted"} /\ spent'[u] = spent[u]
    PROVE  BudgetInv(C)'
<1>1. "requesting" \in Body
  BY DEF Body
<1>. QED
  BY <1>1 DEF BudgetInv

(* A release lets only turns that have spent nothing go on.                *)
LEMMA ReleaseUnspent ==
    ASSUME IInv, NEW t \in Turns, NEW outcome \in Ended, Release(t, outcome)
    PROVE  \A u \in Turns : pc'[u] \in {"idle", "queued", "granted"} =>
                               u # t /\ pc[u] \in {"idle", "queued", "granted"}
<1>1. \A j \in 1..Len(turnWaiters) :
         turnWaiters[j] \in Turns /\ pc[turnWaiters[j]] = "queued"
  BY WaitersType DEF IInv, QueueInv, TurnQueueSound
<1>2. CASE pc' = [u \in Turns |->
                    IF u = t THEN outcome
                    ELSE IF pc[u] = "queued" THEN "rejected" ELSE pc[u]]
  BY <1>2 DEF Ended
<1>3. ASSUME NEW i \in 1..Len(turnWaiters),
             pc' = [u \in Turns |->
                       IF u = t THEN outcome
                       ELSE IF u = turnWaiters[i] THEN "granted"
                       ELSE IF \E j \in 1..(i - 1) : turnWaiters[j] = u THEN "rejected"
                       ELSE pc[u]]
      PROVE  \A u \in Turns : pc'[u] \in {"idle", "queued", "granted"} =>
                                 u # t /\ pc[u] \in {"idle", "queued", "granted"}
  BY <1>1, <1>3 DEF Ended
<1>. QED
  BY <1>2, <1>3 DEF Release

LEMMA BudgetStep ==
    ASSUME IInv, NEW C, BoundsCosts(C), BudgetInv(C), Next
    PROVE  BudgetInv(C)'
<1>0. TypeOK /\ QueueInv
  BY DEF IInv
<1>1. ASSUME UNCHANGED <<pc, spent, totalCostUSD>> PROVE BudgetInv(C)'
  BY <1>1 DEF BudgetInv, WithinBudgets, BudgetExhausted, Remaining
<1>2. CASE Waits
  <2>1. ASSUME NEW t \in Turns, Call(t) \/ Abort(t), UNCHANGED <<spent, totalCostUSD>>
        PROVE  BudgetInv(C)'
    <3>1. \A u \in Turns : \/ pc'[u] = pc[u]
                           \/ pc[u] \in {"idle", "queued"}
                                 /\ pc'[u] \in {"queued", "granted", "rejected"}
      BY <1>0, <2>1 DEF Call, Abort, TypeOK
    <3>. QED
      BY <2>1, <3>1 DEF BudgetInv, WithinBudgets, BudgetExhausted, Remaining, Body
  <2>. QED
    BY <1>1, <1>2, <2>1 DEF Waits, ledger
<1>3. ASSUME NEW t \in Turns, GivesUp(t) PROVE BudgetInv(C)'
  <2>1. \A u \in Turns : pc'[u] \notin Body
    BY <1>0, <1>3, ReleaseEndsBody DEF GivesUp, Ended
  <2>2. \A u \in Turns : pc'[u] \in {"idle", "queued", "granted"} =>
                            u # t /\ pc[u] \in {"idle", "queued", "granted"}
    BY <1>3, ReleaseUnspent DEF GivesUp, Ended
  <2>. QED
    BY <1>3, <2>1, <2>2, BudgetRests DEF GivesUp, ledger, BudgetInv
<1>4. ASSUME NEW t \in Turns, PersistOk(t) PROVE BudgetInv(C)'
  <2>1. /\ pc[t] \in Body /\ pc[t] \in Holding
        /\ \E outcome \in Ended : Release(t, outcome)
        /\ totalCostUSD' = totalCostUSD + spent[t] /\ UNCHANGED spent
    BY <1>4 DEF PersistOk, Persisting, NextCost, loopVars, Ended, Body, Holding
  <2>2. \A u \in Turns : pc'[u] \notin Body
    BY <1>0, <2>1, ReleaseEndsBody
  <2>3. \A u \in Turns : pc'[u] \in {"idle", "queued", "granted"} =>
                            u # t /\ pc[u] \in {"idle", "queued", "granted"}
    BY <2>1, ReleaseUnspent
  <2>4. ConversationPays => totalCostUSD' < ConversationBudget + C
    BY <2>1 DEF BudgetInv, WithinBudgets
  <2>. QED
    BY <2>1, <2>2, <2>3, <2>4, BudgetRests
<1>5. ASSUME NEW t \in Turns, Begun(t) PROVE BudgetInv(C)'
  <2>1. /\ pc[t] \in Holding /\ "preparing" \in Body /\ "preparing" # "requesting"
        /\ GoesOn(t, "preparing", Append(messages, Msg(t, "user")), 0)
    BY <1>5 DEF Begun, Holding, Body
  <2>2. spent'[t] = 0 /\ totalCostUSD' = totalCostUSD /\ totalCostUSD \in Nat
    BY <1>0, <1>5 DEF Begun, GoesOn, ledger, TypeOK, BudgetInv
  <2>3. WithinBudgets(t, C)'
    <3>1. ConversationPays => totalCostUSD' + spent'[t] < ConversationBudget + C
      BY <2>2 DEF BudgetInv
    <3>2. RequestPays(t) => spent'[t] < RequestBudget[t] + C
      <4>1. RequestPays(t) => RequestBudget[t] \in Nat
        BY BudgetAssumption DEF RequestPays
      <4>2. C \in Nat \ {0}
        BY DEF BoundsCosts
      <4>. QED
        BY <2>2, <4>1, <4>2
    <3>. QED
      BY <3>1, <3>2 DEF WithinBudgets, ConversationPays, RequestPays
  <2>. QED
    BY <2>1, <2>3, BudgetGoesOn
<1>6. ASSUME NEW t \in Turns, pc[t] \in Body, NEW p \in Body, p # "requesting", NEW w,
             GoesOn(t, p, w, 0)
      PROVE  BudgetInv(C)'
  <2>1. spent'[t] = spent[t] /\ UNCHANGED totalCostUSD /\ pc[t] \in Holding
    BY <1>0, <1>6 DEF GoesOn, ledger, TypeOK, Holding
  <2>2. WithinBudgets(t, C)'
    BY <1>6, <2>1 DEF WithinBudgets, ConversationPays, RequestPays, BudgetInv
  <2>. QED
    BY <1>6, <2>1, <2>2, BudgetGoesOn
<1>7. ASSUME NEW t \in Turns, Trimmed(t) PROVE BudgetInv(C)'
  <2>1. pc[t] \in Body /\ pc[t] \in Holding /\ Closing \subseteq Body /\ "requesting" \in Body
           /\ "requesting" \notin Closing
    BY <1>7 DEF Trimmed, Holding, Body, Closing
  <2>2. ASSUME NEW w, GoesOn(t, "requesting", w, 0),
               BudgetExhausted(t) => BudgetAction[t] = "warn"
        PROVE  BudgetInv(C)'
    <3>1. spent'[t] = spent[t] /\ UNCHANGED totalCostUSD
      BY <1>0, <2>2 DEF GoesOn, ledger, TypeOK
    <3>2. WithinBudgets(t, C)'
      BY <2>1, <3>1 DEF WithinBudgets, ConversationPays, RequestPays, BudgetInv
    <3>3. BudgetAction[t] # "warn" => ~BudgetExhausted(t)'
      BY <2>2, <3>1 DEF BudgetExhausted, Remaining
    <3>. QED
      BY <2>1, <2>2, <3>2, <3>3, BudgetGoesOn
  <2>. QED
    BY <1>6, <1>7, <2>1, <2>2 DEF Trimmed
<1>8. ASSUME NEW t \in Turns, Replied(t) PROVE BudgetInv(C)'
  <2>1. pc[t] = "requesting" /\ pc[t] \in Holding /\ Closing \subseteq Body
           /\ {"billing", "executing", "preparing"} \subseteq Body
           /\ "requesting" \notin Closing
    BY <1>8 DEF Replied, Holding, Body, Closing
  <2>2. BudgetAction[t] # "warn" => ~BudgetExhausted(t)
    BY <2>1 DEF BudgetInv
  <2>3. ASSUME NEW p \in Body, p # "requesting", NEW w, NEW cost \in Costs \cup {0},
               GoesOn(t, p, w, cost)
        PROVE  BudgetInv(C)'
    <3>1. WithinBudgets(t, C)'
      BY <1>0, <2>2, <2>3, OneResponse DEF GoesOn, ledger
    <3>. QED
      BY <2>1, <2>3, <3>1, BudgetGoesOn
  <2>. QED
    BY <1>8, <2>1, <2>3 DEF Replied
<1>9. ASSUME NEW t \in Turns, Answered(t) \/ Pulled(t) PROVE BudgetInv(C)'
  BY <1>6, <1>9 DEF Answered, Pulled, Body, Closing
<1>10. CASE Clear
  BY <1>1, <1>10 DEF Clear, loopVars
<1>. QED
  BY <1>0, <1>2, <1>3, <1>4, <1>5, <1>7, <1>8, <1>9, <1>10, NextShape

(* resolveRemainingBudgetDecision, asked before every round, keeps the     *)
(* spending of conversations and requests below the budget plus one        *)
(* response.  Without a response that costs something there is nothing to  *)
(* bound, and the bound would be the budget itself.                        *)
THEOREM BudgetsCorrect ==
    ASSUME IsFiniteSet(Costs), \E cost \in Costs : cost > 0
    PROVE  Spec => []BudgetRespected
<1>. DEFINE C == Max(Costs)
<1>1. BoundsCosts(C)
  <2>1. Costs \in SUBSET Nat /\ Costs # {}
    BY OptionsAssumption
  <2>2. Max(Costs) \in Costs /\ \A y \in Costs : y <= Max(Costs)
    BY <2>1, MaxProperties
  <2>3. Max(Costs) # 0
    BY <2>1, <2>2
  <2>. QED
    BY <2>1, <2>2, <2>3 DEF BoundsCosts
<1>2. BudgetInv(C) => BudgetRespected
  BY DEF BudgetInv, BudgetRespected, WithinBudgets, ConversationPays, RequestPays
<1>. HIDE DEF C
<1>3. Init => BudgetInv(C)
  <2>. SUFFICES ASSUME Init PROVE BudgetInv(C)
    OBVIOUS
  <2>1. \A t \in Turns : pc[t] = "idle" /\ spent[t] = 0 /\ "idle" \notin Body
    BY DEF Init, Body
  <2>2. ConversationPays => totalCostUSD < ConversationBudget + C
    <3>1. C \in Nat \ {0} /\ totalCostUSD = 0
      BY <1>1 DEF Init, BoundsCosts
    <3>2. ConversationPays => ConversationBudget \in Nat
      BY BudgetAssumption DEF ConversationPays
    <3>. QED
      BY <3>1, <3>2
  <2>. QED
    BY <2>1, <2>2 DEF BudgetInv
<1>4. IInv /\ BudgetInv(C) /\ [Next]_vars => BudgetInv(C)'
  <2>1. IInv /\ BudgetInv(C) /\ Next => BudgetInv(C)'
    BY <1>1, BudgetStep
  <2>2. BudgetInv(C) /\ UNCHANGED vars => BudgetInv(C)'
    BY DEF vars, loopVars, stateVars, BudgetInv, WithinBudgets, BudgetExhausted, Remaining
  <2>. QED
    BY <2>1, <2>2
<1>. QED
  BY Inductive, <1>2, <1>3, <1>4, PTL DEF Spec

-----------------------------------------------------------------------------
(* History.                                                                *)

(* A context manager that returns what it is given (or none at all), and   *)
(* one that never separates tool results from the calls they answer.       *)
TrimsNothing == \A w \in Seq(Message) : TrimOutcomes(w) \subseteq {w}
Paired(w) ==
    \A i \in 1..Len(w) :
        w[i].kind = "results" => i > 1 /\ w[i - 1] = Msg(w[i].turn, "calls")
TrimsKeepPairs ==
    \A w \in Seq(Message) : Paired(w) =>
        \A x \in TrimOutcomes(w) \cap Seq(Message) : Paired(x)

(* The working messages of a turn are the history and then its own         *)
(* messages; only a committed turn has messages in the history.            *)
Extends(w, t) ==
    /\ Len(messages) <= Len(w)
    /\ \A i \in 1..Len(messages) : w[i] = messages[i]
    /\ \A i \in 1..Len(w) : i > Len(messages) => w[i].turn = t
HistoryInv ==
    \A t \in Turns :
        /\ pc[t] \in Body => Extends(work[t], t)
        /\ pc[t] # "committed" => \A i \in 1..Len(messages) : messages[i].turn # t

(* Results stand right behind their calls, and a turn whose callbacks run  *)
(* has just asked for them.                                                *)
EndsWithCalls(w, t) == w # <<>> /\ w[Len(w)] = Msg(t, "calls")
PairInv ==
    /\ Paired(messages)
    /\ \A t \in Turns :
          /\ pc[t] \in Body => Paired(work[t])
          /\ pc[t] = "executing" => EndsWithCalls(work[t], t)

-----------------------------------------------------------------------------
(* What appending a message of turn t does to both.                        *)

LEMMA AppendFacts ==
    ASSUME NEW w \in Seq(Message), NEW m \in Message
    PROVE  /\ Append(w, m) \in Seq(Message) /\ Append(w, m) # <<>>
           /\ Len(w) \in Nat /\ Len(Append(w, m)) = Len(w) + 1
           /\ Append(w, m)[Len(w) + 1] = m
           /\ \A i \in 1..Len(w) : Append(w, m)[i] = w[i]
OBVIOUS

LEMMA ExtendsAppend ==
    ASSUME messages \in Seq(Message), NEW t \in Turns, NEW k \in Kinds,
           NEW w \in Seq(Message), Extends(w, t)
    PROVE  Extends(Append(w, Msg(t, k)), t)
<1>. DEFINE x == Append(w, Msg(t, k))
<1>1. /\ Len(w) \in Nat /\ Len(x) = Len(w) + 1 /\ x[Len(w) + 1] = Msg(t, k)
      /\ \A i \in 1..Len(w) : x[i] = w[i]
  BY MsgType, AppendFacts
<1>2. Msg(t, k).turn = t /\ Len(messages) \in Nat
  BY DEF Msg
<1>. HIDE DEF x
<1>3. /\ Len(messages) <= Len(x)
      /\ \A i \in 1..Len(messages) : x[i] = messages[i]
      /\ \A i \in 1..Len(x) : i > Len(messages) => x[i].turn = t
  BY <1>1, <1>2 DEF Extends
<1>. QED
  BY <1>3 DEF Extends, x

LEMMA PairedAppend ==
    ASSUME NEW t \in Turns, NEW k \in Kinds, NEW w \in Seq(Message), Paired(w),
           k = "results" => EndsWithCalls(w, t)
    PROVE  /\ Paired(Append(w, Msg(t, k)))
           /\ k = "calls" => EndsWithCalls(Append(w, Msg(t, k)), t)
<1>. DEFINE x == Append(w, Msg(t, k))
<1>1. /\ Len(w) \in Nat /\ x # <<>> /\ Len(x) = Len(w) + 1 /\ x[Len(w) + 1] = Msg(t, k)
      /\ \A i \in 1..Len(w) : x[i] = w[i]
  BY MsgType, AppendFacts
<1>2. Msg(t, k).turn = t /\ Msg(t, k).kind = k
  BY DEF Msg
<1>. HIDE DEF x
<1>3. ASSUME NEW i \in 1..Len(x), x[i].kind = "results"
      PROVE  i > 1 /\ x[i - 1] = Msg(x[i].turn, "calls")
  <2>1. CASE i \in 1..Len(w)
    <3>1. i > 1 /\ w[i - 1] = Msg(w[i].turn, "calls")
      BY <1>1, <1>3, <2>1 DEF Paired
    <3>2. i - 1 \in 1..Len(w)
      BY <1>1, <2>1, <3>1
    <3>. QED
      BY <1>1, <2>1, <3>1, <3>2
  <2>2. CASE i = Len(w) + 1
    <3>1. EndsWithCalls(w, t)
      BY <1>1, <1>2, <1>3, <2>2
    <3>2. Len(w) # 0
      BY <3>1, EmptySeq DEF EndsWithCalls
    <3>. QED
      BY <1>1, <1>2, <2>2, <3>1, <3>2 DEF EndsWithCalls
  <2>. QED
    BY <1>1, <2>1, <2>2
<1>. QED
  BY <1>1, <1>3 DEF Paired, EndsWithCalls, x

-----------------------------------------------------------------------------
(* Steps that leave history and working messages alone.                    *)

(* Nobody enters its body, and committed turns stay committed.             *)
Leaves ==
    /\ UNCHANGED messages
    /\ \A u \in Turns : /\ pc'[u] \in Body => pc'[u] = pc[u] /\ work'[u] = work[u]
                        /\ pc[u] = "committed" => pc'[u] = "committed"

LEMMA LeavesHistory ==
    ASSUME Leaves
    PROVE  (HistoryInv => HistoryInv') /\ (PairInv => PairInv')
<1>1. HistoryInv => HistoryInv'
  BY DEF Leaves, HistoryInv, Extends
<1>2. "executing" \in Body
  BY DEF Body
<1>3. PairInv => PairInv'
  BY <1>2 DEF Leaves, PairInv
<1>. QED
  BY <1>1, <1>3

(* A release commits no turn but its own, and forgets no commit.           *)
LEMMA ReleaseCommits ==
    ASSUME IInv, NEW t \in Turns, NEW outcome \in Ended, Release(t, outcome)
    PROVE  /\ pc'[t] = outcome
           /\ \A u \in Turns : u # t => (pc'[u] = "committed" <=> pc[u] = "committed")
<1>1. \A j \in 1..Len(turnWaiters) :
         turnWaiters[j] \in Turns /\ pc[turnWaiters[j]] = "queued"
  BY WaitersType DEF IInv, QueueInv, TurnQueueSound
<1>2. CASE pc' = [u \in Turns |->
                    IF u = t THEN outcome
                    ELSE IF pc[u] = "queued" THEN "rejected" ELSE pc[u]]
  BY <1>2
<1>3. ASSUME NEW i \in 1..Len(turnWaiters),
             pc' = [u \in Turns |->
                       IF u = t THEN outcome
                       ELSE IF u = turnWaiters[i] THEN "granted"
                       ELSE IF \E j \in 1..(i - 1) : turnWaiters[j] = u THEN "rejected"
                       ELSE pc[u]]
      PROVE  /\ pc'[t] = outcome
             /\ \A u \in Turns : u # t => (pc'[u] = "committed" <=> pc[u] = "committed")
  <2>1. \A j \in 1..(i - 1) : j \in 1..Len(turnWaiters)
    BY WaitersType DEF IInv
  <2>2. pc[turnWaiters[i]] = "queued" /\ \A j \in 1..(i - 1) : pc[turnWaiters[j]] = "queued"
    BY <1>1, <2>1
  <2>. QED
    BY <1>3, <2>2
<1>. QED
  BY <1>2, <1>3 DEF Release

LEMMA GivesUpLeaves ==
    ASSUME IInv, NEW t \in Turns, GivesUp(t)
    PROVE  Leaves
<1>1. TypeOK /\ QueueInv /\ pc[t] \in Holding /\ Release(t, "failed") /\ "failed" \in Ended
         /\ UNCHANGED messages /\ pc[t] # "committed"
  BY DEF IInv, GivesUp, ledger, Ended, Holding, Body
<1>2. \A u \in Turns : pc'[u] \notin Body
  BY <1>1, ReleaseEndsBody
<1>3. \A u \in Turns : pc[u] = "committed" => pc'[u] = "committed"
  BY <1>1, ReleaseCommits
<1>. QED
  BY <1>1, <1>2, <1>3 DEF Leaves

LEMMA WaitsLeaves ==
    ASSUME TypeOK, Waits
    PROVE  Leaves
<1>1. UNCHANGED <<work, messages>>
  BY DEF Waits, ledger
<1>2. CASE UNCHANGED pc
  BY <1>1, <1>2 DEF Leaves
<1>3. ASSUME NEW t \in Turns, Call(t) \/ Abort(t) PROVE Leaves
  <2>1. \A u \in Turns : \/ pc'[u] = pc[u]
                         \/ pc[u] \in {"idle", "queued"}
                               /\ pc'[u] \in {"queued", "granted", "rejected"}
    BY <1>3 DEF Call, Abort, TypeOK
  <2>. QED
    BY <1>1, <2>1 DEF Leaves, Body
<1>. QED
  BY <1>2, <1>3 DEF Waits

(* A turn that goes on with the working messages w.                        *)
LEMMA GoesOnHistory ==
    ASSUME IInv, NEW t \in Turns, pc[t] \in Holding, NEW p \in Body, NEW w, NEW cost,
           GoesOn(t, p, w, cost)
    PROVE  /\ HistoryInv /\ Extends(w, t) => HistoryInv'
           /\ PairInv /\ Paired(w) /\ (p = "executing" => EndsWithCalls(w, t)) => PairInv'
<1>1. /\ TypeOK /\ UNCHANGED messages
      /\ pc' = [pc EXCEPT ![t] = p] /\ work' = [work EXCEPT ![t] = w]
  BY DEF IInv, GoesOn, ledger
<1>2. pc'[t] = p /\ work'[t] = w
  BY <1>1 DEF TypeOK
<1>3. \A u \in Turns : u # t => pc'[u] = pc[u] /\ work'[u] = work[u]
  BY <1>1 DEF TypeOK
<1>4. pc[t] # "committed" /\ p # "committed" /\ "executing" \in Body
  BY DEF Holding, Body
<1>5. ASSUME HistoryInv, Extends(w, t) PROVE HistoryInv'
  <2>1. ASSUME NEW u \in Turns
        PROVE  /\ pc'[u] \in Body => Extends(work[u], u)'
               /\ pc'[u] # "committed" => \A i \in 1..Len(messages') : messages'[i].turn # u
    <3>1. CASE u = t
      BY <1>1, <1>2, <1>4, <1>5, <3>1 DEF HistoryInv, Extends
    <3>2. CASE u # t
      BY <1>1, <1>3, <1>5, <3>2 DEF HistoryInv, Extends
    <3>. QED
      BY <3>1, <3>2
  <2>. QED
    BY <2>1 DEF HistoryInv
<1>6. ASSUME PairInv, Paired(w), p = "executing" => EndsWithCalls(w, t) PROVE PairInv'
  <2>1. ASSUME NEW u \in Turns
        PROVE  /\ pc'[u] \in Body => Paired(work'[u])
               /\ pc'[u] = "executing" => EndsWithCalls(work'[u], u)
    <3>1. CASE u = t
      BY <1>2, <1>6, <3>1
    <3>2. CASE u # t
      BY <1>3, <1>6, <3>2 DEF PairInv
    <3>. QED
      BY <3>1, <3>2
  <2>. QED
    BY <1>1, <1>6, <2>1 DEF PairInv
<1>. QED
  BY <1>5, <1>6

(* What a turn goes on with, whatever the model answers: its list grows by *)
(* messages of its own.                                                    *)
LEMMA GrowsByOwn ==
    ASSUME IInv, NEW t \in Turns, pc[t] \in Body,
           Trimmed(t) \/ Replied(t) \/ Answered(t) \/ Pulled(t),
           HistoryInv, TrimsNothing
    PROVE  HistoryInv'
<1>1. /\ pc[t] \in Holding /\ work[t] \in Seq(Message) /\ messages \in Seq(Message)
      /\ Extends(work[t], t) /\ Closing \subseteq Body
      /\ {"requesting", "billing", "executing", "preparing"} \subseteq Body
  BY DEF IInv, TypeOK, HistoryInv, Holding, Closing, Body
<1>2. \A k \in Kinds : Extends(Append(work[t], Msg(t, k)), t)
  BY <1>1, ExtendsAppend
<1>3. Asked(t) \in Seq(Message) /\ Extends(Asked(t), t)
  BY <1>1, <1>2, MsgAppendType DEF Asked, Kinds
<1>4. Extends(Append(Asked(t), Msg(t, "results")), t)
  BY <1>1, <1>3, ExtendsAppend DEF Kinds
<1>5. ASSUME NEW p \in Body, NEW w, NEW cost, GoesOn(t, p, w, cost), Extends(w, t)
      PROVE  HistoryInv'
  BY <1>1, <1>5, GoesOnHistory
<1>6. CASE Trimmed(t)
  <2>1. TrimOutcomes(work[t]) \subseteq {work[t]}
    BY <1>1 DEF TrimsNothing
  <2>. QED
    BY <1>1, <1>5, <1>6, <2>1 DEF Trimmed
<1>7. CASE Replied(t)
  BY <1>1, <1>2, <1>3, <1>4, <1>5, <1>7 DEF Replied, Kinds
<1>8. CASE Answered(t)
  BY <1>1, <1>2, <1>5, <1>8 DEF Answered, Kinds
<1>9. CASE Pulled(t)
  BY <1>1, <1>5, <1>9 DEF Pulled, Closing
<1>. QED
  BY <1>6, <1>7, <1>8, <1>9

(* ... and results are added only behind the calls they answer.            *)
LEMMA GrowsInPairs ==
    ASSUME IInv, NEW t \in Turns, pc[t] \in Body,
           Trimmed(t) \/ Replied(t) \/ Answered(t) \/ Pulled(t),
           PairInv, TrimsKeepPairs
    PROVE  PairInv'
<1>1. /\ pc[t] \in Holding /\ work[t] \in Seq(Message)
      /\ Paired(work[t]) /\ Closing \subseteq Body
      /\ {"requesting", "billing", "executing", "preparing"} \subseteq Body
      /\ "executing" \notin Closing
  BY DEF IInv, TypeOK, PairInv, Holding, Closing, Body
<1>2. \A k \in {"assistant", "calls"} : Paired(Append(work[t], Msg(t, k)))
  BY <1>1, PairedAppend DEF Kinds
<1>3. Asked(t) \in Seq(Message) /\ Paired(Asked(t)) /\ EndsWithCalls(Asked(t), t)
  BY <1>1, PairedAppend, MsgAppendType DEF Asked, Kinds
<1>4. Paired(Append(Asked(t), Msg(t, "results")))
  BY <1>3, PairedAppend DEF Kinds
<1>5. ASSUME NEW p \in Body, NEW w, NEW cost, GoesOn(t, p, w, cost), Paired(w),
             p = "executing" => EndsWithCalls(w, t)
      PROVE  PairInv'
  BY <1>1, <1>5, GoesOnHistory
<1>6. CASE Trimmed(t)
  <2>1. \A w \in {work[t]} \cup (TrimOutcomes(work[t]) \cap Seq(Message)) : Paired(w)
    BY <1>1 DEF TrimsKeepPairs
  <2>. QED
    BY <1>1, <1>5, <1>6, <2>1 DEF Trimmed
<1>7. CASE Replied(t)
  <2>1. "billing" # "executing" /\ "preparing" # "executing"
    OBVIOUS
  <2>. QED
    BY <1>1, <1>2, <1>3, <1>4, <1>5, <1>7, <2>1 DEF Replied
<1>8. CASE Answered(t)
  <2>1. EndsWithCalls(work[t], t)
    BY <1>8 DEF Answered, PairInv
  <2>2. Paired(Append(work[t], Msg(t, "results")))
    BY <1>1, <2>1, PairedAppend DEF Kinds
  <2>. QED
    BY <1>1, <1>5, <1>8, <2>1, <2>2 DEF Answered
<1>9. CASE Pulled(t)
  <2>1. "committing" \in Body /\ "committing" # "executing"
    BY DEF Body
  <2>. QED
    BY <1>1, <1>5, <1>9, <2>1 DEF Pulled
<1>. QED
  BY <1>6, <1>7, <1>8, <1>9

(* A new turn starts from the committed history.                           *)
LEMMA BegunHistory ==
    ASSUME IInv, NEW t \in Turns, Begun(t)
    PROVE  (HistoryInv => HistoryInv') /\ (PairInv => PairInv')
<1>. DEFINE w == Append(messages, Msg(t, "user"))
<1>1. /\ pc[t] \in Holding /\ "preparing" \in Body /\ "preparing" # "executing"
      /\ GoesOn(t, "preparing", w, 0) /\ messages \in Seq(Message) /\ Len(messages) \in Nat
  BY DEF IInv, TypeOK, Begun, Holding, Body
<1>2. Extends(messages, t)
  BY <1>1 DEF Extends
<1>3. Extends(w, t)
  BY <1>1, <1>2, ExtendsAppend DEF Kinds
<1>4. PairInv => Paired(w)
  BY <1>1, PairedAppend DEF Kinds, PairInv
<1>. HIDE DEF w
<1>. QED
  BY <1>1, <1>3, <1>4, GoesOnHistory

(* clear() finds no turn in its body.                                      *)
LEMMA ClearHistory ==
    ASSUME IInv, Clear
    PROVE  (HistoryInv => HistoryInv') /\ (PairInv => PairInv')
<1>1. /\ ~turnActive /\ messages' = <<>> /\ UNCHANGED <<pc, work>>
  BY DEF Clear, loopVars
<1>2. \A u \in Turns : pc[u] \notin Body
  BY <1>1 DEF IInv, QueueInv, TurnQueueSound, Holding
<1>3. "executing" \in Body /\ Len(<<>>) = 0
  BY EmptySeq DEF Body
<1>. QED
  BY <1>1, <1>2, <1>3 DEF HistoryInv, PairInv, Paired

(* A commit appends the messages of its turn and commits only that turn.   *)
LEMMA PersistHistory ==
    ASSUME IInv, NEW t \in Turns, PersistOk(t)
    PROVE  (HistoryInv => HistoryInv') /\ (PairInv => PairInv')
<1>1. /\ TypeOK /\ QueueInv /\ pc[t] \in {"committing", "billing"}
      /\ pc[t] \in Body /\ pc[t] \in Holding
      /\ messages' = IF pc[t] = "committing" THEN work[t] ELSE messages
      /\ Release(t, IF pc[t] = "committing" THEN "committed" ELSE "billed")
  BY DEF IInv, PersistOk, Persisting, NextMessages, Body, Holding
<1>2. \A u \in Turns : pc'[u] \notin Body
  BY <1>1, ReleaseEndsBody DEF Ended
<1>3. /\ pc'[t] = IF pc[t] = "committing" THEN "committed" ELSE "billed"
      /\ \A u \in Turns : u # t => (pc'[u] = "committed" <=> pc[u] = "committed")
  BY <1>1, ReleaseCommits DEF Ended
<1>4. ASSUME HistoryInv, NEW u \in Turns, pc'[u] # "committed"
      PROVE  \A i \in 1..Len(messages') : messages'[i].turn # u
  <2>1. pc[u] # "committed"
    BY <1>1, <1>3, <1>4
  <2>2. CASE pc[t] = "committing"
    <3>1. u # t /\ messages' = work[t] /\ Extends(work[t], t)
      BY <1>1, <1>3, <1>4, <2>2 DEF HistoryInv
    <3>2. Len(messages) \in Nat /\ Len(work[t]) \in Nat
      BY <1>1 DEF TypeOK
    <3>3. ASSUME NEW i \in 1..Len(work[t]) PROVE work[t][i].turn # u
      <4>1. CASE i <= Len(messages)
        BY <1>4, <2>1, <3>1, <3>2, <4>1 DEF Extends, HistoryInv
      <4>2. CASE i > Len(messages)
        BY <3>1, <4>2 DEF Extends
      <4>. QED
        BY <3>2, <4>1, <4>2
    <3>. QED
      BY <3>1, <3>3
  <2>3. CASE pc[t] = "billing"
    BY <1>1, <1>4, <2>1, <2>3 DEF HistoryInv
  <2>. QED
    BY <1>1, <2>2, <2>3
<1>5. PairInv => Paired(messages')
  BY <1>1 DEF PairInv
<1>6. "executing" \in Body
  BY DEF Body
<1>. QED
  BY <1>2, <1>4, <1>5, <1>6 DEF HistoryInv, PairInv

LEMMA HistoryStep == TrimsNothing /\ IInv /\ HistoryInv /\ [Next]_vars => HistoryInv'
<1>. SUFFICES ASSUME TrimsNothing, IInv, HistoryInv, [Next]_vars PROVE HistoryInv'
  OBVIOUS
<1>0. TypeOK
  BY DEF IInv
<1>1. ASSUME NEW t \in Turns, Trimmed(t) \/ Replied(t) \/ Answered(t) \/ Pulled(t)
      PROVE  HistoryInv'
  <2>1. pc[t] \in Body
    BY <1>1 DEF Trimmed, Replied, Answered, Pulled, Body
  <2>. QED
    BY <1>1, <2>1, GrowsByOwn
<1>2. CASE UNCHANGED vars
  BY <1>2, LeavesHistory DEF vars, Leaves, loopVars, stateVars
<1>. QED
  BY <1>0, <1>1, <1>2, NextShape, WaitsLeaves, GivesUpLeaves, LeavesHistory, BegunHistory,
     ClearHistory, PersistHistory

LEMMA PairStep == TrimsKeepPairs /\ IInv /\ PairInv /\ [Next]_vars => PairInv'
<1>. SUFFICES ASSUME TrimsKeepPairs, IInv, PairInv, [Next]_vars PROVE PairInv'
  OBVIOUS
<1>0. TypeOK
  BY DEF IInv
<1>1. ASSUME NEW t \in Turns, Trimmed(t) \/ Replied(t) \/ Answered(t) \/ Pulled(t)
      PROVE  PairInv'
  <2>1. pc[t] \in Body
    BY <1>1 DEF Trimmed, Replied, Answered, Pulled, Body
  <2>. QED
    BY <1>1, <2>1, GrowsInPairs
<1>2. CASE UNCHANGED vars
  BY <1>2, LeavesHistory DEF vars, Leaves, loopVars, stateVars
<1>. QED
  BY <1>0, <1>1, <1>2, NextShape, WaitsLeaves, GivesUpLeaves, LeavesHistory, BegunHistory,
     ClearHistory, PersistHistory

(* Only clear() and commits touch the history, and a commit is of one      *)
(* whole turn.                                                             *)
CommitIsWhole ==
    messages' # messages =>
        \/ messages' = <<>> /\ ~turnActive
        \/ \E t \in Turns :
              /\ pc[t] = "committing" /\ pc'[t] = "committed"
              /\ messages' = work[t]
              /\ \A i \in 1..Len(messages') :
                    (messages'[i].turn = t) <=> (i > Len(messages))

LEMMA CommitStep == IInv /\ HistoryInv /\ [Next]_vars => CommitIsWhole
<1>. SUFFICES ASSUME IInv, HistoryInv, [Next]_vars, messages' # messages PROVE CommitIsWhole
  BY DEF CommitIsWhole
<1>0. TypeOK
  BY DEF IInv
<1>1. CASE Clear
  BY <1>1 DEF Clear, CommitIsWhole
<1>2. ASSUME NEW t \in Turns, PersistOk(t) PROVE CommitIsWhole
  <2>1. /\ pc[t] = "committing" /\ pc[t] \in Body /\ messages' = work[t]
        /\ Release(t, "committed")
    BY <1>2 DEF PersistOk, Persisting, NextMessages, Body
  <2>2. pc'[t] = "committed"
    BY <2>1, ReleaseCommits DEF Ended
  <2>3. /\ Len(messages) \in Nat /\ Len(work[t]) \in Nat
        /\ Extends(work[t], t) /\ \A i \in 1..Len(messages) : messages[i].turn # t
    <3>1. Len(messages) \in Nat /\ Len(work[t]) \in Nat
      BY <1>0 DEF TypeOK
    <3>. QED
      BY <2>1, <3>1 DEF HistoryInv
  <2>4. \A i \in 1..Len(work[t]) : (work[t][i].turn = t) <=> (i > Len(messages))
    BY <2>3 DEF Extends
  <2>. QED
    BY <2>1, <2>2, <2>4 DEF CommitIsWhole
<1>3. CASE Waits
  BY <1>3 DEF Waits, ledger
<1>4. ASSUME NEW t \in Turns,
             GivesUp(t) \/ Begun(t) \/ Trimmed(t) \/ Replied(t) \/ Answered(t) \/ Pulled(t)
      PROVE  FALSE
  BY <1>4 DEF GivesUp, Begun, Trimmed, Replied, Answered, Pulled, GoesOn, ledger
<1>5. CASE UNCHANGED vars
  BY <1>5 DEF vars, stateVars
<1>. QED
  BY <1>0, <1>1, <1>2, <1>3, <1>4, <1>5, NextShape

(* When the context manager trims nothing, the history of a conversation   *)
(* changes only by clear() or by the commit of one turn, which appends all *)
(* of that turn's messages and no other's; and no commit follows an abort. *)
THEOREM CommitsCorrect ==
    ASSUME TrimsNothing
    PROVE  Spec => CommitsWholeWantedTurns
<1>1. Init => HistoryInv
  BY EmptySeq DEF Init, HistoryInv, Body
<1>2. IInv /\ HistoryInv /\ [Next]_vars => HistoryInv'
  BY HistoryStep
<1>3. Spec => [][CommitIsWhole]_vars
  BY Inductive, CommitStep, <1>1, <1>2, PTL DEF Spec
<1>4. Spec => CommitAppendsWholeTurn
  BY <1>3 DEF CommitAppendsWholeTurn, CommitIsWhole
<1>. QED
  BY <1>4, AbortCorrect DEF CommitsWholeWantedTurns

(* As long as the context manager keeps calls and results together, tool   *)
(* results in the committed history directly follow the assistant message  *)
(* of the same turn that asked for them.                                   *)
THEOREM PairsCorrect ==
    ASSUME TrimsKeepPairs
    PROVE  Spec => []ResultsFollowCalls
<1>1. Init => PairInv
  BY EmptySeq DEF Init, PairInv, Paired, Body
<1>2. IInv /\ PairInv /\ [Next]_vars => PairInv'
  BY PairStep
<1>3. PairInv => ResultsFollowCalls
  BY DEF PairInv, Paired, ResultsFollowCalls
<1>. QED
  BY Inductive, <1>1, <1>2, <1>3, PTL DEF Spec

-----------------------------------------------------------------------------
(* Finite sets of numbers in their order.                                  *)

(* The place of a number in a set, counted from the smallest.              *)
UpTo(S, x) == {y \in S : y <= x}
Rank(S, x) == Cardinality(UpTo(S, x))

LEMMA RankProperties ==
    ASSUME NEW S \in SUBSET Nat, IsFiniteSet(S)
    PROVE  /\ \A x \in S : Rank(S, x) \in 1..Cardinality(S)
           /\ \A x, y \in S : x < y <=> Rank(S, x) < Rank(S, y)
           /\ \A x, y \in S : Rank(S, x) = Rank(S, y) => x = y
<1>1. ASSUME NEW x \in S
      PROVE  /\ IsFiniteSet(UpTo(S, x)) /\ Rank(S, x) \in Nat
             /\ Rank(S, x) <= Cardinality(S) /\ Rank(S, x) # 0
             /\ Cardinality(S) \in Nat
  <2>1. UpTo(S, x) \in SUBSET S /\ x \in UpTo(S, x)
    BY DEF UpTo
  <2>2. IsFiniteSet(UpTo(S, x)) /\ Cardinality(UpTo(S, x)) <= Cardinality(S)
    BY <2>1, FS_Subset
  <2>3. Cardinality(S) \in Nat /\ Cardinality(UpTo(S, x)) \in Nat
    BY <2>2, FS_CardinalityType
  <2>4. Cardinality(UpTo(S, x)) # 0
    BY <2>1, <2>2, FS_EmptySet
  <2>. QED
    BY <2>2, <2>3, <2>4 DEF Rank
<1>2. ASSUME NEW x \in S, NEW y \in S, x < y
      PROVE  Rank(S, x) < Rank(S, y)
  <2>1. UpTo(S, x) \in SUBSET UpTo(S, y)
    <3>1. x \in Nat /\ y \in Nat /\ \A z \in S : z \in Nat
      OBVIOUS
    <3>2. \A z \in S : z <= x => z <= y
      BY <1>2, <3>1
    <3>. QED
      BY <3>2 DEF UpTo
  <2>2. y \in UpTo(S, y) /\ y \notin UpTo(S, x)
    BY <1>2 DEF UpTo
  <2>3. UpTo(S, x) # UpTo(S, y)
    BY <2>2
  <2>4. /\ Cardinality(UpTo(S, x)) <= Cardinality(UpTo(S, y))
        /\ Cardinality(UpTo(S, x)) # Cardinality(UpTo(S, y))
    BY <1>1, <2>1, <2>3, FS_Subset
  <2>. QED
    BY <1>1, <2>4 DEF Rank
<1>3. \A x \in S : Rank(S, x) \in 1..Cardinality(S)
  BY <1>1
<1>4. \A x, y \in S : x < y => Rank(S, x) < Rank(S, y)
  BY <1>2
<1>5. \A x, y \in S : Rank(S, x) = Rank(S, y) => x = y
  <2>1. \A x, y \in S : x < y \/ y < x \/ x = y
    OBVIOUS
  <2>. QED
    BY <1>1, <1>4, <2>1
<1>6. \A x, y \in S : x < y <=> Rank(S, x) < Rank(S, y)
  <2>1. \A x, y \in S : x < y \/ y < x \/ x = y
    OBVIOUS
  <2>. QED
    BY <1>1, <1>4, <2>1
<1>. QED
  BY <1>3, <1>5, <1>6

(* Every place of a finite set of numbers is taken.                        *)
LEMMA RanksTaken ==
    ASSUME NEW S \in SUBSET Nat, IsFiniteSet(S), NEW n \in 1..Cardinality(S)
    PROVE  \E x \in S : Rank(S, x) = n
<1>1. Cardinality(S) \in Nat
  BY FS_CardinalityType
<1>. DEFINE f == [x \in S |-> Rank(S, x)]
<1>2. f \in Injection(S, 1..Cardinality(S))
  BY RankProperties DEF Injection, IsInjective
<1>3. IsFiniteSet(1..Cardinality(S)) /\ Cardinality(1..Cardinality(S)) = Cardinality(S)
  BY <1>1, FS_Interval
<1>4. f \in Surjection(S, 1..Cardinality(S))
  BY <1>2, <1>3, FS_Injection
<1>. QED
  BY <1>4 DEF Surjection

(* InOrder enumerates a finite set of numbers, the smallest first.         *)
LEMMA InOrderEnumerates ==
    ASSUME NEW S \in SUBSET Nat, IsFiniteSet(S)
    PROVE  /\ InOrder(S) \in [1..Cardinality(S) -> S]
           /\ Cardinality(S) \in Nat /\ InOrder(S) \in Seq(S) /\ Len(InOrder(S)) = Cardinality(S)
           /\ \A i, j \in 1..Cardinality(S) : i < j => InOrder(S)[i] < InOrder(S)[j]
           /\ \A x \in S : \E n \in 1..Cardinality(S) : InOrder(S)[n] = x
<1>1. \A n \in 1..Cardinality(S) : InOrder(S)[n] \in S /\ Rank(S, InOrder(S)[n]) = n
  <2>. SUFFICES ASSUME NEW n \in 1..Cardinality(S)
                PROVE  InOrder(S)[n] \in S /\ Rank(S, InOrder(S)[n]) = n
    OBVIOUS
  <2>1. \E x \in S : Cardinality({y \in S : y <= x}) = n
    BY RanksTaken DEF Rank, UpTo
  <2>2. InOrder(S)[n] = CHOOSE x \in S : Cardinality({y \in S : y <= x}) = n
    BY DEF InOrder
  <2>3. InOrder(S)[n] \in S /\ Cardinality({y \in S : y <= InOrder(S)[n]}) = n
    BY <2>1, <2>2
  <2>. QED
    BY <2>3 DEF Rank, UpTo
<1>2. Cardinality(S) \in Nat
  BY FS_CardinalityType
<1>3. InOrder(S) \in [1..Cardinality(S) -> S]
  BY <1>1 DEF InOrder
<1>4. \A x, y \in S : x < y <=> Rank(S, x) < Rank(S, y)
  BY RankProperties
<1>5. \A x, y \in S : Rank(S, x) = Rank(S, y) => x = y
  BY RankProperties
<1>6. \A x \in S : Rank(S, x) \in 1..Cardinality(S)
  BY RankProperties
<1>7. \A i, j \in 1..Cardinality(S) : i < j => InOrder(S)[i] < InOrder(S)[j]
  BY <1>1, <1>2, <1>4
<1>8. \A x \in S : \E n \in 1..Cardinality(S) : InOrder(S)[n] = x
  BY <1>1, <1>5, <1>6
<1>. QED
  BY <1>2, <1>3, <1>7, <1>8

-----------------------------------------------------------------------------
(* Lists some of whose messages are taken out.                             *)

(* The smallest of some numbers.                                           *)
LEMMA Smallest ==
    ASSUME NEW S \in SUBSET Nat, S # {}
    PROVE  Min(S) \in S /\ \A y \in S : Min(S) <= y
<1>1. PICK x \in S : \A y \in S : <<y, x>> \notin OpToRel(<, Nat)
  BY NatLessThanWellFounded, WFMin
<1>2. \A y \in S : x <= y
  <2>. SUFFICES ASSUME NEW y \in S PROVE x <= y
    OBVIOUS
  <2>1. x \in Nat /\ y \in Nat
    OBVIOUS
  <2>2. ~(y < x)
    BY <1>1, <2>1 DEF OpToRel
  <2>. QED
    BY <2>1, <2>2
<1>. QED
  BY <1>2 DEF Min

(* What stays of a list is paired when no results stay without the calls   *)
(* right before them.                                                      *)
StaysPaired(v, gone) ==
    \A i \in DOMAIN v \ gone :
        v[i].kind = "results" =>
            i - 1 \in DOMAIN v \ gone /\ v[i - 1] = Msg(v[i].turn, "calls")

LEMMA WithoutKeepsPairs ==
    ASSUME NEW v \in Seq(Message), NEW gone, StaysPaired(v, gone)
    PROVE  Without(v, gone) \in Seq(Message) /\ Paired(Without(v, gone))
<1>. DEFINE S == DOMAIN v \ gone
            kept == InOrder(S)
            c == Cardinality(S)
            u == Without(v, gone)
<1>1. DOMAIN v = 1..Len(v) /\ Len(v) \in Nat /\ v \in [1..Len(v) -> Message]
  OBVIOUS
<1>2. S \in SUBSET Nat /\ IsFiniteSet(S)
  <2>1. IsFiniteSet(1..Len(v)) /\ S \in SUBSET (1..Len(v))
    BY <1>1, FS_Interval
  <2>. QED
    BY <2>1, FS_Subset
<1>3. u = [n \in DOMAIN kept |-> v[kept[n]]]
  BY DEF Without
<1>4. \A i \in S : v[i].kind = "results" => i - 1 \in S /\ v[i - 1] = Msg(v[i].turn, "calls")
  BY DEF StaysPaired
<1>5. \A i \in S : v[i] \in Message
  BY <1>1
<1>. HIDE DEF S, u
<1>6. /\ kept \in [1..c -> S] /\ c \in Nat
      /\ \A i, j \in 1..c : i < j => kept[i] < kept[j]
      /\ \A x \in S : \E n \in 1..c : kept[n] = x
  BY <1>2, InOrderEnumerates
<1>. HIDE DEF kept, c
<1>7. u \in Seq(Message) /\ Len(u) = c /\ \A n \in 1..c : u[n] = v[kept[n]]
  <2>1. u \in [1..c -> Message] /\ \A n \in 1..c : u[n] = v[kept[n]]
    BY <1>3, <1>5, <1>6
  <2>. QED
    BY <1>6, <2>1
<1>8. ASSUME NEW n \in 1..c, v[kept[n]].kind = "results"
      PROVE  n > 1 /\ u[n - 1] = Msg(u[n].turn, "calls")
  <2>1. kept[n] \in S /\ kept[n] \in Nat
    BY <1>2, <1>6
  <2>2. kept[n] - 1 \in S /\ v[kept[n] - 1] = Msg(v[kept[n]].turn, "calls")
    BY <1>4, <1>8, <2>1
  <2>3. PICK m \in 1..c : kept[m] = kept[n] - 1
    BY <1>6, <2>2
  <2>4. \A k \in 1..c : kept[k] \in Nat
    BY <1>2, <1>6
  <2>5. m < n
    <3>1. m = n \/ n < m => kept[n] <= kept[m]
      BY <1>6, <2>4
    <3>. QED
      BY <1>6, <2>1, <2>3, <3>1
  <2>6. m = n - 1
    <3>. SUFFICES ASSUME m < n - 1 PROVE FALSE
      BY <1>6, <2>5
    <3>1. n - 1 \in 1..c /\ m < n - 1 /\ n - 1 < n
      BY <1>6, <2>5
    <3>2. kept[m] < kept[n - 1] /\ kept[n - 1] < kept[n]
      BY <1>6, <3>1
    <3>3. kept[m] \in Nat /\ kept[n - 1] \in Nat
      BY <2>4, <3>1
    <3>. QED
      BY <2>1, <2>3, <3>2, <3>3
  <2>7. n - 1 \in 1..c /\ kept[n - 1] = kept[n] - 1
    BY <1>6, <2>3, <2>5, <2>6
  <2>. QED
    BY <1>6, <1>7, <2>2, <2>5, <2>7
<1>9. Paired(u)
  BY <1>7, <1>8 DEF Paired
<1>. QED
  BY <1>7, <1>9 DEF u

-----------------------------------------------------------------------------
(* The strategies.                                                         *)

(* The context manager of the conversation is a SlidingWindowStrategy or a *)
(* SummarisationStrategy, or leaves the list as it is; a message is        *)
(* handled by its kind, and a summary is a message without tool parts.     *)
TrimsByStrategy ==
    /\ \A w \in Seq(Message) :
          TrimOutcomes(w) \subseteq
             {w, SlidingWindow(w), Summarise(w, TRUE), Summarise(w, FALSE)}
    /\ \A m \in Message : Kind(m) = m.kind
    /\ Summary \in Message /\ Summary.kind \in {"user", "assistant"}
    /\ KeepLastMessages \in Nat

KindsShown == \A m \in Message : Kind(m) = m.kind

(* The groups a strategy may remove are sets of places in the list.        *)
LEMMA GroupsArePlaces ==
    ASSUME NEW w \in Seq(Message)
    PROVE  /\ \A g \in RemovableGroups(w) : g # {} /\ g \subseteq 1..Len(w)
           /\ IsFiniteSet(RemovableGroups(w))
<1>1. DOMAIN w = 1..Len(w) /\ Len(w) \in Nat
  OBVIOUS
<1>2. ASSUME NEW g \in RemovableGroups(w) PROVE g # {} /\ g \subseteq 1..Len(w)
  <2>1. \/ \E i \in DOMAIN w : g = {i}
        \/ \E i \in DOMAIN w : i + 1 \in DOMAIN w /\ g = {i, i + 1}
    BY DEF RemovableGroups
  <2>2. CASE \E i \in DOMAIN w : g = {i}
    BY <1>1, <2>2
  <2>3. CASE \E i \in DOMAIN w : i + 1 \in DOMAIN w /\ g = {i, i + 1}
    BY <1>1, <2>3
  <2>. QED
    BY <2>1, <2>2, <2>3
<1>3. IsFiniteSet(SUBSET (1..Len(w)))
  <2>1. IsFiniteSet(1..Len(w))
    BY <1>1, FS_Interval
  <2>. QED
    BY <2>1, FS_SUBSET
<1>4. PICK groups : groups = RemovableGroups(w)
  OBVIOUS
<1>5. \A g \in groups : g # {} /\ g \subseteq 1..Len(w)
  BY <1>2, <1>4
<1>6. groups \in SUBSET (SUBSET (1..Len(w)))
  BY <1>5
<1>7. IsFiniteSet(groups)
  BY <1>3, <1>6, FS_Subset
<1>. QED
  BY <1>4, <1>5, <1>7

(* A group that may be removed has results only together with their calls. *)
LEMMA GroupsKeepPairs ==
    ASSUME KindsShown, NEW v \in Seq(Message), Paired(v), NEW groups,
           groups \subseteq RemovableGroups(v)
    PROVE  StaysPaired(v, UNION groups)
<1>1. DOMAIN v = 1..Len(v) /\ Len(v) \in Nat /\ \A i \in 1..Len(v) : v[i] \in Message
  OBVIOUS
<1>. SUFFICES ASSUME NEW i \in DOMAIN v, i \notin UNION groups, v[i].kind = "results"
              PROVE  /\ i - 1 \in DOMAIN v /\ v[i - 1] = Msg(v[i].turn, "calls")
                     /\ i - 1 \notin UNION groups
  BY DEF StaysPaired
<1>2. i > 1 /\ i - 1 \in DOMAIN v /\ v[i - 1] = Msg(v[i].turn, "calls")
  BY <1>1 DEF Paired
<1>3. Kind(v[i - 1]) = "calls" /\ Kind(v[i]) = "results"
  BY <1>1, <1>2 DEF KindsShown, Msg
<1>4. ASSUME NEW g \in groups, i - 1 \in g PROVE FALSE
  <2>1. \/ \E k \in DOMAIN v : g = {k} /\ ~HasToolPart(v[k])
        \/ \E k \in DOMAIN v : g = {k, k + 1} /\ Kind(v[k + 1]) = "results"
    BY <1>4 DEF RemovableGroups
  <2>2. CASE \E k \in DOMAIN v : g = {k} /\ ~HasToolPart(v[k])
    BY <1>3, <1>4, <2>2 DEF HasToolPart
  <2>3. CASE \E k \in DOMAIN v : g = {k, k + 1} /\ Kind(v[k + 1]) = "results"
    <3>1. PICK k \in DOMAIN v : g = {k, k + 1} /\ Kind(v[k + 1]) = "results"
      BY <2>3
    <3>2. i - 1 = k
      BY <1>3, <1>4, <3>1
    <3>3. i \in g
      BY <1>1, <3>1, <3>2
    <3>. QED
      BY <1>4, <3>3
  <2>. QED
    BY <2>1, <2>2, <2>3
<1>. QED
  BY <1>2, <1>4

PairedLists == {w \in Seq(Message) : Paired(w)}

LEMMA TrimOnceKeepsPairs ==
    ASSUME KindsShown, NEW v \in PairedLists
    PROVE  TrimOnce(v) \in PairedLists
<1>. DEFINE groups == RemovableGroups(v)
            oldest == OldestGroup(groups)
<1>0. v \in Seq(Message) /\ Paired(v)
  BY DEF PairedLists
<1>1. CASE ~(ShouldTrim(v) /\ groups # {})
  BY <1>1 DEF TrimOnce
<1>2. CASE groups # {}
  <2>1. \A g \in groups : g # {} /\ g \in SUBSET Nat
    BY <1>0, GroupsArePlaces
  <2>2. \E g \in groups : \A h \in groups : Min(g) <= Min(h)
    <3>. DEFINE mins == {Min(g) : g \in groups}
    <3>1. \A g \in groups : Min(g) \in Nat
      BY <2>1, Smallest
    <3>2. mins \in SUBSET Nat /\ mins # {}
      BY <1>2, <3>1
    <3>. HIDE DEF groups
    <3>3. Min(mins) \in mins /\ \A y \in mins : Min(mins) <= y
      BY <3>2, Smallest
    <3>. QED
      BY <3>3
  <2>3. oldest \in groups
    BY <2>2 DEF OldestGroup
  <2>4. UNION {oldest} = oldest /\ {oldest} \subseteq groups
    BY <2>3
  <2>. HIDE DEF oldest, groups
  <2>5. StaysPaired(v, oldest)
    BY <1>0, <2>4, GroupsKeepPairs DEF groups
  <2>6. Without(v, oldest) \in PairedLists
    BY <1>0, <2>5, WithoutKeepsPairs DEF PairedLists
  <2>. QED
    BY <1>1, <2>6 DEF TrimOnce, oldest, groups
<1>. QED
  BY <1>1, <1>2

(* The list after every round of the loop.                                 *)
Shortened(f, w) ==
    f = [n \in 0..Len(w) |-> IF n = 0 THEN w
                             ELSE CHOOSE u \in {TrimOnce(v) : v \in {f[n - 1]}} : TRUE]
Rounded(f, w, k) ==
    f \in [0..k -> PairedLists] /\ f[0] = w /\ \A n \in 1..k : f[n] = TrimOnce(f[n - 1])

LEMMA RoundsExist ==
    ASSUME KindsShown, NEW w \in PairedLists, NEW k \in Nat
    PROVE  \E f : Rounded(f, w, k)
<1>. DEFINE T == {m \in Nat : \E f : Rounded(f, w, m)}
<1>1. 0 \in T
  <2>1. Rounded([n \in 0..0 |-> w], w, 0)
    BY DEF Rounded
  <2>. QED
    BY <2>1
<1>2. ASSUME NEW m \in Nat, m \in T PROVE m + 1 \in T
  <2>1. PICK f : Rounded(f, w, m)
    BY <1>2
  <2>. DEFINE g == [n \in 0..m + 1 |-> IF n <= m THEN f[n] ELSE TrimOnce(f[m])]
  <2>2. f \in [0..m -> PairedLists] /\ TrimOnce(f[m]) \in PairedLists
    BY <2>1, TrimOnceKeepsPairs DEF Rounded
  <2>3. g \in [0..m + 1 -> PairedLists]
    BY <2>2
  <2>4. g[0] = w
    BY <2>1 DEF Rounded
  <2>5. ASSUME NEW n \in 1..m + 1 PROVE g[n] = TrimOnce(g[n - 1])
    <3>1. CASE n <= m
      BY <2>1, <3>1 DEF Rounded
    <3>2. CASE n = m + 1
      BY <3>2
    <3>. QED
      BY <3>1, <3>2
  <2>. HIDE DEF g
  <2>6. Rounded(g, w, m + 1)
    BY <2>3, <2>4, <2>5 DEF Rounded
  <2>. QED
    BY <2>6
<1>. HIDE DEF T
<1>3. k \in T
  BY <1>1, <1>2, NatSetInduction
<1>. QED
  BY <1>3 DEF T

(* SlidingWindowStrategy keeps results behind their calls.                 *)
LEMMA WindowKeepsPairs ==
    ASSUME KindsShown, NEW w \in PairedLists
    PROVE  SlidingWindow(w) \in PairedLists
<1>1. Len(w) \in Nat
  BY DEF PairedLists
<1>2. PICK f : Rounded(f, w, Len(w))
  BY <1>1, RoundsExist
<1>3. Shortened(f, w)
  <2>. DEFINE shorter(n) == IF n = 0 THEN w
                          ELSE CHOOSE u \in {TrimOnce(v) : v \in {f[n - 1]}} : TRUE
  <2>1. ASSUME NEW n \in 0..Len(w) PROVE f[n] = shorter(n)
    <3>1. CASE n = 0
      BY <1>2, <3>1 DEF Rounded
    <3>2. CASE n # 0
      <4>1. f[n] = TrimOnce(f[n - 1])
        BY <1>1, <1>2, <3>2 DEF Rounded
      <4>2. {TrimOnce(v) : v \in {f[n - 1]}} = {f[n]}
        BY <4>1
      <4>. QED
        BY <3>2, <4>2
    <3>. QED
      BY <3>1, <3>2
  <2>2. f = [n \in 0..Len(w) |-> shorter(n)]
    <3>. HIDE DEF shorter
    <3>. QED
      BY <1>2, <2>1 DEF Rounded
  <2>. QED
    BY <2>2 DEF Shortened
<1>4. \E g : Shortened(g, w) /\ SlidingWindow(w) = g[Len(w)]
  BY <1>3 DEF SlidingWindow, Shortened
<1>5. PICK g : Shortened(g, w) /\ SlidingWindow(w) = g[Len(w)]
  BY <1>4
<1>. DEFINE T == {n \in Nat : n <= Len(w) => g[n] \in PairedLists}
<1>6. 0 \in T
  BY <1>1, <1>5 DEF Shortened
<1>7. ASSUME NEW n \in Nat, n \in T PROVE n + 1 \in T
  <2>. SUFFICES ASSUME n + 1 <= Len(w) PROVE g[n + 1] \in PairedLists
    OBVIOUS
  <2>1. g[n + 1] = CHOOSE u \in {TrimOnce(v) : v \in {g[n]}} : TRUE
    BY <1>1, <1>5 DEF Shortened
  <2>2. g[n + 1] = TrimOnce(g[n])
    BY <2>1
  <2>. QED
    BY <1>1, <1>7, <2>2, TrimOnceKeepsPairs
<1>. HIDE DEF T
<1>8. Len(w) \in T
  BY <1>1, <1>6, <1>7, NatSetInduction
<1>. QED
  BY <1>1, <1>5, <1>8 DEF T

(* SummarisationStrategy does: it puts the summary in place of the oldest  *)
(* groups, at the first place that becomes free.                           *)
LEMMA SummaryKeepsPairs ==
    ASSUME TrimsByStrategy, NEW w \in PairedLists, NEW answered
    PROVE  Summarise(w, answered) \in PairedLists
<1>. DEFINE groups == RemovableGroups(w)
            target == Cardinality(groups) - KeepLastMessages
            oldest == OldestGroups(groups, target)
            gone == UNION oldest
            first == Min(gone)
            head == SubSeq(w, 1, first - 1)
            rest == SubSeq(w, first, Len(w))
            moved == {i - first + 1 : i \in gone}
            tail == Without(rest, moved)
            trimmed == head \o <<Summary>> \o tail
<1>0. KindsShown /\ Summary \in Message /\ Summary.kind # "results"
  BY DEF TrimsByStrategy, KindsShown
<1>1. w \in Seq(Message) /\ Paired(w) /\ Len(w) \in Nat /\ DOMAIN w = 1..Len(w)
  BY DEF PairedLists
<1>2. ASSUME oldest # {} PROVE trimmed \in PairedLists
  <2>1. oldest \subseteq groups
    BY DEF OldestGroups
  <2>2. \A g \in groups : g # {} /\ g \subseteq 1..Len(w)
    BY <1>1, GroupsArePlaces
  <2>3. gone \in SUBSET (1..Len(w)) /\ gone # {}
    <3>. HIDE DEF oldest, groups
    <3>. QED
      BY <1>2, <2>1, <2>2
  <2>4. StaysPaired(w, gone)
    <3>. HIDE DEF oldest
    <3>. QED
      BY <1>0, <1>1, <2>1, GroupsKeepPairs
  <2>. HIDE DEF gone
  <2>5. first \in gone /\ \A y \in gone : first <= y
    BY <2>3, Smallest
  <2>. HIDE DEF first
  <2>6. first \in 1..Len(w)
    BY <2>3, <2>5
  <2>7. /\ rest \in Seq(Message) /\ Len(rest) = Len(w) - first + 1
        /\ \A i \in 1..Len(rest) : rest[i] = w[i + first - 1]
    BY <1>1, <2>6
  <2>8. /\ head \in Seq(Message) /\ Len(head) = first - 1
        /\ \A i \in 1..Len(head) : head[i] = w[i]
    BY <1>1, <2>6
  <2>9. StaysPaired(rest, moved)
    <3>. HIDE DEF rest
    <3>. SUFFICES ASSUME NEW i \in DOMAIN rest, i \notin moved, rest[i].kind = "results"
                  PROVE  /\ i - 1 \in DOMAIN rest /\ i - 1 \notin moved
                         /\ rest[i - 1] = Msg(rest[i].turn, "calls")
      BY DEF StaysPaired
    <3>. DEFINE j == i + first - 1
    <3>1. i \in 1..Len(rest) /\ j \in 1..Len(w) /\ first <= j
      BY <1>1, <2>6, <2>7
    <3>2. j \notin gone
      <4>1. i = j - first + 1
        BY <2>6, <3>1
      <4>. QED
        BY <4>1
    <3>3. j - 1 \in DOMAIN w \ gone /\ w[j - 1] = Msg(w[j].turn, "calls")
      BY <1>1, <2>4, <2>7, <3>1, <3>2 DEF StaysPaired
    <3>4. j # first
      BY <2>5, <3>2
    <3>5. i - 1 \in 1..Len(rest)
      BY <2>6, <3>1, <3>4
    <3>6. i - 1 \notin moved
      <4>. SUFFICES ASSUME NEW k \in gone, i - 1 = k - first + 1 PROVE FALSE
        OBVIOUS
      <4>1. k \in 1..Len(w)
        BY <2>3
      <4>2. k = j - 1
        BY <2>6, <3>1, <4>1
      <4>. QED
        BY <3>3, <4>2
    <3>7. rest[i - 1] = w[j - 1] /\ rest[i] = w[j]
      BY <2>6, <2>7, <3>1, <3>5
    <3>. QED
      BY <2>7, <3>3, <3>5, <3>6, <3>7
  <2>. HIDE DEF rest, moved
  <2>10. tail \in Seq(Message) /\ Paired(tail)
    BY <2>7, <2>9, WithoutKeepsPairs
  <2>. HIDE DEF head, tail
  <2>11. /\ trimmed \in Seq(Message) /\ Len(trimmed) = first + Len(tail)
         /\ \A i \in 1..first - 1 : trimmed[i] = w[i]
         /\ trimmed[first] = Summary
         /\ \A i \in 1..Len(tail) : trimmed[first + i] = tail[i]
    BY <1>0, <2>6, <2>8, <2>10
  <2>. HIDE DEF trimmed
  <2>12. ASSUME NEW i \in 1..Len(trimmed), trimmed[i].kind = "results"
         PROVE  i > 1 /\ trimmed[i - 1] = Msg(trimmed[i].turn, "calls")
    <3>1. CASE i < first
      <4>1. trimmed[i] = w[i] /\ i \in 1..Len(w)
        BY <2>6, <2>11, <3>1
      <4>2. i > 1 /\ w[i - 1] = Msg(w[i].turn, "calls")
        BY <1>1, <2>12, <4>1 DEF Paired
      <4>3. trimmed[i - 1] = w[i - 1]
        BY <2>6, <2>11, <3>1, <4>2
      <4>. QED
        BY <4>1, <4>2, <4>3
    <3>2. CASE i = first
      BY <1>0, <2>11, <2>12, <3>2
    <3>3. CASE i > first
      <4>1. PICK j \in 1..Len(tail) : i = first + j
        <5>1. i - first \in 1..Len(tail) /\ i = first + (i - first)
          BY <2>6, <2>10, <2>11, <3>3
        <5>. QED
          BY <5>1
      <4>2. trimmed[i] = tail[j]
        BY <2>11, <4>1
      <4>3. j > 1 /\ tail[j - 1] = Msg(tail[j].turn, "calls")
        BY <2>10, <2>12, <4>2 DEF Paired
      <4>4. j - 1 \in 1..Len(tail) /\ i - 1 = first + (j - 1)
        BY <2>6, <2>10, <4>1, <4>3
      <4>5. trimmed[i - 1] = tail[j - 1]
        BY <2>11, <4>4
      <4>. QED
        BY <2>6, <3>3, <4>2, <4>3, <4>5
    <3>. QED
      BY <2>6, <2>11, <3>1, <3>2, <3>3
  <2>. QED
    BY <2>11, <2>12 DEF PairedLists, Paired
<1>3. ASSUME target >= 2 PROVE oldest # {}
  <2>1. groups # {} /\ IsFiniteSet(groups)
    <3>1. IsFiniteSet(groups) /\ KeepLastMessages \in Nat
      BY <1>1, GroupsArePlaces DEF TrimsByStrategy
    <3>2. groups = {} => Cardinality(groups) = 0
      BY FS_EmptySet
    <3>3. groups # {}
      BY <1>3, <3>1, <3>2
    <3>. QED
      BY <3>1, <3>3
  <2>2. target \in Int
    BY <2>1, FS_CardinalityType DEF TrimsByStrategy
  <2>. HIDE DEF target
  <2>3. \A g \in groups : g # {} /\ g \in SUBSET Nat
    BY <1>1, GroupsArePlaces
  <2>. HIDE DEF groups
  <2>. DEFINE mins == {Min(g) : g \in groups}
  <2>4. \A g \in groups : Min(g) \in Nat
    BY <2>3, Smallest
  <2>5. mins \in SUBSET Nat /\ mins # {}
    BY <2>1, <2>4
  <2>6. Min(mins) \in mins /\ \A y \in mins : Min(mins) <= y
    BY <2>5, Smallest
  <2>7. PICK g \in groups : \A h \in groups : Min(g) <= Min(h)
    BY <2>6
  <2>8. {h \in groups : Min(h) < Min(g)} = {}
    BY <2>4, <2>7
  <2>9. Cardinality({h \in groups : Min(h) < Min(g)}) < target
    BY <1>3, <2>2, <2>8, FS_EmptySet
  <2>. QED
    BY <2>9 DEF OldestGroups
<1>4. target \in Int
  BY <1>1, GroupsArePlaces, FS_CardinalityType DEF TrimsByStrategy
<1>5. Summarise(w, answered) =
        IF ~ShouldTrim(w) THEN w
        ELSE IF target < 2 \/ ~answered THEN SlidingWindow(w)
        ELSE IF ShouldTrim(trimmed) THEN SlidingWindow(trimmed) ELSE trimmed
  BY DEF Summarise
<1>. HIDE DEF trimmed, target, oldest
<1>. QED
  BY <1>0, <1>2, <1>3, <1>4, <1>5, WindowKeepsPairs

(* The strategies of context-manager.ts keep calls and results together:   *)
(* what they may take out of a list are pairs of both or messages without  *)
(* tool parts, whatever is pinned and whatever the limits are.             *)
THEOREM StrategiesKeepPairs == TrimsByStrategy => TrimsKeepPairs
<1>. SUFFICES ASSUME TrimsByStrategy, NEW w \in Seq(Message), Paired(w),
                     NEW x \in TrimOutcomes(w)
              PROVE  Paired(x)
  BY DEF TrimsKeepPairs
<1>1. w \in PairedLists /\ KindsShown
  BY DEF PairedLists, TrimsByStrategy, KindsShown
<1>2. x \in {w, SlidingWindow(w), Summarise(w, TRUE), Summarise(w, FALSE)}
  BY DEF TrimsByStrategy
<1>3. x \in PairedLists
  BY <1>1, <1>2, WindowKeepsPairs, SummaryKeepsPairs
<1>. QED
  BY <1>3 DEF PairedLists

(* With one of the strategies, or none, tool results in the committed      *)
(* history directly follow the message that asked for them.                *)
THEOREM PairsUnderStrategies ==
    ASSUME TrimsByStrategy
    PROVE  Spec => []ResultsFollowCalls
  BY StrategiesKeepPairs, PairsCorrect
=============================================================================
