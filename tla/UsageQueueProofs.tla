-------------------------- MODULE UsageQueueProofs --------------------------
(***************************************************************************)
(* Proofs about UsageQueue, for any number of events, callers and failing  *)
(* inserts and any batch size: types, no event lost or counted twice, none *)
(* stranded without a timer, and none queued when a flush returns.         *)
(***************************************************************************)
EXTENDS UsageQueue, SequenceTheorems, TLAPS

(* The text events are written first.                                      *)
TextFirst == stage = "speech" => batch["text"] = <<>>

(* A call that runs the flush has taken every event logged before it.      *)
OwnersTook ==
  \A f \in Flusher :
    /\ owed[f] \subseteq Logged
    /\ pc[f] = "owner" => stage # "idle" /\ \A e \in owed[f] : ~Pending(e)

IInv == TypeOK /\ TextFirst /\ CountedOnce /\ RetryArmed /\ OwnersTook

Queues == [Lanes -> Seq(Event)]

LEMMA NothingHeld == Nothing \in Queues /\ \A e : ~Holds(Nothing, e)
<1>1. <<>> \in Seq(Event)
  OBVIOUS
<1>2. Nothing \in Queues
  BY <1>1 DEF Nothing, Queues
<1>3. \A e : ~Holds(Nothing, e)
  BY DEF Nothing, Holds, Range
<1> QED
  BY <1>2, <1>3

LEMMA AppendHeld ==
  ASSUME NEW q \in Queues, NEW l \in Lanes, NEW e \in Event,
         NEW r, r = [q EXCEPT ![l] = Append(@, e)]
  PROVE  /\ r \in Queues /\ r # Nothing
         /\ \A x : Holds(r, x) <=> Holds(q, x) \/ x = e
<1> DEFINE s == Append(q[l], e)
<1>1. q[l] \in Seq(Event)
  BY DEF Queues
<1>2. /\ s \in Seq(Event)
      /\ Len(s) = Len(q[l]) + 1 /\ Len(q[l]) \in Nat
      /\ DOMAIN q[l] = 1 .. Len(q[l]) /\ DOMAIN s = 1 .. Len(s)
      /\ \A i \in 1 .. Len(q[l]) : s[i] = q[l][i]
      /\ s[Len(q[l]) + 1] = e
  BY <1>1
<1>3. Range(s) = Range(q[l]) \cup {e}
  <2> HIDE DEF s
  <2>1. \A x \in Range(s) : x \in Range(q[l]) \cup {e}
    BY <1>2 DEF Range
  <2>2. \A x \in Range(q[l]) : x \in Range(s)
    BY <1>2 DEF Range
  <2>3. e \in Range(s)
    BY <1>2 DEF Range
  <2> QED
    BY <2>1, <2>2, <2>3
<1>4. r[l] = s /\ \A k \in Lanes : k # l => r[k] = q[k]
  BY DEF Queues
<1> HIDE DEF s
<1>5. r \in Queues
  BY <1>2 DEF Queues
<1>6. r # Nothing
  BY <1>2, <1>4 DEF Nothing
<1>7. \A x : Holds(r, x) <=> Holds(q, x) \/ x = e
  BY <1>3, <1>4 DEF Holds
<1> QED
  BY <1>5, <1>6, <1>7

LEMMA RequeuedHeld ==
  ASSUME NEW b \in Queues, NEW q \in Queues,
         NEW r, r = [l \in Lanes |-> b[l] \o q[l]]
  PROVE  /\ r \in Queues
         /\ \A x : Holds(r, x) <=> Holds(b, x) \/ Holds(q, x)
<1>1. ASSUME NEW l \in Lanes
      PROVE  r[l] \in Seq(Event) /\ Range(r[l]) = Range(b[l]) \cup Range(q[l])
  <2> DEFINE s == b[l]  t == q[l]  u == s \o t
  <2>1. s \in Seq(Event) /\ t \in Seq(Event)
    BY DEF Queues
  <2>2. /\ u \in Seq(Event)
        /\ Len(s) \in Nat /\ Len(t) \in Nat /\ Len(u) = Len(s) + Len(t)
        /\ DOMAIN s = 1 .. Len(s) /\ DOMAIN t = 1 .. Len(t) /\ DOMAIN u = 1 .. Len(u)
        /\ \A i \in 1 .. Len(s) : u[i] = s[i]
        /\ \A i \in 1 .. Len(t) : u[Len(s) + i] = t[i]
    <3>1. /\ u \in Seq(Event) /\ Len(u) = Len(s) + Len(t)
          /\ \A i \in 1 .. Len(s) + Len(t) :
               u[i] = IF i <= Len(s) THEN s[i] ELSE t[i - Len(s)]
      BY <2>1, ConcatProperties
    <3>2. /\ Len(s) \in Nat /\ Len(t) \in Nat
          /\ DOMAIN s = 1 .. Len(s) /\ DOMAIN t = 1 .. Len(t) /\ DOMAIN u = 1 .. Len(u)
      BY <2>1, <3>1
    <3> HIDE DEF s, t, u
    <3>3. \A i \in 1 .. Len(s) : u[i] = s[i]
      BY <3>1, <3>2
    <3>4. \A i \in 1 .. Len(t) : u[Len(s) + i] = t[i]
      BY <3>1, <3>2
    <3> QED
      BY <3>1, <3>2, <3>3, <3>4
  <2>3. r[l] = u
    OBVIOUS
  <2> HIDE DEF s, t, u
  <2>4. \A x \in Range(s) : x \in Range(u)
    BY <2>2 DEF Range
  <2>5. \A x \in Range(t) : x \in Range(u)
    <3>1. ASSUME NEW i \in 1 .. Len(t)
          PROVE  t[i] \in Range(u)
      <4>1. Len(s) + i \in DOMAIN u
        BY <2>2
      <4> QED
        BY <2>2, <4>1 DEF Range
    <3> QED
      BY <2>2, <3>1 DEF Range
  <2>6. \A x \in Range(u) : x \in Range(s) \cup Range(t)
    <3>1. ASSUME NEW i \in 1 .. Len(u)
          PROVE  u[i] \in Range(s) \cup Range(t)
      <4>1. CASE i <= Len(s)
        BY <2>2, <4>1 DEF Range
      <4>2. CASE i > Len(s)
        <5>1. i - Len(s) \in 1 .. Len(t) /\ Len(s) + (i - Len(s)) = i
          BY <2>2, <4>2
        <5> QED
          BY <2>2, <5>1 DEF Range
      <4> QED
        BY <2>2, <4>1, <4>2
    <3> QED
      BY <2>2, <3>1 DEF Range
  <2>7. Range(u) = Range(s) \cup Range(t)
    BY <2>4, <2>5, <2>6
  <2>8. r[l] \in Seq(Event) /\ Range(r[l]) = Range(s) \cup Range(t)
    BY <2>2, <2>3, <2>7
  <2> QED
    BY <2>8 DEF s, t
<1>2. r \in Queues
  BY <1>1 DEF Queues
<1>3. \A x : Holds(r, x) <=> Holds(b, x) \/ Holds(q, x)
  BY <1>1 DEF Holds
<1> QED
  BY <1>2, <1>3

(* flush() neither loses an event nor makes one up, and whoever runs a     *)
(* flush or returns from it leaves empty queues.                           *)
LEMMA FlushStep ==
  ASSUME TypeOK, TextFirst,
         NEW c \in Caller, NEW q \in Queues, NEW armed \in BOOLEAN,
         Flush(c, q, armed)
  PROVE  /\ queue' \in Queues /\ batch' \in Queues
         /\ stage' \in Lanes \cup {"idle"}
         /\ (batch' = Nothing) <=> (stage' = "idle")
         /\ stage' = "speech" => batch'["text"] = <<>>
         /\ timer' \in BOOLEAN
         /\ pc' \in [Caller -> Places]
         /\ \A e : Holds(queue', e) \/ Holds(batch', e) <=> Holds(q, e) \/ Holds(batch, e)
         /\ \A e : Holds(queue', e) => Holds(q, e)
         /\ stage' = "idle" => queue' = Nothing
         /\ stage # "idle" => stage' # "idle"
         /\ pc'[c] \in {"joined", "ok", "owner"}
         /\ pc'[c] # "joined" => queue' = Nothing
         /\ pc'[c] = "owner" => stage' # "idle"
         /\ \A d \in Caller \ {c} : pc'[d] = pc[d]
<1> USE NothingHeld
<1>1. pc \in [Caller -> Places] /\ queue \in Queues /\ batch \in Queues
      /\ stage \in Lanes \cup {"idle"} /\ ((batch = Nothing) <=> (stage = "idle"))
      /\ "joined" \in Places /\ "ok" \in Places /\ "owner" \in Places
  BY DEF TypeOK, Queues, Places
<1>2. CASE /\ stage # "idle"
           /\ pc' = [pc EXCEPT ![c] = "joined"]
           /\ queue' = q /\ timer' = armed
           /\ UNCHANGED <<batch, stage>>
  BY <1>1, <1>2 DEF TextFirst
<1>3. CASE /\ stage = "idle" /\ q = Nothing
           /\ pc' = [pc EXCEPT ![c] = "ok"]
           /\ queue' = q /\ timer' = armed
           /\ UNCHANGED <<batch, stage>>
  BY <1>1, <1>3 DEF TextFirst
<1>4. CASE /\ stage = "idle" /\ q # Nothing
           /\ pc' = [pc EXCEPT ![c] = "owner"]
           /\ batch' = q
           /\ stage' = IF q["text"] # <<>> THEN "text" ELSE "speech"
           /\ queue' = Nothing
           /\ timer' = FALSE
  <2>1. stage' \in Lanes /\ stage' # "idle" /\ (stage' = "speech" => batch'["text"] = <<>>)
    BY <1>4 DEF Lanes
  <2>2. /\ queue' \in Queues /\ batch' \in Queues
        /\ (batch' = Nothing) <=> (stage' = "idle")
        /\ \A e : Holds(queue', e) \/ Holds(batch', e) <=> Holds(q, e) \/ Holds(batch, e)
        /\ \A e : Holds(queue', e) => Holds(q, e)
    BY <1>1, <1>4, <2>1
  <2>3. pc' \in [Caller -> Places] /\ pc'[c] = "owner" /\ \A d \in Caller \ {c} : pc'[d] = pc[d]
    BY <1>1, <1>4
  <2> QED
    BY <1>1, <1>4, <2>1, <2>2, <2>3
<1> QED
  BY <1>2, <1>3, <1>4 DEF Flush

(* The end of a flush leaves no owner and arms the timer if need be.       *)
LEMMA SettleStep ==
  ASSUME TypeOK, NEW q \in Queues,
         NEW joined \in {"woken", "failed"}, NEW own \in {"ok", "failed"},
         Settle(q, joined, own)
  PROVE  /\ queue' = q /\ batch' = Nothing /\ stage' = "idle"
         /\ timer' \in BOOLEAN /\ (q # Nothing => timer')
         /\ pc' \in [Caller -> Places]
         /\ \A c \in Caller : /\ pc'[c] # "owner"
                              /\ pc'[c] = "idle" <=> pc[c] = "idle"
                              /\ pc'[c] = "ok" => pc[c] = "ok" \/ (pc[c] = "owner" /\ own = "ok")
<1>1. queue' = q /\ batch' = Nothing /\ stage' = "idle" /\ timer' = (timer \/ q # Nothing)
  BY DEF Settle
<1>2. timer' \in BOOLEAN /\ (q # Nothing => timer')
  BY <1>1 DEF TypeOK
<1>3. pc' = [c \in Caller |-> CASE pc[c] = "joined" -> joined
                                [] pc[c] = "owner" -> own
                                [] OTHER -> pc[c]]
  BY DEF Settle
<1>4. ASSUME NEW c \in Caller
      PROVE  /\ pc'[c] \in Places /\ pc'[c] # "owner"
             /\ pc'[c] = "idle" <=> pc[c] = "idle"
             /\ pc'[c] = "ok" => pc[c] = "ok" \/ (pc[c] = "owner" /\ own = "ok")
  <2>1. pc[c] \in Places
    BY DEF TypeOK
  <2>2. CASE pc[c] = "joined"
    BY <1>3, <2>2 DEF Places
  <2>3. CASE pc[c] = "owner"
    BY <1>3, <2>3 DEF Places
  <2>4. CASE pc[c] # "joined" /\ pc[c] # "owner"
    BY <1>3, <2>1, <2>4
  <2> QED
    BY <2>2, <2>3, <2>4
<1>5. pc' \in [Caller -> Places]
  BY <1>3, <1>4
<1> QED
  BY <1>1, <1>2, <1>4, <1>5

LEMMA InsertStep ==
  ASSUME TypeOK, Insert
  PROVE  /\ rows' \in [Event -> Nat]
         /\ \A e \in Event : rows'[e] = IF e \in Range(batch[stage]) THEN 1 ELSE rows[e]
BY DEF TypeOK, Insert


----------------------------------------------------------------------------
LEMMA Initially == Init => IInv
<1> SUFFICES ASSUME Init PROVE IInv
  OBVIOUS
<1> USE NothingHeld DEF Init
<1>1. TypeOK
  <2>1. queue \in [Lanes -> Seq(Event)] /\ batch \in [Lanes -> Seq(Event)]
    BY DEF Queues
  <2>2. /\ rows \in [Event -> Nat] /\ pc \in [Caller -> Places]
        /\ failures \in 0 .. MaxFailures /\ owed \in [Flusher -> SUBSET Event]
    BY SizesAssumption DEF Places
  <2>3. ((batch = Nothing) <=> (stage = "idle")) /\ timer \in BOOLEAN
    OBVIOUS
  <2> QED
    BY <2>1, <2>2, <2>3 DEF TypeOK
<1>2. TextFirst
  BY DEF TextFirst
<1>3. CountedOnce
  BY DEF CountedOnce, Logged, Pending, Taken, Caller
<1>4. RetryArmed
  BY DEF RetryArmed
<1>5. OwnersTook
  BY DEF OwnersTook, Logged, Caller
<1> QED
  BY <1>1, <1>2, <1>3, <1>4, <1>5 DEF IInv

(* A step that logs no event, ends no insert and calls no explicit flush.  *)
LEMMA FlushAgain ==
  ASSUME IInv, NEW c \in Caller, NEW armed \in BOOLEAN,
         pc[c] # "idle" \/ c \in Alarm,
         Flush(c, queue, armed), UNCHANGED <<rows, failures, owed>>
  PROVE  IInv'
<1>1. TypeOK /\ TextFirst /\ CountedOnce /\ RetryArmed /\ OwnersTook /\ queue \in Queues
  BY DEF IInv, TypeOK, Queues
<1> DEFINE Effect ==
      /\ queue' \in Queues /\ batch' \in Queues
      /\ stage' \in Lanes \cup {"idle"}
      /\ (batch' = Nothing) <=> (stage' = "idle")
      /\ stage' = "speech" => batch'["text"] = <<>>
      /\ timer' \in BOOLEAN
      /\ pc' \in [Caller -> Places]
      /\ \A e : Holds(queue', e) \/ Holds(batch', e) <=> Holds(queue, e) \/ Holds(batch, e)
      /\ \A e : Holds(queue', e) => Holds(queue, e)
      /\ stage' = "idle" => queue' = Nothing
      /\ stage # "idle" => stage' # "idle"
      /\ pc'[c] \in {"joined", "ok", "owner"}
      /\ pc'[c] # "joined" => queue' = Nothing
      /\ pc'[c] = "owner" => stage' # "idle"
      /\ \A d \in Caller \ {c} : pc'[d] = pc[d]
<1>2. Effect
  BY <1>1, FlushStep
<1>3. Logged' = Logged
  BY <1>2, CallersAssumption DEF Logged, Caller
<1>4. TypeOK'
  BY <1>1, <1>2 DEF TypeOK, Queues
<1>5. TextFirst'
  BY <1>2 DEF TextFirst
<1>6. CountedOnce'
  BY <1>1, <1>2, <1>3 DEF CountedOnce, Pending, Taken
<1>7. RetryArmed'
  BY <1>2 DEF RetryArmed
<1>8. OwnersTook'
  <2> SUFFICES ASSUME NEW f \in Flusher
               PROVE  /\ owed'[f] \subseteq Logged'
                      /\ pc'[f] = "owner" => /\ stage' # "idle"
                                             /\ \A e \in owed'[f] : ~Pending(e)'
    BY DEF OwnersTook
  <2>1. owed'[f] \subseteq Logged'
    BY <1>1, <1>3 DEF OwnersTook
  <2>2. CASE f = c
    BY <1>2, <2>1, <2>2, NothingHeld DEF Pending
  <2>3. CASE f # c
    BY <1>1, <1>2, <2>1, <2>3 DEF OwnersTook, Pending, Caller
  <2> QED
    BY <2>2, <2>3
<1> QED
  BY <1>4, <1>5, <1>6, <1>7, <1>8 DEF IInv

LEMMA LogPreserves ==
  ASSUME IInv, NEW e \in Event, Log(e)
  PROVE  IInv'
<1> DEFINE q == [queue EXCEPT ![Lane[e]] = Append(@, e)]
<1>1. TypeOK /\ TextFirst /\ CountedOnce /\ RetryArmed /\ OwnersTook /\ queue \in Queues
  BY DEF IInv, TypeOK, Queues
<1>2. e \in Caller /\ Lane[e] \in Lanes /\ pc[e] = "idle"
  BY CallersAssumption DEF Log, Caller
<1>3. /\ q \in Queues /\ q # Nothing
      /\ \A x : Holds(q, x) <=> Holds(queue, x) \/ x = e
  <2>1. q = [queue EXCEPT ![Lane[e]] = Append(@, e)]
    OBVIOUS
  <2>2. \A l \in Lanes : \A r :
          r = [queue EXCEPT ![l] = Append(@, e)] =>
            /\ r \in Queues /\ r # Nothing
            /\ \A x : Holds(r, x) <=> Holds(queue, x) \/ x = e
    BY <1>1, AppendHeld
  <2> HIDE DEF q
  <2> QED
    BY <1>2, <2>1, <2>2
<1>4. /\ Flush(e, q, timer) \/ /\ queue' = q
                               /\ timer' = TRUE
                               /\ pc' = [pc EXCEPT ![e] = "ok"]
                               /\ UNCHANGED <<batch, stage>>
      /\ UNCHANGED <<rows, failures, owed>>
  BY DEF Log
<1> HIDE DEF q
<1>5. /\ queue' \in Queues /\ batch' \in Queues
      /\ stage' \in Lanes \cup {"idle"}
      /\ (batch' = Nothing) <=> (stage' = "idle")
      /\ stage' = "speech" => batch'["text"] = <<>>
      /\ timer' \in BOOLEAN
      /\ pc' \in [Caller -> Places]
      /\ \A x : Holds(queue', x) \/ Holds(batch', x) <=> Holds(q, x) \/ Holds(batch, x)
      /\ \A x : Holds(queue', x) => Holds(q, x)
      /\ stage' = "idle" => queue' = Nothing \/ timer'
      /\ stage # "idle" => stage' # "idle"
      /\ pc'[e] # "idle"
      /\ \A d \in Caller \ {e} : pc'[d] = pc[d]
  <2>1. CASE Flush(e, q, timer)
    <3>1. timer \in BOOLEAN
      BY <1>1 DEF TypeOK
    <3> QED
      BY <1>1, <1>2, <1>3, <2>1, <3>1, FlushStep
  <2>2. CASE /\ queue' = q
             /\ timer' = TRUE
             /\ pc' = [pc EXCEPT ![e] = "ok"]
             /\ UNCHANGED <<batch, stage>>
    <3>1. pc \in [Caller -> Places] /\ "ok" \in Places /\ batch \in Queues
          /\ stage \in Lanes \cup {"idle"} /\ ((batch = Nothing) <=> (stage = "idle"))
      BY <1>1 DEF TypeOK, Queues, Places
    <3> QED
      BY <1>1, <1>2, <1>3, <2>2, <3>1 DEF TextFirst
  <2> QED
    BY <1>4, <2>1, <2>2
<1>6. Logged' = Logged \cup {e}
  BY <1>2, <1>5 DEF Logged, Caller
<1>7. e \notin Logged
  BY <1>2 DEF Logged
<1>8. TypeOK'
  BY <1>1, <1>4, <1>5 DEF TypeOK, Queues
<1>9. TextFirst'
  BY <1>5 DEF TextFirst
<1>10. CountedOnce'
  BY <1>1, <1>3, <1>4, <1>5, <1>6, <1>7 DEF CountedOnce, Pending, Taken
<1>11. RetryArmed'
  BY <1>5 DEF RetryArmed
<1>12. OwnersTook'
  <2> SUFFICES ASSUME NEW f \in Flusher
               PROVE  /\ owed'[f] \subseteq Logged'
                      /\ pc'[f] = "owner" => /\ stage' # "idle"
                                             /\ \A x \in owed'[f] : ~Pending(x)'
    BY DEF OwnersTook
  <2>1. f # e /\ f \in Caller
    BY CallersAssumption DEF Caller
  <2>2. owed'[f] = owed[f] /\ pc'[f] = pc[f]
    BY <1>4, <1>5, <2>1
  <2> QED
    BY <1>1, <1>3, <1>5, <1>6, <1>7, <2>2 DEF OwnersTook, Pending
<1> QED
  BY <1>8, <1>9, <1>10, <1>11, <1>12 DEF IInv

LEMMA CallFlushPreserves ==
  ASSUME IInv, NEW f \in Flusher, CallFlush(f)
  PROVE  IInv'
<1>1. TypeOK /\ TextFirst /\ CountedOnce /\ RetryArmed /\ OwnersTook /\ queue \in Queues
  BY DEF IInv, TypeOK, Queues
<1>2. f \in Caller /\ f \notin Event
  BY CallersAssumption DEF Caller
<1>3. /\ pc[f] = "idle" /\ owed' = [owed EXCEPT ![f] = Logged]
      /\ Flush(f, queue, timer /\ f \notin Closing) /\ UNCHANGED <<rows, failures>>
  BY DEF CallFlush
<1>4. (timer /\ f \notin Closing) \in BOOLEAN
  OBVIOUS
<1>5. /\ queue' \in Queues /\ batch' \in Queues
      /\ stage' \in Lanes \cup {"idle"}
      /\ (batch' = Nothing) <=> (stage' = "idle")
      /\ stage' = "speech" => batch'["text"] = <<>>
      /\ timer' \in BOOLEAN
      /\ pc' \in [Caller -> Places]
      /\ \A x : Holds(queue', x) \/ Holds(batch', x) <=> Holds(queue, x) \/ Holds(batch, x)
      /\ \A x : Holds(queue', x) => Holds(queue, x)
      /\ stage' = "idle" => queue' = Nothing
      /\ stage # "idle" => stage' # "idle"
      /\ pc'[f] \in {"joined", "ok", "owner"}
      /\ pc'[f] # "joined" => queue' = Nothing
      /\ pc'[f] = "owner" => stage' # "idle"
      /\ \A d \in Caller \ {f} : pc'[d] = pc[d]
  BY <1>1, <1>2, <1>3, <1>4, FlushStep
<1>6. Logged' = Logged
  BY <1>2, <1>5 DEF Logged, Caller
<1>7. TypeOK'
  <2>1. Logged \subseteq Event
    BY DEF Logged
  <2>2. owed' \in [Flusher -> SUBSET Event]
    BY <1>1, <1>3, <2>1 DEF TypeOK
  <2> QED
    BY <1>1, <1>3, <1>5, <2>2 DEF TypeOK, Queues
<1>8. TextFirst'
  BY <1>5 DEF TextFirst
<1>9. CountedOnce'
  BY <1>1, <1>3, <1>5, <1>6 DEF CountedOnce, Pending, Taken
<1>10. RetryArmed'
  BY <1>5 DEF RetryArmed
<1>11. OwnersTook'
  <2> SUFFICES ASSUME NEW g \in Flusher
               PROVE  /\ owed'[g] \subseteq Logged'
                      /\ pc'[g] = "owner" => /\ stage' # "idle"
                                             /\ \A x \in owed'[g] : ~Pending(x)'
    BY DEF OwnersTook
  <2>1. CASE g = f
    BY <1>1, <1>3, <1>5, <1>6, <2>1, NothingHeld DEF TypeOK, Pending
  <2>2. CASE g # f
    <3>1. owed'[g] = owed[g] /\ pc'[g] = pc[g]
      BY <1>1, <1>3, <1>5, <2>2 DEF TypeOK, Caller
    <3> QED
      BY <1>1, <1>5, <1>6, <3>1 DEF OwnersTook, Pending
  <2> QED
    BY <2>1, <2>2
<1> QED
  BY <1>7, <1>8, <1>9, <1>10, <1>11 DEF IInv

LEMMA ResumePreserves ==
  ASSUME IInv, NEW c \in Caller, Resume(c)
  PROVE  IInv'
<1>1. TypeOK /\ TextFirst /\ CountedOnce /\ RetryArmed /\ OwnersTook
  BY DEF IInv
<1>2. /\ pc[c] = "woken" /\ UNCHANGED <<rows, failures, owed>>
      /\ \/ /\ queue = Nothing
            /\ pc' = [pc EXCEPT ![c] = "ok"]
            /\ UNCHANGED <<queue, batch, stage, timer>>
         \/ Flush(c, queue, timer)
  BY DEF Resume
<1>3. CASE Flush(c, queue, timer)
  <2>1. timer \in BOOLEAN /\ pc[c] # "idle"
    BY <1>1, <1>2 DEF TypeOK
  <2> QED
    BY <1>2, <1>3, <2>1, FlushAgain
<1>4. CASE /\ queue = Nothing
           /\ pc' = [pc EXCEPT ![c] = "ok"]
           /\ UNCHANGED <<queue, batch, stage, timer>>
  <2>1. pc' \in [Caller -> Places] /\ \A d \in Caller : pc'[d] = IF d = c THEN "ok" ELSE pc[d]
    BY <1>1, <1>4 DEF TypeOK, Places
  <2>2. Logged' = Logged
    BY <1>2, <2>1 DEF Logged, Caller
  <2>3. TypeOK'
    BY <1>1, <1>2, <1>4, <2>1 DEF TypeOK
  <2>4. TextFirst' /\ RetryArmed'
    BY <1>1, <1>4 DEF TextFirst, RetryArmed
  <2>5. CountedOnce'
    BY <1>1, <1>2, <1>4, <2>2 DEF CountedOnce, Pending, Taken
  <2>6. OwnersTook'
    BY <1>1, <1>2, <1>4, <2>1, <2>2 DEF OwnersTook, Pending, Caller
  <2> QED
    BY <2>3, <2>4, <2>5, <2>6 DEF IInv
<1> QED
  BY <1>2, <1>3, <1>4

(* Rows only ever go from 0 to 1, for an event that the insert took.       *)
LEMMA RowsStep ==
  ASSUME TypeOK, CountedOnce, stage # "idle", Insert \/ UNCHANGED rows
  PROVE  /\ rows' \in [Event -> Nat]
         /\ \A e \in Event : /\ rows'[e] <= 1
                             /\ rows[e] = 1 => rows'[e] = 1
                             /\ e \notin Logged => rows'[e] = 0
<1>1. stage \in Lanes /\ \A e \in Event : e \in Range(batch[stage]) => Taken(e)
  BY DEF TypeOK, Taken, Holds
<1>2. \A e \in Event : rows[e] <= 1 /\ rows[e] \in Nat
                       /\ (e \notin Logged => rows[e] = 0 /\ ~Taken(e))
  BY DEF TypeOK, CountedOnce
<1>3. CASE Insert
  BY <1>1, <1>2, <1>3, InsertStep
<1>4. CASE UNCHANGED rows
  BY <1>2, <1>4 DEF TypeOK
<1> QED
  BY <1>3, <1>4

LEMMA InsertSucceedsPreserves ==
  ASSUME IInv, InsertSucceeds
  PROVE  IInv'
<1>1. TypeOK /\ TextFirst /\ CountedOnce /\ RetryArmed /\ OwnersTook
      /\ queue \in Queues /\ batch \in Queues
  BY DEF IInv, TypeOK, Queues
<1>2. stage # "idle" /\ stage \in Lanes /\ Insert /\ UNCHANGED <<failures, owed>>
  BY <1>1 DEF InsertSucceeds, TypeOK
<1>3. /\ rows' \in [Event -> Nat]
      /\ \A e \in Event : /\ rows'[e] <= 1
                          /\ rows[e] = 1 => rows'[e] = 1
                          /\ e \notin Logged => rows'[e] = 0
                          /\ e \in Range(batch[stage]) => rows'[e] = 1
  BY <1>1, <1>2, RowsStep, InsertStep
<1>4. CASE /\ stage = "text" /\ batch["speech"] # <<>>
           /\ stage' = "speech"
           /\ batch' = [batch EXCEPT !["text"] = <<>>]
           /\ UNCHANGED <<queue, timer, pc>>
  <2>1. <<>> \in Seq(Event)
    OBVIOUS
  <2>2. /\ batch' \in Queues /\ batch'["text"] = <<>>
        /\ batch'["speech"] = batch["speech"] /\ batch' # Nothing
    BY <1>1, <1>4, <2>1 DEF Queues, Lanes, Nothing
  <2>3. TypeOK'
    BY <1>1, <1>2, <1>3, <1>4, <2>2 DEF TypeOK, Queues, Lanes
  <2>4. TextFirst' /\ RetryArmed' /\ Logged' = Logged
    BY <1>4, <2>2 DEF TextFirst, RetryArmed, Logged
  <2>5. \A e : /\ Taken(e)' => Taken(e)
               /\ Taken(e) => Taken(e)' \/ e \in Range(batch[stage])
    BY <1>4, <2>2 DEF Taken, Holds, Lanes, Range
  <2>6. CountedOnce'
    BY <1>1, <1>3, <1>4, <2>4, <2>5 DEF CountedOnce, Pending
  <2>7. OwnersTook'
    BY <1>1, <1>2, <1>4, <2>4 DEF OwnersTook, Pending
  <2> QED
    BY <2>3, <2>4, <2>6, <2>7 DEF IInv
<1>5. CASE /\ stage = "speech" \/ batch["speech"] = <<>>
           /\ Settle(queue, "woken", "ok")
  <2>1. /\ queue' = queue /\ batch' = Nothing /\ stage' = "idle"
        /\ timer' \in BOOLEAN /\ (queue # Nothing => timer')
        /\ pc' \in [Caller -> Places]
        /\ \A c \in Caller : pc'[c] # "owner" /\ (pc'[c] = "idle" <=> pc[c] = "idle")
    BY <1>1, <1>5, SettleStep
  <2>2. Logged' = Logged
    BY <2>1 DEF Logged, Caller
  <2>3. TypeOK'
    BY <1>1, <1>2, <1>3, <2>1, NothingHeld DEF TypeOK, Queues
  <2>4. TextFirst' /\ RetryArmed'
    BY <2>1 DEF TextFirst, RetryArmed
  <2>5. \A e : Taken(e) => e \in Range(batch[stage])
    BY <1>1, <1>2, <1>5 DEF Taken, Holds, Lanes, Range, TextFirst
  <2>6. CountedOnce'
    BY <1>1, <1>3, <2>1, <2>2, <2>5, NothingHeld DEF CountedOnce, Pending, Taken
  <2>7. OwnersTook'
    BY <1>1, <1>2, <2>1, <2>2 DEF OwnersTook, Caller
  <2> QED
    BY <2>3, <2>4, <2>6, <2>7 DEF IInv
<1> QED
  BY <1>4, <1>5 DEF InsertSucceeds

LEMMA InsertFailsPreserves ==
  ASSUME IInv, InsertFails
  PROVE  IInv'
<1>1. TypeOK /\ TextFirst /\ CountedOnce /\ RetryArmed /\ OwnersTook
      /\ queue \in Queues /\ batch \in Queues
  BY DEF IInv, TypeOK, Queues
<1>2. /\ stage # "idle" /\ failures < MaxFailures /\ failures' = failures + 1
      /\ Insert \/ UNCHANGED rows
      /\ Settle(Requeued, "failed", "failed") /\ UNCHANGED owed
  BY DEF InsertFails
<1>3. /\ rows' \in [Event -> Nat]
      /\ \A e \in Event : /\ rows'[e] <= 1
                          /\ rows[e] = 1 => rows'[e] = 1
                          /\ e \notin Logged => rows'[e] = 0
  BY <1>1, <1>2, RowsStep
<1>4. /\ Requeued \in Queues
      /\ \A x : Holds(Requeued, x) <=> Taken(x) \/ Pending(x)
  BY <1>1, RequeuedHeld DEF Requeued, Taken, Pending
<1>5. /\ queue' = Requeued /\ batch' = Nothing /\ stage' = "idle"
      /\ timer' \in BOOLEAN /\ (Requeued # Nothing => timer')
      /\ pc' \in [Caller -> Places]
      /\ \A c \in Caller : pc'[c] # "owner" /\ (pc'[c] = "idle" <=> pc[c] = "idle")
  BY <1>1, <1>2, <1>4, SettleStep
<1>6. Logged' = Logged
  BY <1>5 DEF Logged, Caller
<1>7. TypeOK'
  <2>1. failures' \in 0 .. MaxFailures
    BY <1>1, <1>2, SizesAssumption DEF TypeOK
  <2> QED
    BY <1>1, <1>2, <1>3, <1>4, <1>5, <2>1, NothingHeld DEF TypeOK, Queues
<1>8. TextFirst' /\ RetryArmed'
  BY <1>5 DEF TextFirst, RetryArmed
<1>9. CountedOnce'
  BY <1>1, <1>3, <1>4, <1>5, <1>6, NothingHeld DEF CountedOnce, Pending, Taken
<1>10. OwnersTook'
  BY <1>1, <1>2, <1>5, <1>6 DEF OwnersTook, Caller
<1> QED
  BY <1>7, <1>8, <1>9, <1>10 DEF IInv

LEMMA Inductive == IInv /\ [Next]_vars => IInv'
<1> SUFFICES ASSUME IInv, [Next]_vars PROVE IInv'
  OBVIOUS
<1>1. ASSUME NEW e \in Event, Log(e) PROVE IInv'
  BY <1>1, LogPreserves
<1>2. ASSUME NEW f \in Flusher, CallFlush(f) PROVE IInv'
  BY <1>2, CallFlushPreserves
<1>3. ASSUME NEW a \in Alarm, TimerFires(a) PROVE IInv'
  BY <1>3, FlushAgain DEF TimerFires, Caller
<1>4. ASSUME NEW c \in Caller, Resume(c) PROVE IInv'
  BY <1>4, ResumePreserves
<1>5. CASE InsertSucceeds
  BY <1>5, InsertSucceedsPreserves
<1>6. CASE InsertFails
  BY <1>6, InsertFailsPreserves
<1>7. CASE UNCHANGED vars
  BY <1>7 DEF vars, IInv, TypeOK, TextFirst, CountedOnce, RetryArmed, OwnersTook,
              Logged, Pending, Taken
<1> QED
  BY <1>1, <1>2, <1>3, <1>4, <1>5, <1>6, <1>7 DEF Next

LEMMA Invariant == Spec => []IInv
BY Initially, Inductive, PTL DEF Spec

(* Every variable keeps its type, and a batch is held exactly while a      *)
(* flush runs.                                                             *)
THEOREM TypeCorrect == Spec => []TypeOK
<1>1. IInv => TypeOK
  BY DEF IInv
<1> QED
  BY <1>1, Invariant, PTL

(* No event is lost or counted twice, however flushes, failures and        *)
(* ambiguous inserts interleave.                                           *)
THEOREM CountedCorrect == Spec => []CountedOnce
<1>1. IInv => CountedOnce
  BY DEF IInv
<1> QED
  BY <1>1, Invariant, PTL

(* A queued event always has a running flush or an armed timer.            *)
THEOREM RetryCorrect == Spec => []RetryArmed
<1>1. IInv => RetryArmed
  BY DEF IInv
<1> QED
  BY <1>1, Invariant, PTL

Returned(f) == pc[f] # "ok" /\ pc'[f] = "ok"

(* When a flush returns, nothing logged before it is still queued.         *)
LEMMA ReturnsClear ==
  ASSUME IInv, [Next]_vars, NEW f \in Flusher, Returned(f), NEW x \in owed'[f]
  PROVE  ~Pending(x)'
<1> USE NothingHeld DEF Returned
<1>1. TypeOK /\ TextFirst /\ OwnersTook /\ queue \in Queues /\ batch \in Queues
      /\ f \in Caller /\ f \notin Event /\ f \notin Alarm
  BY CallersAssumption DEF IInv, TypeOK, Queues, Caller
<1>2. queue' = Nothing => ~Pending(x)'
  BY DEF Pending
<1>3. ASSUME NEW c \in Caller, NEW q \in Queues, NEW armed \in BOOLEAN, Flush(c, q, armed)
      PROVE  queue' = Nothing
  BY <1>1, <1>3, FlushStep
<1>4. ASSUME NEW e \in Event, Log(e) PROVE FALSE
  <2>1. f # e /\ pc'[f] = pc[f]
    BY <1>1, <1>4 DEF Log, Flush, TypeOK
  <2> QED
    BY <2>1
<1>5. ASSUME NEW g \in Flusher, CallFlush(g) PROVE queue' = Nothing
  <2>1. (timer /\ g \notin Closing) \in BOOLEAN /\ g \in Caller
    BY DEF Caller
  <2> QED
    BY <1>1, <1>3, <1>5, <2>1 DEF CallFlush
<1>6. ASSUME NEW a \in Alarm, TimerFires(a) PROVE FALSE
  <2>1. f # a /\ pc'[f] = pc[f]
    BY <1>1, <1>6 DEF TimerFires, Flush, TypeOK
  <2> QED
    BY <2>1
<1>7. ASSUME NEW c \in Caller, Resume(c) PROVE queue' = Nothing
  BY <1>1, <1>3, <1>7 DEF Resume, TypeOK
<1>8. CASE InsertSucceeds
  <2>1. CASE UNCHANGED pc
    BY <2>1
  <2>2. CASE Settle(queue, "woken", "ok")
    <3>1. queue' = queue /\ pc[f] = "owner"
      BY <1>1, <2>2, SettleStep
    <3>2. owed'[f] = owed[f]
      BY <1>8 DEF InsertSucceeds
    <3> QED
      BY <1>1, <3>1, <3>2 DEF OwnersTook, Pending
  <2> QED
    BY <1>8, <2>1, <2>2 DEF InsertSucceeds
<1>9. CASE InsertFails
  <2>1. Requeued \in Queues /\ Settle(Requeued, "failed", "failed")
    BY <1>1, <1>9, RequeuedHeld DEF Requeued, InsertFails
  <2> QED
    BY <1>1, <2>1, SettleStep
<1>10. CASE UNCHANGED vars
  BY <1>10 DEF vars
<1> QED
  BY <1>2, <1>4, <1>5, <1>6, <1>7, <1>8, <1>9, <1>10 DEF Next

(* A flush, getUsage or close that returns leaves none of the events that  *)
(* were logged before it in a queue.                                       *)
THEOREM FlushCorrect == Spec => FlushLeavesNothingQueued
<1>1. IInv /\ [Next]_vars =>
        [\A f \in Flusher :
           pc[f] # "ok" /\ pc'[f] = "ok" => \A e \in owed'[f] : ~Pending(e)']_vars
  BY ReturnsClear DEF Returned
<1> QED
  BY <1>1, Invariant, PTL DEF Spec, FlushLeavesNothingQueued
=============================================================================
