----------------------- MODULE RedisSessionStoreProofs -----------------------
(***************************************************************************)
(* Theorems about RedisSessionStore for every set of callers, tuples and   *)
(* keys, however the legacy keys of tuples coincide.                       *)
(***************************************************************************)
EXTENDS RedisSessionStore, TLAPS

(* Records lie only under the keys of their tuple, and an unconditional    *)
(* set that got past its first read has a free v2 key, or its own.         *)
PlacedInv ==
  /\ \A k \in Key, t \in Tuple : redis[k].tuple = t => k \in {V2[t], Legacy[t]}
  /\ \A c \in Client :
       /\ pc[c] \in {"unlink v2", "unlink legacy"} => Kind(c) = "delete"
       /\ Kind(c) = "set" /\ pc[c] \in {"v2", "legacy", "write"} =>
            redis[V2[Own(c)]] = Nil \/ redis[V2[Own(c)]].tuple = Own(c)
       /\ pc[c] \in {"existing", "write"} => Kind(c) = "set"
       /\ pc[c] \in {"v2", "legacy"} => Kind(c) \in {"get", "set", "delete"}
       /\ seen[c] # Nil => seen[c].tuple = Own(c)

IInv == TypeOK /\ PlacedInv

LEMMA ValueFacts ==
  ASSUME NEW x \in Record \cup {Nil, Junk}
  PROVE  /\ x.version \in Nat
         /\ x.tuple = NoTuple \/ x \in Record
         /\ x \in Record => x.tuple \in Tuple /\ x.version # 0 /\ x # Nil
         /\ \A t \in Tuple : x.tuple = t => x \in Record
<1>1. CASE x \in Record
  <2>1. x.tuple \in Tuple /\ x.version \in Nat \ {0}
    BY <1>1 DEF Record
  <2>. QED
    BY <1>1, <2>1 DEF Nil
<1>2. CASE x = Nil
  <2>1. x.version = 0 /\ x.tuple = NoTuple
    BY <1>2 DEF Nil
  <2>. QED
    BY <2>1, NoTupleAssumption DEF Record
<1>3. CASE x = Junk
  <2>1. x.version = 1 /\ x.tuple = NoTuple
    BY <1>3 DEF Junk
  <2>. QED
    BY <2>1, NoTupleAssumption DEF Record
<1>. QED
  BY <1>1, <1>2, <1>3

(* What a script compares with is a record of the tuple, or nothing.       *)
LEMMA CurrentFacts ==
  ASSUME TypeOK, NEW t \in Tuple, ~Taken(t)
  PROVE  /\ Current(t) = Visible(t)
         /\ Current(t) \in Record \cup {Nil}
         /\ Current(t).version \in Nat
         /\ V2[t] \in Key /\ Legacy[t] \in Key /\ V2[t] # Legacy[t]
         /\ redis[V2[t]] = Nil \/ redis[V2[t]].tuple = t
         /\ Current(t) # Nil => redis[SourceKey(t)] = Current(t) /\ Current(t).tuple = t
<1>1. V2[t] \in Key /\ Legacy[t] \in Key /\ V2[t] # Legacy[t]
  BY KeysAssumption
<1>2. redis[V2[t]] \in Record \cup {Nil, Junk} /\ redis[Legacy[t]] \in Record \cup {Nil, Junk}
  BY <1>1 DEF TypeOK
<1>3. redis[V2[t]] = Nil \/ redis[V2[t]].tuple = t
  BY DEF Taken, Mine
<1>4. Nil.tuple # t
  BY NoTupleAssumption DEF Nil
<1>5. CASE redis[V2[t]] # Nil
  BY <1>1, <1>2, <1>3, <1>5, ValueFacts DEF Current, Visible, SourceKey, Mine
<1>6. CASE redis[V2[t]] = Nil
  <2>1. CASE redis[Legacy[t]].tuple = t
    BY <1>1, <1>2, <1>4, <1>6, <2>1, ValueFacts DEF Current, Visible, SourceKey, Mine
  <2>2. CASE redis[Legacy[t]].tuple # t
    <3>1. Current(t) = Nil /\ Visible(t) = Nil
      BY <1>4, <1>6, <2>2 DEF Current, Visible, Mine
    <3>2. Nil.version = 0
      BY DEF Nil
    <3>. QED
      BY <1>1, <1>6, <3>1, <3>2
  <2>. QED
    BY <2>1, <2>2
<1>. QED
  BY <1>5, <1>6

(* A guarded set puts the next version under the v2 key and frees the key  *)
(* the record came from; a guarded delete frees that key.                  *)
LEMMA GuardedSetFacts ==
  ASSUME TypeOK, NEW c \in Client, GuardedSet(c), redis' # redis
  PROVE  /\ ~Taken(Own(c))
         /\ Current(Own(c)).version = call[c].expected
         /\ redis' = [k \in Key |->
              IF k = V2[Own(c)]
              THEN [tuple |-> Own(c), version |-> Current(Own(c)).version + 1, data |-> c]
              ELSE IF k = SourceKey(Own(c)) /\ Current(Own(c)) # Nil THEN Nil ELSE redis[k]]
BY DEF GuardedSet

LEMMA GuardedDeleteFacts ==
  ASSUME TypeOK, NEW c \in Client, GuardedDelete(c), redis' # redis
  PROVE  /\ ~Taken(Own(c))
         /\ Current(Own(c)).version = call[c].expected
         /\ Current(Own(c)) # Nil
         /\ redis' = [redis EXCEPT ![SourceKey(Own(c))] = Nil]
BY DEF GuardedDelete

LEMMA NewRecord ==
  ASSUME NEW t \in Tuple, NEW n \in Nat, NEW c \in Client
  PROVE  [tuple |-> t, version |-> n + 1, data |-> c] \in Record
BY DEF Record

----------------------------------------------------------------------------
LEMMA InitInv == Init => IInv
<1>. SUFFICES ASSUME Init PROVE IInv
  OBVIOUS
<1>1. redis \in [Key -> Record \cup {Nil, Junk}]
  BY DEF Init, Record
<1>2. TypeOK
  BY <1>1 DEF Init, TypeOK, Places
<1>3. PlacedInv
  BY DEF Init, PlacedInv
<1>. QED
  BY <1>2, <1>3 DEF IInv

LEMMA NextType == TypeOK /\ PlacedInv /\ [Next]_vars => TypeOK'
<1>. SUFFICES ASSUME TypeOK, PlacedInv, [Next]_vars
              PROVE  TypeOK'
  OBVIOUS
<1>. USE DEF Places
<1>0. \A c \in Client : Own(c) \in Tuple /\ V2[Own(c)] \in Key /\ Legacy[Own(c)] \in Key
  BY KeysAssumption DEF TypeOK, Own, Call
<1>1. CASE UNCHANGED vars
  BY <1>1 DEF TypeOK, vars
<1>2. CASE Next
  <2>. PICK c \in Client : Begin(c) \/ Command(c)
    BY <1>2 DEF Next
  <2>0. call' = call /\ absent' \in SUBSET Client
    BY <1>2 DEF Next, ObserveAbsence, TypeOK
  <2>. DEFINE Rest == /\ pc' \in [Client -> Places]
                      /\ seen' \in [Client -> Record \cup {Nil}]
                      /\ outcome' \in [Client -> {"none", "ok", "conflict", "key conflict"}]
  <2>1. CASE Begin(c)
    BY <2>0, <2>1 DEF TypeOK, Begin, Goto
  <2>2. CASE ReadExisting(c) \/ ReadV2(c) \/ ReadLegacy(c)
    <3>1. \A k \in {V2[Own(c)], Legacy[Own(c)]} :
            Mine(redis[k], Own(c)) => redis[k] \in Record
      BY <1>0, ValueFacts DEF TypeOK, Mine
    <3>2. Rest /\ redis' = redis
      BY <2>2, <3>1 DEF TypeOK, ReadExisting, ReadV2, ReadLegacy, Found, Goto, Return
    <3>. QED
      BY <2>0, <3>2 DEF TypeOK
  <2>3. CASE Write(c)
    <3>1. seen[c].version \in Nat
      BY ValueFacts DEF TypeOK
    <3>2. [tuple |-> Own(c), version |-> seen[c].version + 1, data |-> c] \in Record
      BY <1>0, <3>1, NewRecord
    <3>. QED
      BY <2>0, <2>3, <3>2 DEF TypeOK, Write, Goto, Return
  <2>4. CASE Unlink(c)
    BY <2>0, <2>4 DEF TypeOK, Unlink, Goto, Return
  <2>5. CASE GuardedSet(c)
    <3>1. Rest
      BY <2>5 DEF TypeOK, GuardedSet, Goto, Return
    <3>2. redis' \in [Key -> Record \cup {Nil, Junk}]
      <4>1. CASE redis' = redis
        BY <4>1 DEF TypeOK
      <4>2. CASE redis' # redis
        <5>1. [tuple |-> Own(c), version |-> Current(Own(c)).version + 1, data |-> c] \in Record
          <6>1. ~Taken(Own(c))
            BY <2>5, <4>2, GuardedSetFacts
          <6>2. Current(Own(c)).version \in Nat
            BY <1>0, <6>1, CurrentFacts
          <6>. QED
            BY <1>0, <6>2, NewRecord
        <5>. QED
          <6>1. redis' = [k \in Key |->
                 IF k = V2[Own(c)]
                 THEN [tuple |-> Own(c), version |-> Current(Own(c)).version + 1, data |-> c]
                 ELSE IF k = SourceKey(Own(c)) /\ Current(Own(c)) # Nil THEN Nil ELSE redis[k]]
            BY <2>5, <4>2, GuardedSetFacts
          <6>. QED
            BY <5>1, <6>1 DEF TypeOK
      <4>. QED
        BY <4>1, <4>2
    <3>. QED
      BY <2>0, <3>1, <3>2 DEF TypeOK
  <2>6. CASE GuardedDelete(c)
    <3>1. Rest
      BY <2>6 DEF TypeOK, GuardedDelete, Goto, Return
    <3>2. redis' \in [Key -> Record \cup {Nil, Junk}]
      BY <2>6, GuardedDeleteFacts DEF TypeOK
    <3>. QED
      BY <2>0, <3>1, <3>2 DEF TypeOK
  <2>. QED
    BY <2>1, <2>2, <2>3, <2>4, <2>5, <2>6 DEF Command
<1>. QED
  BY <1>1, <1>2

----------------------------------------------------------------------------
(* Every command of a call only frees keys or puts a record of its tuple   *)
(* under the tuple's v2 key, and only an unconditional delete can free a   *)
(* key that holds something of another tuple.                              *)
LEMMA StepEffect ==
  ASSUME IInv, NEW c \in Client, Begin(c) \/ Command(c), NEW k \in Key,
         redis'[k] # redis[k]
  PROVE  /\ redis'[k] = Nil \/ (k = V2[Own(c)] /\ redis'[k].tuple = Own(c))
         /\ Kind(c) # "delete" => redis[k].tuple \in {NoTuple, Own(c)}
         /\ Running(c) /\ pc'[c] # pc[c]
<1>0. /\ Own(c) \in Tuple /\ V2[Own(c)] \in Key /\ Legacy[Own(c)] \in Key
      /\ redis \in [Key -> Record \cup {Nil, Junk}]
      /\ pc \in [Client -> Places]
      /\ Nil.tuple = NoTuple
  BY KeysAssumption DEF IInv, TypeOK, Own, Call, Nil
<1>1. CASE Begin(c) \/ ReadExisting(c) \/ ReadV2(c) \/ ReadLegacy(c)
  BY <1>1 DEF Begin, ReadExisting, ReadV2, ReadLegacy
<1>2. CASE Write(c)
  <2>1. k = V2[Own(c)] /\ redis'[k].tuple = Own(c) /\ pc[c] = "write" /\ pc'[c] = "done"
    BY <1>0, <1>2 DEF Write, Return, Goto
  <2>2. redis[k] = Nil \/ redis[k].tuple = Own(c)
    BY <2>1 DEF IInv, PlacedInv
  <2>. QED
    BY <1>0, <2>1, <2>2 DEF Running
<1>3. CASE Unlink(c)
  BY <1>0, <1>3 DEF Unlink, Return, Goto, Running, IInv, PlacedInv
<1>4. CASE GuardedSet(c)
  <2>1. /\ ~Taken(Own(c)) /\ pc[c] = "script" /\ pc'[c] = "done"
        /\ redis' = [i \in Key |->
             IF i = V2[Own(c)]
             THEN [tuple |-> Own(c), version |-> Current(Own(c)).version + 1, data |-> c]
             ELSE IF i = SourceKey(Own(c)) /\ Current(Own(c)) # Nil THEN Nil ELSE redis[i]]
    BY <1>0, <1>4, GuardedSetFacts DEF GuardedSet, Return, Goto, IInv
  <2>2. /\ redis[V2[Own(c)]] = Nil \/ redis[V2[Own(c)]].tuple = Own(c)
        /\ Current(Own(c)) # Nil => redis[SourceKey(Own(c))].tuple = Own(c)
    BY <1>0, <2>1, CurrentFacts DEF IInv
  <2>. QED
    BY <1>0, <2>1, <2>2 DEF Running
<1>5. CASE GuardedDelete(c)
  <2>1. /\ ~Taken(Own(c)) /\ Current(Own(c)) # Nil /\ pc[c] = "script" /\ pc'[c] = "done"
        /\ redis' = [redis EXCEPT ![SourceKey(Own(c))] = Nil]
    BY <1>0, <1>5, GuardedDeleteFacts DEF GuardedDelete, Return, Goto, IInv
  <2>2. redis[SourceKey(Own(c))].tuple = Own(c)
    BY <1>0, <2>1, CurrentFacts DEF IInv
  <2>. QED
    BY <1>0, <2>1, <2>2 DEF Running
<1>. QED
  BY <1>1, <1>2, <1>3, <1>4, <1>5 DEF Command

LEMMA NextPlaced == IInv /\ [Next]_vars => PlacedInv'
<1>. SUFFICES ASSUME IInv, [Next]_vars
              PROVE  PlacedInv'
  OBVIOUS
<1>1. CASE UNCHANGED vars
  BY <1>1 DEF IInv, PlacedInv, vars, Kind, Own
<1>2. CASE Next
  <2>. PICK c \in Client : Begin(c) \/ Command(c)
    BY <1>2 DEF Next
  <2>0. /\ call' = call
        /\ \A d \in Client : Own(d) \in Tuple /\ V2[Own(d)] \in Key /\ Legacy[Own(d)] \in Key
        /\ Nil.tuple = NoTuple
        /\ pc \in [Client -> Places] /\ seen \in [Client -> Record \cup {Nil}]
        /\ \A d \in Client : d # c => pc'[d] = pc[d] /\ seen'[d] = seen[d]
    <3>1. \A d \in Client : Own(d) \in Tuple
      BY DEF IInv, TypeOK, Own, Call
    <3>2. pc \in [Client -> Places] /\ seen \in [Client -> Record \cup {Nil}]
      BY DEF IInv, TypeOK
    <3>3. \A d \in Client : d # c => pc'[d] = pc[d] /\ seen'[d] = seen[d]
      BY <3>2 DEF Command, Begin, ReadExisting, ReadV2, ReadLegacy, Found, Write, Unlink,
                  GuardedSet, GuardedDelete, Goto, Return
    <3>. QED
      BY <1>2, <3>1, <3>2, <3>3, KeysAssumption DEF Next, Nil
  <2>1. ASSUME NEW k \in Key, NEW t \in Tuple, redis'[k].tuple = t
        PROVE  k \in {V2[t], Legacy[t]}
    <3>1. CASE redis'[k] = redis[k]
      BY <2>1, <3>1 DEF IInv, PlacedInv
    <3>2. CASE redis'[k] # redis[k]
      <4>1. k = V2[Own(c)] /\ t = Own(c)
        BY <2>0, <2>1, <3>2, StepEffect, NoTupleAssumption
      <4>. QED
        BY <4>1
    <3>. QED
      BY <3>1, <3>2
  <2>2. ASSUME NEW d \in Client, redis[V2[Own(d)]] = Nil \/ redis[V2[Own(d)]].tuple = Own(d)
        PROVE  redis'[V2[Own(d)]] = Nil \/ redis'[V2[Own(d)]].tuple = Own(d)
    <3>. DEFINE k == V2[Own(d)]
    <3>1. CASE redis'[k] # redis[k] /\ redis'[k] # Nil
      <4>1. V2[Own(d)] = V2[Own(c)] /\ redis'[k].tuple = Own(c)
        BY <2>0, <3>1, StepEffect
      <4>2. Own(d) = Own(c)
        BY <2>0, <4>1, KeysAssumption
      <4>. QED
        BY <4>1, <4>2
    <3>. QED
      BY <2>2, <3>1
  <2>3. ASSUME NEW d \in Client
        PROVE  /\ pc'[d] \in {"unlink v2", "unlink legacy"} => Kind(d) = "delete"
               /\ pc'[d] \in {"existing", "write"} => Kind(d) = "set"
               /\ pc'[d] \in {"v2", "legacy"} => Kind(d) \in {"get", "set", "delete"}
               /\ seen'[d] # Nil => seen'[d].tuple = Own(d)
               /\ Kind(d) = "set" /\ pc'[d] \in {"v2", "legacy", "write"}
                    /\ pc[d] \notin {"v2", "legacy", "write"} =>
                    redis[V2[Own(d)]] = Nil \/ redis[V2[Own(d)]].tuple = Own(d)
    <3>1. CASE d # c
      BY <2>0, <3>1 DEF IInv, PlacedInv
    <3>2. CASE d = c
      <4>0. /\ pc[c] \in {"unlink v2", "unlink legacy"} => Kind(c) = "delete"
            /\ pc[c] \in {"existing", "write"} => Kind(c) = "set"
            /\ pc[c] \in {"v2", "legacy"} => Kind(c) \in {"get", "set", "delete"}
            /\ seen[c] # Nil => seen[c].tuple = Own(c)
            /\ Kind(c) \in AllCalls
        BY CallsAssumption DEF IInv, TypeOK, PlacedInv, Kind, Call
      <4>1. CASE Begin(c)
        BY <2>0, <3>2, <4>0, <4>1 DEF Begin, Goto
      <4>2. CASE ReadExisting(c)
        <5>1. \/ pc'[c] = "v2" /\ seen' = seen /\ redis[V2[Own(c)]] = Nil
              \/ /\ pc'[c] = "write" /\ seen'[c] = redis[V2[Own(c)]]
                 /\ redis[V2[Own(c)]].tuple = Own(c)
              \/ pc'[c] = "done" /\ seen' = seen
          BY <2>0, <4>2 DEF ReadExisting, Goto, Return, Mine
        <5>2. Kind(c) = "set"
          BY <4>0, <4>2 DEF ReadExisting
        <5>. QED
          BY <3>2, <4>0, <5>1, <5>2
      <4>3. CASE ReadV2(c) \/ ReadLegacy(c)
        <5>1. /\ pc[c] \in {"v2", "legacy"}
              /\ \/ pc'[c] = "legacy"
                 \/ pc'[c] = "done"
                 \/ pc'[c] = "write" /\ Kind(c) = "set"
                 \/ pc'[c] \in {"unlink v2", "unlink legacy"} /\ Kind(c) = "delete"
          BY <2>0, <4>0, <4>3 DEF ReadV2, ReadLegacy, Found, Goto, Return
        <5>2. seen'[c] = seen[c] \/ seen'[c] = Nil \/ seen'[c].tuple = Own(c)
          BY <2>0, <4>3 DEF ReadV2, ReadLegacy, Found, Mine
        <5>. QED
          BY <3>2, <4>0, <5>1, <5>2
      <4>4. CASE Write(c) \/ Unlink(c) \/ GuardedSet(c) \/ GuardedDelete(c)
        BY <2>0, <3>2, <4>0, <4>4
           DEF Write, Unlink, GuardedSet, GuardedDelete, Goto, Return
      <4>. QED
        BY <4>1, <4>2, <4>3, <4>4 DEF Command
    <3>. QED
      BY <3>1, <3>2
  <2>4. \A d \in Client : Kind(d)' = Kind(d) /\ Own(d)' = Own(d)
    BY <2>0 DEF Kind, Own
  <2>5. ASSUME NEW d \in Client, Kind(d) = "set", pc'[d] \in {"v2", "legacy", "write"}
        PROVE  redis'[V2[Own(d)]] = Nil \/ redis'[V2[Own(d)]].tuple = Own(d)
    <3>1. redis[V2[Own(d)]] = Nil \/ redis[V2[Own(d)]].tuple = Own(d)
      BY <2>3, <2>5 DEF IInv, PlacedInv
    <3>. QED
      BY <2>2, <3>1
  <2>. QED
    BY <2>1, <2>3, <2>4, <2>5 DEF PlacedInv
<1>. QED
  BY <1>1, <1>2

(* The inductive invariant holds of every reachable state.                 *)
THEOREM Inductive == Spec => []IInv
<1>1. IInv /\ [Next]_vars => IInv'
  BY NextType, NextPlaced DEF IInv
<1>. QED
  BY <1>1, InitInv, PTL DEF Spec

(* Types are respected, whatever lies under the keys at first.             *)
THEOREM TypeCorrect == Spec => []TypeOK
<1>1. IInv => TypeOK
  BY DEF IInv
<1>. QED
  BY <1>1, Inductive, PTL

(* A read never hands out a record of another tuple.                       *)
THEOREM ReadsCorrect == Spec => []GetsReadOwn
<1>1. IInv => GetsReadOwn
  BY DEF IInv, PlacedInv, GetsReadOwn
<1>. QED
  BY <1>1, Inductive, PTL

----------------------------------------------------------------------------
(* The unconditional delete removes in a second command what it found in a *)
(* first.  Between the two its v2 key can only come to hold nothing or     *)
(* another record of its tuple; so can its legacy key, unless that is the  *)
(* v2 key of another tuple.                                                *)
LegacyKeysApart == \A t, u \in Tuple : Legacy[t] # V2[u]

NoForeignDelete == "delete" \notin Calls \/ LegacyKeysApart

UnlinkInv ==
  \A c \in Client :
    /\ pc[c] = "unlink v2" => redis[V2[Own(c)]].tuple \in {NoTuple, Own(c)}
    /\ pc[c] = "unlink legacy" /\ LegacyKeysApart =>
         redis[Legacy[Own(c)]].tuple \in {NoTuple, Own(c)}

OutcomeInv == \A c \in Client : pc[c] # "done" => outcome[c] = "none"

LEMMA NextOutcome == IInv /\ OutcomeInv /\ [Next]_vars => OutcomeInv'
<1>. SUFFICES ASSUME IInv, OutcomeInv, [Next]_vars
              PROVE  OutcomeInv'
  OBVIOUS
<1>. USE DEF OutcomeInv
<1>0. pc \in [Client -> Places]
      /\ outcome \in [Client -> {"none", "ok", "conflict", "key conflict"}]
  BY DEF IInv, TypeOK
<1>1. CASE UNCHANGED vars
  BY <1>1 DEF vars
<1>2. ASSUME NEW c \in Client, Begin(c) \/ Command(c)
      PROVE  pc[c] # "done" /\ (UNCHANGED outcome \/ pc'[c] = "done")
             /\ \A d \in Client : d # c => pc'[d] = pc[d] /\ outcome'[d] = outcome[d]
  BY <1>0, <1>2 DEF Command, Begin, ReadExisting, ReadV2, ReadLegacy, Found, Write, Unlink,
                    GuardedSet, GuardedDelete, Goto, Return
<1>. QED
  BY <1>0, <1>1, <1>2 DEF Next

LEMMA NextUnlink == IInv /\ UnlinkInv /\ [Next]_vars => UnlinkInv'
<1>. SUFFICES ASSUME IInv, UnlinkInv, [Next]_vars
              PROVE  UnlinkInv'
  OBVIOUS
<1>1. CASE UNCHANGED vars
  BY <1>1 DEF UnlinkInv, vars, Own
<1>2. CASE Next
  <2>. PICK c \in Client : Begin(c) \/ Command(c)
    BY <1>2 DEF Next
  <2>0. /\ \A d \in Client : Own(d)' = Own(d) /\ Own(d) \in Tuple
        /\ \A d \in Client : V2[Own(d)] \in Key /\ Legacy[Own(d)] \in Key
        /\ pc \in [Client -> Places]
        /\ Nil.tuple = NoTuple
    <3>1. call' = call
      BY <1>2 DEF Next
    <3>. QED
      BY <3>1, KeysAssumption DEF IInv, TypeOK, Own, Call, Nil
  <2>1. ASSUME NEW d \in Client, redis[V2[Own(d)]].tuple \in {NoTuple, Own(d)}
        PROVE  redis'[V2[Own(d)]].tuple \in {NoTuple, Own(d)}
    <3>. DEFINE k == V2[Own(d)]
    <3>1. CASE redis'[k] # redis[k] /\ redis'[k] # Nil
      <4>1. V2[Own(d)] = V2[Own(c)] /\ redis'[k].tuple = Own(c)
        BY <2>0, <3>1, StepEffect
      <4>2. Own(d) = Own(c)
        BY <2>0, <4>1, KeysAssumption
      <4>. QED
        BY <4>1, <4>2
    <3>. QED
      BY <2>0, <2>1, <3>1
  <2>2. ASSUME NEW d \in Client, LegacyKeysApart,
               redis[Legacy[Own(d)]].tuple \in {NoTuple, Own(d)}
        PROVE  redis'[Legacy[Own(d)]].tuple \in {NoTuple, Own(d)}
    <3>1. Legacy[Own(d)] # V2[Own(c)]
      BY <2>0, <2>2 DEF LegacyKeysApart
    <3>2. redis'[Legacy[Own(d)]] # redis[Legacy[Own(d)]] => redis'[Legacy[Own(d)]] = Nil
      BY <2>0, <3>1, StepEffect
    <3>. QED
      BY <2>0, <2>2, <3>2
  <2>3. ASSUME NEW d \in Client
        PROVE  /\ pc'[d] = "unlink v2" =>
                    pc[d] = "unlink v2" \/ redis[V2[Own(d)]].tuple = Own(d)
               /\ pc'[d] = "unlink legacy" =>
                    pc[d] = "unlink legacy" \/ redis[Legacy[Own(d)]].tuple = Own(d)
    BY <2>0, <2>3 DEF Command, Begin, ReadExisting, ReadV2, ReadLegacy, Found, Write, Unlink,
                      GuardedSet, GuardedDelete, Goto, Return, Mine
  <2>. QED
    BY <2>0, <2>1, <2>2, <2>3 DEF UnlinkInv
<1>. QED
  BY <1>1, <1>2

(* So a delete, too, frees nothing that another tuple holds.               *)
LEMMA DeleteKeepsApart ==
  ASSUME IInv, UnlinkInv, LegacyKeysApart, NEW c \in Client, Begin(c) \/ Command(c),
         Kind(c) = "delete", NEW k \in Key, redis'[k] # redis[k]
  PROVE  redis[k].tuple \in {NoTuple, Own(c)}
<1>0. redis \in [Key -> Record \cup {Nil, Junk}]
  BY DEF IInv, TypeOK
<1>1. Unlink(c)
  BY DEF Command, Begin, ReadExisting, ReadV2, ReadLegacy, Write, GuardedSet, GuardedDelete,
         IInv, PlacedInv
<1>2. \/ pc[c] = "unlink v2" /\ k = V2[Own(c)]
      \/ pc[c] = "unlink legacy" /\ k = Legacy[Own(c)]
  BY <1>0, <1>1 DEF Unlink
<1>. QED
  BY <1>2 DEF UnlinkInv

(* No call replaces or removes a record of another tuple, whichever legacy *)
(* keys coincide, when nobody deletes unconditionally or no legacy key is  *)
(* the v2 key of a tuple.                                                  *)
THEOREM ApartCorrect ==
  ASSUME NoForeignDelete
  PROVE  Spec => KeptApart
<1>. DEFINE Apart == \A k \in Key :
       redis[k].tuple # NoTuple /\ redis'[k] # redis[k] =>
         \E c \in Client : Running(c) /\ pc'[c] # pc[c] /\ Own(c) = redis[k].tuple
<1>1. IInv /\ UnlinkInv /\ [Next]_vars => [Apart]_vars
  <2>. SUFFICES ASSUME IInv, UnlinkInv, Next, NEW k \in Key,
                       redis[k].tuple # NoTuple, redis'[k] # redis[k]
                PROVE  \E c \in Client : Running(c) /\ pc'[c] # pc[c] /\ Own(c) = redis[k].tuple
    BY DEF vars
  <2>1. PICK c \in Client : Begin(c) \/ Command(c)
    BY DEF Next
  <2>2. Kind(c) = "delete" => LegacyKeysApart
    BY DEF NoForeignDelete, IInv, TypeOK, Kind, Call
  <2>3. redis[k].tuple \in {NoTuple, Own(c)}
    BY <2>1, <2>2, StepEffect, DeleteKeepsApart
  <2>. QED
    BY <2>1, <2>3, StepEffect
<1>2. Init => UnlinkInv
  BY DEF Init, UnlinkInv
<1>. QED
  BY <1>1, <1>2, NextUnlink, Inductive, PTL DEF Spec, KeptApart

(* What a guarded call is accepted for is what a get would have found at   *)
(* that moment, whichever copies and foreign records lie under its keys.   *)
THEOREM GuardsCorrect == Spec => GuardsCompareVisible
<1>. DEFINE Compared == \A c \in Client :
       pc[c] = "script" /\ outcome'[c] = "ok" => Visible(Own(c)).version = call[c].expected
<1>1. IInv /\ OutcomeInv /\ [Next]_vars => [Compared]_vars
  <2>. SUFFICES ASSUME IInv, OutcomeInv, Next, NEW c \in Client,
                       pc[c] = "script", outcome'[c] = "ok"
                PROVE  Visible(Own(c)).version = call[c].expected
    BY DEF vars
  <2>0. outcome \in [Client -> {"none", "ok", "conflict", "key conflict"}]
        /\ TypeOK /\ Own(c) \in Tuple /\ outcome[c] = "none"
    BY DEF IInv, TypeOK, OutcomeInv, Own, Call
  <2>1. PICK d \in Client : Begin(d) \/ Command(d)
    BY DEF Next
  <2>2. d = c
    BY <2>0, <2>1 DEF Command, Begin, ReadExisting, ReadV2, ReadLegacy, Found, Write, Unlink,
                      GuardedSet, GuardedDelete, Return
  <2>3. GuardedSet(c) \/ GuardedDelete(c)
    BY <2>1, <2>2 DEF Command, Begin, ReadExisting, ReadV2, ReadLegacy, Write, Unlink
  <2>4. ~Taken(Own(c)) /\ Current(Own(c)).version = call[c].expected
    BY <2>0, <2>3 DEF GuardedSet, GuardedDelete, Return
  <2>. QED
    BY <2>0, <2>4, CurrentFacts
<1>2. Init => OutcomeInv
  BY DEF Init, OutcomeInv
<1>. QED
  BY <1>1, <1>2, NextOutcome, Inductive, PTL DEF Spec, GuardsCompareVisible

(* All three together: calls keep to their own tuple.                      *)
THEOREM TuplesCorrect ==
  ASSUME NoForeignDelete
  PROVE  Spec => CallsKeepToTuple
BY ReadsCorrect, ApartCorrect, GuardsCorrect, PTL DEF CallsKeepToTuple

----------------------------------------------------------------------------
GuardedOnly == Calls \subseteq {"get", "guarded set", "guarded delete"}

(* Without unconditional calls only the two scripts write.                 *)
LEMMA OnlyScripts ==
  ASSUME GuardedOnly, IInv, NEW c \in Client, Begin(c) \/ Command(c)
  PROVE  redis' = redis \/ GuardedSet(c) \/ GuardedDelete(c)
<1>1. Kind(c) # "set" /\ Kind(c) # "delete"
  BY DEF GuardedOnly, IInv, TypeOK, Kind, Call
<1>2. ~Write(c)
  BY <1>1 DEF IInv, PlacedInv, Write
<1>3. ~Unlink(c)
  BY <1>1 DEF IInv, PlacedInv, Unlink
<1>4. Begin(c) \/ ReadExisting(c) \/ ReadV2(c) \/ ReadLegacy(c) => redis' = redis
  BY DEF Begin, ReadExisting, ReadV2, ReadLegacy
<1>. QED
  BY <1>2, <1>3, <1>4 DEF Command

(* Other tuples see nothing of a script.                                   *)
LEMMA OthersUnseen ==
  ASSUME GuardedOnly, IInv, NEW c \in Client, Begin(c) \/ Command(c),
         NEW x \in Tuple, x # Own(c)
  PROVE  /\ Visible(x)' = Visible(x)
         /\ \A k \in Key : redis'[k].tuple = x <=> redis[k].tuple = x
<1>1. Kind(c) # "delete"
  BY DEF GuardedOnly, IInv, TypeOK, Kind, Call
<1>2. ASSUME NEW k \in Key, redis'[k] # redis[k]
      PROVE  redis'[k].tuple # x /\ redis[k].tuple # x
  <2>1. redis'[k] = Nil \/ redis'[k].tuple = Own(c)
    BY <1>2, StepEffect
  <2>2. redis[k].tuple = NoTuple \/ redis[k].tuple = Own(c)
    BY <1>1, <1>2, StepEffect
  <2>. QED
    BY <2>1, <2>2, NoTupleAssumption DEF Nil
<1>3. V2[x] \in Key /\ Legacy[x] \in Key
  BY KeysAssumption
<1>. QED
  BY <1>2, <1>3 DEF Visible, Mine

(* What the script's own tuple sees of it.                                 *)
LEMMA OwnSeen ==
  ASSUME IInv, OneCopy, NEW c \in Client, GuardedSet(c) \/ GuardedDelete(c), redis' # redis,
         call' = call
  PROVE  /\ Visible(Own(c)).version = call[c].expected
         /\ ~(redis'[V2[Own(c)]].tuple = Own(c) /\ redis'[Legacy[Own(c)]].tuple = Own(c))
         /\ \/ /\ GuardedSet(c)
               /\ Visible(Own(c))' = [tuple |-> Own(c), version |-> call[c].expected + 1,
                                      data |-> c]
            \/ /\ GuardedDelete(c)
               /\ Visible(Own(c))' = Nil
<1>. DEFINE T == Own(c)
<1>0. T \in Tuple /\ TypeOK /\ Nil.tuple # T /\ redis \in [Key -> Record \cup {Nil, Junk}]
  BY NoTupleAssumption DEF IInv, TypeOK, Own, Call, Nil
<1>1. ~Taken(T) /\ Current(T).version = call[c].expected
  BY <1>0, GuardedSetFacts, GuardedDeleteFacts
<1>2. /\ Current(T) = Visible(T)
      /\ V2[T] \in Key /\ Legacy[T] \in Key /\ V2[T] # Legacy[T]
      /\ redis[V2[T]] = Nil \/ redis[V2[T]].tuple = T
      /\ Current(T) # Nil => redis[SourceKey(T)].tuple = T
  BY <1>0, <1>1, CurrentFacts
<1>3. \/ redis[V2[T]] = Nil /\ SourceKey(T) = Legacy[T]
      \/ /\ redis[V2[T]].tuple = T /\ SourceKey(T) = V2[T]
         /\ redis[Legacy[T]].tuple # T
  BY <1>0, <1>2 DEF SourceKey, OneCopy
<1>4. Current(T) = Nil => redis[Legacy[T]].tuple # T
  BY <1>0, <1>2, <1>3 DEF Current, Mine
<1>5. CASE GuardedSet(c)
  <2>. DEFINE New == [tuple |-> T, version |-> Current(T).version + 1, data |-> c]
  <2>1. redis' = [i \in Key |->
          IF i = V2[T] THEN New
          ELSE IF i = SourceKey(T) /\ Current(T) # Nil THEN Nil ELSE redis[i]]
    BY <1>0, <1>5, GuardedSetFacts
  <2>2. redis'[V2[T]] = New /\ New.tuple = T
    BY <1>2, <2>1
  <2>3. redis'[Legacy[T]].tuple # T
    BY <1>0, <1>2, <1>3, <1>4, <2>1
  <2>4. T' = T
    BY DEF Own
  <2>. QED
    BY <1>1, <1>2, <1>5, <2>2, <2>3, <2>4 DEF Visible, Mine
<1>6. CASE GuardedDelete(c)
  <2>1. redis' = [redis EXCEPT ![SourceKey(T)] = Nil]
    BY <1>0, <1>6, GuardedDeleteFacts
  <2>2. redis'[V2[T]].tuple # T
    BY <1>0, <1>2, <1>3, <2>1
  <2>3. redis'[Legacy[T]].tuple # T
    BY <1>0, <1>2, <1>3, <1>4, <2>1
  <2>4. T' = T
    BY DEF Own
  <2>. QED
    BY <1>1, <1>2, <1>6, <2>2, <2>3, <2>4 DEF Visible, Mine
<1>. QED
  BY <1>5, <1>6

(* A record that starts with one copy never has two.                       *)
LEMMA OneCopyNext ==
  ASSUME GuardedOnly, IInv, OneCopy, [Next]_vars
  PROVE  OneCopy'
<1>1. CASE UNCHANGED vars
  BY <1>1 DEF OneCopy, vars
<1>2. CASE Next
  <2>1. PICK c \in Client : (Begin(c) \/ Command(c)) /\ call' = call
    BY <1>2 DEF Next
  <2>2. ASSUME NEW x \in Tuple
        PROVE  ~(redis'[V2[x]].tuple = x /\ redis'[Legacy[x]].tuple = x)
    <3>0. V2[x] \in Key /\ Legacy[x] \in Key
      BY KeysAssumption
    <3>1. CASE redis' = redis
      BY <3>1 DEF OneCopy
    <3>2. CASE x # Own(c)
      BY <2>1, <3>0, <3>2, OthersUnseen DEF OneCopy
    <3>3. CASE x = Own(c) /\ redis' # redis
      BY <2>1, <3>3, OnlyScripts, OwnSeen
    <3>. QED
      BY <3>1, <3>2, <3>3
  <2>. QED
    BY <2>2 DEF OneCopy
<1>. QED
  BY <1>1, <1>2

LEMMA OneCopyInductive ==
  ASSUME GuardedOnly, Duplicates = FALSE
  PROVE  Spec => [](IInv /\ OneCopy)
<1>1. Init => OneCopy
  BY DEF Init
<1>2. IInv /\ OneCopy /\ [Next]_vars => OneCopy'
  BY OneCopyNext
<1>. QED
  BY <1>1, <1>2, Inductive, PTL DEF Spec

(* With guarded calls only, no record that started with one copy ever has  *)
(* two: no old state of it can come back.                                  *)
THEOREM OneCopyCorrect ==
  ASSUME GuardedOnly, Duplicates = FALSE
  PROVE  Spec => []OneCopyKept
<1>1. IInv /\ OneCopy => OneCopyKept
  BY DEF OneCopyKept
<1>. QED
  BY <1>1, OneCopyInductive, PTL

----------------------------------------------------------------------------
LEMMA StoreInit == ASSUME Init PROVE Store!Init
<1>. DEFINE Rec == [tuple : Tuple, version : {1}, data : {Old}]
<1>1. ASSUME NEW x \in Tuple PROVE Visible(x) \in {Nil} \cup Rec
  <2>1. \A k \in Key : redis[k] \in {Nil, Junk} \cup Rec
    BY DEF Init
  <2>2. \A k \in Key : redis[k].tuple = x => redis[k] \in Rec
    BY <2>1, NoTupleAssumption DEF Nil, Junk
  <2>3. V2[x] \in Key /\ Legacy[x] \in Key
    BY KeysAssumption
  <2>. QED
    BY <2>2, <2>3 DEF Visible, Mine
<1>. QED
  BY <1>1 DEF Store!Init, Store!Nil, Nil, Table

LEMMA StoreStep ==
  ASSUME GuardedOnly, IInv, OneCopy, [Next]_vars
  PROVE  [Store!Next]_Table
<1>. USE DEF Table
<1>1. CASE UNCHANGED vars
  <2>1. \A x \in Tuple : Visible(x)' = Visible(x)
    BY <1>1 DEF vars, Visible
  <2>. QED
    BY <2>1
<1>2. CASE Next
  <2>1. PICK c \in Client : (Begin(c) \/ Command(c)) /\ call' = call
    BY <1>2 DEF Next
  <2>2. CASE redis' = redis
    <3>1. \A x \in Tuple : Visible(x)' = Visible(x)
      BY <2>2 DEF Visible
    <3>. QED
      BY <3>1
  <2>3. CASE redis' # redis
    <3>1. PICK x \in Tuple, n \in Expected : x = Own(c) /\ n = call[c].expected
      BY DEF IInv, TypeOK, Own, Call
    <3>2. \A y \in Tuple : y # x => Visible(y)' = Visible(y)
      BY <2>1, <3>1, OthersUnseen
    <3>3. GuardedSet(c) \/ GuardedDelete(c)
      BY <2>1, <2>3, OnlyScripts
    <3>4. Own(c)' = x
      BY <2>1, <3>1 DEF Own
    <3>5. /\ Visible(x).version = n
          /\ \/ Visible(x)' = [tuple |-> x, version |-> n + 1, data |-> c]
             \/ Visible(x)' = Nil
      BY <2>1, <2>3, <3>1, <3>3, <3>4, OwnSeen DEF Visible
    <3>6. Table[x].version = n
      BY <3>5
    <3>7. CASE Visible(x)' = [tuple |-> x, version |-> n + 1, data |-> c]
      <4>1. Table' = [Table EXCEPT ![x] = [tuple |-> x, version |-> n + 1, data |-> c]]
        BY <3>2, <3>7
      <4>2. Store!Write(x, n, c)
        BY <3>6, <4>1 DEF Store!Write
      <4>. QED
        BY <4>2 DEF Store!Next
    <3>8. CASE Visible(x)' = Nil
      <4>1. Table' = [Table EXCEPT ![x] = Nil]
        BY <3>2, <3>8
      <4>2. Store!Delete(x, n)
        BY <3>6, <4>1 DEF Store!Delete, Store!Nil, Nil
      <4>. QED
        BY <4>2 DEF Store!Next
    <3>. QED
      BY <3>5, <3>7, <3>8
  <2>. QED
    BY <2>2, <2>3
<1>. QED
  BY <1>1, <1>2

(* With guarded calls only, the two-key store implements one versioned     *)
(* record per tuple.                                                       *)
THEOREM Refinement ==
  ASSUME GuardedOnly, Duplicates = FALSE
  PROVE  Spec => ImplementsVersionedStore
<1>1. Init => Store!Init
  BY StoreInit
<1>2. IInv /\ OneCopy /\ [Next]_vars => [Store!Next]_Table
  BY StoreStep
<1>. QED
  BY <1>1, <1>2, OneCopyInductive, PTL DEF Spec, ImplementsVersionedStore, Store!Spec
=============================================================================
