------------------------- MODULE ProviderStreamsProofs -------------------------
(***************************************************************************)
(* Theorems about ProviderStreams for answers of any number of parts, cut  *)
(* into any number of events, of each of the three providers: what is      *)
(* recorded, what the consumer sees, and that both agree with the answer.  *)
(*                                                                         *)
(* First the sequences: sets of numbers in their order, joined pieces, the *)
(* fold of the consumer's loop.  Then what an answer is, and what each     *)
(* provider's events have told of it.  Then the invariant: the assembler   *)
(* holds what the events told, the chunks say the same, and the turn is    *)
(* what the chunks say; and one lemma for each handler.                    *)
(***************************************************************************)
EXTENDS ProviderStreams, FiniteSetTheorems, SequenceTheorems, NaturalsInduction,
        WellFoundedInduction, TLAPS

-----------------------------------------------------------------------------
(* Induction, and finite sets of numbers in their order.                   *)

(* Induction on the natural numbers, for a set instead of a predicate.     *)
LEMMA NatSetInduction ==
    ASSUME NEW T, 0 \in T, \A n \in Nat : n \in T => n + 1 \in T
    PROVE  Nat \subseteq T
<1>. DEFINE Out == Nat \ T
<1>1. SUFFICES ASSUME Out # {} PROVE FALSE
  OBVIOUS
<1>2. PICK n \in Out : \A m \in Out : <<m, n>> \notin OpToRel(<, Nat)
  BY <1>1, NatLessThanWellFounded, WFMin
<1>3. n # 0 /\ n \in Nat
  OBVIOUS
<1>4. n - 1 \in Nat /\ n - 1 < n
  BY <1>3
<1>5. <<n - 1, n>> \in OpToRel(<, Nat)
  BY <1>3, <1>4 DEF OpToRel
<1>6. n - 1 \in T
  BY <1>2, <1>4, <1>5
<1>. QED
  BY <1>3, <1>4, <1>6

(* The place of a number in a set, counted from the smallest.              *)
UpTo(S, x) == {y \in S : y <= x}
Rank(S, x) == Cardinality(UpTo(S, x))

LEMMA RankProperties ==
    ASSUME NEW S \in SUBSET Nat, IsFiniteSet(S)
    PROVE  /\ \A x \in S : Rank(S, x) \in 1..Cardinality(S)
           /\ \A x, y \in S : x < y <=> Rank(S, x) < Rank(S, y)
           /\ \A x, y \in S : Rank(S, x) = Rank(S, y) => x = y
<1>1. ASSUME NEW x \in S
      PROVE  /\ IsFiniteSet(UpTo(S, x)) /\ Rank(S, x) \in Nat
             /\ Rank(S, x) <= Cardinality(S) /\ Rank(S, x) # 0
             /\ Cardinality(S) \in Nat
  <2>1. UpTo(S, x) \in SUBSET S /\ x \in UpTo(S, x)
    BY DEF UpTo
  <2>2. IsFiniteSet(UpTo(S, x)) /\ Cardinality(UpTo(S, x)) <= Cardinality(S)
    BY <2>1, FS_Subset
  <2>3. Cardinality(S) \in Nat /\ Cardinality(UpTo(S, x)) \in Nat
    BY <2>2, FS_CardinalityType
  <2>4. Cardinality(UpTo(S, x)) # 0
    BY <2>1, <2>2, FS_EmptySet
  <2>. QED
    BY <2>2, <2>3, <2>4 DEF Rank
<1>2. ASSUME NEW x \in S, NEW y \in S, x < y
      PROVE  Rank(S, x) < Rank(S, y)
  <2>1. UpTo(S, x) \in SUBSET UpTo(S, y)
    <3>1. x \in Nat /\ y \in Nat /\ \A z \in S : z \in Nat
      OBVIOUS
    <3>2. \A z \in S : z <= x => z <= y
      BY <1>2, <3>1
    <3>. QED
      BY <3>2 DEF UpTo
  <2>2. y \in UpTo(S, y) /\ y \notin UpTo(S, x)
    BY <1>2 DEF UpTo
  <2>3. UpTo(S, x) # UpTo(S, y)
    BY <2>2
  <2>4. /\ Cardinality(UpTo(S, x)) <= Cardinality(UpTo(S, y))
        /\ Cardinality(UpTo(S, x)) # Cardinality(UpTo(S, y))
    BY <1>1, <2>1, <2>3, FS_Subset
  <2>. QED
    BY <1>1, <2>4 DEF Rank
<1>3. \A x \in S : Rank(S, x) \in 1..Cardinality(S)
  BY <1>1
<1>4. \A x, y \in S : x < y => Rank(S, x) < Rank(S, y)
  BY <1>2
<1>5. \A x, y \in S : Rank(S, x) = Rank(S, y) => x = y
  <2>1. \A x, y \in S : x < y \/ y < x \/ x = y
    OBVIOUS
  <2>. QED
    BY <1>1, <1>4, <2>1
<1>6. \A x, y \in S : x < y <=> Rank(S, x) < Rank(S, y)
  <2>1. \A x, y \in S : x < y \/ y < x \/ x = y
    OBVIOUS
  <2>. QED
    BY <1>1, <1>4, <2>1
<1>. QED
  BY <1>3, <1>5, <1>6

(* Every place of a finite set of numbers is taken.                        *)
LEMMA RanksTaken ==
    ASSUME NEW S \in SUBSET Nat, IsFiniteSet(S), NEW n \in 1..Cardinality(S)
    PROVE  \E x \in S : Rank(S, x) = n
<1>1. Cardinality(S) \in Nat
  BY FS_CardinalityType
<1>. DEFINE f == [x \in S |-> Rank(S, x)]
<1>2. f \in Injection(S, 1..Cardinality(S))
  BY RankProperties DEF Injection, IsInjective
<1>3. IsFiniteSet(1..Cardinality(S)) /\ Cardinality(1..Cardinality(S)) = Cardinality(S)
  BY <1>1, FS_Interval
<1>4. f \in Surjection(S, 1..Cardinality(S))
  BY <1>2, <1>3, FS_Injection
<1>. QED
  BY <1>4 DEF Surjection

(* InOrder enumerates a finite set of numbers, the smallest first.         *)
LEMMA InOrderEnumerates ==
    ASSUME NEW S \in SUBSET Nat, IsFiniteSet(S)
    PROVE  /\ InOrder(S) \in [1..Cardinality(S) -> S]
           /\ Cardinality(S) \in Nat /\ InOrder(S) \in Seq(S) /\ Len(InOrder(S)) = Cardinality(S)
           /\ \A i, j \in 1..Cardinality(S) : i < j => InOrder(S)[i] < InOrder(S)[j]
           /\ \A x \in S : \E n \in 1..Cardinality(S) : InOrder(S)[n] = x
<1>1. \A n \in 1..Cardinality(S) : InOrder(S)[n] \in S /\ Rank(S, InOrder(S)[n]) = n
  <2>. SUFFICES ASSUME NEW n \in 1..Cardinality(S)
                PROVE  InOrder(S)[n] \in S /\ Rank(S, InOrder(S)[n]) = n
    OBVIOUS
  <2>1. \E x \in S : Cardinality({y \in S : y <= x}) = n
    BY RanksTaken DEF Rank, UpTo
  <2>2. InOrder(S)[n] = CHOOSE x \in S : Cardinality({y \in S : y <= x}) = n
    BY DEF InOrder
  <2>3. InOrder(S)[n] \in S /\ Cardinality({y \in S : y <= InOrder(S)[n]}) = n
    BY <2>1, <2>2
  <2>. QED
    BY <2>3 DEF Rank, UpTo
<1>2. Cardinality(S) \in Nat
  BY FS_CardinalityType
<1>3. InOrder(S) \in [1..Cardinality(S) -> S]
  BY <1>1 DEF InOrder
<1>4. \A x, y \in S : x < y <=> Rank(S, x) < Rank(S, y)
  BY RankProperties
<1>5. \A x, y \in S : Rank(S, x) = Rank(S, y) => x = y
  BY RankProperties
<1>6. \A x \in S : Rank(S, x) \in 1..Cardinality(S)
  BY RankProperties
<1>7. \A i, j \in 1..Cardinality(S) : i < j => InOrder(S)[i] < InOrder(S)[j]
  BY <1>1, <1>2, <1>4
<1>8. \A x \in S : \E n \in 1..Cardinality(S) : InOrder(S)[n] = x
  BY <1>1, <1>5, <1>6
<1>. QED
  BY <1>2, <1>3, <1>7, <1>8

(* A sequence in the order of a relation is known by its elements.         *)
Ordered(q, R) == \A i, j \in 1..Len(q) : i < j => <<q[i], q[j]>> \in R
Elements(q) == {q[i] : i \in 1..Len(q)}

LEMMA OrderedPrefix ==
    ASSUME NEW T, NEW R, \A x, y \in T : <<x, y>> \in R => <<y, x>> \notin R,
           NEW q \in Seq(T), NEW r \in Seq(T), Ordered(q, R), Ordered(r, R),
           Elements(q) = Elements(r)
    PROVE  \A i \in 1..Len(q) : i \in 1..Len(r) /\ r[i] = q[i]
<1>. DEFINE G == {n \in Nat : \A i \in 1..Len(q) : i <= n => i \in 1..Len(r) /\ r[i] = q[i]}
<1>1. 0 \in G
  OBVIOUS
<1>2. ASSUME NEW n \in Nat, n \in G PROVE n + 1 \in G
  <2>. SUFFICES ASSUME n + 1 \in 1..Len(q) PROVE n + 1 \in 1..Len(r) /\ r[n + 1] = q[n + 1]
    BY <1>2
  <2>0. \A i \in 1..n : i \in 1..Len(q) /\ i \in 1..Len(r) /\ r[i] = q[i]
    BY <1>2
  <2>1. PICK h \in 1..Len(r) : r[h] = q[n + 1]
    <3>1. q[n + 1] \in Elements(r)
      BY DEF Elements
    <3>. QED
      BY <3>1 DEF Elements
  <2>2. ~(h <= n)
    <3>. SUFFICES ASSUME h <= n PROVE FALSE
      OBVIOUS
    <3>1. h \in 1..n /\ h \in 1..Len(q) /\ h < n + 1
      OBVIOUS
    <3>2. r[h] = q[h] /\ <<q[h], q[n + 1]>> \in R
      BY <2>0, <3>1 DEF Ordered
    <3>3. q[h] \in T /\ q[n + 1] = q[h]
      BY <2>1, <3>1, <3>2, ElementOfSeq
    <3>. QED
      BY <3>2, <3>3
  <2>3. n + 1 \in 1..Len(r)
    BY <2>2
  <2>4. h = n + 1
    <3>. SUFFICES ASSUME h # n + 1 PROVE FALSE
      OBVIOUS
    <3>1. PICK g \in 1..Len(q) : q[g] = r[n + 1]
      <4>1. r[n + 1] \in Elements(q)
        BY <2>3 DEF Elements
      <4>. QED
        BY <4>1 DEF Elements
    <3>2. n + 1 < h
      BY <2>2
    <3>3. <<r[n + 1], r[h]>> \in R
      BY <2>3, <3>2 DEF Ordered
    <3>4. r[n + 1] \in T /\ r[h] \in T
      BY <2>3, ElementOfSeq
    <3>5. ~(g <= n)
      <4>. SUFFICES ASSUME g <= n PROVE FALSE
        OBVIOUS
      <4>1. g \in 1..n /\ g \in 1..Len(r) /\ g < n + 1 /\ r[g] = q[g]
        BY <2>0
      <4>2. <<r[g], r[n + 1]>> \in R
        BY <2>3, <4>1 DEF Ordered
      <4>. QED
        BY <3>1, <3>4, <4>1, <4>2
    <3>6. g # n + 1
      BY <2>1, <3>1, <3>3, <3>4
    <3>7. n + 1 < g
      BY <3>5, <3>6
    <3>8. <<q[n + 1], q[g]>> \in R
      BY <3>7 DEF Ordered
    <3>. QED
      BY <2>1, <3>1, <3>3, <3>4, <3>8
  <2>. QED
    BY <2>1, <2>3, <2>4
<1>. HIDE DEF G
<1>3. Nat \subseteq G
  BY <1>1, <1>2, NatSetInduction
<1>4. Len(q) \in G
  BY <1>3
<1>. QED
  BY <1>4 DEF G

LEMMA OrderedUnique ==
    ASSUME NEW T, NEW R, \A x, y \in T : <<x, y>> \in R => <<y, x>> \notin R,
           NEW q \in Seq(T), NEW r \in Seq(T), Ordered(q, R), Ordered(r, R),
           Elements(q) = Elements(r)
    PROVE  q = r
<1>1. \A i \in 1..Len(q) : i \in 1..Len(r) /\ r[i] = q[i]
  BY OrderedPrefix
<1>2. \A i \in 1..Len(r) : i \in 1..Len(q) /\ q[i] = r[i]
  BY OrderedPrefix
<1>3. Len(q) = Len(r)
  BY <1>1, <1>2
<1>. QED
  BY <1>1, <1>3, SeqEqual

(* So InOrder is the one increasing enumeration.                           *)
Less == {p \in Nat \X Nat : p[1] < p[2]}

LEMMA LessThan == \A x, y \in Nat : <<x, y>> \in Less <=> x < y
BY DEF Less

LEMMA InOrderIsOrdered ==
    ASSUME NEW S \in SUBSET Nat, IsFiniteSet(S)
    PROVE  InOrder(S) \in Seq(Nat) /\ Ordered(InOrder(S), Less) /\ Elements(InOrder(S)) = S
<1>. DEFINE q == InOrder(S)
            n == Cardinality(S)
<1>1. /\ q \in [1..n -> S] /\ n \in Nat /\ q \in Seq(S) /\ Len(q) = n
      /\ \A i, j \in 1..n : i < j => q[i] < q[j]
      /\ \A x \in S : \E i \in 1..n : q[i] = x
  BY InOrderEnumerates
<1>. HIDE DEF q, n
<1>2. q \in Seq(Nat)
  BY <1>1, SeqMonotonic
<1>3. Ordered(q, Less)
  <2>. SUFFICES ASSUME NEW i \in 1..Len(q), NEW j \in 1..Len(q), i < j
                PROVE  <<q[i], q[j]>> \in Less
    BY DEF Ordered
  <2>1. q[i] \in Nat /\ q[j] \in Nat /\ q[i] < q[j]
    BY <1>1
  <2>. QED
    BY <2>1, LessThan
<1>4. Elements(q) = S
  BY <1>1 DEF Elements
<1>. QED
  BY <1>2, <1>3, <1>4 DEF q

LEMMA InOrderUnique ==
    ASSUME NEW q \in Seq(Nat), Ordered(q, Less), NEW S \in SUBSET Nat, IsFiniteSet(S), Elements(q) = S
    PROVE  q = InOrder(S)
<1>1. \A x, y \in Nat : <<x, y>> \in Less => <<y, x>> \notin Less
  BY LessThan
<1>. QED
  BY <1>1, InOrderIsOrdered, OrderedUnique

(* Appending an element that comes after all the others.                   *)
LEMMA OrderedAppend ==
    ASSUME NEW T, NEW R, NEW q \in Seq(T), Ordered(q, R), NEW x \in T,
           \A i \in 1..Len(q) : <<q[i], x>> \in R
    PROVE  /\ Append(q, x) \in Seq(T) /\ Ordered(Append(q, x), R)
           /\ Elements(Append(q, x)) = Elements(q) \cup {x}
<1>. DEFINE r == Append(q, x)
<1>1. r \in Seq(T) /\ Len(r) = Len(q) + 1 /\ r[Len(q) + 1] = x /\ \A i \in 1..Len(q) : r[i] = q[i]
  OBVIOUS
<1>2. Len(q) \in Nat
  OBVIOUS
<1>. HIDE DEF r
<1>3. Ordered(r, R)
  <2>. SUFFICES ASSUME NEW i \in 1..Len(r), NEW j \in 1..Len(r), i < j
                PROVE  <<r[i], r[j]>> \in R
    BY DEF Ordered
  <2>1. i \in 1..Len(q)
    BY <1>1, <1>2
  <2>2. CASE j \in 1..Len(q)
    BY <1>1, <2>1, <2>2 DEF Ordered
  <2>3. CASE j = Len(q) + 1
    BY <1>1, <2>1, <2>3
  <2>. QED
    BY <1>1, <1>2, <2>2, <2>3
<1>4. Elements(r) = Elements(q) \cup {x}
  <2>1. \A i \in 1..Len(r) : i \in 1..Len(q) \/ i = Len(q) + 1
    BY <1>1, <1>2
  <2>2. \A i \in 1..Len(q) : i \in 1..Len(r)
    BY <1>1, <1>2
  <2>3. Len(q) + 1 \in 1..Len(r)
    BY <1>1, <1>2
  <2>. QED
    BY <1>1, <2>1, <2>2, <2>3 DEF Elements
<1>. QED
  BY <1>1, <1>3, <1>4 DEF r

LEMMA InOrderAppend ==
    ASSUME NEW S \in SUBSET Nat, IsFiniteSet(S), NEW m \in Nat, \A x \in S : x < m
    PROVE  InOrder(S \cup {m}) = Append(InOrder(S), m)
<1>1. InOrder(S) \in Seq(Nat) /\ Ordered(InOrder(S), Less) /\ Elements(InOrder(S)) = S
  BY InOrderIsOrdered
<1>2. \A i \in 1..Len(InOrder(S)) : <<InOrder(S)[i], m>> \in Less
  BY <1>1, LessThan DEF Elements
<1>3. /\ Append(InOrder(S), m) \in Seq(Nat) /\ Ordered(Append(InOrder(S), m), Less)
      /\ Elements(Append(InOrder(S), m)) = S \cup {m}
  BY <1>1, <1>2, OrderedAppend
<1>4. IsFiniteSet(S \cup {m}) /\ S \cup {m} \in SUBSET Nat
  BY FS_AddElement
<1>. QED
  BY <1>3, <1>4, InOrderUnique

-----------------------------------------------------------------------------
(* Joined sequences.                                                       *)

(* The equation of FlattenSeq, one more sequence at a time.                *)
Both(u, v) == u \o v
Flattens(f, s, n) == f = [i \in 1..n |-> IF i = 1 THEN s[i] ELSE Both(f[i - 1], s[i])]

LEMMA FlattensAt ==
    ASSUME NEW f, NEW s, NEW n \in Nat, Flattens(f, s, n)
    PROVE  /\ n # 0 => f[1] = s[1]
           /\ \A i \in 1..n : i # 1 => f[i] = Both(f[i - 1], s[i])
BY DEF Flattens

LEMMA FlattensExists == ASSUME NEW s, NEW n \in Nat PROVE \E f : Flattens(f, s, n)
<1>. DEFINE G == {m \in Nat : \E f : Flattens(f, s, m)}
<1>1. 0 \in G
  <2>1. Flattens([i \in 1..0 |-> s[i]], s, 0)
    BY DEF Flattens
  <2>. QED
    BY <2>1
<1>2. ASSUME NEW m \in Nat, m \in G PROVE m + 1 \in G
  <2>1. PICK f : Flattens(f, s, m)
    BY <1>2
  <2>. DEFINE g == [i \in 1..m + 1 |-> IF i = m + 1 THEN (IF i = 1 THEN s[i] ELSE Both(f[m], s[i])) ELSE f[i]]
              h == [i \in 1..m + 1 |-> IF i = 1 THEN s[i] ELSE Both(g[i - 1], s[i])]
  <2>2. ASSUME NEW i \in 1..m + 1 PROVE g[i] = h[i]
    <3>1. CASE i = m + 1
      <4>1. i # 1 => g[i - 1] = f[m]
        BY <3>1
      <4>. QED
        BY <3>1, <4>1
    <3>2. CASE i \in 1..m
      <4>1. g[i] = f[i] /\ (i # 1 => i - 1 \in 1..m /\ g[i - 1] = f[i - 1])
        BY <3>2
      <4>2. f[i] = IF i = 1 THEN s[i] ELSE Both(f[i - 1], s[i])
        BY <2>1, <3>2 DEF Flattens
      <4>. QED
        BY <4>1, <4>2
    <3>. QED
      BY <3>1, <3>2
  <2>3. g = h
    <3>1. g = [i \in 1..m + 1 |-> g[i]] /\ h = [i \in 1..m + 1 |-> h[i]]
      OBVIOUS
    <3>. HIDE DEF g, h
    <3>. QED
      BY <2>2, <3>1
  <2>4. Flattens(g, s, m + 1)
    <3>. HIDE DEF g
    <3>. QED
      BY <2>3 DEF Flattens
  <2>. QED
    BY <2>4
<1>. HIDE DEF G
<1>3. n \in G
  BY <1>1, <1>2, NatSetInduction
<1>. QED
  BY <1>3 DEF G

LEMMA FlattenIs ==
    ASSUME NEW s, Len(s) \in Nat, Len(s) # 0
    PROVE  \E f : Flattens(f, s, Len(s)) /\ FlattenSeq(s) = f[Len(s)]
<1>1. \E f : Flattens(f, s, Len(s))
  BY FlattensExists
<1>. QED
  BY <1>1 DEF FlattenSeq, Flattens, Both

LEMMA FlattenEmpty == FlattenSeq(<<>>) = <<>>
BY DEF FlattenSeq

LEMMA FlattenAppend ==
    ASSUME NEW T, NEW s \in Seq(Seq(T)), NEW x \in Seq(T)
    PROVE  /\ FlattenSeq(s) \in Seq(T)
           /\ FlattenSeq(Append(s, x)) = FlattenSeq(s) \o x
<1>. DEFINE r == Append(s, x)
            n == Len(s)
<1>1. r \in Seq(Seq(T)) /\ Len(r) = n + 1 /\ r[n + 1] = x /\ \A i \in 1..n : r[i] = s[i]
  OBVIOUS
<1>2. n \in Nat /\ \A i \in 1..n : s[i] \in Seq(T)
  OBVIOUS
<1>. HIDE DEF r
<1>. HIDE DEF n
<1>3. PICK g : Flattens(g, r, n + 1) /\ FlattenSeq(r) = g[n + 1]
  <2>1. Len(r) \in Nat /\ Len(r) # 0
    BY <1>1, <1>2
  <2>. QED
    BY <1>1, <2>1, FlattenIs
<1>6. g[1] = r[1] /\ \A i \in 1..n + 1 : i # 1 => g[i] = Both(g[i - 1], r[i])
  BY <1>2, <1>3, FlattensAt
<1>4. CASE n = 0
  <2>1. s = <<>>
    BY <1>4, EmptySeq DEF n
  <2>2. FlattenSeq(s) = <<>>
    BY <2>1, FlattenEmpty
  <2>3. g[1] = x
    BY <1>1, <1>4, <1>6
  <2>. QED
    BY <1>3, <1>4, <2>2, <2>3 DEF r
<1>5. CASE n # 0
  <2>1. PICK f : Flattens(f, s, n) /\ FlattenSeq(s) = f[n]
    BY <1>2, <1>5, FlattenIs DEF n
  <2>0. f[1] = s[1] /\ \A i \in 1..n : i # 1 => f[i] = Both(f[i - 1], s[i])
    BY <1>2, <1>5, <2>1, FlattensAt
  <2>. DEFINE G == {m \in Nat : m \in 1..n => f[m] = g[m] /\ f[m] \in Seq(T)}
  <2>2. 0 \in G
    OBVIOUS
  <2>3. ASSUME NEW m \in Nat, m \in G PROVE m + 1 \in G
    <3>. SUFFICES ASSUME m + 1 \in 1..n PROVE f[m + 1] = g[m + 1] /\ f[m + 1] \in Seq(T)
      OBVIOUS
    <3>1. r[m + 1] = s[m + 1] /\ s[m + 1] \in Seq(T) /\ m + 1 \in 1..n + 1 /\ m + 1 - 1 = m
      BY <1>1, <1>2
    <3>2. CASE m = 0
      BY <1>6, <2>0, <3>1, <3>2
    <3>3. CASE m # 0
      <4>1. f[m] = g[m] /\ f[m] \in Seq(T) /\ m + 1 # 1
        BY <1>2, <2>3, <3>3
      <4>2. f[m + 1] = Both(f[m], s[m + 1])
        BY <1>2, <2>0, <3>1, <4>1
      <4>3. g[m + 1] = Both(g[m], s[m + 1])
        BY <1>2, <1>6, <3>1, <4>1
      <4>4. Both(f[m], s[m + 1]) \in Seq(T)
        BY <3>1, <4>1, ConcatProperties DEF Both
      <4>. QED
        BY <4>1, <4>2, <4>3, <4>4
    <3>. QED
      BY <3>2, <3>3
  <2>. HIDE DEF G
  <2>4. n \in G
    BY <1>2, <2>2, <2>3, NatSetInduction
  <2>5. f[n] = g[n] /\ f[n] \in Seq(T)
    BY <1>2, <1>5, <2>4 DEF G
  <2>6. g[n + 1] = Both(g[n], x)
    <3>1. n + 1 \in 1..n + 1 /\ n + 1 # 1 /\ n + 1 - 1 = n
      BY <1>2, <1>5
    <3>. QED
      BY <1>1, <1>2, <1>6, <3>1
  <2>. QED
    BY <1>3, <2>1, <2>5, <2>6 DEF r, Both
<1>. QED
  BY <1>4, <1>5

-----------------------------------------------------------------------------
(* Collected chunks, one more at a time.                                   *)

Collects(f, t, cs, n) == f = [i \in 0..n |-> IF i = 0 THEN t ELSE Collected(f[i - 1], cs[i])]

LEMMA CollectsAt ==
    ASSUME NEW f, NEW t, NEW cs, NEW n \in Nat, Collects(f, t, cs, n)
    PROVE  f[0] = t /\ \A i \in 1..n : f[i] = Collected(f[i - 1], cs[i])
BY DEF Collects

LEMMA CollectsExists == ASSUME NEW t, NEW cs, NEW n \in Nat PROVE \E f : Collects(f, t, cs, n)
<1>. DEFINE G == {m \in Nat : \E f : Collects(f, t, cs, m)}
<1>1. 0 \in G
  <2>. DEFINE g == [i \in 0..0 |-> t]
              h == [i \in 0..0 |-> IF i = 0 THEN t ELSE Collected(g[i - 1], cs[i])]
  <2>1. g = h
    OBVIOUS
  <2>2. Collects(g, t, cs, 0)
    <3>. HIDE DEF g
    <3>. QED
      BY <2>1 DEF Collects
  <2>. QED
    BY <2>2
<1>2. ASSUME NEW m \in Nat, m \in G PROVE m + 1 \in G
  <2>1. PICK f : Collects(f, t, cs, m)
    BY <1>2
  <2>. DEFINE g == [i \in 0..m + 1 |-> IF i = m + 1 THEN Collected(f[m], cs[m + 1]) ELSE f[i]]
              h == [i \in 0..m + 1 |-> IF i = 0 THEN t ELSE Collected(g[i - 1], cs[i])]
  <2>2. ASSUME NEW i \in 0..m + 1 PROVE g[i] = h[i]
    <3>1. CASE i = m + 1
      <4>1. i # 0 /\ i - 1 \in 0..m + 1 /\ i - 1 # m + 1 /\ i - 1 = m
        BY <3>1
      <4>2. g[i - 1] = f[m]
        BY <4>1
      <4>. QED
        BY <3>1, <4>1, <4>2
    <3>2. CASE i \in 0..m
      <4>1. g[i] = f[i] /\ (i # 0 => i - 1 \in 0..m /\ g[i - 1] = f[i - 1])
        BY <3>2
      <4>2. f[i] = IF i = 0 THEN t ELSE Collected(f[i - 1], cs[i])
        BY <2>1, <3>2 DEF Collects
      <4>. QED
        BY <4>1, <4>2
    <3>. QED
      BY <3>1, <3>2
  <2>3. g = h
    <3>1. g = [i \in 0..m + 1 |-> g[i]] /\ h = [i \in 0..m + 1 |-> h[i]]
      OBVIOUS
    <3>. HIDE DEF g, h
    <3>. QED
      BY <2>2, <3>1
  <2>4. Collects(g, t, cs, m + 1)
    <3>. HIDE DEF g
    <3>. QED
      BY <2>3 DEF Collects
  <2>. QED
    BY <2>4
<1>. HIDE DEF G
<1>3. n \in G
  BY <1>1, <1>2, NatSetInduction
<1>. QED
  BY <1>3 DEF G

LEMMA CollectedIs ==
    ASSUME NEW t, NEW cs, Len(cs) \in Nat
    PROVE  \E f : Collects(f, t, cs, Len(cs)) /\ CollectedAll(t, cs) = f[Len(cs)]
<1>1. \E f : Collects(f, t, cs, Len(cs))
  BY CollectsExists
<1>. QED
  BY <1>1 DEF CollectedAll, Collects

LEMMA CollectedNothing == ASSUME NEW t PROVE CollectedAll(t, <<>>) = t
<1>1. PICK f : Collects(f, t, <<>>, Len(<<>>)) /\ CollectedAll(t, <<>>) = f[Len(<<>>)]
  BY CollectedIs
<1>. QED
  BY <1>1 DEF Collects

LEMMA CollectedAppend ==
    ASSUME NEW T, NEW t, NEW cs \in Seq(T), NEW c \in T
    PROVE  CollectedAll(t, Append(cs, c)) = Collected(CollectedAll(t, cs), c)
<1>. DEFINE r == Append(cs, c)
            n == Len(cs)
<1>1. Len(r) = n + 1 /\ r[n + 1] = c /\ \A i \in 1..n : r[i] = cs[i]
  OBVIOUS
<1>2. n \in Nat
  OBVIOUS
<1>. HIDE DEF r
<1>3. PICK g : Collects(g, t, r, n + 1) /\ CollectedAll(t, r) = g[n + 1]
  BY <1>1, <1>2, CollectedIs
<1>4. PICK f : Collects(f, t, cs, n) /\ CollectedAll(t, cs) = f[n]
  BY <1>2, CollectedIs
<1>. HIDE DEF n
<1>. DEFINE G == {m \in Nat : m <= n => f[m] = g[m]}
<1>10. f[0] = t /\ \A i \in 1..n : f[i] = Collected(f[i - 1], cs[i])
  BY <1>2, <1>4, CollectsAt
<1>11. g[0] = t /\ \A i \in 1..n + 1 : g[i] = Collected(g[i - 1], r[i])
  BY <1>2, <1>3, CollectsAt
<1>5. 0 \in G
  BY <1>10, <1>11
<1>6. ASSUME NEW m \in Nat, m \in G PROVE m + 1 \in G
  <2>. SUFFICES ASSUME m + 1 <= n PROVE f[m + 1] = g[m + 1]
    OBVIOUS
  <2>1. m + 1 \in 1..n /\ m + 1 \in 1..n + 1 /\ m + 1 - 1 = m /\ m <= n
    BY <1>2
  <2>2. f[m + 1] = Collected(f[m], cs[m + 1])
    BY <1>10, <2>1
  <2>3. g[m + 1] = Collected(g[m], r[m + 1])
    BY <1>11, <2>1
  <2>. QED
    BY <1>1, <1>6, <2>1, <2>2, <2>3
<1>. HIDE DEF G
<1>7. n \in G
  BY <1>2, <1>5, <1>6, NatSetInduction
<1>8. f[n] = g[n]
  BY <1>2, <1>7 DEF G
<1>9. g[n + 1] = Collected(g[n], c)
  <2>1. n + 1 \in 1..n + 1 /\ n + 1 - 1 = n
    BY <1>2
  <2>. QED
    BY <1>1, <1>2, <1>11, <2>1
<1>. QED
  BY <1>3, <1>4, <1>8, <1>9 DEF r

-----------------------------------------------------------------------------
(* What a chunk does to the turn and to what the consumer has seen of each *)
(* call.                                                                   *)

Pieces == Nat \X Nat
Texts == Seq(Pieces)
ToolChunks == {"tool-call-start", "tool-call-delta", "tool-call-arguments"}
OtherChunks == {"text-delta", "reasoning-start", "reasoning-delta", "reasoning-end", "done"}
Ids == ({"call", "item"} \X Nat) \cup (Nat \X Names)
AllNames == Names \cup {"none", "tool", "stop", "length", "tool_call", "content_filter", "error"}
Chunks == [type : ToolChunks, id : Ids, name : AllNames, json : Texts]
            \cup [type : OtherChunks, id : {<<>>}, name : AllNames, json : Texts]
Called == [id : Ids, name : AllNames, args : Texts]
Turns == [text : Texts, calls : Seq(Called), finish : AllNames, valid : BOOLEAN]

AtIn(cs, id, type) == {k \in DOMAIN cs : cs[k].id = id /\ cs[k].type = type}
JoinedIn(cs, ks) == FlattenSeq([j \in DOMAIN InOrder(ks) |-> cs[InOrder(ks)[j]].json])
Deltas(cs, id) == AtIn(cs, id, "tool-call-delta")
Starts(cs, id) == AtIn(cs, id, "tool-call-start")
Ends(cs, id) == AtIn(cs, id, "tool-call-arguments")

(* The three stages of a call: not yet started, started with the given     *)
(* fragments of its arguments, and complete.                               *)
Unseen(t, cs, id) == Pending(t, id) = {} /\ \A k \in 1..Len(cs) : cs[k].id # id
BegunAt(t, cs, id, name, got, k, s) ==
    /\ Pending(t, id) = {k} /\ t.calls[k].name = name /\ t.calls[k].args = Missing
    /\ Starts(cs, id) = {s} /\ cs[s].name = name
    /\ Ends(cs, id) = {}
    /\ \A d \in Deltas(cs, id) : s < d
    /\ JoinedIn(cs, Deltas(cs, id)) = got
Begun(t, cs, id, name, got) ==
    \E k \in 1..Len(t.calls), s \in 1..Len(cs) : BegunAt(t, cs, id, name, got, k, s)
Told(t, id, name, args) ==
    \E k \in 1..Len(t.calls) :
       Pending(t, id) = {k} /\ t.calls[k].name = name /\ t.calls[k].args = args

Lived(cs, a) ==
    LET id == cs[a].id
    IN  /\ Ends(cs, id) = {a}
        /\ \E s \in 1..a - 1 : /\ Starts(cs, id) = {s}
                               /\ cs[s].name = cs[a].name
                               /\ \A d \in Deltas(cs, id) : s < d /\ d < a
        /\ Deltas(cs, id) # {} => JoinedIn(cs, Deltas(cs, id)) = cs[a].json
Lifecycle(cs) == \A a \in 1..Len(cs) : cs[a].type = "tool-call-arguments" => Lived(cs, a)
NotDone(cs) == \A k \in 1..Len(cs) : cs[k].type # "done"

LEMMA ChunkTypes ==
    ASSUME NEW c \in Chunks
    PROVE  /\ c.type \in ToolChunks \cup OtherChunks /\ c.name \in AllNames /\ c.json \in Texts
           /\ c.type \in ToolChunks <=> c.id \in Ids
           /\ c.type \in OtherChunks <=> c.id = <<>>
<1>1. <<>> \notin Ids
  BY DEF Ids
<1>2. ToolChunks \cap OtherChunks = {}
  BY DEF ToolChunks, OtherChunks
<1>. QED
  BY <1>1, <1>2 DEF Chunks

(* Appending a chunk adds its place to one set of places at most.          *)
LEMMA AtAppend ==
    ASSUME NEW cs \in Seq(Chunks), NEW c \in Chunks, NEW id, NEW type
    PROVE  AtIn(Append(cs, c), id, type) =
             IF c.id = id /\ c.type = type THEN AtIn(cs, id, type) \cup {Len(cs) + 1}
             ELSE AtIn(cs, id, type)
<1>. DEFINE r == Append(cs, c)
<1>1. /\ Len(r) = Len(cs) + 1 /\ DOMAIN r = 1..Len(cs) + 1 /\ r[Len(cs) + 1] = c
      /\ \A i \in 1..Len(cs) : r[i] = cs[i]
  OBVIOUS
<1>2. Len(cs) \in Nat /\ DOMAIN cs = 1..Len(cs)
  OBVIOUS
<1>. HIDE DEF r
<1>3. \A k : k \in DOMAIN r <=> k \in DOMAIN cs \/ k = Len(cs) + 1
  BY <1>1, <1>2
<1>4. Len(cs) + 1 \notin DOMAIN cs
  BY <1>2
<1>5. \A k \in DOMAIN cs : r[k] = cs[k]
  BY <1>1, <1>2
<1>. QED
  BY <1>1, <1>3, <1>4, <1>5 DEF AtIn, r

LEMMA JoinedAppend ==
    ASSUME NEW cs \in Seq(Chunks), NEW c \in Chunks, NEW S \in SUBSET (1..Len(cs))
    PROVE  /\ JoinedIn(cs, S) \in Texts
           /\ JoinedIn(Append(cs, c), S) = JoinedIn(cs, S)
           /\ JoinedIn(Append(cs, c), S \cup {Len(cs) + 1}) = JoinedIn(cs, S) \o c.json
<1>. DEFINE r == Append(cs, c)
            is == InOrder(S)
            m == Len(cs) + 1
            q == [j \in DOMAIN is |-> cs[is[j]].json]
<1>1. /\ Len(r) = m /\ r[m] = c /\ \A i \in 1..Len(cs) : r[i] = cs[i]
  OBVIOUS
<1>2. /\ Len(cs) \in Nat /\ m \in Nat /\ \A x \in S : x < m
      /\ S \in SUBSET Nat
  OBVIOUS
<1>3. IsFiniteSet(S)
  <2>1. IsFiniteSet(1..Len(cs))
    BY <1>2, FS_Interval
  <2>. QED
    BY <2>1, FS_Subset
<1>4. is \in Seq(S)
  BY <1>2, <1>3, InOrderEnumerates
<1>5. InOrder(S \cup {m}) = Append(is, m)
  BY <1>2, <1>3, InOrderAppend
<1>. HIDE DEF r, is, m
<1>6. \A i \in 1..Len(cs) : cs[i].json \in Texts
  BY ChunkTypes
<1>7. c.json \in Texts
  BY ChunkTypes
<1>8. DOMAIN is = 1..Len(is) /\ Len(is) \in Nat /\ \A j \in DOMAIN is : is[j] \in S /\ is[j] \in 1..Len(cs)
  <2>1. DOMAIN is = 1..Len(is) /\ Len(is) \in Nat /\ \A j \in DOMAIN is : is[j] \in S
    BY <1>4
  <2>2. \A x \in S : x \in 1..Len(cs)
    OBVIOUS
  <2>. QED
    BY <2>1, <2>2
<1>9. q \in Seq(Texts) /\ Len(q) = Len(is)
  <2>1. q \in [1..Len(is) -> Texts]
    BY <1>6, <1>8
  <2>. QED
    BY <1>8, <2>1
<1>10. [j \in DOMAIN is |-> r[is[j]].json] = q
  BY <1>1, <1>8
<1>11. [j \in DOMAIN Append(is, m) |-> r[Append(is, m)[j]].json] = Append(q, c.json)
  <2>. DEFINE p == [j \in DOMAIN Append(is, m) |-> r[Append(is, m)[j]].json]
  <2>1. /\ DOMAIN Append(is, m) = 1..Len(is) + 1
        /\ \A j \in 1..Len(is) : Append(is, m)[j] = is[j]
        /\ Append(is, m)[Len(is) + 1] = m
    BY <1>4
  <2>2. p \in Seq(Texts) /\ Len(p) = Len(is) + 1
    <3>1. \A j \in 1..Len(is) + 1 : p[j] \in Texts
      <4>. SUFFICES ASSUME NEW j \in 1..Len(is) + 1 PROVE p[j] \in Texts
        OBVIOUS
      <4>1. CASE j \in 1..Len(is)
        BY <1>1, <1>6, <1>8, <2>1, <4>1
      <4>2. CASE j = Len(is) + 1
        BY <1>1, <1>7, <2>1, <4>2
      <4>. QED
        BY <1>8, <4>1, <4>2
    <3>. QED
      BY <1>8, <2>1, <3>1
  <2>3. Append(q, c.json) \in Seq(Texts) /\ Len(Append(q, c.json)) = Len(is) + 1
    BY <1>7, <1>9
  <2>4. \A j \in 1..Len(is) + 1 : p[j] = Append(q, c.json)[j]
    <3>. SUFFICES ASSUME NEW j \in 1..Len(is) + 1 PROVE p[j] = Append(q, c.json)[j]
      OBVIOUS
    <3>1. CASE j \in 1..Len(is)
      <4>1. p[j] = cs[is[j]].json
        BY <1>1, <1>8, <2>1, <3>1
      <4>2. Append(q, c.json)[j] = q[j]
        BY <1>7, <1>9, <3>1
      <4>. QED
        BY <1>8, <3>1, <4>1, <4>2
    <3>2. CASE j = Len(is) + 1
      <4>1. p[j] = c.json
        BY <1>1, <2>1, <3>2
      <4>2. Append(q, c.json)[j] = c.json
        BY <1>7, <1>9, <3>2
      <4>. QED
        BY <4>1, <4>2
    <3>. QED
      BY <1>8, <3>1, <3>2
  <2>. HIDE DEF p
  <2>. QED
    BY <2>2, <2>3, <2>4, SeqEqual DEF p
<1>. HIDE DEF q
<1>12. FlattenSeq(q) \in Texts /\ FlattenSeq(Append(q, c.json)) = FlattenSeq(q) \o c.json
  BY <1>7, <1>9, FlattenAppend DEF Texts
<1>13. JoinedIn(cs, S) = FlattenSeq(q)
  BY DEF JoinedIn, q, is
<1>14. JoinedIn(r, S) = FlattenSeq(q)
  BY <1>10 DEF JoinedIn, is
<1>15. JoinedIn(r, S \cup {m}) = FlattenSeq(Append(q, c.json))
  BY <1>5, <1>11 DEF JoinedIn
<1>. QED
  BY <1>12, <1>13, <1>14, <1>15 DEF r, m


(* The calls of an id are the same in two turns.                           *)
SameCall(t, u, id) ==
    /\ \A k \in 1..Len(t.calls) :
         t.calls[k].id = id => k \in 1..Len(u.calls) /\ u.calls[k] = t.calls[k]
    /\ \A k \in 1..Len(u.calls) : u.calls[k].id = id => k \in 1..Len(t.calls) /\ t.calls[k].id = id

LEMMA CallTypes ==
    ASSUME NEW t \in Turns
    PROVE  /\ t.calls \in Seq(Called) /\ Len(t.calls) \in Nat /\ DOMAIN t.calls = 1..Len(t.calls)
           /\ t.text \in Texts /\ t.finish \in AllNames /\ t.valid \in BOOLEAN
           /\ \A k \in 1..Len(t.calls) :
                /\ t.calls[k] \in Called /\ t.calls[k].id \in Ids /\ t.calls[k].name \in AllNames
                /\ t.calls[k].args \in Texts
<1>1. t.calls \in Seq(Called) /\ t.text \in Texts /\ t.finish \in AllNames /\ t.valid \in BOOLEAN
  BY DEF Turns
<1>2. /\ Len(t.calls) \in Nat /\ DOMAIN t.calls = 1..Len(t.calls)
      /\ \A k \in 1..Len(t.calls) : t.calls[k] \in Called
  BY <1>1
<1>. QED
  BY <1>1, <1>2 DEF Called

(* A chunk of one call leaves the stage of every other call alone.         *)
LEMMA PendingElsewhere ==
    ASSUME NEW t \in Turns, NEW u \in Turns, NEW id, SameCall(t, u, id)
    PROVE  /\ Pending(u, id) = Pending(t, id)
           /\ \A k \in Pending(t, id) :
                /\ k \in 1..Len(t.calls) /\ k \in 1..Len(u.calls)
                /\ u.calls[k] = t.calls[k]
<1>1. DOMAIN t.calls = 1..Len(t.calls) /\ DOMAIN u.calls = 1..Len(u.calls)
  BY CallTypes
<1>2. \A k \in Pending(t, id) : k \in 1..Len(t.calls) /\ t.calls[k].id = id
  BY <1>1 DEF Pending
<1>3. \A k \in Pending(t, id) : k \in 1..Len(u.calls) /\ u.calls[k] = t.calls[k]
  BY <1>2 DEF SameCall
<1>4. \A k \in Pending(t, id) : k \in Pending(u, id)
  BY <1>1, <1>2, <1>3 DEF Pending
<1>5. \A k \in Pending(u, id) : k \in Pending(t, id)
  BY <1>1 DEF Pending, SameCall
<1>. QED
  BY <1>2, <1>3, <1>4, <1>5

LEMMA Elsewhere ==
    ASSUME NEW t \in Turns, NEW u \in Turns, NEW cs \in Seq(Chunks), NEW c \in Chunks,
           NEW id, c.id # id, SameCall(t, u, id)
    PROVE  /\ Unseen(t, cs, id) => Unseen(u, Append(cs, c), id)
           /\ \A name, got : Begun(t, cs, id, name, got) => Begun(u, Append(cs, c), id, name, got)
           /\ \A name, args : Told(t, id, name, args) => Told(u, id, name, args)
<1>. DEFINE r == Append(cs, c)
<1>1. Pending(u, id) = Pending(t, id)
  BY PendingElsewhere
<1>2. \A k \in Pending(t, id) :
        /\ k \in 1..Len(t.calls) /\ k \in 1..Len(u.calls)
        /\ u.calls[k] = t.calls[k]
  BY PendingElsewhere
<1>3. /\ Len(r) = Len(cs) + 1 /\ r[Len(cs) + 1] = c /\ \A i \in 1..Len(cs) : r[i] = cs[i]
      /\ Len(cs) \in Nat
  OBVIOUS
<1>4. \A type : AtIn(r, id, type) = AtIn(cs, id, type)
  BY AtAppend
<1>5. Deltas(cs, id) \in SUBSET (1..Len(cs))
  BY DEF Deltas, AtIn
<1>6. JoinedIn(r, Deltas(cs, id)) = JoinedIn(cs, Deltas(cs, id))
  BY <1>5, JoinedAppend
<1>. HIDE DEF r
<1>7. Unseen(t, cs, id) => Unseen(u, r, id)
  <2>1. \A k \in 1..Len(r) : k \in 1..Len(cs) \/ k = Len(cs) + 1
    BY <1>3
  <2>. QED
    BY <1>1, <1>3, <2>1 DEF Unseen
<1>8. ASSUME NEW name, NEW got, Begun(t, cs, id, name, got)
      PROVE  Begun(u, r, id, name, got)
  <2>1. PICK k \in 1..Len(t.calls), s \in 1..Len(cs) : BegunAt(t, cs, id, name, got, k, s)
    BY <1>8 DEF Begun
  <2>2. k \in Pending(t, id) /\ k \in 1..Len(u.calls) /\ u.calls[k] = t.calls[k]
    BY <1>2, <2>1 DEF BegunAt
  <2>3. s \in 1..Len(r) /\ r[s] = cs[s]
    BY <1>3
  <2>4. BegunAt(u, r, id, name, got, k, s)
    BY <1>1, <1>4, <1>6, <2>1, <2>2, <2>3 DEF BegunAt, Starts, Ends, Deltas
  <2>. QED
    BY <2>2, <2>3, <2>4 DEF Begun
<1>9. ASSUME NEW name, NEW args, Told(t, id, name, args)
      PROVE  Told(u, id, name, args)
  <2>1. PICK k \in 1..Len(t.calls) :
           Pending(t, id) = {k} /\ t.calls[k].name = name /\ t.calls[k].args = args
    BY <1>9 DEF Told
  <2>2. k \in 1..Len(u.calls) /\ u.calls[k] = t.calls[k]
    BY <1>2, <2>1
  <2>. QED
    BY <1>1, <2>1, <2>2 DEF Told
<1>. QED
  BY <1>7, <1>8, <1>9 DEF r

(* The start of a call nobody has seen.                                    *)
LEMMA StartStep ==
    ASSUME NEW t \in Turns, t.valid, NEW cs \in Seq(Chunks), NEW c \in Chunks,
           c.type = "tool-call-start", Unseen(t, cs, c.id)
    PROVE  LET u == Collected(t, c)
           IN  /\ u = [t EXCEPT !.calls = Append(@, [id |-> c.id, name |-> c.name, args |-> Missing])]
               /\ u \in Turns /\ u.valid /\ u.text = t.text /\ u.finish = t.finish
               /\ u.calls = Append(t.calls, [id |-> c.id, name |-> c.name, args |-> Missing])
               /\ Begun(u, Append(cs, c), c.id, c.name, <<>>)
               /\ \A id : id # c.id => SameCall(t, u, id)
<1>. DEFINE e == [id |-> c.id, name |-> c.name, args |-> Missing]
            u == Collected(t, c)
            r == Append(cs, c)
            n == Len(t.calls)
            m == Len(cs) + 1
<1>1. u = [t EXCEPT !.calls = Append(@, e)]
  BY DEF Collected, Unseen
<1>2. e \in Called
  <2>1. c.id \in Ids /\ c.name \in AllNames
    BY ChunkTypes DEF ToolChunks
  <2>2. Missing \in Texts
    BY DEF Missing, Texts, Pieces
  <2>. QED
    BY <2>1, <2>2 DEF Called
<1>3. /\ t.calls \in Seq(Called) /\ n \in Nat /\ DOMAIN t.calls = 1..n
      /\ t.text \in Texts /\ t.finish \in AllNames
      /\ \A k \in 1..n : t.calls[k].id \in Ids
  BY CallTypes
<1>. HIDE DEF e, u
<1>4. Append(t.calls, e) \in Seq(Called)
  BY <1>2, <1>3
<1>5. u \in Turns /\ u.valid /\ u.text = t.text /\ u.finish = t.finish /\ u.calls = Append(t.calls, e)
  BY <1>1, <1>3, <1>4 DEF Turns
<1>6. /\ Len(u.calls) = n + 1 /\ DOMAIN u.calls = 1..n + 1 /\ u.calls[n + 1] = e
      /\ \A k \in 1..n : u.calls[k] = t.calls[k]
  BY <1>2, <1>3, <1>5
<1>. HIDE DEF n
<1>7. \A k \in 1..n : t.calls[k].id # c.id
  BY <1>3 DEF Unseen, Pending
<1>8. Pending(u, c.id) = {n + 1}
  BY <1>3, <1>6, <1>7 DEF Pending, e
<1>9. ASSUME NEW id, id # c.id PROVE SameCall(t, u, id)
  BY <1>3, <1>6, <1>9 DEF SameCall, e, n
<1>10. \A type : AtIn(cs, c.id, type) = {}
  BY DEF Unseen, AtIn
<1>11. m \in 1..Len(r) /\ r[m] = c
  OBVIOUS
<1>12. Starts(r, c.id) = {m} /\ Ends(r, c.id) = {} /\ Deltas(r, c.id) = {}
  BY <1>10, AtAppend DEF Starts, Ends, Deltas
<1>13. JoinedIn(r, {}) = <<>>
  <2>1. InOrder({}) = <<>>
    BY FS_EmptySet DEF InOrder
  <2>. QED
    BY <2>1, FlattenEmpty DEF JoinedIn
<1>. HIDE DEF r, m
<1>14. BegunAt(u, r, c.id, c.name, <<>>, n + 1, m)
  BY <1>6, <1>8, <1>11, <1>12, <1>13 DEF BegunAt, e
<1>15. Begun(u, r, c.id, c.name, <<>>)
  BY <1>3, <1>6, <1>11, <1>14 DEF Begun
<1>. QED
  BY <1>1, <1>5, <1>9, <1>15 DEF u, r, e

(* A further fragment of a call's arguments.                               *)
LEMMA DeltaStep ==
    ASSUME NEW t \in Turns, t.valid, NEW cs \in Seq(Chunks), NEW c \in Chunks,
           c.type = "tool-call-delta", NEW name, NEW got, Begun(t, cs, c.id, name, got)
    PROVE  /\ Collected(t, c) = t
           /\ Begun(t, Append(cs, c), c.id, name, got \o c.json)
<1>. DEFINE r == Append(cs, c)
            m == Len(cs) + 1
<1>1. PICK k \in 1..Len(t.calls), s \in 1..Len(cs) : BegunAt(t, cs, c.id, name, got, k, s)
  BY DEF Begun
<1>2. Collected(t, c) = t
  <2>1. Pending(t, c.id) = {k} /\ t.calls[k].args = Missing
    BY <1>1 DEF BegunAt
  <2>2. (CHOOSE x \in {k} : TRUE) = k
    OBVIOUS
  <2>. QED
    BY <2>1, <2>2 DEF Collected
<1>3. /\ Len(r) = m /\ r[m] = c /\ \A i \in 1..Len(cs) : r[i] = cs[i]
      /\ Len(cs) \in Nat
  OBVIOUS
<1>4. Deltas(cs, c.id) \in SUBSET (1..Len(cs))
  BY DEF Deltas, AtIn
<1>5. /\ Starts(r, c.id) = Starts(cs, c.id) /\ Ends(r, c.id) = Ends(cs, c.id)
      /\ Deltas(r, c.id) = Deltas(cs, c.id) \cup {m}
  BY AtAppend DEF Starts, Ends, Deltas
<1>6. JoinedIn(r, Deltas(r, c.id)) = got \o c.json
  <2>1. JoinedIn(cs, Deltas(cs, c.id)) = got
    BY <1>1 DEF BegunAt
  <2>2. JoinedIn(r, Deltas(cs, c.id) \cup {m}) = JoinedIn(cs, Deltas(cs, c.id)) \o c.json
    BY <1>4, JoinedAppend
  <2>. QED
    BY <1>5, <2>1, <2>2
<1>. HIDE DEF r
<1>7. s \in 1..Len(r) /\ r[s] = cs[s] /\ s < m
  BY <1>3
<1>. HIDE DEF m
<1>8. \A d \in Deltas(r, c.id) : s < d
  BY <1>1, <1>5, <1>7 DEF BegunAt
<1>9. BegunAt(t, r, c.id, name, got \o c.json, k, s)
  BY <1>1, <1>5, <1>6, <1>7, <1>8 DEF BegunAt
<1>. QED
  BY <1>2, <1>7, <1>9 DEF Begun, r

(* The arguments of a call: what its fragments add up to, if any were told. *)
LEMMA ArgumentsStep ==
    ASSUME NEW t \in Turns, t.valid, NEW cs \in Seq(Chunks), NEW c \in Chunks,
           c.type = "tool-call-arguments", NEW got, Begun(t, cs, c.id, c.name, got),
           Deltas(cs, c.id) = {} \/ got = c.json
    PROVE  LET u == Collected(t, c)
           IN  /\ \E k \in 1..Len(t.calls) :
                    Pending(t, c.id) = {k} /\ u = [t EXCEPT !.calls[k].args = c.json]
               /\ u \in Turns /\ u.valid /\ u.text = t.text /\ u.finish = t.finish
               /\ Len(u.calls) = Len(t.calls)
               /\ \A k \in 1..Len(t.calls) : u.calls[k].id = t.calls[k].id
               /\ Told(u, c.id, c.name, c.json)
               /\ \A id : id # c.id => SameCall(t, u, id)
               /\ Lived(Append(cs, c), Len(cs) + 1)
<1>. DEFINE u == Collected(t, c)
            r == Append(cs, c)
            m == Len(cs) + 1
            n == Len(t.calls)
<1>1. PICK k \in 1..Len(t.calls), s \in 1..Len(cs) : BegunAt(t, cs, c.id, c.name, got, k, s)
  BY DEF Begun
<1>2. Pending(t, c.id) = {k} /\ t.calls[k].name = c.name /\ t.calls[k].args = Missing
  BY <1>1 DEF BegunAt
<1>3. u = [t EXCEPT !.calls[k].args = c.json]
  <2>1. (CHOOSE x \in {k} : TRUE) = k
    OBVIOUS
  <2>. QED
    BY <1>2, <2>1 DEF Collected
<1>4. /\ t.calls \in Seq(Called) /\ n \in Nat /\ DOMAIN t.calls = 1..n
      /\ t.text \in Texts /\ t.finish \in AllNames
      /\ \A j \in 1..n : t.calls[j] \in Called
  BY CallTypes
<1>5. c.json \in Texts
  BY ChunkTypes
<1>. DEFINE e == [t.calls[k] EXCEPT !.args = c.json]
            v == [t.calls EXCEPT ![k] = e]
<1>6. e \in Called /\ e.id = t.calls[k].id /\ e.name = t.calls[k].name /\ e.args = c.json
  BY <1>4, <1>5 DEF Called
<1>7. u = [t EXCEPT !.calls = v]
  BY <1>3, <1>4
<1>. HIDE DEF e
<1>8. v \in Seq(Called) /\ Len(v) = n
  BY <1>4, <1>6
<1>9. v[k] = e /\ \A j \in 1..n : j # k => v[j] = t.calls[j]
  BY <1>4
<1>. HIDE DEF u, v
<1>10. u \in Turns /\ u.valid /\ u.text = t.text /\ u.finish = t.finish /\ u.calls = v
  BY <1>4, <1>7, <1>8 DEF Turns
<1>11. DOMAIN v = 1..n
  BY <1>8
<1>. HIDE DEF n
<1>12. \A j \in 1..n : v[j].id = t.calls[j].id
  BY <1>6, <1>9
<1>13. Told(u, c.id, c.name, c.json)
  <2>1. Pending(u, c.id) = {k}
    BY <1>2, <1>4, <1>10, <1>11, <1>12 DEF Pending
  <2>. QED
    BY <1>2, <1>6, <1>8, <1>9, <1>10, <2>1 DEF Told, n
<1>14. t.calls[k].id = c.id
  BY <1>2 DEF Pending
<1>15. ASSUME NEW id, id # c.id PROVE SameCall(t, u, id)
  BY <1>8, <1>9, <1>10, <1>12, <1>14, <1>15 DEF SameCall, n
<1>16. /\ Len(r) = m /\ r[m] = c /\ \A i \in 1..Len(cs) : r[i] = cs[i]
       /\ Len(cs) \in Nat
  OBVIOUS
<1>17. Deltas(cs, c.id) \in SUBSET (1..Len(cs))
  BY DEF Deltas, AtIn
<1>18. /\ Starts(r, c.id) = Starts(cs, c.id) /\ Ends(r, c.id) = Ends(cs, c.id) \cup {m}
       /\ Deltas(r, c.id) = Deltas(cs, c.id)
  BY AtAppend DEF Starts, Ends, Deltas
<1>19. JoinedIn(r, Deltas(r, c.id)) = got
  <2>1. JoinedIn(cs, Deltas(cs, c.id)) = got
    BY <1>1 DEF BegunAt
  <2>2. JoinedIn(r, Deltas(cs, c.id)) = JoinedIn(cs, Deltas(cs, c.id))
    BY <1>17, JoinedAppend
  <2>. QED
    BY <1>18, <2>1, <2>2
<1>. HIDE DEF r
<1>20. Lived(r, m)
  <2>1. Ends(r, c.id) = {m}
    BY <1>1, <1>18 DEF BegunAt
  <2>2. s \in 1..m - 1 /\ r[s] = cs[s] /\ \A d \in Deltas(cs, c.id) : d < m
    BY <1>16, <1>17
  <2>3. Starts(r, c.id) = {s} /\ r[s].name = c.name /\ \A d \in Deltas(r, c.id) : s < d /\ d < m
    BY <1>1, <1>18, <2>2 DEF BegunAt
  <2>. HIDE DEF m
  <2>4. \E x \in 1..m - 1 : /\ Starts(r, r[m].id) = {x} /\ r[x].name = r[m].name
                            /\ \A d \in Deltas(r, r[m].id) : x < d /\ d < m
    BY <1>16, <2>2, <2>3
  <2>5. Deltas(r, c.id) # {} => JoinedIn(r, Deltas(r, c.id)) = c.json
    BY <1>18, <1>19
  <2>. QED
    BY <1>16, <2>1, <2>4, <2>5 DEF Lived
<1>21. \A j \in 1..Len(t.calls) : u.calls[j].id = t.calls[j].id
  BY <1>10, <1>12 DEF n
<1>22. Len(u.calls) = Len(t.calls)
  BY <1>8, <1>10 DEF n
<1>. QED
  BY <1>2, <1>3, <1>10, <1>13, <1>15, <1>20, <1>21, <1>22 DEF u, r, m

(* A chunk of no call.                                                     *)
LEMMA OtherStep ==
    ASSUME NEW t \in Turns, t.valid, NEW c \in Chunks, c.type \in OtherChunks
    PROVE  LET u == Collected(t, c)
           IN  /\ u \in Turns /\ u.valid /\ u.calls = t.calls
               /\ u.text = IF c.type = "text-delta" THEN t.text \o c.json ELSE t.text
               /\ u.finish = IF c.type = "done" THEN c.name ELSE t.finish
               /\ \A id : SameCall(t, u, id)
<1>. DEFINE u == Collected(t, c)
<1>1. c.json \in Texts /\ c.name \in AllNames
  BY ChunkTypes
<1>2. t.text \in Texts /\ t.calls \in Seq(Called) /\ t.finish \in AllNames
  BY CallTypes
<1>3. t.text \o c.json \in Texts
  BY <1>1, <1>2 DEF Texts
<1>4. /\ c.type = "text-delta" => u = [t EXCEPT !.text = t.text \o c.json]
      /\ c.type = "done" => u = [t EXCEPT !.finish = c.name]
      /\ c.type \notin {"text-delta", "done"} => u = t
  BY DEF Collected, OtherChunks
<1>. HIDE DEF u
<1>5. /\ u \in Turns /\ u.valid /\ u.calls = t.calls
      /\ u.text = IF c.type = "text-delta" THEN t.text \o c.json ELSE t.text
      /\ u.finish = IF c.type = "done" THEN c.name ELSE t.finish
  BY <1>1, <1>3, <1>4 DEF Turns
<1>6. \A id : SameCall(t, u, id)
  BY <1>5 DEF SameCall
<1>. QED
  BY <1>5, <1>6 DEF u

(* What the consumer has seen of the calls stays in order.                 *)
LEMMA LifecycleAppend ==
    ASSUME NEW cs \in Seq(Chunks), Lifecycle(cs), NEW c \in Chunks,
           c.type \in ToolChunks => Ends(cs, c.id) = {},
           c.type = "tool-call-arguments" => Lived(Append(cs, c), Len(cs) + 1)
    PROVE  Lifecycle(Append(cs, c))
<1>. DEFINE r == Append(cs, c)
            m == Len(cs) + 1
<1>1. /\ Len(r) = m /\ r[m] = c /\ \A i \in 1..Len(cs) : r[i] = cs[i]
      /\ Len(cs) \in Nat
  OBVIOUS
<1>2. SUFFICES ASSUME NEW a \in 1..Len(r), r[a].type = "tool-call-arguments" PROVE Lived(r, a)
  BY DEF Lifecycle
<1>3. CASE a = m
  BY <1>1, <1>2, <1>3
<1>4. CASE a \in 1..Len(cs)
  <2>. DEFINE id == cs[a].id
  <2>1. cs[a].type = "tool-call-arguments" /\ r[a] = cs[a]
    BY <1>1, <1>2, <1>4
  <2>2. Lived(cs, a)
    BY <1>4, <2>1 DEF Lifecycle
  <2>3. a \in Ends(cs, id)
    BY <1>4, <2>1 DEF Ends, AtIn
  <2>4. c.type \in ToolChunks => c.id # id
    BY <2>3
  <2>5. c.type \in OtherChunks => c.id # id
    <3>1. id \in Ids
      BY <1>4, <2>1, ChunkTypes DEF ToolChunks
    <3>2. c.type \in OtherChunks => c.id = <<>>
      BY ChunkTypes
    <3>3. <<>> \notin Ids
      BY DEF Ids
    <3>. QED
      BY <3>1, <3>2, <3>3
  <2>6. c.id # id
    BY <2>4, <2>5, ChunkTypes
  <2>. HIDE DEF id
  <2>7. Starts(r, id) = Starts(cs, id) /\ Ends(r, id) = Ends(cs, id) /\ Deltas(r, id) = Deltas(cs, id)
    BY <2>6, AtAppend DEF Starts, Ends, Deltas
  <2>8. Deltas(cs, id) \in SUBSET (1..Len(cs))
    BY DEF Deltas, AtIn
  <2>9. JoinedIn(r, Deltas(cs, id)) = JoinedIn(cs, Deltas(cs, id))
    BY <2>8, JoinedAppend
  <2>10. Ends(cs, id) = {a}
    BY <2>2 DEF Lived, id
  <2>11. PICK s \in 1..a - 1 : /\ Starts(cs, id) = {s} /\ cs[s].name = cs[a].name
                               /\ \A d \in Deltas(cs, id) : s < d /\ d < a
    BY <2>2 DEF Lived, id
  <2>12. Deltas(cs, id) # {} => JoinedIn(cs, Deltas(cs, id)) = cs[a].json
    BY <2>2 DEF Lived, id
  <2>. HIDE DEF r
  <2>13. r[s] = cs[s]
    BY <1>1, <1>4
  <2>14. r[a].id = id /\ r[a].json = cs[a].json /\ r[a].name = cs[a].name
    BY <2>1 DEF id
  <2>15. \E x \in 1..a - 1 : /\ Starts(r, id) = {x} /\ r[x].name = r[a].name
                             /\ \A d \in Deltas(r, id) : x < d /\ d < a
    BY <2>7, <2>11, <2>13, <2>14
  <2>. QED
    BY <2>7, <2>9, <2>10, <2>12, <2>14, <2>15 DEF Lived
<1>. QED
  BY <1>1, <1>3, <1>4

LEMMA NotDoneAppend ==
    ASSUME NEW cs \in Seq(Chunks), NotDone(cs), NEW c \in Chunks, c.type # "done"
    PROVE  NotDone(Append(cs, c))
<1>1. /\ Len(Append(cs, c)) = Len(cs) + 1 /\ Append(cs, c)[Len(cs) + 1] = c
      /\ \A i \in 1..Len(cs) : Append(cs, c)[i] = cs[i]
      /\ Len(cs) \in Nat
  OBVIOUS
<1>. QED
  BY <1>1 DEF NotDone

LEMMA ToolLifecycleIs ==
    ASSUME chunks \in Seq(Chunks), Lifecycle(chunks),
           \A k \in 1..Len(chunks) : chunks[k].type = "done" => k = Len(chunks)
    PROVE  ToolLifecycle
<1>. DEFINE id(a) == chunks[a].id
<1>1. DOMAIN chunks = 1..Len(chunks)
  OBVIOUS
<1>2. ASSUME NEW a \in 1..Len(chunks), chunks[a].type = "tool-call-arguments"
      PROVE  /\ At(id(a), "tool-call-arguments") = {a}
             /\ \E s \in 1..a - 1 : /\ At(id(a), "tool-call-start") = {s}
                                    /\ chunks[s].name = chunks[a].name
                                    /\ \A d \in At(id(a), "tool-call-delta") : s < d /\ d < a
             /\ At(id(a), "tool-call-delta") # {} =>
                  Joined(At(id(a), "tool-call-delta")) = chunks[a].json
  <2>1. Lived(chunks, a)
    BY <1>2 DEF Lifecycle
  <2>2. /\ Ends(chunks, id(a)) = At(id(a), "tool-call-arguments")
        /\ Starts(chunks, id(a)) = At(id(a), "tool-call-start")
        /\ Deltas(chunks, id(a)) = At(id(a), "tool-call-delta")
    BY DEF Ends, Starts, Deltas, AtIn, At
  <2>3. \A ks : JoinedIn(chunks, ks) = Joined(ks)
    BY DEF JoinedIn, Joined
  <2>4. /\ Ends(chunks, id(a)) = {a}
        /\ \E s \in 1..a - 1 : /\ Starts(chunks, id(a)) = {s} /\ chunks[s].name = chunks[a].name
                               /\ \A d \in Deltas(chunks, id(a)) : s < d /\ d < a
        /\ Deltas(chunks, id(a)) # {} => JoinedIn(chunks, Deltas(chunks, id(a))) = chunks[a].json
    BY <2>1 DEF Lived
  <2>. QED
    BY <2>2, <2>3, <2>4
<1>. QED
  BY <1>1, <1>2 DEF ToolLifecycle

(* The chunks of one event, one at a time.                                 *)
LEMMA OneChunk ==
    ASSUME NEW t, NEW c \in Chunks
    PROVE  /\ CollectedAll(t, <<c>>) = Collected(t, c)
           /\ \A d \in Chunks : CollectedAll(t, <<c, d>>) = Collected(Collected(t, c), d)
<1>. DEFINE none == <<>>
            one == <<c>>
<1>1. none \in Seq(Chunks) /\ one \in Seq(Chunks)
  OBVIOUS
<1>2. Append(none, c) = one
  OBVIOUS
<1>. HIDE DEF none, one
<1>3. CollectedAll(t, Append(none, c)) = Collected(CollectedAll(t, none), c)
  BY <1>1, CollectedAppend
<1>4. CollectedAll(t, one) = Collected(t, c)
  BY <1>2, <1>3, CollectedNothing DEF none
<1>5. ASSUME NEW d \in Chunks
      PROVE  CollectedAll(t, <<c, d>>) = Collected(Collected(t, c), d)
  <2>1. Append(one, d) = <<c, d>>
    <3>1. Len(one) = 1 /\ one[1] = c
      BY DEF one
    <3>2. Append(one, d) \in Seq(Chunks) /\ Len(Append(one, d)) = 2
          /\ Append(one, d)[1] = c /\ Append(one, d)[2] = d
      <4>1. /\ Append(one, d) \in Seq(Chunks) /\ Len(Append(one, d)) = Len(one) + 1
            /\ \A i \in 1..Len(one) : Append(one, d)[i] = one[i]
            /\ Append(one, d)[Len(one) + 1] = d
        BY <1>1, AppendProperties
      <4>2. Append(one, d)[1] = one[1]
        BY <3>1, <4>1
      <4>3. Len(one) + 1 = 2
        BY <3>1
      <4>. QED
        BY <3>1, <4>1, <4>2, <4>3
    <3>3. <<c, d>> \in Seq(Chunks) /\ Len(<<c, d>>) = 2 /\ <<c, d>>[1] = c /\ <<c, d>>[2] = d
      OBVIOUS
    <3>4. \A i \in 1..2 : i = 1 \/ i = 2
      OBVIOUS
    <3>. QED
      BY <3>2, <3>3, <3>4, SeqEqual
  <2>2. CollectedAll(t, Append(one, d)) = Collected(CollectedAll(t, one), d)
    BY <1>1, CollectedAppend
  <2>. QED
    BY <1>4, <2>1, <2>2
<1>. QED
  BY <1>4, <1>5 DEF one

-----------------------------------------------------------------------------
(* OpenAI and Anthropic: how far each part of an answer has come.          *)

PartsIn(a) == 1..Len(a.output)
CallParts(a) == {i \in PartsIn(a) : a.output[i].kind = "call"}
TextParts(a) == {i \in PartsIn(a) : a.output[i].kind = "text"}
Size(a, i) == a.output[i].size
Key(a, i) == IF a.provider = "openai" THEN ItemId(i) ELSE i
Got(i, j) == [x \in 1..j |-> <<i, x>>]
ToolAt(a, i, j) == [args |-> Got(i, j), callId |-> CallId(i), name |-> a.output[i].name]
WithTool(tl, key, tool) == [k \in DOMAIN tl \cup {key} |-> IF k = key THEN tool ELSE tl[k]]
WithoutTool(tl, key) == [k \in DOMAIN tl \ {key} |-> tl[k]]

(* The events of part i that are left after its first j pieces.            *)
Left(a, i, j, type) == [x \in 1..Size(a, i) - j |-> Event(type, <<<<i, j + x>>>>)]
Closing(a, i) == <<Event("args.done", Body(a, i)), Event("item.done", Body(a, i))>>
Again(i) == Event("item.added", Got(i, 1))
OpenAIRest(a, i, j) ==
    {Left(a, i, j, "args.delta") \o Closing(a, i)}
      \cup (IF a.output[i].whole THEN {} ELSE {Left(a, i, j, "args.delta")})
      \cup (IF j = 0 THEN {<<Event("args.delta", <<<<i, 1>>>>)>>
                              \o (<<Again(i)>> \o (Left(a, i, 1, "args.delta") \o Closing(a, i)))}
            ELSE {})
      \cup (IF j = 1 THEN {<<Again(i)>> \o (Left(a, i, 1, "args.delta") \o Closing(a, i))} ELSE {})
      \cup (IF j = Size(a, i) THEN {<<Event("item.done", Body(a, i))>>} ELSE {})
AnthropicRest(a, i, j) ==
    {Left(a, i, j, "json.delta") \o <<Event("block.stop", <<>>)>>}
      \cup (IF a.output[i].whole THEN {} ELSE {Left(a, i, j, "json.delta")})
Rest(a, i, j) == IF a.provider = "openai" THEN OpenAIRest(a, i, j) ELSE AnthropicRest(a, i, j)

Waiting(a, i, left, tl, tn, ch) ==
    left \in PartEvents(a, i) /\ Key(a, i) \notin DOMAIN tl /\ Unseen(tn, ch, CallId(i))
OpenAt(a, i, left, tl, tn, ch, j) ==
    /\ left \in Rest(a, i, j)
    /\ Key(a, i) \in DOMAIN tl /\ tl[Key(a, i)] = ToolAt(a, i, j)
    /\ Begun(tn, ch, CallId(i), a.output[i].name, Got(i, j))
Open(a, i, left, tl, tn, ch) == \E j \in 0..Size(a, i) : OpenAt(a, i, left, tl, tn, ch, j)
Over(a, i, left, tl, tn, ch) ==
    /\ left = <<>> /\ Key(a, i) \notin DOMAIN tl
    /\ Told(tn, CallId(i), a.output[i].name, Body(a, i))
Stage(a, i, left, tl, tn, ch) ==
    \/ Waiting(a, i, left, tl, tn, ch)
    \/ Open(a, i, left, tl, tn, ch)
    \/ Over(a, i, left, tl, tn, ch)

(* The turn's calls are in the order of their parts, and none is left out  *)
(* between them.                                                           *)
CallOfPart(a, tn, n, i) ==
    /\ tn.calls[n].id = CallId(i)
    /\ \A k \in CallParts(a) : k < i => Pending(tn, CallId(k)) # {}
CallsInOrder(a, tn) ==
    /\ \A n \in 1..Len(tn.calls) : \E i \in CallParts(a) : CallOfPart(a, tn, n, i)
    /\ \A m, n \in 1..Len(tn.calls) : m < n => tn.calls[m].id[2] < tn.calls[n].id[2]

(* The turn's text is what the text parts have sent, in order.             *)
PieceBefore == {uv \in Pieces \X Pieces : \/ uv[1][1] < uv[2][1]
                                          \/ uv[1][1] = uv[2][1] /\ uv[1][2] < uv[2][2]}
TextLeft(a, i, left) ==
    /\ Len(left) \in 0..Size(a, i)
    /\ left = Left(a, i, Size(a, i) - Len(left), "text.delta")
TextSent(a, td) ==
    {u \in Pieces : u[1] \in TextParts(a) /\ u[2] \in 1..Size(a, u[1]) - Len(td[u[1]])}
TextInOrder(a, td, tn) ==
    /\ \A i \in TextParts(a) : TextLeft(a, i, td[i])
    /\ Ordered(tn.text, PieceBefore) /\ Elements(tn.text) = TextSent(a, td)
    /\ \A u \in Elements(tn.text) : \A k \in PartsIn(a) : k < u[1] => td[k] = <<>>

SilentEvents == [type : {"block.start", "other"}, json : Texts]
Silent(a, td) ==
    \A i \in PartsIn(a) : i \notin CallParts(a) \cup TextParts(a) => td[i] \in Seq(SilentEvents)

Common(tn, ch) ==
    /\ tn \in Turns /\ tn.valid /\ tn.finish = "none"
    /\ ch \in Seq(Chunks) /\ Lifecycle(ch) /\ NotDone(ch)

ToolsOfParts(a, tl) ==
    /\ tl = [k \in DOMAIN tl |-> tl[k]]
    /\ \A k \in DOMAIN tl : \E i \in CallParts(a) : k = Key(a, i)

Blocks(a, td, tl, tn, ch) ==
    /\ Common(tn, ch)
    /\ DOMAIN td = PartsIn(a)
    /\ ToolsOfParts(a, tl)
    /\ \A i \in CallParts(a) : Stage(a, i, td[i], tl, tn, ch)
    /\ CallsInOrder(a, tn) /\ TextInOrder(a, td, tn) /\ Silent(a, td)

AllOver(td) == \A i \in DOMAIN td : td[i] = <<>>

OpenAIReading(a, td, ph, tl, am, tn, ch) ==
    /\ Blocks(a, td, tl, tn, ch)
    /\ ph \in {"parts", "ended"}
    /\ am.terminal <=> ph = "ended"
    /\ ph = "ended" => AllOver(td) /\ OpenAIPayloadValid(a) /\ am.finish = OpenAIFinish(a)

AnthropicReading(a, td, ph, tl, am, tn, ch) ==
    /\ Blocks(a, td, tl, tn, ch)
    /\ ph \in {"opening", "parts", "stopping", "ended"}
    /\ am.started <=> ph # "opening"
    /\ am.terminal <=> ph = "ended"
    /\ ph \in {"stopping", "ended"} => AllOver(td) /\ am.finish = AnthropicFinish(a.stop)
    /\ ~am.observed => \A i \in PartsIn(a) : td[i] \in PartEvents(a, i)

(* A part as Gemini's adapter keeps it, and the fields of an assembler.    *)
Sents == [kind : {"text", "thought", "call"}, name : AllNames, json : Texts, signed : BOOLEAN]
Assemblers == [started : BOOLEAN, observed : BOOLEAN, terminal : BOOLEAN, reasoning : BOOLEAN,
               finish : AllNames, replay : Seq(Sents)]


-----------------------------------------------------------------------------
(* Gemini: what the first p parts it sends have become.                    *)

SentTexts(a, p) == {GeminiParts(a)[x].json[1] : x \in {y \in 1..p : GeminiParts(a)[y].kind = "text"}}
CallSent(a, p, call) ==
    \E x \in 1..p : /\ GeminiParts(a)[x].kind = "call" /\ GeminiParts(a)[x].name = call.name
                    /\ GeminiParts(a)[x].json = call.args
GeminiCallsSent(a, p, tn) ==
    /\ \A n \in 1..Len(tn.calls) : CallSent(a, p, tn.calls[n])
    /\ \A x \in 1..p : GeminiParts(a)[x].kind = "call" =>
         \E n \in 1..Len(tn.calls) : tn.calls[n].args = GeminiParts(a)[x].json
    /\ \A m, n \in 1..Len(tn.calls) : m < n => tn.calls[m].args[1][1] < tn.calls[n].args[1][1]

KeptCall(call, tl, replay) ==
    /\ call.id \in DOMAIN tl
    /\ tl[call.id].name = call.name /\ tl[call.id].args = call.args
    /\ tl[call.id].part \in 1..Len(replay)
    /\ replay[tl[call.id].part].kind = "call"
    /\ replay[tl[call.id].part].name = call.name
    /\ replay[tl[call.id].part].json = call.args
Kept(tl, replay, tn) ==
    /\ tl = [k \in DOMAIN tl |-> tl[k]] /\ DOMAIN tl \in SUBSET (Nat \X Names)
    /\ IsFiniteSet(DOMAIN tl) /\ Len(tn.calls) = Cardinality(DOMAIN tl)
    /\ \A n \in 1..Len(tn.calls) : KeptCall(tn.calls[n], tl, replay)
    /\ \A m, n \in 1..Len(tn.calls) :
         m < n => tl[tn.calls[m].id].part < tl[tn.calls[n].id].part
    /\ \A id \in DOMAIN tl : \E n \in 1..Len(tn.calls) : tn.calls[n].id = id

GeminiAt(a, p, tl, am, tn, ch) ==
    /\ Common(tn, ch)
    /\ p \in 0..Len(GeminiParts(a))
    /\ am \in Assemblers
    /\ Ordered(tn.text, PieceBefore) /\ Elements(tn.text) = SentTexts(a, p)
    /\ GeminiCallsSent(a, p, tn)
    /\ Kept(tl, am.replay, tn)
    /\ \A k \in 1..Len(ch) : ch[k].type \in ToolChunks => ch[k].id \in DOMAIN tl
    /\ (\E x \in 1..p : GeminiParts(a)[x].kind # "thought") => am.observed

Repeatable(tl, ls) ==
    /\ ls \in Seq(Sents)
    /\ \A x \in 1..Len(ls) :
         /\ ls[x].kind = "call"
         /\ <<x, ls[x].name>> \in DOMAIN tl
         /\ tl[<<x, ls[x].name>>].name = ls[x].name
         /\ tl[<<x, ls[x].name>>].args = ls[x].json

GeminiReading(a, td, ph, ls, tl, am, tn, ch) ==
    /\ \E p \in 0..Len(GeminiParts(a)) :
         /\ td = <<SubSeq(GeminiParts(a), p + 1, Len(GeminiParts(a)))>>
         /\ GeminiAt(a, p, tl, am, tn, ch)
    /\ ph \in {"parts", "ended"}
    /\ am.terminal <=> ph = "ended"
    /\ ph = "ended" => td = <<<<>>>> /\ am.finish = GeminiFinish(a.stop, DOMAIN tl # {})
    /\ Repeatable(tl, ls)

Reading ==
    /\ answer \in Answers /\ asm \in Assemblers
    /\ Provider = "openai" =>
         ~asm.reasoning /\ OpenAIReading(answer, todo, phase, tools, asm, turn, chunks)
    /\ Provider = "anthropic" =>
         ~asm.reasoning /\ AnthropicReading(answer, todo, phase, tools, asm, turn, chunks)
    /\ Provider = "google" =>
         GeminiReading(answer, todo, phase, last, tools, asm, turn, chunks)

(* The inductive invariant: what holds while the stream is read, and what  *)
(* the end of the stream leaves.                                           *)
Orderly(ch) ==
    /\ ch \in Seq(Chunks) /\ Lifecycle(ch)
    /\ \A k \in 1..Len(ch) : ch[k].type = "done" => k = Len(ch)
Named(calls) == [k \in DOMAIN calls |-> [name |-> calls[k].name, args |-> calls[k].args]]
Matches(a, tl, am, tn) ==
    /\ [text |-> tn.text, calls |-> Named(tn.calls), finish |-> tn.finish]
         = [Response(a) EXCEPT !.text = TextOf(a, {"text"})]
    /\ a.provider = "google" /\ tl # <<>> /\ (\E k \in DOMAIN am.replay : am.replay[k].signed)
         => StateMatchesMessage(tn.calls, am.replay, tl)
IInv ==
    /\ status \in {"reading", "recorded", "failed", "cancelled"}
    /\ status = "reading" => Reading
    /\ Orderly(chunks)
    /\ RecordedIffWhole
    /\ status = "recorded" => Matches(answer, tools, asm, turn)

-----------------------------------------------------------------------------
(* The answer, and the events of a part one at a time.                     *)

LEMMA AnswerFacts ==
    ASSUME NEW a \in Answers
    PROVE  /\ a.provider \in Providers /\ Plausible(a) /\ a.showThoughts \in BOOLEAN
           /\ a.output \in Seq(PartsOf(a.provider))
           /\ Len(a.output) \in Nat /\ DOMAIN a.output = PartsIn(a)
           /\ a.stop \in Stops(a.provider)
<1>1. PICK p \in Providers :
         a \in [provider : {p}, output : SeqOf(PartsOf(p), MaxParts), stop : Stops(p),
                showThoughts : IF p = "google" THEN BOOLEAN ELSE {FALSE}] /\ Plausible(a)
  BY DEF Answers
<1>2. /\ a.provider = p /\ a.output \in SeqOf(PartsOf(p), MaxParts) /\ a.stop \in Stops(p)
      /\ a.showThoughts \in BOOLEAN
  BY <1>1
<1>3. PICK m \in 0..MaxParts : a.output \in [1..m -> PartsOf(p)]
  BY <1>2 DEF SeqOf
<1>4. m \in Nat
  BY StreamBounds
<1>5. a.output \in Seq(PartsOf(p))
  BY <1>3, <1>4
<1>. QED
  BY <1>1, <1>2, <1>5 DEF PartsIn

LEMMA PartFacts ==
    ASSUME NEW a \in Answers, NEW i \in PartsIn(a)
    PROVE  /\ i \in Nat
           /\ a.output[i].kind \in {"text", "call", "refusal", "thought"}
           /\ a.output[i].name \in AllNames
           /\ a.output[i].kind = "call" => a.output[i].name \in Names
           /\ a.output[i].kind = "refusal" => a.provider = "openai"
           /\ a.output[i].kind = "thought" => a.provider # "openai"
           /\ Size(a, i) \in Nat
           /\ a.output[i].whole \in BOOLEAN /\ a.output[i].signed \in BOOLEAN
           /\ a.output[i].kind = "call" /\ a.provider # "anthropic" => Size(a, i) # 0
           /\ ~a.output[i].whole => a.stop \in AtLimit /\ a.output[i].kind = "call"
           /\ a.provider = "google" => a.output[i].whole
<1>1. a.output[i] \in PartsOf(a.provider) /\ a.provider \in Providers /\ Plausible(a)
  BY AnswerFacts DEF PartsIn
<1>2. i \in Nat
  BY AnswerFacts DEF PartsIn
<1>3. MaxPieces \in Nat /\ MaxPieces # 0
  BY StreamBounds
<1>4. ~a.output[i].whole => a.stop \in AtLimit
  BY AnswerFacts DEF Plausible
<1>5. CASE a.output[i] \in [kind : {"text", SilentKind(a.provider)}, name : {"none"}, size : {0, MaxPieces},
                            whole : {TRUE}, signed : {FALSE}]
  <2>1. /\ a.output[i].kind \in {"text", SilentKind(a.provider)} /\ a.output[i].name = "none"
        /\ Size(a, i) \in {0, MaxPieces} /\ a.output[i].whole = TRUE /\ a.output[i].signed = FALSE
    BY <1>5 DEF Size
  <2>2. Size(a, i) \in Nat
    BY <1>3, <2>1
  <2>3. /\ a.output[i].kind \in {"text", "call", "refusal", "thought"} /\ a.output[i].kind # "call"
        /\ a.output[i].kind = "refusal" => a.provider = "openai"
        /\ a.output[i].kind = "thought" => a.provider # "openai"
    BY <2>1 DEF SilentKind
  <2>4. a.output[i].name \in AllNames
    BY <2>1 DEF AllNames
  <2>. QED
    BY <1>2, <2>1, <2>2, <2>3, <2>4
<1>6. CASE a.output[i] \in [kind : {"call"}, name : Names,
             size : IF a.provider = "anthropic" THEN {0, MaxPieces} ELSE {MaxPieces},
             whole : IF a.provider = "google" THEN {TRUE} ELSE BOOLEAN,
             signed : IF a.provider = "google" THEN BOOLEAN ELSE {FALSE}]
  <2>1. /\ a.output[i].kind = "call" /\ a.output[i].name \in Names
        /\ Size(a, i) \in IF a.provider = "anthropic" THEN {0, MaxPieces} ELSE {MaxPieces}
        /\ a.output[i].whole \in IF a.provider = "google" THEN {TRUE} ELSE BOOLEAN
        /\ a.output[i].signed \in IF a.provider = "google" THEN BOOLEAN ELSE {FALSE}
    BY <1>6 DEF Size
  <2>2. Size(a, i) \in Nat /\ (a.provider # "anthropic" => Size(a, i) # 0)
    BY <1>3, <2>1
  <2>3. /\ a.output[i].whole \in BOOLEAN /\ a.output[i].signed \in BOOLEAN
        /\ a.provider = "google" => a.output[i].whole
    BY <2>1
  <2>4. a.output[i].name \in AllNames
    BY <2>1 DEF AllNames
  <2>. QED
    BY <1>2, <1>4, <2>1, <2>2, <2>3, <2>4
<1>. QED
  BY <1>1, <1>5, <1>6 DEF PartsOf

EventTypes == {"text.delta", "other", "item.added", "args.delta", "args.done", "item.done",
               "block.start", "json.delta", "block.stop"}
Events == [type : EventTypes, json : Texts]

LEMMA EventFacts ==
    ASSUME NEW type, NEW json
    PROVE  /\ Event(type, json).type = type /\ Event(type, json).json = json
           /\ type \in EventTypes /\ json \in Texts => Event(type, json) \in Events
BY DEF Event, Events

LEMMA GotFacts ==
    ASSUME NEW i \in Nat, NEW j \in Nat
    PROVE  /\ Got(i, j) \in Texts /\ Len(Got(i, j)) = j
           /\ Got(i, j) \o <<<<i, j + 1>>>> = Got(i, j + 1)
           /\ Got(i, 0) = <<>> /\ <<<<i, 1>>>> = Got(i, 1)
           /\ <<>> \o Got(i, j) = Got(i, j)
           /\ <<<<i, j + 1>>>> \in Texts
           /\ j # 0 => Got(i, j) # <<>> /\ Got(i, j)[1] = <<i, 1>>
           /\ Got(i, j) # Missing
<1>1. Got(i, j) \in Seq(Pieces) /\ Len(Got(i, j)) = j /\ \A x \in 1..j : Got(i, j)[x] = <<i, x>>
  BY DEF Got, Pieces
<1>2. Got(i, j + 1) \in Seq(Pieces) /\ Len(Got(i, j + 1)) = j + 1
      /\ \A x \in 1..j + 1 : Got(i, j + 1)[x] = <<i, x>>
  BY DEF Got, Pieces
<1>3. <<<<i, j + 1>>>> \in Seq(Pieces) /\ Len(<<<<i, j + 1>>>>) = 1
  BY DEF Pieces
<1>4. Got(i, j) \o <<<<i, j + 1>>>> = Got(i, j + 1)
  <2>. DEFINE l == Got(i, j) \o <<<<i, j + 1>>>>
  <2>1. l \in Seq(Pieces) /\ Len(l) = j + 1
    BY <1>1, <1>3
  <2>2. \A x \in 1..j + 1 : l[x] = <<i, x>>
    BY <1>1, <1>3
  <2>. HIDE DEF l
  <2>3. \A x \in 1..Len(l) : l[x] = Got(i, j + 1)[x]
    BY <1>2, <2>1, <2>2
  <2>4. l = Got(i, j + 1)
    BY <1>2, <2>1, <2>3, SeqEqual
  <2>. QED
    BY <2>4 DEF l
<1>5. Got(i, 0) = <<>>
  BY DEF Got
<1>6. <<<<i, 1>>>> = Got(i, 1)
  BY DEF Got
<1>7. Got(i, j) # Missing
  BY <1>1 DEF Missing
<1>8. <<>> \o Got(i, j) = Got(i, j)
  BY <1>1, ConcatEmptySeq
<1>9. j # 0 => Got(i, j) # <<>> /\ Got(i, j)[1] = <<i, 1>>
  BY <1>1
<1>. QED
  BY <1>1, <1>3, <1>4, <1>5, <1>6, <1>7, <1>8, <1>9 DEF Texts

LEMMA BodyIsGot ==
    ASSUME NEW a, NEW i
    PROVE  Body(a, i) = Got(i, Size(a, i))
BY DEF Body, Got, Size

LEMMA HeadAndTail ==
    ASSUME NEW T, NEW x \in T, NEW s \in Seq(T)
    PROVE  /\ <<x>> \o s \in Seq(T) /\ <<x>> \o s # <<>>
           /\ Head(<<x>> \o s) = x /\ Tail(<<x>> \o s) = s
<1>. DEFINE r == <<x>> \o s
<1>1. r \in Seq(T) /\ Len(r) = Len(s) + 1 /\ r[1] = x /\ \A k \in 1..Len(s) : r[k + 1] = s[k]
  OBVIOUS
<1>. HIDE DEF r
<1>2. r # <<>>
  BY <1>1
<1>3. Head(r) = x /\ Tail(r) \in Seq(T) /\ Len(Tail(r)) = Len(s)
      /\ \A k \in 1..Len(s) : Tail(r)[k] = s[k]
  BY <1>1, <1>2
<1>4. Tail(r) = s
  BY <1>3, SeqEqual
<1>. QED
  BY <1>1, <1>2, <1>3, <1>4 DEF r

LEMMA LeftStep ==
    ASSUME NEW a, NEW i \in Nat, Size(a, i) \in Nat, NEW j \in 0..Size(a, i), NEW type \in EventTypes
    PROVE  /\ Left(a, i, j, type) \in Seq(Events)
           /\ Len(Left(a, i, j, type)) = Size(a, i) - j
           /\ j = Size(a, i) => Left(a, i, j, type) = <<>>
           /\ j < Size(a, i) =>
                Left(a, i, j, type) = <<Event(type, <<<<i, j + 1>>>>)>> \o Left(a, i, j + 1, type)
<1>. DEFINE n == Size(a, i) - j
            l == Left(a, i, j, type)
<1>1. n \in Nat
  OBVIOUS
<1>2. \A x \in Nat : Event(type, <<<<i, x>>>>) \in Events
  <2>1. \A x \in Nat : <<<<i, x>>>> \in Texts
    BY DEF Texts, Pieces
  <2>. QED
    BY <2>1, EventFacts
<1>3. l \in Seq(Events) /\ Len(l) = n /\ \A x \in 1..n : l[x] = Event(type, <<<<i, j + x>>>>)
  <2>1. l = [x \in 1..n |-> Event(type, <<<<i, j + x>>>>)]
    BY DEF Left
  <2>2. \A x \in 1..n : j + x \in Nat
    BY <1>1
  <2>3. l \in [1..n -> Events]
    BY <1>2, <2>1, <2>2
  <2>. HIDE DEF n
  <2>4. l \in Seq(Events)
    BY <1>1, <2>3
  <2>5. Len(l) = n
    BY <1>1, <2>1
  <2>. QED
    BY <2>1, <2>4, <2>5
<1>4. j = Size(a, i) => l = <<>>
  BY <1>3, EmptySeq
<1>5. ASSUME j < Size(a, i)
      PROVE  l = <<Event(type, <<<<i, j + 1>>>>)>> \o Left(a, i, j + 1, type)
  <2>. DEFINE e == Event(type, <<<<i, j + 1>>>>)
              r == Left(a, i, j + 1, type)
              m == n - 1
  <2>1. m \in Nat /\ m = Size(a, i) - (j + 1)
    BY <1>5
  <2>2. r = [x \in 1..m |-> Event(type, <<<<i, (j + 1) + x>>>>)]
    BY <2>1 DEF Left
  <2>3. \A x \in 1..m : (j + 1) + x \in Nat /\ (j + 1) + x = j + (x + 1)
    BY <2>1
  <2>4. r \in [1..m -> Events] /\ \A x \in 1..m : r[x] = Event(type, <<<<i, j + (x + 1)>>>>)
    BY <1>2, <2>2, <2>3
  <2>. HIDE DEF r
  <2>5. r \in Seq(Events) /\ Len(r) = m
    BY <2>1, <2>4
  <2>6. e \in Events
    BY <1>2
  <2>. HIDE DEF e
  <2>7. <<e>> \o r \in Seq(Events) /\ Len(<<e>> \o r) = n
    BY <2>1, <2>5, <2>6
  <2>8. \A x \in 1..n : (<<e>> \o r)[x] = l[x]
    <3>. SUFFICES ASSUME NEW x \in 1..n PROVE (<<e>> \o r)[x] = l[x]
      OBVIOUS
    <3>1. CASE x = 1
      BY <1>3, <2>5, <3>1 DEF e
    <3>2. CASE x # 1
      <4>1. x - 1 \in 1..m /\ (x - 1) + 1 = x
        BY <1>1, <3>2
      <4>2. (<<e>> \o r)[x] = r[x - 1]
        BY <2>5, <2>6, <3>2, <4>1
      <4>3. r[x - 1] = Event(type, <<<<i, j + ((x - 1) + 1)>>>>)
        BY <2>4, <4>1
      <4>. QED
        BY <1>3, <4>1, <4>2, <4>3
    <3>. QED
      BY <3>1, <3>2
  <2>. HIDE DEF l, n
  <2>9. <<e>> \o r = l
    BY <1>1, <1>3, <2>7, <2>8, SeqEqual
  <2>. QED
    BY <2>9 DEF e, r
<1>. QED
  BY <1>3, <1>4, <1>5

LEMMA LeftFacts ==
    ASSUME NEW a, NEW i \in Nat, Size(a, i) \in Nat, NEW type \in EventTypes
    PROVE  /\ Left(a, i, 0, type) \in Seq(Events) /\ Left(a, i, Size(a, i), type) = <<>>
           /\ Size(a, i) # 0 =>
                /\ Left(a, i, 1, type) \in Seq(Events)
                /\ Left(a, i, 0, type) = <<Event(type, <<<<i, 1>>>>)>> \o Left(a, i, 1, type)
<1>1. 0 \in 0..Size(a, i) /\ Size(a, i) \in 0..Size(a, i) /\ 0 + 1 = 1
  OBVIOUS
<1>2. Left(a, i, 0, type) \in Seq(Events) /\ Left(a, i, Size(a, i), type) = <<>>
  BY <1>1, LeftStep
<1>3. ASSUME Size(a, i) # 0
      PROVE  /\ Left(a, i, 1, type) \in Seq(Events)
             /\ Left(a, i, 0, type) = <<Event(type, <<<<i, 1>>>>)>> \o Left(a, i, 1, type)
  <2>1. 1 \in 0..Size(a, i) /\ 0 < Size(a, i)
    BY <1>3
  <2>2. Left(a, i, 1, type) \in Seq(Events)
    BY <2>1, LeftStep
  <2>3. Left(a, i, 0, type) = <<Event(type, <<<<i, 0 + 1>>>>)>> \o Left(a, i, 0 + 1, type)
    BY <1>1, <2>1, LeftStep
  <2>. QED
    BY <1>1, <2>2, <2>3
<1>. QED
  BY <1>2, <1>3

LEMMA PairIs ==
    ASSUME NEW T, NEW x \in T, NEW y \in T
    PROVE  <<x, y>> \in Seq(T) /\ <<x>> \in Seq(T) /\ <<y>> \in Seq(T) /\ <<x, y>> = <<x>> \o <<y>>
<1>. DEFINE r == <<x>> \o <<y>>
<1>1. <<x, y>> \in Seq(T) /\ Len(<<x, y>>) = 2 /\ <<x, y>>[1] = x /\ <<x, y>>[2] = y
  OBVIOUS
<1>2. r \in Seq(T) /\ Len(r) = 2 /\ r[1] = x /\ r[2] = y
  OBVIOUS
<1>3. \A k \in 1..2 : k = 1 \/ k = 2
  OBVIOUS
<1>. HIDE DEF r
<1>4. <<x, y>> = r
  BY <1>1, <1>2, <1>3, SeqEqual
<1>. QED
  BY <1>4 DEF r

LEMMA LeftTyped ==
    ASSUME NEW a, NEW i \in Nat, Size(a, i) \in Nat, NEW type \in EventTypes
    PROVE  \A x \in 0..Size(a, i) :
             /\ Left(a, i, x, type) \in Seq(Events)
             /\ Len(Left(a, i, x, type)) = Size(a, i) - x
<1>1. SUFFICES ASSUME NEW x \in 0..Size(a, i)
               PROVE  /\ Left(a, i, x, type) \in Seq(Events)
                      /\ Len(Left(a, i, x, type)) = Size(a, i) - x
  OBVIOUS
<1>. QED
  BY LeftStep

LEMMA FragmentsAreLeft ==
    ASSUME NEW a, NEW i \in Nat, Size(a, i) \in Nat, NEW type
    PROVE  Fragments(a, i, type) = Left(a, i, 0, type)
<1>1. \A x \in 1..Size(a, i) : 0 + x = x
  OBVIOUS
<1>. QED
  BY <1>1 DEF Fragments, Left, Size

LEMMA ClosingFacts ==
    ASSUME NEW a \in Answers, NEW i \in CallParts(a)
    PROVE  /\ i \in PartsIn(a) /\ i \in Nat /\ Size(a, i) \in Nat
           /\ Body(a, i) \in Texts /\ Body(a, i) = Got(i, Size(a, i))
           /\ Closing(a, i) \in Seq(Events) /\ Closing(a, i) # <<>>
           /\ Head(Closing(a, i)) = Event("args.done", Body(a, i))
           /\ Tail(Closing(a, i)) = <<Event("item.done", Body(a, i))>>
           /\ Again(i) \in Events /\ Event("item.done", Body(a, i)) \in Events
           /\ \A json \in Texts : Event("item.added", json) \in Events
<1>1. i \in PartsIn(a) /\ i \in Nat /\ Size(a, i) \in Nat
  BY PartFacts DEF CallParts
<1>2. Body(a, i) \in Texts /\ Body(a, i) = Got(i, Size(a, i))
  BY <1>1, BodyIsGot, GotFacts
<1>3. \A json \in Texts : /\ Event("item.added", json) \in Events /\ Event("args.done", json) \in Events
                          /\ Event("item.done", json) \in Events
  BY EventFacts DEF EventTypes
<1>4. Again(i) \in Events
  <2>1. Got(i, 1) \in Texts
    BY <1>1, GotFacts
  <2>. QED
    BY <1>3, <2>1 DEF Again
<1>. DEFINE x == Event("args.done", Body(a, i))
            y == Event("item.done", Body(a, i))
<1>5. x \in Events /\ y \in Events
  BY <1>2, <1>3
<1>6. Closing(a, i) = <<x, y>>
  BY DEF Closing
<1>. HIDE DEF x, y
<1>7. <<x, y>> \in Seq(Events) /\ <<x, y>> # <<>> /\ Head(<<x, y>>) = x /\ Tail(<<x, y>>) = <<y>>
  BY <1>5
<1>. QED
  BY <1>1, <1>2, <1>3, <1>4, <1>5, <1>6, <1>7 DEF x, y

(* The first event of an OpenAI call.                                      *)
LEMMA OpenAIFirst ==
    ASSUME NEW a \in Answers, a.provider = "openai", NEW i \in CallParts(a),
           NEW left \in PartEvents(a, i)
    PROVE  /\ left # <<>>
           /\ \/ Head(left) = Event("item.added", <<>>) /\ Tail(left) \in Rest(a, i, 0)
              \/ Head(left) = Event("item.added", Body(a, i)) /\ Tail(left) \in Rest(a, i, Size(a, i))
<1>. DEFINE s == Size(a, i)
            first == Event("item.added", <<>>)
            whole == Event("item.added", Body(a, i))
            h == Event("args.delta", <<<<i, 1>>>>)
            g == Again(i)
            L0 == Left(a, i, 0, "args.delta")
            L1 == Left(a, i, 1, "args.delta")
            end == Closing(a, i)
<1>0. i \in Nat /\ s \in Nat /\ s # 0
  <2>1. i \in PartsIn(a) /\ a.output[i].kind = "call"
    BY DEF CallParts
  <2>. QED
    BY <2>1, PartFacts
<1>1. left \in OpenAICallEvents(a, i)
  BY DEF PartEvents, CallParts
<1>2. Rest(a, i, 0) = OpenAIRest(a, i, 0) /\ Rest(a, i, s) = OpenAIRest(a, i, s)
  BY DEF Rest
<1>3. /\ first \in Events /\ whole \in Events /\ h \in Events /\ g \in Events /\ end \in Seq(Events)
  <2>1. <<>> \in Texts /\ <<<<i, 1>>>> \in Texts
    BY <1>0 DEF Texts, Pieces
  <2>. QED
    BY <2>1, ClosingFacts, EventFacts DEF EventTypes
<1>4. /\ L0 \in Seq(Events) /\ L1 \in Seq(Events) /\ L0 = <<h>> \o L1
      /\ Left(a, i, s, "args.delta") = <<>>
  <2>1. "args.delta" \in EventTypes
    BY DEF EventTypes
  <2>. QED
    BY <1>0, <2>1, LeftFacts
<1>5. Fragments(a, i, "args.delta") = L0
  BY <1>0, FragmentsAreLeft
<1>6. Event("item.added", SubSeq(Body(a, i), 1, 1)) = g
  <2>1. SubSeq(Body(a, i), 1, 1) = Got(i, 1)
    <3>1. Body(a, i) = Got(i, s)
      BY BodyIsGot
    <3>2. SubSeq(Got(i, s), 1, 1) = Got(i, 1)
      BY <1>0 DEF Got
    <3>. QED
      BY <3>1, <3>2
  <2>. QED
    BY <2>1 DEF Again
<1>7. Head(L0) = h /\ Tail(L0) = L1
  BY <1>3, <1>4, HeadAndTail
<1>8. \/ left = <<first>> \o L0 \o end
      \/ left = <<whole>> \o end
      \/ left = <<first>> \o <<h, g>> \o L1 \o end
      \/ ~a.output[i].whole /\ left = <<first>> \o L0
  BY <1>1, <1>5, <1>6, <1>7 DEF OpenAICallEvents, Closing
<1>9. /\ L0 \o end \in OpenAIRest(a, i, 0)
      /\ <<h>> \o (<<g>> \o (L1 \o end)) \in OpenAIRest(a, i, 0)
      /\ ~a.output[i].whole => L0 \in OpenAIRest(a, i, 0)
      /\ Left(a, i, s, "args.delta") \o end \in OpenAIRest(a, i, s)
  BY DEF OpenAIRest
<1>. HIDE DEF first, whole, h, g, L0, L1, end, s
<1>10. CASE left = <<first>> \o L0 \o end
  <2>1. left = <<first>> \o (L0 \o end)
    <3>1. <<first>> \in Seq(Events)
      BY <1>3
    <3>. QED
      BY <1>3, <1>4, <1>10, <3>1, ConcatAssociative
  <2>2. L0 \o end \in Seq(Events)
    BY <1>3, <1>4
  <2>3. left # <<>> /\ Head(left) = first /\ Tail(left) = L0 \o end
    BY <1>3, <2>1, <2>2, HeadAndTail
  <2>. QED
    BY <1>2, <1>9, <2>3 DEF first
<1>11. CASE left = <<whole>> \o end
  <2>1. left # <<>> /\ Head(left) = whole /\ Tail(left) = end
    BY <1>3, <1>11, HeadAndTail
  <2>2. Left(a, i, s, "args.delta") \o end = end
    BY <1>3, <1>4, ConcatEmptySeq
  <2>. QED
    BY <1>2, <1>9, <2>1, <2>2 DEF whole, s
<1>12. CASE left = <<first>> \o <<h, g>> \o L1 \o end
  <2>1. /\ <<first>> \in Seq(Events) /\ <<h>> \in Seq(Events) /\ <<g>> \in Seq(Events)
        /\ <<h, g>> \in Seq(Events) /\ <<h, g>> = <<h>> \o <<g>>
    <3>1. <<first>> \in Seq(Events)
      BY <1>3
    <3>. QED
      BY <1>3, <3>1, PairIs
  <2>2. L1 \o end \in Seq(Events) /\ <<h, g>> \o L1 \in Seq(Events)
        /\ <<g>> \o (L1 \o end) \in Seq(Events)
    BY <1>3, <1>4, <2>1
  <2>3. <<first>> \o <<h, g>> \o L1 = <<first>> \o (<<h, g>> \o L1)
    BY <1>4, <2>1, ConcatAssociative
  <2>4. left = <<first>> \o ((<<h, g>> \o L1) \o end)
    BY <1>3, <1>12, <2>1, <2>2, <2>3, ConcatAssociative
  <2>5. (<<h, g>> \o L1) \o end = <<h, g>> \o (L1 \o end)
    BY <1>3, <1>4, <2>1, ConcatAssociative
  <2>6. <<h, g>> \o (L1 \o end) = <<h>> \o (<<g>> \o (L1 \o end))
    BY <2>1, <2>2, ConcatAssociative
  <2>7. <<h>> \o (<<g>> \o (L1 \o end)) \in Seq(Events)
    BY <2>1, <2>2
  <2>8. left # <<>> /\ Head(left) = first /\ Tail(left) = <<h>> \o (<<g>> \o (L1 \o end))
    BY <1>3, <2>4, <2>5, <2>6, <2>7, HeadAndTail
  <2>. QED
    BY <1>2, <1>9, <2>8 DEF first
<1>13. CASE ~a.output[i].whole /\ left = <<first>> \o L0
  <2>1. left # <<>> /\ Head(left) = first /\ Tail(left) = L0
    BY <1>3, <1>4, <1>13, HeadAndTail
  <2>. QED
    BY <1>2, <1>9, <1>13, <2>1 DEF first
<1>. QED
  BY <1>8, <1>10, <1>11, <1>12, <1>13

(* The next event of an OpenAI call that has been announced.               *)
LEMMA OpenAINext ==
    ASSUME NEW a \in Answers, a.provider = "openai", NEW i \in CallParts(a),
           NEW j \in 0..Size(a, i), NEW left \in Rest(a, i, j)
    PROVE  \/ left = <<>> /\ ~a.output[i].whole
           \/ /\ left # <<>> /\ j < Size(a, i)
              /\ Head(left) = Event("args.delta", <<<<i, j + 1>>>>) /\ Tail(left) \in Rest(a, i, j + 1)
           \/ /\ left # <<>> /\ j = Size(a, i)
              /\ Head(left) = Event("args.done", Body(a, i)) /\ Tail(left) \in Rest(a, i, j)
           \/ /\ left # <<>> /\ j = 1
              /\ Head(left) = Event("item.added", Got(i, 1)) /\ Tail(left) \in Rest(a, i, j)
           \/ /\ left # <<>> /\ j = Size(a, i)
              /\ Head(left) = Event("item.done", Body(a, i)) /\ Tail(left) = <<>>
<1>. DEFINE s == Size(a, i)
            type == "args.delta"
            h == Event(type, <<<<i, j + 1>>>>)
            L == Left(a, i, j, type)
            M == Left(a, i, j + 1, type)
            end == Closing(a, i)
            done == Event("item.done", Body(a, i))
            again == Again(i)
<1>0. i \in Nat /\ s \in Nat /\ s # 0 /\ j \in Nat
  <2>1. i \in PartsIn(a) /\ a.output[i].kind = "call"
    BY DEF CallParts
  <2>2. i \in Nat /\ s \in Nat /\ s # 0
    BY <2>1, PartFacts
  <2>. QED
    BY <2>2
<1>1. Rest(a, i, j) = OpenAIRest(a, i, j) /\ Rest(a, i, j + 1) = OpenAIRest(a, i, j + 1)
  BY DEF Rest
<1>2. /\ end \in Seq(Events) /\ end # <<>> /\ Head(end) = Event("args.done", Body(a, i))
      /\ Tail(end) = <<done>> /\ done \in Events /\ again \in Events
  BY ClosingFacts
<1>3. /\ L \in Seq(Events)
      /\ j = s => L = <<>>
      /\ j < s => L = <<h>> \o M
  BY <1>0, LeftStep DEF EventTypes
<1>4. j < s => M \in Seq(Events)
  <2>1. ASSUME j < s PROVE j + 1 \in 0..s
    BY <1>0, <2>1
  <2>. QED
    BY <1>0, <2>1, LeftStep DEF EventTypes
<1>5. h \in Events
  <2>1. <<<<i, j + 1>>>> \in Texts
    BY <1>0, GotFacts
  <2>. QED
    BY <2>1, EventFacts DEF EventTypes
<1>6. \/ left = L \o end
      \/ ~a.output[i].whole /\ left = L
      \/ j = 0 /\ left = <<Event(type, <<<<i, 1>>>>)>> \o (<<again>> \o (Left(a, i, 1, type) \o end))
      \/ j = 1 /\ left = <<again>> \o (Left(a, i, 1, type) \o end)
      \/ j = s /\ left = <<done>>
  BY <1>1 DEF OpenAIRest
<1>7. /\ M \o end \in OpenAIRest(a, i, j + 1)
      /\ ~a.output[i].whole => M \in OpenAIRest(a, i, j + 1)
      /\ j = 0 => <<again>> \o (Left(a, i, 1, type) \o end) \in OpenAIRest(a, i, j + 1)
      /\ j = 1 => Left(a, i, 1, type) \o end \in OpenAIRest(a, i, j)
      /\ j = s => <<done>> \in OpenAIRest(a, i, j)
  <2>1. M \o end \in OpenAIRest(a, i, j + 1)
    BY DEF OpenAIRest
  <2>2. ~a.output[i].whole => M \in OpenAIRest(a, i, j + 1)
    BY DEF OpenAIRest
  <2>3. j = 0 => <<again>> \o (Left(a, i, 1, type) \o end) \in OpenAIRest(a, i, j + 1)
    <3>1. <<again>> \o (Left(a, i, 1, type) \o end) \in OpenAIRest(a, i, 1)
      BY DEF OpenAIRest
    <3>2. j = 0 => j + 1 = 1
      BY <1>0
    <3>. QED
      BY <3>1, <3>2
  <2>4. j = 1 => Left(a, i, 1, type) \o end \in OpenAIRest(a, i, j)
    BY DEF OpenAIRest
  <2>5. j = s => <<done>> \in OpenAIRest(a, i, j)
    BY DEF OpenAIRest
  <2>. QED
    BY <2>1, <2>2, <2>3, <2>4, <2>5
<1>8. again = Event("item.added", Got(i, 1))
  BY DEF Again
<1>9. Left(a, i, 1, type) \in Seq(Events)
  <2>1. "args.delta" \in EventTypes
    BY DEF EventTypes
  <2>. QED
    BY <1>0, <2>1, LeftFacts
<1>10. j = 0 => Event(type, <<<<i, 1>>>>) = h
  BY <1>0
<1>11. j < s \/ j = s
  BY <1>0
<1>. HIDE DEF s, h, L, M, end, done, again, type
<1>12. CASE left = L \o end
  <2>1. CASE j < s
    <3>1. left = <<h>> \o (M \o end) /\ M \o end \in Seq(Events)
      <4>1. <<h>> \in Seq(Events) /\ M \in Seq(Events)
        BY <1>4, <1>5, <2>1
      <4>2. (<<h>> \o M) \o end = <<h>> \o (M \o end)
        BY <1>2, <4>1, ConcatAssociative
      <4>3. M \o end \in Seq(Events)
        BY <1>2, <4>1
      <4>. QED
        BY <1>3, <1>12, <2>1, <4>2, <4>3
    <3>2. left # <<>> /\ Head(left) = h /\ Tail(left) = M \o end
      BY <1>5, <3>1, HeadAndTail
    <3>. QED
      BY <1>1, <1>7, <2>1, <3>2 DEF h, s, type
  <2>2. CASE j = s
    <3>1. left = end
      BY <1>2, <1>3, <1>12, <2>2, ConcatEmptySeq
    <3>. QED
      BY <1>1, <1>2, <1>7, <2>2, <3>1 DEF s
  <2>. QED
    BY <1>11, <2>1, <2>2
<1>13. CASE ~a.output[i].whole /\ left = L
  <2>1. CASE j < s
    <3>1. left # <<>> /\ Head(left) = h /\ Tail(left) = M
      BY <1>3, <1>4, <1>5, <1>13, <2>1, HeadAndTail
    <3>. QED
      BY <1>1, <1>7, <1>13, <2>1, <3>1 DEF h, s, type
  <2>2. CASE j = s
    BY <1>3, <1>13, <2>2
  <2>. QED
    BY <1>11, <2>1, <2>2
<1>14. CASE j = 0 /\ left = <<Event(type, <<<<i, 1>>>>)>> \o (<<again>> \o (Left(a, i, 1, type) \o end))
  <2>. DEFINE t == <<again>> \o (Left(a, i, 1, type) \o end)
  <2>1. Left(a, i, 1, type) \o end \in Seq(Events)
    BY <1>2, <1>9
  <2>2. t \in Seq(Events)
    BY <1>2, <2>1, HeadAndTail
  <2>3. left = <<h>> \o t
    BY <1>10, <1>14
  <2>4. t \in Rest(a, i, j + 1)
    BY <1>1, <1>7, <1>14
  <2>. HIDE DEF t
  <2>5. left # <<>> /\ Head(left) = h /\ Tail(left) = t
    BY <1>5, <2>2, <2>3, HeadAndTail
  <2>6. j < s
    BY <1>0, <1>14
  <2>. QED
    BY <2>4, <2>5, <2>6 DEF h, s, type
<1>15. CASE j = 1 /\ left = <<again>> \o (Left(a, i, 1, type) \o end)
  <2>1. Left(a, i, 1, type) \o end \in Seq(Events)
    BY <1>2, <1>9
  <2>2. left # <<>> /\ Head(left) = again /\ Tail(left) = Left(a, i, 1, type) \o end
    BY <1>2, <1>15, <2>1, HeadAndTail
  <2>. QED
    BY <1>1, <1>7, <1>8, <1>15, <2>2
<1>16. CASE j = s /\ left = <<done>>
  <2>1. left # <<>> /\ Head(left) = done /\ Tail(left) = <<>>
    BY <1>2, <1>16
  <2>. QED
    BY <1>16, <2>1 DEF done, s
<1>. QED
  BY <1>6, <1>12, <1>13, <1>14, <1>15, <1>16

LEMMA AnthropicFirst ==
    ASSUME NEW a \in Answers, a.provider # "openai", NEW i \in CallParts(a),
           NEW left \in PartEvents(a, i)
    PROVE  left # <<>> /\ Head(left) = Event("block.start", <<>>) /\ Tail(left) \in Rest(a, i, 0)
<1>. DEFINE first == Event("block.start", <<>>)
            stop == Event("block.stop", <<>>)
            L == Left(a, i, 0, "json.delta")
<1>0. i \in Nat /\ Size(a, i) \in Nat
  BY ClosingFacts
<1>1. left \in AnthropicCallEvents(a, i)
  BY DEF PartEvents, CallParts
<1>2. Fragments(a, i, "json.delta") = L
  BY <1>0, FragmentsAreLeft
<1>3. \/ left = <<first>> \o L \o <<stop>>
      \/ ~a.output[i].whole /\ left = <<first>> \o L
  BY <1>1, <1>2 DEF AnthropicCallEvents
<1>4. L \o <<stop>> \in Rest(a, i, 0) /\ (~a.output[i].whole => L \in Rest(a, i, 0))
  BY DEF Rest, AnthropicRest
<1>5. first \in Events /\ stop \in Events
  <2>1. <<>> \in Texts
    BY DEF Texts
  <2>. QED
    BY <2>1, EventFacts DEF EventTypes
<1>6. L \in Seq(Events)
  <2>1. "json.delta" \in EventTypes
    BY DEF EventTypes
  <2>. QED
    BY <1>0, <2>1, LeftFacts
<1>. HIDE DEF first, stop, L
<1>7. CASE left = <<first>> \o L \o <<stop>>
  <2>1. <<first>> \in Seq(Events) /\ <<stop>> \in Seq(Events) /\ L \o <<stop>> \in Seq(Events)
    BY <1>5, <1>6
  <2>2. left = <<first>> \o (L \o <<stop>>)
    BY <1>6, <1>7, <2>1, ConcatAssociative
  <2>3. left # <<>> /\ Head(left) = first /\ Tail(left) = L \o <<stop>>
    BY <1>5, <2>1, <2>2, HeadAndTail
  <2>. QED
    BY <1>4, <2>3 DEF first
<1>8. CASE ~a.output[i].whole /\ left = <<first>> \o L
  BY <1>4, <1>5, <1>6, <1>8, HeadAndTail DEF first
<1>. QED
  BY <1>3, <1>7, <1>8

LEMMA AnthropicNext ==
    ASSUME NEW a \in Answers, a.provider # "openai", NEW i \in CallParts(a),
           NEW j \in 0..Size(a, i), NEW left \in Rest(a, i, j)
    PROVE  \/ left = <<>> /\ ~a.output[i].whole
           \/ /\ left # <<>> /\ j < Size(a, i)
              /\ Head(left) = Event("json.delta", <<<<i, j + 1>>>>) /\ Tail(left) \in Rest(a, i, j + 1)
           \/ /\ left # <<>> /\ j = Size(a, i)
              /\ Head(left) = Event("block.stop", <<>>) /\ Tail(left) = <<>>
<1>. DEFINE s == Size(a, i)
            type == "json.delta"
            stop == Event("block.stop", <<>>)
            h == Event(type, <<<<i, j + 1>>>>)
            L == Left(a, i, j, type)
            M == Left(a, i, j + 1, type)
<1>0. i \in Nat /\ s \in Nat /\ j \in Nat
  BY ClosingFacts
<1>1. \/ left = L \o <<stop>>
      \/ ~a.output[i].whole /\ left = L
  BY DEF Rest, AnthropicRest
<1>2. M \o <<stop>> \in Rest(a, i, j + 1) /\ (~a.output[i].whole => M \in Rest(a, i, j + 1))
  BY DEF Rest, AnthropicRest
<1>3. /\ L \in Seq(Events)
      /\ j = s => L = <<>>
      /\ j < s => L = <<h>> \o M
  BY <1>0, LeftStep DEF EventTypes
<1>4. j < s => M \in Seq(Events)
  <2>1. ASSUME j < s PROVE j + 1 \in 0..s
    BY <1>0, <2>1
  <2>. QED
    BY <1>0, <2>1, LeftStep DEF EventTypes
<1>5. h \in Events /\ stop \in Events
  <2>1. <<<<i, j + 1>>>> \in Texts /\ <<>> \in Texts
    BY <1>0, GotFacts DEF Texts
  <2>. QED
    BY <2>1, EventFacts DEF EventTypes
<1>6. j < s \/ j = s
  BY <1>0
<1>. HIDE DEF s, h, L, M, stop, type
<1>7. CASE left = L \o <<stop>>
  <2>0. <<stop>> \in Seq(Events) /\ <<stop>> # <<>> /\ Head(<<stop>>) = stop /\ Tail(<<stop>>) = <<>>
    BY <1>5
  <2>1. CASE j < s
    <3>1. left = <<h>> \o (M \o <<stop>>) /\ M \o <<stop>> \in Seq(Events)
      <4>1. <<h>> \in Seq(Events) /\ M \in Seq(Events)
        BY <1>4, <1>5, <2>1
      <4>2. (<<h>> \o M) \o <<stop>> = <<h>> \o (M \o <<stop>>)
        BY <2>0, <4>1, ConcatAssociative
      <4>3. M \o <<stop>> \in Seq(Events)
        BY <2>0, <4>1
      <4>. QED
        BY <1>3, <1>7, <2>1, <4>2, <4>3
    <3>2. left # <<>> /\ Head(left) = h /\ Tail(left) = M \o <<stop>>
      BY <1>5, <3>1, HeadAndTail
    <3>. QED
      BY <1>2, <2>1, <3>2 DEF h, s, type
  <2>2. CASE j = s
    <3>1. left = <<stop>>
      BY <1>3, <1>7, <2>0, <2>2, ConcatEmptySeq
    <3>. QED
      BY <2>0, <2>2, <3>1 DEF s, stop
  <2>. QED
    BY <1>6, <2>1, <2>2
<1>8. CASE ~a.output[i].whole /\ left = L
  <2>1. CASE j < s
    <3>1. left # <<>> /\ Head(left) = h /\ Tail(left) = M
      BY <1>3, <1>4, <1>5, <1>8, <2>1, HeadAndTail
    <3>. QED
      BY <1>2, <1>8, <2>1, <3>1 DEF h, s, type
  <2>2. CASE j = s
    BY <1>3, <1>8, <2>2
  <2>. QED
    BY <1>6, <2>1, <2>2
<1>. QED
  BY <1>1, <1>7, <1>8

-----------------------------------------------------------------------------
(* OpenAI and Anthropic: one event of a part, and what it leaves alone.    *)

LEMMA CallIds ==
    ASSUME NEW a \in Answers, NEW i \in CallParts(a)
    PROVE  /\ i \in PartsIn(a) /\ i \in Nat /\ i \notin TextParts(a)
           /\ CallId(i) \in Ids /\ CallId(i) # <<>> /\ CallId(i)[2] = i
           /\ \A k \in CallParts(a) : k # i => CallId(k) # CallId(i) /\ Key(a, k) # Key(a, i)
<1>1. \A k \in CallParts(a) : k \in Nat
  BY PartFacts DEF CallParts
<1>2. i \in PartsIn(a) /\ i \notin TextParts(a)
  BY DEF CallParts, TextParts
<1>3. CallId(i) \in Ids /\ CallId(i) # <<>> /\ CallId(i)[2] = i
  BY <1>1 DEF CallId, Ids
<1>4. ASSUME NEW k \in CallParts(a), k # i PROVE CallId(k) # CallId(i) /\ Key(a, k) # Key(a, i)
  BY <1>4 DEF CallId, Key, ItemId
<1>. QED
  BY <1>1, <1>2, <1>3, <1>4

LEMMA StageElsewhere ==
    ASSUME NEW a \in Answers, NEW k \in CallParts(a), NEW left, NEW tl, NEW ul,
           NEW t \in Turns, NEW u \in Turns, NEW cs \in Seq(Chunks), NEW c \in Chunks,
           c.id # CallId(k), SameCall(t, u, CallId(k)),
           Key(a, k) \in DOMAIN ul <=> Key(a, k) \in DOMAIN tl,
           Key(a, k) \in DOMAIN tl => ul[Key(a, k)] = tl[Key(a, k)],
           Stage(a, k, left, tl, t, cs)
    PROVE  Stage(a, k, left, ul, u, Append(cs, c))
<1>. DEFINE r == Append(cs, c)
            id == CallId(k)
<1>1. /\ Unseen(t, cs, id) => Unseen(u, r, id)
      /\ \A name, got : Begun(t, cs, id, name, got) => Begun(u, r, id, name, got)
      /\ \A name, args : Told(t, id, name, args) => Told(u, id, name, args)
  BY Elsewhere
<1>. HIDE DEF r, id
<1>2. CASE Waiting(a, k, left, tl, t, cs)
  BY <1>1, <1>2 DEF Stage, Waiting, id, r
<1>3. CASE Open(a, k, left, tl, t, cs)
  <2>1. PICK j \in 0..Size(a, k) : OpenAt(a, k, left, tl, t, cs, j)
    BY <1>3 DEF Open
  <2>2. OpenAt(a, k, left, ul, u, r, j)
    BY <1>1, <2>1 DEF OpenAt, id
  <2>. QED
    BY <2>1, <2>2 DEF Stage, Open, r
<1>4. CASE Over(a, k, left, tl, t, cs)
  BY <1>1, <1>4 DEF Stage, Over, id
<1>. QED
  BY <1>2, <1>3, <1>4 DEF Stage

LEMMA TextFrame ==
    ASSUME NEW a \in Answers, NEW td, DOMAIN td = PartsIn(a), NEW t, NEW u, u.text = t.text,
           NEW i \in PartsIn(a), i \notin TextParts(a), td[i] # <<>>,
           NEW left, i \in CallParts(a) \/ left \in Seq(SilentEvents),
           TextInOrder(a, td, t), Silent(a, td)
    PROVE  TextInOrder(a, [td EXCEPT ![i] = left], u) /\ Silent(a, [td EXCEPT ![i] = left])
<1>. DEFINE ud == [td EXCEPT ![i] = left]
<1>2. DOMAIN ud = PartsIn(a) /\ ud[i] = left /\ \A k \in PartsIn(a) : k # i => ud[k] = td[k]
  OBVIOUS
<1>. HIDE DEF ud
<1>3. \A k \in TextParts(a) : k \in PartsIn(a) /\ k # i
  BY DEF TextParts
<1>4. TextSent(a, ud) = TextSent(a, td)
  BY <1>2, <1>3 DEF TextSent
<1>5. TextInOrder(a, ud, u)
  <2>1. \A k \in TextParts(a) : TextLeft(a, k, ud[k])
    BY <1>2, <1>3 DEF TextInOrder
  <2>2. Ordered(u.text, PieceBefore) /\ Elements(u.text) = TextSent(a, ud)
    BY <1>4 DEF TextInOrder
  <2>3. ASSUME NEW w \in Elements(u.text), NEW k \in PartsIn(a), k < w[1] PROVE ud[k] = <<>>
    <3>1. td[k] = <<>>
      BY <2>3 DEF TextInOrder
    <3>. QED
      BY <1>2, <3>1
  <2>. QED
    BY <2>1, <2>2, <2>3 DEF TextInOrder
<1>6. Silent(a, ud)
  BY <1>2 DEF Silent
<1>. QED
  BY <1>5, <1>6 DEF ud

LEMMA WithToolFacts ==
    ASSUME NEW a \in Answers, NEW tl, ToolsOfParts(a, tl), NEW i \in CallParts(a), NEW tool
    PROVE  LET key == Key(a, i)
               ul == WithTool(tl, key, tool)
               vl == WithoutTool(tl, key)
           IN  /\ ToolsOfParts(a, ul) /\ key \in DOMAIN ul /\ ul[key] = tool
               /\ ToolsOfParts(a, vl) /\ key \notin DOMAIN vl
               /\ \A k \in CallParts(a) : k # i =>
                    /\ Key(a, k) \in DOMAIN ul <=> Key(a, k) \in DOMAIN tl
                    /\ Key(a, k) \in DOMAIN tl => ul[Key(a, k)] = tl[Key(a, k)]
                    /\ Key(a, k) \in DOMAIN vl <=> Key(a, k) \in DOMAIN tl
                    /\ Key(a, k) \in DOMAIN tl => vl[Key(a, k)] = tl[Key(a, k)]
               /\ key \in DOMAIN tl /\ tl[key] = tool => ul = tl
<1>. DEFINE key == Key(a, i)
            ul == WithTool(tl, key, tool)
            vl == WithoutTool(tl, key)
<1>1. /\ DOMAIN ul = DOMAIN tl \cup {key}
      /\ ul = [k \in DOMAIN tl \cup {key} |-> IF k = key THEN tool ELSE tl[k]]
      /\ ul = [k \in DOMAIN ul |-> ul[k]]
  BY DEF WithTool
<1>2. /\ DOMAIN vl = DOMAIN tl \ {key}
      /\ vl = [k \in DOMAIN tl \ {key} |-> tl[k]]
      /\ vl = [k \in DOMAIN vl |-> vl[k]]
  BY DEF WithoutTool
<1>3. tl = [k \in DOMAIN tl |-> tl[k]] /\ \A k \in DOMAIN tl : \E j \in CallParts(a) : k = Key(a, j)
  BY DEF ToolsOfParts
<1>4. \A k \in CallParts(a) : k # i => Key(a, k) # key
  BY CallIds
<1>. HIDE DEF key, ul, vl
<1>5. /\ key \in DOMAIN ul /\ ul[key] = tool /\ key \notin DOMAIN vl
      /\ \A k \in CallParts(a) : k # i =>
           /\ Key(a, k) \in DOMAIN ul <=> Key(a, k) \in DOMAIN tl
           /\ Key(a, k) \in DOMAIN tl => ul[Key(a, k)] = tl[Key(a, k)]
           /\ Key(a, k) \in DOMAIN vl <=> Key(a, k) \in DOMAIN tl
           /\ Key(a, k) \in DOMAIN tl => vl[Key(a, k)] = tl[Key(a, k)]
  BY <1>1, <1>2, <1>4
<1>6. ToolsOfParts(a, ul)
  BY <1>1, <1>3 DEF ToolsOfParts, key
<1>7. ToolsOfParts(a, vl)
  BY <1>2, <1>3 DEF ToolsOfParts
<1>8. ASSUME key \in DOMAIN tl, tl[key] = tool PROVE ul = tl
  <2>1. DOMAIN ul = DOMAIN tl /\ \A k \in DOMAIN tl : ul[k] = tl[k]
    BY <1>1, <1>8
  <2>. QED
    BY <1>1, <1>3, <2>1
<1>. QED
  BY <1>5, <1>6, <1>7, <1>8 DEF key, ul, vl

(* A part's call starts.                                                   *)
LEMMA BlockStart ==
    ASSUME NEW a \in Answers, NEW td, NEW tl, NEW tn, NEW ch, Blocks(a, td, tl, tn, ch),
           NEW i \in CallParts(a), Waiting(a, i, td[i], tl, tn, ch), td[i] # <<>>,
           \A k \in CallParts(a) : k < i => ~Waiting(a, k, td[k], tl, tn, ch),
           NEW left \in Rest(a, i, 0),
           NEW c \in Chunks, c.type = "tool-call-start", c.id = CallId(i), c.name = a.output[i].name
    PROVE  Blocks(a, [td EXCEPT ![i] = left], WithTool(tl, Key(a, i), ToolAt(a, i, 0)),
                  Collected(tn, c), Append(ch, c))
<1>. DEFINE ud == [td EXCEPT ![i] = left]
            ul == WithTool(tl, Key(a, i), ToolAt(a, i, 0))
            u == Collected(tn, c)
            r == Append(ch, c)
            e == [id |-> c.id, name |-> c.name, args |-> Missing]
            n == Len(tn.calls)
<1>1. tn \in Turns /\ tn.valid /\ tn.finish = "none" /\ ch \in Seq(Chunks) /\ Lifecycle(ch) /\ NotDone(ch)
  BY DEF Blocks, Common
<1>2. Unseen(tn, ch, c.id)
  BY DEF Waiting
<1>3. /\ u \in Turns /\ u.valid /\ u.text = tn.text /\ u.finish = tn.finish
      /\ u.calls = Append(tn.calls, e)
      /\ Begun(u, r, c.id, c.name, <<>>)
      /\ \A id : id # c.id => SameCall(tn, u, id)
  BY <1>1, <1>2, StartStep
<1>4. Common(u, r)
  <2>1. Ends(ch, c.id) = {}
    BY <1>2 DEF Unseen, Ends, AtIn
  <2>2. Lifecycle(r)
    BY <1>1, <2>1, LifecycleAppend
  <2>3. NotDone(r)
    BY <1>1, NotDoneAppend
  <2>4. r \in Seq(Chunks)
    BY <1>1
  <2>. QED
    BY <1>1, <1>3, <2>2, <2>3, <2>4 DEF Common
<1>5. i \in PartsIn(a) /\ i \in Nat /\ CallId(i)[2] = i
  BY CallIds
<1>6. DOMAIN td = PartsIn(a) /\ ToolsOfParts(a, tl)
  BY DEF Blocks
<1>7. /\ ToolsOfParts(a, ul) /\ Key(a, i) \in DOMAIN ul /\ ul[Key(a, i)] = ToolAt(a, i, 0)
      /\ \A k \in CallParts(a) : k # i =>
           /\ Key(a, k) \in DOMAIN ul <=> Key(a, k) \in DOMAIN tl
           /\ Key(a, k) \in DOMAIN tl => ul[Key(a, k)] = tl[Key(a, k)]
  BY <1>6, WithToolFacts
<1>8. DOMAIN ud = PartsIn(a) /\ ud[i] = left /\ \A k \in PartsIn(a) : k # i => ud[k] = td[k]
  BY <1>5, <1>6
<1>9. TextInOrder(a, ud, u) /\ Silent(a, ud)
  BY <1>3, <1>6, CallIds, TextFrame DEF Blocks
<1>. HIDE DEF ud, ul, u, r, e
<1>10. ASSUME NEW k \in CallParts(a) PROVE Stage(a, k, ud[k], ul, u, r)
  <2>1. CASE k = i
    <3>1. 0 \in 0..Size(a, i)
      BY ClosingFacts
    <3>2. Got(i, 0) = <<>>
      BY <1>5, GotFacts
    <3>3. OpenAt(a, i, left, ul, u, r, 0)
      BY <1>3, <1>7, <3>2 DEF OpenAt
    <3>. QED
      BY <1>8, <2>1, <3>1, <3>3 DEF Stage, Open
  <2>2. CASE k # i
    <3>1. k \in PartsIn(a) /\ CallId(k) # c.id
      BY <2>2, CallIds
    <3>2. Stage(a, k, td[k], tl, tn, ch)
      BY DEF Blocks
    <3>3. Stage(a, k, td[k], ul, u, Append(ch, c))
      BY <1>1, <1>3, <1>7, <2>2, <3>1, <3>2, StageElsewhere
    <3>. QED
      BY <1>8, <2>2, <3>1, <3>3 DEF r
  <2>. QED
    BY <2>1, <2>2
<1>11. CallsInOrder(a, u)
  <2>1. tn.calls \in Seq(Called) /\ n \in Nat
    BY <1>1, CallTypes
  <2>2. /\ Len(u.calls) = n + 1 /\ u.calls[n + 1] = e /\ \A m \in 1..n : u.calls[m] = tn.calls[m]
    <3>1. u.calls \in Seq(Called)
      BY <1>3, CallTypes
    <3>. QED
      BY <1>3, <2>1
  <2>3. \A k \in CallParts(a) : Pending(tn, CallId(k)) # {} => Pending(u, CallId(k)) # {}
    <3>1. SUFFICES ASSUME NEW k \in CallParts(a), Pending(tn, CallId(k)) # {}
                   PROVE  Pending(u, CallId(k)) # {}
      OBVIOUS
    <3>2. CallId(k) # c.id
      BY <1>2, <3>1 DEF Unseen
    <3>. QED
      BY <1>1, <1>3, <3>1, <3>2, PendingElsewhere
  <2>4. ASSUME NEW k \in CallParts(a), k < i PROVE Pending(u, CallId(k)) # {}
    <3>1. k # i /\ ~Waiting(a, k, td[k], tl, tn, ch)
      BY <1>5, <2>4, CallIds
    <3>2. Open(a, k, td[k], tl, tn, ch) \/ Over(a, k, td[k], tl, tn, ch)
      BY <3>1 DEF Blocks, Stage
    <3>3. Pending(tn, CallId(k)) # {}
      BY <3>2 DEF Open, OpenAt, Over, Begun, BegunAt, Told
    <3>. QED
      BY <2>3, <3>3
  <2>5. ASSUME NEW m \in 1..n
        PROVE  \E k \in CallParts(a) : CallOfPart(a, u, m, k) /\ k < i
    <3>1. PICK k \in CallParts(a) : CallOfPart(a, tn, m, k)
      BY DEF Blocks, CallsInOrder
    <3>2. CallOfPart(a, u, m, k)
      BY <2>2, <2>3, <3>1 DEF CallOfPart
    <3>3. k # i
      <4>1. tn.calls[m].id = CallId(k)
        BY <3>1 DEF CallOfPart
      <4>2. m \in DOMAIN tn.calls
        BY <2>1
      <4>. QED
        BY <1>2, <4>1, <4>2 DEF Unseen, Pending
    <3>4. ~(i < k)
      BY <1>2, <3>1 DEF CallOfPart, Unseen
    <3>. QED
      BY <1>5, <3>2, <3>3, <3>4, CallIds
  <2>6. CallOfPart(a, u, n + 1, i)
    BY <2>2, <2>4 DEF CallOfPart, e
  <2>. HIDE DEF n
  <2>7. \A m \in 1..Len(u.calls) : m \in 1..n \/ m = n + 1
    BY <2>1, <2>2
  <2>8. \A m \in 1..Len(u.calls) : \E k \in CallParts(a) : CallOfPart(a, u, m, k)
    BY <2>5, <2>6, <2>7
  <2>9. ASSUME NEW m \in 1..Len(u.calls), NEW x \in 1..Len(u.calls), m < x
        PROVE  u.calls[m].id[2] < u.calls[x].id[2]
    <3>0. m \in 1..n
      BY <2>1, <2>2, <2>9
    <3>1. CASE x \in 1..n
      <4>1. tn.calls[m].id[2] < tn.calls[x].id[2]
        BY <2>9, <3>0, <3>1 DEF Blocks, CallsInOrder, n
      <4>. QED
        BY <2>2, <3>0, <3>1, <4>1
    <3>2. CASE x = n + 1
      <4>1. PICK k \in CallParts(a) : CallOfPart(a, u, m, k) /\ k < i
        BY <2>5, <3>0
      <4>2. u.calls[m].id = CallId(k) /\ CallId(k)[2] = k
        BY <4>1, CallIds DEF CallOfPart
      <4>3. u.calls[x].id[2] = i
        BY <1>5, <2>2, <3>2 DEF e
      <4>. QED
        BY <4>1, <4>2, <4>3
    <3>. QED
      BY <2>7, <3>1, <3>2
  <2>. QED
    BY <2>8, <2>9 DEF CallsInOrder
<1>. QED
  BY <1>4, <1>7, <1>8, <1>9, <1>10, <1>11 DEF Blocks, ud, ul, u, r

(* A fragment of a call's arguments, which may be all of them.             *)
LEMMA BlockDelta ==
    ASSUME NEW a \in Answers, NEW td, NEW tl, NEW tn, NEW ch, Blocks(a, td, tl, tn, ch),
           NEW i \in CallParts(a), td[i] # <<>>, NEW j, OpenAt(a, i, td[i], tl, tn, ch, j),
           NEW l \in 0..Size(a, i), NEW left \in Rest(a, i, l),
           NEW c \in Chunks, c.type = "tool-call-delta", c.id = CallId(i), Got(i, j) \o c.json = Got(i, l)
    PROVE  /\ Collected(tn, c) = tn
           /\ Blocks(a, [td EXCEPT ![i] = left], WithTool(tl, Key(a, i), ToolAt(a, i, l)), tn, Append(ch, c))
<1>. DEFINE ud == [td EXCEPT ![i] = left]
            ul == WithTool(tl, Key(a, i), ToolAt(a, i, l))
            r == Append(ch, c)
<1>1. tn \in Turns /\ tn.valid /\ tn.finish = "none" /\ ch \in Seq(Chunks) /\ Lifecycle(ch) /\ NotDone(ch)
  BY DEF Blocks, Common
<1>2. Begun(tn, ch, c.id, a.output[i].name, Got(i, j))
  BY DEF OpenAt
<1>3. Collected(tn, c) = tn /\ Begun(tn, r, c.id, a.output[i].name, Got(i, l))
  BY <1>1, <1>2, DeltaStep
<1>4. Common(tn, r)
  <2>1. Ends(ch, c.id) = {}
    BY <1>2 DEF Begun, BegunAt
  <2>2. Lifecycle(r)
    BY <1>1, <2>1, LifecycleAppend
  <2>3. NotDone(r)
    BY <1>1, NotDoneAppend
  <2>4. r \in Seq(Chunks)
    BY <1>1
  <2>. QED
    BY <1>1, <2>2, <2>3, <2>4 DEF Common
<1>5. i \in PartsIn(a) /\ i \notin TextParts(a)
  BY CallIds
<1>6. DOMAIN td = PartsIn(a) /\ ToolsOfParts(a, tl)
  BY DEF Blocks
<1>7. /\ ToolsOfParts(a, ul) /\ Key(a, i) \in DOMAIN ul /\ ul[Key(a, i)] = ToolAt(a, i, l)
      /\ \A k \in CallParts(a) : k # i =>
           /\ Key(a, k) \in DOMAIN ul <=> Key(a, k) \in DOMAIN tl
           /\ Key(a, k) \in DOMAIN tl => ul[Key(a, k)] = tl[Key(a, k)]
  BY <1>6, WithToolFacts
<1>8. DOMAIN ud = PartsIn(a) /\ ud[i] = left /\ \A k \in PartsIn(a) : k # i => ud[k] = td[k]
  BY <1>5, <1>6
<1>9. TextInOrder(a, ud, tn) /\ Silent(a, ud)
  BY <1>5, <1>6, TextFrame DEF Blocks
<1>. HIDE DEF ud, ul, r
<1>10. ASSUME NEW k \in CallParts(a) PROVE Stage(a, k, ud[k], ul, tn, r)
  <2>1. CASE k = i
    <3>1. OpenAt(a, i, left, ul, tn, r, l)
      BY <1>3, <1>7 DEF OpenAt
    <3>. QED
      BY <1>8, <2>1, <3>1 DEF Stage, Open
  <2>2. CASE k # i
    <3>1. k \in PartsIn(a) /\ CallId(k) # c.id
      BY <2>2, CallIds
    <3>2. Stage(a, k, td[k], tl, tn, ch)
      BY DEF Blocks
    <3>3. SameCall(tn, tn, CallId(k))
      BY DEF SameCall
    <3>4. Stage(a, k, td[k], ul, tn, Append(ch, c))
      BY <1>1, <1>7, <2>2, <3>1, <3>2, <3>3, StageElsewhere
    <3>. QED
      BY <1>8, <2>2, <3>1, <3>4 DEF r
  <2>. QED
    BY <2>1, <2>2
<1>11. CallsInOrder(a, tn)
  BY DEF Blocks
<1>. QED
  BY <1>3, <1>4, <1>7, <1>8, <1>9, <1>10, <1>11 DEF Blocks, ud, ul, r

(* An event of an open call that changes nothing.                          *)
LEMMA BlockQuiet ==
    ASSUME NEW a \in Answers, NEW td, NEW tl, NEW tn, NEW ch, Blocks(a, td, tl, tn, ch),
           NEW i \in CallParts(a), td[i] # <<>>,
           NEW j \in 0..Size(a, i), OpenAt(a, i, td[i], tl, tn, ch, j), NEW left \in Rest(a, i, j)
    PROVE  /\ Blocks(a, [td EXCEPT ![i] = left], tl, tn, ch)
           /\ WithTool(tl, Key(a, i), ToolAt(a, i, j)) = tl
<1>. DEFINE ud == [td EXCEPT ![i] = left]
<1>1. i \in PartsIn(a) /\ i \notin TextParts(a)
  BY CallIds
<1>2. DOMAIN td = PartsIn(a) /\ ToolsOfParts(a, tl)
  BY DEF Blocks
<1>3. DOMAIN ud = PartsIn(a) /\ ud[i] = left /\ \A k \in PartsIn(a) : k # i => ud[k] = td[k]
  BY <1>1, <1>2
<1>4. TextInOrder(a, ud, tn) /\ Silent(a, ud)
  BY <1>1, <1>2, TextFrame DEF Blocks
<1>5. WithTool(tl, Key(a, i), ToolAt(a, i, j)) = tl
  <2>1. Key(a, i) \in DOMAIN tl /\ tl[Key(a, i)] = ToolAt(a, i, j)
    BY DEF OpenAt
  <2>. QED
    BY <1>2, <2>1, WithToolFacts
<1>. HIDE DEF ud
<1>6. ASSUME NEW k \in CallParts(a) PROVE Stage(a, k, ud[k], tl, tn, ch)
  <2>1. CASE k = i
    <3>1. OpenAt(a, i, left, tl, tn, ch, j)
      BY DEF OpenAt
    <3>. QED
      BY <1>3, <2>1, <3>1 DEF Stage, Open
  <2>2. CASE k # i
    <3>1. k \in PartsIn(a)
      BY CallIds
    <3>. QED
      BY <1>3, <2>2, <3>1 DEF Blocks
  <2>. QED
    BY <2>1, <2>2
<1>. QED
  BY <1>2, <1>3, <1>4, <1>5, <1>6 DEF Blocks, ud

(* The arguments of a call, all of whose fragments have been told.         *)
LEMMA BlockArguments ==
    ASSUME NEW a \in Answers, NEW td, NEW tl, NEW tn, NEW ch, Blocks(a, td, tl, tn, ch),
           NEW i \in CallParts(a), td[i] # <<>>, OpenAt(a, i, td[i], tl, tn, ch, Size(a, i)),
           NEW c \in Chunks, c.type = "tool-call-arguments", c.id = CallId(i),
           c.name = a.output[i].name, c.json = Body(a, i)
    PROVE  Blocks(a, [td EXCEPT ![i] = <<>>], WithoutTool(tl, Key(a, i)), Collected(tn, c), Append(ch, c))
<1>. DEFINE ud == [td EXCEPT ![i] = <<>>]
            ul == WithoutTool(tl, Key(a, i))
            u == Collected(tn, c)
            r == Append(ch, c)
            n == Len(tn.calls)
<1>1. tn \in Turns /\ tn.valid /\ tn.finish = "none" /\ ch \in Seq(Chunks) /\ Lifecycle(ch) /\ NotDone(ch)
  BY DEF Blocks, Common
<1>2. Begun(tn, ch, c.id, c.name, c.json)
  <2>1. c.json = Got(i, Size(a, i))
    BY BodyIsGot
  <2>. QED
    BY <2>1 DEF OpenAt
<1>3. /\ u \in Turns /\ u.valid /\ u.text = tn.text /\ u.finish = tn.finish
      /\ Len(u.calls) = n
      /\ \A k \in 1..n : u.calls[k].id = tn.calls[k].id
      /\ Told(u, c.id, c.name, c.json)
      /\ \A id : id # c.id => SameCall(tn, u, id)
      /\ Lived(r, Len(ch) + 1)
  BY <1>1, <1>2, ArgumentsStep
<1>4. Common(u, r)
  <2>1. Ends(ch, c.id) = {}
    BY <1>2 DEF Begun, BegunAt
  <2>2. Lifecycle(r)
    BY <1>1, <1>3, <2>1, LifecycleAppend
  <2>3. NotDone(r)
    BY <1>1, NotDoneAppend
  <2>4. r \in Seq(Chunks)
    BY <1>1
  <2>. QED
    BY <1>1, <1>3, <2>2, <2>3, <2>4 DEF Common
<1>5. i \in PartsIn(a) /\ i \notin TextParts(a)
  BY CallIds
<1>6. DOMAIN td = PartsIn(a) /\ ToolsOfParts(a, tl)
  BY DEF Blocks
<1>7. /\ ToolsOfParts(a, ul) /\ Key(a, i) \notin DOMAIN ul
      /\ \A k \in CallParts(a) : k # i =>
           /\ Key(a, k) \in DOMAIN ul <=> Key(a, k) \in DOMAIN tl
           /\ Key(a, k) \in DOMAIN tl => ul[Key(a, k)] = tl[Key(a, k)]
  BY <1>6, WithToolFacts
<1>8. DOMAIN ud = PartsIn(a) /\ ud[i] = <<>> /\ \A k \in PartsIn(a) : k # i => ud[k] = td[k]
  BY <1>5, <1>6
<1>9. TextInOrder(a, ud, u) /\ Silent(a, ud)
  BY <1>3, <1>5, <1>6, TextFrame DEF Blocks
<1>. HIDE DEF ud, ul, u, r
<1>10. ASSUME NEW k \in CallParts(a) PROVE Stage(a, k, ud[k], ul, u, r)
  <2>1. CASE k = i
    BY <1>3, <1>7, <1>8, <2>1 DEF Stage, Over
  <2>2. CASE k # i
    <3>1. k \in PartsIn(a) /\ CallId(k) # c.id
      BY <2>2, CallIds
    <3>2. Stage(a, k, td[k], tl, tn, ch)
      BY DEF Blocks
    <3>3. Stage(a, k, td[k], ul, u, Append(ch, c))
      BY <1>1, <1>3, <1>7, <2>2, <3>1, <3>2, StageElsewhere
    <3>. QED
      BY <1>8, <2>2, <3>1, <3>3 DEF r
  <2>. QED
    BY <2>1, <2>2
<1>11. CallsInOrder(a, u)
  <2>0. DOMAIN tn.calls = 1..n /\ DOMAIN u.calls = 1..n
    BY <1>1, <1>3, CallTypes
  <2>1. \A id : Pending(u, id) = Pending(tn, id)
    BY <1>3, <2>0 DEF Pending
  <2>2. ASSUME NEW m \in 1..Len(u.calls) PROVE \E k \in CallParts(a) : CallOfPart(a, u, m, k)
    <3>1. PICK k \in CallParts(a) : CallOfPart(a, tn, m, k)
      BY <1>3 DEF Blocks, CallsInOrder
    <3>2. CallOfPart(a, u, m, k)
      BY <1>3, <2>1, <3>1 DEF CallOfPart
    <3>. QED
      BY <3>2
  <2>3. \A m, x \in 1..Len(u.calls) : m < x => u.calls[m].id[2] < u.calls[x].id[2]
    BY <1>3 DEF Blocks, CallsInOrder
  <2>. QED
    BY <2>2, <2>3 DEF CallsInOrder
<1>. QED
  BY <1>4, <1>7, <1>8, <1>9, <1>10, <1>11 DEF Blocks, ud, ul, u, r

(* An event of a part that is neither text nor a call.                     *)
LEMMA BlockSilent ==
    ASSUME NEW a \in Answers, NEW td, NEW tl, NEW tn, NEW ch, Blocks(a, td, tl, tn, ch),
           NEW i \in PartsIn(a), i \notin CallParts(a), i \notin TextParts(a), td[i] # <<>>
    PROVE  /\ Blocks(a, [td EXCEPT ![i] = Tail(td[i])], tl, tn, ch)
           /\ Head(td[i]) \in SilentEvents
<1>. DEFINE left == Tail(td[i])
            ud == [td EXCEPT ![i] = left]
<1>1. DOMAIN td = PartsIn(a)
  BY DEF Blocks
<1>2. left \in Seq(SilentEvents) /\ Head(td[i]) \in SilentEvents
  <2>1. td[i] \in Seq(SilentEvents)
    BY DEF Blocks, Silent
  <2>. QED
    BY <2>1, HeadTailProperties
<1>. HIDE DEF left
<1>3. TextInOrder(a, ud, tn) /\ Silent(a, ud)
  BY <1>1, <1>2, TextFrame DEF Blocks
<1>4. DOMAIN ud = PartsIn(a) /\ \A k \in PartsIn(a) : k # i => ud[k] = td[k]
  BY <1>1
<1>. HIDE DEF ud
<1>5. ASSUME NEW k \in CallParts(a) PROVE Stage(a, k, ud[k], tl, tn, ch)
  <2>1. k \in PartsIn(a) /\ k # i
    BY CallIds
  <2>. QED
    BY <1>4, <2>1 DEF Blocks
<1>. QED
  BY <1>2, <1>3, <1>4, <1>5 DEF Blocks, ud, left

(* A piece of a text, when every part before it is over.                   *)
LEMMA BlockText ==
    ASSUME NEW a \in Answers, NEW td, NEW tl, NEW tn, NEW ch, Blocks(a, td, tl, tn, ch),
           NEW i \in TextParts(a), td[i] # <<>>, \A k \in 1..i - 1 : td[k] = <<>>,
           NEW c \in Chunks, c.type = "text-delta", c.json = Head(td[i]).json
    PROVE  Blocks(a, [td EXCEPT ![i] = Tail(td[i])], tl, Collected(tn, c), Append(ch, c))
<1>. DEFINE left == Tail(td[i])
            ud == [td EXCEPT ![i] = left]
            u == Collected(tn, c)
            r == Append(ch, c)
            j == Size(a, i) - Len(td[i])
            w == <<i, j + 1>>
<1>1. tn \in Turns /\ tn.valid /\ tn.finish = "none" /\ ch \in Seq(Chunks) /\ Lifecycle(ch) /\ NotDone(ch)
  BY DEF Blocks, Common
<1>2. i \in PartsIn(a) /\ i \notin CallParts(a) /\ i \in Nat /\ Size(a, i) \in Nat
  <2>1. i \in PartsIn(a) /\ i \notin CallParts(a)
    BY DEF TextParts, CallParts
  <2>. QED
    BY <2>1, PartFacts
<1>3. DOMAIN td = PartsIn(a) /\ TextInOrder(a, td, tn)
  BY DEF Blocks
<1>4. TextLeft(a, i, td[i])
  BY <1>3 DEF TextInOrder
<1>5. /\ j \in Nat /\ j < Size(a, i) /\ Head(td[i]).json = <<w>>
      /\ left = Left(a, i, j + 1, "text.delta") /\ Len(left) = Size(a, i) - (j + 1)
  <2>1. Len(td[i]) \in 0..Size(a, i) /\ td[i] = Left(a, i, j, "text.delta")
    BY <1>4 DEF TextLeft
  <2>2. j \in 0..Size(a, i) /\ "text.delta" \in EventTypes
    BY <1>2, <2>1 DEF EventTypes
  <2>3. j # Size(a, i)
    BY <1>2, <2>1, <2>2, LeftStep
  <2>4. j < Size(a, i) /\ j \in Nat /\ j + 1 \in 0..Size(a, i) /\ j + 1 \in Nat
    BY <1>2, <2>2, <2>3
  <2>. HIDE DEF j
  <2>5. td[i] = <<Event("text.delta", <<<<i, j + 1>>>>)>> \o Left(a, i, j + 1, "text.delta")
    BY <1>2, <2>1, <2>2, <2>4, LeftStep
  <2>. DEFINE m == j + 1
              M == Left(a, i, m, "text.delta")
  <2>6. M \in Seq(Events) /\ Len(M) = Size(a, i) - m
    <3>1. m \in 0..Size(a, i)
      BY <2>4
    <3>2. "text.delta" \in EventTypes
      BY <2>2
    <3>. HIDE DEF m
    <3>3. \A x \in 0..Size(a, i) :
            /\ Left(a, i, x, "text.delta") \in Seq(Events)
            /\ Len(Left(a, i, x, "text.delta")) = Size(a, i) - x
      BY <1>2, <3>2, LeftTyped
    <3>. QED
      BY <3>1, <3>3
  <2>7. Event("text.delta", <<<<i, m>>>>) \in Events
    <3>1. <<<<i, m>>>> \in Texts
      BY <1>2, <2>4, GotFacts
    <3>. QED
      BY <2>2, <3>1, EventFacts
  <2>8. td[i] = <<Event("text.delta", <<<<i, m>>>>)>> \o M
    BY <2>5
  <2>. HIDE DEF M, m
  <2>9. Head(td[i]) = Event("text.delta", <<<<i, m>>>>) /\ left = M
    BY <2>6, <2>7, <2>8, HeadAndTail
  <2>10. Head(td[i]).json = <<<<i, m>>>>
    BY <2>9, EventFacts
  <2>. QED
    BY <2>4, <2>6, <2>9, <2>10 DEF m, M
<1>6. /\ u \in Turns /\ u.valid /\ u.calls = tn.calls /\ u.text = tn.text \o c.json
      /\ u.finish = tn.finish /\ \A id : SameCall(tn, u, id)
  <2>1. c.type \in OtherChunks /\ c.type # "done"
    BY DEF OtherChunks
  <2>. QED
    BY <1>1, <2>1, OtherStep
<1>7. Common(u, r)
  <2>1. Lifecycle(r)
    <3>1. c.type \notin ToolChunks /\ c.type # "tool-call-arguments"
      BY DEF ToolChunks
    <3>. QED
      BY <1>1, <3>1, LifecycleAppend
  <2>2. NotDone(r)
    BY <1>1, NotDoneAppend
  <2>3. r \in Seq(Chunks)
    BY <1>1
  <2>. QED
    BY <1>1, <1>6, <2>1, <2>2, <2>3 DEF Common
<1>8. DOMAIN ud = PartsIn(a) /\ ud[i] = left /\ \A k \in PartsIn(a) : k # i => ud[k] = td[k]
  BY <1>2, <1>3
<1>. HIDE DEF left, ud, u, r, j
<1>9. c.id = <<>>
  <2>1. c.type \in OtherChunks
    BY DEF OtherChunks
  <2>. QED
    BY <2>1, ChunkTypes
<1>10. ASSUME NEW k \in CallParts(a) PROVE Stage(a, k, ud[k], tl, u, r)
  <2>1. k \in PartsIn(a) /\ k # i /\ CallId(k) # c.id
    BY <1>2, <1>9, CallIds
  <2>2. Stage(a, k, td[k], tl, tn, ch)
    BY DEF Blocks
  <2>3. Stage(a, k, td[k], tl, u, Append(ch, c))
    BY <1>1, <1>6, <2>1, <2>2, StageElsewhere
  <2>. QED
    BY <1>8, <2>1, <2>3 DEF r
<1>11. CallsInOrder(a, u)
  <2>1. \A id : Pending(u, id) = Pending(tn, id)
    BY <1>6 DEF Pending
  <2>2. ASSUME NEW m \in 1..Len(u.calls) PROVE \E k \in CallParts(a) : CallOfPart(a, u, m, k)
    <3>1. PICK k \in CallParts(a) : CallOfPart(a, tn, m, k)
      BY <1>6 DEF Blocks, CallsInOrder
    <3>2. CallOfPart(a, u, m, k)
      BY <1>6, <2>1, <3>1 DEF CallOfPart
    <3>. QED
      BY <3>2
  <2>3. \A m, x \in 1..Len(u.calls) : m < x => u.calls[m].id[2] < u.calls[x].id[2]
    BY <1>6 DEF Blocks, CallsInOrder
  <2>. QED
    BY <2>2, <2>3 DEF CallsInOrder
<1>12. Silent(a, ud)
  BY <1>8 DEF Blocks, Silent
<1>13. TextInOrder(a, ud, u)
  <2>1. w \in Pieces /\ tn.text \in Seq(Pieces) /\ u.text = Append(tn.text, w)
    <3>1. tn.text \in Seq(Pieces) /\ w \in Pieces
      BY <1>1, <1>2, <1>5, CallTypes DEF Texts, Pieces
    <3>2. u.text = tn.text \o <<w>>
      BY <1>5, <1>6
    <3>. QED
      BY <3>1, <3>2, AppendIsConcat
  <2>2. ASSUME NEW v \in Elements(tn.text)
        PROVE  <<v, w>> \in PieceBefore /\ v \in Pieces /\ ~(i < v[1])
    <3>1. v \in Pieces /\ v[1] \in TextParts(a) /\ v[2] \in 1..Size(a, v[1]) - Len(td[v[1]])
      BY <1>3 DEF TextInOrder, TextSent
    <3>2. v[1] \in Nat /\ v[2] \in Nat
      BY <3>1 DEF Pieces
    <3>3. ~(i < v[1])
      BY <1>2, <1>3 DEF TextInOrder
    <3>4. v[1] = i => v[2] < j + 1
      BY <1>5, <3>1, <3>2 DEF j
    <3>5. v[1] < i \/ v[1] = i
      BY <1>2, <3>2, <3>3
    <3>6. w[1] = i /\ w[2] = j + 1
      OBVIOUS
    <3>. HIDE DEF w
    <3>7. <<v, w>> \in Pieces \X Pieces /\ <<v, w>>[1] = v /\ <<v, w>>[2] = w
      BY <2>1, <3>1
    <3>. QED
      BY <3>1, <3>3, <3>4, <3>5, <3>6, <3>7 DEF PieceBefore
  <2>3. /\ Ordered(u.text, PieceBefore)
        /\ Elements(u.text) = Elements(tn.text) \cup {w}
    <3>1. Ordered(tn.text, PieceBefore)
      BY <1>3 DEF TextInOrder
    <3>2. \A m \in 1..Len(tn.text) : <<tn.text[m], w>> \in PieceBefore
      BY <2>2 DEF Elements
    <3>. HIDE DEF w
    <3>. QED
      BY <2>1, <3>1, <3>2, OrderedAppend
  <2>4. TextSent(a, ud) = TextSent(a, td) \cup {w}
    <3>1. Size(a, i) - Len(ud[i]) = j + 1 /\ Size(a, i) - Len(td[i]) = j
      BY <1>2, <1>5, <1>8 DEF j
    <3>2. ASSUME NEW v \in Pieces
          PROVE  v \in TextSent(a, ud) <=> v \in TextSent(a, td) \/ v = w
      <4>1. CASE v[1] = i
        <5>1. v \in TextSent(a, ud) <=> v[2] \in 1..j + 1
          BY <3>1, <4>1 DEF TextSent
        <5>2. v \in TextSent(a, td) <=> v[2] \in 1..j
          BY <3>1, <4>1 DEF TextSent
        <5>3. v = w <=> v[2] = j + 1
          BY <4>1 DEF Pieces
        <5>. QED
          BY <1>5, <5>1, <5>2, <5>3
      <4>2. CASE v[1] # i
        <5>1. v # w
          BY <4>2
        <5>2. v[1] \in TextParts(a) => ud[v[1]] = td[v[1]]
          BY <1>8, <4>2 DEF TextParts
        <5>. QED
          BY <5>1, <5>2 DEF TextSent
      <4>. QED
        BY <4>1, <4>2
    <3>3. \A v \in TextSent(a, ud) : v \in Pieces
      BY DEF TextSent
    <3>4. \A v \in TextSent(a, td) \cup {w} : v \in Pieces
      BY <2>1 DEF TextSent
    <3>. HIDE DEF w
    <3>. QED
      BY <3>2, <3>3, <3>4
  <2>5. ASSUME NEW k \in TextParts(a) PROVE TextLeft(a, k, ud[k])
    <3>1. CASE k = i
      <4>1. Len(left) \in 0..Size(a, i) /\ Size(a, i) - Len(left) = j + 1
        BY <1>2, <1>5
      <4>. QED
        BY <1>5, <1>8, <3>1, <4>1 DEF TextLeft
    <3>2. CASE k # i
      <4>1. k \in PartsIn(a) /\ TextLeft(a, k, td[k])
        BY <1>3 DEF TextParts, TextInOrder
      <4>. QED
        BY <1>8, <3>2, <4>1
    <3>. QED
      BY <3>1, <3>2
  <2>6. ASSUME NEW v \in Elements(u.text), NEW k \in PartsIn(a), k < v[1] PROVE ud[k] = <<>>
    <3>1. k \in Nat
      BY PartFacts
    <3>2. k # i /\ td[k] = <<>>
      <4>1. CASE v = w
        <5>1. k < i
          BY <2>6, <4>1
        <5>. QED
          BY <1>2, <3>1, <5>1 DEF PartsIn
      <4>2. CASE v \in Elements(tn.text)
        <5>1. td[k] = <<>>
          BY <1>3, <2>6, <4>2 DEF TextInOrder
        <5>. QED
          BY <5>1
      <4>. QED
        BY <2>3, <4>1, <4>2
    <3>. QED
      BY <1>8, <3>2
  <2>7. Elements(u.text) = TextSent(a, ud)
    BY <1>3, <2>3, <2>4 DEF TextInOrder
  <2>. QED
    BY <2>3, <2>5, <2>6, <2>7 DEF TextInOrder
<1>14. ToolsOfParts(a, tl)
  BY DEF Blocks
<1>. QED
  BY <1>7, <1>8, <1>10, <1>11, <1>12, <1>13, <1>14 DEF Blocks, ud, u, r, left

-----------------------------------------------------------------------------
(* The actions of OpenAI and Anthropic.                                    *)

LEMMA YieldOne ==
    ASSUME chunks \in Seq(Chunks), NEW c \in Chunks, Yield(<<c>>), Collected(turn, c).valid
    PROVE  chunks' = Append(chunks, c) /\ turn' = Collected(turn, c) /\ status' = "reading"
<1>1. chunks' = chunks \o <<c>> /\ turn' = CollectedAll(turn, <<c>>)
      /\ status' = IF turn'.valid THEN "reading" ELSE "failed"
  BY DEF Yield
<1>2. turn' = Collected(turn, c)
  BY <1>1, OneChunk
<1>3. chunks \o <<c>> = Append(chunks, c)
  BY AppendIsConcat
<1>. QED
  BY <1>1, <1>2, <1>3

LEMMA YieldTwo ==
    ASSUME chunks \in Seq(Chunks), NEW c \in Chunks, NEW d \in Chunks, Yield(<<c, d>>),
           Collected(Collected(turn, c), d).valid
    PROVE  /\ chunks' = Append(Append(chunks, c), d)
           /\ turn' = Collected(Collected(turn, c), d) /\ status' = "reading"
<1>1. chunks' = chunks \o <<c, d>> /\ turn' = CollectedAll(turn, <<c, d>>)
      /\ status' = IF turn'.valid THEN "reading" ELSE "failed"
  BY DEF Yield
<1>2. turn' = Collected(Collected(turn, c), d)
  BY <1>1, OneChunk
<1>3. chunks \o <<c, d>> = Append(Append(chunks, c), d)
  <2>1. <<c>> \in Seq(Chunks) /\ <<d>> \in Seq(Chunks) /\ <<c, d>> = <<c>> \o <<d>>
    BY PairIs
  <2>2. chunks \o (<<c>> \o <<d>>) = (chunks \o <<c>>) \o <<d>>
    BY <2>1, ConcatAssociative
  <2>3. chunks \o <<c>> = Append(chunks, c) /\ Append(chunks, c) \in Seq(Chunks)
    BY AppendIsConcat, AppendProperties
  <2>4. Append(chunks, c) \o <<d>> = Append(Append(chunks, c), d)
    BY <2>3, AppendIsConcat
  <2>. QED
    BY <2>1, <2>2, <2>3, <2>4
<1>. QED
  BY <1>1, <1>2, <1>3

LEMMA ChunkOf ==
    ASSUME NEW id \in Ids, NEW name \in AllNames, NEW json \in Texts
    PROVE  /\ Start(id, name) \in Chunks /\ ArgsDelta(id, json) \in Chunks
           /\ Arguments(id, name, json) \in Chunks /\ TextDelta(json) \in Chunks
           /\ Done(name) \in Chunks
           /\ Reasoning("reasoning-start", json) \in Chunks /\ Reasoning("reasoning-delta", json) \in Chunks
           /\ Reasoning("reasoning-end", json) \in Chunks
<1>1. <<>> \in Texts /\ "none" \in AllNames
  BY DEF Texts, AllNames
<1>2. \A type \in ToolChunks, n \in AllNames, j \in Texts : Chunk(type, id, n, j) \in Chunks
  BY DEF Chunk, Chunks
<1>3. \A type \in OtherChunks, n \in AllNames, j \in Texts : Chunk(type, <<>>, n, j) \in Chunks
  BY DEF Chunk, Chunks
<1>4. Start(id, name) \in Chunks /\ ArgsDelta(id, json) \in Chunks /\ Arguments(id, name, json) \in Chunks
  BY <1>1, <1>2 DEF Start, ArgsDelta, Arguments, ToolChunks
<1>5. TextDelta(json) \in Chunks /\ Done(name) \in Chunks
  BY <1>1, <1>3 DEF TextDelta, Done, OtherChunks
<1>6. /\ Reasoning("reasoning-start", json) \in Chunks /\ Reasoning("reasoning-delta", json) \in Chunks
      /\ Reasoning("reasoning-end", json) \in Chunks
  BY <1>1, <1>3 DEF Reasoning, OtherChunks
<1>. QED
  BY <1>4, <1>5, <1>6

(* What the provider of blocks may send next.                              *)
LEMMA SendsFacts ==
    ASSUME Reading, NEW i \in DOMAIN todo, NEW type, Sends(i, type)
    PROVE  /\ answer \in Answers /\ Provider \in {"openai", "anthropic"}
           /\ Blocks(answer, todo, tools, turn, chunks) /\ chunks \in Seq(Chunks)
           /\ i \in PartsIn(answer) /\ todo[i] # <<>> /\ Head(todo[i]).type = type
           /\ todo' = [todo EXCEPT ![i] = Tail(todo[i])]
           /\ answer' = answer /\ phase' = phase /\ last' = last /\ phase = "parts"
           /\ \A k \in CallParts(answer) : k < i => ~Waiting(answer, k, todo[k], tools, turn, chunks)
           /\ i \notin CallParts(answer) => \A k \in 1..i - 1 : todo[k] = <<>>
<1>1. /\ status = "reading" /\ phase = "parts" /\ Provider # "google"
      /\ todo[i] # <<>> /\ Head(todo[i]).type = type
      /\ \A k \in 1 .. i - 1 : Opened(k) /\ (answer.output[k].kind # "call" => todo[k] = <<>>)
      /\ answer.output[i].kind # "call" => \A k \in 1 .. i - 1 : todo[k] = <<>>
      /\ todo' = [todo EXCEPT ![i] = Tail(@)]
      /\ answer' = answer /\ phase' = phase /\ last' = last
  BY DEF Sends
<1>2. answer \in Answers
  BY DEF Reading
<1>3. Provider \in {"openai", "anthropic"}
  BY <1>1, <1>2, AnswerFacts DEF Provider, Providers
<1>4. Blocks(answer, todo, tools, turn, chunks)
  BY <1>3 DEF Reading, OpenAIReading, AnthropicReading
<1>5. chunks \in Seq(Chunks) /\ i \in PartsIn(answer)
  BY <1>4 DEF Blocks, Common
<1>6. ASSUME NEW k \in CallParts(answer), k < i
      PROVE  ~Waiting(answer, k, todo[k], tools, turn, chunks)
  <2>1. k \in Nat /\ k \in 1..i - 1
    BY <1>2, <1>5, <1>6, AnswerFacts DEF CallParts, PartsIn
  <2>2. todo[k] = <<>> \/ todo[k] \notin PartEvents(answer, k)
    BY <1>1, <2>1 DEF Opened
  <2>3. <<>> \notin PartEvents(answer, k)
    BY <1>2, OpenAIFirst, AnthropicFirst
  <2>. QED
    BY <2>2, <2>3 DEF Waiting
<1>7. i \notin CallParts(answer) => answer.output[i].kind # "call"
  BY <1>5 DEF CallParts
<1>. QED
  BY <1>1, <1>2, <1>3, <1>4, <1>5, <1>6, <1>7

(* The next event of a part, by the kind of the part.                      *)
LEMMA NextOfText ==
    ASSUME NEW a \in Answers, NEW td, NEW tl, NEW tn, NEW ch, Blocks(a, td, tl, tn, ch),
           NEW i \in TextParts(a), td[i] # <<>>
    PROVE  Head(td[i]).type = "text.delta" /\ Head(td[i]).json \in Texts
<1>. DEFINE j == Size(a, i) - Len(td[i])
            m == j + 1
            M == Left(a, i, m, "text.delta")
<1>1. i \in Nat /\ Size(a, i) \in Nat
  <2>1. i \in PartsIn(a)
    BY DEF TextParts
  <2>. QED
    BY <2>1, PartFacts
<1>2. Len(td[i]) \in 0..Size(a, i) /\ td[i] = Left(a, i, j, "text.delta")
  BY DEF Blocks, TextInOrder, TextLeft
<1>3. "text.delta" \in EventTypes
  BY DEF EventTypes
<1>4. j \in 0..Size(a, i) /\ j \in Nat
  BY <1>1, <1>2
<1>. HIDE DEF j
<1>5. j # Size(a, i)
  BY <1>1, <1>2, <1>3, <1>4, LeftStep
<1>6. j < Size(a, i) /\ m \in 0..Size(a, i)
  BY <1>1, <1>4, <1>5
<1>7. td[i] = <<Event("text.delta", <<<<i, m>>>>)>> \o M
  BY <1>1, <1>2, <1>3, <1>4, <1>6, LeftStep
<1>8. Event("text.delta", <<<<i, m>>>>) \in Events
  <2>1. <<<<i, m>>>> \in Texts
    BY <1>1, <1>4, GotFacts
  <2>. QED
    BY <1>3, <2>1, EventFacts
<1>. HIDE DEF m
<1>9. M \in Seq(Events)
  BY <1>1, <1>3, <1>6, LeftTyped
<1>. HIDE DEF M
<1>10. Head(td[i]) = Event("text.delta", <<<<i, m>>>>)
  BY <1>7, <1>8, <1>9, HeadAndTail
<1>. QED
  BY <1>8, <1>10, EventFacts DEF Events

LEMMA NextOfCall ==
    ASSUME NEW a \in Answers, NEW td, NEW tl, NEW tn, NEW ch, Blocks(a, td, tl, tn, ch),
           NEW i \in CallParts(a), td[i] # <<>>
    PROVE  /\ a.provider = "openai" =>
                \/ /\ Waiting(a, i, td[i], tl, tn, ch)
                   /\ Head(td[i]) = Event("item.added", <<>>) /\ Tail(td[i]) \in Rest(a, i, 0)
                \/ /\ Waiting(a, i, td[i], tl, tn, ch)
                   /\ Head(td[i]) = Event("item.added", Body(a, i)) /\ Tail(td[i]) \in Rest(a, i, Size(a, i))
                \/ \E j \in 0..Size(a, i) :
                     /\ OpenAt(a, i, td[i], tl, tn, ch, j) /\ j < Size(a, i)
                     /\ Head(td[i]) = Event("args.delta", <<<<i, j + 1>>>>) /\ Tail(td[i]) \in Rest(a, i, j + 1)
                \/ /\ OpenAt(a, i, td[i], tl, tn, ch, Size(a, i))
                   /\ Head(td[i]) = Event("args.done", Body(a, i)) /\ Tail(td[i]) \in Rest(a, i, Size(a, i))
                \/ /\ 1 \in 0..Size(a, i) /\ OpenAt(a, i, td[i], tl, tn, ch, 1)
                   /\ Head(td[i]) = Event("item.added", Got(i, 1)) /\ Tail(td[i]) \in Rest(a, i, 1)
                \/ /\ OpenAt(a, i, td[i], tl, tn, ch, Size(a, i))
                   /\ Head(td[i]) = Event("item.done", Body(a, i)) /\ Tail(td[i]) = <<>>
           /\ a.provider # "openai" =>
                \/ /\ Waiting(a, i, td[i], tl, tn, ch)
                   /\ Head(td[i]) = Event("block.start", <<>>) /\ Tail(td[i]) \in Rest(a, i, 0)
                \/ \E j \in 0..Size(a, i) :
                     /\ OpenAt(a, i, td[i], tl, tn, ch, j) /\ j < Size(a, i)
                     /\ Head(td[i]) = Event("json.delta", <<<<i, j + 1>>>>) /\ Tail(td[i]) \in Rest(a, i, j + 1)
                \/ /\ OpenAt(a, i, td[i], tl, tn, ch, Size(a, i))
                   /\ Head(td[i]) = Event("block.stop", <<>>) /\ Tail(td[i]) = <<>>
<1>1. Waiting(a, i, td[i], tl, tn, ch) \/ Open(a, i, td[i], tl, tn, ch)
  BY DEF Blocks, Stage, Over
<1>2. CASE Waiting(a, i, td[i], tl, tn, ch)
  <2>1. td[i] \in PartEvents(a, i)
    BY <1>2 DEF Waiting
  <2>. QED
    BY <1>2, <2>1, OpenAIFirst, AnthropicFirst
<1>3. CASE Open(a, i, td[i], tl, tn, ch)
  <2>1. PICK j \in 0..Size(a, i) : OpenAt(a, i, td[i], tl, tn, ch, j)
    BY <1>3 DEF Open
  <2>2. td[i] \in Rest(a, i, j)
    BY <2>1 DEF OpenAt
  <2>3. CASE a.provider = "openai"
    <3>1. \/ /\ j < Size(a, i)
             /\ Head(td[i]) = Event("args.delta", <<<<i, j + 1>>>>) /\ Tail(td[i]) \in Rest(a, i, j + 1)
          \/ /\ j = Size(a, i)
             /\ Head(td[i]) = Event("args.done", Body(a, i)) /\ Tail(td[i]) \in Rest(a, i, j)
          \/ /\ j = 1
             /\ Head(td[i]) = Event("item.added", Got(i, 1)) /\ Tail(td[i]) \in Rest(a, i, j)
          \/ /\ j = Size(a, i)
             /\ Head(td[i]) = Event("item.done", Body(a, i)) /\ Tail(td[i]) = <<>>
      BY <2>2, <2>3, OpenAINext
    <3>. QED
      BY <2>1, <2>3, <3>1
  <2>4. CASE a.provider # "openai"
    <3>1. \/ /\ j < Size(a, i)
             /\ Head(td[i]) = Event("json.delta", <<<<i, j + 1>>>>) /\ Tail(td[i]) \in Rest(a, i, j + 1)
          \/ /\ j = Size(a, i)
             /\ Head(td[i]) = Event("block.stop", <<>>) /\ Tail(td[i]) = <<>>
      BY <2>2, <2>4, AnthropicNext
    <3>. QED
      BY <2>1, <2>4, <3>1
  <2>. QED
    BY <2>3, <2>4
<1>. QED
  BY <1>1, <1>2, <1>3

LEMMA NextTypes ==
    ASSUME NEW a \in Answers, NEW td, NEW tl, NEW tn, NEW ch, Blocks(a, td, tl, tn, ch),
           NEW i \in PartsIn(a), td[i] # <<>>
    PROVE  /\ Head(td[i]).type = "text.delta" => i \in TextParts(a)
           /\ Head(td[i]).type \in {"item.added", "args.delta", "args.done", "item.done"} =>
                i \in CallParts(a) /\ a.provider = "openai"
           /\ Head(td[i]).type \in {"json.delta", "block.stop"} => i \in CallParts(a) /\ a.provider # "openai"
           /\ Head(td[i]).type \in {"block.start", "other"} => i \notin TextParts(a)
           /\ Head(td[i]).type = "other" => i \notin CallParts(a)
<1>1. CASE i \in TextParts(a)
  BY <1>1, NextOfText
<1>2. CASE i \in CallParts(a)
  <2>1. i \notin TextParts(a)
    BY <1>2, CallIds
  <2>2. ASSUME a.provider = "openai"
        PROVE  Head(td[i]).type \in {"item.added", "args.delta", "args.done", "item.done"}
    <3>1. \E json : \/ Head(td[i]) = Event("item.added", json) \/ Head(td[i]) = Event("args.delta", json)
                    \/ Head(td[i]) = Event("args.done", json) \/ Head(td[i]) = Event("item.done", json)
      BY <1>2, <2>2, NextOfCall, ZenonT(40)
    <3>. QED
      BY <3>1, EventFacts
  <2>3. ASSUME a.provider # "openai"
        PROVE  Head(td[i]).type \in {"block.start", "json.delta", "block.stop"}
    <3>1. \E json : \/ Head(td[i]) = Event("block.start", json) \/ Head(td[i]) = Event("json.delta", json)
                    \/ Head(td[i]) = Event("block.stop", json)
      BY <1>2, <2>3, NextOfCall, Zenon
    <3>. QED
      BY <3>1, EventFacts
  <2>. QED
    BY <1>2, <2>1, <2>2, <2>3
<1>3. CASE i \notin TextParts(a) /\ i \notin CallParts(a)
  <2>1. Head(td[i]) \in SilentEvents
    BY <1>3, BlockSilent
  <2>2. Head(td[i]).type \in {"block.start", "other"}
    BY <2>1 DEF SilentEvents
  <2>. QED
    BY <1>3, <2>2
<1>. QED
  BY <1>1, <1>2, <1>3

(* A call of OpenAI announced with all of its arguments.                   *)
LEMMA BlockAnnounced ==
    ASSUME NEW a \in Answers, a.provider = "openai",
           NEW td, NEW tl, NEW tn, NEW ch, Blocks(a, td, tl, tn, ch),
           NEW i \in CallParts(a), Waiting(a, i, td[i], tl, tn, ch), td[i] # <<>>,
           \A k \in CallParts(a) : k < i => ~Waiting(a, k, td[k], tl, tn, ch),
           NEW left \in Rest(a, i, Size(a, i)),
           NEW c \in Chunks, c.type = "tool-call-start", c.id = CallId(i), c.name = a.output[i].name,
           NEW d \in Chunks, d.type = "tool-call-delta", d.id = CallId(i), d.json = Body(a, i)
    PROVE  Blocks(a, [td EXCEPT ![i] = left], WithTool(tl, Key(a, i), ToolAt(a, i, Size(a, i))),
                  Collected(Collected(tn, c), d), Append(Append(ch, c), d))
<1>. DEFINE j == Size(a, i)
            left0 == Left(a, i, 0, "args.delta") \o Closing(a, i)
            td0 == [td EXCEPT ![i] = left0]
            tl0 == WithTool(tl, Key(a, i), ToolAt(a, i, 0))
            u == Collected(tn, c)
            r == Append(ch, c)
<1>1. /\ i \in PartsIn(a) /\ i \in Nat /\ j \in Nat /\ Body(a, i) = Got(i, j)
      /\ Closing(a, i) \in Seq(Events) /\ Closing(a, i) # <<>>
  BY ClosingFacts
<1>2. Left(a, i, 0, "args.delta") \in Seq(Events)
  <2>1. "args.delta" \in EventTypes
    BY DEF EventTypes
  <2>. QED
    BY <1>1, <2>1, LeftFacts
<1>3. left0 # <<>>
  BY <1>1, <1>2
<1>4. left0 \in Rest(a, i, 0)
  BY DEF Rest, OpenAIRest
<1>5. DOMAIN td = PartsIn(a)
  BY DEF Blocks
<1>6. td0[i] = left0 /\ [td0 EXCEPT ![i] = left] = [td EXCEPT ![i] = left]
  BY <1>1, <1>5
<1>. HIDE DEF left0, td0
<1>7. Blocks(a, [td EXCEPT ![i] = left0], tl0, u, r)
  BY <1>4, BlockStart
<1>8. Blocks(a, td0, tl0, u, r)
  BY <1>7 DEF td0
<1>9. ToolsOfParts(a, tl)
  BY DEF Blocks
<1>10. Key(a, i) \in DOMAIN tl0 /\ tl0[Key(a, i)] = ToolAt(a, i, 0)
  BY DEF WithTool
<1>11. WithTool(tl0, Key(a, i), ToolAt(a, i, j)) = WithTool(tl, Key(a, i), ToolAt(a, i, j))
  BY DEF WithTool
<1>12. Begun(u, r, CallId(i), a.output[i].name, Got(i, 0))
  <2>1. tn \in Turns /\ tn.valid /\ ch \in Seq(Chunks)
    BY DEF Blocks, Common
  <2>2. Unseen(tn, ch, c.id)
    BY DEF Waiting
  <2>3. Begun(Collected(tn, c), Append(ch, c), c.id, c.name, <<>>)
    BY <2>1, <2>2, StartStep
  <2>4. Got(i, 0) = <<>>
    BY <1>1, GotFacts
  <2>. QED
    BY <2>3, <2>4
<1>. HIDE DEF u, r, tl0
<1>13. OpenAt(a, i, td0[i], tl0, u, r, 0)
  BY <1>4, <1>6, <1>10, <1>12 DEF OpenAt
<1>14. Got(i, 0) \o d.json = Got(i, j)
  <2>1. Got(i, 0) = <<>> /\ <<>> \o Got(i, j) = Got(i, j)
    BY <1>1, GotFacts
  <2>. QED
    BY <1>1, <2>1
<1>15. j \in 0..Size(a, i) /\ left \in Rest(a, i, j)
  BY <1>1
<1>. HIDE DEF j
<1>16. /\ Collected(u, d) = u
       /\ Blocks(a, [td0 EXCEPT ![i] = left], WithTool(tl0, Key(a, i), ToolAt(a, i, j)), u, Append(r, d))
  BY <1>3, <1>6, <1>8, <1>13, <1>14, <1>15, BlockDelta
<1>. QED
  BY <1>6, <1>11, <1>16 DEF u, r, j

(* What the reader keeps as it was.                                        *)
LEMMA OpenAIStays ==
    ASSUME Reading, Provider = "openai", phase = "parts", answer' = answer, phase' = phase,
           asm' \in Assemblers, asm'.terminal = asm.terminal, asm'.reasoning = asm.reasoning,
           Blocks(answer, todo', tools', turn', chunks')
    PROVE  Reading'
<1>1. answer' \in Answers /\ asm' \in Assemblers /\ Provider' = "openai"
  BY DEF Reading, Provider
<1>2. ~asm'.reasoning
  BY DEF Reading
<1>3. OpenAIReading(answer', todo', phase', tools', asm', turn', chunks')
  BY DEF Reading, OpenAIReading
<1>. QED
  BY <1>1, <1>2, <1>3 DEF Reading

LEMMA AnthropicStays ==
    ASSUME Reading, Provider = "anthropic", phase = "parts", answer' = answer, phase' = phase,
           asm' \in Assemblers, asm'.terminal = asm.terminal, asm'.reasoning = asm.reasoning,
           asm'.started = asm.started, asm'.observed,
           Blocks(answer, todo', tools', turn', chunks')
    PROVE  Reading'
<1>1. answer' \in Answers /\ asm' \in Assemblers /\ Provider' = "anthropic"
  BY DEF Reading, Provider
<1>2. ~asm'.reasoning
  BY DEF Reading
<1>3. AnthropicReading(answer', todo', phase', tools', asm', turn', chunks')
  BY DEF Reading, AnthropicReading
<1>. QED
  BY <1>1, <1>2, <1>3 DEF Reading

(* Of Anthropic, a block that is not text has been observed once it began. *)
LEMMA SilentFirst ==
    ASSUME NEW a \in Answers, a.provider = "anthropic", NEW i \in PartsIn(a),
           i \notin TextParts(a), NEW left \in PartEvents(a, i)
    PROVE  Head(left).type = "block.start"
<1>1. CASE i \in CallParts(a)
  <2>1. Head(left) = Event("block.start", <<>>)
    BY <1>1, AnthropicFirst
  <2>. QED
    BY <2>1, EventFacts
<1>2. CASE i \notin CallParts(a)
  <2>1. a.output[i].kind # "text" /\ a.output[i].kind # "call"
    BY <1>2 DEF TextParts, CallParts
  <2>2. left = <<Event("block.start", <<>>)>> \o Fragments(a, i, "other")
    BY <2>1 DEF PartEvents
  <2>3. Event("block.start", <<>>) \in Events
    <3>1. "block.start" \in EventTypes /\ <<>> \in Texts
      BY DEF EventTypes, Texts
    <3>. QED
      BY <3>1, EventFacts
  <2>4. Fragments(a, i, "other") \in Seq(Events)
    <3>1. i \in Nat /\ Size(a, i) \in Nat
      BY PartFacts
    <3>2. "other" \in EventTypes
      BY DEF EventTypes
    <3>3. Fragments(a, i, "other") = Left(a, i, 0, "other")
      BY <3>1, FragmentsAreLeft
    <3>. QED
      BY <3>1, <3>2, <3>3, LeftFacts
  <2>5. Head(left) = Event("block.start", <<>>)
    BY <2>2, <2>3, <2>4, HeadAndTail
  <2>. QED
    BY <2>5, EventFacts
<1>. QED
  BY <1>1, <1>2

LEMMA Observed ==
    ASSUME Reading, Provider = "anthropic", NEW i \in PartsIn(answer), i \notin TextParts(answer),
           Head(todo[i]).type # "block.start"
    PROVE  asm.observed
<1>1. answer \in Answers /\ AnthropicReading(answer, todo, phase, tools, asm, turn, chunks)
  BY DEF Reading
<1>2. ~asm.observed => todo[i] \in PartEvents(answer, i)
  BY <1>1 DEF AnthropicReading
<1>3. todo[i] \in PartEvents(answer, i) => Head(todo[i]).type = "block.start"
  BY <1>1, SilentFirst DEF Provider
<1>. QED
  BY <1>2, <1>3

(* A step that goes on reading, and one that fails for a reason.           *)
Continues == status' = "reading" /\ Reading'
Fails == /\ status' = "failed" /\ answer' = answer /\ chunks' = chunks
         /\ phase' = "broken" \/ ~Consistent(answer)

LEMMA TextChunk ==
    ASSUME NEW json \in Texts
    PROVE  /\ TextDelta(json) \in Chunks
           /\ Reasoning("reasoning-start", json) \in Chunks
           /\ Reasoning("reasoning-delta", json) \in Chunks
           /\ Reasoning("reasoning-end", json) \in Chunks
<1>1. <<"call", 1>> \in Ids /\ "none" \in AllNames
  BY DEF Ids, AllNames
<1>. QED
  BY <1>1, ChunkOf

LEMMA OpenAITextDeltaStep ==
    ASSUME Reading, NEW i \in DOMAIN todo, OpenAITextDelta(i)
    PROVE  Continues
<1>. DEFINE c == TextDelta(Json(i))
<1>1. Provider = "openai" /\ Sends(i, "text.delta") /\ Yield(<<c>>) /\ tools' = tools /\ asm' = asm
  BY DEF OpenAITextDelta
<1>2. /\ answer \in Answers /\ Blocks(answer, todo, tools, turn, chunks) /\ chunks \in Seq(Chunks)
      /\ i \in PartsIn(answer) /\ todo[i] # <<>> /\ Head(todo[i]).type = "text.delta"
      /\ todo' = [todo EXCEPT ![i] = Tail(todo[i])]
      /\ answer' = answer /\ phase' = phase /\ phase = "parts"
      /\ i \notin CallParts(answer) => \A k \in 1..i - 1 : todo[k] = <<>>
  BY <1>1, SendsFacts
<1>3. i \in TextParts(answer)
  BY <1>2, NextTypes
<1>4. i \notin CallParts(answer)
  BY <1>3 DEF TextParts, CallParts
<1>5. Json(i) \in Texts /\ Json(i) = Head(todo[i]).json
  BY <1>2, <1>3, NextOfText DEF Json
<1>6. c \in Chunks /\ c.type = "text-delta" /\ c.json = Head(todo[i]).json
  <2>1. TextDelta(Json(i)) \in Chunks
    BY <1>5, TextChunk
  <2>. QED
    BY <1>5, <2>1 DEF TextDelta, Chunk
<1>. HIDE DEF c
<1>7. Blocks(answer, todo', tools, Collected(turn, c), Append(chunks, c))
  BY <1>2, <1>3, <1>4, <1>6, BlockText
<1>8. Collected(turn, c).valid
  BY <1>7 DEF Blocks, Common
<1>9. chunks' = Append(chunks, c) /\ turn' = Collected(turn, c) /\ status' = "reading"
  BY <1>1, <1>2, <1>6, <1>8, YieldOne
<1>10. asm' \in Assemblers
  BY <1>1 DEF Reading
<1>11. Blocks(answer, todo', tools', turn', chunks')
  BY <1>1, <1>7, <1>9
<1>12. Reading'
  BY <1>1, <1>2, <1>10, <1>11, OpenAIStays
<1>. QED
  BY <1>9, <1>12 DEF Continues

(* The facts of a step of a call.                                          *)
LEMMA CallStep ==
    ASSUME Reading, NEW i \in CallParts(answer)
    PROVE  /\ answer \in Answers /\ CallId(i) \in Ids /\ ToolOf(i) = answer.output[i].name
           /\ i \in Nat /\ Size(answer, i) \in Nat /\ Body(answer, i) = Got(i, Size(answer, i))
           /\ ToolOf(i) \in AllNames /\ Body(answer, i) \in Texts
           /\ \A j \in Nat : <<<<i, j>>>> \in Texts
           /\ Provider = "openai" => Key(answer, i) = ItemId(i)
           /\ Provider = "anthropic" => Key(answer, i) = i
           /\ asm \in Assemblers
<1>1. answer \in Answers /\ asm \in Assemblers
  BY DEF Reading
<1>2. i \in PartsIn(answer) /\ i \in Nat /\ CallId(i) \in Ids
  BY <1>1, CallIds
<1>3. ToolOf(i) = answer.output[i].name /\ ToolOf(i) \in AllNames
  BY <1>1, <1>2, PartFacts DEF ToolOf
<1>4. Size(answer, i) \in Nat /\ Body(answer, i) = Got(i, Size(answer, i)) /\ Body(answer, i) \in Texts
  BY <1>1, ClosingFacts
<1>5. \A j \in Nat : <<<<i, j>>>> \in Texts
  BY <1>2 DEF Texts, Pieces
<1>6. Provider = "openai" => Key(answer, i) = ItemId(i)
  BY DEF Key, Provider
<1>7. Provider = "anthropic" => Key(answer, i) = i
  BY DEF Key, Provider
<1>. QED
  BY <1>1, <1>2, <1>3, <1>4, <1>5, <1>6, <1>7

(* The next event of a call, by the event's type.                          *)
LEMMA NextAdded ==
    ASSUME NEW a \in Answers, a.provider = "openai",
           NEW td, NEW tl, NEW tn, NEW ch, Blocks(a, td, tl, tn, ch),
           NEW i \in CallParts(a), td[i] # <<>>
    PROVE  /\ Head(td[i]).type = "item.added" =>
                \/ /\ Waiting(a, i, td[i], tl, tn, ch)
                   /\ Head(td[i]) = Event("item.added", <<>>) /\ Tail(td[i]) \in Rest(a, i, 0)
                \/ /\ Waiting(a, i, td[i], tl, tn, ch)
                   /\ Head(td[i]) = Event("item.added", Body(a, i)) /\ Tail(td[i]) \in Rest(a, i, Size(a, i))
                \/ /\ 1 \in 0..Size(a, i) /\ OpenAt(a, i, td[i], tl, tn, ch, 1)
                   /\ Head(td[i]) = Event("item.added", Got(i, 1)) /\ Tail(td[i]) \in Rest(a, i, 1)
           /\ Head(td[i]).type = "args.delta" =>
                \E j \in 0..Size(a, i) :
                  /\ OpenAt(a, i, td[i], tl, tn, ch, j) /\ j < Size(a, i)
                  /\ Head(td[i]) = Event("args.delta", <<<<i, j + 1>>>>) /\ Tail(td[i]) \in Rest(a, i, j + 1)
           /\ Head(td[i]).type = "args.done" =>
                /\ OpenAt(a, i, td[i], tl, tn, ch, Size(a, i))
                /\ Head(td[i]) = Event("args.done", Body(a, i)) /\ Tail(td[i]) \in Rest(a, i, Size(a, i))
           /\ Head(td[i]).type = "item.done" =>
                /\ OpenAt(a, i, td[i], tl, tn, ch, Size(a, i))
                /\ Head(td[i]) = Event("item.done", Body(a, i)) /\ Tail(td[i]) = <<>>
<1>1. \A json : /\ Event("args.delta", json).type = "args.delta" /\ Event("args.done", json).type = "args.done"
                /\ Event("item.done", json).type = "item.done" /\ Event("item.added", json).type = "item.added"
  BY EventFacts
<1>2. \/ /\ Waiting(a, i, td[i], tl, tn, ch)
         /\ Head(td[i]) = Event("item.added", <<>>) /\ Tail(td[i]) \in Rest(a, i, 0)
      \/ /\ Waiting(a, i, td[i], tl, tn, ch)
         /\ Head(td[i]) = Event("item.added", Body(a, i)) /\ Tail(td[i]) \in Rest(a, i, Size(a, i))
      \/ \E j \in 0..Size(a, i) :
           /\ OpenAt(a, i, td[i], tl, tn, ch, j) /\ j < Size(a, i)
           /\ Head(td[i]) = Event("args.delta", <<<<i, j + 1>>>>) /\ Tail(td[i]) \in Rest(a, i, j + 1)
      \/ /\ OpenAt(a, i, td[i], tl, tn, ch, Size(a, i))
         /\ Head(td[i]) = Event("args.done", Body(a, i)) /\ Tail(td[i]) \in Rest(a, i, Size(a, i))
      \/ /\ 1 \in 0..Size(a, i) /\ OpenAt(a, i, td[i], tl, tn, ch, 1)
         /\ Head(td[i]) = Event("item.added", Got(i, 1)) /\ Tail(td[i]) \in Rest(a, i, 1)
      \/ /\ OpenAt(a, i, td[i], tl, tn, ch, Size(a, i))
         /\ Head(td[i]) = Event("item.done", Body(a, i)) /\ Tail(td[i]) = <<>>
  BY NextOfCall, ZenonT(40)
<1>. QED
  BY <1>1, <1>2

LEMMA OpenAIItemAddedStep ==
    ASSUME Reading, NEW i \in DOMAIN todo, OpenAIItemAdded(i)
    PROVE  Continues
<1>. DEFINE key == Key(answer, i)
            n == Size(answer, i)
            c == Start(CallId(i), ToolOf(i))
            d == ArgsDelta(CallId(i), Json(i))
<1>1. Provider = "openai" /\ Sends(i, "item.added") /\ asm' = asm
  BY DEF OpenAIItemAdded
<1>2. /\ answer \in Answers /\ Blocks(answer, todo, tools, turn, chunks) /\ chunks \in Seq(Chunks)
      /\ i \in PartsIn(answer) /\ todo[i] # <<>> /\ Head(todo[i]).type = "item.added"
      /\ todo' = [todo EXCEPT ![i] = Tail(todo[i])]
      /\ answer' = answer /\ phase' = phase /\ phase = "parts"
      /\ \A k \in CallParts(answer) : k < i => ~Waiting(answer, k, todo[k], tools, turn, chunks)
  BY <1>1, SendsFacts
<1>3. i \in CallParts(answer)
  BY <1>2, NextTypes
<1>4. /\ CallId(i) \in Ids /\ ToolOf(i) = answer.output[i].name /\ i \in Nat /\ n \in Nat
      /\ Body(answer, i) = Got(i, n) /\ ToolOf(i) \in AllNames /\ Body(answer, i) \in Texts
      /\ key = ItemId(i) /\ asm' \in Assemblers
  BY <1>1, <1>3, CallStep
<1>5. c \in Chunks /\ c.type = "tool-call-start" /\ c.id = CallId(i) /\ c.name = answer.output[i].name
  <2>1. c \in Chunks
    BY <1>4, ChunkOf
  <2>. QED
    BY <1>4, <2>1 DEF Start, Chunk
<1>6. \/ /\ Waiting(answer, i, todo[i], tools, turn, chunks)
         /\ Head(todo[i]) = Event("item.added", <<>>) /\ Tail(todo[i]) \in Rest(answer, i, 0)
      \/ /\ Waiting(answer, i, todo[i], tools, turn, chunks)
         /\ Head(todo[i]) = Event("item.added", Body(answer, i)) /\ Tail(todo[i]) \in Rest(answer, i, n)
      \/ /\ 1 \in 0..n /\ OpenAt(answer, i, todo[i], tools, turn, chunks, 1)
         /\ Head(todo[i]) = Event("item.added", Got(i, 1)) /\ Tail(todo[i]) \in Rest(answer, i, 1)
  BY <1>1, <1>2, <1>3, NextAdded DEF Provider
<1>7. \A json : Head(todo[i]) = Event("item.added", json) => Json(i) = json
  BY EventFacts DEF Json
<1>. HIDE DEF key, n, c
<1>8. CASE /\ Waiting(answer, i, todo[i], tools, turn, chunks)
           /\ Head(todo[i]) = Event("item.added", <<>>) /\ Tail(todo[i]) \in Rest(answer, i, 0)
  <2>1. ItemId(i) \notin DOMAIN tools /\ Json(i) = <<>>
    BY <1>4, <1>7, <1>8 DEF Waiting, key
  <2>2. /\ tools' = WithTool(tools, key, [callId |-> CallId(i), name |-> ToolOf(i), args |-> <<>>])
        /\ Yield(<<c>> \o <<>>)
    BY <1>4, <2>1 DEF OpenAIItemAdded, Put, WithTool, c
  <2>3. <<c>> \o <<>> = <<c>>
    BY <1>5, PairIs
  <2>4. [callId |-> CallId(i), name |-> ToolOf(i), args |-> <<>>] = ToolAt(answer, i, 0)
    <3>1. Got(i, 0) = <<>>
      BY <1>4, GotFacts
    <3>. QED
      BY <1>4, <3>1 DEF ToolAt
  <2>5. Blocks(answer, todo', tools', Collected(turn, c), Append(chunks, c))
    BY <1>2, <1>3, <1>5, <1>8, <2>2, <2>4, BlockStart DEF key
  <2>6. Collected(turn, c).valid
    BY <2>5 DEF Blocks, Common
  <2>7. chunks' = Append(chunks, c) /\ turn' = Collected(turn, c) /\ status' = "reading"
    BY <1>2, <1>5, <2>2, <2>3, <2>6, YieldOne
  <2>8. Blocks(answer, todo', tools', turn', chunks')
    BY <2>5, <2>7
  <2>9. Reading'
    BY <1>1, <1>2, <1>4, <2>8, OpenAIStays
  <2>. QED
    BY <2>7, <2>9 DEF Continues
<1>9. CASE /\ Waiting(answer, i, todo[i], tools, turn, chunks)
           /\ Head(todo[i]) = Event("item.added", Body(answer, i)) /\ Tail(todo[i]) \in Rest(answer, i, n)
  <2>1. ItemId(i) \notin DOMAIN tools /\ Json(i) = Body(answer, i)
    BY <1>4, <1>7, <1>9 DEF Waiting, key
  <2>2. Json(i) # <<>>
    <3>1. n # 0
      BY <1>1, <1>2, <1>3, PartFacts DEF CallParts, Provider, n
    <3>2. Got(i, n) # <<>>
      BY <1>4, <3>1, GotFacts
    <3>. QED
      BY <1>4, <2>1, <3>2
  <2>3. /\ tools' = WithTool(tools, key, [callId |-> CallId(i), name |-> ToolOf(i), args |-> Json(i)])
        /\ Yield(<<c>> \o <<d>>)
    BY <1>4, <2>1, <2>2 DEF OpenAIItemAdded, Put, WithTool, c
  <2>4. d \in Chunks /\ d.type = "tool-call-delta" /\ d.id = CallId(i) /\ d.json = Body(answer, i)
    <3>1. d \in Chunks
      BY <1>4, <2>1, ChunkOf
    <3>. QED
      BY <2>1, <3>1 DEF ArgsDelta, Chunk
  <2>5. [callId |-> CallId(i), name |-> ToolOf(i), args |-> Json(i)] = ToolAt(answer, i, n)
    BY <1>4, <2>1 DEF ToolAt
  <2>. HIDE DEF d
  <2>6. <<c>> \o <<d>> = <<c, d>>
    BY <1>5, <2>4, PairIs
  <2>7. Blocks(answer, todo', tools', Collected(Collected(turn, c), d), Append(Append(chunks, c), d))
    BY <1>1, <1>2, <1>3, <1>5, <1>9, <2>3, <2>4, <2>5, BlockAnnounced DEF key, n, Provider
  <2>8. Collected(Collected(turn, c), d).valid
    BY <2>7 DEF Blocks, Common
  <2>9. /\ chunks' = Append(Append(chunks, c), d) /\ turn' = Collected(Collected(turn, c), d)
        /\ status' = "reading"
    BY <1>2, <1>5, <2>3, <2>4, <2>6, <2>8, YieldTwo
  <2>10. Blocks(answer, todo', tools', turn', chunks')
    BY <2>7, <2>9
  <2>11. Reading'
    BY <1>1, <1>2, <1>4, <2>10, OpenAIStays
  <2>. QED
    BY <2>9, <2>11 DEF Continues
<1>10. CASE /\ 1 \in 0..n /\ OpenAt(answer, i, todo[i], tools, turn, chunks, 1)
            /\ Head(todo[i]) = Event("item.added", Got(i, 1)) /\ Tail(todo[i]) \in Rest(answer, i, 1)
  <2>1. ItemId(i) \in DOMAIN tools /\ Json(i) = Got(i, 1) /\ tools[ItemId(i)] = ToolAt(answer, i, 1)
    BY <1>4, <1>7, <1>10 DEF OpenAt, key
  <2>2. Buffered(i).args = Got(i, 1)
    BY <2>1 DEF Buffered, ToolAt
  <2>3. tools' = WithTool(tools, key, [callId |-> CallId(i), name |-> ToolOf(i), args |-> Got(i, 1)])
        /\ chunks' = chunks /\ turn' = turn /\ status' = status
    BY <1>4, <2>1, <2>2 DEF OpenAIItemAdded, Put, WithTool
  <2>4. [callId |-> CallId(i), name |-> ToolOf(i), args |-> Got(i, 1)] = ToolAt(answer, i, 1)
    BY <1>4 DEF ToolAt
  <2>5. /\ Blocks(answer, todo', tools, turn, chunks)
        /\ WithTool(tools, Key(answer, i), ToolAt(answer, i, 1)) = tools
    <3>. DEFINE m == 1
                left == Tail(todo[i])
    <3>1. /\ m \in 0..Size(answer, i) /\ OpenAt(answer, i, todo[i], tools, turn, chunks, m)
          /\ left \in Rest(answer, i, m) /\ todo[i] # <<>>
          /\ answer \in Answers /\ Blocks(answer, todo, tools, turn, chunks)
      BY <1>2, <1>10 DEF n
    <3>. HIDE DEF m, left
    <3>2. /\ Blocks(answer, [todo EXCEPT ![i] = left], tools, turn, chunks)
          /\ WithTool(tools, Key(answer, i), ToolAt(answer, i, m)) = tools
      BY <1>3, <3>1, BlockQuiet
    <3>. QED
      BY <1>2, <3>2 DEF m, left
  <2>6. Blocks(answer, todo', tools', turn', chunks')
    BY <2>3, <2>4, <2>5 DEF key
  <2>7. Reading'
    BY <1>1, <1>2, <1>4, <2>6, OpenAIStays
  <2>8. status' = "reading"
    BY <1>1, <2>3 DEF Sends
  <2>. QED
    BY <2>7, <2>8 DEF Continues
<1>. QED
  BY <1>6, <1>8, <1>9, <1>10

LEMMA OpenAIArgumentsDeltaStep ==
    ASSUME Reading, NEW i \in DOMAIN todo, OpenAIArgumentsDelta(i)
    PROVE  Continues
<1>. DEFINE d == ArgsDelta(CallId(i), Json(i))
            left == Tail(todo[i])
<1>1. Provider = "openai" /\ Sends(i, "args.delta") /\ asm' = asm
  BY DEF OpenAIArgumentsDelta
<1>2. /\ answer \in Answers /\ Blocks(answer, todo, tools, turn, chunks) /\ chunks \in Seq(Chunks)
      /\ i \in PartsIn(answer) /\ todo[i] # <<>> /\ Head(todo[i]).type = "args.delta"
      /\ todo' = [todo EXCEPT ![i] = left]
      /\ answer' = answer /\ phase' = phase /\ phase = "parts"
  BY <1>1, SendsFacts
<1>3. i \in CallParts(answer)
  BY <1>2, NextTypes
<1>4. /\ CallId(i) \in Ids /\ ToolOf(i) = answer.output[i].name /\ i \in Nat /\ Size(answer, i) \in Nat
      /\ ToolOf(i) \in AllNames /\ \A j \in Nat : <<<<i, j>>>> \in Texts
      /\ Key(answer, i) = ItemId(i) /\ asm' \in Assemblers
  BY <1>1, <1>3, CallStep
<1>5. PICK j \in 0..Size(answer, i) :
        /\ OpenAt(answer, i, todo[i], tools, turn, chunks, j) /\ j < Size(answer, i)
        /\ Head(todo[i]) = Event("args.delta", <<<<i, j + 1>>>>) /\ left \in Rest(answer, i, j + 1)
  BY <1>1, <1>2, <1>3, NextAdded DEF Provider
<1>. DEFINE m == j + 1
<1>6. j \in Nat /\ m \in Nat /\ m \in 0..Size(answer, i) /\ left \in Rest(answer, i, m)
  BY <1>4, <1>5
<1>7. Json(i) = <<<<i, m>>>>
  BY <1>5, EventFacts DEF Json
<1>8. Got(i, j) \o <<<<i, m>>>> = Got(i, m)
  BY <1>4, <1>6, GotFacts
<1>. HIDE DEF m, left
<1>9. ItemId(i) \in DOMAIN tools /\ Buffered(i) = ToolAt(answer, i, j)
  BY <1>4, <1>5 DEF OpenAt, Buffered
<1>10. Buffered(i).callId = CallId(i) /\ [Buffered(i) EXCEPT !.args = @ \o Json(i)] = ToolAt(answer, i, m)
  <2>. DEFINE b == Buffered(i)
  <2>1. b = [args |-> Got(i, j), callId |-> CallId(i), name |-> answer.output[i].name]
    BY <1>9 DEF ToolAt
  <2>. HIDE DEF b
  <2>2. b.callId = CallId(i) /\ b.args \o Json(i) = Got(i, m)
    BY <1>7, <1>8, <2>1
  <2>3. [b EXCEPT !.args = @ \o Json(i)]
          = [args |-> b.args \o Json(i), callId |-> CallId(i), name |-> answer.output[i].name]
    <3>. DEFINE x == b.args \o Json(i)
                id == CallId(i)
                name == answer.output[i].name
    <3>1. b = [args |-> Got(i, j), callId |-> id, name |-> name]
      BY <2>1
    <3>. HIDE DEF x, id, name
    <3>2. [b EXCEPT !.args = x] = [args |-> x, callId |-> id, name |-> name]
      BY <3>1
    <3>. QED
      BY <3>2 DEF x, id, name
  <2>. QED
    BY <2>2, <2>3 DEF b, ToolAt
<1>11. tools' = WithTool(tools, Key(answer, i), ToolAt(answer, i, m)) /\ Yield(<<d>>)
  BY <1>4, <1>10 DEF OpenAIArgumentsDelta, Put, WithTool
<1>12. d \in Chunks /\ d.type = "tool-call-delta" /\ d.id = CallId(i) /\ Got(i, j) \o d.json = Got(i, m)
  <2>1. d \in Chunks
    BY <1>4, <1>6, <1>7, ChunkOf
  <2>. QED
    BY <1>7, <1>8, <2>1 DEF ArgsDelta, Chunk
<1>. HIDE DEF d
<1>13. /\ Collected(turn, d) = turn
       /\ Blocks(answer, todo', tools', turn, Append(chunks, d))
  <2>1. /\ OpenAt(answer, i, todo[i], tools, turn, chunks, j) /\ todo[i] # <<>>
        /\ answer \in Answers /\ Blocks(answer, todo, tools, turn, chunks)
    BY <1>2, <1>5
  <2>2. /\ Collected(turn, d) = turn
        /\ Blocks(answer, [todo EXCEPT ![i] = left], WithTool(tools, Key(answer, i), ToolAt(answer, i, m)),
                  turn, Append(chunks, d))
    BY <1>3, <1>6, <1>12, <2>1, BlockDelta
  <2>. QED
    BY <1>2, <1>11, <2>2
<1>14. turn.valid
  BY <1>13 DEF Blocks, Common
<1>15. chunks' = Append(chunks, d) /\ turn' = turn /\ status' = "reading"
  BY <1>2, <1>11, <1>12, <1>13, <1>14, YieldOne
<1>16. Blocks(answer, todo', tools', turn', chunks')
  BY <1>13, <1>15
<1>17. Reading'
  BY <1>1, <1>2, <1>4, <1>16, OpenAIStays
<1>. QED
  BY <1>15, <1>17 DEF Continues

LEMMA OpenAIArgumentsDoneStep ==
    ASSUME Reading, NEW i \in DOMAIN todo, OpenAIArgumentsDone(i)
    PROVE  Continues
<1>. DEFINE n == Size(answer, i)
            left == Tail(todo[i])
<1>1. Provider = "openai" /\ Sends(i, "args.done") /\ asm' = asm
      /\ chunks' = chunks /\ turn' = turn /\ status' = status
  BY DEF OpenAIArgumentsDone
<1>2. /\ answer \in Answers /\ Blocks(answer, todo, tools, turn, chunks) /\ chunks \in Seq(Chunks)
      /\ i \in PartsIn(answer) /\ todo[i] # <<>> /\ Head(todo[i]).type = "args.done"
      /\ todo' = [todo EXCEPT ![i] = left]
      /\ answer' = answer /\ phase' = phase /\ phase = "parts"
  BY <1>1, SendsFacts
<1>3. i \in CallParts(answer)
  BY <1>2, NextTypes
<1>4. /\ ToolOf(i) = answer.output[i].name /\ n \in Nat /\ Body(answer, i) = Got(i, n)
      /\ Key(answer, i) = ItemId(i) /\ asm' \in Assemblers
  BY <1>1, <1>3, CallStep
<1>5. /\ OpenAt(answer, i, todo[i], tools, turn, chunks, n)
      /\ Head(todo[i]) = Event("args.done", Body(answer, i)) /\ left \in Rest(answer, i, n)
  BY <1>1, <1>2, <1>3, NextAdded DEF Provider
<1>6. Json(i) = Got(i, n)
  BY <1>4, <1>5, EventFacts DEF Json
<1>7. /\ n \in 0..Size(answer, i) /\ answer \in Answers
      /\ Blocks(answer, todo, tools, turn, chunks) /\ todo[i] # <<>>
      /\ OpenAt(answer, i, todo[i], tools, turn, chunks, n) /\ left \in Rest(answer, i, n)
  BY <1>2, <1>4, <1>5
<1>. HIDE DEF left, n
<1>8. /\ Blocks(answer, todo', tools, turn, chunks)
      /\ WithTool(tools, Key(answer, i), ToolAt(answer, i, n)) = tools
  <2>1. /\ Blocks(answer, [todo EXCEPT ![i] = left], tools, turn, chunks)
        /\ WithTool(tools, Key(answer, i), ToolAt(answer, i, n)) = tools
    BY <1>3, <1>7, BlockQuiet
  <2>. QED
    BY <1>2, <2>1
<1>9. tools' = WithTool(tools, Key(answer, i), ToolAt(answer, i, n))
  <2>1. [args |-> Json(i), callId |-> CallId(i), name |-> ToolOf(i)] = ToolAt(answer, i, n)
    BY <1>4, <1>6 DEF ToolAt
  <2>2. tools' = WithTool(tools, Key(answer, i), [args |-> Json(i), callId |-> CallId(i), name |-> ToolOf(i)])
    BY <1>4 DEF OpenAIArgumentsDone, Put, WithTool
  <2>. QED
    BY <2>1, <2>2
<1>10. Blocks(answer, todo', tools', turn', chunks')
  BY <1>1, <1>8, <1>9
<1>11. Reading'
  BY <1>1, <1>2, <1>4, <1>10, OpenAIStays
<1>. QED
  BY <1>1, <1>11 DEF Continues, Sends

LEMMA OpenAIItemDoneStep ==
    ASSUME Reading, NEW i \in DOMAIN todo, OpenAIItemDone(i)
    PROVE  Continues \/ Fails
<1>. DEFINE n == Size(answer, i)
            left == Tail(todo[i])
            c == Arguments(CallId(i), ToolOf(i), Json(i))
<1>1. Provider = "openai" /\ Sends(i, "item.done")
  BY DEF OpenAIItemDone
<1>2. /\ answer \in Answers /\ Blocks(answer, todo, tools, turn, chunks) /\ chunks \in Seq(Chunks)
      /\ i \in PartsIn(answer) /\ todo[i] # <<>> /\ Head(todo[i]).type = "item.done"
      /\ todo' = [todo EXCEPT ![i] = left]
      /\ answer' = answer /\ phase' = phase /\ phase = "parts"
  BY <1>1, SendsFacts
<1>3. i \in CallParts(answer)
  BY <1>2, NextTypes
<1>4. /\ CallId(i) \in Ids /\ ToolOf(i) = answer.output[i].name /\ ToolOf(i) \in AllNames
      /\ n \in Nat /\ Body(answer, i) = Got(i, n) /\ Body(answer, i) \in Texts
      /\ Key(answer, i) = ItemId(i) /\ asm \in Assemblers
  BY <1>1, <1>3, CallStep
<1>5. /\ OpenAt(answer, i, todo[i], tools, turn, chunks, n)
      /\ Head(todo[i]) = Event("item.done", Body(answer, i)) /\ left = <<>>
  BY <1>1, <1>2, <1>3, NextAdded DEF Provider
<1>6. Json(i) = Body(answer, i)
  BY <1>5, EventFacts DEF Json
<1>7. CASE Parsed(answer, Json(i))
  <2>1. /\ tools' = WithoutTool(tools, Key(answer, i))
        /\ asm' = [asm EXCEPT !.finish = "tool_call"] /\ Yield(<<c>>)
    BY <1>4, <1>7 DEF OpenAIItemDone, Drop, WithoutTool
  <2>2. /\ c \in Chunks /\ c.type = "tool-call-arguments" /\ c.id = CallId(i)
        /\ c.name = answer.output[i].name /\ c.json = Body(answer, i)
    <3>1. c \in Chunks
      BY <1>4, <1>6, ChunkOf
    <3>. QED
      BY <1>4, <1>6, <3>1 DEF Arguments, Chunk
  <2>. HIDE DEF c
  <2>3. Blocks(answer, todo', tools', Collected(turn, c), Append(chunks, c))
    BY <1>2, <1>3, <1>5, <2>1, <2>2, BlockArguments
  <2>4. Collected(turn, c).valid
    BY <2>3 DEF Blocks, Common
  <2>5. chunks' = Append(chunks, c) /\ turn' = Collected(turn, c) /\ status' = "reading"
    BY <1>2, <2>1, <2>2, <2>4, YieldOne
  <2>6. asm' \in Assemblers /\ asm'.terminal = asm.terminal /\ asm'.reasoning = asm.reasoning
    BY <1>4, <2>1 DEF Assemblers, AllNames
  <2>7. Blocks(answer, todo', tools', turn', chunks')
    BY <2>3, <2>5
  <2>8. Reading'
    BY <1>1, <1>2, <2>6, <2>7, OpenAIStays
  <2>. QED
    BY <2>5, <2>8 DEF Continues
<1>8. CASE ~Parsed(answer, Json(i))
  <2>1. Throw
    BY <1>8 DEF OpenAIItemDone
  <2>2. ~Accepted(answer)
    <3>1. i \in DOMAIN answer.output /\ answer.output[i].kind = "call"
      BY <1>2, <1>3, AnswerFacts DEF CallParts
    <3>. QED
      BY <1>1, <1>6, <1>8, <3>1 DEF Accepted, Provider
  <2>. QED
    BY <1>2, <2>1, <2>2 DEF Throw, Fails, Consistent
<1>. QED
  BY <1>7, <1>8

LEMMA OpenAICompletedStep ==
    ASSUME Reading, OpenAICompleted
    PROVE  Continues \/ Fails
<1>1. /\ Provider = "openai" /\ status = "reading" /\ phase = "parts" /\ AllSent /\ phase' = "ended"
      /\ answer' = answer /\ todo' = todo
  BY DEF OpenAICompleted
<1>2. answer \in Answers /\ asm \in Assemblers /\ ~asm.reasoning
      /\ OpenAIReading(answer, todo, phase, tools, asm, turn, chunks)
  BY <1>1 DEF Reading
<1>3. CASE OpenAIPayloadValid(answer)
  <2>1. /\ asm' = [asm EXCEPT !.finish = OpenAIFinish(answer), !.terminal = TRUE]
        /\ tools' = tools /\ chunks' = chunks /\ turn' = turn /\ status' = status
    BY <1>3 DEF OpenAICompleted
  <2>2. OpenAIFinish(answer) \in AllNames
    BY DEF OpenAIFinish, AllNames
  <2>3. /\ asm' \in Assemblers /\ ~asm'.reasoning /\ asm'.terminal
        /\ asm'.finish = OpenAIFinish(answer)
    BY <1>2, <2>1, <2>2 DEF Assemblers
  <2>4. AllOver(todo)
    BY <1>1 DEF AllSent, AllOver
  <2>5. OpenAIReading(answer', todo', phase', tools', asm', turn', chunks')
    BY <1>1, <1>2, <1>3, <2>1, <2>3, <2>4 DEF OpenAIReading
  <2>6. answer' \in Answers /\ Provider' = "openai"
    BY <1>1, <1>2 DEF Provider
  <2>7. Reading'
    BY <2>3, <2>5, <2>6 DEF Reading
  <2>. QED
    BY <1>1, <2>1, <2>7 DEF Continues
<1>4. CASE ~OpenAIPayloadValid(answer)
  <2>1. Throw
    BY <1>4 DEF OpenAICompleted
  <2>2. ~Consistent(answer)
    BY <1>1, <1>4 DEF Consistent, Accepted, Provider
  <2>. QED
    BY <1>1, <2>1, <2>2 DEF Throw, Fails
<1>. QED
  BY <1>3, <1>4

LEMMA BrokenStep ==
    ASSUME OpenAIFailed \/ MalformedEvent("openai") \/ MalformedEvent("anthropic") \/ MalformedEvent("google")
    PROVE  Fails
BY DEF OpenAIFailed, MalformedEvent, Throw, Fails

LEMMA IgnoredEventStep ==
    ASSUME Reading, NEW i \in DOMAIN todo, IgnoredEvent(i)
    PROVE  Continues
<1>1. Sends(i, "other") /\ tools' = tools /\ asm' = asm /\ chunks' = chunks /\ turn' = turn /\ status' = status
  BY DEF IgnoredEvent, reader
<1>2. /\ answer \in Answers /\ Blocks(answer, todo, tools, turn, chunks)
      /\ i \in PartsIn(answer) /\ todo[i] # <<>> /\ Head(todo[i]).type = "other"
      /\ todo' = [todo EXCEPT ![i] = Tail(todo[i])]
      /\ answer' = answer /\ phase' = phase /\ phase = "parts"
      /\ Provider \in {"openai", "anthropic"}
  BY <1>1, SendsFacts
<1>3. i \notin CallParts(answer) /\ i \notin TextParts(answer)
  BY <1>2, NextTypes
<1>4. Blocks(answer, todo', tools', turn', chunks')
  <2>1. Blocks(answer, [todo EXCEPT ![i] = Tail(todo[i])], tools, turn, chunks)
    BY <1>2, <1>3, BlockSilent
  <2>. QED
    BY <1>1, <1>2, <2>1
<1>5. asm' \in Assemblers
  BY <1>1 DEF Reading
<1>6. Provider = "anthropic" => asm'.observed
  BY <1>1, <1>2, <1>3, Observed
<1>7. Reading'
  BY <1>1, <1>2, <1>4, <1>5, <1>6, OpenAIStays, AnthropicStays
<1>. QED
  BY <1>1, <1>7 DEF Continues, Sends

LEMMA NextBlock ==
    ASSUME NEW a \in Answers, a.provider # "openai",
           NEW td, NEW tl, NEW tn, NEW ch, Blocks(a, td, tl, tn, ch),
           NEW i \in CallParts(a), td[i] # <<>>
    PROVE  /\ Head(td[i]).type = "block.start" =>
                /\ Waiting(a, i, td[i], tl, tn, ch)
                /\ Head(td[i]) = Event("block.start", <<>>) /\ Tail(td[i]) \in Rest(a, i, 0)
           /\ Head(td[i]).type = "json.delta" =>
                \E j \in 0..Size(a, i) :
                  /\ OpenAt(a, i, td[i], tl, tn, ch, j) /\ j < Size(a, i)
                  /\ Head(td[i]) = Event("json.delta", <<<<i, j + 1>>>>) /\ Tail(td[i]) \in Rest(a, i, j + 1)
           /\ Head(td[i]).type = "block.stop" =>
                /\ OpenAt(a, i, td[i], tl, tn, ch, Size(a, i))
                /\ Head(td[i]) = Event("block.stop", <<>>) /\ Tail(td[i]) = <<>>
<1>1. \A json : /\ Event("block.start", json).type = "block.start" /\ Event("json.delta", json).type = "json.delta"
                /\ Event("block.stop", json).type = "block.stop"
  BY EventFacts
<1>2. \/ /\ Waiting(a, i, td[i], tl, tn, ch)
         /\ Head(td[i]) = Event("block.start", <<>>) /\ Tail(td[i]) \in Rest(a, i, 0)
      \/ \E j \in 0..Size(a, i) :
           /\ OpenAt(a, i, td[i], tl, tn, ch, j) /\ j < Size(a, i)
           /\ Head(td[i]) = Event("json.delta", <<<<i, j + 1>>>>) /\ Tail(td[i]) \in Rest(a, i, j + 1)
      \/ /\ OpenAt(a, i, td[i], tl, tn, ch, Size(a, i))
         /\ Head(td[i]) = Event("block.stop", <<>>) /\ Tail(td[i]) = <<>>
  BY NextOfCall, ZenonT(40)
<1>. QED
  BY <1>1, <1>2

LEMMA AnthropicMessageStartStep ==
    ASSUME Reading, AnthropicMessageStart
    PROVE  Continues
<1>1. /\ Provider = "anthropic" /\ status = "reading" /\ phase = "opening" /\ phase' = "parts"
      /\ asm' = [asm EXCEPT !.started = TRUE]
      /\ answer' = answer /\ todo' = todo /\ tools' = tools /\ chunks' = chunks /\ turn' = turn
      /\ status' = status
  BY DEF AnthropicMessageStart
<1>2. answer \in Answers /\ asm \in Assemblers /\ ~asm.reasoning
      /\ AnthropicReading(answer, todo, phase, tools, asm, turn, chunks)
  BY <1>1 DEF Reading
<1>3. /\ asm' \in Assemblers /\ ~asm'.reasoning /\ asm'.started
      /\ asm'.terminal = asm.terminal /\ asm'.observed = asm.observed
  BY <1>1, <1>2 DEF Assemblers
<1>4. AnthropicReading(answer', todo', phase', tools', asm', turn', chunks')
  BY <1>1, <1>2, <1>3 DEF AnthropicReading
<1>5. answer' \in Answers /\ Provider' = "anthropic"
  BY <1>1, <1>2 DEF Provider
<1>6. Reading'
  BY <1>3, <1>4, <1>5 DEF Reading
<1>. QED
  BY <1>1, <1>6 DEF Continues

LEMMA AnthropicMessageDeltaStep ==
    ASSUME Reading, AnthropicMessageDelta
    PROVE  Continues
<1>1. /\ Provider = "anthropic" /\ status = "reading" /\ phase = "parts" /\ phase' = "stopping"
      /\ AllSent /\ asm' = [asm EXCEPT !.finish = AnthropicFinish(answer.stop)]
      /\ answer' = answer /\ todo' = todo /\ tools' = tools /\ chunks' = chunks /\ turn' = turn
      /\ status' = status
  BY DEF AnthropicMessageDelta
<1>2. answer \in Answers /\ asm \in Assemblers /\ ~asm.reasoning
      /\ AnthropicReading(answer, todo, phase, tools, asm, turn, chunks)
  BY <1>1 DEF Reading
<1>3. /\ asm' \in Assemblers /\ ~asm'.reasoning /\ asm'.finish = AnthropicFinish(answer.stop)
      /\ asm'.terminal = asm.terminal /\ asm'.observed = asm.observed /\ asm'.started = asm.started
  <2>1. AnthropicFinish(answer.stop) \in AllNames
    BY DEF AnthropicFinish, AllNames
  <2>. QED
    BY <1>1, <1>2, <2>1 DEF Assemblers
<1>4. AllOver(todo)
  BY <1>1 DEF AllSent, AllOver
<1>5. AnthropicReading(answer', todo', phase', tools', asm', turn', chunks')
  BY <1>1, <1>2, <1>3, <1>4 DEF AnthropicReading
<1>6. answer' \in Answers /\ Provider' = "anthropic"
  BY <1>1, <1>2 DEF Provider
<1>7. Reading'
  BY <1>3, <1>5, <1>6 DEF Reading
<1>. QED
  BY <1>1, <1>7 DEF Continues

LEMMA AnthropicMessageStopStep ==
    ASSUME Reading, AnthropicMessageStop
    PROVE  Continues
<1>1. /\ Provider = "anthropic" /\ status = "reading" /\ phase = "stopping" /\ phase' = "ended"
      /\ asm' = [asm EXCEPT !.terminal = TRUE]
      /\ answer' = answer /\ todo' = todo /\ tools' = tools /\ chunks' = chunks /\ turn' = turn
      /\ status' = status
  BY DEF AnthropicMessageStop
<1>2. answer \in Answers /\ asm \in Assemblers /\ ~asm.reasoning
      /\ AnthropicReading(answer, todo, phase, tools, asm, turn, chunks)
  BY <1>1 DEF Reading
<1>3. /\ asm' \in Assemblers /\ ~asm'.reasoning /\ asm'.finish = asm.finish
      /\ asm'.terminal /\ asm'.observed = asm.observed /\ asm'.started = asm.started
  BY <1>1, <1>2 DEF Assemblers
<1>4. AnthropicReading(answer', todo', phase', tools', asm', turn', chunks')
  BY <1>1, <1>2, <1>3 DEF AnthropicReading
<1>5. answer' \in Answers /\ Provider' = "anthropic"
  BY <1>1, <1>2 DEF Provider
<1>6. Reading'
  BY <1>3, <1>4, <1>5 DEF Reading
<1>. QED
  BY <1>1, <1>6 DEF Continues

LEMMA AnthropicBlockStartStep ==
    ASSUME Reading, NEW i \in DOMAIN todo, AnthropicBlockStart(i)
    PROVE  Continues
<1>. DEFINE c == Start(CallId(i), ToolOf(i))
            left == Tail(todo[i])
<1>1. Provider = "anthropic" /\ Sends(i, "block.start") /\ asm' = [asm EXCEPT !.observed = TRUE]
  BY DEF AnthropicBlockStart
<1>2. /\ answer \in Answers /\ Blocks(answer, todo, tools, turn, chunks) /\ chunks \in Seq(Chunks)
      /\ i \in PartsIn(answer) /\ todo[i] # <<>> /\ Head(todo[i]).type = "block.start"
      /\ todo' = [todo EXCEPT ![i] = left]
      /\ answer' = answer /\ phase' = phase /\ phase = "parts"
      /\ \A k \in CallParts(answer) : k < i => ~Waiting(answer, k, todo[k], tools, turn, chunks)
  BY <1>1, SendsFacts
<1>3. /\ asm' \in Assemblers /\ asm'.observed /\ asm'.terminal = asm.terminal
      /\ asm'.reasoning = asm.reasoning /\ asm'.started = asm.started
  <2>1. asm \in Assemblers
    BY DEF Reading
  <2>. QED
    BY <1>1, <2>1 DEF Assemblers
<1>4. CASE i \in CallParts(answer)
  <2>1. /\ CallId(i) \in Ids /\ ToolOf(i) = answer.output[i].name /\ ToolOf(i) \in AllNames
        /\ i \in Nat /\ Key(answer, i) = i
    BY <1>1, <1>4, CallStep
  <2>2. Waiting(answer, i, todo[i], tools, turn, chunks) /\ left \in Rest(answer, i, 0)
    BY <1>1, <1>2, <1>4, NextBlock DEF Provider
  <2>3. c \in Chunks /\ c.type = "tool-call-start" /\ c.id = CallId(i) /\ c.name = answer.output[i].name
    <3>1. <<>> \in Texts
      BY DEF Texts
    <3>2. c \in Chunks
      BY <2>1, <3>1, ChunkOf
    <3>. QED
      BY <2>1, <3>2 DEF Start, Chunk
  <2>4. tools' = WithTool(tools, Key(answer, i), ToolAt(answer, i, 0)) /\ Yield(<<c>>)
    <3>1. answer.output[i].kind = "call"
      BY <1>4 DEF CallParts
    <3>2. /\ tools' = WithTool(tools, i, [args |-> <<>>, callId |-> CallId(i), name |-> ToolOf(i)])
          /\ Yield(<<c>>)
      BY <3>1 DEF AnthropicBlockStart, Put, WithTool
    <3>3. Got(i, 0) = <<>>
      BY <2>1, GotFacts
    <3>4. [args |-> <<>>, callId |-> CallId(i), name |-> ToolOf(i)] = ToolAt(answer, i, 0)
      BY <2>1, <3>3 DEF ToolAt
    <3>. QED
      BY <2>1, <3>2, <3>4
  <2>. HIDE DEF c, left
  <2>5. Blocks(answer, todo', tools', Collected(turn, c), Append(chunks, c))
    BY <1>2, <1>4, <2>2, <2>3, <2>4, BlockStart
  <2>6. Collected(turn, c).valid
    BY <2>5 DEF Blocks, Common
  <2>7. chunks' = Append(chunks, c) /\ turn' = Collected(turn, c) /\ status' = "reading"
    BY <1>2, <2>3, <2>4, <2>6, YieldOne
  <2>8. Blocks(answer, todo', tools', turn', chunks')
    BY <2>5, <2>7
  <2>9. Reading'
    BY <1>1, <1>2, <1>3, <2>8, AnthropicStays
  <2>. QED
    BY <2>7, <2>9 DEF Continues
<1>5. CASE i \notin CallParts(answer)
  <2>1. answer.output[i].kind # "call"
    BY <1>2, <1>5 DEF CallParts
  <2>2. tools' = tools /\ chunks' = chunks /\ turn' = turn /\ status' = status
    BY <2>1 DEF AnthropicBlockStart
  <2>3. i \notin TextParts(answer)
    BY <1>2, NextTypes
  <2>4. Blocks(answer, todo', tools, turn, chunks)
    BY <1>2, <1>5, <2>3, BlockSilent
  <2>5. Blocks(answer, todo', tools', turn', chunks')
    BY <2>2, <2>4
  <2>6. Reading'
    BY <1>1, <1>2, <1>3, <2>5, AnthropicStays
  <2>. QED
    BY <1>1, <2>2, <2>6 DEF Continues, Sends
<1>. QED
  BY <1>4, <1>5

LEMMA AnthropicTextDeltaStep ==
    ASSUME Reading, NEW i \in DOMAIN todo, AnthropicTextDelta(i)
    PROVE  Continues
<1>. DEFINE c == TextDelta(Json(i))
<1>1. /\ Provider = "anthropic" /\ Sends(i, "text.delta") /\ Yield(<<c>>) /\ tools' = tools
      /\ asm' = [asm EXCEPT !.observed = TRUE]
  BY DEF AnthropicTextDelta
<1>2. /\ answer \in Answers /\ Blocks(answer, todo, tools, turn, chunks) /\ chunks \in Seq(Chunks)
      /\ i \in PartsIn(answer) /\ todo[i] # <<>> /\ Head(todo[i]).type = "text.delta"
      /\ todo' = [todo EXCEPT ![i] = Tail(todo[i])]
      /\ answer' = answer /\ phase' = phase /\ phase = "parts"
      /\ i \notin CallParts(answer) => \A k \in 1..i - 1 : todo[k] = <<>>
  BY <1>1, SendsFacts
<1>3. i \in TextParts(answer)
  BY <1>2, NextTypes
<1>4. i \notin CallParts(answer)
  BY <1>3 DEF TextParts, CallParts
<1>5. Json(i) \in Texts /\ Json(i) = Head(todo[i]).json
  BY <1>2, <1>3, NextOfText DEF Json
<1>6. c \in Chunks /\ c.type = "text-delta" /\ c.json = Head(todo[i]).json
  <2>1. TextDelta(Json(i)) \in Chunks
    BY <1>5, TextChunk
  <2>. QED
    BY <1>5, <2>1 DEF TextDelta, Chunk
<1>. HIDE DEF c
<1>7. Blocks(answer, todo', tools, Collected(turn, c), Append(chunks, c))
  BY <1>2, <1>3, <1>4, <1>6, BlockText
<1>8. Collected(turn, c).valid
  BY <1>7 DEF Blocks, Common
<1>9. chunks' = Append(chunks, c) /\ turn' = Collected(turn, c) /\ status' = "reading"
  BY <1>1, <1>2, <1>6, <1>8, YieldOne
<1>10. /\ asm' \in Assemblers /\ asm'.observed /\ asm'.terminal = asm.terminal
       /\ asm'.reasoning = asm.reasoning /\ asm'.started = asm.started
  <2>1. asm \in Assemblers
    BY DEF Reading
  <2>. QED
    BY <1>1, <2>1 DEF Assemblers
<1>11. Blocks(answer, todo', tools', turn', chunks')
  BY <1>1, <1>7, <1>9
<1>12. Reading'
  BY <1>1, <1>2, <1>10, <1>11, AnthropicStays
<1>. QED
  BY <1>9, <1>12 DEF Continues

LEMMA AnthropicJsonDeltaStep ==
    ASSUME Reading, NEW i \in DOMAIN todo, AnthropicJsonDelta(i)
    PROVE  Continues
<1>. DEFINE d == ArgsDelta(CallId(i), Json(i))
            left == Tail(todo[i])
<1>1. Provider = "anthropic" /\ Sends(i, "json.delta") /\ asm' = asm
  BY DEF AnthropicJsonDelta
<1>2. /\ answer \in Answers /\ Blocks(answer, todo, tools, turn, chunks) /\ chunks \in Seq(Chunks)
      /\ i \in PartsIn(answer) /\ todo[i] # <<>> /\ Head(todo[i]).type = "json.delta"
      /\ todo' = [todo EXCEPT ![i] = left]
      /\ answer' = answer /\ phase' = phase /\ phase = "parts"
  BY <1>1, SendsFacts
<1>3. i \in CallParts(answer)
  BY <1>2, NextTypes
<1>4. /\ CallId(i) \in Ids /\ i \in Nat /\ Size(answer, i) \in Nat
      /\ ToolOf(i) \in AllNames /\ \A j \in Nat : <<<<i, j>>>> \in Texts
      /\ Key(answer, i) = i /\ asm' \in Assemblers
  BY <1>1, <1>3, CallStep
<1>5. PICK j \in 0..Size(answer, i) :
        /\ OpenAt(answer, i, todo[i], tools, turn, chunks, j) /\ j < Size(answer, i)
        /\ Head(todo[i]) = Event("json.delta", <<<<i, j + 1>>>>) /\ left \in Rest(answer, i, j + 1)
  BY <1>1, <1>2, <1>3, NextBlock DEF Provider
<1>. DEFINE m == j + 1
<1>6. j \in Nat /\ m \in Nat /\ m \in 0..Size(answer, i) /\ left \in Rest(answer, i, m)
  BY <1>4, <1>5
<1>7. Json(i) = <<<<i, m>>>>
  BY <1>5, EventFacts DEF Json
<1>8. Got(i, j) \o <<<<i, m>>>> = Got(i, m)
  BY <1>4, <1>6, GotFacts
<1>. HIDE DEF m, left
<1>9. i \in DOMAIN tools /\ tools[i] = ToolAt(answer, i, j)
  BY <1>4, <1>5 DEF OpenAt
<1>10. tools[i].callId = CallId(i) /\ tools[i].args \o Json(i) = Got(i, m)
  <2>1. tools[i].callId = CallId(i) /\ tools[i].args = Got(i, j)
    BY <1>9 DEF ToolAt
  <2>. QED
    BY <1>7, <1>8, <2>1
<1>11. tools' = WithTool(tools, Key(answer, i), ToolAt(answer, i, m))
  <2>1. tools = [k \in DOMAIN tools |-> tools[k]]
    BY <1>2 DEF Blocks, ToolsOfParts
  <2>. DEFINE x == tools[i].args \o Json(i)
              tool == tools[i]
  <2>2. [tool EXCEPT !.args = x] = ToolAt(answer, i, m)
    <3>. DEFINE id == CallId(i)
                name == answer.output[i].name
    <3>1. tool = [args |-> Got(i, j), callId |-> id, name |-> name]
      BY <1>9 DEF ToolAt
    <3>. HIDE DEF x, id, name, tool
    <3>2. [tool EXCEPT !.args = x] = [args |-> x, callId |-> id, name |-> name]
      BY <3>1
    <3>3. x = Got(i, m)
      BY <1>10 DEF x
    <3>. QED
      BY <3>2, <3>3 DEF ToolAt, id, name
  <2>3. tools' = [tools EXCEPT ![i].args = x]
    BY DEF AnthropicJsonDelta
  <2>. HIDE DEF x
  <2>4. tools' = [k \in DOMAIN tools |-> IF k = i THEN ToolAt(answer, i, m) ELSE tools[k]]
    BY <1>9, <2>1, <2>2, <2>3
  <2>5. DOMAIN tools \cup {i} = DOMAIN tools
    BY <1>9
  <2>. QED
    BY <1>4, <2>4, <2>5 DEF WithTool
<1>12. Yield(<<d>>)
  BY <1>10 DEF AnthropicJsonDelta
<1>13. d \in Chunks /\ d.type = "tool-call-delta" /\ d.id = CallId(i) /\ Got(i, j) \o d.json = Got(i, m)
  <2>1. d \in Chunks
    BY <1>4, <1>6, <1>7, ChunkOf
  <2>. QED
    BY <1>7, <1>8, <2>1 DEF ArgsDelta, Chunk
<1>. HIDE DEF d
<1>14. /\ Collected(turn, d) = turn
       /\ Blocks(answer, todo', tools', turn, Append(chunks, d))
  <2>1. /\ OpenAt(answer, i, todo[i], tools, turn, chunks, j) /\ todo[i] # <<>>
        /\ answer \in Answers /\ Blocks(answer, todo, tools, turn, chunks)
    BY <1>2, <1>5
  <2>2. /\ Collected(turn, d) = turn
        /\ Blocks(answer, [todo EXCEPT ![i] = left], WithTool(tools, Key(answer, i), ToolAt(answer, i, m)),
                  turn, Append(chunks, d))
    BY <1>3, <1>6, <1>13, <2>1, BlockDelta
  <2>. QED
    BY <1>2, <1>11, <2>2
<1>15. turn.valid
  BY <1>14 DEF Blocks, Common
<1>16. chunks' = Append(chunks, d) /\ turn' = turn /\ status' = "reading"
  BY <1>2, <1>12, <1>13, <1>14, <1>15, YieldOne
<1>17. Blocks(answer, todo', tools', turn', chunks')
  BY <1>14, <1>16
<1>18. asm'.observed
  <2>1. i \notin TextParts(answer)
    BY <1>2, <1>3, CallIds
  <2>. QED
    BY <1>1, <1>2, <2>1, Observed
<1>19. Reading'
  BY <1>1, <1>2, <1>4, <1>17, <1>18, AnthropicStays
<1>. QED
  BY <1>16, <1>19 DEF Continues

(* A call that does not parse was cut at the limit, where no tool is used. *)
LEMMA CutAtLimit ==
    ASSUME NEW a \in Answers, a.provider = "anthropic", NEW i \in CallParts(a), ~Parsed(a, Body(a, i))
    PROVE  ~Consistent(a)
<1>1. i \in PartsIn(a) /\ i \in Nat /\ Size(a, i) \in Nat /\ Body(a, i) = Got(i, Size(a, i))
  BY ClosingFacts
<1>2. i \in DOMAIN a.output /\ a.output[i].kind = "call" /\ a.output[i].whole \in BOOLEAN
  BY <1>1, AnswerFacts, PartFacts DEF CallParts
<1>3. ~a.output[i].whole
  BY <1>2 DEF Parsed
<1>4. a.stop = "max_tokens"
  <2>1. a.stop \in AtLimit /\ a.stop \in Stops("anthropic")
    BY <1>1, <1>3, AnswerFacts, PartFacts
  <2>. QED
    BY <2>1 DEF AtLimit, Stops
<1>5. Response(a).finish = "length"
  BY <1>4 DEF Response, AnthropicResponse, AnthropicFinish
<1>6. HasCall(a)
  BY <1>2 DEF HasCall
<1>. QED
  BY <1>5, <1>6 DEF Consistent

LEMMA AnthropicBlockStopStep ==
    ASSUME Reading, NEW i \in DOMAIN todo, AnthropicBlockStop(i)
    PROVE  Continues \/ Fails
<1>. DEFINE n == Size(answer, i)
            left == Tail(todo[i])
            c == Arguments(tools[i].callId, tools[i].name, tools[i].args)
<1>1. Provider = "anthropic" /\ Sends(i, "block.stop")
  BY DEF AnthropicBlockStop
<1>2. /\ answer \in Answers /\ Blocks(answer, todo, tools, turn, chunks) /\ chunks \in Seq(Chunks)
      /\ i \in PartsIn(answer) /\ todo[i] # <<>> /\ Head(todo[i]).type = "block.stop"
      /\ todo' = [todo EXCEPT ![i] = left]
      /\ answer' = answer /\ phase' = phase /\ phase = "parts"
  BY <1>1, SendsFacts
<1>3. i \in CallParts(answer)
  BY <1>2, NextTypes
<1>4. /\ CallId(i) \in Ids /\ ToolOf(i) = answer.output[i].name /\ ToolOf(i) \in AllNames
      /\ n \in Nat /\ Body(answer, i) = Got(i, n) /\ Body(answer, i) \in Texts
      /\ Key(answer, i) = i /\ asm \in Assemblers
  BY <1>1, <1>3, CallStep
<1>5. OpenAt(answer, i, todo[i], tools, turn, chunks, n) /\ left = <<>>
  BY <1>1, <1>2, <1>3, NextBlock DEF Provider
<1>6. /\ tools[i].args = Body(answer, i) /\ tools[i].callId = CallId(i)
      /\ tools[i].name = answer.output[i].name
  BY <1>4, <1>5 DEF OpenAt, ToolAt
<1>7. CASE Parsed(answer, tools[i].args)
  <2>1. tools' = WithoutTool(tools, Key(answer, i)) /\ asm' = asm /\ Yield(<<c>>)
    BY <1>4, <1>7 DEF AnthropicBlockStop, Drop, WithoutTool
  <2>2. /\ c \in Chunks /\ c.type = "tool-call-arguments" /\ c.id = CallId(i)
        /\ c.name = answer.output[i].name /\ c.json = Body(answer, i)
    <3>1. c \in Chunks
      BY <1>4, <1>6, ChunkOf
    <3>. QED
      BY <1>4, <1>6, <3>1 DEF Arguments, Chunk
  <2>. HIDE DEF c
  <2>3. Blocks(answer, todo', tools', Collected(turn, c), Append(chunks, c))
    BY <1>2, <1>3, <1>5, <2>1, <2>2, BlockArguments
  <2>4. Collected(turn, c).valid
    BY <2>3 DEF Blocks, Common
  <2>5. chunks' = Append(chunks, c) /\ turn' = Collected(turn, c) /\ status' = "reading"
    BY <1>2, <2>1, <2>2, <2>4, YieldOne
  <2>6. asm'.observed
    <3>1. i \notin TextParts(answer)
      BY <1>2, <1>3, CallIds
    <3>. QED
      BY <1>1, <1>2, <2>1, <3>1, Observed
  <2>7. Blocks(answer, todo', tools', turn', chunks')
    BY <2>3, <2>5
  <2>8. Reading'
    BY <1>1, <1>2, <1>4, <2>1, <2>6, <2>7, AnthropicStays
  <2>. QED
    BY <2>5, <2>8 DEF Continues
<1>8. CASE ~Parsed(answer, tools[i].args)
  <2>1. Throw
    BY <1>8 DEF AnthropicBlockStop
  <2>2. ~Consistent(answer)
    BY <1>1, <1>2, <1>3, <1>6, <1>8, CutAtLimit DEF Provider
  <2>. QED
    BY <1>2, <2>1, <2>2 DEF Throw, Fails
<1>. QED
  BY <1>7, <1>8

-----------------------------------------------------------------------------
(* The end of the stream: the text and the calls of the turn are those of  *)
(* the answer.                                                             *)

LEMMA ConcatOrdered ==
    ASSUME NEW T, NEW R, NEW q \in Seq(T), NEW r \in Seq(T), Ordered(q, R), Ordered(r, R),
           \A i \in 1..Len(q), j \in 1..Len(r) : <<q[i], r[j]>> \in R
    PROVE  /\ q \o r \in Seq(T) /\ Ordered(q \o r, R)
           /\ Elements(q \o r) = Elements(q) \cup Elements(r)
<1>. DEFINE c == q \o r
            m == Len(q)
            n == Len(r)
<1>1. /\ c \in Seq(T) /\ Len(c) = m + n /\ m \in Nat /\ n \in Nat
      /\ \A i \in 1..m : c[i] = q[i]
      /\ \A i \in 1..n : c[m + i] = r[i]
  OBVIOUS
<1>. HIDE DEF c
<1>2. \A k \in 1..m + n : k \in 1..m \/ \E i \in 1..n : k = m + i
  <2>. SUFFICES ASSUME NEW k \in 1..m + n, k \notin 1..m PROVE \E i \in 1..n : k = m + i
    OBVIOUS
  <2>1. k - m \in 1..n /\ k = m + (k - m)
    BY <1>1
  <2>. QED
    BY <2>1
<1>3. \A i \in 1..m : i \in 1..m + n
  BY <1>1
<1>4. \A i \in 1..n : m + i \in 1..m + n
  BY <1>1
<1>5. Ordered(c, R)
  <2>. SUFFICES ASSUME NEW k \in 1..m + n, NEW l \in 1..m + n, k < l PROVE <<c[k], c[l]>> \in R
    BY <1>1 DEF Ordered
  <2>1. CASE k \in 1..m /\ l \in 1..m
    BY <1>1, <2>1 DEF Ordered
  <2>2. CASE k \in 1..m /\ l \notin 1..m
    <3>1. PICK j \in 1..n : l = m + j
      BY <1>2, <2>2
    <3>. QED
      BY <1>1, <2>2, <3>1
  <2>3. CASE k \notin 1..m
    <3>1. PICK i \in 1..n : k = m + i
      BY <1>2, <2>3
    <3>2. l \notin 1..m
      BY <1>1, <3>1
    <3>3. PICK j \in 1..n : l = m + j
      BY <1>2, <3>2
    <3>4. i < j
      BY <1>1, <3>1, <3>3
    <3>5. <<r[i], r[j]>> \in R
      BY <3>4 DEF Ordered
    <3>. QED
      BY <1>1, <3>1, <3>3, <3>5
  <2>. QED
    BY <2>1, <2>2, <2>3
<1>6. Elements(c) \subseteq Elements(q) \cup Elements(r)
  <2>. SUFFICES ASSUME NEW k \in 1..m + n PROVE c[k] \in Elements(q) \cup Elements(r)
    BY <1>1 DEF Elements
  <2>1. CASE k \in 1..m
    BY <1>1, <2>1 DEF Elements
  <2>2. CASE k \notin 1..m
    <3>1. PICK i \in 1..n : k = m + i
      BY <1>2, <2>2
    <3>. QED
      BY <1>1, <3>1 DEF Elements
  <2>. QED
    BY <2>1, <2>2
<1>7. Elements(q) \subseteq Elements(c)
  BY <1>1, <1>3 DEF Elements
<1>8. Elements(r) \subseteq Elements(c)
  BY <1>1, <1>4 DEF Elements
<1>. QED
  BY <1>1, <1>5, <1>6, <1>7, <1>8 DEF c

(* A sequence of ordered sequences, each before the next, joins to an      *)
(* ordered one.                                                            *)
Chained(s, R) ==
    /\ \A k \in 1..Len(s) : Ordered(s[k], R)
    /\ \A k, l \in 1..Len(s) : k < l =>
         \A x \in 1..Len(s[k]), y \in 1..Len(s[l]) : <<s[k][x], s[l][y]>> \in R
AllElements(s) == UNION {Elements(s[k]) : k \in 1..Len(s)}
Joins(T, R, s) ==
    /\ FlattenSeq(s) \in Seq(T) /\ Ordered(FlattenSeq(s), R)
    /\ Elements(FlattenSeq(s)) = AllElements(s)

LEMMA JoinsAppend ==
    ASSUME NEW T, NEW R, NEW s \in Seq(Seq(T)), NEW x \in Seq(T),
           Joins(T, R, s), Chained(Append(s, x), R)
    PROVE  Joins(T, R, Append(s, x))
<1>. DEFINE q == FlattenSeq(s)
            r == Append(s, x)
            m == Len(s) + 1
<1>1. /\ Len(s) \in Nat /\ Len(r) = m /\ r[m] = x /\ m \in 1..m
      /\ \A k \in 1..Len(s) : r[k] = s[k] /\ k \in 1..m /\ k < m
  OBVIOUS
<1>2. FlattenSeq(r) = q \o x
  BY FlattenAppend
<1>. HIDE DEF r
<1>3. q \in Seq(T) /\ Ordered(q, R) /\ Elements(q) = AllElements(s)
  BY DEF Joins
<1>4. Ordered(x, R)
  BY <1>1 DEF Chained, r
<1>. HIDE DEF q
<1>5. ASSUME NEW i \in 1..Len(q), NEW j \in 1..Len(x) PROVE <<q[i], x[j]>> \in R
  <2>1. q[i] \in AllElements(s)
    BY <1>3 DEF Elements
  <2>2. PICK k \in 1..Len(s) : q[i] \in Elements(s[k])
    BY <2>1 DEF AllElements
  <2>3. PICK l \in 1..Len(s[k]) : q[i] = s[k][l]
    BY <2>2 DEF Elements
  <2>4. r[k] = s[k] /\ k \in 1..Len(r) /\ m \in 1..Len(r) /\ k < m
    BY <1>1
  <2>. HIDE DEF m
  <2>5. \A u \in 1..Len(r[k]), v \in 1..Len(r[m]) : <<r[k][u], r[m][v]>> \in R
    BY <2>4 DEF Chained, r
  <2>. QED
    BY <1>1, <2>3, <2>4, <2>5
<1>6. q \o x \in Seq(T) /\ Ordered(q \o x, R) /\ Elements(q \o x) = Elements(q) \cup Elements(x)
  BY <1>3, <1>4, <1>5, ConcatOrdered
<1>7. AllElements(r) = AllElements(s) \cup Elements(x)
  <2>1. AllElements(r) \subseteq AllElements(s) \cup Elements(x)
    <3>. SUFFICES ASSUME NEW k \in 1..Len(r), NEW e \in Elements(r[k])
                  PROVE  e \in AllElements(s) \cup Elements(x)
      BY DEF AllElements
    <3>1. CASE k = m
      BY <1>1, <3>1
    <3>2. CASE k # m
      <4>1. k \in 1..Len(s)
        BY <1>1, <3>2
      <4>. QED
        BY <1>1, <4>1 DEF AllElements
    <3>. QED
      BY <3>1, <3>2
  <2>2. AllElements(s) \subseteq AllElements(r)
    <3>. SUFFICES ASSUME NEW k \in 1..Len(s), NEW e \in Elements(s[k]) PROVE e \in AllElements(r)
      BY DEF AllElements
    <3>. QED
      BY <1>1 DEF AllElements
  <2>3. Elements(x) \subseteq AllElements(r)
    BY <1>1 DEF AllElements
  <2>. QED
    BY <2>1, <2>2, <2>3
<1>. QED
  BY <1>2, <1>3, <1>6, <1>7 DEF Joins, r

LEMMA FlattenOrdered ==
    ASSUME NEW T, NEW R, NEW s \in Seq(Seq(T)), Chained(s, R)
    PROVE  Joins(T, R, s)
<1>. DEFINE Q == {n \in Nat : \A z \in Seq(Seq(T)) : Len(z) = n /\ Chained(z, R) => Joins(T, R, z)}
<1>1. 0 \in Q
  <2>. SUFFICES ASSUME NEW z \in Seq(Seq(T)), Len(z) = 0 PROVE Joins(T, R, z)
    OBVIOUS
  <2>1. z = <<>>
    OBVIOUS
  <2>2. FlattenSeq(z) = <<>>
    BY <2>1, FlattenEmpty
  <2>3. Elements(<<>>) = {} /\ AllElements(<<>>) = {} /\ Ordered(<<>>, R) /\ <<>> \in Seq(T)
    BY DEF Elements, AllElements, Ordered
  <2>. QED
    BY <2>1, <2>2, <2>3 DEF Joins
<1>2. ASSUME NEW n \in Nat, n \in Q PROVE n + 1 \in Q
  <2>. SUFFICES ASSUME NEW z \in Seq(Seq(T)), Len(z) = n + 1, Chained(z, R) PROVE Joins(T, R, z)
    BY <1>2
  <2>. DEFINE f == [k \in 1..n |-> z[k]]
              x == z[n + 1]
  <2>1. /\ \A k \in 1..n + 1 : z[k] \in Seq(T)
        /\ DOMAIN z = 1..n + 1
    BY <1>2
  <2>2. f \in Seq(Seq(T)) /\ Len(f) = n /\ x \in Seq(T) /\ \A k \in 1..n : f[k] = z[k]
    <3>1. f \in [1..n -> Seq(T)]
      BY <2>1, <1>2
    <3>. QED
      BY <1>2, <2>1, <3>1
  <2>3. z = Append(f, x)
    <3>. DEFINE y == Append(f, x)
    <3>1. y \in Seq(Seq(T)) /\ Len(y) = n + 1 /\ y[n + 1] = x /\ \A k \in 1..n : y[k] = f[k]
      BY <2>2, AppendProperties
    <3>. HIDE DEF y
    <3>2. \A k \in 1..n + 1 : y[k] = z[k]
      BY <1>2, <2>2, <3>1
    <3>. QED
      BY <3>1, <3>2, SeqEqual DEF y
  <2>. HIDE DEF f, x
  <2>4. Chained(f, R)
    <3>1. \A k \in 1..n : k \in 1..n + 1
      BY <1>2
    <3>. QED
      BY <2>2, <3>1 DEF Chained
  <2>5. Joins(T, R, f)
    BY <1>2, <2>2, <2>4
  <2>. QED
    BY <2>2, <2>3, <2>5, JoinsAppend
<1>. HIDE DEF Q
<1>3. Nat \subseteq Q
  BY <1>1, <1>2, NatSetInduction
<1>4. Len(s) \in Q
  BY <1>3
<1>. QED
  BY <1>4 DEF Q

(* The pieces of the texts of an answer, in order.                         *)
LEMMA BeforeFacts ==
    /\ \A u, v \in Pieces : <<u, v>> \in PieceBefore <=> (u[1] < v[1] \/ (u[1] = v[1] /\ u[2] < v[2]))
    /\ \A u, v \in Pieces : <<u, v>> \in PieceBefore => <<v, u>> \notin PieceBefore
<1>1. \A u, v \in Pieces : <<u, v>> \in PieceBefore <=> (u[1] < v[1] \/ (u[1] = v[1] /\ u[2] < v[2]))
  <2>. SUFFICES ASSUME NEW u \in Pieces, NEW v \in Pieces
                PROVE  <<u, v>> \in PieceBefore <=> (u[1] < v[1] \/ (u[1] = v[1] /\ u[2] < v[2]))
    OBVIOUS
  <2>. DEFINE w == <<u, v>>
  <2>1. w \in Pieces \X Pieces /\ w[1] = u /\ w[2] = v
    OBVIOUS
  <2>. HIDE DEF w
  <2>2. w \in PieceBefore <=> (u[1] < v[1] \/ (u[1] = v[1] /\ u[2] < v[2]))
    BY <2>1 DEF PieceBefore
  <2>. QED
    BY <2>2 DEF w
<1>2. \A u \in Pieces : u[1] \in Nat /\ u[2] \in Nat
  BY DEF Pieces
<1>. QED
  BY <1>1, <1>2

LEMMA GotIs ==
    ASSUME NEW i \in Nat, NEW n \in Nat
    PROVE  /\ Got(i, n) \in Texts /\ Len(Got(i, n)) = n
           /\ \A x \in 1..n : Got(i, n)[x] = <<i, x>>
           /\ Ordered(Got(i, n), PieceBefore)
           /\ Elements(Got(i, n)) = {<<i, x>> : x \in 1..n}
<1>1. Got(i, n) \in Texts /\ Len(Got(i, n)) = n
  BY GotFacts
<1>2. \A x \in 1..n : Got(i, n)[x] = <<i, x>>
  BY DEF Got
<1>3. \A x, y \in 1..n : x < y => <<<<i, x>>, <<i, y>>>> \in PieceBefore
  BY DEF PieceBefore, Pieces
<1>. DEFINE g == Got(i, n)
<1>. HIDE DEF g
<1>4. Len(g) = n /\ \A x \in 1..n : g[x] = <<i, x>>
  BY <1>1, <1>2 DEF g
<1>5. Ordered(g, PieceBefore)
  BY <1>3, <1>4 DEF Ordered
<1>6. Elements(g) = {<<i, x>> : x \in 1..n}
  BY <1>4 DEF Elements
<1>. QED
  BY <1>1, <1>2, <1>5, <1>6 DEF g

LEMMA TextIs ==
    ASSUME NEW a \in Answers
    PROVE  /\ TextOf(a, {"text"}) \in Texts /\ Ordered(TextOf(a, {"text"}), PieceBefore)
           /\ Elements(TextOf(a, {"text"}))
                = {u \in Pieces : u[1] \in TextParts(a) /\ u[2] \in 1..Size(a, u[1])}
<1>. DEFINE S == TextParts(a)
            is == InOrder(S)
            s == [k \in DOMAIN is |-> Body(a, is[k])]
<1>1. S \in SUBSET Nat /\ IsFiniteSet(S) /\ \A i \in S : i \in PartsIn(a)
  <2>1. Len(a.output) \in Nat
    BY AnswerFacts
  <2>2. IsFiniteSet(PartsIn(a))
    BY <2>1, FS_Interval DEF PartsIn
  <2>3. S \subseteq PartsIn(a) /\ PartsIn(a) \subseteq Nat
    BY DEF TextParts, PartsIn
  <2>. QED
    BY <2>2, <2>3, FS_Subset
<1>2. TextOf(a, {"text"}) = FlattenSeq(s)
  <2>1. {i \in DOMAIN a.output : a.output[i].kind \in {"text"}} = S
    BY AnswerFacts DEF TextParts
  <2>. QED
    BY <2>1 DEF TextOf, Places
<1>3. /\ is \in Seq(S) /\ Len(is) \in Nat /\ DOMAIN is = 1..Len(is)
      /\ \A k, l \in 1..Len(is) : k < l => is[k] < is[l]
      /\ \A i \in S : \E k \in 1..Len(is) : is[k] = i
  <2>1. /\ is \in Seq(S) /\ Len(is) = Cardinality(S)
        /\ \A k, l \in 1..Cardinality(S) : k < l => is[k] < is[l]
        /\ \A i \in S : \E k \in 1..Cardinality(S) : is[k] = i
    BY <1>1, InOrderEnumerates
  <2>. QED
    BY <2>1
<1>. HIDE DEF is
<1>4. \A k \in 1..Len(is) : is[k] \in S /\ is[k] \in Nat /\ Size(a, is[k]) \in Nat
  <2>1. \A i \in S : i \in Nat /\ Size(a, i) \in Nat
    BY <1>1, PartFacts
  <2>. QED
    BY <1>3, <2>1
<1>5. /\ Len(s) = Len(is) /\ DOMAIN s = 1..Len(is)
      /\ \A k \in 1..Len(is) : s[k] = Got(is[k], Size(a, is[k])) /\ s[k] \in Texts
      /\ s \in Seq(Texts)
  <2>1. \A k \in 1..Len(is) : Body(a, is[k]) = Got(is[k], Size(a, is[k])) /\ Body(a, is[k]) \in Texts
    BY <1>4, BodyIsGot, GotIs
  <2>2. s \in [1..Len(is) -> Texts]
    BY <1>3, <2>1
  <2>. QED
    BY <1>3, <2>1, <2>2
<1>. HIDE DEF s
<1>6. \A k \in 1..Len(is) :
        /\ Len(s[k]) = Size(a, is[k]) /\ Ordered(s[k], PieceBefore)
        /\ \A x \in 1..Len(s[k]) : s[k][x] = <<is[k], x>>
        /\ Elements(s[k]) = {<<is[k], x>> : x \in 1..Size(a, is[k])}
  <2>1. ASSUME NEW i \in Nat, NEW n \in Nat, NEW g, g = Got(i, n)
        PROVE  /\ Len(g) = n /\ Ordered(g, PieceBefore) /\ \A x \in 1..Len(g) : g[x] = <<i, x>>
               /\ Elements(g) = {<<i, x>> : x \in 1..n}
    BY <2>1, GotIs
  <2>2. ASSUME NEW k \in 1..Len(is)
        PROVE  /\ Len(s[k]) = Size(a, is[k]) /\ Ordered(s[k], PieceBefore)
               /\ \A x \in 1..Len(s[k]) : s[k][x] = <<is[k], x>>
               /\ Elements(s[k]) = {<<is[k], x>> : x \in 1..Size(a, is[k])}
    <3>1. PICK i \in Nat : i = is[k]
      BY <1>4
    <3>2. PICK n \in Nat : n = Size(a, is[k])
      BY <1>4
    <3>3. s[k] = Got(i, n)
      BY <1>5, <3>1, <3>2
    <3>4. PICK g : g = s[k]
      OBVIOUS
    <3>5. /\ Len(g) = n /\ Ordered(g, PieceBefore) /\ \A x \in 1..Len(g) : g[x] = <<i, x>>
          /\ Elements(g) = {<<i, x>> : x \in 1..n}
      BY <2>1, <3>3, <3>4
    <3>. QED
      BY <3>1, <3>2, <3>4, <3>5
  <2>. QED
    BY <2>2
<1>7. Chained(s, PieceBefore)
  <2>1. ASSUME NEW k \in 1..Len(is), NEW l \in 1..Len(is), k < l,
               NEW x \in 1..Len(s[k]), NEW y \in 1..Len(s[l])
        PROVE  <<s[k][x], s[l][y]>> \in PieceBefore
    <3>1. s[k][x] = <<is[k], x>> /\ s[l][y] = <<is[l], y>> /\ is[k] < is[l]
      BY <1>3, <1>6, <2>1
    <3>2. is[k] \in Nat /\ is[l] \in Nat /\ x \in Nat /\ y \in Nat
      BY <1>4, <1>6
    <3>. QED
      BY <3>1, <3>2 DEF PieceBefore, Pieces
  <2>. QED
    BY <1>5, <1>6, <2>1 DEF Chained
<1>8. Joins(Pieces, PieceBefore, s)
  BY <1>5, <1>7, FlattenOrdered DEF Texts
<1>9. AllElements(s) = {u \in Pieces : u[1] \in S /\ u[2] \in 1..Size(a, u[1])}
  <2>1. ASSUME NEW k \in 1..Len(is), NEW u \in Elements(s[k])
        PROVE  u \in Pieces /\ u[1] \in S /\ u[2] \in 1..Size(a, u[1])
    <3>1. PICK x \in 1..Size(a, is[k]) : u = <<is[k], x>>
      BY <1>6, <2>1
    <3>. QED
      BY <1>4, <3>1 DEF Pieces
  <2>2. ASSUME NEW u \in Pieces, u[1] \in S, u[2] \in 1..Size(a, u[1])
        PROVE  u \in AllElements(s)
    <3>1. PICK k \in 1..Len(is) : is[k] = u[1]
      BY <1>3, <2>2
    <3>2. u = <<is[k], u[2]>>
      BY <3>1 DEF Pieces
    <3>3. u \in Elements(s[k])
      BY <1>6, <2>2, <3>1, <3>2
    <3>. QED
      BY <1>5, <3>3 DEF AllElements
  <2>. QED
    BY <1>5, <2>1, <2>2 DEF AllElements
<1>. QED
  BY <1>2, <1>8, <1>9 DEF Joins, Texts

LEMMA TextMatches ==
    ASSUME NEW a \in Answers, NEW tn, tn.text \in Texts, Ordered(tn.text, PieceBefore),
           Elements(tn.text) = {u \in Pieces : u[1] \in TextParts(a) /\ u[2] \in 1..Size(a, u[1])}
    PROVE  tn.text = TextOf(a, {"text"})
<1>. DEFINE q == tn.text
            r == TextOf(a, {"text"})
<1>1. r \in Seq(Pieces) /\ Ordered(r, PieceBefore) /\ Elements(r) = Elements(q)
  BY TextIs DEF Texts
<1>2. q \in Seq(Pieces) /\ Ordered(q, PieceBefore)
  BY DEF Texts
<1>3. \A x, y \in Pieces : <<x, y>> \in PieceBefore => <<y, x>> \notin PieceBefore
  BY BeforeFacts
<1>. HIDE DEF q, r
<1>4. q = r
  BY <1>1, <1>2, <1>3, OrderedUnique
<1>. QED
  BY <1>4 DEF q, r

(* A turn whose calls are those of the call parts, in order.               *)
LEMMA CallsAre ==
    ASSUME NEW a \in Answers, NEW tn \in Turns,
           NEW q \in Seq(Nat), Len(q) = Len(tn.calls), Ordered(q, Less), Elements(q) = CallParts(a),
           \A k \in 1..Len(tn.calls) :
             tn.calls[k].name = a.output[q[k]].name /\ tn.calls[k].args = Body(a, q[k])
    PROVE  /\ Named(tn.calls) = CallsOf(a)
           /\ \A k \in DOMAIN tn.calls : tn.calls[k].args # Missing
           /\ tn.calls # <<>> <=> HasCall(a)
<1>. DEFINE S == CallParts(a)
            n == Len(tn.calls)
<1>1. n \in Nat /\ DOMAIN tn.calls = 1..n /\ tn.calls \in Seq(Called)
  BY CallTypes
<1>2. S \in SUBSET Nat /\ IsFiniteSet(S) /\ (\A i \in S : i \in PartsIn(a)) /\ DOMAIN a.output = PartsIn(a)
  <2>1. Len(a.output) \in Nat /\ DOMAIN a.output = PartsIn(a)
    BY AnswerFacts
  <2>2. IsFiniteSet(PartsIn(a))
    BY <2>1, FS_Interval DEF PartsIn
  <2>3. S \subseteq PartsIn(a) /\ PartsIn(a) \subseteq Nat
    BY DEF CallParts, PartsIn
  <2>. QED
    BY <2>1, <2>2, <2>3, FS_Subset
<1>3. \A k \in 1..n : q[k] \in S
  BY DEF Elements
<1>4. q \in Seq(Nat) /\ Len(q) = n /\ Elements(q) = S /\ Ordered(q, Less)
  OBVIOUS
<1>5. q = InOrder(S)
  BY <1>2, <1>4, InOrderUnique
<1>6. Places(a, {"call"}) = InOrder(S)
  <2>1. {i \in DOMAIN a.output : a.output[i].kind \in {"call"}} = S
    BY <1>2 DEF CallParts
  <2>. QED
    BY <2>1 DEF Places
<1>7. CallsOf(a) = [k \in DOMAIN q |-> [name |-> a.output[q[k]].name, args |-> Body(a, q[k])]]
  BY <1>5, <1>6 DEF CallsOf
<1>8. DOMAIN q = 1..n
  BY <1>4
<1>9. Named(tn.calls) = CallsOf(a)
  BY <1>1, <1>7, <1>8 DEF Named
<1>10. ASSUME NEW k \in DOMAIN tn.calls PROVE tn.calls[k].args # Missing
  <2>1. k \in 1..n
    BY <1>1
  <2>2. PICK i \in S : tn.calls[k].args = Body(a, i)
    BY <1>3, <2>1
  <2>3. i \in Nat /\ Size(a, i) \in Nat
    BY <1>2, <2>2, PartFacts
  <2>4. Got(i, Size(a, i)) # Missing
    BY <2>3, GotFacts
  <2>. QED
    BY <2>2, <2>4, BodyIsGot
<1>11. tn.calls # <<>> <=> HasCall(a)
  <2>1. HasCall(a) <=> S # {}
    BY <1>2 DEF HasCall, CallParts
  <2>2. S # {} <=> n # 0
    <3>1. n # 0 => 1 \in 1..n
      BY <1>1
    <3>2. n # 0 => q[1] \in S
      BY <1>3, <3>1
    <3>3. n = 0 => 1..n = {}
      BY <1>1
    <3>4. n = 0 => Elements(q) = {}
      BY <1>4, <3>3 DEF Elements
    <3>. QED
      BY <1>4, <3>2, <3>4
  <2>3. n # 0 <=> tn.calls # <<>>
    BY <1>1
  <2>. QED
    BY <2>1, <2>2, <2>3
<1>. QED
  BY <1>9, <1>10, <1>11

(* When every call is over, the turn's calls are those of the answer.      *)
LEMMA CallsMatch ==
    ASSUME NEW a \in Answers, NEW tn \in Turns, CallsInOrder(a, tn),
           \A i \in CallParts(a) : Told(tn, CallId(i), a.output[i].name, Body(a, i))
    PROVE  /\ Named(tn.calls) = CallsOf(a)
           /\ \A k \in DOMAIN tn.calls : tn.calls[k].args # Missing
           /\ tn.calls # <<>> <=> HasCall(a)
<1>. DEFINE S == CallParts(a)
            n == Len(tn.calls)
            q == [k \in 1..n |-> tn.calls[k].id[2]]
<1>1. n \in Nat /\ DOMAIN tn.calls = 1..n /\ tn.calls \in Seq(Called)
  BY CallTypes
<1>2. S \in SUBSET Nat /\ IsFiniteSet(S) /\ (\A i \in S : i \in PartsIn(a)) /\ DOMAIN a.output = PartsIn(a)
  <2>1. Len(a.output) \in Nat /\ DOMAIN a.output = PartsIn(a)
    BY AnswerFacts
  <2>2. IsFiniteSet(PartsIn(a))
    BY <2>1, FS_Interval DEF PartsIn
  <2>3. S \subseteq PartsIn(a) /\ PartsIn(a) \subseteq Nat
    BY DEF CallParts, PartsIn
  <2>. QED
    BY <2>1, <2>2, <2>3, FS_Subset
<1>3. ASSUME NEW k \in 1..n
      PROVE  /\ q[k] \in S /\ tn.calls[k].id = CallId(q[k])
             /\ tn.calls[k].name = a.output[q[k]].name /\ tn.calls[k].args = Body(a, q[k])
  <2>1. PICK i \in S : tn.calls[k].id = CallId(i)
    BY DEF CallsInOrder, CallOfPart
  <2>2. CallId(i)[2] = i
    BY <2>1, CallIds
  <2>3. q[k] = i
    BY <2>1, <2>2
  <2>4. Told(tn, CallId(i), a.output[i].name, Body(a, i))
    BY <2>1
  <2>5. PICK l \in 1..n : /\ Pending(tn, CallId(i)) = {l} /\ tn.calls[l].name = a.output[i].name
                          /\ tn.calls[l].args = Body(a, i)
    BY <2>4 DEF Told
  <2>6. k \in Pending(tn, CallId(i))
    BY <1>1, <2>1 DEF Pending
  <2>. QED
    BY <2>1, <2>3, <2>5, <2>6
<1>4. q \in Seq(Nat) /\ Len(q) = n
  <2>1. \A k \in 1..n : tn.calls[k].id[2] \in Nat
    BY <1>2, <1>3
  <2>2. q \in [1..n -> Nat]
    BY <2>1
  <2>. QED
    BY <1>1, <2>2
<1>5. Ordered(q, Less)
  <2>1. ASSUME NEW i \in 1..n, NEW j \in 1..n, i < j PROVE q[i] \in Nat /\ q[j] \in Nat /\ q[i] < q[j]
    BY <1>2, <1>3, <2>1 DEF CallsInOrder
  <2>. QED
    BY <1>4, <2>1, LessThan DEF Ordered
<1>6. Elements(q) = S
  <2>1. Elements(q) \subseteq S
    BY <1>3, <1>4 DEF Elements
  <2>2. ASSUME NEW i \in S PROVE i \in Elements(q)
    <3>1. Told(tn, CallId(i), a.output[i].name, Body(a, i))
      OBVIOUS
    <3>2. PICK k \in 1..n : Pending(tn, CallId(i)) = {k}
      BY <3>1 DEF Told
    <3>3. tn.calls[k].id = CallId(i)
      BY <3>2 DEF Pending
    <3>4. CallId(i)[2] = i
      BY CallIds
    <3>5. q[k] = i
      BY <3>3, <3>4
    <3>. QED
      BY <1>4, <3>5 DEF Elements
  <2>. QED
    BY <2>1, <2>2
<1>. HIDE DEF q
<1>. QED
  BY <1>3, <1>4, <1>5, <1>6, CallsAre

LEMMA BlocksEnd ==
    ASSUME NEW a \in Answers, NEW td, NEW tl, NEW tn, NEW ch, Blocks(a, td, tl, tn, ch),
           AllOver(td), tl = <<>>
    PROVE  /\ tn.text = TextOf(a, {"text"}) /\ Named(tn.calls) = CallsOf(a)
           /\ \A k \in DOMAIN tn.calls : tn.calls[k].args # Missing
           /\ tn.calls # <<>> <=> HasCall(a)
<1>1. tn \in Turns /\ DOMAIN td = PartsIn(a)
  BY DEF Blocks, Common
<1>2. \A i \in PartsIn(a) : td[i] = <<>>
  BY <1>1 DEF AllOver
<1>3. ASSUME NEW i \in CallParts(a) PROVE Told(tn, CallId(i), a.output[i].name, Body(a, i))
  <2>1. td[i] = <<>> /\ i \in PartsIn(a)
    BY <1>2, CallIds
  <2>2. Stage(a, i, td[i], tl, tn, ch)
    BY DEF Blocks
  <2>3. ~Waiting(a, i, td[i], tl, tn, ch)
    <3>1. <<>> \notin PartEvents(a, i)
      BY OpenAIFirst, AnthropicFirst
    <3>. QED
      BY <2>1, <3>1 DEF Waiting
  <2>4. ~Open(a, i, td[i], tl, tn, ch)
    <3>1. DOMAIN tl = {}
      OBVIOUS
    <3>. QED
      BY <3>1 DEF Open, OpenAt
  <2>. QED
    BY <2>2, <2>3, <2>4 DEF Stage, Over
<1>4. CallsInOrder(a, tn)
  BY DEF Blocks
<1>5. tn.text = TextOf(a, {"text"})
  <2>1. Ordered(tn.text, PieceBefore) /\ Elements(tn.text) = TextSent(a, td)
    BY DEF Blocks, TextInOrder
  <2>2. tn.text \in Texts
    BY <1>1, CallTypes
  <2>3. \A i \in TextParts(a) : i \in PartsIn(a) /\ Size(a, i) \in Nat
    BY PartFacts DEF TextParts
  <2>4. \A i \in TextParts(a) : Size(a, i) - Len(td[i]) = Size(a, i)
    BY <1>2, <2>3
  <2>5. TextSent(a, td) = {u \in Pieces : u[1] \in TextParts(a) /\ u[2] \in 1..Size(a, u[1])}
    BY <2>4 DEF TextSent
  <2>. QED
    BY <2>1, <2>2, <2>5, TextMatches
<1>. QED
  BY <1>1, <1>3, <1>4, <1>5, CallsMatch

(* An answer in which a call was cut is none that complete() takes.        *)
LEMMA NotWhole ==
    ASSUME NEW a \in Answers, a.provider # "google", NEW i \in CallParts(a), ~a.output[i].whole
    PROVE  ~Consistent(a)
<1>1. i \in PartsIn(a) /\ i \in Nat /\ Size(a, i) \in Nat /\ Body(a, i) = Got(i, Size(a, i))
  BY ClosingFacts
<1>2. i \in DOMAIN a.output /\ a.output[i].kind = "call" /\ DOMAIN a.output = PartsIn(a)
  BY <1>1, AnswerFacts DEF CallParts
<1>3. a.provider \in {"openai", "anthropic"}
  BY AnswerFacts DEF Providers
<1>4. CASE a.provider = "anthropic"
  <2>1. a.stop = "max_tokens"
    <3>1. a.stop \in AtLimit /\ a.stop \in Stops("anthropic")
      BY <1>1, <1>4, AnswerFacts, PartFacts
    <3>. QED
      BY <3>1 DEF AtLimit, Stops
  <2>2. Response(a).finish = "length"
    BY <1>4, <2>1 DEF Response, AnthropicResponse, AnthropicFinish
  <2>3. HasCall(a)
    BY <1>2 DEF HasCall
  <2>. QED
    BY <2>2, <2>3 DEF Consistent
<1>5. CASE a.provider = "openai"
  <2>1. Size(a, i) # 0
    BY <1>1, <1>2, <1>5, PartFacts
  <2>2. Body(a, i) # <<>> /\ Body(a, i)[1] = <<i, 1>>
    <3>1. 1 \in 1..Size(a, i)
      BY <1>1, <2>1
    <3>2. Len(Got(i, Size(a, i))) = Size(a, i) /\ Got(i, Size(a, i))[1] = <<i, 1>>
      BY <1>1, <3>1, GotIs
    <3>3. Body(a, i) # <<>>
      BY <1>1, <2>1, <3>2
    <3>. QED
      BY <1>1, <3>2, <3>3
  <2>3. ASSUME NEW k \in DOMAIN a.output, Body(a, i) = Body(a, k) PROVE k = i
    <3>1. k \in PartsIn(a)
      BY <1>2
    <3>2. k \in Nat /\ Size(a, k) \in Nat
      BY <3>1, PartFacts
    <3>3. Body(a, k) = Got(k, Size(a, k))
      BY BodyIsGot
    <3>4. Size(a, k) # 0
      <4>1. Got(k, 0) = <<>>
        BY <3>2, GotFacts
      <4>. QED
        BY <2>2, <2>3, <3>3, <4>1
    <3>5. Got(k, Size(a, k))[1] = <<k, 1>>
      BY <3>2, <3>4, GotFacts
    <3>. QED
      BY <2>2, <2>3, <3>3, <3>5
  <2>4. ~Parsed(a, Body(a, i))
    BY <1>5, <2>2, <2>3 DEF Parsed
  <2>. QED
    BY <1>2, <1>5, <2>4 DEF Consistent, Accepted
<1>. QED
  BY <1>3, <1>4, <1>5

LEMMA NothingOpen ==
    ASSUME NEW a \in Answers, a.provider # "google",
           NEW td, NEW tl, NEW tn, NEW ch, Blocks(a, td, tl, tn, ch), AllOver(td), Consistent(a)
    PROVE  tl = <<>>
<1>1. DOMAIN td = PartsIn(a) /\ ToolsOfParts(a, tl)
  BY DEF Blocks
<1>2. ASSUME NEW key \in DOMAIN tl PROVE FALSE
  <2>1. PICK i \in CallParts(a) : key = Key(a, i)
    BY <1>1 DEF ToolsOfParts
  <2>2. td[i] = <<>> /\ i \in PartsIn(a)
    BY <1>1, <2>1, CallIds DEF AllOver
  <2>3. Stage(a, i, td[i], tl, tn, ch)
    BY <2>1 DEF Blocks
  <2>4. Open(a, i, td[i], tl, tn, ch)
    BY <2>1, <2>3 DEF Stage, Waiting, Over
  <2>5. PICK j \in 0..Size(a, i) : td[i] \in Rest(a, i, j)
    BY <2>4 DEF Open, OpenAt
  <2>6. ~a.output[i].whole
    BY <2>1, <2>2, <2>5, OpenAINext, AnthropicNext
  <2>. QED
    BY <2>1, <2>6, NotWhole
<1>3. DOMAIN tl = {}
  BY <1>2
<1>4. tl = [k \in DOMAIN tl |-> tl[k]]
  BY <1>1 DEF ToolsOfParts
<1>. QED
  BY <1>3, <1>4

(* What complete() makes of an answer, the refusals left out.              *)
LEMMA ResponseIs ==
    ASSUME NEW a \in Answers
    PROVE  /\ \A text : [Response(a) EXCEPT !.text = text]
                          = [text |-> text, calls |-> CallsOf(a), finish |-> Response(a).finish]
           /\ a.provider = "openai" => Response(a).finish = OpenAIFinish(a)
           /\ a.provider = "anthropic" => Response(a).finish = AnthropicFinish(a.stop)
           /\ a.provider = "google" => Response(a).finish = GeminiFinish(a.stop, HasCall(a))
           /\ Response(a).finish \in AllNames
           /\ Response(a).finish \in {"stop", "length", "tool_call", "content_filter", "error"}
<1>1. a.provider \in {"openai", "anthropic", "google"}
  BY AnswerFacts DEF Providers
<1>2. CASE a.provider = "openai"
  BY <1>2 DEF Response, OpenAIResponse, OpenAIFinish, AllNames
<1>3. CASE a.provider = "anthropic"
  BY <1>3 DEF Response, AnthropicResponse, AnthropicFinish, AllNames
<1>4. CASE a.provider = "google"
  BY <1>4 DEF Response, GeminiResponse, GeminiFinish, AllNames
<1>. QED
  BY <1>1, <1>2, <1>3, <1>4

(* Closing the stream: the reasoning that is open is ended, then the done  *)
(* chunk is told if the assembler finishes.                                *)
LEMMA CloseFacts ==
    ASSUME EndOfStream, Common(turn, chunks), asm \in Assemblers
    PROVE  /\ asm' \in Assemblers /\ asm'.replay = asm.replay
           /\ \E t, ch : /\ Common(t, ch) /\ t.text = turn.text /\ t.calls = turn.calls
                         /\ Finishes => /\ chunks' = Append(ch, Done(asm.finish))
                                        /\ turn' = Collected(t, Done(asm.finish))
                         /\ ~Finishes => chunks' = ch /\ turn' = t
<1>. DEFINE done == Done(asm.finish)
            re == Reasoning("reasoning-end", <<>>)
            end == CloseReasoning([asm |-> asm, out |-> <<>>])
            cs == end.out \o (IF Finishes THEN <<done>> ELSE <<>>)
<1>1. asm' = end.asm /\ chunks' = chunks \o cs /\ turn' = CollectedAll(turn, cs)
  BY DEF EndOfStream
<1>2. turn \in Turns /\ turn.valid /\ turn.finish = "none" /\ chunks \in Seq(Chunks)
      /\ Lifecycle(chunks) /\ NotDone(chunks)
  BY DEF Common
<1>3. done \in Chunks /\ re \in Chunks /\ re.type = "reasoning-end"
  <2>1. <<"call", 1>> \in Ids /\ <<>> \in Texts
    BY DEF Ids, Texts
  <2>2. asm.finish \in AllNames
    BY DEF Assemblers
  <2>3. done \in Chunks
    BY <2>1, <2>2, ChunkOf
  <2>4. re \in Chunks
    BY <2>1, TextChunk
  <2>. QED
    BY <2>3, <2>4 DEF Reasoning, Chunk
<1>4. CASE ~asm.reasoning
  <2>1. end = [asm |-> asm, out |-> <<>>]
    BY <1>4 DEF CloseReasoning
  <2>2. asm' = asm /\ cs = <<>> \o (IF Finishes THEN <<done>> ELSE <<>>)
    <3>1. end.asm = asm /\ end.out = <<>>
      BY <2>1
    <3>. HIDE DEF end
    <3>. QED
      BY <1>1, <3>1
  <2>. HIDE DEF done, re, end, cs
  <2>3. CASE Finishes
    <3>1. <<done>> \in Seq(Chunks) /\ <<>> \o <<done>> = <<done>>
      BY <1>3
    <3>2. cs = <<done>>
      BY <2>2, <2>3, <3>1
    <3>3. chunks' = Append(chunks, done) /\ turn' = Collected(turn, done)
      BY <1>1, <1>2, <1>3, <3>2, AppendIsConcat, OneChunk
    <3>. QED
      BY <2>2, <2>3, <3>3 DEF done
  <2>4. CASE ~Finishes
    <3>1. cs = <<>>
      BY <2>2, <2>4
    <3>2. chunks' = chunks /\ turn' = turn
      BY <1>1, <1>2, <3>1, CollectedNothing
    <3>. QED
      BY <2>2, <2>4, <3>2
  <2>. QED
    BY <2>3, <2>4
<1>5. CASE asm.reasoning
  <2>. DEFINE t == Collected(turn, re)
              ch == Append(chunks, re)
  <2>1. /\ end.asm = [asm EXCEPT !.reasoning = FALSE]
        /\ end.out = Append(<<>>, re)
    BY <1>5 DEF CloseReasoning
  <2>2. asm' = [asm EXCEPT !.reasoning = FALSE]
    BY <1>1, <2>1
  <2>3. asm' \in Assemblers /\ asm'.replay = asm.replay
    BY <2>2 DEF Assemblers
  <2>4. cs = <<re>> \o (IF Finishes THEN <<done>> ELSE <<>>)
    <3>1. Append(<<>>, re) = <<re>>
      OBVIOUS
    <3>. QED
      BY <2>1, <3>1
  <2>5. /\ t \in Turns /\ t.valid /\ t.calls = turn.calls /\ t.text = turn.text
        /\ t.finish = turn.finish
    <3>1. re.type \in OtherChunks /\ re.type # "text-delta" /\ re.type # "done"
      BY <1>3 DEF OtherChunks
    <3>. HIDE DEF re
    <3>. QED
      BY <1>2, <1>3, <3>1, OtherStep
  <2>6. Common(t, ch)
    <3>1. re.type \notin ToolChunks /\ re.type # "done" /\ re.type # "tool-call-arguments"
      BY <1>3 DEF ToolChunks
    <3>. HIDE DEF re
    <3>2. Lifecycle(ch)
      BY <1>2, <1>3, <3>1, LifecycleAppend
    <3>3. NotDone(ch)
      BY <1>2, <1>3, <3>1, NotDoneAppend
    <3>4. ch \in Seq(Chunks)
      BY <1>2, <1>3
    <3>. QED
      BY <1>2, <2>5, <3>2, <3>3, <3>4 DEF Common
  <2>. HIDE DEF done, re, end, cs
  <2>7. CASE Finishes
    <3>1. <<re>> \o <<done>> = <<re, done>> /\ <<re>> \in Seq(Chunks) /\ <<done>> \in Seq(Chunks)
      BY <1>3, PairIs
    <3>2. cs = <<re>> \o <<done>>
      BY <2>4, <2>7
    <3>3. turn' = Collected(t, done)
      <4>1. CollectedAll(turn, <<re, done>>) = Collected(Collected(turn, re), done)
        BY <1>3, OneChunk
      <4>2. turn' = CollectedAll(turn, <<re, done>>)
        BY <1>1, <3>1, <3>2
      <4>. QED
        BY <4>1, <4>2 DEF t
    <3>4. chunks' = Append(ch, done)
      <4>1. chunks \o (<<re>> \o <<done>>) = (chunks \o <<re>>) \o <<done>>
        BY <1>2, <3>1, ConcatAssociative
      <4>2. chunks \o <<re>> = ch /\ ch \in Seq(Chunks)
        BY <1>2, <1>3, AppendIsConcat, AppendProperties
      <4>3. ch \o <<done>> = Append(ch, done)
        BY <1>3, <4>2, AppendIsConcat
      <4>. QED
        BY <1>1, <3>2, <4>1, <4>2, <4>3
    <3>. QED
      BY <2>3, <2>5, <2>6, <2>7, <3>3, <3>4 DEF done
  <2>8. CASE ~Finishes
    <3>1. cs = <<re>>
      BY <1>3, <2>4, <2>8
    <3>2. turn' = t /\ chunks' = ch
      BY <1>1, <1>2, <1>3, <3>1, OneChunk, AppendIsConcat
    <3>. QED
      BY <2>3, <2>5, <2>6, <2>8, <3>2
  <2>. QED
    BY <2>7, <2>8
<1>. QED
  BY <1>4, <1>5

(* What the assembler that finishes has collected.                         *)
EndIsWhole ==
    /\ Finishes =>
         /\ phase = "ended" /\ asm.finish = Response(answer).finish
         /\ turn.text = TextOf(answer, {"text"}) /\ Named(turn.calls) = CallsOf(answer)
         /\ \A k \in DOMAIN turn.calls : turn.calls[k].args # Missing
         /\ turn.calls # <<>> <=> HasCall(answer)
         /\ Provider = "google" /\ Attached => StateMatchesMessage(turn.calls, asm.replay, tools)
    /\ phase = "ended" /\ Consistent(answer) => Finishes
Concludes ==
    /\ answer' = answer /\ Orderly(chunks')
    /\ status' \in {"recorded", "failed"}
    /\ status' = "recorded" => phase' = "ended" /\ Matches(answer', tools', asm', turn')
    /\ status' = "failed" /\ Consistent(answer) => phase' = "broken"

LEMMA EndOfStreamStep ==
    ASSUME EndOfStream, Common(turn, chunks), answer \in Answers, asm \in Assemblers, EndIsWhole
    PROVE  Concludes
<1>1. /\ answer' = answer /\ tools' = tools
      /\ phase' = IF phase = "ended" THEN phase ELSE "broken"
      /\ status' = IF Finishes /\ Recordable(turn') THEN "recorded" ELSE "failed"
  BY DEF EndOfStream
<1>2. asm' \in Assemblers /\ asm'.replay = asm.replay
  BY CloseFacts
<1>3. PICK t, ch : /\ Common(t, ch) /\ t.text = turn.text /\ t.calls = turn.calls
                   /\ Finishes => /\ chunks' = Append(ch, Done(asm.finish))
                                  /\ turn' = Collected(t, Done(asm.finish))
                   /\ ~Finishes => chunks' = ch /\ turn' = t
  BY CloseFacts
<1>4. t \in Turns /\ t.valid /\ ch \in Seq(Chunks) /\ Lifecycle(ch) /\ NotDone(ch) /\ Len(ch) \in Nat
  BY <1>3 DEF Common
<1>5. CASE ~Finishes
  <2>1. Orderly(chunks')
    BY <1>3, <1>4, <1>5 DEF Orderly, NotDone
  <2>2. status' = "failed"
    BY <1>1, <1>5
  <2>3. Consistent(answer) => phase' = "broken"
    BY <1>1, <1>5 DEF EndIsWhole
  <2>. QED
    BY <1>1, <2>1, <2>2, <2>3 DEF Concludes
<1>6. CASE Finishes
  <2>. DEFINE done == Done(asm.finish)
  <2>1. done \in Chunks /\ done.type = "done" /\ done.name = asm.finish
    <3>1. <<"call", 1>> \in Ids /\ <<>> \in Texts
      BY DEF Ids, Texts
    <3>2. asm.finish \in AllNames
      BY DEF Assemblers
    <3>3. done \in Chunks
      BY <3>1, <3>2, ChunkOf
    <3>. QED
      BY <3>3 DEF Done, Chunk
  <2>2. chunks' = Append(ch, done) /\ turn' = Collected(t, done)
    BY <1>3, <1>6
  <2>. HIDE DEF done
  <2>3. done.type \in OtherChunks /\ done.type # "text-delta"
    BY <2>1 DEF OtherChunks
  <2>4. /\ turn' \in Turns /\ turn'.valid /\ turn'.calls = turn.calls /\ turn'.text = turn.text
        /\ turn'.finish = asm.finish
    BY <1>3, <1>4, <2>1, <2>2, <2>3, OtherStep
  <2>5. Orderly(chunks')
    <3>1. done.type \notin ToolChunks /\ done.type # "tool-call-arguments"
      BY <2>1 DEF ToolChunks
    <3>2. Lifecycle(Append(ch, done))
      BY <1>4, <2>1, <3>1, LifecycleAppend
    <3>3. /\ Append(ch, done) \in Seq(Chunks) /\ Len(Append(ch, done)) = Len(ch) + 1
          /\ \A k \in 1..Len(ch) : Append(ch, done)[k] = ch[k]
      BY <1>4, <2>1, AppendProperties
    <3>4. ASSUME NEW k \in 1..Len(chunks'), chunks'[k].type = "done" PROVE k = Len(chunks')
      <4>1. k \notin 1..Len(ch)
        BY <1>4, <2>2, <3>3, <3>4 DEF NotDone
      <4>. QED
        BY <1>4, <2>2, <3>3, <4>1
    <3>. QED
      BY <2>2, <3>2, <3>3, <3>4 DEF Orderly
  <2>6. /\ phase = "ended" /\ asm.finish = Response(answer).finish
        /\ turn.text = TextOf(answer, {"text"}) /\ Named(turn.calls) = CallsOf(answer)
        /\ \A k \in DOMAIN turn.calls : turn.calls[k].args # Missing
        /\ turn.calls # <<>> <=> HasCall(answer)
        /\ Provider = "google" /\ Attached => StateMatchesMessage(turn.calls, asm.replay, tools)
    BY <1>6 DEF EndIsWhole
  <2>7. phase' = "ended"
    BY <1>1, <2>6
  <2>8. Matches(answer', tools', asm', turn')
    <3>1. [text |-> turn'.text, calls |-> Named(turn'.calls), finish |-> turn'.finish]
            = [Response(answer) EXCEPT !.text = TextOf(answer, {"text"})]
      BY <2>4, <2>6, ResponseIs
    <3>2. /\ answer.provider = "google" /\ tools # <<>> /\ (\E k \in DOMAIN asm.replay : asm.replay[k].signed)
          => StateMatchesMessage(turn'.calls, asm.replay, tools)
      BY <2>4, <2>6 DEF Attached, Provider
    <3>. QED
      BY <1>1, <1>2, <3>1, <3>2 DEF Matches
  <2>9. Consistent(answer) => Recordable(turn')
    <3>1. turn'.finish # "none"
      BY <2>4, <2>6, ResponseIs
    <3>. QED
      BY <2>4, <2>6, <3>1 DEF Recordable, Consistent
  <2>. QED
    BY <1>1, <1>6, <2>5, <2>7, <2>8, <2>9 DEF Concludes
<1>. QED
  BY <1>5, <1>6

LEMMA OpenAIEnd ==
    ASSUME Reading, Provider = "openai"
    PROVE  Common(turn, chunks) /\ EndIsWhole
<1>1. answer \in Answers /\ OpenAIReading(answer, todo, phase, tools, asm, turn, chunks)
  BY DEF Reading
<1>2. /\ Blocks(answer, todo, tools, turn, chunks) /\ (asm.terminal <=> phase = "ended")
      /\ phase = "ended" => AllOver(todo) /\ asm.finish = OpenAIFinish(answer)
  BY <1>1 DEF OpenAIReading
<1>3. Finishes <=> asm.terminal /\ tools = <<>>
  BY DEF Finishes
<1>4. Common(turn, chunks)
  BY <1>2 DEF Blocks
<1>5. ASSUME Finishes
      PROVE  /\ phase = "ended" /\ asm.finish = Response(answer).finish
             /\ turn.text = TextOf(answer, {"text"}) /\ Named(turn.calls) = CallsOf(answer)
             /\ \A k \in DOMAIN turn.calls : turn.calls[k].args # Missing
             /\ turn.calls # <<>> <=> HasCall(answer)
  BY <1>1, <1>2, <1>3, <1>5, BlocksEnd, ResponseIs DEF Provider
<1>6. phase = "ended" /\ Consistent(answer) => Finishes
  BY <1>1, <1>2, <1>3, NothingOpen DEF Provider
<1>. QED
  BY <1>4, <1>5, <1>6 DEF EndIsWhole

(* An answer of Anthropic with a block has been observed when it is over.  *)
LEMMA SomethingShown ==
    ASSUME NEW a \in Answers, a.provider = "anthropic", NEW i \in PartsIn(a),
           a.output[i].kind # "text" \/ a.output[i].size > 0
    PROVE  <<>> \notin PartEvents(a, i)
<1>1. i \in Nat /\ Size(a, i) \in Nat /\ a.output[i].size = Size(a, i)
  BY PartFacts DEF Size
<1>2. CASE i \in CallParts(a)
  BY <1>2, AnthropicFirst
<1>3. CASE i \in TextParts(a)
  <2>1. a.output[i].kind = "text"
    BY <1>3 DEF TextParts
  <2>2. PartEvents(a, i) = {Fragments(a, i, "text.delta")}
    BY <2>1 DEF PartEvents
  <2>3. "text.delta" \in EventTypes
    BY DEF EventTypes
  <2>4. 0 \in 0..Size(a, i) /\ Fragments(a, i, "text.delta") = Left(a, i, 0, "text.delta")
    BY <1>1, FragmentsAreLeft
  <2>5. Len(Left(a, i, 0, "text.delta")) = Size(a, i)
    BY <1>1, <2>3, <2>4, LeftTyped
  <2>6. Size(a, i) # 0
    BY <1>1, <2>1
  <2>7. Len(<<>>) = 0
    OBVIOUS
  <2>. QED
    BY <2>2, <2>4, <2>5, <2>6, <2>7
<1>4. CASE i \notin CallParts(a) /\ i \notin TextParts(a)
  <2>1. a.output[i].kind # "text" /\ a.output[i].kind # "call"
    BY <1>4 DEF TextParts, CallParts
  <2>2. PartEvents(a, i) = {<<Event("block.start", <<>>)>> \o Fragments(a, i, "other")}
    BY <2>1 DEF PartEvents
  <2>3. Event("block.start", <<>>) \in Events
    <3>1. "block.start" \in EventTypes /\ <<>> \in Texts
      BY DEF EventTypes, Texts
    <3>. QED
      BY <3>1, EventFacts
  <2>4. Fragments(a, i, "other") \in Seq(Events)
    <3>1. "other" \in EventTypes
      BY DEF EventTypes
    <3>2. Fragments(a, i, "other") = Left(a, i, 0, "other")
      BY <1>1, FragmentsAreLeft
    <3>. QED
      BY <1>1, <3>1, <3>2, LeftFacts
  <2>. QED
    BY <2>2, <2>3, <2>4, HeadAndTail
<1>. QED
  BY <1>2, <1>3, <1>4

LEMMA AnthropicEnd ==
    ASSUME Reading, Provider = "anthropic"
    PROVE  Common(turn, chunks) /\ EndIsWhole
<1>1. answer \in Answers /\ AnthropicReading(answer, todo, phase, tools, asm, turn, chunks)
  BY DEF Reading
<1>2. /\ Blocks(answer, todo, tools, turn, chunks) /\ (asm.terminal <=> phase = "ended")
      /\ asm.started <=> phase # "opening"
      /\ phase \in {"stopping", "ended"} => AllOver(todo) /\ asm.finish = AnthropicFinish(answer.stop)
      /\ ~asm.observed => \A i \in PartsIn(answer) : todo[i] \in PartEvents(answer, i)
  BY <1>1 DEF AnthropicReading
<1>3. Finishes <=> asm.started /\ asm.terminal /\ tools = <<>> /\ Output
  BY DEF Finishes
<1>4. Common(turn, chunks) /\ DOMAIN todo = PartsIn(answer) /\ DOMAIN answer.output = PartsIn(answer)
  BY <1>1, <1>2, AnswerFacts DEF Blocks
<1>5. ASSUME Finishes
      PROVE  /\ phase = "ended" /\ asm.finish = Response(answer).finish
             /\ turn.text = TextOf(answer, {"text"}) /\ Named(turn.calls) = CallsOf(answer)
             /\ \A k \in DOMAIN turn.calls : turn.calls[k].args # Missing
             /\ turn.calls # <<>> <=> HasCall(answer)
  BY <1>1, <1>2, <1>3, <1>5, BlocksEnd, ResponseIs DEF Provider
<1>6. ASSUME phase = "ended", Consistent(answer) PROVE Finishes
  <2>1. tools = <<>>
    BY <1>1, <1>2, <1>6, NothingOpen DEF Provider
  <2>2. asm.finish = Response(answer).finish
    BY <1>1, <1>2, <1>6, ResponseIs DEF Provider
  <2>3. \/ Response(answer).finish = "content_filter"
        \/ \E i \in PartsIn(answer) : answer.output[i].kind # "text" \/ answer.output[i].size > 0
    BY <1>4, <1>6 DEF Consistent, Provider
  <2>4. Output
    <3>1. CASE Response(answer).finish = "content_filter"
      BY <2>2, <3>1 DEF Output
    <3>2. CASE \E i \in PartsIn(answer) : answer.output[i].kind # "text" \/ answer.output[i].size > 0
      <4>1. PICK i \in PartsIn(answer) : answer.output[i].kind # "text" \/ answer.output[i].size > 0
        BY <3>2
      <4>2. <<>> \notin PartEvents(answer, i)
        BY <1>1, <4>1, SomethingShown DEF Provider
      <4>3. todo[i] = <<>>
        BY <1>2, <1>4, <1>6 DEF AllOver
      <4>. QED
        BY <1>2, <4>2, <4>3 DEF Output
    <3>. QED
      BY <2>3, <3>1, <3>2
  <2>. QED
    BY <1>2, <1>3, <1>6, <2>1, <2>4
<1>. QED
  BY <1>4, <1>5, <1>6 DEF EndIsWhole

-----------------------------------------------------------------------------
(* The start of the stream.                                                *)

LEMMA SilentStart ==
    ASSUME NEW a \in Answers, NEW i \in PartsIn(a), i \notin CallParts(a), i \notin TextParts(a),
           NEW left \in PartEvents(a, i)
    PROVE  left \in Seq(SilentEvents)
<1>1. a.output[i].kind # "text" /\ a.output[i].kind # "call"
  BY DEF TextParts, CallParts
<1>2. i \in Nat /\ Size(a, i) \in Nat
  BY PartFacts
<1>. DEFINE f == Fragments(a, i, "other")
            s == Event("block.start", <<>>)
<1>3. left = (IF a.provider = "anthropic" THEN <<s>> ELSE <<>>) \o f
  BY <1>1 DEF PartEvents
<1>4. f \in Seq(SilentEvents)
  <2>1. \A j \in 1..Size(a, i) : <<<<i, j>>>> \in Texts
    BY <1>2 DEF Texts, Pieces
  <2>2. \A j \in 1..Size(a, i) : Event("other", <<<<i, j>>>>) \in SilentEvents
    BY <2>1 DEF Event, SilentEvents
  <2>3. f = [j \in 1..Size(a, i) |-> Event("other", <<<<i, j>>>>)]
    BY DEF Fragments, Size
  <2>4. f \in [1..Size(a, i) -> SilentEvents]
    BY <2>2, <2>3
  <2>. QED
    BY <1>2, <2>4
<1>5. s \in SilentEvents
  BY DEF Event, SilentEvents, Texts
<1>. HIDE DEF f, s
<1>6. <<s>> \in Seq(SilentEvents) /\ <<>> \in Seq(SilentEvents)
  BY <1>5
<1>. QED
  BY <1>3, <1>4, <1>6

LEMMA TextStart ==
    ASSUME NEW a \in Answers, NEW i \in TextParts(a), NEW left \in PartEvents(a, i)
    PROVE  TextLeft(a, i, left) /\ Len(left) = Size(a, i)
<1>1. i \in PartsIn(a) /\ a.output[i].kind = "text"
  BY DEF TextParts
<1>2. i \in Nat /\ Size(a, i) \in Nat
  BY <1>1, PartFacts
<1>3. left = Fragments(a, i, "text.delta")
  BY <1>1 DEF PartEvents
<1>4. left = Left(a, i, 0, "text.delta")
  BY <1>2, <1>3, FragmentsAreLeft
<1>5. "text.delta" \in EventTypes /\ 0 \in 0..Size(a, i)
  BY <1>2 DEF EventTypes
<1>6. Len(left) = Size(a, i)
  BY <1>2, <1>4, <1>5, LeftTyped
<1>. QED
  BY <1>2, <1>4, <1>6 DEF TextLeft

LEMMA CommonStart ==
    ASSUME Init
    PROVE  Common(turn, chunks) /\ asm \in Assemblers /\ turn.calls = <<>> /\ turn.text = <<>>
<1>1. /\ chunks = <<>>
      /\ turn = [text |-> <<>>, calls |-> <<>>, finish |-> "none", valid |-> TRUE]
      /\ asm = [started |-> FALSE, observed |-> FALSE, terminal |-> FALSE, reasoning |-> FALSE,
                finish |-> "stop", replay |-> <<>>]
  BY DEF Init
<1>2. turn \in Turns /\ turn.valid /\ turn.finish = "none"
  BY <1>1 DEF Turns, Texts, AllNames
<1>3. asm \in Assemblers
  BY <1>1 DEF Assemblers, AllNames
<1>4. Lifecycle(<<>>) /\ NotDone(<<>>) /\ <<>> \in Seq(Chunks)
  BY DEF Lifecycle, NotDone
<1>. QED
  BY <1>1, <1>2, <1>3, <1>4 DEF Common

LEMMA BlocksStart ==
    ASSUME Init, Provider # "google"
    PROVE  /\ Blocks(answer, todo, tools, turn, chunks)
           /\ \A i \in PartsIn(answer) : todo[i] \in PartEvents(answer, i)
<1>1. answer \in Answers /\ tools = <<>> /\ chunks = <<>>
  BY DEF Init
<1>2. DOMAIN answer.output = PartsIn(answer)
  BY <1>1, AnswerFacts
<1>3. DOMAIN todo = PartsIn(answer) /\ \A i \in PartsIn(answer) : todo[i] \in PartEvents(answer, i)
  BY <1>2 DEF Init
<1>4. Common(turn, chunks) /\ turn.calls = <<>> /\ turn.text = <<>>
  BY CommonStart
<1>5. ToolsOfParts(answer, tools)
  BY <1>1 DEF ToolsOfParts
<1>6. ASSUME NEW i \in CallParts(answer) PROVE Stage(answer, i, todo[i], tools, turn, chunks)
  <2>1. i \in PartsIn(answer)
    BY DEF CallParts
  <2>2. Unseen(turn, chunks, CallId(i))
    BY <1>1, <1>4 DEF Unseen, Pending
  <2>3. Key(answer, i) \notin DOMAIN tools
    BY <1>1
  <2>. QED
    BY <1>3, <2>1, <2>2, <2>3 DEF Stage, Waiting
<1>7. CallsInOrder(answer, turn)
  BY <1>4 DEF CallsInOrder
<1>8. TextInOrder(answer, todo, turn)
  <2>1. \A i \in TextParts(answer) : i \in PartsIn(answer)
    BY DEF TextParts
  <2>2. \A i \in TextParts(answer) : TextLeft(answer, i, todo[i]) /\ Len(todo[i]) = Size(answer, i)
                                     /\ Size(answer, i) \in Nat
    BY <1>1, <1>3, <2>1, TextStart, PartFacts
  <2>3. Ordered(turn.text, PieceBefore) /\ Elements(turn.text) = {}
    BY <1>4 DEF Ordered, Elements
  <2>4. \A i \in TextParts(answer) : Size(answer, i) - Len(todo[i]) = 0
    BY <2>2
  <2>5. TextSent(answer, todo) = {}
    BY <2>4 DEF TextSent
  <2>. QED
    BY <2>2, <2>3, <2>5 DEF TextInOrder
<1>9. Silent(answer, todo)
  BY <1>1, <1>3, SilentStart DEF Silent
<1>. QED
  BY <1>3, <1>4, <1>5, <1>6, <1>7, <1>8, <1>9 DEF Blocks

LEMMA BlocksInit ==
    ASSUME Init, Provider # "google"
    PROVE  Reading
<1>1. answer \in Answers /\ asm \in Assemblers /\ ~asm.reasoning /\ ~asm.terminal /\ ~asm.started
      /\ phase = IF Provider = "anthropic" THEN "opening" ELSE "parts"
  BY CommonStart DEF Init
<1>2. /\ Blocks(answer, todo, tools, turn, chunks)
      /\ \A i \in PartsIn(answer) : todo[i] \in PartEvents(answer, i)
  BY BlocksStart
<1>3. Provider = "openai" => OpenAIReading(answer, todo, phase, tools, asm, turn, chunks)
  BY <1>1, <1>2 DEF OpenAIReading
<1>4. Provider = "anthropic" => AnthropicReading(answer, todo, phase, tools, asm, turn, chunks)
  BY <1>1, <1>2 DEF AnthropicReading
<1>. QED
  BY <1>1, <1>3, <1>4 DEF Reading

-----------------------------------------------------------------------------
(* Gemini: the parts it sends.                                             *)

SentAs(a, i, json) ==
    [kind |-> a.output[i].kind, name |-> a.output[i].name, json |-> json, signed |-> a.output[i].signed]
SentOf(a, i) ==
    IF a.output[i].kind = "call" THEN <<SentAs(a, i, Body(a, i))>>
    ELSE [j \in 1..a.output[i].size |-> SentAs(a, i, <<<<i, j>>>>)]
SentBefore == {xy \in Sents \X Sents : <<xy[1].json[1], xy[2].json[1]>> \in PieceBefore}

(* What one sent part is: a call whole, or a piece of another part.        *)
SentFrom(a, i, part) ==
    /\ part \in Sents /\ part.kind = a.output[i].kind /\ part.name = a.output[i].name
    /\ part.kind = "call" => part.json = Body(a, i) /\ part.json[1] = <<i, 1>>
    /\ part.kind # "call" => \E j \in 1..Size(a, i) : part.json = <<<<i, j>>>> /\ part.json[1] = <<i, j>>

LEMMA SentOfFacts ==
    ASSUME NEW a \in Answers, a.provider = "google", NEW i \in PartsIn(a)
    PROVE  /\ SentOf(a, i) \in Seq(Sents) /\ Ordered(SentOf(a, i), SentBefore)
           /\ \A part \in Elements(SentOf(a, i)) : SentFrom(a, i, part) /\ part.json[1] \in Pieces
           /\ \A part \in Elements(SentOf(a, i)) : part.json[1][1] = i
           /\ a.output[i].kind = "call" => \E part \in Elements(SentOf(a, i)) : part.kind = "call"
           /\ a.output[i].kind # "call" =>
                \A j \in 1..Size(a, i) : \E part \in Elements(SentOf(a, i)) : part.json = <<<<i, j>>>>
<1>1. /\ i \in Nat /\ Size(a, i) \in Nat /\ a.output[i].kind \in {"text", "call", "thought"}
      /\ a.output[i].name \in AllNames /\ a.output[i].signed \in BOOLEAN
      /\ a.output[i].kind = "call" => Size(a, i) # 0
  BY PartFacts
<1>2. ASSUME NEW json \in Texts
      PROVE  /\ SentAs(a, i, json) \in Sents /\ SentAs(a, i, json).kind = a.output[i].kind
             /\ SentAs(a, i, json).name = a.output[i].name /\ SentAs(a, i, json).json = json
  BY <1>1, <1>2 DEF SentAs, Sents
<1>3. CASE a.output[i].kind = "call"
  <2>. DEFINE part == SentAs(a, i, Body(a, i))
  <2>1. Body(a, i) = Got(i, Size(a, i)) /\ Body(a, i) \in Texts /\ Body(a, i)[1] = <<i, 1>>
    BY <1>1, <1>3, GotFacts, BodyIsGot
  <2>2. SentOf(a, i) = <<part>>
    BY <1>3 DEF SentOf
  <2>3. part \in Sents /\ part.kind = "call" /\ part.name = a.output[i].name /\ part.json = Body(a, i)
    BY <1>2, <1>3, <2>1
  <2>. HIDE DEF part
  <2>4. <<part>> \in Seq(Sents) /\ Elements(<<part>>) = {part} /\ Ordered(<<part>>, SentBefore)
    BY <2>3 DEF Elements, Ordered
  <2>5. SentFrom(a, i, part) /\ part.json[1] \in Pieces /\ part.json[1][1] = i
    BY <1>1, <1>3, <2>1, <2>3 DEF SentFrom, Pieces
  <2>. QED
    BY <1>3, <2>2, <2>3, <2>4, <2>5
<1>4. CASE a.output[i].kind # "call"
  <2>. DEFINE s == SentOf(a, i)
              n == Size(a, i)
  <2>1. s = [j \in 1..n |-> SentAs(a, i, <<<<i, j>>>>)]
    BY <1>4 DEF SentOf, Size
  <2>2. \A j \in 1..n : <<<<i, j>>>> \in Texts /\ <<<<i, j>>>>[1] = <<i, j>>
    BY <1>1 DEF Texts, Pieces
  <2>3. \A j \in 1..n : /\ s[j] \in Sents /\ s[j].kind = a.output[i].kind
                        /\ s[j].name = a.output[i].name /\ s[j].json = <<<<i, j>>>>
    BY <1>2, <2>1, <2>2
  <2>. HIDE DEF s
  <2>4. s \in [1..n -> Sents]
    BY <2>1, <2>3
  <2>5. s \in Seq(Sents) /\ Len(s) = n
    BY <1>1, <2>4
  <2>6. \A j \in 1..n : s[j].json[1] = <<i, j>>
    BY <2>2, <2>3
  <2>7. \A x, y \in 1..n : x < y => <<<<i, x>>, <<i, y>>>> \in PieceBefore
    BY <1>1 DEF PieceBefore, Pieces
  <2>8. Ordered(s, SentBefore)
    <3>. SUFFICES ASSUME NEW x \in 1..n, NEW y \in 1..n, x < y PROVE <<s[x], s[y]>> \in SentBefore
      BY <2>5 DEF Ordered
    <3>1. <<s[x].json[1], s[y].json[1]>> \in PieceBefore
      BY <2>6, <2>7
    <3>. QED
      BY <2>3, <3>1 DEF SentBefore
  <2>9. ASSUME NEW part \in Elements(s)
        PROVE  SentFrom(a, i, part) /\ part.json[1] \in Pieces /\ part.json[1][1] = i
    <3>1. PICK j \in 1..n : part = s[j]
      BY <2>5 DEF Elements
    <3>2. part.json = <<<<i, j>>>> /\ part.json[1] = <<i, j>> /\ part \in Sents
          /\ part.kind = a.output[i].kind /\ part.name = a.output[i].name
      BY <2>3, <2>6, <3>1
    <3>. QED
      BY <1>1, <1>4, <3>2 DEF SentFrom, Pieces
  <2>10. \A j \in 1..n : \E part \in Elements(s) : part.json = <<<<i, j>>>>
    BY <2>3, <2>5 DEF Elements
  <2>. QED
    BY <1>4, <2>5, <2>8, <2>9, <2>10 DEF s
<1>. QED
  BY <1>3, <1>4

LEMMA GeminiPartsFacts ==
    ASSUME NEW a \in Answers, a.provider = "google"
    PROVE  /\ GeminiParts(a) \in Seq(Sents) /\ Len(GeminiParts(a)) \in Nat
           /\ \A x \in 1..Len(GeminiParts(a)) : \E i \in PartsIn(a) :
                SentFrom(a, i, GeminiParts(a)[x]) /\ GeminiParts(a)[x].json[1] \in Pieces
           /\ \A x, y \in 1..Len(GeminiParts(a)) :
                x < y => <<GeminiParts(a)[x].json[1], GeminiParts(a)[y].json[1]>> \in PieceBefore
           /\ \A i \in CallParts(a) : \E x \in 1..Len(GeminiParts(a)) :
                GeminiParts(a)[x].kind = "call" /\ GeminiParts(a)[x].json = Body(a, i)
           /\ \A i \in TextParts(a) : \A j \in 1..Size(a, i) : \E x \in 1..Len(GeminiParts(a)) :
                GeminiParts(a)[x].kind = "text" /\ GeminiParts(a)[x].json = <<<<i, j>>>>
<1>. DEFINE P == GeminiParts(a)
            s == [i \in PartsIn(a) |-> SentOf(a, i)]
<1>1. Len(a.output) \in Nat /\ DOMAIN a.output = PartsIn(a)
  BY AnswerFacts
<1>2. P = FlattenSeq(s)
  <2>1. s = [i \in DOMAIN a.output |->
               LET q == a.output[i]
                   sent(json) == [kind |-> q.kind, name |-> q.name, json |-> json, signed |-> q.signed]
               IN IF q.kind = "call" THEN <<sent(Body(a, i))>>
                  ELSE [j \in 1 .. q.size |-> sent(<<<<i, j>>>>)]]
    BY <1>1 DEF SentOf, SentAs
  <2>. QED
    BY <2>1 DEF GeminiParts
<1>3. \A i \in PartsIn(a) : s[i] = SentOf(a, i)
  OBVIOUS
<1>4. s \in Seq(Seq(Sents)) /\ Len(s) = Len(a.output)
  <2>1. s \in [PartsIn(a) -> Seq(Sents)]
    BY SentOfFacts
  <2>. QED
    BY <1>1, <2>1 DEF PartsIn
<1>. HIDE DEF s, P
<1>5. ASSUME NEW k \in PartsIn(a), NEW l \in PartsIn(a), k < l,
             NEW x \in 1..Len(s[k]), NEW y \in 1..Len(s[l])
      PROVE  <<s[k][x], s[l][y]>> \in SentBefore
  <2>1. s[k][x] \in Elements(SentOf(a, k)) /\ s[l][y] \in Elements(SentOf(a, l))
    BY <1>3 DEF Elements
  <2>. DEFINE u == s[k][x].json[1]
              v == s[l][y].json[1]
  <2>2. /\ s[k][x] \in Sents /\ s[l][y] \in Sents /\ u \in Pieces /\ v \in Pieces
        /\ u[1] = k /\ v[1] = l
    BY <2>1, SentOfFacts DEF SentFrom
  <2>3. <<u, v>> \in PieceBefore
    BY <1>5, <2>2, BeforeFacts
  <2>. QED
    BY <2>2, <2>3 DEF SentBefore
<1>6. \A k \in PartsIn(a) : Ordered(s[k], SentBefore)
  BY <1>3, SentOfFacts
<1>7. Chained(s, SentBefore)
  BY <1>4, <1>5, <1>6 DEF Chained, PartsIn
<1>8. P \in Seq(Sents) /\ Ordered(P, SentBefore) /\ Elements(P) = AllElements(s)
  BY <1>2, <1>4, <1>7, FlattenOrdered DEF Joins
<1>9. \A x \in 1..Len(P) : \E i \in PartsIn(a) : SentFrom(a, i, P[x]) /\ P[x].json[1] \in Pieces
  <2>. SUFFICES ASSUME NEW x \in 1..Len(P)
                PROVE  \E i \in PartsIn(a) : SentFrom(a, i, P[x]) /\ P[x].json[1] \in Pieces
    OBVIOUS
  <2>1. P[x] \in AllElements(s)
    BY <1>8 DEF Elements
  <2>2. PICK i \in PartsIn(a) : P[x] \in Elements(s[i])
    BY <1>4, <2>1 DEF AllElements, PartsIn
  <2>. QED
    BY <1>3, <2>2, SentOfFacts
<1>10. \A x, y \in 1..Len(P) : x < y => <<P[x].json[1], P[y].json[1]>> \in PieceBefore
  <2>. SUFFICES ASSUME NEW x \in 1..Len(P), NEW y \in 1..Len(P), x < y
                PROVE  <<P[x].json[1], P[y].json[1]>> \in PieceBefore
    OBVIOUS
  <2>. DEFINE w == <<P[x], P[y]>>
  <2>1. w \in SentBefore /\ w[1] = P[x] /\ w[2] = P[y]
    BY <1>8 DEF Ordered
  <2>. HIDE DEF w
  <2>. QED
    BY <2>1 DEF SentBefore
<1>11. ASSUME NEW i \in PartsIn(a), NEW part \in Elements(SentOf(a, i))
       PROVE  \E x \in 1..Len(P) : P[x] = part
  <2>1. part \in AllElements(s)
    BY <1>3, <1>4 DEF AllElements, PartsIn
  <2>. QED
    BY <1>8, <2>1 DEF Elements
<1>12. ASSUME NEW i \in CallParts(a)
       PROVE  \E x \in 1..Len(P) : P[x].kind = "call" /\ P[x].json = Body(a, i)
  <2>1. i \in PartsIn(a) /\ a.output[i].kind = "call"
    BY DEF CallParts
  <2>2. PICK part \in Elements(SentOf(a, i)) : part.kind = "call"
    BY <2>1, SentOfFacts
  <2>3. part.json = Body(a, i)
    BY <2>1, <2>2, SentOfFacts DEF SentFrom
  <2>. QED
    BY <1>11, <2>1, <2>2, <2>3
<1>13. ASSUME NEW i \in TextParts(a), NEW j \in 1..Size(a, i)
       PROVE  \E x \in 1..Len(P) : P[x].kind = "text" /\ P[x].json = <<<<i, j>>>>
  <2>1. i \in PartsIn(a) /\ a.output[i].kind = "text" /\ a.output[i].kind # "call"
    BY DEF TextParts
  <2>2. \E part \in Elements(SentOf(a, i)) : part.json = <<<<i, j>>>>
    <3>1. \A k \in 1..Size(a, i) : \E part \in Elements(SentOf(a, i)) : part.json = <<<<i, k>>>>
      BY <2>1, SentOfFacts
    <3>. QED
      BY <3>1
  <2>0. PICK part \in Elements(SentOf(a, i)) : part.json = <<<<i, j>>>>
    BY <2>2
  <2>3. part.kind = "text"
    BY <2>1, <2>0, SentOfFacts DEF SentFrom
  <2>. QED
    BY <1>11, <2>1, <2>0, <2>3
<1>14. Len(P) \in Nat
  BY <1>8
<1>15. P \in Seq(Sents)
  BY <1>8
<1>16. \A i \in CallParts(a) : \E x \in 1..Len(P) : P[x].kind = "call" /\ P[x].json = Body(a, i)
  BY <1>12
<1>17. \A i \in TextParts(a) : \A j \in 1..Size(a, i) : \E x \in 1..Len(P) :
         P[x].kind = "text" /\ P[x].json = <<<<i, j>>>>
  BY <1>13
<1>. QED
  BY <1>9, <1>10, <1>14, <1>15, <1>16, <1>17, Zenon DEF P

(* The parts sent so far, one at a time.                                   *)
LEMMA SentFacts ==
    ASSUME NEW a \in Answers, a.provider = "google", NEW x \in 1..Len(GeminiParts(a))
    PROVE  LET part == GeminiParts(a)[x] IN
           /\ part \in Sents /\ part.kind \in {"text", "call", "thought"}
           /\ part.json \in Texts /\ part.json # Missing /\ part.json[1] \in Pieces
           /\ part.kind = "call" =>
                /\ part.name \in Names
                /\ \E i \in CallParts(a) : /\ part.name = a.output[i].name /\ part.json = Body(a, i)
                                           /\ part.json[1] = <<i, 1>>
           /\ part.kind = "text" =>
                /\ part.json = <<part.json[1]>>
                /\ part.json[1][1] \in TextParts(a)
                /\ part.json[1][2] \in 1..Size(a, part.json[1][1])
<1>. DEFINE part == GeminiParts(a)[x]
<1>1. PICK i \in PartsIn(a) : SentFrom(a, i, part) /\ part.json[1] \in Pieces
  BY GeminiPartsFacts
<1>. HIDE DEF part
<1>2. /\ part \in Sents /\ part.kind = a.output[i].kind /\ part.name = a.output[i].name
      /\ part.kind = "call" => part.json = Body(a, i) /\ part.json[1] = <<i, 1>>
      /\ part.kind # "call" => \E j \in 1..Size(a, i) : part.json = <<<<i, j>>>> /\ part.json[1] = <<i, j>>
  BY <1>1 DEF SentFrom
<1>3. i \in Nat /\ Size(a, i) \in Nat /\ (part.kind = "call" => part.name \in Names)
  BY <1>2, PartFacts
<1>4. part.kind \in {"text", "call", "thought"} /\ part.json \in Texts
  BY <1>2 DEF Sents
<1>5. part.json # Missing
  <2>1. CASE part.kind = "call"
    <3>1. part.json = Got(i, Size(a, i))
      BY <1>2, <2>1, BodyIsGot
    <3>2. Got(i, Size(a, i)) # Missing
      BY <1>3, GotFacts
    <3>. QED
      BY <3>1, <3>2
  <2>2. CASE part.kind # "call"
    <3>1. PICK j \in 1..Size(a, i) : part.json[1] = <<i, j>>
      BY <1>2, <2>2
    <3>2. Missing[1] = <<0, 0>> /\ j # 0
      BY <1>3 DEF Missing
    <3>. QED
      BY <3>1, <3>2
  <2>. QED
    BY <2>1, <2>2
<1>6. part.kind = "call" => i \in CallParts(a)
  BY <1>1, <1>2 DEF CallParts
<1>7. ASSUME part.kind = "text"
      PROVE  /\ part.json = <<part.json[1]>> /\ part.json[1][1] \in TextParts(a)
             /\ part.json[1][2] \in 1..Size(a, part.json[1][1])
  <2>1. PICK j \in 1..Size(a, i) : part.json = <<<<i, j>>>> /\ part.json[1] = <<i, j>>
    BY <1>2, <1>7
  <2>2. i \in TextParts(a)
    BY <1>2, <1>7 DEF TextParts
  <2>. QED
    BY <2>1, <2>2
<1>. QED
  BY <1>1, <1>2, <1>3, <1>4, <1>5, <1>6, <1>7 DEF part

-----------------------------------------------------------------------------
(* Gemini: what one part does to the turn, the chunks and the assembler.   *)

(* The facts of a state of the reader.                                     *)
LEMMA GeminiAtFacts ==
    ASSUME NEW a, NEW p, NEW tl, NEW am, NEW tn, NEW ch, GeminiAt(a, p, tl, am, tn, ch)
    PROVE  /\ Common(tn, ch) /\ tn \in Turns /\ tn.valid /\ ch \in Seq(Chunks) /\ Len(ch) \in Nat
           /\ Lifecycle(ch) /\ NotDone(ch)
           /\ am \in Assemblers /\ am.replay \in Seq(Sents) /\ Len(am.replay) \in Nat
           /\ tn.calls \in Seq(Called) /\ Len(tn.calls) \in Nat /\ DOMAIN tn.calls = 1..Len(tn.calls)
           /\ tn.text \in Texts
<1>1. Common(tn, ch) /\ am \in Assemblers
  BY DEF GeminiAt
<1>2. tn \in Turns /\ tn.valid /\ ch \in Seq(Chunks) /\ Lifecycle(ch) /\ NotDone(ch)
  BY <1>1 DEF Common
<1>3. am.replay \in Seq(Sents)
  BY <1>1 DEF Assemblers
<1>4. tn.calls \in Seq(Called) /\ Len(tn.calls) \in Nat /\ DOMAIN tn.calls = 1..Len(tn.calls)
      /\ tn.text \in Texts
  BY <1>2, CallTypes
<1>5. Len(ch) \in Nat /\ Len(am.replay) \in Nat
  BY <1>2, <1>3
<1>. QED
  BY <1>1, <1>2, <1>3, <1>4, <1>5

(* An assembler that keeps the same parts and has seen no less.            *)
LEMMA GeminiQuiet ==
    ASSUME NEW a, NEW p, NEW tl, NEW am, NEW tn, NEW ch, GeminiAt(a, p, tl, am, tn, ch),
           NEW bm \in Assemblers, bm.replay = am.replay, am.observed => bm.observed
    PROVE  GeminiAt(a, p, tl, bm, tn, ch)
BY DEF GeminiAt

(* A chunk of the reasoning.                                               *)
LEMMA GeminiReasoning ==
    ASSUME NEW a, NEW p, NEW tl, NEW am, NEW tn, NEW ch, GeminiAt(a, p, tl, am, tn, ch),
           NEW c \in Chunks, c.type \in {"reasoning-start", "reasoning-delta", "reasoning-end"}
    PROVE  GeminiAt(a, p, tl, am, Collected(tn, c), Append(ch, c))
<1>1. tn.valid /\ tn \in Turns /\ ch \in Seq(Chunks) /\ Lifecycle(ch) /\ NotDone(ch) /\ Len(ch) \in Nat
      /\ Common(tn, ch)
  BY GeminiAtFacts
<1>2. Collected(tn, c) = tn
  BY <1>1 DEF Collected
<1>3. c.type \notin ToolChunks /\ c.type # "done" /\ c.type # "tool-call-arguments"
  BY DEF ToolChunks
<1>4. Lifecycle(Append(ch, c)) /\ NotDone(Append(ch, c)) /\ Append(ch, c) \in Seq(Chunks)
  BY <1>1, <1>3, LifecycleAppend, NotDoneAppend, AppendProperties
<1>5. Common(tn, Append(ch, c))
  BY <1>1, <1>4 DEF Common
<1>. DEFINE r == Append(ch, c)
<1>6. Len(r) = Len(ch) + 1 /\ r[Len(ch) + 1] = c /\ \A k \in 1..Len(ch) : r[k] = ch[k]
  BY <1>1
<1>. HIDE DEF r
<1>7. \A k \in 1..Len(r) : r[k].type \in ToolChunks => r[k].id \in DOMAIN tl
  <2>1. \A k \in 1..Len(r) : k \in 1..Len(ch) \/ k = Len(ch) + 1
    BY <1>1, <1>6
  <2>. QED
    BY <1>3, <1>6, <2>1 DEF GeminiAt
<1>8. GeminiAt(a, p, tl, am, tn, r)
  BY <1>5, <1>7 DEF GeminiAt, r
<1>. QED
  BY <1>2, <1>8 DEF r

(* A part is kept after the others.                                        *)
LEMMA GeminiKeep ==
    ASSUME NEW a, NEW p, NEW tl, NEW am, NEW tn, NEW ch, GeminiAt(a, p, tl, am, tn, ch),
           NEW part \in Sents, NEW bm \in Assemblers, bm.replay = Append(am.replay, part),
           am.observed => bm.observed
    PROVE  GeminiAt(a, p, tl, bm, tn, ch)
<1>1. am.replay \in Seq(Sents) /\ Len(am.replay) \in Nat
  BY GeminiAtFacts
<1>2. Len(bm.replay) = Len(am.replay) + 1 /\ \A k \in 1..Len(am.replay) : bm.replay[k] = am.replay[k]
  BY <1>1
<1>3. \A k \in 1..Len(am.replay) : k \in 1..Len(bm.replay)
  BY <1>1, <1>2
<1>4. \A n \in 1..Len(tn.calls) : KeptCall(tn.calls[n], tl, am.replay)
  BY DEF GeminiAt, Kept
<1>5. \A n \in 1..Len(tn.calls) : KeptCall(tn.calls[n], tl, bm.replay)
  <2>. SUFFICES ASSUME NEW n \in 1..Len(tn.calls) PROVE KeptCall(tn.calls[n], tl, bm.replay)
    OBVIOUS
  <2>. DEFINE k == tl[tn.calls[n].id].part
  <2>1. k \in 1..Len(am.replay)
    BY <1>4 DEF KeptCall
  <2>2. k \in 1..Len(bm.replay) /\ bm.replay[k] = am.replay[k]
    BY <1>2, <1>3, <2>1
  <2>. QED
    BY <1>4, <2>2 DEF KeptCall
<1>6. Kept(tl, bm.replay, tn)
  BY <1>5 DEF GeminiAt, Kept
<1>. QED
  BY <1>6 DEF GeminiAt

(* A call that is sent again keeps its place; its signature is added.      *)
LEMMA GeminiMerge ==
    ASSUME NEW a, NEW p, NEW tl, NEW am, NEW tn, NEW ch, GeminiAt(a, p, tl, am, tn, ch),
           NEW part \in Sents, part.kind = "call", NEW id \in DOMAIN tl,
           tl[id].name = part.name, tl[id].args = part.json,
           NEW bm, bm = [am EXCEPT !.observed = TRUE,
                                   !.replay[tl[id].part] = MergedPart(@, part)]
    PROVE  GeminiAt(a, p, tl, bm, tn, ch)
<1>. DEFINE k == tl[id].part
            merged == MergedPart(am.replay[k], part)
            rp == [am.replay EXCEPT ![k] = merged]
<1>1. am \in Assemblers /\ am.replay \in Seq(Sents) /\ Len(am.replay) \in Nat
  BY GeminiAtFacts
<1>2. PICK m \in 1..Len(tn.calls) : tn.calls[m].id = id
  BY DEF GeminiAt, Kept
<1>3. \A n \in 1..Len(tn.calls) : KeptCall(tn.calls[n], tl, am.replay)
  BY DEF GeminiAt, Kept
<1>4. /\ k \in 1..Len(am.replay) /\ am.replay[k].kind = "call"
      /\ am.replay[k].name = part.name /\ am.replay[k].json = part.json
  BY <1>2, <1>3 DEF KeptCall
<1>5. am.replay[k] \in Sents
  BY <1>1, <1>4
<1>6. merged \in Sents /\ merged.kind = "call" /\ merged.name = part.name /\ merged.json = part.json
  BY <1>5 DEF MergedPart, Sents
<1>7. bm = [am EXCEPT !.observed = TRUE, !.replay = rp]
  BY <1>1 DEF Assemblers
<1>. HIDE DEF merged
<1>8. rp \in Seq(Sents) /\ Len(rp) = Len(am.replay) /\ rp[k] = merged
      /\ \A x \in 1..Len(am.replay) : x # k => rp[x] = am.replay[x]
  BY <1>1, <1>4, <1>6
<1>. HIDE DEF rp
<1>9. bm \in Assemblers /\ bm.replay = rp /\ bm.observed
  BY <1>1, <1>7, <1>8 DEF Assemblers
<1>10. \A n \in 1..Len(tn.calls) : KeptCall(tn.calls[n], tl, rp)
  <2>. SUFFICES ASSUME NEW n \in 1..Len(tn.calls) PROVE KeptCall(tn.calls[n], tl, rp)
    OBVIOUS
  <2>. DEFINE x == tl[tn.calls[n].id].part
  <2>1. x \in 1..Len(am.replay) /\ KeptCall(tn.calls[n], tl, am.replay)
    BY <1>3 DEF KeptCall
  <2>2. x = k => rp[x].kind = am.replay[x].kind /\ rp[x].name = am.replay[x].name
                 /\ rp[x].json = am.replay[x].json
    BY <1>4, <1>6, <1>8
  <2>3. rp[x].kind = am.replay[x].kind /\ rp[x].name = am.replay[x].name
        /\ rp[x].json = am.replay[x].json
    BY <1>8, <2>1, <2>2
  <2>. QED
    BY <1>8, <2>1, <2>3 DEF KeptCall
<1>11. Kept(tl, rp, tn)
  BY <1>10 DEF GeminiAt, Kept
<1>. QED
  BY <1>9, <1>11 DEF GeminiAt

(* The texts sent so far.                                                  *)
LEMMA SentTextsNext ==
    ASSUME NEW a, NEW p \in Nat
    PROVE  SentTexts(a, p + 1) = IF GeminiParts(a)[p + 1].kind = "text"
                                 THEN SentTexts(a, p) \cup {GeminiParts(a)[p + 1].json[1]}
                                 ELSE SentTexts(a, p)
<1>1. \A y : y \in 1..p + 1 <=> y \in 1..p \/ y = p + 1
  OBVIOUS
<1>. QED
  BY <1>1 DEF SentTexts

(* The calls sent so far, when the next part is none.                      *)
LEMMA NoCallNext ==
    ASSUME NEW a, NEW p \in Nat, NEW tn, NEW un, GeminiCallsSent(a, p, tn), un.calls = tn.calls,
           GeminiParts(a)[p + 1].kind # "call"
    PROVE  GeminiCallsSent(a, p + 1, un)
<1>1. \A x : x \in 1..p + 1 <=> x \in 1..p \/ x = p + 1
  OBVIOUS
<1>2. \A call : CallSent(a, p, call) => CallSent(a, p + 1, call)
  BY <1>1 DEF CallSent
<1>. QED
  BY <1>1, <1>2 DEF GeminiCallsSent

LEMMA GeminiTextSent ==
    ASSUME NEW a \in Answers, a.provider = "google", NEW p \in Nat, p + 1 \in 1..Len(GeminiParts(a)),
           NEW tl, NEW am, NEW tn, NEW ch, GeminiAt(a, p, tl, am, tn, ch), am.observed,
           GeminiParts(a)[p + 1].kind = "text",
           NEW c, c = TextDelta(GeminiParts(a)[p + 1].json)
    PROVE  GeminiAt(a, p + 1, tl, am, Collected(tn, c), Append(ch, c))
<1>. DEFINE P == GeminiParts(a)
            x == P[p + 1].json[1]
            u == Collected(tn, c)
            r == Append(ch, c)
<1>1. P[p + 1].json \in Texts /\ P[p + 1].json = <<x>> /\ x \in Pieces
  BY SentFacts
<1>2. c \in Chunks /\ c.type = "text-delta" /\ c.json = <<x>>
  BY <1>1, TextChunk DEF TextDelta, Chunk
<1>3. tn.valid /\ tn \in Turns /\ tn.finish = "none" /\ ch \in Seq(Chunks) /\ Lifecycle(ch)
      /\ NotDone(ch) /\ Len(ch) \in Nat /\ tn.text \in Texts
  BY GeminiAtFacts DEF Common
<1>4. c.type \in OtherChunks /\ c.type \notin ToolChunks /\ c.type # "done"
      /\ c.type # "tool-call-arguments"
  BY <1>2 DEF OtherChunks, ToolChunks
<1>5. u \in Turns /\ u.valid /\ u.calls = tn.calls /\ u.text = tn.text \o <<x>> /\ u.finish = "none"
  <2>1. /\ u \in Turns /\ u.valid /\ u.calls = tn.calls
        /\ u.text = IF c.type = "text-delta" THEN tn.text \o c.json ELSE tn.text
        /\ u.finish = IF c.type = "done" THEN c.name ELSE tn.finish
    BY <1>2, <1>3, <1>4, OtherStep
  <2>. QED
    BY <1>2, <1>3, <1>4, <2>1
<1>6. u.text = Append(tn.text, x)
  BY <1>1, <1>3, <1>5, AppendIsConcat DEF Texts
<1>7. \A i \in 1..Len(tn.text) : <<tn.text[i], x>> \in PieceBefore
  <2>. SUFFICES ASSUME NEW i \in 1..Len(tn.text) PROVE <<tn.text[i], x>> \in PieceBefore
    OBVIOUS
  <2>1. tn.text[i] \in SentTexts(a, p)
    BY DEF GeminiAt, Elements
  <2>2. PICK y \in 1..p : tn.text[i] = P[y].json[1]
    BY <2>1 DEF SentTexts
  <2>3. y \in 1..Len(P) /\ y < p + 1
    BY <2>2
  <2>. QED
    BY <2>2, <2>3, GeminiPartsFacts
<1>8. Ordered(tn.text, PieceBefore) /\ Elements(tn.text) = SentTexts(a, p)
  BY DEF GeminiAt
<1>9. Ordered(u.text, PieceBefore) /\ Elements(u.text) = SentTexts(a, p) \cup {x}
  <2>1. tn.text \in Seq(Pieces)
    BY <1>3 DEF Texts
  <2>. QED
    BY <1>1, <1>6, <1>7, <1>8, <2>1, OrderedAppend
<1>10. SentTexts(a, p + 1) = SentTexts(a, p) \cup {x}
  BY SentTextsNext
<1>11. GeminiCallsSent(a, p + 1, u)
  BY <1>5, NoCallNext DEF GeminiAt
<1>12. Lifecycle(r) /\ NotDone(r) /\ r \in Seq(Chunks)
  BY <1>2, <1>3, <1>4, LifecycleAppend, NotDoneAppend, AppendProperties
<1>13. Common(u, r)
  BY <1>5, <1>12 DEF Common
<1>14. Len(r) = Len(ch) + 1 /\ r[Len(ch) + 1] = c /\ \A k \in 1..Len(ch) : r[k] = ch[k]
  BY <1>2, <1>3
<1>. HIDE DEF r, u, x
<1>15. \A k \in 1..Len(r) : r[k].type \in ToolChunks => r[k].id \in DOMAIN tl
  <2>1. \A k \in 1..Len(r) : k \in 1..Len(ch) \/ k = Len(ch) + 1
    BY <1>3, <1>14
  <2>. QED
    BY <1>4, <1>14, <2>1 DEF GeminiAt
<1>16. Kept(tl, am.replay, u)
  BY <1>5 DEF GeminiAt, Kept
<1>17. p + 1 \in 0..Len(P)
  OBVIOUS
<1>18. am \in Assemblers
  BY GeminiAtFacts
<1>19. GeminiAt(a, p + 1, tl, am, u, r)
  BY <1>9, <1>10, <1>11, <1>13, <1>15, <1>16, <1>17, <1>18 DEF GeminiAt
<1>. QED
  BY <1>19 DEF r, u

LEMMA GeminiThoughtSent ==
    ASSUME NEW a, NEW p \in Nat, p + 1 \in 1..Len(GeminiParts(a)),
           NEW tl, NEW am, NEW tn, NEW ch, GeminiAt(a, p, tl, am, tn, ch),
           GeminiParts(a)[p + 1].kind = "thought"
    PROVE  GeminiAt(a, p + 1, tl, am, tn, ch)
<1>1. SentTexts(a, p + 1) = SentTexts(a, p)
  BY SentTextsNext
<1>2. GeminiCallsSent(a, p + 1, tn)
  BY NoCallNext DEF GeminiAt
<1>3. p + 1 \in 0..Len(GeminiParts(a))
  OBVIOUS
<1>4. (\E x \in 1..p + 1 : GeminiParts(a)[x].kind # "thought") => am.observed
  <2>1. \A x \in 1..p + 1 : x \in 1..p \/ x = p + 1
    OBVIOUS
  <2>. QED
    BY <2>1 DEF GeminiAt
<1>. QED
  BY <1>1, <1>2, <1>3, <1>4 DEF GeminiAt

(* The arguments of a call no fragment of which was told.                  *)
ToldWhole(t, cs, c, v) ==
    /\ v \in Turns /\ v.valid /\ v.text = t.text /\ v.finish = t.finish
    /\ Len(v.calls) = Len(t.calls) /\ Told(v, c.id, c.name, c.json)
    /\ \A id : id # c.id => SameCall(t, v, id)
    /\ Lived(Append(cs, c), Len(cs) + 1)

LEMMA ArgumentsTold ==
    ASSUME NEW t \in Turns, t.valid, NEW cs \in Seq(Chunks), NEW c \in Chunks,
           c.type = "tool-call-arguments", NEW got, Begun(t, cs, c.id, c.name, got),
           Deltas(cs, c.id) = {}, NEW v, v = Collected(t, c)
    PROVE  ToldWhole(t, cs, c, v)
<1>. DEFINE u == Collected(t, c)
<1>1. /\ u \in Turns /\ u.valid /\ u.text = t.text /\ u.finish = t.finish
      /\ Len(u.calls) = Len(t.calls)
      /\ Told(u, c.id, c.name, c.json)
      /\ \A id : id # c.id => SameCall(t, u, id)
      /\ Lived(Append(cs, c), Len(cs) + 1)
  BY ArgumentsStep
<1>2. u = v
  OBVIOUS
<1>. HIDE DEF u
<1>. QED
  BY <1>1, <1>2 DEF ToldWhole

(* A call nobody has seen is told whole: its start, then its arguments.    *)
TellsCall(tn, ch, id, name, json, v, r) ==
    /\ Common(v, r) /\ v.text = tn.text
    /\ v.calls = Append(tn.calls, [id |-> id, name |-> name, args |-> json])
    /\ \A k \in 1..Len(r) : (k \in 1..Len(ch) /\ r[k] = ch[k]) \/ r[k].id = id

LEMMA NewCallTold ==
    ASSUME NEW tn, NEW ch, Common(tn, ch), NEW id \in Ids, Unseen(tn, ch, id),
           NEW name \in AllNames, NEW json \in Texts,
           NEW c, c = Start(id, name), NEW d, d = Arguments(id, name, json),
           NEW v, v = Collected(Collected(tn, c), d), NEW r, r = Append(Append(ch, c), d)
    PROVE  TellsCall(tn, ch, id, name, json, v, r)
<1>u. PICK u : u = Collected(tn, c)
  OBVIOUS
<1>q. PICK q : q = Append(ch, c)
  OBVIOUS
<1>. DEFINE n == Len(tn.calls)
            e == [id |-> id, name |-> name, args |-> Missing]
            f == [id |-> id, name |-> name, args |-> json]
<1>1. tn \in Turns /\ tn.valid /\ tn.finish = "none" /\ ch \in Seq(Chunks) /\ Lifecycle(ch)
      /\ NotDone(ch) /\ Len(ch) \in Nat
  BY DEF Common
<1>2. /\ c \in Chunks /\ c.type = "tool-call-start" /\ c.id = id /\ c.name = name
      /\ d \in Chunks /\ d.type = "tool-call-arguments" /\ d.id = id /\ d.name = name /\ d.json = json
  BY ChunkOf DEF Start, Arguments, Chunk
<1>3. /\ u \in Turns /\ u.valid /\ u.text = tn.text /\ u.finish = tn.finish
      /\ u.calls = Append(tn.calls, e) /\ Begun(u, q, id, name, <<>>)
  <2>1. LET w == Collected(tn, c)
        IN  /\ w \in Turns /\ w.valid /\ w.text = tn.text /\ w.finish = tn.finish
            /\ w.calls = Append(tn.calls, [id |-> c.id, name |-> c.name, args |-> Missing])
            /\ Begun(w, Append(ch, c), c.id, c.name, <<>>)
    BY <1>1, <1>2, StartStep
  <2>. QED
    BY <1>2, <1>u, <1>q, <2>1
<1>4. q \in Seq(Chunks) /\ Len(q) = Len(ch) + 1 /\ q[Len(ch) + 1] = c
      /\ \A k \in 1..Len(ch) : q[k] = ch[k]
  BY <1>1, <1>2, <1>q
<1>5. \A type : AtIn(ch, id, type) = {}
  BY DEF Unseen, AtIn
<1>6. Ends(ch, id) = {} /\ Ends(q, id) = {} /\ Deltas(q, id) = {}
  BY <1>1, <1>2, <1>5, <1>q, AtAppend DEF Ends, Deltas
<1>7. Lifecycle(q) /\ NotDone(q)
  BY <1>1, <1>2, <1>6, <1>q, LifecycleAppend, NotDoneAppend
<1>8. v = Collected(u, d) /\ r = Append(q, d)
  BY <1>u, <1>q
<1>9. /\ v \in Turns /\ v.valid /\ v.text = u.text /\ v.finish = u.finish
      /\ Len(v.calls) = Len(u.calls) /\ Told(v, id, name, json)
      /\ \A x : x # id => SameCall(u, v, x)
      /\ Lived(Append(q, d), Len(q) + 1)
  <2>1. Begun(u, q, d.id, d.name, <<>>) /\ (Deltas(q, d.id) = {} \/ <<>> = d.json)
    BY <1>2, <1>3, <1>6
  <2>2. u \in Turns /\ u.valid /\ q \in Seq(Chunks) /\ d \in Chunks
        /\ d.type = "tool-call-arguments"
    BY <1>2, <1>3, <1>4
  <2>3. /\ v \in Turns /\ v.valid /\ v.text = u.text /\ v.finish = u.finish
        /\ Len(v.calls) = Len(u.calls) /\ Told(v, d.id, d.name, d.json)
        /\ \A x : x # d.id => SameCall(u, v, x)
        /\ Lived(Append(q, d), Len(q) + 1)
    <3>. DEFINE got == <<>>
    <3>1. Begun(u, q, d.id, d.name, got) /\ Deltas(q, d.id) = {} /\ v = Collected(u, d)
      BY <1>2, <1>6, <1>8, <2>1
    <3>. HIDE DEF got
    <3>2. ToldWhole(u, q, d, v)
      BY <2>2, <3>1, ArgumentsTold
    <3>. QED
      BY <3>2 DEF ToldWhole
  <2>. QED
    BY <1>2, <2>3
<1>10. Lifecycle(r) /\ NotDone(r) /\ r \in Seq(Chunks)
  <2>1. Ends(q, d.id) = {}
    BY <1>2, <1>6
  <2>2. d.type # "done"
    BY <1>2
  <2>3. Lived(Append(q, d), Len(q) + 1)
    BY <1>9
  <2>4. Lifecycle(Append(q, d))
    BY <1>2, <1>4, <1>7, <2>1, <2>3, LifecycleAppend
  <2>5. NotDone(Append(q, d)) /\ Append(q, d) \in Seq(Chunks)
    BY <1>2, <1>4, <1>7, <2>2, NotDoneAppend, AppendProperties
  <2>. QED
    BY <1>8, <2>4, <2>5
<1>11. tn.calls \in Seq(Called) /\ n \in Nat
  BY <1>1, CallTypes
<1>12. e \in Called /\ f \in Called /\ e.id = id /\ [e EXCEPT !.args = json] = f
  <2>1. Missing \in Texts
    BY DEF Missing, Texts, Pieces
  <2>2. e \in Called /\ f \in Called
    BY <2>1 DEF Called
  <2>. QED
    BY <2>2
<1>. HIDE DEF e, f
<1>13. /\ u.calls \in Seq(Called) /\ Len(u.calls) = n + 1 /\ u.calls[n + 1] = e
       /\ \A k \in 1..n : u.calls[k] = tn.calls[k]
  BY <1>3, <1>11, <1>12
<1>14. v.calls[n + 1] = f /\ \A k \in 1..n : v.calls[k] = tn.calls[k]
  <2>1. /\ v.calls \in Seq(Called) /\ Len(v.calls) = n + 1 /\ DOMAIN v.calls = 1..n + 1
        /\ DOMAIN u.calls = 1..n + 1
    BY <1>9, <1>11, <1>13, CallTypes
  <2>2. \A k \in 1..n : tn.calls[k].id # id
    BY <1>11 DEF Unseen, Pending
  <2>3. ASSUME NEW k \in 1..n PROVE v.calls[k] = tn.calls[k]
    <3>1. k \in 1..Len(u.calls) /\ u.calls[k] = tn.calls[k] /\ u.calls[k].id # id
      BY <1>11, <1>13, <2>2
    <3>2. SameCall(u, v, u.calls[k].id)
      BY <1>9, <3>1
    <3>. QED
      BY <3>1, <3>2 DEF SameCall
  <2>4. \A k \in 1..n + 1 : k \in 1..n \/ k = n + 1
    BY <1>11
  <2>5. PICK x \in 1..Len(v.calls) : Pending(v, id) = {x} /\ v.calls[x].name = name
                                     /\ v.calls[x].args = json
    BY <1>9 DEF Told
  <2>6. v.calls[x].id = id /\ x \in 1..n + 1
    BY <2>1, <2>5 DEF Pending
  <2>7. x = n + 1
    BY <2>2, <2>3, <2>4, <2>6
  <2>8. v.calls[n + 1] \in Called
    BY <2>1, <2>6, <2>7
  <2>9. v.calls[n + 1] = f
    BY <2>5, <2>6, <2>7, <2>8 DEF Called, f
  <2>. QED
    BY <2>3, <2>9
<1>15. v.calls = Append(tn.calls, f)
  <2>. DEFINE g == Append(tn.calls, f)
  <2>1. g \in Seq(Called) /\ Len(g) = n + 1 /\ g[n + 1] = f /\ \A k \in 1..n : g[k] = tn.calls[k]
    BY <1>11, <1>12
  <2>2. v.calls \in Seq(Called) /\ Len(v.calls) = n + 1
    BY <1>9, <1>13, CallTypes
  <2>3. v.calls[n + 1] = f /\ \A k \in 1..n : v.calls[k] = tn.calls[k]
    BY <1>14
  <2>4. \A k \in 1..n + 1 : k \in 1..n \/ k = n + 1
    BY <1>11
  <2>. HIDE DEF g, n
  <2>5. v.calls = g
    BY <2>1, <2>2, <2>3, <2>4, SeqEqual
  <2>. QED
    BY <2>5 DEF g
<1>16. \A k \in 1..Len(r) : (k \in 1..Len(ch) /\ r[k] = ch[k]) \/ r[k].id = id
  <2>1. Len(r) = Len(q) + 1 /\ r[Len(q) + 1] = d /\ \A k \in 1..Len(q) : r[k] = q[k]
    BY <1>2, <1>4, <1>8
  <2>2. \A k \in 1..Len(r) : k \in 1..Len(ch) \/ k = Len(ch) + 1 \/ k = Len(q) + 1
    BY <1>1, <1>4, <2>1
  <2>3. \A k \in 1..Len(ch) : k \in 1..Len(q)
    BY <1>1, <1>4
  <2>4. Len(ch) + 1 \in 1..Len(q)
    BY <1>1, <1>4
  <2>. QED
    BY <1>2, <1>4, <2>1, <2>2, <2>3, <2>4
<1>17. Common(v, r)
  BY <1>1, <1>3, <1>9, <1>10 DEF Common
<1>. QED
  BY <1>3, <1>9, <1>15, <1>16, <1>17 DEF f, TellsCall

(* The next part is a call that is appended to the turn.                   *)
LEMMA CallNext ==
    ASSUME NEW a \in Answers, a.provider = "google", NEW p \in Nat, p + 1 \in 1..Len(GeminiParts(a)),
           GeminiParts(a)[p + 1].kind = "call",
           NEW tn, NEW v, tn.calls \in Seq(Called), GeminiCallsSent(a, p, tn),
           NEW e \in Called, e.name = GeminiParts(a)[p + 1].name, e.args = GeminiParts(a)[p + 1].json,
           v.calls = Append(tn.calls, e)
    PROVE  GeminiCallsSent(a, p + 1, v)
<1>. DEFINE P == GeminiParts(a)
            n == Len(tn.calls)
<1>1. /\ n \in Nat /\ Len(v.calls) = n + 1 /\ v.calls[n + 1] = e
      /\ \A k \in 1..n : v.calls[k] = tn.calls[k]
  OBVIOUS
<1>. HIDE DEF n
<1>2. \A k \in 1..Len(v.calls) : k \in 1..n \/ k = n + 1
  BY <1>1
<1>3. n + 1 \in 1..Len(v.calls) /\ \A k \in 1..n : k \in 1..Len(v.calls)
  BY <1>1
<1>4. \A x : x \in 1..p + 1 <=> x \in 1..p \/ x = p + 1
  OBVIOUS
<1>5. \A call : CallSent(a, p, call) => CallSent(a, p + 1, call)
  BY <1>4 DEF CallSent
<1>6. CallSent(a, p + 1, e)
  BY <1>4 DEF CallSent
<1>7. \A k \in 1..n : CallSent(a, p, tn.calls[k])
  BY DEF GeminiCallsSent, n
<1>8. \A k \in 1..Len(v.calls) : CallSent(a, p + 1, v.calls[k])
  BY <1>1, <1>2, <1>5, <1>6, <1>7
<1>9. \A x \in 1..p : P[x].kind = "call" => \E k \in 1..n : tn.calls[k].args = P[x].json
  BY DEF GeminiCallsSent, n
<1>10. ASSUME NEW x \in 1..p + 1, P[x].kind = "call"
       PROVE  \E k \in 1..Len(v.calls) : v.calls[k].args = P[x].json
  <2>1. CASE x \in 1..p
    <3>1. PICK k \in 1..n : tn.calls[k].args = P[x].json
      BY <1>9, <1>10, <2>1
    <3>. QED
      BY <1>1, <1>3, <3>1
  <2>2. CASE x = p + 1
    BY <1>1, <1>3, <2>2
  <2>. QED
    BY <1>4, <2>1, <2>2
<1>11. \A m, k \in 1..n : m < k => tn.calls[m].args[1][1] < tn.calls[k].args[1][1]
  BY DEF GeminiCallsSent, n
<1>12. ASSUME NEW m \in 1..n PROVE tn.calls[m].args[1][1] < e.args[1][1]
  <2>1. PICK y \in 1..p : P[y].kind = "call" /\ P[y].json = tn.calls[m].args
    BY <1>7 DEF CallSent
  <2>2. y \in 1..Len(P) /\ y < p + 1
    OBVIOUS
  <2>3. <<P[y].json[1], P[p + 1].json[1]>> \in PieceBefore
    <3>1. \A r, s \in 1..Len(P) : r < s => <<P[r].json[1], P[s].json[1]>> \in PieceBefore
      BY GeminiPartsFacts
    <3>. QED
      BY <2>2, <3>1
  <2>. DEFINE g == P[y].json[1]
              h == P[p + 1].json[1]
  <2>. HIDE DEF g, h
  <2>4. g \in Pieces /\ g[2] = 1
    <3>1. PICK part : part = P[y]
      OBVIOUS
    <3>2. part.json[1] \in Pieces /\ \E i \in CallParts(a) : part.json[1] = <<i, 1>>
      BY <2>1, <2>2, <3>1, SentFacts
    <3>. QED
      BY <3>1, <3>2 DEF g
  <2>5. h \in Pieces /\ h[2] = 1
    <3>1. PICK part : part = P[p + 1]
      OBVIOUS
    <3>2. part.json[1] \in Pieces /\ \E i \in CallParts(a) : part.json[1] = <<i, 1>>
      BY <3>1, SentFacts
    <3>. QED
      BY <3>1, <3>2 DEF h
  <2>6. g[1] < h[1]
    <3>1. <<g, h>> \in PieceBefore
      BY <2>3 DEF g, h
    <3>2. g[2] < h[2] => FALSE
      BY <2>4, <2>5
    <3>. QED
      BY <2>4, <2>5, <3>1, <3>2, BeforeFacts
  <2>. QED
    BY <2>1, <2>6 DEF g, h
<1>13. ASSUME NEW m \in 1..Len(v.calls), NEW k \in 1..Len(v.calls), m < k
       PROVE  v.calls[m].args[1][1] < v.calls[k].args[1][1]
  <2>1. m \in 1..n
    BY <1>1, <1>13
  <2>2. CASE k \in 1..n
    BY <1>1, <1>11, <1>13, <2>1, <2>2
  <2>3. CASE k = n + 1
    BY <1>1, <1>12, <2>1, <2>3
  <2>. QED
    BY <1>2, <2>2, <2>3
<1>. QED
  BY <1>8, <1>10, <1>13 DEF GeminiCallsSent

(* It is kept after the parts before it.                                   *)
LEMMA KeptNext ==
    ASSUME NEW tl, NEW rp \in Seq(Sents), NEW tn, NEW v, tn.calls \in Seq(Called), Kept(tl, rp, tn),
           NEW id \in Nat \X Names, id \notin DOMAIN tl, NEW part \in Sents, part.kind = "call",
           NEW e \in Called, e.id = id, e.name = part.name, e.args = part.json,
           v.calls = Append(tn.calls, e),
           NEW tool, tool.name = part.name, tool.args = part.json, tool.part = Len(rp) + 1
    PROVE  Kept(WithTool(tl, id, tool), Append(rp, part), v)
<1>. DEFINE n == Len(tn.calls)
            ul == WithTool(tl, id, tool)
            sp == Append(rp, part)
<1>1. /\ n \in Nat /\ Len(v.calls) = n + 1 /\ v.calls[n + 1] = e
      /\ \A k \in 1..n : v.calls[k] = tn.calls[k]
  OBVIOUS
<1>2. /\ Len(rp) \in Nat /\ Len(sp) = Len(rp) + 1 /\ sp[Len(rp) + 1] = part
      /\ \A k \in 1..Len(rp) : sp[k] = rp[k]
  OBVIOUS
<1>3. /\ DOMAIN ul = DOMAIN tl \cup {id} /\ ul = [k \in DOMAIN ul |-> ul[k]]
      /\ ul[id] = tool /\ \A k \in DOMAIN tl : ul[k] = tl[k]
  BY DEF WithTool
<1>. HIDE DEF ul, sp, n
<1>4. /\ DOMAIN tl \in SUBSET (Nat \X Names) /\ IsFiniteSet(DOMAIN tl) /\ n = Cardinality(DOMAIN tl)
      /\ \A k \in 1..n : KeptCall(tn.calls[k], tl, rp)
      /\ \A m, k \in 1..n : m < k => tl[tn.calls[m].id].part < tl[tn.calls[k].id].part
      /\ \A x \in DOMAIN tl : \E k \in 1..n : tn.calls[k].id = x
  BY DEF Kept, n
<1>5. DOMAIN ul \in SUBSET (Nat \X Names)
  BY <1>3, <1>4
<1>6. IsFiniteSet(DOMAIN ul) /\ Cardinality(DOMAIN ul) = n + 1
  BY <1>3, <1>4, FS_AddElement
<1>7. \A k \in 1..Len(v.calls) : k \in 1..n \/ k = n + 1
  BY <1>1
<1>8. n + 1 \in 1..Len(v.calls) /\ \A k \in 1..n : k \in 1..Len(v.calls)
  BY <1>1
<1>9. ASSUME NEW k \in 1..n
      PROVE  /\ KeptCall(v.calls[k], ul, sp) /\ tn.calls[k].id \in DOMAIN tl
             /\ ul[v.calls[k].id].part = tl[tn.calls[k].id].part
             /\ ul[v.calls[k].id].part \in 1..Len(rp)
  <2>1. KeptCall(tn.calls[k], tl, rp) /\ v.calls[k] = tn.calls[k]
    BY <1>1, <1>4
  <2>2. tn.calls[k].id \in DOMAIN tl /\ ul[tn.calls[k].id] = tl[tn.calls[k].id]
    BY <1>3, <2>1 DEF KeptCall
  <2>. DEFINE x == tl[tn.calls[k].id].part
  <2>3. x \in 1..Len(rp)
    BY <2>1 DEF KeptCall
  <2>4. x \in 1..Len(sp) /\ sp[x] = rp[x]
    <3>1. \A y \in 1..Len(rp) : y \in 1..Len(sp) /\ sp[y] = rp[y]
      BY <1>2
    <3>. QED
      BY <2>3, <3>1
  <2>5. KeptCall(v.calls[k], ul, sp)
    BY <1>3, <2>1, <2>2, <2>4 DEF KeptCall
  <2>. QED
    BY <2>1, <2>2, <2>3, <2>5
<1>10. KeptCall(v.calls[n + 1], ul, sp) /\ ul[v.calls[n + 1].id].part = Len(rp) + 1
  <2>1. Len(rp) + 1 \in 1..Len(sp)
    BY <1>2
  <2>. QED
    BY <1>1, <1>2, <1>3, <2>1 DEF KeptCall
<1>11. \A k \in 1..Len(v.calls) : KeptCall(v.calls[k], ul, sp)
  BY <1>7, <1>9, <1>10
<1>12. ASSUME NEW m \in 1..Len(v.calls), NEW k \in 1..Len(v.calls), m < k
       PROVE  ul[v.calls[m].id].part < ul[v.calls[k].id].part
  <2>1. m \in 1..n
    BY <1>1, <1>12
  <2>2. CASE k \in 1..n
    <3>1. tl[tn.calls[m].id].part < tl[tn.calls[k].id].part
      BY <1>4, <1>12, <2>1, <2>2
    <3>2. /\ ul[v.calls[m].id].part = tl[tn.calls[m].id].part
          /\ ul[v.calls[k].id].part = tl[tn.calls[k].id].part
      BY <1>9, <2>1, <2>2
    <3>. QED
      BY <3>1, <3>2
  <2>3. CASE k = n + 1
    <3>1. ul[v.calls[m].id].part \in 1..Len(rp)
      BY <1>9, <2>1
    <3>2. ul[v.calls[k].id].part = Len(rp) + 1
      BY <1>10, <2>3
    <3>3. \A y \in 1..Len(rp) : y < Len(rp) + 1
      BY <1>2
    <3>. QED
      BY <3>1, <3>2, <3>3
  <2>. QED
    BY <1>7, <2>2, <2>3
<1>13. ASSUME NEW x \in DOMAIN ul PROVE \E k \in 1..Len(v.calls) : v.calls[k].id = x
  <2>1. CASE x = id
    BY <1>1, <1>8, <2>1
  <2>2. CASE x \in DOMAIN tl
    <3>1. PICK k \in 1..n : tn.calls[k].id = x
      BY <1>4, <2>2
    <3>. QED
      BY <1>1, <1>8, <3>1
  <2>. QED
    BY <1>3, <2>1, <2>2
<1>14. Kept(ul, sp, v)
  BY <1>1, <1>3, <1>5, <1>6, <1>11, <1>12, <1>13 DEF Kept
<1>. QED
  BY <1>14 DEF ul, sp

(* A call that was not sent before.                                        *)
LEMMA GeminiNewCall ==
    ASSUME NEW a \in Answers, a.provider = "google", NEW p \in Nat, p + 1 \in 1..Len(GeminiParts(a)),
           GeminiParts(a)[p + 1].kind = "call",
           NEW tl, NEW am, NEW tn, NEW ch, GeminiAt(a, p, tl, am, tn, ch),
           NEW id \in Nat \X Names, id \notin DOMAIN tl,
           NEW part \in Sents, part.kind = "call", part.name = GeminiParts(a)[p + 1].name,
           part.json = GeminiParts(a)[p + 1].json,
           NEW tool, tool.name = part.name, tool.args = part.json, tool.part = Len(am.replay) + 1,
           NEW bm \in Assemblers, bm.replay = Append(am.replay, part), bm.observed,
           NEW c, c = Start(id, part.name), NEW d, d = Arguments(id, part.name, part.json)
    PROVE  GeminiAt(a, p + 1, WithTool(tl, id, tool), bm,
                    Collected(Collected(tn, c), d), Append(Append(ch, c), d))
<1>. DEFINE P == GeminiParts(a)
            e == [id |-> id, name |-> part.name, args |-> part.json]
<1>v. PICK v : v = Collected(Collected(tn, c), d)
  OBVIOUS
<1>r. PICK r : r = Append(Append(ch, c), d)
  OBVIOUS
<1>1. Common(tn, ch) /\ ch \in Seq(Chunks) /\ Len(ch) \in Nat /\ am \in Assemblers
      /\ am.replay \in Seq(Sents) /\ tn.calls \in Seq(Called) /\ DOMAIN tn.calls = 1..Len(tn.calls)
  BY GeminiAtFacts
<1>2. id \in Ids /\ part.name \in AllNames /\ part.json \in Texts
  BY DEF Ids, Sents
<1>3. /\ GeminiCallsSent(a, p, tn) /\ Kept(tl, am.replay, tn)
      /\ Ordered(tn.text, PieceBefore) /\ Elements(tn.text) = SentTexts(a, p)
      /\ \A k \in 1..Len(ch) : ch[k].type \in ToolChunks => ch[k].id \in DOMAIN tl
  BY DEF GeminiAt
<1>4. Unseen(tn, ch, id)
  <2>1. \A n \in 1..Len(tn.calls) : tn.calls[n].id \in DOMAIN tl
    BY <1>3 DEF Kept, KeptCall
  <2>2. Pending(tn, id) = {}
    BY <1>1, <2>1 DEF Pending
  <2>3. ASSUME NEW k \in 1..Len(ch), ch[k].id = id PROVE FALSE
    <3>1. ch[k] \in Chunks
      BY <1>1
    <3>2. ch[k].type \in ToolChunks
      BY <1>2, <2>3, <3>1, ChunkTypes
    <3>. QED
      BY <1>3, <2>3, <3>2
  <2>. QED
    BY <2>2, <2>3 DEF Unseen
<1>5. /\ Common(v, r) /\ v.text = tn.text /\ v.calls = Append(tn.calls, e)
      /\ \A k \in 1..Len(r) : (k \in 1..Len(ch) /\ r[k] = ch[k]) \/ r[k].id = id
  <2>1. TellsCall(tn, ch, id, part.name, part.json, v, r)
    BY <1>1, <1>2, <1>4, <1>v, <1>r, NewCallTold
  <2>. QED
    BY <2>1 DEF TellsCall
<1>6. e \in Called /\ e.id = id /\ e.name = part.name /\ e.args = part.json
  BY <1>2 DEF Called
<1>. HIDE DEF e
<1>7. GeminiCallsSent(a, p + 1, v)
  BY <1>1, <1>3, <1>5, <1>6, CallNext
<1>8. Kept(WithTool(tl, id, tool), bm.replay, v)
  BY <1>1, <1>3, <1>5, <1>6, KeptNext
<1>9. SentTexts(a, p + 1) = SentTexts(a, p)
  BY SentTextsNext
<1>10. \A k \in 1..Len(r) : r[k].type \in ToolChunks => r[k].id \in DOMAIN WithTool(tl, id, tool)
  BY <1>3, <1>5 DEF WithTool
<1>11. p + 1 \in 0..Len(P)
  OBVIOUS
<1>12. GeminiAt(a, p + 1, WithTool(tl, id, tool), bm, v, r)
  BY <1>3, <1>5, <1>7, <1>8, <1>9, <1>10, <1>11 DEF GeminiAt
<1>. QED
  BY <1>12, <1>v, <1>r

-----------------------------------------------------------------------------
(* Gemini: the parts of a chunk, one at a time.                            *)

(* The state a chunk is consumed in, and what the turn and the chunks are  *)
(* once its output is told.                                                *)
St(tl, am, out) == [tools |-> tl, asm |-> am, out |-> out]
ReaderAt(a, p, tl, am, out, t0, c0) ==
    /\ out \in Seq(Chunks) /\ c0 \in Seq(Chunks)
    /\ GeminiAt(a, p, tl, am, CollectedAll(t0, out), c0 \o out)
StateAt(a, p, s, t0, c0) ==
    \E tl, am, out : s = St(tl, am, out) /\ ReaderAt(a, p, tl, am, out, t0, c0)
Keep(am, part) == [am EXCEPT !.replay = Append(am.replay, part)]
Seen(am) == [am EXCEPT !.observed = TRUE]

LEMMA StFields ==
    ASSUME NEW tl, NEW am, NEW out
    PROVE  St(tl, am, out).tools = tl /\ St(tl, am, out).asm = am /\ St(tl, am, out).out = out
BY DEF St

EmitsOne(t0, c0, out, c) ==
    /\ Append(out, c) \in Seq(Chunks) /\ out \o <<c>> = Append(out, c)
    /\ CollectedAll(t0, Append(out, c)) = Collected(CollectedAll(t0, out), c)
    /\ c0 \o Append(out, c) = Append(c0 \o out, c)
EmitsTwo(t0, c0, out, c, d) ==
    /\ out \o <<c, d>> = Append(Append(out, c), d)
    /\ Append(Append(out, c), d) \in Seq(Chunks)
    /\ CollectedAll(t0, Append(Append(out, c), d)) = Collected(Collected(CollectedAll(t0, out), c), d)
    /\ c0 \o Append(Append(out, c), d) = Append(Append(c0 \o out, c), d)

LEMMA EmitOne ==
    ASSUME NEW t0, NEW c0 \in Seq(Chunks), NEW out \in Seq(Chunks), NEW c \in Chunks
    PROVE  EmitsOne(t0, c0, out, c)
<1>1. Append(out, c) \in Seq(Chunks) /\ out \o <<c>> = Append(out, c)
  BY AppendProperties, AppendIsConcat
<1>2. CollectedAll(t0, Append(out, c)) = Collected(CollectedAll(t0, out), c)
  BY CollectedAppend
<1>3. <<c>> \in Seq(Chunks) /\ c0 \o out \in Seq(Chunks)
  BY ConcatProperties
<1>4. c0 \o (out \o <<c>>) = (c0 \o out) \o <<c>>
  BY <1>3, ConcatAssociative
<1>5. (c0 \o out) \o <<c>> = Append(c0 \o out, c)
  BY <1>3, AppendIsConcat
<1>. QED
  BY <1>1, <1>2, <1>4, <1>5 DEF EmitsOne

LEMMA EmitTwo ==
    ASSUME NEW t0, NEW c0 \in Seq(Chunks), NEW out \in Seq(Chunks), NEW c \in Chunks, NEW d \in Chunks
    PROVE  EmitsTwo(t0, c0, out, c, d)
<1>1. Append(out, c) \in Seq(Chunks)
  BY EmitOne DEF EmitsOne
<1>2. out \o <<c, d>> = Append(Append(out, c), d)
  <2>1. <<c>> \in Seq(Chunks) /\ <<d>> \in Seq(Chunks) /\ <<c, d>> = <<c>> \o <<d>>
    BY PairIs
  <2>2. out \o (<<c>> \o <<d>>) = (out \o <<c>>) \o <<d>>
    BY <2>1, ConcatAssociative
  <2>3. out \o <<c>> = Append(out, c) /\ Append(out, c) \o <<d>> = Append(Append(out, c), d)
    BY <1>1, AppendIsConcat
  <2>. QED
    BY <2>1, <2>2, <2>3
<1>3. Append(Append(out, c), d) \in Seq(Chunks)
  BY <1>1, EmitOne DEF EmitsOne
<1>4. CollectedAll(t0, Append(Append(out, c), d)) = Collected(CollectedAll(t0, Append(out, c)), d)
  <2>1. PICK q : q = Append(out, c)
    OBVIOUS
  <2>2. q \in Seq(Chunks)
    BY <1>1, <2>1
  <2>3. CollectedAll(t0, Append(q, d)) = Collected(CollectedAll(t0, q), d)
    BY <2>2, CollectedAppend
  <2>. QED
    BY <2>1, <2>3
<1>5. CollectedAll(t0, Append(out, c)) = Collected(CollectedAll(t0, out), c)
  BY CollectedAppend
<1>6. c0 \o Append(Append(out, c), d) = Append(c0 \o Append(out, c), d)
  BY <1>1, EmitOne DEF EmitsOne
<1>7. c0 \o Append(out, c) = Append(c0 \o out, c)
  BY EmitOne DEF EmitsOne
<1>. QED
  BY <1>2, <1>3, <1>4, <1>5, <1>6, <1>7 DEF EmitsTwo

LEMMA AssemblerFacts ==
    ASSUME NEW am \in Assemblers
    PROVE  /\ Seen(am) \in Assemblers /\ Seen(am).replay = am.replay /\ Seen(am).observed
           /\ Seen(am).terminal = am.terminal /\ Seen(am).reasoning = am.reasoning
           /\ \A part \in Sents :
                /\ Keep(am, part) \in Assemblers /\ Keep(am, part).replay = Append(am.replay, part)
                /\ Keep(am, part).observed = am.observed /\ Keep(am, part).terminal = am.terminal
                /\ Keep(am, part).reasoning = am.reasoning
           /\ \A b \in BOOLEAN :
                LET bm == [am EXCEPT !.reasoning = b]
                IN  bm \in Assemblers /\ bm.replay = am.replay /\ bm.observed = am.observed
                    /\ bm.terminal = am.terminal
<1>1. am.replay \in Seq(Sents)
  BY DEF Assemblers
<1>2. \A part \in Sents : Append(am.replay, part) \in Seq(Sents)
  BY <1>1, AppendProperties
<1>3. ASSUME NEW part \in Sents, NEW rp \in Seq(Sents), rp = Append(am.replay, part)
      PROVE  /\ Keep(am, part) \in Assemblers /\ Keep(am, part).replay = rp
             /\ Keep(am, part).observed = am.observed /\ Keep(am, part).terminal = am.terminal
             /\ Keep(am, part).reasoning = am.reasoning
  BY <1>3 DEF Keep, Assemblers
<1>4. ASSUME NEW part \in Sents
      PROVE  /\ Keep(am, part) \in Assemblers /\ Keep(am, part).replay = Append(am.replay, part)
             /\ Keep(am, part).observed = am.observed /\ Keep(am, part).terminal = am.terminal
             /\ Keep(am, part).reasoning = am.reasoning
  BY <1>2, <1>3
<1>5. Seen(am) \in Assemblers /\ Seen(am).replay = am.replay /\ Seen(am).observed
      /\ Seen(am).terminal = am.terminal /\ Seen(am).reasoning = am.reasoning
  BY DEF Seen, Assemblers
<1>6. ASSUME NEW b \in BOOLEAN, NEW bm, bm = [am EXCEPT !.reasoning = b]
      PROVE  bm \in Assemblers /\ bm.replay = am.replay /\ bm.observed = am.observed
             /\ bm.terminal = am.terminal
  BY <1>6 DEF Assemblers
<1>. QED
  BY <1>4, <1>5, <1>6

(* A record of the reader's state, updated.                                *)
With(s, x, y) == [s EXCEPT !.asm = x, !.out = y]

LEMMA StTwo ==
    ASSUME NEW tl, NEW am, NEW out, NEW x, NEW y, NEW s, s = St(tl, am, out)
    PROVE  With(s, x, y) = St(tl, x, y)
<1>. DEFINE r == [s EXCEPT !.asm = x, !.out = y]
<1>1. s \in [tools : {tl}, asm : {am}, out : {out}]
  BY DEF St
<1>2. r \in [tools : {tl}, asm : {x}, out : {y}]
  BY <1>1
<1>. HIDE DEF r
<1>3. r = [tools |-> tl, asm |-> x, out |-> y]
  BY <1>2
<1>. QED
  BY <1>3 DEF r, St, With

LEMMA ShownForm ==
    ASSUME NEW tl, NEW am, NEW out, NEW cs
    PROVE  Shown(St(tl, am, out), cs) = St(tl, Seen(am), out \o cs)
<1>1. PICK s : s = St(tl, am, out)
  OBVIOUS
<1>2. PICK x : x = Seen(am)
  OBVIOUS
<1>3. PICK y : y = out \o cs
  OBVIOUS
<1>4. s.asm = am /\ s.out = out
  BY <1>1 DEF St
<1>5. Shown(s, cs) = [s EXCEPT !.asm = [am EXCEPT !.observed = TRUE], !.out = out \o cs]
  BY <1>4 DEF Shown
<1>6. Shown(s, cs) = With(s, x, y)
  BY <1>2, <1>3, <1>5 DEF Seen, With
<1>7. With(s, x, y) = St(tl, x, y)
  BY <1>1, StTwo
<1>. QED
  BY <1>1, <1>2, <1>3, <1>6, <1>7

Reasons(s) == [s EXCEPT !.asm.reasoning = TRUE]

LEMMA ReasonsForm ==
    ASSUME NEW tl, NEW am, NEW out
    PROVE  Reasons(St(tl, am, out)) = St(tl, [am EXCEPT !.reasoning = TRUE], out)
<1>. DEFINE s == St(tl, am, out)
<1>1. s.asm = am
  BY DEF St
<1>2. \A x : [s EXCEPT !.asm = x] = St(tl, x, out)
  BY DEF St
<1>. HIDE DEF s
<1>3. Reasons(s) = [s EXCEPT !.asm = [am EXCEPT !.reasoning = TRUE]]
  BY <1>1 DEF Reasons
<1>4. PICK x : x = [am EXCEPT !.reasoning = TRUE]
  OBVIOUS
<1>. QED
  BY <1>2, <1>3, <1>4 DEF s

WithPart(s, part) == [s EXCEPT !.asm.replay = Append(@, part)]

LEMMA WithPartForm ==
    ASSUME NEW tl, NEW am, NEW out, NEW part
    PROVE  WithPart(St(tl, am, out), part) = St(tl, Keep(am, part), out)
BY DEF WithPart, St, Keep

(* The states of the reader that the pieces of a chunk's handling lead to. *)
LEMMA ReaderQuiet ==
    ASSUME NEW a, NEW p, NEW tl, NEW am, NEW out, NEW t0, NEW c0, ReaderAt(a, p, tl, am, out, t0, c0),
           NEW bm \in Assemblers, bm.replay = am.replay, am.observed => bm.observed
    PROVE  ReaderAt(a, p, tl, bm, out, t0, c0)
BY GeminiQuiet DEF ReaderAt

LEMMA ReaderKeep ==
    ASSUME NEW a, NEW p, NEW tl, NEW am, NEW out, NEW t0, NEW c0, ReaderAt(a, p, tl, am, out, t0, c0),
           NEW part \in Sents
    PROVE  /\ ReaderAt(a, p, tl, Keep(am, part), out, t0, c0)
           /\ am \in Assemblers
<1>1. am \in Assemblers
  BY GeminiAtFacts DEF ReaderAt
<1>2. /\ Keep(am, part) \in Assemblers /\ Keep(am, part).replay = Append(am.replay, part)
      /\ Keep(am, part).observed = am.observed
  BY <1>1, AssemblerFacts
<1>. QED
  BY <1>1, <1>2, GeminiKeep DEF ReaderAt

LEMMA ReaderReasoning ==
    ASSUME NEW a, NEW p, NEW tl, NEW am, NEW out, NEW t0, NEW c0, ReaderAt(a, p, tl, am, out, t0, c0),
           NEW c \in Chunks, c.type \in {"reasoning-start", "reasoning-delta", "reasoning-end"}
    PROVE  ReaderAt(a, p, tl, am, Append(out, c), t0, c0)
<1>1. out \in Seq(Chunks) /\ c0 \in Seq(Chunks)
      /\ GeminiAt(a, p, tl, am, CollectedAll(t0, out), c0 \o out)
  BY DEF ReaderAt
<1>2. GeminiAt(a, p, tl, am, Collected(CollectedAll(t0, out), c), Append(c0 \o out, c))
  BY <1>1, GeminiReasoning
<1>3. /\ Append(out, c) \in Seq(Chunks)
      /\ CollectedAll(t0, Append(out, c)) = Collected(CollectedAll(t0, out), c)
      /\ c0 \o Append(out, c) = Append(c0 \o out, c)
  <2>1. EmitsOne(t0, c0, out, c)
    BY <1>1, EmitOne
  <2>. QED
    BY <2>1 DEF EmitsOne
<1>4. GeminiAt(a, p, tl, am, CollectedAll(t0, Append(out, c)), c0 \o Append(out, c))
  BY <1>2, <1>3
<1>. QED
  BY <1>1, <1>3, <1>4 DEF ReaderAt

LEMMA CloseAt ==
    ASSUME NEW a, NEW p, NEW tl, NEW am, NEW out, NEW t0, NEW c0, ReaderAt(a, p, tl, am, out, t0, c0)
    PROVE  \E bm, o : /\ CloseReasoning(St(tl, am, out)) = St(tl, bm, o)
                      /\ ReaderAt(a, p, tl, bm, o, t0, c0)
                      /\ bm.replay = am.replay /\ bm.observed = am.observed
                      /\ bm.terminal = am.terminal
<1>1. am \in Assemblers
  BY GeminiAtFacts DEF ReaderAt
<1>2. CASE ~am.reasoning
  <2>1. CloseReasoning(St(tl, am, out)) = St(tl, am, out)
    BY <1>2, StFields DEF CloseReasoning
  <2>. QED
    BY <2>1
<1>3. CASE am.reasoning
  <2>. DEFINE re == Reasoning("reasoning-end", <<>>)
              bm == [am EXCEPT !.reasoning = FALSE]
  <2>1. CloseReasoning(St(tl, am, out)) = St(tl, bm, Append(out, re))
    BY <1>3 DEF CloseReasoning, St
  <2>2. re \in Chunks /\ re.type = "reasoning-end"
    <3>1. <<>> \in Texts
      BY DEF Texts
    <3>2. re \in Chunks
      BY <3>1, TextChunk
    <3>. QED
      BY <3>2 DEF Reasoning, Chunk
  <2>3. bm \in Assemblers /\ bm.replay = am.replay /\ bm.observed = am.observed
        /\ bm.terminal = am.terminal
    BY <1>1, AssemblerFacts
  <2>. HIDE DEF re, bm
  <2>4. ReaderAt(a, p, tl, bm, out, t0, c0)
    BY <2>3, ReaderQuiet
  <2>5. ReaderAt(a, p, tl, bm, Append(out, re), t0, c0)
    BY <2>2, <2>4, ReaderReasoning
  <2>. QED
    BY <2>1, <2>3, <2>5
<1>. QED
  BY <1>2, <1>3

(* How one part of a chunk changes the tools of the assembler.             *)
Holds(tl, j, part) ==
    /\ <<j, part.name>> \in DOMAIN tl
    /\ tl[<<j, part.name>>].name = part.name /\ tl[<<j, part.name>>].args = part.json
Grows(s, u, place, part) ==
    /\ u.asm.terminal = s.asm.terminal
    /\ \A k \in DOMAIN s.tools : k \in DOMAIN u.tools /\ u.tools[k] = s.tools[k]
    /\ \A k \in DOMAIN u.tools : k \in DOMAIN s.tools \/ k[1] = place
    /\ part.kind = "call" => Holds(u.tools, place, part)
SameData(part, sent) ==
    part \in Sents /\ part.kind = sent.kind /\ part.name = sent.name /\ part.json = sent.json

LEMMA TextPart ==
    ASSUME NEW a \in Answers, a.provider = "google", NEW p \in Nat, p + 1 \in 1..Len(GeminiParts(a)),
           NEW s, NEW t0, NEW c0, StateAt(a, p, s, t0, c0),
           NEW part, SameData(part, GeminiParts(a)[p + 1]), part.kind = "text", NEW place
    PROVE  StateAt(a, p + 1, GeminiText(s, part), t0, c0) /\ Grows(s, GeminiText(s, part), place, part)
<1>. DEFINE c == TextDelta(part.json)
<1>1. PICK tl, am, out : s = St(tl, am, out) /\ ReaderAt(a, p, tl, am, out, t0, c0)
  BY DEF StateAt
<1>2. /\ part \in Sents /\ GeminiParts(a)[p + 1].kind = "text"
      /\ part.json = GeminiParts(a)[p + 1].json
  BY DEF SameData
<1>3. ReaderAt(a, p, tl, Keep(am, part), out, t0, c0) /\ am \in Assemblers
  BY <1>1, <1>2, ReaderKeep
<1>4. Keep(am, part) \in Assemblers /\ Keep(am, part).terminal = am.terminal
  BY <1>2, <1>3, AssemblerFacts
<1>5. PICK bm, o : /\ CloseReasoning(St(tl, Keep(am, part), out)) = St(tl, bm, o)
                   /\ ReaderAt(a, p, tl, bm, o, t0, c0)
                   /\ bm.terminal = am.terminal
  BY <1>3, <1>4, CloseAt
<1>6. bm \in Assemblers
  BY <1>5, GeminiAtFacts DEF ReaderAt
<1>7. /\ Seen(bm) \in Assemblers /\ Seen(bm).replay = bm.replay /\ Seen(bm).observed
      /\ Seen(bm).terminal = am.terminal
  BY <1>5, <1>6, AssemblerFacts
<1>8. ReaderAt(a, p, tl, Seen(bm), o, t0, c0)
  BY <1>5, <1>7, ReaderQuiet
<1>9. GeminiText(s, part) = St(tl, Seen(bm), o \o <<c>>)
  <2>1. WithPart(s, part) = St(tl, Keep(am, part), out)
    BY <1>1, WithPartForm
  <2>2. Shown(St(tl, bm, o), <<c>>) = St(tl, Seen(bm), o \o <<c>>)
    BY ShownForm
  <2>. QED
    BY <1>5, <2>1, <2>2 DEF GeminiText, WithPart
<1>10. c \in Chunks
  <2>1. part.json \in Texts
    BY <1>2 DEF Sents
  <2>. QED
    BY <2>1, TextChunk
<1>. HIDE DEF c
<1>11. o \in Seq(Chunks) /\ c0 \in Seq(Chunks)
       /\ GeminiAt(a, p, tl, Seen(bm), CollectedAll(t0, o), c0 \o o)
  BY <1>8 DEF ReaderAt
<1>12. GeminiAt(a, p + 1, tl, Seen(bm), Collected(CollectedAll(t0, o), c), Append(c0 \o o, c))
  BY <1>2, <1>7, <1>11, GeminiTextSent DEF c
<1>13. ReaderAt(a, p + 1, tl, Seen(bm), o \o <<c>>, t0, c0)
  <2>1. /\ Append(o, c) \in Seq(Chunks) /\ o \o <<c>> = Append(o, c)
        /\ CollectedAll(t0, Append(o, c)) = Collected(CollectedAll(t0, o), c)
        /\ c0 \o Append(o, c) = Append(c0 \o o, c)
    <3>1. EmitsOne(t0, c0, o, c)
      BY <1>10, <1>11, EmitOne
    <3>. QED
      BY <3>1 DEF EmitsOne
  <2>2. GeminiAt(a, p + 1, tl, Seen(bm), CollectedAll(t0, Append(o, c)), c0 \o Append(o, c))
    BY <1>12, <2>1
  <2>. QED
    BY <1>11, <2>1, <2>2 DEF ReaderAt
<1>14. StateAt(a, p + 1, GeminiText(s, part), t0, c0)
  BY <1>9, <1>13 DEF StateAt
<1>15. Grows(s, GeminiText(s, part), place, part)
  BY <1>1, <1>7, <1>9, StFields DEF Grows
<1>. QED
  BY <1>14, <1>15

LEMMA ThoughtPart ==
    ASSUME NEW a \in Answers, a.provider = "google", NEW p \in Nat, p + 1 \in 1..Len(GeminiParts(a)),
           NEW s, NEW t0, NEW c0, StateAt(a, p, s, t0, c0),
           NEW part, SameData(part, GeminiParts(a)[p + 1]), part.kind = "thought", NEW place
    PROVE  StateAt(a, p + 1, GeminiThought(s, part), t0, c0) /\ Grows(s, GeminiThought(s, part), place, part)
<1>. DEFINE re == Reasoning("reasoning-start", <<>>)
            c == Reasoning("reasoning-delta", part.json)
<1>1. PICK tl, am, out : s = St(tl, am, out) /\ ReaderAt(a, p, tl, am, out, t0, c0)
  BY DEF StateAt
<1>2. part \in Sents /\ GeminiParts(a)[p + 1].kind = "thought"
  BY DEF SameData
<1>3. ReaderAt(a, p, tl, Keep(am, part), out, t0, c0) /\ am \in Assemblers
  BY <1>1, <1>2, ReaderKeep
<1>4. /\ Keep(am, part) \in Assemblers /\ Keep(am, part).terminal = am.terminal
      /\ Keep(am, part).reasoning = am.reasoning
  BY <1>2, <1>3, AssemblerFacts
<1>5. \A bm, o : ReaderAt(a, p, tl, bm, o, t0, c0) => ReaderAt(a, p + 1, tl, bm, o, t0, c0)
  BY <1>2, GeminiThoughtSent DEF ReaderAt
<1>6. re \in Chunks /\ re.type = "reasoning-start" /\ c \in Chunks /\ c.type = "reasoning-delta"
  <2>1. part.json \in Texts /\ <<>> \in Texts
    BY <1>2 DEF Sents, Texts
  <2>2. re \in Chunks /\ c \in Chunks
    BY <2>1, TextChunk
  <2>. QED
    BY <2>2 DEF Reasoning, Chunk
<1>7. WithPart(s, part) = St(tl, Keep(am, part), out)
  BY <1>1, WithPartForm
<1>8. \A k, u : u.asm.terminal = am.terminal /\ u.tools = tl => Grows(s, u, place, part)
  BY <1>1, StFields DEF Grows
<1>9. CASE ~answer.showThoughts
  <2>1. GeminiThought(s, part) = St(tl, Keep(am, part), out)
    BY <1>7, <1>9 DEF GeminiThought, WithPart
  <2>2. StateAt(a, p + 1, GeminiThought(s, part), t0, c0)
    BY <1>3, <1>5, <2>1 DEF StateAt
  <2>. QED
    BY <1>4, <1>8, <2>1, <2>2, StFields
<1>10. CASE answer.showThoughts
  <2>. DEFINE opening == IF am.reasoning THEN <<>> ELSE <<re>>
              km == Keep(am, part)
              bm == [Seen(km) EXCEPT !.reasoning = TRUE]
              o == out \o (opening \o <<c>>)
  <2>1. Seen(km) \in Assemblers /\ Seen(km).replay = km.replay /\ Seen(km).observed
        /\ Seen(km).terminal = am.terminal
    BY <1>4, AssemblerFacts
  <2>2. bm \in Assemblers /\ bm.replay = km.replay /\ bm.observed /\ bm.terminal = am.terminal
    BY <2>1, AssemblerFacts
  <2>3. GeminiThought(s, part) = St(tl, bm, o)
    <3>1. s.asm.reasoning = am.reasoning
      BY <1>1, StFields
    <3>2. GeminiThought(s, part) = Reasons(Shown(St(tl, km, out), opening \o <<c>>))
      BY <1>7, <1>10, <3>1 DEF GeminiThought, Reasons, WithPart
    <3>3. Shown(St(tl, km, out), opening \o <<c>>) = St(tl, Seen(km), o)
      BY ShownForm
    <3>4. Reasons(St(tl, Seen(km), o)) = St(tl, bm, o)
      BY ReasonsForm
    <3>. QED
      BY <3>2, <3>3, <3>4
  <2>. HIDE DEF km, bm, re, c
  <2>4. ReaderAt(a, p, tl, bm, out, t0, c0) /\ out \in Seq(Chunks) /\ c0 \in Seq(Chunks)
    BY <1>3, <2>2, ReaderQuiet DEF ReaderAt, km
  <2>5. ReaderAt(a, p, tl, bm, o, t0, c0)
    <3>1. CASE am.reasoning
      <4>1. <<>> \o <<c>> = <<c>>
        BY <1>6, PairIs, ConcatEmptySeq
      <4>2. o = Append(out, c)
        BY <1>6, <2>4, <3>1, <4>1, EmitOne DEF EmitsOne
      <4>. QED
        BY <1>6, <2>4, <4>2, ReaderReasoning
    <3>2. CASE ~am.reasoning
      <4>1. <<re>> \o <<c>> = <<re, c>>
        BY <1>6, PairIs
      <4>2. o = Append(Append(out, re), c)
        BY <1>6, <2>4, <3>2, <4>1, EmitTwo DEF EmitsTwo
      <4>3. ReaderAt(a, p, tl, bm, Append(out, re), t0, c0)
        BY <1>6, <2>4, ReaderReasoning
      <4>. QED
        BY <1>6, <4>2, <4>3, ReaderReasoning
    <3>. QED
      BY <3>1, <3>2
  <2>6. StateAt(a, p + 1, GeminiThought(s, part), t0, c0)
    BY <1>5, <2>3, <2>5 DEF StateAt
  <2>. QED
    BY <1>8, <2>2, <2>3, <2>6, StFields
<1>. QED
  BY <1>9, <1>10

(* A call that was not sent before.                                        *)
WithCall(t, id, part) ==
    [t EXCEPT !.asm.replay = Append(@, part),
              !.tools = [k \in DOMAIN @ \cup {id} |->
                           IF k = id THEN [name |-> part.name, args |-> part.json,
                                           part |-> Len(t.asm.replay) + 1]
                           ELSE @[k]]]
ToolFrom(part, n) == [name |-> part.name, args |-> part.json, part |-> n]

WithTools(s, x, y) == [s EXCEPT !.asm = x, !.tools = y]
LEMMA StToolsTwo ==
    ASSUME NEW tl, NEW am, NEW out, NEW x, NEW y, NEW s, s = St(tl, am, out)
    PROVE  WithTools(s, x, y) = St(y, x, out)
<1>. DEFINE r == [s EXCEPT !.asm = x, !.tools = y]
<1>1. s \in [tools : {tl}, asm : {am}, out : {out}]
  BY DEF St
<1>2. r \in [tools : {y}, asm : {x}, out : {out}]
  BY <1>1
<1>. HIDE DEF r
<1>3. r = [tools |-> y, asm |-> x, out |-> out]
  BY <1>2
<1>. QED
  BY <1>3 DEF r, St, WithTools

LEMMA WithCallForm ==
    ASSUME NEW tl, NEW am, NEW out, NEW id, NEW part
    PROVE  WithCall(St(tl, am, out), id, part)
             = St(WithTool(tl, id, ToolFrom(part, Len(am.replay) + 1)), Keep(am, part), out)
<1>1. PICK s : s = St(tl, am, out)
  OBVIOUS
<1>2. s.asm = am /\ s.tools = tl
  BY <1>1 DEF St
<1>3. PICK x : x = Keep(am, part)
  OBVIOUS
<1>4. PICK y : y = WithTool(tl, id, ToolFrom(part, Len(am.replay) + 1))
  OBVIOUS
<1>5. [am EXCEPT !.replay = Append(am.replay, part)] = x
  BY <1>3 DEF Keep
<1>6. [k \in DOMAIN tl \cup {id} |->
         IF k = id THEN [name |-> part.name, args |-> part.json, part |-> Len(am.replay) + 1]
         ELSE tl[k]] = y
  BY <1>4 DEF WithTool, ToolFrom
<1>7. WithCall(s, id, part) = WithTools(s, x, y)
  BY <1>2, <1>5, <1>6 DEF WithCall, WithTools
<1>8. WithCall(s, id, part) = St(y, x, out)
  BY <1>1, <1>7, StToolsTwo
<1>. QED
  BY <1>1, <1>3, <1>4, <1>8

LEMMA NewCallPart ==
    ASSUME NEW a \in Answers, a.provider = "google", NEW p \in Nat, p + 1 \in 1..Len(GeminiParts(a)),
           NEW s, NEW t0, NEW c0, StateAt(a, p, s, t0, c0),
           NEW part, SameData(part, GeminiParts(a)[p + 1]), part.kind = "call",
           NEW place \in Nat, <<place, part.name>> \notin DOMAIN s.tools
    PROVE  /\ StateAt(a, p + 1, GeminiCall(s, place, part), t0, c0)
           /\ Grows(s, GeminiCall(s, place, part), place, part)
<1>i. PICK id : id = <<place, part.name>>
  OBVIOUS
<1>. DEFINE c == Start(id, part.name)
            d == Arguments(id, part.name, part.json)
<1>1. PICK tl, am, out : s = St(tl, am, out) /\ ReaderAt(a, p, tl, am, out, t0, c0)
  BY DEF StateAt
<1>2. /\ part \in Sents /\ GeminiParts(a)[p + 1].kind = "call"
      /\ part.name = GeminiParts(a)[p + 1].name /\ part.json = GeminiParts(a)[p + 1].json
  BY DEF SameData
<1>3. part.name \in Names
  BY <1>2, SentFacts
<1>4. id \in Nat \X Names /\ id \in Ids /\ part.name \in AllNames /\ part.json \in Texts
  BY <1>2, <1>3, <1>i DEF Ids, Sents
<1>5. c \in Chunks /\ d \in Chunks
  BY <1>4, ChunkOf
<1>6. s.tools = tl /\ s.asm = am /\ id \notin DOMAIN tl
  BY <1>1, <1>i, StFields
<1>7. PICK bm, o : /\ CloseReasoning(s) = St(tl, bm, o) /\ ReaderAt(a, p, tl, bm, o, t0, c0)
                   /\ bm.terminal = am.terminal
  BY <1>1, CloseAt
<1>8. bm \in Assemblers /\ o \in Seq(Chunks) /\ c0 \in Seq(Chunks)
      /\ GeminiAt(a, p, tl, bm, CollectedAll(t0, o), c0 \o o)
  BY <1>7, GeminiAtFacts DEF ReaderAt
<1>. DEFINE tool == ToolFrom(part, Len(bm.replay) + 1)
            km == Keep(bm, part)
            ul == WithTool(tl, id, tool)
<1>9. /\ km \in Assemblers /\ km.replay = Append(bm.replay, part) /\ km.terminal = am.terminal
  BY <1>2, <1>7, <1>8, AssemblerFacts
<1>10. /\ Seen(km) \in Assemblers /\ Seen(km).replay = Append(bm.replay, part) /\ Seen(km).observed
       /\ Seen(km).terminal = am.terminal
  BY <1>9, AssemblerFacts
<1>11. tool.name = part.name /\ tool.args = part.json /\ tool.part = Len(bm.replay) + 1
  BY DEF ToolFrom
<1>12. GeminiCall(s, place, part) = St(ul, Seen(km), o \o <<c, d>>)
  <2>1. PICK t : t = CloseReasoning(s)
    OBVIOUS
  <2>2. t = St(tl, bm, o) /\ t.tools = tl
    BY <1>7, <2>1, StFields
  <2>3. GeminiCall(s, place, part) = Shown(WithCall(t, id, part), <<c, d>>)
    BY <1>6, <1>i, <2>1, <2>2 DEF GeminiCall, WithCall
  <2>4. WithCall(t, id, part) = St(ul, km, o)
    BY <2>2, WithCallForm
  <2>. QED
    BY <2>3, <2>4, ShownForm
<1>. HIDE DEF tool, km, ul, c, d
<1>13. GeminiAt(a, p + 1, ul, Seen(km), Collected(Collected(CollectedAll(t0, o), c), d),
                Append(Append(c0 \o o, c), d))
  <2>1. PICK bn : bn = Seen(km)
    OBVIOUS
  <2>2. PICK tn : tn = CollectedAll(t0, o)
    OBVIOUS
  <2>3. PICK ch : ch = c0 \o o
    OBVIOUS
  <2>4. c = Start(id, part.name) /\ d = Arguments(id, part.name, part.json)
    BY DEF c, d
  <2>5. GeminiAt(a, p, tl, bm, tn, ch)
    BY <1>8, <2>2, <2>3
  <2>6. bn \in Assemblers /\ bn.replay = Append(bm.replay, part) /\ bn.observed
    BY <1>10, <2>1
  <2>7. GeminiAt(a, p + 1, WithTool(tl, id, tool), bn, Collected(Collected(tn, c), d),
                 Append(Append(ch, c), d))
    BY <1>2, <1>4, <1>6, <1>11, <2>4, <2>5, <2>6, GeminiNewCall
  <2>. QED
    BY <2>1, <2>2, <2>3, <2>7 DEF ul
<1>14. EmitsTwo(t0, c0, o, c, d)
  BY <1>5, <1>8, EmitTwo
<1>15. ReaderAt(a, p + 1, ul, Seen(km), o \o <<c, d>>, t0, c0)
  <2>1. /\ o \o <<c, d>> = Append(Append(o, c), d) /\ Append(Append(o, c), d) \in Seq(Chunks)
        /\ CollectedAll(t0, Append(Append(o, c), d)) = Collected(Collected(CollectedAll(t0, o), c), d)
        /\ c0 \o Append(Append(o, c), d) = Append(Append(c0 \o o, c), d)
    BY <1>14 DEF EmitsTwo
  <2>2. GeminiAt(a, p + 1, ul, Seen(km), CollectedAll(t0, Append(Append(o, c), d)),
                 c0 \o Append(Append(o, c), d))
    BY <1>13, <2>1
  <2>. QED
    BY <1>8, <2>1, <2>2 DEF ReaderAt
<1>16. StateAt(a, p + 1, GeminiCall(s, place, part), t0, c0)
  BY <1>12, <1>15 DEF StateAt
<1>17. Grows(s, GeminiCall(s, place, part), place, part)
  <2>1. GeminiCall(s, place, part).tools = ul /\ GeminiCall(s, place, part).asm = Seen(km)
    BY <1>12, StFields
  <2>2. DOMAIN ul = DOMAIN tl \cup {id} /\ ul[id] = tool /\ \A k \in DOMAIN tl : ul[k] = tl[k]
    BY <1>6 DEF ul, WithTool
  <2>3. id[1] = place
    BY <1>i
  <2>4. Holds(ul, place, part)
    BY <1>11, <1>i, <2>2 DEF Holds
  <2>. QED
    BY <1>6, <1>10, <2>1, <2>2, <2>3, <2>4 DEF Grows
<1>. QED
  BY <1>16, <1>17

(* A call that is sent again.                                              *)
AddsTo(t, id, part) ==
    [t EXCEPT !.asm.observed = TRUE, !.asm.replay[t.tools[id].part] = MergedPart(@, part)]
Merged(am, n, part) ==
    [am EXCEPT !.observed = TRUE, !.replay[n] = MergedPart(@, part)]

LEMMA AddsToForm ==
    ASSUME NEW tl, NEW am, NEW out, NEW id, NEW part
    PROVE  AddsTo(St(tl, am, out), id, part) = St(tl, Merged(am, tl[id].part, part), out)
<1>1. PICK s : s = St(tl, am, out)
  OBVIOUS
<1>2. s.asm = am /\ s.tools = tl
  BY <1>1 DEF St
<1>3. PICK n : n = tl[id].part
  OBVIOUS
<1>4. PICK x : x = Merged(am, n, part)
  OBVIOUS
<1>5. AddsTo(s, id, part) =
        [s EXCEPT !.asm = [am EXCEPT !.observed = TRUE, !.replay[n] = MergedPart(@, part)]]
  BY <1>2, <1>3 DEF AddsTo
<1>6. AddsTo(s, id, part) = [s EXCEPT !.asm = x]
  BY <1>4, <1>5 DEF Merged
<1>7. [s EXCEPT !.asm = x] = St(tl, x, out)
  BY <1>1 DEF St
<1>. QED
  BY <1>1, <1>3, <1>4, <1>6, <1>7

LEMMA CallAgain ==
    ASSUME NEW a, NEW p, NEW s, NEW t0, NEW c0, StateAt(a, p, s, t0, c0),
           NEW part \in Sents, part.kind = "call", NEW place, Holds(s.tools, place, part)
    PROVE  /\ StateAt(a, p, GeminiCall(s, place, part), t0, c0)
           /\ GeminiCall(s, place, part).tools = s.tools
           /\ GeminiCall(s, place, part).asm.terminal = s.asm.terminal
<1>i. PICK id : id = <<place, part.name>>
  OBVIOUS
<1>u. PICK u : u = GeminiCall(s, place, part)
  OBVIOUS
<1>1. PICK tl, am, out : s = St(tl, am, out) /\ ReaderAt(a, p, tl, am, out, t0, c0)
  BY DEF StateAt
<1>2. s.tools = tl /\ s.asm = am
  BY <1>1, StFields
<1>3. id \in DOMAIN tl /\ tl[id].name = part.name /\ tl[id].args = part.json
  BY <1>2, <1>i DEF Holds
<1>4. PICK bm, o : /\ CloseReasoning(s) = St(tl, bm, o) /\ ReaderAt(a, p, tl, bm, o, t0, c0)
                   /\ bm.terminal = am.terminal
  BY <1>1, CloseAt
<1>5. bm \in Assemblers /\ o \in Seq(Chunks) /\ c0 \in Seq(Chunks)
      /\ GeminiAt(a, p, tl, bm, CollectedAll(t0, o), c0 \o o)
  BY <1>4, GeminiAtFacts DEF ReaderAt
<1>m. PICK mm : mm = Merged(bm, tl[id].part, part)
  OBVIOUS
<1>6. u = St(tl, mm, o)
  <2>1. PICK t : t = CloseReasoning(s)
    OBVIOUS
  <2>2. t = St(tl, bm, o) /\ t.tools = tl
    BY <1>4, <2>1, StFields
  <2>3. u = AddsTo(t, id, part)
    BY <1>3, <1>i, <1>u, <2>1, <2>2 DEF GeminiCall, AddsTo
  <2>. QED
    BY <1>m, <2>2, <2>3, AddsToForm
<1>7. GeminiAt(a, p, tl, mm, CollectedAll(t0, o), c0 \o o)
  <2>1. PICK tn : tn = CollectedAll(t0, o)
    OBVIOUS
  <2>2. PICK ch : ch = c0 \o o
    OBVIOUS
  <2>3. GeminiAt(a, p, tl, bm, tn, ch)
    BY <1>5, <2>1, <2>2
  <2>4. mm = [bm EXCEPT !.observed = TRUE, !.replay[tl[id].part] = MergedPart(@, part)]
    BY <1>m DEF Merged
  <2>5. GeminiAt(a, p, tl, mm, tn, ch)
    BY <1>3, <2>3, <2>4, GeminiMerge
  <2>. QED
    BY <2>1, <2>2, <2>5
<1>8. mm.terminal = am.terminal
  BY <1>4, <1>5, <1>m DEF Merged, Assemblers
<1>9. StateAt(a, p, u, t0, c0)
  BY <1>5, <1>6, <1>7 DEF StateAt, ReaderAt
<1>10. u.tools = tl /\ u.asm = mm
  BY <1>6, StFields
<1>. QED
  BY <1>2, <1>8, <1>9, <1>10, <1>u

(* One part of a chunk.                                                    *)
LEMMA PartStep ==
    ASSUME NEW a \in Answers, a.provider = "google", NEW p \in Nat, p + 1 \in 1..Len(GeminiParts(a)),
           NEW s, NEW t0, NEW c0, StateAt(a, p, s, t0, c0),
           NEW part, SameData(part, GeminiParts(a)[p + 1]),
           NEW place \in Nat, part.kind = "call" => <<place, part.name>> \notin DOMAIN s.tools
    PROVE  /\ StateAt(a, p + 1, GeminiPart(s, place, part), t0, c0)
           /\ Grows(s, GeminiPart(s, place, part), place, part)
<1>1. part.kind \in {"text", "thought", "call"}
  BY DEF SameData, Sents
<1>2. CASE part.kind = "text"
  <2>1. GeminiPart(s, place, part) = GeminiText(s, part)
    BY <1>2 DEF GeminiPart
  <2>. QED
    BY <1>2, <2>1, TextPart
<1>3. CASE part.kind = "thought"
  <2>1. GeminiPart(s, place, part) = GeminiThought(s, part)
    BY <1>3 DEF GeminiPart
  <2>. QED
    BY <1>3, <2>1, ThoughtPart
<1>4. CASE part.kind = "call"
  <2>1. GeminiPart(s, place, part) = GeminiCall(s, place, part)
    BY <1>4 DEF GeminiPart
  <2>. QED
    BY <1>4, <2>1, NewCallPart
<1>. QED
  BY <1>1, <1>2, <1>3, <1>4

-----------------------------------------------------------------------------
(* Gemini: a chunk.                                                        *)

(* The equation of GeminiConsumes, one more part at a time.                *)
Consumes(f, s, parts, n) == f = [i \in 0..n |-> IF i = 0 THEN s ELSE GeminiPart(f[i - 1], i, parts[i])]

LEMMA ConsumesAt ==
    ASSUME NEW f, NEW s, NEW parts, NEW n \in Nat, Consumes(f, s, parts, n)
    PROVE  f[0] = s /\ \A i \in 1..n : f[i] = GeminiPart(f[i - 1], i, parts[i])
BY DEF Consumes

LEMMA ConsumesExists ==
    ASSUME NEW s, NEW parts, NEW n \in Nat PROVE \E f : Consumes(f, s, parts, n)
<1>. DEFINE G == {m \in Nat : \E f : Consumes(f, s, parts, m)}
<1>1. 0 \in G
  <2>. DEFINE g == [i \in 0..0 |-> s]
              h == [i \in 0..0 |-> IF i = 0 THEN s ELSE GeminiPart(g[i - 1], i, parts[i])]
  <2>1. g = h
    OBVIOUS
  <2>2. Consumes(g, s, parts, 0)
    <3>. HIDE DEF g
    <3>. QED
      BY <2>1 DEF Consumes
  <2>. QED
    BY <2>2
<1>2. ASSUME NEW m \in Nat, m \in G PROVE m + 1 \in G
  <2>1. PICK f : Consumes(f, s, parts, m)
    BY <1>2
  <2>. DEFINE g == [i \in 0..m + 1 |-> IF i = m + 1 THEN GeminiPart(f[m], i, parts[i]) ELSE f[i]]
              h == [i \in 0..m + 1 |-> IF i = 0 THEN s ELSE GeminiPart(g[i - 1], i, parts[i])]
  <2>2. ASSUME NEW i \in 0..m + 1 PROVE g[i] = h[i]
    <3>1. CASE i = m + 1
      <4>1. i # 0 /\ i - 1 \in 0..m + 1 /\ i - 1 # m + 1 /\ i - 1 = m
        BY <3>1
      <4>2. g[i - 1] = f[m]
        BY <4>1
      <4>. QED
        BY <3>1, <4>1, <4>2
    <3>2. CASE i \in 0..m
      <4>1. g[i] = f[i] /\ (i # 0 => i - 1 \in 0..m /\ g[i - 1] = f[i - 1])
        BY <3>2
      <4>2. f[i] = IF i = 0 THEN s ELSE GeminiPart(f[i - 1], i, parts[i])
        BY <2>1, <3>2 DEF Consumes
      <4>. QED
        BY <4>1, <4>2
    <3>. QED
      BY <3>1, <3>2
  <2>3. g = h
    <3>1. g = [i \in 0..m + 1 |-> g[i]] /\ h = [i \in 0..m + 1 |-> h[i]]
      OBVIOUS
    <3>. HIDE DEF g, h
    <3>. QED
      BY <2>2, <3>1
  <2>4. Consumes(g, s, parts, m + 1)
    <3>. HIDE DEF g
    <3>. QED
      BY <2>3 DEF Consumes
  <2>. QED
    BY <2>4
<1>. HIDE DEF G
<1>3. n \in G
  BY <1>1, <1>2, NatSetInduction
<1>. QED
  BY <1>3 DEF G

(* What a chunk leaves: the state after its last part, and, of the chunk   *)
(* that ends the answer, its finish reason.                                *)
Leaves(end) == tools' = end.tools /\ asm' = end.asm /\ Yield(end.out)

LEMMA ConsumesIs ==
    ASSUME NEW parts, Len(parts) \in Nat, NEW final \in BOOLEAN, GeminiConsumes(parts, final)
    PROVE  \E f : /\ Consumes(f, St(tools, asm, <<>>), parts, Len(parts))
                  /\ Leaves(Finished(f[Len(parts)], final))
<1>1. \E f : Consumes(f, St(tools, asm, <<>>), parts, Len(parts))
  BY ConsumesExists
<1>. QED
  BY <1>1 DEF GeminiConsumes, Consumes, Leaves, St

LEMMA FinishedForm ==
    ASSUME NEW tl, NEW am \in Assemblers, NEW out, NEW final \in BOOLEAN,
           GeminiFinish(answer.stop, DOMAIN tl # {}) \in AllNames
    PROVE  \E bm \in Assemblers :
             /\ Finished(St(tl, am, out), final) = St(tl, bm, out)
             /\ bm.replay = am.replay /\ bm.observed = am.observed
             /\ bm.terminal = (final \/ am.terminal)
             /\ final => bm.finish = GeminiFinish(answer.stop, DOMAIN tl # {})
<1>1. CASE ~final
  <2>1. Finished(St(tl, am, out), final) = St(tl, am, out)
    BY <1>1 DEF Finished
  <2>2. am.terminal \in BOOLEAN
    BY DEF Assemblers
  <2>. QED
    BY <1>1, <2>1, <2>2
<1>2. CASE final
  <2>1. PICK s : s = St(tl, am, out)
    OBVIOUS
  <2>2. PICK e : e = GeminiFinish(answer.stop, DOMAIN tl # {})
    OBVIOUS
  <2>3. s.asm = am /\ s.tools = tl
    BY <2>1 DEF St
  <2>4. PICK x : x = [am EXCEPT !.terminal = TRUE, !.finish = e]
    OBVIOUS
  <2>5. Finished(s, final) = [s EXCEPT !.asm = x]
    <3>1. Finished(s, final) = [s EXCEPT !.asm.terminal = TRUE, !.asm.finish = e]
      BY <1>2, <2>2, <2>3 DEF Finished
    <3>2. [s EXCEPT !.asm.terminal = TRUE, !.asm.finish = e]
            = [s EXCEPT !.asm = [am EXCEPT !.terminal = TRUE, !.finish = e]]
      BY <2>1 DEF St
    <3>. QED
      BY <2>4, <3>1, <3>2
  <2>6. [s EXCEPT !.asm = x] = St(tl, x, out)
    BY <2>1 DEF St
  <2>7. /\ x \in Assemblers /\ x.replay = am.replay /\ x.observed = am.observed
        /\ x.terminal /\ x.finish = e
    BY <2>2, <2>4 DEF Assemblers
  <2>8. x.terminal = (final \/ am.terminal)
    BY <1>2, <2>7 DEF Assemblers
  <2>. QED
    BY <2>1, <2>2, <2>5, <2>6, <2>7, <2>8
<1>. QED
  BY <1>1, <1>2

(* The state after the first m parts of a chunk.                           *)
ConsumedTo(a, p, s, parts, m, tl, end) ==
    /\ StateAt(a, p + m, s, turn, chunks)
    /\ s.asm.terminal = end
    /\ \A k \in DOMAIN s.tools : k \in DOMAIN tl \/ k[1] \in 1..m
    /\ \A j \in 1..m : parts[j].kind = "call" => Holds(s.tools, j, parts[j])

LEMMA ConsumesPart ==
    ASSUME NEW a \in Answers, a.provider = "google", NEW p \in Nat, NEW parts, NEW n \in Nat,
           p + n <= Len(GeminiParts(a)),
           \A j \in 1..n : SameData(parts[j], GeminiParts(a)[p + j]),
           NEW tl, \A j \in 1..n : parts[j].kind = "call" => <<j, parts[j].name>> \notin DOMAIN tl,
           NEW m \in Nat, m + 1 \in 1..n, NEW s, NEW end, ConsumedTo(a, p, s, parts, m, tl, end)
    PROVE  ConsumedTo(a, p, GeminiPart(s, m + 1, parts[m + 1]), parts, m + 1, tl, end)
<1>. DEFINE P == GeminiParts(a)
            place == m + 1
            u == GeminiPart(s, place, parts[place])
<1>1. /\ StateAt(a, p + m, s, turn, chunks) /\ s.asm.terminal = end
      /\ \A k \in DOMAIN s.tools : k \in DOMAIN tl \/ k[1] \in 1..m
      /\ \A j \in 1..m : parts[j].kind = "call" => Holds(s.tools, j, parts[j])
  BY DEF ConsumedTo
<1>2. PICK q : q = p + m
  OBVIOUS
<1>3. q \in Nat /\ q + 1 = p + place /\ q + 1 \in 1..Len(P) /\ place \in Nat
  <2>1. Len(P) \in Nat
    BY GeminiPartsFacts
  <2>. QED
    BY <1>2, <2>1
<1>4. PICK part : part = parts[place]
  OBVIOUS
<1>5. SameData(part, P[q + 1])
  BY <1>3, <1>4
<1>6. part.kind = "call" => <<place, part.name>> \notin DOMAIN s.tools
  <2>. SUFFICES ASSUME part.kind = "call", <<place, part.name>> \in DOMAIN s.tools PROVE FALSE
    OBVIOUS
  <2>1. PICK k : k = <<place, part.name>>
    OBVIOUS
  <2>2. k[1] = place /\ k \in DOMAIN s.tools
    BY <2>1
  <2>3. k \notin DOMAIN tl
    BY <1>4, <2>1
  <2>4. place \in 1..m
    BY <1>1, <2>2, <2>3
  <2>. QED
    BY <2>4
<1>7. StateAt(a, q, s, turn, chunks)
  BY <1>1, <1>2
<1>. HIDE DEF place
<1>8. StateAt(a, q + 1, GeminiPart(s, place, part), turn, chunks)
      /\ Grows(s, GeminiPart(s, place, part), place, part)
  BY <1>3, <1>5, <1>6, <1>7, PartStep
<1>9. StateAt(a, p + place, u, turn, chunks) /\ Grows(s, u, place, part)
  BY <1>3, <1>4, <1>8
<1>. HIDE DEF u
<1>10. place = m + 1
  BY DEF place
<1>11. u.asm.terminal = end
  BY <1>1, <1>9 DEF Grows
<1>12. \A k \in DOMAIN u.tools : k \in DOMAIN tl \/ k[1] \in 1..place
  <2>. SUFFICES ASSUME NEW k \in DOMAIN u.tools, k \notin DOMAIN tl PROVE k[1] \in 1..place
    OBVIOUS
  <2>1. k \in DOMAIN s.tools \/ k[1] = place
    BY <1>9 DEF Grows
  <2>2. k[1] \in 1..m \/ k[1] = place
    BY <1>1, <2>1
  <2>. QED
    BY <1>3, <1>10, <2>2
<1>13. ASSUME NEW j \in 1..place, parts[j].kind = "call" PROVE Holds(u.tools, j, parts[j])
  <2>1. CASE j = place
    BY <1>4, <1>9, <1>13, <2>1 DEF Grows
  <2>2. CASE j \in 1..m
    <3>1. Holds(s.tools, j, parts[j])
      BY <1>1, <1>13, <2>2
    <3>2. \A k \in DOMAIN s.tools : k \in DOMAIN u.tools /\ u.tools[k] = s.tools[k]
      BY <1>9 DEF Grows
    <3>. QED
      BY <3>1, <3>2 DEF Holds
  <2>. QED
    BY <1>3, <1>10, <2>1, <2>2
<1>. QED
  BY <1>9, <1>11, <1>12, <1>13 DEF ConsumedTo, place, u

LEMMA ConsumesParts ==
    ASSUME NEW a \in Answers, a.provider = "google", NEW p \in Nat, NEW parts, NEW n \in Nat,
           p + n <= Len(GeminiParts(a)),
           \A j \in 1..n : SameData(parts[j], GeminiParts(a)[p + j]),
           NEW tl, \A j \in 1..n : parts[j].kind = "call" => <<j, parts[j].name>> \notin DOMAIN tl,
           NEW am, GeminiAt(a, p, tl, am, turn, chunks),
           NEW f, Consumes(f, St(tl, am, <<>>), parts, n)
    PROVE  ConsumedTo(a, p, f[n], parts, n, tl, am.terminal)
<1>. DEFINE T == {m \in Nat : m <= n => ConsumedTo(a, p, f[m], parts, m, tl, am.terminal)}
<1>1. f[0] = St(tl, am, <<>>) /\ \A i \in 1..n : f[i] = GeminiPart(f[i - 1], i, parts[i])
  BY ConsumesAt
<1>2. 0 \in T
  <2>1. <<>> \in Seq(Chunks) /\ chunks \in Seq(Chunks)
    BY GeminiAtFacts
  <2>2. chunks \o <<>> = chunks /\ CollectedAll(turn, <<>>) = turn
    BY <2>1, ConcatEmptySeq, CollectedNothing
  <2>3. p + 0 = p
    OBVIOUS
  <2>4. StateAt(a, p + 0, f[0], turn, chunks)
    BY <1>1, <2>1, <2>2, <2>3 DEF StateAt, ReaderAt
  <2>5. f[0].tools = tl /\ f[0].asm = am
    BY <1>1, StFields
  <2>6. ConsumedTo(a, p, f[0], parts, 0, tl, am.terminal)
    BY <2>4, <2>5 DEF ConsumedTo
  <2>. QED
    BY <2>6
<1>3. ASSUME NEW m \in Nat, m \in T PROVE m + 1 \in T
  <2>. SUFFICES ASSUME m + 1 <= n
                PROVE  ConsumedTo(a, p, f[m + 1], parts, m + 1, tl, am.terminal)
    OBVIOUS
  <2>1. m + 1 \in 1..n /\ m + 1 - 1 = m /\ m <= n
    OBVIOUS
  <2>2. ConsumedTo(a, p, f[m], parts, m, tl, am.terminal)
    BY <1>3, <2>1
  <2>3. f[m + 1] = GeminiPart(f[m], m + 1, parts[m + 1])
    BY <1>1, <2>1
  <2>4. ConsumedTo(a, p, GeminiPart(f[m], m + 1, parts[m + 1]), parts, m + 1, tl, am.terminal)
    BY <2>1, <2>2, ConsumesPart
  <2>. QED
    BY <2>3, <2>4
<1>. HIDE DEF T
<1>4. n \in T
  BY <1>2, <1>3, NatSetInduction
<1>. QED
  BY <1>4 DEF T

LEMMA GeminiFinishIs ==
    ASSUME NEW stop, NEW called
    PROVE  /\ GeminiFinish(stop, called) \in AllNames
           /\ GeminiFinish(stop, called) = "content_filter" <=> stop = "SAFETY"
BY DEF GeminiFinish, AllNames

(* What a chunk leaves, when the state after its parts is known.           *)
LEMMA LeavesReading ==
    ASSUME NEW p, NEW s, StateAt(answer, p, s, turn, chunks), NEW final \in BOOLEAN,
           Leaves(Finished(s, final))
    PROVE  /\ status' = "reading" /\ GeminiAt(answer, p, s.tools, asm', turn', chunks')
           /\ tools' = s.tools /\ asm'.terminal = (final \/ s.asm.terminal)
           /\ final => asm'.finish = GeminiFinish(answer.stop, DOMAIN tools' # {})
           /\ asm' \in Assemblers
<1>1. PICK tl, am, out : s = St(tl, am, out) /\ ReaderAt(answer, p, tl, am, out, turn, chunks)
  BY DEF StateAt
<1>2. /\ GeminiAt(answer, p, tl, am, CollectedAll(turn, out), chunks \o out) /\ am \in Assemblers
      /\ CollectedAll(turn, out).valid
  BY <1>1, GeminiAtFacts DEF ReaderAt
<1>3. GeminiFinish(answer.stop, DOMAIN tl # {}) \in AllNames
  BY GeminiFinishIs
<1>4. PICK bm \in Assemblers :
        /\ Finished(St(tl, am, out), final) = St(tl, bm, out)
        /\ bm.replay = am.replay /\ bm.observed = am.observed
        /\ bm.terminal = (final \/ am.terminal)
        /\ final => bm.finish = GeminiFinish(answer.stop, DOMAIN tl # {})
  BY <1>2, <1>3, FinishedForm
<1>5. Leaves(St(tl, bm, out))
  BY <1>1, <1>4
<1>6. tools' = tl /\ asm' = bm /\ Yield(out)
  BY <1>5, StFields DEF Leaves
<1>7. chunks' = chunks \o out /\ turn' = CollectedAll(turn, out) /\ status' = "reading"
  BY <1>2, <1>6 DEF Yield
<1>8. GeminiAt(answer, p, tl, bm, CollectedAll(turn, out), chunks \o out)
  <2>1. PICK tn : tn = CollectedAll(turn, out)
    OBVIOUS
  <2>2. PICK ch : ch = chunks \o out
    OBVIOUS
  <2>. QED
    BY <1>2, <1>4, <2>1, <2>2, GeminiQuiet
<1>9. s.tools = tl /\ s.asm = am
  BY <1>1, StFields
<1>. QED
  BY <1>4, <1>6, <1>7, <1>8, <1>9

(* A part of a sequence.                                                   *)
LEMMA SliceIs ==
    ASSUME NEW S, NEW s \in Seq(S), NEW m \in Nat, NEW n \in Nat, m <= n, n <= Len(s)
    PROVE  /\ SubSeq(s, m + 1, n) \in Seq(S) /\ Len(SubSeq(s, m + 1, n)) = n - m
           /\ \A i \in 1..n - m : SubSeq(s, m + 1, n)[i] = s[m + i]
<1>1. Len(s) \in Nat /\ \A i \in 1..Len(s) : s[i] \in S
  OBVIOUS
<1>2. PICK k \in Nat : k = m + 1
  OBVIOUS
<1>3. \A i \in k..n : s[i] \in S
  BY <1>1, <1>2
<1>4. k \in Int /\ n \in Int
  BY <1>2
<1>5. /\ SubSeq(s, k, n) \in Seq(S)
      /\ Len(SubSeq(s, k, n)) = (IF k <= n THEN n - k + 1 ELSE 0)
      /\ \A i \in 1..n - k + 1 : SubSeq(s, k, n)[i] = s[k + i - 1]
  BY <1>3, <1>4, SubSeqProperties
<1>6. n - k + 1 = n - m /\ (~(k <= n) => n - m = 0)
  BY <1>2
<1>7. \A i \in 1..n - m : k + i - 1 = m + i
  BY <1>2
<1>8. Len(SubSeq(s, k, n)) = n - m
  BY <1>5, <1>6
<1>9. \A i \in 1..n - m : SubSeq(s, k, n)[i] = s[m + i]
  BY <1>5, <1>6, <1>7
<1>. QED
  BY <1>2, <1>5, <1>8, <1>9

SliceLeft(s, m, n, r) == SubSeq(r, n + 1, Len(r)) = SubSeq(s, (m + n) + 1, Len(s))

LEMMA SliceAgain ==
    ASSUME NEW S, NEW s \in Seq(S), NEW m \in Nat, NEW n \in Nat, m + n <= Len(s),
           NEW r, r = SubSeq(s, m + 1, Len(s))
    PROVE  SliceLeft(s, m, n, r)
<1>. DEFINE x == SubSeq(r, n + 1, Len(r))
            y == SubSeq(s, (m + n) + 1, Len(s))
            k == Len(s) - (m + n)
<1>1. PICK l \in Nat : l = Len(s)
  OBVIOUS
<1>2. m <= l /\ m + n <= l /\ m + n \in Nat /\ k \in Nat /\ k = l - (m + n)
  BY <1>1
<1>. HIDE DEF k
<1>3. r \in Seq(S) /\ Len(r) = l - m /\ \A i \in 1..l - m : r[i] = s[m + i]
  BY <1>1, <1>2, SliceIs
<1>4. PICK h \in Nat : h = l - m
  <2>1. l - m \in Nat
    <3>1. l \in Nat /\ m <= l
      BY <1>1, <1>2
    <3>. QED
      BY <3>1
  <2>. QED
    BY <2>1
<1>5. n <= h /\ h <= Len(r) /\ h - n = k
  BY <1>2, <1>3, <1>4
<1>6. x \in Seq(S) /\ Len(x) = k /\ \A i \in 1..k : x[i] = r[n + i]
  <2>1. /\ SubSeq(r, n + 1, h) \in Seq(S) /\ Len(SubSeq(r, n + 1, h)) = h - n
        /\ \A i \in 1..h - n : SubSeq(r, n + 1, h)[i] = r[n + i]
    BY <1>3, <1>5, SliceIs
  <2>. QED
    BY <1>3, <1>4, <1>5, <2>1
<1>7. y \in Seq(S) /\ Len(y) = k /\ \A i \in 1..k : y[i] = s[(m + n) + i]
  BY <1>1, <1>2, SliceIs
<1>8. ASSUME NEW i \in 1..k PROVE r[n + i] = s[(m + n) + i]
  <2>1. n + i \in 1..l - m /\ m + (n + i) = (m + n) + i
    BY <1>2, <1>4, <1>5
  <2>2. r[n + i] = s[m + (n + i)]
    BY <1>3, <2>1
  <2>. QED
    BY <2>1, <2>2
<1>. HIDE DEF x, y
<1>9. x = y
  BY <1>2, <1>6, <1>7, <1>8, SeqEqual
<1>. QED
  BY <1>9 DEF SliceLeft, x, y

(* The parts a chunk takes of those that are left, and the parts after it. *)
Signed(next, n, signs) == [j \in 1..n |-> [next[j] EXCEPT !.signed = @ /\ signs]]
Taken(a, p, rest, n, next, sent) ==
    /\ Len(rest) = Len(GeminiParts(a)) - p
    /\ next \in Seq(Sents) /\ Len(next) = n /\ DOMAIN next = 1..n /\ Len(sent) = n /\ p + n \in 0..Len(GeminiParts(a))
    /\ SubSeq(rest, n + 1, Len(rest)) = SubSeq(GeminiParts(a), (p + n) + 1, Len(GeminiParts(a)))
    /\ \A j \in 1..n : /\ next[j] = GeminiParts(a)[p + j] /\ next[j] \in Sents
                       /\ SameData(sent[j], next[j])

LEMMA PartsTaken ==
    ASSUME NEW a \in Answers, a.provider = "google", NEW p \in 0..Len(GeminiParts(a)),
           NEW rest, rest = SubSeq(GeminiParts(a), p + 1, Len(GeminiParts(a))),
           NEW n \in 0..Len(rest), NEW signs \in BOOLEAN, NEW next, next = SubSeq(rest, 1, n),
           NEW sent, sent = Signed(next, n, signs)
    PROVE  Taken(a, p, rest, n, next, sent)
<1>. DEFINE P == GeminiParts(a)
            L == Len(P)
<1>1. P \in Seq(Sents) /\ L \in Nat /\ \A i \in 1..L : P[i] \in Sents
  BY GeminiPartsFacts
<1>. HIDE DEF P
<1>. HIDE DEF L
<1>2. p \in Nat /\ p <= L /\ rest = SubSeq(P, p + 1, L)
  BY <1>1 DEF P, L
<1>3. /\ rest \in Seq(Sents) /\ Len(rest) = L - p
      /\ \A i \in 1..L - p : rest[i] = P[p + i]
  <2>1. L <= Len(P)
    BY <1>1 DEF L, P
  <2>2. /\ SubSeq(P, p + 1, L) \in Seq(Sents) /\ Len(SubSeq(P, p + 1, L)) = L - p
        /\ \A i \in 1..L - p : SubSeq(P, p + 1, L)[i] = P[p + i]
    BY <1>1, <1>2, <2>1, SliceIs
  <2>. QED
    BY <1>2, <2>2
<1>4. n \in Nat /\ n <= L - p /\ p + n \in 0..L
  BY <1>1, <1>2, <1>3
<1>5. /\ next \in Seq(Sents) /\ Len(next) = n /\ \A j \in 1..n : next[j] = rest[j]
  <2>1. 0 \in Nat /\ 0 <= n /\ n <= Len(rest) /\ n - 0 = n /\ 0 + 1 = 1
    BY <1>3, <1>4
  <2>2. /\ SubSeq(rest, 0 + 1, n) \in Seq(Sents) /\ Len(SubSeq(rest, 0 + 1, n)) = n - 0
        /\ \A i \in 1..n - 0 : SubSeq(rest, 0 + 1, n)[i] = rest[0 + i]
    BY <1>3, <1>4, <2>1, SliceIs
  <2>3. \A i \in 1..n : 0 + i = i
    OBVIOUS
  <2>. QED
    BY <2>1, <2>2, <2>3
<1>6. ASSUME NEW j \in 1..n PROVE next[j] = P[p + j] /\ next[j] \in Sents
  <2>1. L - p \in Nat
    BY <1>1, <1>2
  <2>2. j \in 1..L - p
    BY <1>4, <2>1
  <2>3. next[j] = rest[j] /\ rest[j] = P[p + j]
    BY <1>3, <1>5, <2>2
  <2>4. next[j] \in Sents
    BY <1>5
  <2>. QED
    BY <2>3, <2>4
<1>7. Len(sent) = n
  BY <1>4 DEF Signed
<1>8. ASSUME NEW j \in 1..n PROVE SameData(sent[j], next[j])
  <2>1. PICK q : q = next[j]
    OBVIOUS
  <2>2. q \in Sents
    BY <1>6, <2>1
  <2>3. sent[j] = [q EXCEPT !.signed = @ /\ signs]
    BY <2>1 DEF Signed
  <2>4. q.signed \in BOOLEAN
    BY <2>2 DEF Sents
  <2>5. PICK b \in BOOLEAN : b = (q.signed /\ signs)
    BY <2>4
  <2>6. sent[j] = [q EXCEPT !.signed = b]
    BY <2>3, <2>5
  <2>7. SameData(sent[j], q)
    BY <2>2, <2>6 DEF SameData, Sents
  <2>. QED
    BY <2>1, <2>7
<1>9. SubSeq(rest, n + 1, Len(rest)) = SubSeq(P, (p + n) + 1, L)
  <2>1. p + n <= Len(P) /\ rest = SubSeq(P, p + 1, Len(P))
    BY <1>2, <1>4 DEF L, P
  <2>2. SliceLeft(P, p, n, rest)
    BY <1>1, <1>2, <1>4, <2>1, SliceAgain
  <2>. QED
    BY <2>2 DEF SliceLeft, L, P
<1>10. DOMAIN next = 1..n
  BY <1>5
<1>11. /\ Len(rest) = L - p
       /\ next \in Seq(Sents) /\ Len(next) = n /\ DOMAIN next = 1..n /\ Len(sent) = n /\ p + n \in 0..L
  BY <1>3, <1>4, <1>5, <1>7, <1>10
<1>. QED
  BY <1>6, <1>8, <1>9, <1>11 DEF P, L, Taken

LEMMA GeminiReadingFacts ==
    ASSUME Reading, Provider = "google"
    PROVE  /\ answer \in Answers /\ answer.provider = "google" /\ asm \in Assemblers
           /\ \E p \in 0..Len(GeminiParts(answer)) :
                /\ todo = <<SubSeq(GeminiParts(answer), p + 1, Len(GeminiParts(answer)))>>
                /\ GeminiAt(answer, p, tools, asm, turn, chunks)
           /\ phase \in {"parts", "ended"} /\ (asm.terminal <=> phase = "ended")
           /\ phase = "ended" =>
                todo = <<<<>>>> /\ asm.finish = GeminiFinish(answer.stop, DOMAIN tools # {})
           /\ Repeatable(tools, last)
           /\ Len(GeminiParts(answer)) \in Nat
<1>1. answer \in Answers /\ asm \in Assemblers /\ answer.provider = "google"
      /\ GeminiReading(answer, todo, phase, last, tools, asm, turn, chunks)
  BY DEF Reading, Provider
<1>2. Len(GeminiParts(answer)) \in Nat
  BY <1>1, GeminiPartsFacts
<1>. QED
  BY <1>1, <1>2 DEF GeminiReading

(* The state after a chunk of some of the parts.                           *)
LEMMA GeminiStays ==
    ASSUME answer \in Answers, Provider = "google", answer' = answer, NEW p,
           p \in 0..Len(GeminiParts(answer)),
           todo' = <<SubSeq(GeminiParts(answer), p + 1, Len(GeminiParts(answer)))>>,
           GeminiAt(answer, p, tools', asm', turn', chunks'), asm' \in Assemblers,
           phase' \in {"parts", "ended"}, asm'.terminal <=> phase' = "ended",
           phase' = "ended" =>
             todo' = <<<<>>>> /\ asm'.finish = GeminiFinish(answer.stop, DOMAIN tools' # {}),
           Repeatable(tools', last')
    PROVE  Reading'
<1>1. GeminiReading(answer, todo', phase', last', tools', asm', turn', chunks')
  BY DEF GeminiReading
<1>2. (answer \in Answers)' /\ answer'.provider = "google"
  BY DEF Provider
<1>. QED
  BY <1>1, <1>2 DEF Reading, Provider

LEMMA GeminiChunkStep ==
    ASSUME Reading, GeminiChunk
    PROVE  Continues
<1>. DEFINE P == GeminiParts(answer)
<1>1. Provider = "google" /\ phase = "parts" /\ answer' = answer
  BY DEF GeminiChunk
<1>2. /\ answer \in Answers /\ answer.provider = "google" /\ asm \in Assemblers
      /\ Len(P) \in Nat /\ (asm.terminal <=> phase = "ended")
  BY <1>1, GeminiReadingFacts
<1>3. PICK p \in 0..Len(P) : todo = <<SubSeq(P, p + 1, Len(P))>>
                             /\ GeminiAt(answer, p, tools, asm, turn, chunks)
  BY <1>1, GeminiReadingFacts
<1>4. PICK rest : rest = SubSeq(P, p + 1, Len(P))
  OBVIOUS
<1>5. todo[1] = rest
  BY <1>3, <1>4
<1>6. PICK n \in 0..Len(rest), final \in BOOLEAN, signs \in BOOLEAN :
        LET next == SubSeq(rest, 1, n)
            sent == [j \in 1..n |-> [next[j] EXCEPT !.signed = @ /\ signs]]
        IN /\ n > 0 \/ final
           /\ final => n = Len(rest)
           /\ \A j \in Calls(next) : <<j, next[j].name>> \notin DOMAIN tools
           /\ todo' = <<SubSeq(rest, n + 1, Len(rest))>>
           /\ phase' = IF final THEN "ended" ELSE phase
           /\ last' = IF Calls(next) = DOMAIN next THEN next ELSE <<>>
           /\ GeminiConsumes(sent, final)
  BY <1>5, ZenonT(40) DEF GeminiChunk
<1>7. PICK next : next = SubSeq(rest, 1, n)
  OBVIOUS
<1>8. PICK sent : sent = Signed(next, n, signs)
  OBVIOUS
<1>9. /\ final => n = Len(rest)
      /\ \A j \in Calls(next) : <<j, next[j].name>> \notin DOMAIN tools
      /\ todo' = <<SubSeq(rest, n + 1, Len(rest))>>
      /\ phase' = IF final THEN "ended" ELSE phase
      /\ last' = IF Calls(next) = DOMAIN next THEN next ELSE <<>>
      /\ GeminiConsumes(sent, final)
  BY <1>6, <1>7, <1>8 DEF Signed
<1>10. /\ Len(rest) = Len(P) - p
       /\ next \in Seq(Sents) /\ Len(next) = n /\ DOMAIN next = 1..n /\ Len(sent) = n /\ p + n \in 0..Len(P)
       /\ SubSeq(rest, n + 1, Len(rest)) = SubSeq(P, (p + n) + 1, Len(P))
       /\ \A j \in 1..n : /\ next[j] = P[p + j] /\ next[j] \in Sents
                          /\ SameData(sent[j], next[j])
  <2>1. n \in 0..Len(rest) /\ signs \in BOOLEAN /\ p \in 0..Len(GeminiParts(answer))
    BY <1>3, <1>6
  <2>2. Taken(answer, p, rest, n, next, sent)
    BY <1>2, <1>4, <1>7, <1>8, <2>1, PartsTaken
  <2>. QED
    BY <2>2 DEF Taken
<1>. HIDE DEF P
<1>11. p \in Nat /\ Len(rest) \in Nat /\ n \in Nat /\ p + n <= Len(P)
  BY <1>2, <1>10
<1>12. \A j \in 1..n : SameData(sent[j], P[p + j])
  BY <1>10
<1>13. \A j \in 1..n : sent[j].kind = "call" => <<j, sent[j].name>> \notin DOMAIN tools
  BY <1>9, <1>10 DEF SameData, Calls
<1>14. PICK f : /\ Consumes(f, St(tools, asm, <<>>), sent, n)
                /\ Leaves(Finished(f[n], final))
  <2>1. \E f : /\ Consumes(f, St(tools, asm, <<>>), sent, Len(sent))
               /\ Leaves(Finished(f[Len(sent)], final))
    BY <1>9, <1>10, <1>11, ConsumesIs
  <2>. QED
    BY <1>10, <2>1
<1>15. ConsumedTo(answer, p, f[n], sent, n, tools, asm.terminal)
  BY <1>2, <1>3, <1>11, <1>12, <1>13, <1>14, ConsumesParts DEF P
<1>16. PICK s : s = f[n]
  OBVIOUS
<1>17. PICK q : q = p + n
  OBVIOUS
<1>18. /\ StateAt(answer, q, s, turn, chunks) /\ s.asm.terminal = asm.terminal
       /\ \A j \in 1..n : sent[j].kind = "call" => Holds(s.tools, j, sent[j])
  BY <1>15, <1>16, <1>17 DEF ConsumedTo
<1>19. /\ status' = "reading" /\ GeminiAt(answer, q, s.tools, asm', turn', chunks')
       /\ tools' = s.tools /\ asm'.terminal = (final \/ s.asm.terminal)
       /\ final => asm'.finish = GeminiFinish(answer.stop, DOMAIN tools' # {})
       /\ asm' \in Assemblers
  BY <1>14, <1>16, <1>18, LeavesReading
<1>20. Repeatable(tools', last')
  <2>1. CASE Calls(next) = DOMAIN next
    <3>1. last' = next
      BY <1>9, <2>1
    <3>2. ASSUME NEW x \in 1..Len(next)
          PROVE  /\ next[x].kind = "call"
                 /\ <<x, next[x].name>> \in DOMAIN tools'
                 /\ tools'[<<x, next[x].name>>].name = next[x].name
                 /\ tools'[<<x, next[x].name>>].args = next[x].json
      <4>1. x \in 1..n /\ next[x].kind = "call" /\ next[x] \in Sents
        BY <1>10, <2>1 DEF Calls
      <4>2. sent[x].kind = "call" /\ sent[x].name = next[x].name /\ sent[x].json = next[x].json
        BY <1>10, <4>1 DEF SameData
      <4>3. Holds(tools', x, sent[x])
        BY <1>18, <1>19, <4>1, <4>2
      <4>. QED
        BY <4>1, <4>2, <4>3 DEF Holds
    <3>. QED
      BY <1>10, <3>1, <3>2 DEF Repeatable
  <2>2. CASE Calls(next) # DOMAIN next
    <3>1. last' = <<>> /\ <<>> \in Seq(Sents)
      BY <1>9, <2>2
    <3>. QED
      BY <3>1 DEF Repeatable
  <2>. QED
    BY <2>1, <2>2
<1>21. phase' \in {"parts", "ended"} /\ (phase' = "ended" <=> final)
  BY <1>1, <1>9
<1>22. asm'.terminal <=> phase' = "ended"
  BY <1>1, <1>2, <1>18, <1>19, <1>21
<1>23. phase' = "ended" => todo' = <<<<>>>>
  <2>. SUFFICES ASSUME phase' = "ended" PROVE SubSeq(rest, n + 1, Len(rest)) = <<>>
    BY <1>9
  <2>1. n = Len(rest)
    BY <1>9, <1>21
  <2>2. n + 1 \in Int /\ Len(rest) \in Int /\ Len(rest) < n + 1
    BY <1>11, <2>1
  <2>. QED
    BY <2>2, SubSeqEmpty
<1>24. todo' = <<SubSeq(P, q + 1, Len(P))>> /\ q \in 0..Len(P)
  BY <1>9, <1>10, <1>17
<1>25. Reading'
  BY <1>1, <1>2, <1>19, <1>20, <1>21, <1>22, <1>23, <1>24, GeminiStays DEF P
<1>. QED
  BY <1>19, <1>25 DEF Continues

(* The calls of a chunk once more.                                         *)
LEMMA RepeatsParts ==
    ASSUME NEW a, NEW p, NEW tl, NEW am, GeminiAt(a, p, tl, am, turn, chunks), p \in Nat,
           NEW parts, NEW n \in Nat, n = Len(parts), Repeatable(tl, parts),
           NEW f, Consumes(f, St(tl, am, <<>>), parts, n)
    PROVE  /\ StateAt(a, p, f[n], turn, chunks)
           /\ f[n].tools = tl /\ f[n].asm.terminal = am.terminal
<1>. DEFINE Same(s) == /\ StateAt(a, p, s, turn, chunks)
                       /\ s.tools = tl /\ s.asm.terminal = am.terminal
            T == {m \in Nat : m <= n => Same(f[m])}
<1>1. f[0] = St(tl, am, <<>>) /\ \A i \in 1..n : f[i] = GeminiPart(f[i - 1], i, parts[i])
  BY ConsumesAt
<1>2. 0 \in T
  <2>1. <<>> \in Seq(Chunks) /\ chunks \in Seq(Chunks)
    BY GeminiAtFacts
  <2>2. chunks \o <<>> = chunks /\ CollectedAll(turn, <<>>) = turn
    BY <2>1, ConcatEmptySeq, CollectedNothing
  <2>3. StateAt(a, p, f[0], turn, chunks)
    BY <1>1, <2>1, <2>2 DEF StateAt, ReaderAt
  <2>4. f[0].tools = tl /\ f[0].asm = am
    BY <1>1, StFields
  <2>. QED
    BY <2>3, <2>4
<1>3. ASSUME NEW m \in Nat, m \in T PROVE m + 1 \in T
  <2>. SUFFICES ASSUME m + 1 <= n PROVE Same(f[m + 1])
    OBVIOUS
  <2>1. m + 1 \in 1..n /\ m + 1 - 1 = m /\ m <= n
    OBVIOUS
  <2>2. Same(f[m])
    BY <1>3, <2>1
  <2>3. f[m + 1] = GeminiPart(f[m], m + 1, parts[m + 1])
    BY <1>1, <2>1
  <2>4. PICK part : part = parts[m + 1]
    OBVIOUS
  <2>5. part \in Sents /\ part.kind = "call" /\ Holds(f[m].tools, m + 1, part)
    BY <2>1, <2>2, <2>4 DEF Repeatable, Holds
  <2>6. /\ StateAt(a, p, GeminiCall(f[m], m + 1, part), turn, chunks)
        /\ GeminiCall(f[m], m + 1, part).tools = tl
        /\ GeminiCall(f[m], m + 1, part).asm.terminal = am.terminal
    BY <2>2, <2>5, CallAgain
  <2>7. GeminiPart(f[m], m + 1, part) = GeminiCall(f[m], m + 1, part)
    BY <2>5 DEF GeminiPart
  <2>. QED
    BY <2>3, <2>4, <2>6, <2>7
<1>. HIDE DEF T
<1>4. n \in T
  BY <1>2, <1>3, NatSetInduction
<1>. QED
  BY <1>4 DEF T

LEMMA GeminiRepeatsStep ==
    ASSUME Reading, GeminiRepeats
    PROVE  Continues
<1>. DEFINE P == GeminiParts(answer)
<1>1. /\ Provider = "google" /\ phase = "parts" /\ answer' = answer /\ todo' = todo /\ phase' = phase
      /\ last' = <<>> /\ GeminiConsumes(last, FALSE)
  BY DEF GeminiRepeats
<1>2. /\ answer \in Answers /\ answer.provider = "google" /\ asm \in Assemblers
      /\ Len(P) \in Nat /\ (asm.terminal <=> phase = "ended") /\ Repeatable(tools, last)
  BY <1>1, GeminiReadingFacts
<1>3. PICK p \in 0..Len(P) : todo = <<SubSeq(P, p + 1, Len(P))>>
                             /\ GeminiAt(answer, p, tools, asm, turn, chunks)
  BY <1>1, GeminiReadingFacts
<1>4. p \in Nat
  BY <1>2, <1>3
<1>5. Len(last) \in Nat
  BY <1>2 DEF Repeatable
<1>6. PICK n : n = Len(last)
  OBVIOUS
<1>7. PICK f : /\ Consumes(f, St(tools, asm, <<>>), last, n)
               /\ Leaves(Finished(f[n], FALSE))
  <2>1. \E f : /\ Consumes(f, St(tools, asm, <<>>), last, Len(last))
               /\ Leaves(Finished(f[Len(last)], FALSE))
    BY <1>1, <1>5, ConsumesIs
  <2>. QED
    BY <1>6, <2>1
<1>. HIDE DEF P
<1>8. PICK s : s = f[n]
  OBVIOUS
<1>9. StateAt(answer, p, s, turn, chunks) /\ s.tools = tools /\ s.asm.terminal = asm.terminal
  BY <1>2, <1>3, <1>4, <1>5, <1>6, <1>7, <1>8, RepeatsParts
<1>10. /\ status' = "reading" /\ GeminiAt(answer, p, s.tools, asm', turn', chunks')
       /\ tools' = s.tools /\ asm'.terminal = (FALSE \/ s.asm.terminal)
       /\ asm' \in Assemblers
  BY <1>7, <1>8, <1>9, LeavesReading
<1>11. Repeatable(tools', last')
  BY <1>1 DEF Repeatable
<1>12. phase' = "parts" /\ (asm'.terminal <=> phase' = "ended")
  BY <1>1, <1>2, <1>9, <1>10
<1>13. /\ todo' = <<SubSeq(P, p + 1, Len(P))>> /\ p \in 0..Len(P)
       /\ GeminiAt(answer, p, tools', asm', turn', chunks')
  BY <1>1, <1>3, <1>9, <1>10
<1>14. Reading'
  BY <1>1, <1>2, <1>10, <1>11, <1>12, <1>13, GeminiStays DEF P
<1>. QED
  BY <1>10, <1>14 DEF Continues

LEMMA GeminiInit ==
    ASSUME Init, Provider = "google"
    PROVE  Reading
<1>. DEFINE P == GeminiParts(answer)
<1>1. /\ answer \in Answers /\ answer.provider = "google" /\ todo = <<P>> /\ phase = "parts"
      /\ last = <<>> /\ tools = <<>> /\ chunks = <<>>
      /\ asm = [started |-> FALSE, observed |-> FALSE, terminal |-> FALSE, reasoning |-> FALSE,
                finish |-> "stop", replay |-> <<>>]
  BY DEF Init, Provider
<1>2. Common(turn, chunks) /\ asm \in Assemblers /\ turn.calls = <<>> /\ turn.text = <<>>
  BY CommonStart
<1>3. P \in Seq(Sents) /\ Len(P) \in Nat
  BY <1>1, GeminiPartsFacts
<1>. HIDE DEF P
<1>4. SubSeq(P, 0 + 1, Len(P)) = P /\ 0 \in 0..Len(P)
  BY <1>3
<1>5. Ordered(turn.text, PieceBefore) /\ Elements(turn.text) = SentTexts(answer, 0)
  BY <1>2 DEF Ordered, Elements, SentTexts
<1>6. GeminiCallsSent(answer, 0, turn)
  BY <1>2 DEF GeminiCallsSent
<1>7. Kept(tools, asm.replay, turn)
  <2>1. DOMAIN tools = {} /\ Len(turn.calls) = 0 /\ tools = [k \in DOMAIN tools |-> tools[k]]
    BY <1>1, <1>2
  <2>2. IsFiniteSet({}) /\ Cardinality({}) = 0
    BY FS_EmptySet
  <2>. QED
    BY <2>1, <2>2 DEF Kept
<1>8. GeminiAt(answer, 0, tools, asm, turn, chunks)
  <2>1. Len(chunks) = 0 /\ \A x : x \notin 1..0
    BY <1>1
  <2>. QED
    BY <1>2, <1>4, <1>5, <1>6, <1>7, <2>1 DEF GeminiAt, P
<1>9. Repeatable(tools, last)
  BY <1>1 DEF Repeatable
<1>10. ~asm.terminal /\ phase # "ended"
  BY <1>1
<1>11. GeminiReading(answer, todo, phase, last, tools, asm, turn, chunks)
  BY <1>1, <1>4, <1>8, <1>9, <1>10 DEF GeminiReading, P
<1>. QED
  BY <1>1, <1>2, <1>11 DEF Reading, Provider

-----------------------------------------------------------------------------
(* Gemini: the end of the stream.                                          *)

LEMMA GeminiCallsMatch ==
    ASSUME NEW a \in Answers, a.provider = "google", NEW tn \in Turns,
           GeminiCallsSent(a, Len(GeminiParts(a)), tn)
    PROVE  /\ Named(tn.calls) = CallsOf(a)
           /\ \A k \in DOMAIN tn.calls : tn.calls[k].args # Missing
           /\ tn.calls # <<>> <=> HasCall(a)
<1>. DEFINE P == GeminiParts(a)
            S == CallParts(a)
            n == Len(tn.calls)
            q == [k \in 1..n |-> tn.calls[k].args[1][1]]
<1>1. n \in Nat /\ DOMAIN tn.calls = 1..n /\ tn.calls \in Seq(Called)
  BY CallTypes
<1>2. \A i \in S : i \in PartsIn(a) /\ i \in Nat
  BY DEF CallParts, PartsIn
<1>3. ASSUME NEW k \in 1..n
      PROVE  /\ q[k] \in S
             /\ tn.calls[k].name = a.output[q[k]].name /\ tn.calls[k].args = Body(a, q[k])
  <2>1. PICK x \in 1..Len(P) : /\ P[x].kind = "call" /\ P[x].name = tn.calls[k].name
                               /\ P[x].json = tn.calls[k].args
    BY DEF GeminiCallsSent, CallSent
  <2>2. PICK i \in S : P[x].name = a.output[i].name /\ P[x].json = Body(a, i) /\ P[x].json[1] = <<i, 1>>
    BY <2>1, SentFacts
  <2>3. <<i, 1>>[1] = i
    OBVIOUS
  <2>4. q[k] = i
    BY <2>1, <2>2, <2>3
  <2>. QED
    BY <2>1, <2>2, <2>4
<1>4. q \in Seq(Nat) /\ Len(q) = n
  <2>1. \A k \in 1..n : q[k] \in Nat
    BY <1>2, <1>3
  <2>2. q \in [1..n -> Nat]
    BY <2>1
  <2>. QED
    BY <1>1, <2>2
<1>5. Ordered(q, Less)
  <2>1. ASSUME NEW i \in 1..n, NEW j \in 1..n, i < j PROVE q[i] \in Nat /\ q[j] \in Nat /\ q[i] < q[j]
    BY <1>2, <1>3, <2>1 DEF GeminiCallsSent
  <2>. QED
    BY <1>4, <2>1, LessThan DEF Ordered
<1>6. Elements(q) = S
  <2>1. Elements(q) \subseteq S
    BY <1>3, <1>4 DEF Elements
  <2>2. ASSUME NEW i \in S PROVE i \in Elements(q)
    <3>1. PICK x \in 1..Len(P) : P[x].kind = "call" /\ P[x].json = Body(a, i)
      BY GeminiPartsFacts
    <3>2. PICK k \in 1..n : tn.calls[k].args = P[x].json
      BY <3>1 DEF GeminiCallsSent
    <3>3. PICK j \in S : P[x].json[1] = <<j, 1>>
      BY <3>1, SentFacts
    <3>4. Body(a, i)[1] = <<i, 1>>
      <4>1. a.output[i].kind = "call" => Size(a, i) # 0
        BY <1>2, PartFacts
      <4>2. Size(a, i) \in Nat
        BY <1>2, PartFacts
      <4>3. 1 \in 1..a.output[i].size
        BY <4>1, <4>2 DEF CallParts, Size
      <4>. QED
        BY <4>3 DEF Body
    <3>5. <<i, 1>>[1] = i
      OBVIOUS
    <3>6. q[k] = i
      BY <3>1, <3>2, <3>4, <3>5
    <3>. QED
      BY <1>4, <3>6 DEF Elements
  <2>. QED
    BY <2>1, <2>2
<1>. HIDE DEF q
<1>. QED
  BY <1>3, <1>4, <1>5, <1>6, CallsAre

LEMMA KeptMatches ==
    ASSUME NEW tl, NEW replay \in Seq(Sents), NEW tn \in Turns, Kept(tl, replay, tn)
    PROVE  StateMatchesMessage(tn.calls, replay, tl) /\ (DOMAIN tl # {} <=> tn.calls # <<>>)
<1>1. Len(tn.calls) \in Nat /\ DOMAIN tn.calls = 1..Len(tn.calls) /\ tn.calls \in Seq(Called)
      /\ DOMAIN replay = 1..Len(replay)
  BY CallTypes
<1>2. /\ IsFiniteSet(DOMAIN tl) /\ Len(tn.calls) = Cardinality(DOMAIN tl)
      /\ \A n \in 1..Len(tn.calls) : KeptCall(tn.calls[n], tl, replay)
      /\ \A m, n \in 1..Len(tn.calls) :
           m < n => tl[tn.calls[m].id].part < tl[tn.calls[n].id].part
  BY DEF Kept
<1>3. ASSUME NEW k \in DOMAIN tn.calls, NEW j \in 1..k - 1
      PROVE  tl[tn.calls[j].id].part < tl[tn.calls[k].id].part
  <2>1. k \in 1..Len(tn.calls) /\ j \in 1..Len(tn.calls) /\ j < k
    BY <1>1
  <2>. QED
    BY <1>2, <2>1
<1>4. StateMatchesMessage(tn.calls, replay, tl)
  BY <1>1, <1>2, <1>3 DEF StateMatchesMessage, KeptCall
<1>5. Cardinality(DOMAIN tl) = 0 <=> DOMAIN tl = {}
  BY <1>2, FS_EmptySet
<1>6. tn.calls = <<>> <=> Len(tn.calls) = 0
  BY <1>1, EmptySeq
<1>. QED
  BY <1>2, <1>4, <1>5, <1>6

LEMMA GeminiTextMatches ==
    ASSUME NEW a \in Answers, a.provider = "google", NEW tn, tn.text \in Texts,
           Ordered(tn.text, PieceBefore), Elements(tn.text) = SentTexts(a, Len(GeminiParts(a)))
    PROVE  tn.text = TextOf(a, {"text"})
<1>. DEFINE P == GeminiParts(a)
            W == {u \in Pieces : u[1] \in TextParts(a) /\ u[2] \in 1..Size(a, u[1])}
<1>1. ASSUME NEW u \in SentTexts(a, Len(P)) PROVE u \in W
  <2>1. PICK x \in 1..Len(P) : P[x].kind = "text" /\ u = P[x].json[1]
    BY DEF SentTexts
  <2>. QED
    BY <2>1, SentFacts
<1>2. ASSUME NEW u \in W PROVE u \in SentTexts(a, Len(P))
  <2>1. PICK i \in Nat, j \in Nat : u = <<i, j>>
    BY DEF Pieces
  <2>2. u[1] = i /\ u[2] = j /\ i \in TextParts(a) /\ j \in 1..Size(a, i)
    BY <2>1
  <2>3. PICK x \in 1..Len(P) : P[x].kind = "text" /\ P[x].json = <<<<i, j>>>>
    BY <2>2, GeminiPartsFacts
  <2>4. P[x].json[1] = u
    BY <2>1, <2>3
  <2>. QED
    BY <2>3, <2>4 DEF SentTexts
<1>3. Elements(tn.text) = W
  BY <1>1, <1>2
<1>. QED
  BY <1>3, TextMatches

LEMMA GeminiEnd ==
    ASSUME Reading, Provider = "google"
    PROVE  Common(turn, chunks) /\ EndIsWhole
<1>. DEFINE P == GeminiParts(answer)
<1>1. /\ answer \in Answers /\ answer.provider = "google" /\ asm \in Assemblers
      /\ (asm.terminal <=> phase = "ended")
      /\ phase = "ended" =>
           todo = <<<<>>>> /\ asm.finish = GeminiFinish(answer.stop, DOMAIN tools # {})
      /\ P \in Seq(Sents) /\ Len(P) \in Nat
  BY GeminiReadingFacts, GeminiPartsFacts
<1>2. PICK p \in 0..Len(P) : todo = <<SubSeq(P, p + 1, Len(P))>>
                             /\ GeminiAt(answer, p, tools, asm, turn, chunks)
  BY GeminiReadingFacts
<1>3. Finishes <=> asm.terminal /\ Output
  BY DEF Finishes
<1>4. Common(turn, chunks) /\ turn \in Turns /\ turn.text \in Texts /\ asm.replay \in Seq(Sents)
  BY <1>2, GeminiAtFacts
<1>5. ASSUME phase = "ended" PROVE p = Len(P)
  <2>1. SubSeq(P, p + 1, Len(P)) = <<>>
    <3>1. <<SubSeq(P, p + 1, Len(P))>>[1] = <<<<>>>>[1]
      BY <1>1, <1>2, <1>5
    <3>. QED
      BY <3>1
  <2>. HIDE DEF P
  <2>2. Len(SubSeq(P, p + 1, Len(P))) = Len(P) - p
    <3>1. p \in Nat /\ p <= Len(P) /\ Len(P) <= Len(P)
      BY <1>1, <1>2
    <3>. QED
      BY <1>1, <3>1, SliceIs
  <2>3. Len(P) - p = 0
    BY <2>1, <2>2
  <2>. QED
    BY <1>1, <1>2, <2>3
<1>6. ASSUME phase = "ended"
      PROVE  /\ asm.finish = Response(answer).finish
             /\ turn.text = TextOf(answer, {"text"}) /\ Named(turn.calls) = CallsOf(answer)
             /\ \A k \in DOMAIN turn.calls : turn.calls[k].args # Missing
             /\ turn.calls # <<>> <=> HasCall(answer)
             /\ StateMatchesMessage(turn.calls, asm.replay, tools)
  <2>1. GeminiAt(answer, Len(P), tools, asm, turn, chunks)
    BY <1>2, <1>5, <1>6
  <2>2. /\ Ordered(turn.text, PieceBefore) /\ Elements(turn.text) = SentTexts(answer, Len(P))
        /\ GeminiCallsSent(answer, Len(P), turn) /\ Kept(tools, asm.replay, turn)
    BY <2>1 DEF GeminiAt
  <2>3. turn.text = TextOf(answer, {"text"})
    BY <1>1, <1>4, <2>2, GeminiTextMatches
  <2>4. /\ Named(turn.calls) = CallsOf(answer)
        /\ \A k \in DOMAIN turn.calls : turn.calls[k].args # Missing
        /\ turn.calls # <<>> <=> HasCall(answer)
    BY <1>1, <1>4, <2>2, GeminiCallsMatch
  <2>5. StateMatchesMessage(turn.calls, asm.replay, tools) /\ (DOMAIN tools # {} <=> turn.calls # <<>>)
    BY <1>4, <2>2, KeptMatches
  <2>6. asm.finish = Response(answer).finish
    <3>1. DOMAIN tools # {} <=> HasCall(answer)
      BY <2>4, <2>5
    <3>2. asm.finish = GeminiFinish(answer.stop, DOMAIN tools # {})
      BY <1>1, <1>6
    <3>3. Response(answer).finish = GeminiFinish(answer.stop, HasCall(answer))
      BY <1>1, ResponseIs
    <3>. QED
      BY <3>1, <3>2, <3>3 DEF GeminiFinish
  <2>. QED
    BY <2>3, <2>4, <2>5, <2>6
<1>7. ASSUME phase = "ended", Consistent(answer) PROVE Finishes
  <2>1. GeminiPayloadValid(answer) /\ DOMAIN answer.output = PartsIn(answer)
    BY <1>1, <1>7, AnswerFacts DEF Consistent, Accepted
  <2>2. CASE answer.stop = "SAFETY"
    <3>1. asm.finish = "content_filter"
      BY <1>1, <1>7, <2>2, GeminiFinishIs
    <3>. QED
      BY <1>1, <1>3, <1>7, <3>1 DEF Output
  <2>3. CASE \E i \in PartsIn(answer) :
               \/ answer.output[i].kind = "call"
               \/ answer.output[i].kind = "text" /\ answer.output[i].size > 0
    <3>1. PICK i \in PartsIn(answer) : \/ answer.output[i].kind = "call"
                                       \/ answer.output[i].kind = "text" /\ answer.output[i].size > 0
      BY <2>3
    <3>2. \E x \in 1..Len(P) : P[x].kind # "thought"
      <4>1. CASE answer.output[i].kind = "call"
        <5>1. i \in CallParts(answer)
          BY <4>1 DEF CallParts
        <5>2. \E x \in 1..Len(P) : P[x].kind = "call"
          BY <1>1, <5>1, GeminiPartsFacts
        <5>. QED
          BY <5>2
      <4>2. CASE answer.output[i].kind = "text" /\ answer.output[i].size > 0
        <5>1. i \in TextParts(answer) /\ Size(answer, i) \in Nat
          BY <1>1, <4>2, PartFacts DEF TextParts
        <5>2. 1 \in 1..Size(answer, i)
          BY <4>2, <5>1 DEF Size
        <5>3. \E x \in 1..Len(P) : P[x].kind = "text"
          BY <1>1, <5>1, <5>2, GeminiPartsFacts
        <5>. QED
          BY <5>3
      <4>. QED
        BY <3>1, <4>1, <4>2
    <3>3. asm.observed
      BY <1>2, <1>5, <1>7, <3>2 DEF GeminiAt
    <3>. QED
      BY <1>1, <1>3, <1>7, <3>3 DEF Output
  <2>. QED
    BY <2>1, <2>2, <2>3 DEF GeminiPayloadValid
<1>8. Finishes => phase = "ended"
  BY <1>1, <1>3
<1>. QED
  BY <1>4, <1>6, <1>7, <1>8 DEF EndIsWhole

-----------------------------------------------------------------------------
(* The invariant of the specification, and the theorems.                   *)

LEMMA StreamStarts == ASSUME Init PROVE IInv
<1>1. answer \in Answers /\ status = "reading"
  BY DEF Init
<1>2. Provider \in Providers
  BY <1>1, AnswerFacts DEF Provider
<1>3. Reading
  BY <1>2, BlocksInit, GeminiInit DEF Providers
<1>4. Common(turn, chunks)
  BY CommonStart
<1>5. Orderly(chunks)
  BY <1>4 DEF Common, Orderly, NotDone
<1>6. RecordedIffWhole
  BY <1>1 DEF RecordedIffWhole
<1>. QED
  BY <1>1, <1>3, <1>5, <1>6 DEF IInv

(* The four ways a step can go.                                            *)
LEMMA WhenContinues == ASSUME Continues PROVE IInv'
<1>1. status' = "reading" /\ Reading'
  BY DEF Continues
<1>2. answer' \in Answers /\ answer'.provider \in Providers
  BY <1>1, AnswerFacts DEF Reading
<1>3. Common(turn, chunks)'
  <2>1. CASE Provider' = "openai"
    BY <1>1, <2>1 DEF Reading, OpenAIReading, Blocks
  <2>2. CASE Provider' = "anthropic"
    BY <1>1, <2>2 DEF Reading, AnthropicReading, Blocks
  <2>3. CASE Provider' = "google"
    BY <1>1, <2>3 DEF Reading, GeminiReading, GeminiAt
  <2>. QED
    BY <1>2, <2>1, <2>2, <2>3 DEF Providers, Provider
<1>4. Orderly(chunks')
  BY <1>3 DEF Common, Orderly, NotDone
<1>5. RecordedIffWhole'
  BY <1>1 DEF RecordedIffWhole
<1>. QED
  BY <1>1, <1>4, <1>5 DEF IInv

LEMMA WhenFails == ASSUME IInv, Fails PROVE IInv'
<1>1. status' = "failed" /\ answer' = answer /\ chunks' = chunks
      /\ (phase' = "broken" \/ ~Consistent(answer))
  BY DEF Fails
<1>2. Consistent(answer') <=> Consistent(answer)
  BY <1>1
<1>3. RecordedIffWhole'
  BY <1>1, <1>2 DEF RecordedIffWhole
<1>. QED
  BY <1>1, <1>3 DEF IInv

LEMMA WhenConcludes == ASSUME Concludes PROVE IInv'
<1>1. /\ answer' = answer /\ Orderly(chunks')
      /\ status' \in {"recorded", "failed"}
      /\ status' = "recorded" => phase' = "ended" /\ Matches(answer', tools', asm', turn')
      /\ status' = "failed" /\ Consistent(answer) => phase' = "broken"
  BY DEF Concludes
<1>2. Consistent(answer') <=> Consistent(answer)
  BY <1>1
<1>3. RecordedIffWhole'
  BY <1>1, <1>2 DEF RecordedIffWhole
<1>. QED
  BY <1>1, <1>3 DEF IInv

LEMMA WhenCancelled == ASSUME IInv, Cancel PROVE IInv'
<1>1. status' = "cancelled" /\ chunks' = chunks
  BY DEF Cancel
<1>2. RecordedIffWhole'
  BY <1>1 DEF RecordedIffWhole
<1>. QED
  BY <1>1, <1>2 DEF IInv

LEMMA EndConcludes == ASSUME Reading, EndOfStream PROVE Concludes
<1>1. answer \in Answers /\ asm \in Assemblers
  BY DEF Reading
<1>2. Provider \in Providers
  BY <1>1, AnswerFacts DEF Provider
<1>3. Common(turn, chunks) /\ EndIsWhole
  BY <1>2, OpenAIEnd, AnthropicEnd, GeminiEnd DEF Providers
<1>. QED
  BY <1>1, <1>3, EndOfStreamStep

LEMMA StepsRead == ASSUME Next PROVE status = "reading"
<1>1. ASSUME NEW i \in DOMAIN todo,
             \/ OpenAITextDelta(i) \/ IgnoredEvent(i) \/ OpenAIItemAdded(i)
             \/ OpenAIArgumentsDelta(i) \/ OpenAIArgumentsDone(i) \/ OpenAIItemDone(i)
             \/ AnthropicBlockStart(i) \/ AnthropicTextDelta(i)
             \/ AnthropicJsonDelta(i) \/ AnthropicBlockStop(i)
      PROVE  status = "reading"
  BY <1>1 DEF Sends, OpenAITextDelta, IgnoredEvent, OpenAIItemAdded, OpenAIArgumentsDelta,
              OpenAIArgumentsDone, OpenAIItemDone, AnthropicBlockStart, AnthropicTextDelta,
              AnthropicJsonDelta, AnthropicBlockStop
<1>2. ASSUME \/ OpenAICompleted \/ OpenAIFailed
             \/ AnthropicMessageStart \/ AnthropicMessageDelta \/ AnthropicMessageStop
             \/ GeminiChunk \/ GeminiRepeats
             \/ OpenAIMalformedEvent \/ AnthropicMalformedEvent \/ GeminiMalformedChunk
             \/ EndOfStream \/ Cancel
      PROVE  status = "reading"
  BY <1>2 DEF OpenAICompleted, OpenAIFailed, AnthropicMessageStart, AnthropicMessageDelta,
              AnthropicMessageStop, GeminiChunk, GeminiRepeats, OpenAIMalformedEvent,
              AnthropicMalformedEvent, GeminiMalformedChunk, MalformedEvent, EndOfStream, Cancel
<1>. QED
  BY <1>1, <1>2, Zenon DEF Next

LEMMA StreamSteps == ASSUME IInv, [Next]_vars PROVE IInv'
<1>1. CASE UNCHANGED vars
  BY <1>1 DEF vars, IInv, Reading, Provider, RecordedIffWhole
<1>2. CASE Next
  <2>1. Reading
    BY <1>2, StepsRead DEF IInv
  <2>2. ASSUME Continues \/ Fails PROVE IInv'
    BY <2>2, WhenContinues, WhenFails
  <2>3. ASSUME NEW i \in DOMAIN todo,
               \/ OpenAITextDelta(i) \/ IgnoredEvent(i) \/ OpenAIItemAdded(i)
               \/ OpenAIArgumentsDelta(i) \/ OpenAIArgumentsDone(i) \/ OpenAIItemDone(i)
               \/ AnthropicBlockStart(i) \/ AnthropicTextDelta(i)
               \/ AnthropicJsonDelta(i) \/ AnthropicBlockStop(i)
        PROVE  IInv'
    <3>1. CASE OpenAITextDelta(i)
      BY <2>1, <2>2, <3>1, OpenAITextDeltaStep
    <3>2. CASE IgnoredEvent(i)
      BY <2>1, <2>2, <3>2, IgnoredEventStep
    <3>3. CASE OpenAIItemAdded(i)
      BY <2>1, <2>2, <3>3, OpenAIItemAddedStep
    <3>4. CASE OpenAIArgumentsDelta(i)
      BY <2>1, <2>2, <3>4, OpenAIArgumentsDeltaStep
    <3>5. CASE OpenAIArgumentsDone(i)
      BY <2>1, <2>2, <3>5, OpenAIArgumentsDoneStep
    <3>6. CASE OpenAIItemDone(i)
      BY <2>1, <2>2, <3>6, OpenAIItemDoneStep
    <3>7. CASE AnthropicBlockStart(i)
      BY <2>1, <2>2, <3>7, AnthropicBlockStartStep
    <3>8. CASE AnthropicTextDelta(i)
      BY <2>1, <2>2, <3>8, AnthropicTextDeltaStep
    <3>9. CASE AnthropicJsonDelta(i)
      BY <2>1, <2>2, <3>9, AnthropicJsonDeltaStep
    <3>10. CASE AnthropicBlockStop(i)
      BY <2>1, <2>2, <3>10, AnthropicBlockStopStep
    <3>. QED
      BY <2>3, <3>1, <3>2, <3>3, <3>4, <3>5, <3>6, <3>7, <3>8, <3>9, <3>10, Zenon
  <2>4. CASE OpenAICompleted
    BY <2>1, <2>2, <2>4, OpenAICompletedStep
  <2>5. CASE \/ OpenAIFailed
             \/ OpenAIMalformedEvent \/ AnthropicMalformedEvent \/ GeminiMalformedChunk
    <3>1. Fails
      BY <2>5, BrokenStep, Zenon DEF OpenAIMalformedEvent, AnthropicMalformedEvent, GeminiMalformedChunk
    <3>. QED
      BY <2>2, <3>1
  <2>6. CASE AnthropicMessageStart
    BY <2>1, <2>2, <2>6, AnthropicMessageStartStep
  <2>7. CASE AnthropicMessageDelta
    BY <2>1, <2>2, <2>7, AnthropicMessageDeltaStep
  <2>8. CASE AnthropicMessageStop
    BY <2>1, <2>2, <2>8, AnthropicMessageStopStep
  <2>9. CASE GeminiChunk
    BY <2>1, <2>2, <2>9, GeminiChunkStep
  <2>10. CASE GeminiRepeats
    BY <2>1, <2>2, <2>10, GeminiRepeatsStep
  <2>11. CASE EndOfStream
    BY <2>1, <2>11, EndConcludes, WhenConcludes
  <2>12. CASE Cancel
    BY <2>12, WhenCancelled
  <2>. QED
    BY <1>2, <2>3, <2>4, <2>5, <2>6, <2>7, <2>8, <2>9, <2>10, <2>11, <2>12, Zenon DEF Next
<1>. QED
  BY <1>1, <1>2

(* The stream is read as the invariant says, in every state.               *)
THEOREM StreamCorrect == Spec => []IInv
<1>1. Init => IInv
  BY StreamStarts
<1>2. IInv /\ [Next]_vars => IInv'
  BY StreamSteps
<1>. QED
  BY <1>1, <1>2, PTL DEF Spec

(* A stream that broke is never recorded as a turn, and one that was not   *)
(* cut always is, unless complete() would not take its answer either.      *)
THEOREM RecordedCorrect == Spec => []RecordedIffWhole
<1>1. IInv => RecordedIffWhole
  BY DEF IInv
<1>. QED
  BY <1>1, StreamCorrect, PTL

(* Each tool call the consumer sees starts once, ends once after its       *)
(* deltas, and its deltas add up to its arguments; nothing follows done.   *)
THEOREM LifecycleCorrect == Spec => []ToolLifecycle
<1>1. IInv => ToolLifecycle
  BY ToolLifecycleIs DEF IInv, Orderly
<1>. QED
  BY <1>1, StreamCorrect, PTL

(* A recorded streamed turn is the turn complete() would have recorded,    *)
(* and the replay state kept beside it is the state of that turn.          *)
THEOREM StreamMatches == Spec => []StreamMatchesComplete
<1>1. IInv => StreamMatchesComplete
  <2>. SUFFICES ASSUME IInv, status = "recorded"
                PROVE  /\ [text |-> turn.text, calls |-> Named(turn.calls), finish |-> turn.finish]
                            = [Response(answer) EXCEPT !.text = TextOf(answer, {"text"})]
                       /\ Provider = "google" /\ Attached
                            => StateMatchesMessage(turn.calls, asm.replay, tools)
    BY DEF StreamMatchesComplete, Named
  <2>. QED
    BY DEF IInv, Matches, Attached, Provider
<1>. QED
  BY <1>1, StreamCorrect, PTL
=============================================================================
