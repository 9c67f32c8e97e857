--------------------------- MODULE ReplayStateProofs ---------------------------
(***************************************************************************)
(* What becomes of a model's replay state, for every number of models,     *)
(* turns, tool calls and messages in the window.  The first part has the   *)
(* facts about increasing enumerations and iterated steps that the walks   *)
(* over lists of messages need.                                            *)
(***************************************************************************)
EXTENDS ReplayState, FiniteSetTheorems, NaturalsInduction, WellFoundedInduction, TLAPS

-----------------------------------------------------------------------------
(* Induction, and finite sets of numbers in their order.                   *)

(* Induction on the natural numbers, for a set instead of a predicate.     *)
LEMMA NatSetInduction ==
    ASSUME NEW T, 0 \in T, \A n \in Nat : n \in T => n + 1 \in T
    PROVE  Nat \subseteq T
<1>. DEFINE Out == Nat \ T
<1>1. SUFFICES ASSUME Out # {} PROVE FALSE
  OBVIOUS
<1>2. PICK n \in Out : \A m \in Out : <<m, n>> \notin OpToRel(<, Nat)
  BY <1>1, NatLessThanWellFounded, WFMin
<1>3. n # 0 /\ n \in Nat
  OBVIOUS
<1>4. n - 1 \in Nat /\ n - 1 < n
  BY <1>3
<1>5. <<n - 1, n>> \in OpToRel(<, Nat)
  BY <1>3, <1>4 DEF OpToRel
<1>6. n - 1 \in T
  BY <1>2, <1>4, <1>5
<1>. QED
  BY <1>3, <1>4, <1>6

(* The place of a number in a set, counted from the smallest.              *)
UpTo(S, x) == {y \in S : y <= x}
Rank(S, x) == Cardinality(UpTo(S, x))

LEMMA RankProperties ==
    ASSUME NEW S \in SUBSET Nat, IsFiniteSet(S)
    PROVE  /\ \A x \in S : Rank(S, x) \in 1..Cardinality(S)
           /\ \A x, y \in S : x < y <=> Rank(S, x) < Rank(S, y)
           /\ \A x, y \in S : Rank(S, x) = Rank(S, y) => x = y
<1>1. ASSUME NEW x \in S
      PROVE  /\ IsFiniteSet(UpTo(S, x)) /\ Rank(S, x) \in Nat
             /\ Rank(S, x) <= Cardinality(S) /\ Rank(S, x) # 0
             /\ Cardinality(S) \in Nat
  <2>1. UpTo(S, x) \in SUBSET S /\ x \in UpTo(S, x)
    BY DEF UpTo
  <2>2. IsFiniteSet(UpTo(S, x)) /\ Cardinality(UpTo(S, x)) <= Cardinality(S)
    BY <2>1, FS_Subset
  <2>3. Cardinality(S) \in Nat /\ Cardinality(UpTo(S, x)) \in Nat
    BY <2>2, FS_CardinalityType
  <2>4. Cardinality(UpTo(S, x)) # 0
    BY <2>1, <2>2, FS_EmptySet
  <2>. QED
    BY <2>2, <2>3, <2>4 DEF Rank
<1>2. ASSUME NEW x \in S, NEW y \in S, x < y
      PROVE  Rank(S, x) < Rank(S, y)
  <2>1. UpTo(S, x) \in SUBSET UpTo(S, y)
    <3>1. x \in Nat /\ y \in Nat /\ \A z \in S : z \in Nat
      OBVIOUS
    <3>2. \A z \in S : z <= x => z <= y
      BY <1>2, <3>1
    <3>. QED
      BY <3>2 DEF UpTo
  <2>2. y \in UpTo(S, y) /\ y \notin UpTo(S, x)
    BY <1>2 DEF UpTo
  <2>3. UpTo(S, x) # UpTo(S, y)
    BY <2>2
  <2>4. /\ Cardinality(UpTo(S, x)) <= Cardinality(UpTo(S, y))
        /\ Cardinality(UpTo(S, x)) # Cardinality(UpTo(S, y))
    BY <1>1, <2>1, <2>3, FS_Subset
  <2>. QED
    BY <1>1, <2>4 DEF Rank
<1>3. \A x \in S : Rank(S, x) \in 1..Cardinality(S)
  BY <1>1
<1>4. \A x, y \in S : x < y => Rank(S, x) < Rank(S, y)
  BY <1>2
<1>5. \A x, y \in S : Rank(S, x) = Rank(S, y) => x = y
  <2>1. \A x, y \in S : x < y \/ y < x \/ x = y
    OBVIOUS
  <2>. QED
    BY <1>1, <1>4, <2>1
<1>6. \A x, y \in S : x < y <=> Rank(S, x) < Rank(S, y)
  <2>1. \A x, y \in S : x < y \/ y < x \/ x = y
    OBVIOUS
  <2>. QED
    BY <1>1, <1>4, <2>1
<1>. QED
  BY <1>3, <1>5, <1>6

(* A finite set of numbers that is not empty has a largest and a smallest. *)
LEMMA Extremes ==
    ASSUME NEW S \in SUBSET Nat, IsFiniteSet(S), S # {}
    PROVE  /\ Max(S) \in S /\ \A y \in S : y <= Max(S)
           /\ Min(S) \in S /\ \A y \in S : Min(S) <= y
<1>1. PICK x \in S : \A y \in S : <<y, x>> \notin OpToRel(<, Nat)
  BY NatLessThanWellFounded, WFMin
<1>2. \A y \in S : x <= y
  <2>. SUFFICES ASSUME NEW y \in S PROVE x <= y
    OBVIOUS
  <2>1. x \in Nat /\ y \in Nat
    OBVIOUS
  <2>2. ~(y < x)
    BY <1>1, <2>1 DEF OpToRel
  <2>. QED
    BY <2>1, <2>2
<1>3. Min(S) \in S /\ \A y \in S : Min(S) <= y
  BY <1>2 DEF Min
<1>. DEFINE T == {n \in Nat : \E z \in S : n = Cardinality(S) - Rank(S, z)}
<1>4. PICK n \in T : \A m \in T : <<m, n>> \notin OpToRel(<, Nat)
  <2>1. T # {}
    <3>1. Cardinality(S) - Rank(S, x) \in T
      BY RankProperties, FS_CardinalityType
    <3>. QED
      BY <3>1
  <2>. QED
    BY <2>1, NatLessThanWellFounded, WFMin
<1>5. PICK z \in S : n = Cardinality(S) - Rank(S, z)
  OBVIOUS
<1>6. ASSUME NEW y \in S PROVE y <= z
  <2>1. Cardinality(S) - Rank(S, y) \in T
    BY RankProperties, FS_CardinalityType
  <2>2. ~(Cardinality(S) - Rank(S, y) < n)
    BY <1>4, <2>1 DEF OpToRel
  <2>3. ~(Rank(S, z) < Rank(S, y))
    BY <1>5, <2>2, RankProperties, FS_CardinalityType
  <2>. QED
    BY <2>3, RankProperties
<1>7. Max(S) \in S /\ \A y \in S : y <= Max(S)
  <2>1. \A y \in S : z >= y
    BY <1>6
  <2>2. Max(S) \in S /\ \A y \in S : Max(S) >= y
    BY <2>1 DEF Max
  <2>. QED
    BY <2>2
<1>. QED
  BY <1>3, <1>7

LEMMA SingletonExtremes == \A x \in Nat : Max({x}) = x /\ Min({x}) = x
BY DEF Max, Min

(* Every place of a finite set of numbers is taken.                        *)
LEMMA RanksTaken ==
    ASSUME NEW S \in SUBSET Nat, IsFiniteSet(S), NEW n \in 1..Cardinality(S)
    PROVE  \E x \in S : Rank(S, x) = n
<1>1. Cardinality(S) \in Nat
  BY FS_CardinalityType
<1>. DEFINE f == [x \in S |-> Rank(S, x)]
<1>2. f \in Injection(S, 1..Cardinality(S))
  BY RankProperties DEF Injection, IsInjective
<1>3. IsFiniteSet(1..Cardinality(S)) /\ Cardinality(1..Cardinality(S)) = Cardinality(S)
  BY <1>1, FS_Interval
<1>4. f \in Surjection(S, 1..Cardinality(S))
  BY <1>2, <1>3, FS_Injection
<1>. QED
  BY <1>4 DEF Surjection

(* InOrder enumerates a finite set of numbers, the smallest first.         *)
LEMMA InOrderEnumerates ==
    ASSUME NEW S \in SUBSET Nat, IsFiniteSet(S)
    PROVE  /\ InOrder(S) \in [1..Cardinality(S) -> S]
           /\ Cardinality(S) \in Nat /\ InOrder(S) \in Seq(S) /\ Len(InOrder(S)) = Cardinality(S)
           /\ \A i, j \in 1..Cardinality(S) : i < j => InOrder(S)[i] < InOrder(S)[j]
           /\ \A x \in S : \E n \in 1..Cardinality(S) : InOrder(S)[n] = x
<1>1. \A n \in 1..Cardinality(S) : InOrder(S)[n] \in S /\ Rank(S, InOrder(S)[n]) = n
  <2>. SUFFICES ASSUME NEW n \in 1..Cardinality(S)
                PROVE  InOrder(S)[n] \in S /\ Rank(S, InOrder(S)[n]) = n
    OBVIOUS
  <2>1. \E x \in S : Cardinality({y \in S : y <= x}) = n
    BY RanksTaken DEF Rank, UpTo
  <2>2. InOrder(S)[n] = CHOOSE x \in S : Cardinality({y \in S : y <= x}) = n
    BY DEF InOrder
  <2>3. InOrder(S)[n] \in S /\ Cardinality({y \in S : y <= InOrder(S)[n]}) = n
    BY <2>1, <2>2
  <2>. QED
    BY <2>3 DEF Rank, UpTo
<1>2. Cardinality(S) \in Nat
  BY FS_CardinalityType
<1>3. InOrder(S) \in [1..Cardinality(S) -> S]
  BY <1>1 DEF InOrder
<1>4. \A x, y \in S : x < y <=> Rank(S, x) < Rank(S, y)
  BY RankProperties
<1>5. \A x, y \in S : Rank(S, x) = Rank(S, y) => x = y
  BY RankProperties
<1>6. \A x \in S : Rank(S, x) \in 1..Cardinality(S)
  BY RankProperties
<1>7. \A i, j \in 1..Cardinality(S) : i < j => InOrder(S)[i] < InOrder(S)[j]
  BY <1>1, <1>2, <1>4
<1>8. \A x \in S : \E n \in 1..Cardinality(S) : InOrder(S)[n] = x
  BY <1>1, <1>5, <1>6
<1>. QED
  BY <1>2, <1>3, <1>7, <1>8

(* The context strategies count and enumerate in the same way.            *)
LEMMA SameMin == \A S : Context!Min(S) = Min(S)
BY DEF Context!Min, Min

LEMMA SameCardinality == \A S : Context!Cardinality(S) = Cardinality(S)
<1>1. \A T : Context!IsFiniteSet(T) = IsFiniteSet(T)
  BY DEF Context!IsFiniteSet, IsFiniteSet
<1>. QED
  BY <1>1, Zenon DEF Context!Cardinality, Cardinality

LEMMA SameOrder ==
    ASSUME NEW S \in SUBSET Nat, IsFiniteSet(S)
    PROVE  Context!InOrder(S) = InOrder(S)
<1>2. \A T : Context!Cardinality(T) = Cardinality(T)
  BY SameCardinality
<1>3. ASSUME NEW n \in 1..Cardinality(S)
      PROVE  Context!InOrder(S)[n] = InOrder(S)[n]
  <2>1. \E x \in S : Context!Cardinality({y \in S : y <= x}) = n
    BY <1>2, RanksTaken DEF Rank, UpTo
  <2>2. Context!InOrder(S)[n] = CHOOSE x \in S : Context!Cardinality({y \in S : y <= x}) = n
    BY <1>2 DEF Context!InOrder
  <2>3. /\ Context!InOrder(S)[n] \in S
        /\ Context!Cardinality({y \in S : y <= Context!InOrder(S)[n]}) = n
    BY <2>1, <2>2
  <2>4. Rank(S, Context!InOrder(S)[n]) = n
    BY <1>2, <2>3 DEF Rank, UpTo
  <2>5. \E x \in S : Cardinality({y \in S : y <= x}) = n
    BY RanksTaken DEF Rank, UpTo
  <2>6. InOrder(S)[n] = CHOOSE x \in S : Cardinality({y \in S : y <= x}) = n
    BY DEF InOrder
  <2>7. InOrder(S)[n] \in S /\ Cardinality({y \in S : y <= InOrder(S)[n]}) = n
    BY <2>5, <2>6
  <2>8. Rank(S, InOrder(S)[n]) = n
    BY <2>7 DEF Rank, UpTo
  <2>9. \A x, y \in S : Rank(S, x) = Rank(S, y) => x = y
    BY RankProperties
  <2>. QED
    BY <2>3, <2>4, <2>7, <2>8, <2>9
<1>4. Context!InOrder(S) = [n \in 1..Cardinality(S) |-> Context!InOrder(S)[n]]
  BY <1>2 DEF Context!InOrder
<1>5. InOrder(S) = [n \in 1..Cardinality(S) |-> InOrder(S)[n]]
  BY DEF InOrder
<1>. QED
  BY <1>3, <1>4, <1>5

(* A walk that starts at a and makes k steps exists.                       *)
StaysIn(step, k, A) == \A n \in 1..k : \A x \in A : step[n][x] \in A
Walk(f, k, A, a, step) ==
    f \in [0..k -> A] /\ f[0] = a /\ \A n \in 1..k : f[n] = step[n][f[n - 1]]

LEMMA Walks ==
    ASSUME NEW k \in Nat, NEW A, NEW a \in A, NEW step, StaysIn(step, k, A)
    PROVE  \E f : Walk(f, k, A, a, step)
<1>. USE DEF StaysIn, Walk
<1>. DEFINE Good(f, m) == f[0] = a /\ \A n \in 1..m : f[n] = step[n][f[n - 1]]
            T == {m \in Nat : m <= k => \E f \in [0..m -> A] : Good(f, m)}
<1>1. 0 \in T
  <2>1. [n \in 0..0 |-> a] \in [0..0 -> A] /\ Good([n \in 0..0 |-> a], 0)
    OBVIOUS
  <2>. QED
    BY <2>1
<1>2. ASSUME NEW m \in Nat, m \in T PROVE m + 1 \in T
  <2>1. ASSUME m + 1 <= k PROVE \E f \in [0..m + 1 -> A] : Good(f, m + 1)
    <3>1. PICK f \in [0..m -> A] : Good(f, m)
      BY <1>2, <2>1
    <3>. DEFINE g == [n \in 0..m + 1 |-> IF n <= m THEN f[n] ELSE step[m + 1][f[m]]]
    <3>2. g \in [0..m + 1 -> A]
      BY <2>1
    <3>3. g[0] = a
      BY <3>1
    <3>4. \A n \in 1..m + 1 : g[n] = step[n][g[n - 1]]
      <4>. SUFFICES ASSUME NEW n \in 1..m + 1 PROVE g[n] = step[n][g[n - 1]]
        OBVIOUS
      <4>1. CASE n <= m
        BY <3>1, <4>1
      <4>2. CASE n = m + 1
        BY <4>2
      <4>. QED
        BY <4>1, <4>2
    <3>. QED
      BY <3>2, <3>3, <3>4
  <2>2. m + 1 \in Nat
    OBVIOUS
  <2>. HIDE DEF Good
  <2>. QED
    BY <2>1, <2>2
<1>. HIDE DEF T
<1>3. k \in T
  BY <1>1, <1>2, NatSetInduction
<1>. QED
  BY <1>3 DEF T

-----------------------------------------------------------------------------
(* Trimmed lists: what a context strategy keeps comes from the list, in    *)
(* its order.                                                              *)

Increasing(e, u, w) ==
    /\ e \in [1..Len(u) -> 1..Len(w)]
    /\ \A i, j \in 1..Len(u) : i < j => e[i] < e[j]

Within(u, w) == \E e : Increasing(e, u, w) /\ \A i \in 1..Len(u) : u[i] = w[e[i]]

LEMMA WithinItself == \A M : \A w \in Seq(M) : Within(w, w)
<1>. SUFFICES ASSUME NEW M, NEW w \in Seq(M) PROVE Within(w, w)
  OBVIOUS
<1>. DEFINE e == [i \in 1..Len(w) |-> i]
<1>1. Increasing(e, w, w) /\ \A i \in 1..Len(w) : w[i] = w[e[i]]
  BY DEF Increasing
<1>. QED
  BY <1>1 DEF Within

LEMMA WithinTransitive ==
    ASSUME NEW M, NEW u \in Seq(M), NEW v \in Seq(M), NEW w \in Seq(M),
           Within(u, v), Within(v, w)
    PROVE  Within(u, w)
<1>1. PICK e : Increasing(e, u, v) /\ \A i \in 1..Len(u) : u[i] = v[e[i]]
  BY DEF Within
<1>2. PICK f : Increasing(f, v, w) /\ \A i \in 1..Len(v) : v[i] = w[f[i]]
  BY DEF Within
<1>. DEFINE g == [i \in 1..Len(u) |-> f[e[i]]]
<1>3. g \in [1..Len(u) -> 1..Len(w)]
  BY <1>1, <1>2 DEF Increasing
<1>4. \A i, j \in 1..Len(u) : i < j => g[i] < g[j]
  <2>. SUFFICES ASSUME NEW i \in 1..Len(u), NEW j \in 1..Len(u), i < j PROVE g[i] < g[j]
    OBVIOUS
  <2>1. e[i] \in 1..Len(v) /\ e[j] \in 1..Len(v) /\ e[i] < e[j]
    BY <1>1 DEF Increasing
  <2>. QED
    BY <1>2, <2>1 DEF Increasing
<1>5. \A i \in 1..Len(u) : u[i] = w[g[i]]
  BY <1>1, <1>2 DEF Increasing
<1>. QED
  BY <1>3, <1>4, <1>5 DEF Within, Increasing

LEMMA WithoutWithin ==
    ASSUME NEW M, NEW v \in Seq(M), NEW gone
    PROVE  Context!Without(v, gone) \in Seq(M) /\ Within(Context!Without(v, gone), v)
<1>. DEFINE S == DOMAIN v \ gone
            kept == InOrder(S)
            u == Context!Without(v, gone)
<1>1. S \in SUBSET Nat /\ IsFiniteSet(S) /\ S \subseteq 1..Len(v)
  <2>1. DOMAIN v = 1..Len(v) /\ Len(v) \in Nat
    OBVIOUS
  <2>2. IsFiniteSet(1..Len(v))
    BY <2>1, FS_Interval
  <2>3. S \in SUBSET (1..Len(v))
    BY <2>1
  <2>4. IsFiniteSet(S)
    BY <2>2, <2>3, FS_Subset
  <2>. QED
    BY <2>3, <2>4
<1>. HIDE DEF S
<1>2. /\ kept \in Seq(S) /\ Len(kept) = Cardinality(S) /\ Cardinality(S) \in Nat
      /\ kept \in [1..Cardinality(S) -> S]
      /\ \A i, j \in 1..Cardinality(S) : i < j => kept[i] < kept[j]
  BY <1>1, InOrderEnumerates
<1>. HIDE DEF kept
<1>3. u = [i \in DOMAIN kept |-> v[kept[i]]]
  <2>1. u = [i \in DOMAIN Context!InOrder(S) |-> v[Context!InOrder(S)[i]]]
    BY DEF Context!Without, S
  <2>. QED
    BY <2>1, <1>1, SameOrder DEF kept
<1>. HIDE DEF u
<1>4. DOMAIN kept = 1..Cardinality(S)
  BY <1>2
<1>5. u \in [1..Cardinality(S) -> M]
  <2>1. v \in [1..Len(v) -> M] /\ Len(v) \in Nat
    OBVIOUS
  <2>2. \A i \in 1..Cardinality(S) : kept[i] \in 1..Len(v)
    BY <1>1, <1>2
  <2>3. \A i \in 1..Cardinality(S) : v[kept[i]] \in M
    BY <2>1, <2>2
  <2>. QED
    BY <1>3, <1>4, <2>3
<1>6. u \in Seq(M) /\ Len(u) = Cardinality(S)
  BY <1>2, <1>5
<1>7. Increasing(kept, u, v) /\ \A i \in 1..Len(u) : u[i] = v[kept[i]]
  BY <1>1, <1>2, <1>3, <1>6 DEF Increasing
<1>8. Within(u, v)
  BY <1>7 DEF Within
<1>. QED
  BY <1>6, <1>8 DEF u

LEMMA TrimOnceWithin ==
    ASSUME NEW M, NEW v \in Seq(M)
    PROVE  Context!TrimOnce(v) \in Seq(M) /\ Within(Context!TrimOnce(v), v)
BY WithoutWithin, WithinItself DEF Context!TrimOnce

(* The equation of the list after every round of the loop.                 *)
Rounds(f, w) ==
    f = [n \in 0..Len(w) |-> IF n = 0 THEN w
                             ELSE CHOOSE u \in {Context!TrimOnce(v) : v \in {f[n - 1]}} : TRUE]

LEMMA RoundsExist == ASSUME NEW M, NEW w \in Seq(M) PROVE \E f : Rounds(f, w)
<1>. DEFINE k == Len(w)
            A == Seq(M)
            step == [n \in 1..k |-> [v \in A |-> Context!TrimOnce(v)]]
<1>1. \A n \in 1..k : \A v \in A : step[n][v] = Context!TrimOnce(v)
  OBVIOUS
<1>2. \A v \in A : Context!TrimOnce(v) \in A
  BY TrimOnceWithin
<1>3. \A n \in 1..k : \A v \in A : step[n][v] \in A
  BY <1>1, <1>2
<1>4. k \in Nat /\ w \in A
  OBVIOUS
<1>. HIDE DEF step, A, k
<1>5. StaysIn(step, k, A)
  BY <1>3 DEF StaysIn
<1>6. PICK f : Walk(f, k, A, w, step)
  BY <1>4, <1>5, Walks
<1>7. ASSUME NEW n \in 1..k
      PROVE  f[n] = CHOOSE u \in {Context!TrimOnce(v) : v \in {f[n - 1]}} : TRUE
  <2>1. f[n - 1] \in A
    BY <1>4, <1>6 DEF Walk
  <2>2. f[n] = Context!TrimOnce(f[n - 1])
    BY <1>1, <1>6, <2>1 DEF Walk
  <2>3. {Context!TrimOnce(v) : v \in {f[n - 1]}} = {f[n]}
    BY <2>2
  <2>. QED
    BY <2>3
<1>. DEFINE round(n) == IF n = 0 THEN w
                        ELSE CHOOSE u \in {Context!TrimOnce(v) : v \in {f[n - 1]}} : TRUE
<1>8. \A n \in 0..k : f[n] = round(n)
  BY <1>4, <1>6, <1>7 DEF Walk
<1>9. f = [n \in 0..k |-> round(n)]
  <2>. HIDE DEF round
  <2>. QED
    BY <1>6, <1>8 DEF Walk
<1>10. Rounds(f, w)
  BY <1>9 DEF Rounds, k
<1>. QED
  BY <1>10

LEMMA SlidingWindowWithin ==
    ASSUME NEW M, NEW w \in Seq(M)
    PROVE  Context!SlidingWindow(w) \in Seq(M) /\ Within(Context!SlidingWindow(w), w)
<1>1. \E f : Rounds(f, w)
  BY RoundsExist
<1>2. \E f : Rounds(f, w) /\ Context!SlidingWindow(w) = f[Len(w)]
  BY <1>1 DEF Context!SlidingWindow, Rounds
<1>3. PICK f : Rounds(f, w) /\ Context!SlidingWindow(w) = f[Len(w)]
  BY <1>2
<1>4. Len(w) \in Nat
  OBVIOUS
<1>5. f[0] = w /\ \A n \in 1..Len(w) : f[n] = Context!TrimOnce(f[n - 1])
  <2>1. f[0] = w
    BY <1>3, <1>4 DEF Rounds
  <2>2. ASSUME NEW n \in 1..Len(w) PROVE f[n] = Context!TrimOnce(f[n - 1])
    <3>1. f[n] = CHOOSE u \in {Context!TrimOnce(v) : v \in {f[n - 1]}} : TRUE
      BY <1>3, <1>4 DEF Rounds
    <3>2. {Context!TrimOnce(v) : v \in {f[n - 1]}} = {Context!TrimOnce(f[n - 1])}
      OBVIOUS
    <3>. QED
      BY <3>1, <3>2
  <2>. QED
    BY <2>1, <2>2
<1>. DEFINE T == {n \in Nat : n <= Len(w) => f[n] \in Seq(M) /\ Within(f[n], w)}
<1>6. 0 \in T
  BY <1>5, WithinItself
<1>7. ASSUME NEW n \in Nat, n \in T PROVE n + 1 \in T
  <2>. SUFFICES ASSUME n + 1 <= Len(w) PROVE f[n + 1] \in Seq(M) /\ Within(f[n + 1], w)
    OBVIOUS
  <2>1. f[n] \in Seq(M) /\ Within(f[n], w)
    BY <1>4, <1>7
  <2>2. f[n + 1] = Context!TrimOnce(f[n])
    BY <1>4, <1>5
  <2>3. f[n + 1] \in Seq(M) /\ Within(f[n + 1], f[n])
    BY <2>1, <2>2, TrimOnceWithin
  <2>. QED
    BY <2>1, <2>3, WithinTransitive
<1>. HIDE DEF T
<1>8. Len(w) \in T
  BY <1>4, <1>6, <1>7, NatSetInduction
<1>. QED
  BY <1>3, <1>4, <1>8 DEF T

(* The groups a strategy may remove are sets of places in the list.        *)
LEMMA GroupsArePlaces ==
    ASSUME NEW M, NEW w \in Seq(M)
    PROVE  /\ \A g \in Context!RemovableGroups(w) : g # {} /\ g \subseteq 1..Len(w)
           /\ IsFiniteSet(Context!RemovableGroups(w))
<1>1. DOMAIN w = 1..Len(w) /\ Len(w) \in Nat
  OBVIOUS
<1>2. \A g \in Context!RemovableGroups(w) : g # {} /\ g \subseteq 1..Len(w)
  BY <1>1 DEF Context!RemovableGroups
<1>3. IsFiniteSet(1..Len(w))
  BY <1>1, FS_Interval
<1>4. IsFiniteSet(SUBSET (1..Len(w)))
  BY <1>3, FS_SUBSET
<1>5. Context!RemovableGroups(w) \in SUBSET (SUBSET (1..Len(w)))
  BY <1>2
<1>6. IsFiniteSet(Context!RemovableGroups(w))
  BY <1>4, <1>5, FS_Subset
<1>. QED
  BY <1>2, <1>6

LEMMA OldestGroupsExist ==
    ASSUME NEW M, NEW w \in Seq(M), Context!RemovableGroups(w) # {}, NEW n \in Int, n >= 1
    PROVE  Context!OldestGroups(Context!RemovableGroups(w), n) # {}
<1>. DEFINE groups == Context!RemovableGroups(w)
            mins == {Min(g) : g \in groups}
<1>1. /\ \A g \in groups : g # {} /\ g \subseteq 1..Len(w)
      /\ IsFiniteSet(groups) /\ groups # {}
  BY GroupsArePlaces
<1>2. Len(w) \in Nat /\ IsFiniteSet(1..Len(w))
  BY FS_Interval
<1>. HIDE DEF groups
<1>3. \A g \in groups : Min(g) \in Nat
  <2>. SUFFICES ASSUME NEW g \in groups PROVE Min(g) \in Nat
    OBVIOUS
  <2>1. g \in SUBSET (1..Len(w)) /\ g # {}
    BY <1>1
  <2>2. IsFiniteSet(g)
    BY <1>2, <2>1, FS_Subset
  <2>3. g \in SUBSET Nat
    BY <2>1
  <2>. QED
    BY <2>1, <2>2, <2>3, Extremes
<1>4. mins \in SUBSET Nat /\ mins # {}
  BY <1>1, <1>3
<1>5. PICK m \in mins : \A y \in mins : <<y, m>> \notin OpToRel(<, Nat)
  BY <1>4, NatLessThanWellFounded, WFMin
<1>6. PICK g \in groups : m = Min(g)
  OBVIOUS
<1>7. {h \in groups : Context!Min(h) < Context!Min(g)} = {}
  <2>. SUFFICES ASSUME NEW h \in groups PROVE ~(Min(h) < Min(g))
    BY SameMin
  <2>1. Min(h) \in mins /\ Min(h) \in Nat /\ Min(g) \in Nat
    BY <1>3
  <2>. QED
    BY <1>5, <1>6, <2>1 DEF OpToRel
<1>8. Context!Cardinality({h \in groups : Context!Min(h) < Context!Min(g)}) < n
  BY <1>7, SameCardinality, FS_EmptySet
<1>9. g \in Context!OldestGroups(groups, n)
  BY <1>8 DEF Context!OldestGroups
<1>. QED
  BY <1>9 DEF groups

LEMMA SummariseListed ==
    ASSUME KeepLast \in Nat, NEW M, Summary \in M, NEW w \in Seq(M), NEW answered
    PROVE  Context!Summarise(w, answered) \in Seq(M)
<1>. DEFINE groups == Context!RemovableGroups(w)
            target == Context!Cardinality(groups) - KeepLast
            gone == UNION Context!OldestGroups(groups, target)
            first == Context!Min(gone)
            head == SubSeq(w, 1, first - 1)
            tail == Context!Without(SubSeq(w, first, Len(w)), {i - first + 1 : i \in gone})
            trimmed == head \o <<Summary>> \o tail
<1>1. /\ \A g \in groups : g # {} /\ g \subseteq 1..Len(w)
      /\ IsFiniteSet(groups)
  BY GroupsArePlaces
<1>2. Len(w) \in Nat /\ IsFiniteSet(1..Len(w))
  BY FS_Interval
<1>3. target \in Int
  BY <1>1, SameCardinality, FS_CardinalityType
<1>4. ASSUME target >= 2 PROVE trimmed \in Seq(M)
  <2>1. groups # {}
    <3>1. Context!Cardinality({}) = 0
      BY SameCardinality, FS_EmptySet
    <3>2. groups = {} => Context!Cardinality(groups) = 0
      BY <3>1, Zenon
    <3>. QED
      BY <1>4, <3>2
  <2>2. Context!OldestGroups(groups, target) # {}
    BY <1>3, <1>4, <2>1, OldestGroupsExist
  <2>3. gone \in SUBSET (1..Len(w)) /\ gone # {}
    BY <1>1, <2>2, ZenonT(40) DEF Context!OldestGroups
  <2>4. IsFiniteSet(gone)
    BY <1>2, <2>3, FS_Subset
  <2>. HIDE DEF gone
  <2>5. first \in gone
    <3>1. gone \in SUBSET Nat
      BY <2>3
    <3>. QED
      BY <2>3, <2>4, <3>1, Extremes, SameMin
  <2>6. first \in 1..Len(w)
    BY <2>3, <2>5
  <2>. HIDE DEF first
  <2>7. head \in Seq(M)
    BY <1>2, <2>6
  <2>8. SubSeq(w, first, Len(w)) \in Seq(M)
    BY <1>2, <2>6
  <2>9. tail \in Seq(M)
    BY <2>8, WithoutWithin
  <2>. HIDE DEF head, tail
  <2>. QED
    BY <2>7, <2>9
<1>5. Context!Summarise(w, answered) =
        IF ~Context!ShouldTrim(w) THEN w
        ELSE IF target < 2 \/ ~answered THEN Context!SlidingWindow(w)
        ELSE IF Context!ShouldTrim(trimmed) THEN Context!SlidingWindow(trimmed) ELSE trimmed
  BY DEF Context!Summarise
<1>. HIDE DEF trimmed, target
<1>. QED
  BY <1>3, <1>4, <1>5, SlidingWindowWithin

-----------------------------------------------------------------------------
(* Messages and their states.                                              *)

Names == Google \cup {"none"}
Ids == {"gemini", "call", "summary"} \X Nat
Parts == [type : {"text", "thought", "call"}, args : Nat, native : Nat,
          sig : [model : Names, answer : Nat], known : BOOLEAN]
Calls == [id : Ids, args : Nat]
CallStates == [id : Ids, args : Nat, native : Nat, at : Nat]
States == [model : Names, calls : Seq(CallStates), parts : Seq(Parts)]
Messages == [kind : {"user", "assistant", "calls", "results"}, calls : Seq(Calls), state : States,
             wrote : [model : Names, parts : Seq(Parts)]]

StateOf(model, parts) == [model |-> model, calls |-> CallsOf(parts), parts |-> parts]

(* A message that carries a state is a message of tool calls, and the      *)
(* state is the one its model's adapter makes of an answer with signatures *)
(* of its own and with the calls of the message.                           *)
Linked(m) ==
    m.state # NoState =>
        /\ m.kind = "calls"
        /\ m.state.model \in Google /\ Signed(m.state.parts)
        /\ \A i \in DOMAIN m.state.parts :
              m.state.parts[i].sig = NoSignature \/ m.state.parts[i].sig.model = m.state.model
        /\ m.state = StateOf(m.state.model, m.state.parts)
        /\ m.calls = Canonical(m.state.calls)

LinkedMessages == {m \in Messages : Linked(m)}

Copies(state, part, k) ==
    /\ state = [id |-> <<"gemini", k>>, args |-> part.args, native |-> part.native, at |-> k]
    /\ part.type = "call"

LEMMA GeminiIds == \A k \in Nat : <<"gemini", k>> \in Ids
BY DEF Ids

LEMMA CallsOfParts ==
    ASSUME NEW parts \in Seq(Parts)
    PROVE  LET calls == CallsOf(parts) IN
           /\ calls \in Seq(CallStates)
           /\ \A n \in 1..Len(calls) :
                 /\ calls[n].at \in 1..Len(parts)
                 /\ Copies(calls[n], parts[calls[n].at], calls[n].at)
           /\ \A i, j \in 1..Len(calls) : i < j => calls[i].at < calls[j].at
           /\ \A k \in 1..Len(parts) : parts[k].type = "call" => \E n \in 1..Len(calls) : calls[n].at = k
<1>. DEFINE S == {i \in DOMAIN parts : parts[i].type = "call"}
            at == InOrder(S)
            calls == CallsOf(parts)
<1>1. DOMAIN parts = 1..Len(parts) /\ Len(parts) \in Nat /\ IsFiniteSet(1..Len(parts))
  BY FS_Interval
<1>2. S \in SUBSET (1..Len(parts)) /\ S \in SUBSET Nat
  BY <1>1
<1>3. IsFiniteSet(S)
  BY <1>1, <1>2, FS_Subset
<1>4. \A i \in S : i \in 1..Len(parts) /\ parts[i].type = "call" /\ parts[i] \in Parts
  BY <1>1
<1>5. \A i \in 1..Len(parts) : parts[i].type = "call" => i \in S
  BY <1>1
<1>6. calls = [n \in DOMAIN at |-> [id |-> <<"gemini", at[n]>>, args |-> parts[at[n]].args,
                                    native |-> parts[at[n]].native, at |-> at[n]]]
  BY DEF CallsOf
<1>. HIDE DEF S, calls
<1>7. /\ at \in [1..Cardinality(S) -> S] /\ Cardinality(S) \in Nat
      /\ \A i, j \in 1..Cardinality(S) : i < j => at[i] < at[j]
      /\ \A x \in S : \E n \in 1..Cardinality(S) : at[n] = x
  BY <1>2, <1>3, InOrderEnumerates
<1>. HIDE DEF at
<1>8. DOMAIN at = 1..Cardinality(S)
  BY <1>7
<1>9. ASSUME NEW n \in 1..Cardinality(S)
      PROVE  /\ calls[n] \in CallStates /\ calls[n].at = at[n] /\ at[n] \in 1..Len(parts)
             /\ Copies(calls[n], parts[calls[n].at], calls[n].at)
  <2>1. at[n] \in S
    BY <1>7
  <2>2. at[n] \in 1..Len(parts) /\ at[n] \in Nat /\ parts[at[n]] \in Parts /\ parts[at[n]].type = "call"
    BY <1>4, <2>1
  <2>3. parts[at[n]].args \in Nat /\ parts[at[n]].native \in Nat
    BY <2>2 DEF Parts
  <2>4. calls[n] = [id |-> <<"gemini", at[n]>>, args |-> parts[at[n]].args,
                    native |-> parts[at[n]].native, at |-> at[n]]
    BY <1>6, <1>8
  <2>5. calls[n].at = at[n]
    BY <2>4
  <2>6. <<"gemini", at[n]>> \in Ids
    BY <2>2, GeminiIds
  <2>7. calls[n] \in CallStates
    BY <2>2, <2>3, <2>4, <2>6 DEF CallStates
  <2>8. Copies(calls[n], parts[at[n]], at[n])
    BY <2>2, <2>4 DEF Copies
  <2>. QED
    BY <2>2, <2>5, <2>7, <2>8
<1>10. calls \in [1..Cardinality(S) -> CallStates]
  BY <1>6, <1>8, <1>9
<1>11. calls \in Seq(CallStates) /\ Len(calls) = Cardinality(S)
  BY <1>7, <1>10
<1>12. \A i, j \in 1..Len(calls) : i < j => calls[i].at < calls[j].at
  <2>1. \A n \in 1..Cardinality(S) : calls[n].at = at[n]
    BY <1>9
  <2>. QED
    BY <1>7, <1>11, <2>1
<1>13. \A k \in 1..Len(parts) : parts[k].type = "call" => \E n \in 1..Len(calls) : calls[n].at = k
  BY <1>5, <1>7, <1>9, <1>11
<1>. QED
  BY <1>9, <1>11, <1>12, <1>13 DEF calls

(* restore and serialise find the state of a message in order, unless it   *)
(* is too long.                                                            *)
LEMMA StateMatches ==
    ASSUME NEW m \in LinkedMessages, m.state # NoState, Short(m.state.parts)
    PROVE  Matches(m.state, m)
<1>. DEFINE parts == m.state.parts
            calls == m.state.calls
            ids == {m.calls[n].id : n \in DOMAIN m.calls}
<1>1. m \in Messages /\ Linked(m)
  BY DEF LinkedMessages
<1>2. parts \in Seq(Parts) /\ m.kind = "calls" /\ m.calls = Canonical(calls) /\ calls = CallsOf(parts)
  BY <1>1 DEF Messages, States, Linked, StateOf
<1>11. Len(parts) <= MaxParts /\ Len(calls) <= MaxToolCalls
  BY <1>2 DEF Short
<1>. HIDE DEF parts, calls
<1>3. /\ calls \in Seq(CallStates)
      /\ \A n \in 1..Len(calls) :
                 /\ calls[n].at \in 1..Len(parts)
                 /\ Copies(calls[n], parts[calls[n].at], calls[n].at)
      /\ \A i, j \in 1..Len(calls) : i < j => calls[i].at < calls[j].at
  BY <1>2, CallsOfParts
<1>4. Len(calls) \in Nat /\ DOMAIN calls = 1..Len(calls) /\ DOMAIN parts = 1..Len(parts)
  BY <1>2, <1>3
<1>5. DOMAIN m.calls = 1..Len(calls)
  BY <1>2, <1>4 DEF Canonical
<1>6. \A n \in 1..Len(calls) : m.calls[n] = [id |-> calls[n].id, args |-> calls[n].args]
  BY <1>2, <1>4 DEF Canonical
<1>7. \A n \in 1..Len(calls) : calls[n].id = <<"gemini", calls[n].at>> /\ calls[n].at \in Nat
  <2>. SUFFICES ASSUME NEW n \in 1..Len(calls)
                PROVE  calls[n].id = <<"gemini", calls[n].at>> /\ calls[n].at \in Nat
    OBVIOUS
  <2>1. calls[n].at \in 1..Len(parts) /\ Copies(calls[n], parts[calls[n].at], calls[n].at)
    BY <1>3
  <2>2. Len(parts) \in Nat
    BY <1>2
  <2>3. calls[n].at \in Nat
    BY <2>1, <2>2
  <2>. DEFINE k == calls[n].at
  <2>. HIDE DEF k
  <2>4. calls[n].id = <<"gemini", k>>
    BY <2>1 DEF Copies, k
  <2>. QED
    BY <2>3, <2>4 DEF k
<1>8. \A i, j \in 1..Len(calls) : i # j => calls[i].id # calls[j].id
  <2>. SUFFICES ASSUME NEW i \in 1..Len(calls), NEW j \in 1..Len(calls), i # j
                PROVE  calls[i].id # calls[j].id
    OBVIOUS
  <2>1. calls[i].at # calls[j].at
    BY <1>3, <1>4, <1>7
  <2>. QED
    BY <1>7, <2>1
<1>9. Cardinality(ids) = Len(calls)
  <2>. DEFINE f == [n \in 1..Len(calls) |-> calls[n].id]
  <2>1. ids = {calls[n].id : n \in 1..Len(calls)}
    <3>1. ASSUME NEW n \in 1..Len(calls) PROVE m.calls[n].id = calls[n].id
      <4>1. m.calls[n] = [id |-> calls[n].id, args |-> calls[n].args]
        BY <1>6
      <4>. QED
        BY <4>1
    <3>. QED
      BY <1>5, <3>1
  <2>2. f \in Bijection(1..Len(calls), ids)
    BY <1>8, <2>1 DEF Bijection, Injection, Surjection, IsInjective
  <2>3. ExistsBijection(1..Len(calls), ids)
    BY <2>2 DEF ExistsBijection
  <2>. QED
    BY <1>4, <2>3, FS_CountingElements
<1>. HIDE DEF ids
<1>10. ASSUME NEW n \in 1..Len(calls)
       PROVE  /\ calls[n].at \in DOMAIN parts
              /\ n > 1 => calls[n].at > calls[n - 1].at
              /\ \A earlier \in 1..(n - 1) : calls[earlier].id # calls[n].id
              /\ \E i \in DOMAIN m.calls : m.calls[i] = [id |-> calls[n].id, args |-> calls[n].args]
              /\ parts[calls[n].at].type = "call"
              /\ parts[calls[n].at].args = calls[n].args
              /\ calls[n].native # NoId => parts[calls[n].at].native = calls[n].native
  <2>1. calls[n].at \in DOMAIN parts
    BY <1>3, <1>4
  <2>2. n > 1 => calls[n].at > calls[n - 1].at
    <3>. SUFFICES ASSUME n > 1 PROVE calls[n].at > calls[n - 1].at
      OBVIOUS
    <3>1. n - 1 \in 1..Len(calls) /\ n - 1 < n
      BY <1>4
    <3>2. calls[n - 1].at < calls[n].at
      BY <1>3, <3>1
    <3>. QED
      BY <1>7, <3>1, <3>2
  <2>3. \A earlier \in 1..(n - 1) : calls[earlier].id # calls[n].id
    BY <1>4, <1>8
  <2>4. \E i \in DOMAIN m.calls : m.calls[i] = [id |-> calls[n].id, args |-> calls[n].args]
    BY <1>5, <1>6
  <2>5. Copies(calls[n], parts[calls[n].at], calls[n].at)
    BY <1>3
  <2>. QED
    BY <2>1, <2>2, <2>3, <2>4, <2>5 DEF Copies
<1>. QED
  BY <1>2, <1>4, <1>9, <1>10, <1>11 DEF Matches, ids, calls, parts

Stripped(m) == [m EXCEPT !.state = NoState]
Carrying(ms) == {i \in 1..Len(ms) : ms[i].state # NoState /\ Short(ms[i].state.parts)}

LEMMA StrippedMatches ==
    ASSUME NEW m \in Messages, NEW state
    PROVE  Matches(state, Stripped(m)) <=> Matches(state, m)
<1>1. Stripped(m).kind = m.kind /\ Stripped(m).calls = m.calls
  BY DEF Stripped, Messages
<1>. QED
  BY <1>1 DEF Matches

LEMMA BareMessages ==
    ASSUME NEW ms \in Seq(Messages)
    PROVE  /\ Len(Bare(ms)) = Len(ms) /\ DOMAIN Bare(ms) = 1..Len(ms)
           /\ \A i \in 1..Len(ms) : Bare(ms)[i] = Stripped(ms[i])
<1>1. DOMAIN ms = 1..Len(ms) /\ Len(ms) \in Nat
  OBVIOUS
<1>2. Bare(ms) = [i \in 1..Len(ms) |-> Stripped(ms[i])]
  BY <1>1 DEF Bare, Stripped
<1>. QED
  BY <1>1, <1>2

LEMMA NoStateIsState == NoState \in States
<1>1. "none" \in Names /\ <<>> \in Seq(CallStates) /\ <<>> \in Seq(Parts)
  BY DEF Names
<1>. QED
  BY <1>1 DEF NoState, States

LEMMA StrippedLinked ==
    ASSUME NEW m \in Messages
    PROVE  Stripped(m) \in LinkedMessages /\ Stripped(m).state = NoState
BY NoStateIsState DEF Stripped, LinkedMessages, Linked, Messages

LEMMA LinkedAreMessages == LinkedMessages \subseteq Messages
BY DEF LinkedMessages

(* What serialise writes of a list of messages.                            *)
LEMMA SerializedOrder ==
    ASSUME NEW ms \in Seq(LinkedMessages)
    PROVE  LET W == Carrying(ms)
               at == InOrder(W) IN
           /\ W \in SUBSET Nat /\ IsFiniteSet(W) /\ Cardinality(W) \in Nat
           /\ Serialized(ms) = [n \in 1..Cardinality(W) |-> [at |-> at[n], state |-> ms[at[n]].state]]
           /\ at \in [1..Cardinality(W) -> W]
           /\ \A i, j \in 1..Cardinality(W) : i < j => at[i] < at[j]
           /\ \A x \in W : \E n \in 1..Cardinality(W) : at[n] = x
<1>. DEFINE W == Carrying(ms)
            at == InOrder(W)
<1>1. DOMAIN ms = 1..Len(ms) /\ Len(ms) \in Nat /\ IsFiniteSet(1..Len(ms))
  BY FS_Interval
<1>2. W \in SUBSET (1..Len(ms)) /\ W \in SUBSET Nat
  BY <1>1 DEF Carrying
<1>3. IsFiniteSet(W)
  BY <1>1, <1>2, FS_Subset
<1>4. {i \in DOMAIN ms : ms[i].state # NoState /\ Matches(ms[i].state, ms[i])} = W
  <2>1. \A i \in 1..Len(ms) : ms[i].state # NoState =>
               (Matches(ms[i].state, ms[i]) <=> Short(ms[i].state.parts))
    <3>. SUFFICES ASSUME NEW i \in 1..Len(ms), ms[i].state # NoState
                  PROVE  Matches(ms[i].state, ms[i]) <=> Short(ms[i].state.parts)
      OBVIOUS
    <3>1. ms[i] \in LinkedMessages
      OBVIOUS
    <3>2. ms[i].state.calls = CallsOf(ms[i].state.parts)
      BY <3>1 DEF LinkedMessages, Linked, StateOf
    <3>. QED
      BY <3>1, <3>2, StateMatches DEF Matches, Short
  <2>. QED
    BY <1>1, <2>1 DEF Carrying
<1>5. Serialized(ms) = [n \in DOMAIN at |-> [at |-> at[n], state |-> ms[at[n]].state]]
  BY <1>4 DEF Serialized
<1>. HIDE DEF W
<1>6. /\ at \in [1..Cardinality(W) -> W] /\ Cardinality(W) \in Nat
      /\ \A i, j \in 1..Cardinality(W) : i < j => at[i] < at[j]
      /\ \A x \in W : \E n \in 1..Cardinality(W) : at[n] = x
  BY <1>2, <1>3, InOrderEnumerates
<1>7. DOMAIN at = 1..Cardinality(W)
  BY <1>6
<1>. HIDE DEF at
<1>8. Serialized(ms) = [n \in 1..Cardinality(W) |-> [at |-> at[n], state |-> ms[at[n]].state]]
  BY <1>5, <1>7
<1>. QED
  BY <1>2, <1>3, <1>6, <1>8 DEF W, at

LEMMA SerializedStates ==
    ASSUME NEW ms \in Seq(LinkedMessages)
    PROVE  LET entries == Serialized(ms)
               W == Carrying(ms) IN
           /\ W \in SUBSET Nat /\ IsFiniteSet(W) /\ Cardinality(W) \in Nat
           /\ DOMAIN entries = 1..Cardinality(W) /\ Len(entries) = Cardinality(W)
           /\ \A n \in 1..Cardinality(W) :
                 entries[n].at \in W /\ entries[n].state = ms[entries[n].at].state
           /\ \A i, j \in 1..Cardinality(W) : i # j => entries[i].at # entries[j].at
           /\ \A x \in W : \E n \in 1..Cardinality(W) : entries[n].at = x
<1>. DEFINE entries == Serialized(ms)
            W == Carrying(ms)
            at == InOrder(W)
<1>1. /\ W \in SUBSET Nat /\ IsFiniteSet(W) /\ Cardinality(W) \in Nat
      /\ entries = [n \in 1..Cardinality(W) |-> [at |-> at[n], state |-> ms[at[n]].state]]
      /\ at \in [1..Cardinality(W) -> W]
      /\ \A i, j \in 1..Cardinality(W) : i < j => at[i] < at[j]
      /\ \A x \in W : \E n \in 1..Cardinality(W) : at[n] = x
  BY SerializedOrder
<1>. HIDE DEF W, entries, at
<1>7. DOMAIN entries = 1..Cardinality(W) /\ Len(entries) = Cardinality(W)
  BY <1>1
<1>8. \A n \in 1..Cardinality(W) : entries[n].at = at[n] /\ entries[n].state = ms[at[n]].state
  BY <1>1
<1>9. \A n \in 1..Cardinality(W) : entries[n].at \in W /\ entries[n].state = ms[entries[n].at].state
  BY <1>1, <1>8
<1>10. \A i, j \in 1..Cardinality(W) : i # j => at[i] # at[j]
  <2>1. \A i \in 1..Cardinality(W) : at[i] \in Nat
    BY <1>1
  <2>2. \A i, j \in 1..Cardinality(W) : i < j \/ j < i \/ i = j
    BY <1>1
  <2>. QED
    BY <1>1, <2>1, <2>2
<1>11. \A i, j \in 1..Cardinality(W) : i # j => entries[i].at # entries[j].at
  BY <1>8, <1>10
<1>12. \A x \in W : \E n \in 1..Cardinality(W) : entries[n].at = x
  BY <1>1, <1>8
<1>. QED
  BY <1>1, <1>7, <1>9, <1>11, <1>12 DEF W, entries

(* The messages a snapshot can hold, with what they carry.                 *)
DurableMessages == {m \in LinkedMessages : Short(m.state.parts)}

LEMMA DurableKeeps ==
    ASSUME NEW ms \in Seq(LinkedMessages)
    PROVE  /\ Durable(ms) \in Seq(DurableMessages) /\ Durable(ms) \in Seq(LinkedMessages)
           /\ Len(Durable(ms)) = Len(ms)
           /\ \A i \in 1..Len(ms) : Durable(ms)[i] = IF Short(ms[i].state.parts) THEN ms[i]
                                                    ELSE Stripped(ms[i])
<1>1. DOMAIN ms = 1..Len(ms) /\ Len(ms) \in Nat
  OBVIOUS
<1>2. Durable(ms) = [i \in 1..Len(ms) |-> IF Short(ms[i].state.parts) THEN ms[i]
                                          ELSE Stripped(ms[i])]
  BY <1>1 DEF Durable, Stripped
<1>3. Short(NoState.parts)
  <2>1. CallsOf(<<>>) = <<>>
    <3>1. /\ {i \in DOMAIN <<>> : <<>>[i].type = "call"} = {}
          /\ {} \in SUBSET Nat /\ IsFiniteSet({}) /\ Cardinality({}) = 0
      BY FS_EmptySet
    <3>2. DOMAIN InOrder({}) = 1..0
      BY <3>1 DEF InOrder
    <3>3. CallsOf(<<>>) = [n \in {} |-> [id |-> <<"gemini", InOrder({})[n]>>,
              args |-> <<>>[InOrder({})[n]].args, native |-> <<>>[InOrder({})[n]].native,
              at |-> InOrder({})[n]]]
      BY <3>1, <3>2 DEF CallsOf
    <3>. QED
      BY <3>3
  <2>2. NoState.parts = <<>> /\ Len(<<>>) = 0
    BY DEF NoState
  <2>3. MaxParts \in Nat /\ MaxToolCalls \in Nat
    BY ReplayAssumption
  <2>. QED
    BY <2>1, <2>2, <2>3 DEF Short
<1>4. ASSUME NEW i \in 1..Len(ms) PROVE Durable(ms)[i] \in DurableMessages
  <2>1. ms[i] \in LinkedMessages /\ ms[i] \in Messages
    BY LinkedAreMessages
  <2>2. Stripped(ms[i]) \in DurableMessages
    BY <1>3, <2>1, StrippedLinked DEF DurableMessages
  <2>. QED
    BY <1>2, <2>1, <2>2 DEF DurableMessages
<1>5. Durable(ms) \in [1..Len(ms) -> DurableMessages]
  BY <1>2, <1>4
<1>6. Durable(ms) \in Seq(DurableMessages) /\ Len(Durable(ms)) = Len(ms)
  BY <1>1, <1>5
<1>7. Durable(ms) \in Seq(LinkedMessages)
  BY <1>6 DEF DurableMessages
<1>. QED
  BY <1>2, <1>6, <1>7

LEMMA DurableItself ==
    ASSUME NEW ms \in Seq(DurableMessages)
    PROVE  ms \in Seq(LinkedMessages) /\ Durable(ms) = ms
<1>1. ms \in Seq(LinkedMessages) /\ DOMAIN ms = 1..Len(ms) /\ Len(ms) \in Nat
  BY DEF DurableMessages
<1>2. \A i \in 1..Len(ms) : Short(ms[i].state.parts)
  BY DEF DurableMessages
<1>3. Durable(ms) = [i \in 1..Len(ms) |-> ms[i]]
  BY <1>1, <1>2 DEF Durable
<1>. QED
  BY <1>1, <1>3

(* A snapshot is that of what it can hold, ...                             *)
LEMMA SnapshotDurable ==
    ASSUME NEW ms \in Seq(LinkedMessages)
    PROVE  Snapshot(Durable(ms)) = Snapshot(ms)
<1>. DEFINE kept == Durable(ms)
            W == Carrying(ms)
<1>1. /\ kept \in Seq(LinkedMessages) /\ Len(kept) = Len(ms)
      /\ \A i \in 1..Len(ms) : kept[i] = IF Short(ms[i].state.parts) THEN ms[i] ELSE Stripped(ms[i])
  BY DurableKeeps
<1>. HIDE DEF kept
<1>2. \A i \in 1..Len(ms) : ms[i] \in Messages /\ kept[i] \in Messages
  BY <1>1, LinkedAreMessages
<1>3. Bare(kept) = Bare(ms)
  <2>1. \A i \in 1..Len(ms) : Stripped(kept[i]) = Stripped(ms[i])
    BY <1>1, <1>2 DEF Stripped, Messages
  <2>2. DOMAIN kept = 1..Len(ms) /\ DOMAIN ms = 1..Len(ms)
    BY <1>1
  <2>3. /\ Bare(kept) = [i \in 1..Len(ms) |-> Stripped(kept[i])]
        /\ Bare(ms) = [i \in 1..Len(ms) |-> Stripped(ms[i])]
    BY <2>2 DEF Bare, Stripped
  <2>. QED
    BY <2>1, <2>3
<1>4. \A i \in 1..Len(ms) : Stripped(ms[i]).state = NoState
  BY <1>2, StrippedLinked
<1>5. Carrying(kept) = W
  BY <1>1, <1>4 DEF Carrying
<1>6. \A i \in W : kept[i].state = ms[i].state
  BY <1>1 DEF Carrying
<1>7. ASSUME NEW some \in Seq(LinkedMessages)
      PROVE  /\ Serialized(some) = [n \in 1..Cardinality(Carrying(some)) |->
                    [at |-> InOrder(Carrying(some))[n],
                     state |-> some[InOrder(Carrying(some))[n]].state]]
             /\ \A n \in 1..Cardinality(Carrying(some)) : InOrder(Carrying(some))[n] \in Carrying(some)
  <2>. DEFINE at == InOrder(Carrying(some))
  <2>1. /\ Serialized(some) = [n \in 1..Cardinality(Carrying(some)) |->
                    [at |-> at[n], state |-> some[at[n]].state]]
        /\ at \in [1..Cardinality(Carrying(some)) -> Carrying(some)]
    BY SerializedOrder
  <2>. QED
    BY <2>1
<1>8. /\ \A n \in 1..Cardinality(W) : InOrder(W)[n] \in W
      /\ Serialized(ms) = [n \in 1..Cardinality(W) |->
                  [at |-> InOrder(W)[n], state |-> ms[InOrder(W)[n]].state]]
  BY <1>7
<1>9. Serialized(kept) = [n \in 1..Cardinality(W) |->
                  [at |-> InOrder(W)[n], state |-> kept[InOrder(W)[n]].state]]
  BY <1>1, <1>5, <1>7
<1>. HIDE DEF W
<1>10. \A n \in 1..Cardinality(W) : kept[InOrder(W)[n]].state = ms[InOrder(W)[n]].state
  BY <1>6, <1>8
<1>11. Serialized(kept) = Serialized(ms)
  BY <1>8, <1>9, <1>10
<1>. QED
  BY <1>3, <1>11 DEF Snapshot, kept

(* ... and restores to it.                                                 *)
LEMMA SnapshotRestores ==
    ASSUME NEW ms \in Seq(LinkedMessages)
    PROVE  Restored(Snapshot(ms)) = Durable(ms)
<1>. DEFINE entries == Serialized(ms)
            W == Carrying(ms)
            K == Cardinality(W)
            stateAt(i) == {n \in DOMAIN entries : entries[n].at = i}
            back(i) == IF stateAt(i) = {} THEN Bare(ms)[i]
                       ELSE [Bare(ms)[i] EXCEPT !.state = entries[Max(stateAt(i))].state]
<1>1. /\ DOMAIN entries = 1..K /\ K \in Nat
      /\ \A n \in 1..K : entries[n].at \in W /\ entries[n].state = ms[entries[n].at].state
      /\ \A i, j \in 1..K : i # j => entries[i].at # entries[j].at
      /\ \A x \in W : \E n \in 1..K : entries[n].at = x
  BY SerializedStates
<1>2. ms \in Seq(Messages)
  BY LinkedAreMessages
<1>3. DOMAIN Bare(ms) = 1..Len(ms) /\ \A i \in 1..Len(ms) : Bare(ms)[i] = Stripped(ms[i])
  BY <1>2, BareMessages
<1>4. Restored(Snapshot(ms)) = [i \in 1..Len(ms) |-> back(i)]
  BY <1>3 DEF Restored, Snapshot
<1>. HIDE DEF entries, K
<1>5. ASSUME NEW i \in 1..Len(ms)
      PROVE  back(i) = IF Short(ms[i].state.parts) THEN ms[i] ELSE Stripped(ms[i])
  <2>1. ms[i] \in Messages
    BY <1>2
  <2>2. CASE i \in W
    <3>1. PICK n \in 1..K : entries[n].at = i
      BY <1>1, <2>2
    <3>2. stateAt(i) = {n}
      BY <1>1, <3>1
    <3>3. n \in Nat
      BY <1>1
    <3>4. Max(stateAt(i)) = n
      BY <3>2, <3>3, SingletonExtremes
    <3>5. entries[n].state = ms[i].state
      BY <1>1, <3>1
    <3>6. back(i) = [Stripped(ms[i]) EXCEPT !.state = ms[i].state]
      BY <1>3, <3>2, <3>4, <3>5
    <3>7. back(i) = ms[i]
      BY <2>1, <3>6 DEF Stripped, Messages
    <3>8. Short(ms[i].state.parts)
      BY <2>2 DEF Carrying
    <3>. QED
      BY <3>7, <3>8
  <2>3. CASE i \notin W
    <3>1. stateAt(i) = {}
      BY <1>1, <2>3
    <3>2. back(i) = Stripped(ms[i])
      BY <1>3, <3>1
    <3>3. Short(ms[i].state.parts) => ms[i].state = NoState
      BY <2>3 DEF Carrying
    <3>4. Short(ms[i].state.parts) => Stripped(ms[i]) = ms[i]
      BY <2>1, <3>3 DEF Stripped, Messages
    <3>. HIDE DEF back
    <3>. QED
      BY <3>2, <3>4
  <2>. QED
    BY <2>2, <2>3
<1>. HIDE DEF back
<1>6. Restored(Snapshot(ms)) = [i \in 1..Len(ms) |-> IF Short(ms[i].state.parts) THEN ms[i]
                                                     ELSE Stripped(ms[i])]
  BY <1>4, <1>5
<1>7. Durable(ms) = [i \in 1..Len(ms) |-> IF Short(ms[i].state.parts) THEN ms[i]
                                          ELSE Stripped(ms[i])]
  <2>1. DOMAIN ms = 1..Len(ms)
    OBVIOUS
  <2>. QED
    BY <2>1 DEF Durable, Stripped
<1>. QED
  BY <1>6, <1>7

(* Of a snapshot that could be made, restore refuses only the number of    *)
(* its states and its parts.                                               *)
Loadable(snapshot) == Len(snapshot.entries) <= MaxEntries /\ Recognised(snapshot.entries)

LEMMA SnapshotAcceptable ==
    ASSUME NEW ms \in Seq(LinkedMessages), Fits(Snapshot(ms).entries)
    PROVE  Acceptable(Snapshot(ms)) <=> Loadable(Snapshot(ms))
<1>. DEFINE entries == Serialized(ms)
            W == Carrying(ms)
            K == Cardinality(W)
<1>1. /\ DOMAIN entries = 1..K /\ K \in Nat
      /\ \A n \in 1..K : entries[n].at \in W /\ entries[n].state = ms[entries[n].at].state
  BY SerializedStates
<1>2. ms \in Seq(Messages)
  BY LinkedAreMessages
<1>3. DOMAIN Bare(ms) = 1..Len(ms) /\ \A i \in 1..Len(ms) : Bare(ms)[i] = Stripped(ms[i])
  BY <1>2, BareMessages
<1>. HIDE DEF entries, K
<1>4. ASSUME NEW n \in 1..K
      PROVE  /\ entries[n].at \in DOMAIN Bare(ms)
             /\ Signed(entries[n].state.parts)
             /\ Matches(entries[n].state, Bare(ms)[entries[n].at])
  <2>. DEFINE i == entries[n].at
  <2>1. i \in W /\ entries[n].state = ms[i].state
    BY <1>1
  <2>. HIDE DEF i
  <2>2. i \in 1..Len(ms) /\ ms[i].state # NoState /\ Short(ms[i].state.parts)
    BY <2>1 DEF Carrying
  <2>3. ms[i] \in LinkedMessages /\ ms[i] \in Messages
    BY <1>2, <2>2
  <2>4. Signed(ms[i].state.parts)
    BY <2>2, <2>3 DEF LinkedMessages, Linked
  <2>5. Matches(ms[i].state, ms[i])
    BY <2>2, <2>3, StateMatches
  <2>6. Matches(ms[i].state, Bare(ms)[i])
    BY <1>3, <2>2, <2>3, <2>5, StrippedMatches
  <2>. QED
    BY <1>3, <2>1, <2>2, <2>4, <2>6 DEF i
<1>5. Snapshot(ms).entries = entries /\ Snapshot(ms).messages = Bare(ms)
  BY DEF Snapshot, entries
<1>. QED
  BY <1>1, <1>4, <1>5 DEF Acceptable, Loadable

-----------------------------------------------------------------------------
(* Copied states.                                                          *)

(* The equation of `reached' in CopyStates, and the list made of it.       *)
Reach(f, source, target) ==
    f = [i \in 0..Len(target) |->
           IF i = 0 THEN 0
           ELSE LET from == Sources(source, f[i - 1], target[i])
                IN  IF from = {} THEN Len(source) ELSE Min(from)]

Copied(g, source, target) ==
    [i \in DOMAIN target |->
       LET from == Sources(source, g[i - 1], target[i])
       IN  IF from = {} THEN target[i]
           ELSE [target[i] EXCEPT !.state = source[Min(from)].state]]

LEMMA SourcesArePlaces ==
    ASSUME NEW source, Len(source) \in Nat, NEW after \in 0..Len(source), NEW m
    PROVE  LET from == Sources(source, after, m) IN
           /\ \A j \in from : j \in 1..Len(source) /\ after < j /\ SameMessage(source[j], m)
           /\ from # {} => Min(from) \in from /\ \A j \in from : Min(from) <= j
<1>. DEFINE from == Sources(source, after, m)
<1>1. \A j \in from : j \in 1..Len(source) /\ after < j /\ SameMessage(source[j], m)
  BY DEF Sources
<1>2. from \in SUBSET (1..Len(source)) /\ from \in SUBSET Nat
  BY <1>1
<1>3. IsFiniteSet(from)
  <2>1. IsFiniteSet(1..Len(source))
    BY FS_Interval
  <2>. QED
    BY <1>2, <2>1, FS_Subset
<1>. HIDE DEF from
<1>4. from # {} => Min(from) \in from /\ \A j \in from : Min(from) <= j
  BY <1>2, <1>3, Extremes
<1>. QED
  BY <1>1, <1>4 DEF from

LEMMA ReachExists ==
    ASSUME NEW source, NEW target, Len(source) \in Nat, Len(target) \in Nat
    PROVE  \E f : Reach(f, source, target)
<1>. DEFINE k == Len(target)
            A == 0..Len(source)
            jump(i, x) == IF Sources(source, x, target[i]) = {} THEN Len(source)
                          ELSE Min(Sources(source, x, target[i]))
            step == [i \in 1..k |-> [x \in A |-> jump(i, x)]]
<1>1. \A i \in 1..k : \A x \in A : step[i][x] = jump(i, x)
  <2>. HIDE DEF jump, A, k
  <2>. QED
    OBVIOUS
<1>2. \A i \in 1..k : \A x \in A : jump(i, x) \in A
  <2>. SUFFICES ASSUME NEW i \in 1..k, NEW x \in A PROVE jump(i, x) \in A
    OBVIOUS
  <2>1. CASE Sources(source, x, target[i]) = {}
    BY <2>1
  <2>2. CASE Sources(source, x, target[i]) # {}
    <3>1. Min(Sources(source, x, target[i])) \in 1..Len(source)
      BY <2>2, SourcesArePlaces
    <3>. QED
      BY <2>2, <3>1
  <2>. QED
    BY <2>1, <2>2
<1>3. StaysIn(step, k, A)
  <2>. HIDE DEF jump, A, k, step
  <2>. QED
    BY <1>1, <1>2 DEF StaysIn
<1>4. 0 \in A /\ k \in Nat
  OBVIOUS
<1>. HIDE DEF jump, A, k, step
<1>5. PICK f : Walk(f, k, A, 0, step)
  BY <1>3, <1>4, Walks
<1>6. \A i \in 1..k : f[i] = jump(i, f[i - 1])
  <2>. SUFFICES ASSUME NEW i \in 1..k PROVE f[i] = jump(i, f[i - 1])
    OBVIOUS
  <2>1. f[i - 1] \in A
    BY <1>4, <1>5 DEF Walk
  <2>. QED
    BY <1>1, <1>5, <2>1 DEF Walk
<1>. DEFINE value(i) == IF i = 0 THEN 0 ELSE jump(i, f[i - 1])
<1>7. \A i \in 0..k : f[i] = value(i)
  BY <1>4, <1>5, <1>6 DEF Walk
<1>8. f = [i \in 0..k |-> value(i)]
  <2>. HIDE DEF value
  <2>. QED
    BY <1>5, <1>7 DEF Walk
<1>9. Reach(f, source, target)
  BY <1>8 DEF Reach, k, jump
<1>. QED
  BY <1>9

(* The walk of copyGoogleReplayStatesByMessage.                            *)
CopyWalk(g, source, target) ==
    /\ g[0] = 0
    /\ \A i \in 0..Len(target) : g[i] \in 0..Len(source)
    /\ \A i \in 1..Len(target) :
          g[i] = IF Sources(source, g[i - 1], target[i]) = {} THEN Len(source)
                 ELSE Min(Sources(source, g[i - 1], target[i]))

LEMMA CopyWalks ==
    ASSUME NEW source, NEW target, Len(source) \in Nat, Len(target) \in Nat
    PROVE  \E g : CopyWalk(g, source, target) /\ CopyStates(source, target) = Copied(g, source, target)
<1>1. \E f : Reach(f, source, target)
  BY ReachExists
<1>. DEFINE g == CHOOSE f : Reach(f, source, target)
<1>2. Reach(g, source, target)
  BY <1>1
<1>3. CopyStates(source, target) = Copied(g, source, target)
  BY DEF CopyStates, Copied, Reach
<1>. HIDE DEF g
<1>4. g[0] = 0
  BY <1>2 DEF Reach
<1>5. \A i \in 1..Len(target) :
          g[i] = IF Sources(source, g[i - 1], target[i]) = {} THEN Len(source)
                 ELSE Min(Sources(source, g[i - 1], target[i]))
  <2>. DEFINE value(i) == IF i = 0 THEN 0
                          ELSE IF Sources(source, g[i - 1], target[i]) = {} THEN Len(source)
                          ELSE Min(Sources(source, g[i - 1], target[i]))
  <2>1. g = [i \in 0..Len(target) |-> value(i)]
    BY <1>2 DEF Reach
  <2>2. \A i \in 1..Len(target) : value(i) =
              IF Sources(source, g[i - 1], target[i]) = {} THEN Len(source)
              ELSE Min(Sources(source, g[i - 1], target[i]))
    <3>1. \A i \in 1..Len(target) : i # 0
      OBVIOUS
    <3>. QED
      BY <3>1, Zenon DEF value
  <2>. HIDE DEF value
  <2>3. \A i \in 1..Len(target) : g[i] = value(i)
    BY <2>1
  <2>. QED
    BY <2>2, <2>3, Zenon
<1>. DEFINE T == {n \in Nat : n <= Len(target) => g[n] \in 0..Len(source)}
<1>6. 0 \in T
  BY <1>4
<1>7. ASSUME NEW n \in Nat, n \in T PROVE n + 1 \in T
  <2>. SUFFICES ASSUME n + 1 <= Len(target) PROVE g[n + 1] \in 0..Len(source)
    OBVIOUS
  <2>1. g[n] \in 0..Len(source) /\ n + 1 \in 1..Len(target) /\ (n + 1) - 1 = n
    BY <1>7
  <2>2. g[n + 1] = IF Sources(source, g[n], target[n + 1]) = {} THEN Len(source)
                   ELSE Min(Sources(source, g[n], target[n + 1]))
    BY <1>5, <2>1
  <2>3. CASE Sources(source, g[n], target[n + 1]) = {}
    BY <2>2, <2>3
  <2>4. CASE Sources(source, g[n], target[n + 1]) # {}
    <3>1. Min(Sources(source, g[n], target[n + 1])) \in 1..Len(source)
      BY <2>1, <2>4, SourcesArePlaces
    <3>. QED
      BY <2>2, <2>4, <3>1
  <2>. QED
    BY <2>3, <2>4
<1>. HIDE DEF T
<1>8. Nat \subseteq T
  BY <1>6, <1>7, NatSetInduction
<1>9. \A i \in 0..Len(target) : g[i] \in 0..Len(source)
  BY <1>8 DEF T
<1>. QED
  BY <1>3, <1>4, <1>5, <1>9 DEF CopyWalk

(* A copied message is the message with the state of a source like it.     *)
CopyOf(c, m, source) ==
    \E j \in 1..Len(source) : SameMessage(source[j], m) /\ c = [m EXCEPT !.state = source[j].state]

LEMMA CopiesOrNothing ==
    ASSUME NEW source, NEW target, NEW M, source \in Seq(M), target \in Seq(M)
    PROVE  LET copies == CopyStates(source, target) IN
           /\ DOMAIN copies = 1..Len(target)
           /\ \A i \in 1..Len(target) : copies[i] = target[i] \/ CopyOf(copies[i], target[i], source)
<1>1. Len(source) \in Nat /\ Len(target) \in Nat /\ DOMAIN target = 1..Len(target)
  OBVIOUS
<1>2. PICK g : CopyWalk(g, source, target) /\ CopyStates(source, target) = Copied(g, source, target)
  BY <1>1, CopyWalks
<1>. DEFINE copies == CopyStates(source, target)
<1>3. DOMAIN copies = 1..Len(target)
  BY <1>1, <1>2 DEF Copied
<1>4. ASSUME NEW i \in 1..Len(target)
      PROVE  copies[i] = target[i] \/ CopyOf(copies[i], target[i], source)
  <2>. DEFINE from == Sources(source, g[i - 1], target[i])
  <2>1. copies[i] = IF from = {} THEN target[i]
                    ELSE [target[i] EXCEPT !.state = source[Min(from)].state]
    BY <1>1, <1>2 DEF Copied
  <2>2. g[i - 1] \in 0..Len(source)
    <3>1. i - 1 \in 0..Len(target)
      BY <1>1
    <3>. QED
      BY <1>2, <3>1 DEF CopyWalk
  <2>3. from # {} => Min(from) \in 1..Len(source) /\ SameMessage(source[Min(from)], target[i])
    BY <1>1, <2>2, SourcesArePlaces
  <2>. HIDE DEF from, copies
  <2>. QED
    BY <2>1, <2>3 DEF CopyOf
<1>. QED
  BY <1>3, <1>4

(* When the target keeps the order of the source, every message finds one. *)
LEMMA KeptOrderCopies ==
    ASSUME NEW source, NEW target, NEW M, source \in Seq(M), target \in Seq(M),
           NEW e, Increasing(e, target, source),
           \A i \in 1..Len(target) : SameMessage(source[e[i]], target[i])
    PROVE  \A i \in 1..Len(target) : CopyOf(CopyStates(source, target)[i], target[i], source)
<1>1. Len(source) \in Nat /\ Len(target) \in Nat /\ DOMAIN target = 1..Len(target)
  OBVIOUS
<1>2. PICK g : CopyWalk(g, source, target) /\ CopyStates(source, target) = Copied(g, source, target)
  BY <1>1, CopyWalks
<1>. DEFINE from(i) == Sources(source, g[i - 1], target[i])
            T == {n \in Nat : n <= Len(target) =>
                     \A i \in 1..Len(target) : n < i => g[n] < e[i]}
<1>3. \A i \in 1..Len(target) : g[i - 1] \in 0..Len(source)
  <2>1. \A i \in 1..Len(target) : i - 1 \in 0..Len(target)
    BY <1>1
  <2>. QED
    BY <1>2, <2>1 DEF CopyWalk
<1>4. ASSUME NEW i \in 1..Len(target), g[i - 1] < e[i]
      PROVE  e[i] \in from(i) /\ from(i) # {} /\ Min(from(i)) \in from(i) /\ Min(from(i)) <= e[i]
  <2>1. e[i] \in 1..Len(source)
    BY DEF Increasing
  <2>2. e[i] \in g[i - 1] + 1..Len(source)
    BY <1>1, <1>3, <1>4, <2>1
  <2>3. e[i] \in from(i)
    BY <2>2 DEF Sources
  <2>. QED
    BY <1>1, <1>3, <2>3, SourcesArePlaces
<1>5. 0 \in T
  <2>1. g[0] = 0
    BY <1>2 DEF CopyWalk
  <2>2. \A i \in 1..Len(target) : e[i] \in 1..Len(source)
    BY DEF Increasing
  <2>. QED
    BY <1>1, <2>1, <2>2
<1>6. ASSUME NEW n \in Nat, n \in T PROVE n + 1 \in T
  <2>. SUFFICES ASSUME n + 1 <= Len(target), NEW i \in 1..Len(target), n + 1 < i
                PROVE  g[n + 1] < e[i]
    OBVIOUS
  <2>1. n + 1 \in 1..Len(target) /\ (n + 1) - 1 = n
    BY <1>1
  <2>2. g[n] < e[n + 1]
    BY <1>1, <1>6, <2>1
  <2>. HIDE DEF from, T
  <2>3. from(n + 1) # {} /\ Min(from(n + 1)) \in from(n + 1) /\ Min(from(n + 1)) <= e[n + 1]
    BY <1>4, <2>1, <2>2
  <2>4. g[n + 1] = Min(from(n + 1))
    BY <1>2, <2>1, <2>3 DEF CopyWalk, from
  <2>5. e[n + 1] < e[i] /\ e[n + 1] \in Nat /\ e[i] \in Nat
    BY <1>1, <2>1 DEF Increasing
  <2>6. g[n + 1] \in Nat
    BY <1>1, <1>2, <2>1 DEF CopyWalk
  <2>. QED
    BY <2>3, <2>4, <2>5, <2>6
<1>. HIDE DEF T
<1>7. Nat \subseteq T
  BY <1>5, <1>6, NatSetInduction
<1>8. ASSUME NEW i \in 1..Len(target)
      PROVE  CopyOf(CopyStates(source, target)[i], target[i], source)
  <2>1. g[i - 1] < e[i]
    <3>1. i - 1 \in T /\ i - 1 <= Len(target) /\ i - 1 < i
      BY <1>1, <1>7
    <3>. QED
      BY <3>1 DEF T
  <2>. DEFINE j == Min(from(i))
  <2>2. from(i) # {} /\ j \in from(i)
    BY <1>4, <2>1
  <2>3. j \in 1..Len(source) /\ SameMessage(source[j], target[i])
    BY <1>1, <1>3, <2>2, SourcesArePlaces
  <2>4. CopyStates(source, target)[i] = [target[i] EXCEPT !.state = source[j].state]
    BY <1>1, <1>2, <2>2 DEF Copied
  <2>. QED
    BY <2>3, <2>4 DEF CopyOf
<1>. QED
  BY <1>8

LEMMA CopyIsLinked ==
    ASSUME NEW source \in Seq(LinkedMessages), NEW m \in Messages, NEW c, CopyOf(c, m, source)
    PROVE  c \in LinkedMessages /\ c.kind = m.kind /\ c.calls = m.calls /\ c.wrote = m.wrote
<1>1. PICK j \in 1..Len(source) : SameMessage(source[j], m) /\ c = [m EXCEPT !.state = source[j].state]
  BY DEF CopyOf
<1>2. source[j] \in LinkedMessages
  OBVIOUS
<1>3. source[j] \in Messages /\ Linked(source[j])
  BY <1>2 DEF LinkedMessages
<1>4. source[j].kind = m.kind /\ source[j].calls = m.calls
  BY <1>1 DEF SameMessage
<1>5. source[j].state \in States
  BY <1>3 DEF Messages
<1>6. /\ c \in Messages /\ c.state = source[j].state
      /\ c.kind = m.kind /\ c.calls = m.calls /\ c.wrote = m.wrote
  BY <1>1, <1>5 DEF Messages
<1>7. Linked(c)
  BY <1>3, <1>4, <1>6 DEF Linked
<1>. QED
  BY <1>6, <1>7 DEF LinkedMessages

LEMMA BareLinked ==
    ASSUME NEW ms \in Seq(Messages)
    PROVE  Bare(ms) \in Seq(LinkedMessages) /\ Len(Bare(ms)) = Len(ms)
<1>1. Len(ms) \in Nat /\ Len(Bare(ms)) = Len(ms) /\ DOMAIN Bare(ms) = 1..Len(ms)
  BY BareMessages
<1>2. \A i \in 1..Len(ms) : Bare(ms)[i] \in LinkedMessages
  <2>. SUFFICES ASSUME NEW i \in 1..Len(ms) PROVE Bare(ms)[i] \in LinkedMessages
    OBVIOUS
  <2>1. ms[i] \in Messages
    OBVIOUS
  <2>. QED
    BY <2>1, BareMessages, StrippedLinked
<1>3. DOMAIN ms = 1..Len(ms)
  OBVIOUS
<1>4. Bare(ms) = [i \in 1..Len(ms) |-> Bare(ms)[i]]
  BY <1>1, <1>3 DEF Bare
<1>5. Bare(ms) \in [1..Len(ms) -> LinkedMessages]
  BY <1>2, <1>4
<1>. QED
  BY <1>1, <1>5

LEMMA CopiesAreLinked ==
    ASSUME NEW source \in Seq(LinkedMessages), NEW target \in Seq(LinkedMessages)
    PROVE  CopyStates(source, target) \in Seq(LinkedMessages)
<1>. DEFINE copies == CopyStates(source, target)
<1>1. /\ DOMAIN copies = 1..Len(target)
      /\ \A i \in 1..Len(target) : copies[i] = target[i] \/ CopyOf(copies[i], target[i], source)
  BY CopiesOrNothing
<1>2. \E g : copies = Copied(g, source, target)
  <2>1. Len(source) \in Nat /\ Len(target) \in Nat
    OBVIOUS
  <2>. QED
    BY <2>1, CopyWalks
<1>3. copies = [i \in 1..Len(target) |-> copies[i]]
  <2>1. DOMAIN target = 1..Len(target)
    OBVIOUS
  <2>2. PICK g : copies = Copied(g, source, target)
    BY <1>2
  <2>. HIDE DEF copies
  <2>. QED
    BY <2>1, <2>2 DEF Copied
<1>. HIDE DEF copies
<1>4. \A i \in 1..Len(target) : copies[i] \in LinkedMessages
  <2>. SUFFICES ASSUME NEW i \in 1..Len(target) PROVE copies[i] \in LinkedMessages
    OBVIOUS
  <2>1. target[i] \in LinkedMessages /\ target[i] \in Messages
    BY LinkedAreMessages
  <2>. QED
    BY <1>1, <2>1, CopyIsLinked
<1>5. copies \in [1..Len(target) -> LinkedMessages]
  BY <1>3, <1>4
<1>6. Len(target) \in Nat
  OBVIOUS
<1>7. copies \in Seq(LinkedMessages)
  BY <1>5, <1>6
<1>. QED
  BY <1>7 DEF copies

-----------------------------------------------------------------------------
(* The messages of a turn.                                                 *)

LEMMA PlainMessages ==
    /\ User \in LinkedMessages /\ Summary \in LinkedMessages
    /\ \A calls \in Seq(Calls) : Results(calls) \in LinkedMessages
<1>1. NoState \in States /\ "none" \in Names /\ <<>> \in Seq(Parts) /\ <<>> \in Seq(Calls)
  BY NoStateIsState DEF Names
<1>2. Nobody \in [model : Names, parts : Seq(Parts)]
  BY <1>1 DEF Nobody
<1>3. <<[id |-> <<"summary", 0>>, args |-> 0]>> \in Seq(Calls)
  <2>1. <<"summary", 0>> \in Ids
    BY DEF Ids
  <2>2. [id |-> <<"summary", 0>>, args |-> 0] \in Calls
    BY <2>1 DEF Calls
  <2>. QED
    BY <2>2
<1>. QED
  BY <1>1, <1>2, <1>3 DEF User, Summary, Results, Message, LinkedMessages, Messages, Linked

LEMMA PreparedLinked ==
    ASSUME NEW ms \in Seq(LinkedMessages), NEW answered
    PROVE  Prepared(ms, answered) \in Seq(LinkedMessages)
<1>1. Context!SlidingWindow(ms) \in Seq(LinkedMessages)
  BY SlidingWindowWithin
<1>2. Context!Summarise(ms, answered) \in Seq(LinkedMessages)
  BY ReplayAssumption, PlainMessages, SummariseListed
<1>3. \A w \in Seq(LinkedMessages) : Bare(w) \in Seq(LinkedMessages)
  BY LinkedAreMessages, BareLinked
<1>. QED
  BY <1>1, <1>2, <1>3, CopiesAreLinked DEF Prepared

(* The parts of an answer, and who signed them.                            *)
LEMMA AnswerParts ==
    ASSUME NEW g \in Google, NEW parts \in GoogleAnswers(g), answers \in Nat \ {0}
    PROVE  /\ parts \in Seq(Parts)
           /\ \A i \in 1..Len(parts) :
                 /\ parts[i].sig = NoSignature \/ parts[i].sig.model = g
                 /\ parts[i].type = "call" => parts[i].args = Arguments
           /\ Signed(parts) => \E i \in 1..Len(parts) : parts[i].type = "call"
<1>. DEFINE token == [model |-> g, answer |-> answers]
            call(named, signed) == Part("call", Arguments, IF named THEN answers ELSE NoId,
                                        IF signed THEN token ELSE NoSignature)
            single == {<<call(n, s)>> : n, s \in BOOLEAN}
            both == call(TRUE, TRUE)
            unsigned == call(TRUE, FALSE)
            text == Part("text", 0, NoId, NoSignature)
            thought == Part("thought", 0, NoId, NoSignature)
            strange == Strange(thought)
            Fine(p) == /\ p \in Parts /\ (p.sig = NoSignature \/ p.sig.model = g)
                       /\ p.type = "call" => p.args = Arguments
            Calling(p) == Fine(p) /\ p.type = "call"
<1>1. /\ token \in [model : Names, answer : Nat] /\ NoSignature \in [model : Names, answer : Nat]
      /\ Arguments \in Nat
  BY DEF Names, NoSignature, Arguments
<1>2. \A n, s \in BOOLEAN : Calling(call(n, s))
  BY <1>1 DEF Part, Parts, NoId
<1>3. Calling(both) /\ Calling(unsigned)
  BY <1>1 DEF Part, Parts, NoId
<1>4. Fine(text) /\ Fine(thought) /\ Fine(strange) /\ text.sig = NoSignature
  BY <1>1 DEF Part, Parts, NoId, Strange
<1>5. \/ parts \in {<<text>>}
      \/ parts \in single
      \/ parts \in {<<thought, both>>, <<strange, both>>}
      \/ parts \in IF MaxCalls = 1 THEN {} ELSE {<<both, unsigned>>}
  BY DEF GoogleAnswers
<1>. HIDE DEF Calling, both, unsigned, text, thought, strange
<1>6. parts \in single => \E x : Calling(x) /\ parts = <<x>>
  <2>. SUFFICES ASSUME parts \in single
                PROVE  \E x : Calling(x) /\ parts = <<x>>
    OBVIOUS
  <2>. HIDE DEF call
  <2>1. PICK n \in BOOLEAN, s \in BOOLEAN : parts = <<call(n, s)>>
    OBVIOUS
  <2>2. Calling(call(n, s))
    BY <1>2
  <2>. QED
    BY <2>1, <2>2, Zenon
<1>. HIDE DEF call, single
<1>7. \/ parts = <<text>>
      \/ \E x : Calling(x) /\ parts = <<x>>
      \/ parts = <<thought, both>> \/ parts = <<strange, both>>
      \/ parts = <<both, unsigned>>
  <2>3. parts \in {<<thought, both>>, <<strange, both>>} =>
            parts = <<thought, both>> \/ parts = <<strange, both>>
    BY Zenon
  <2>1. CASE MaxCalls = 1
    BY <1>5, <1>6, <2>1, <2>3, Zenon
  <2>2. CASE MaxCalls # 1
    <3>1. parts \in {<<both, unsigned>>} <=> parts \in IF MaxCalls = 1 THEN {} ELSE {<<both, unsigned>>}
      BY <2>2, Zenon
    <3>2. parts \in {<<both, unsigned>>} => parts = <<both, unsigned>>
      BY Zenon
    <3>. QED
      BY <1>5, <1>6, <2>3, <3>1, <3>2, Zenon
  <2>. QED
    BY <2>1, <2>2
<1>8. \A x : Fine(x) => <<x>> \in Seq(Parts) /\ Len(<<x>>) = 1 /\ <<x>>[1] = x
  OBVIOUS
<1>9. \A x, y : Fine(x) /\ Fine(y) => /\ <<x, y>> \in Seq(Parts) /\ Len(<<x, y>>) = 2
                                      /\ <<x, y>>[1] = x /\ <<x, y>>[2] = y
  OBVIOUS
<1>10. \A x : Calling(x) => Fine(x) /\ x.type = "call"
  BY DEF Calling
<1>. HIDE DEF Fine
<1>11. CASE parts = <<text>>
  <2>1. parts \in Seq(Parts) /\ Len(parts) = 1 /\ parts[1] = text
    BY <1>4, <1>8, <1>11
  <2>2. ~Signed(parts)
    BY <1>4, <2>1 DEF Signed
  <2>. QED
    BY <1>4, <2>1, <2>2 DEF Fine
<1>12. ASSUME NEW x, Calling(x), parts = <<x>>
       PROVE  /\ parts \in Seq(Parts)
              /\ \A i \in 1..Len(parts) : Fine(parts[i])
              /\ \E i \in 1..Len(parts) : parts[i].type = "call"
  <2>1. Fine(x) /\ x.type = "call"
    BY <1>10, <1>12
  <2>2. parts \in Seq(Parts) /\ Len(parts) = 1 /\ parts[1] = x
    BY <1>8, <1>12, <2>1
  <2>. QED
    BY <2>1, <2>2
<1>13. ASSUME NEW x, NEW y, Fine(x), Fine(y), x.type = "call" \/ y.type = "call", parts = <<x, y>>
       PROVE  /\ parts \in Seq(Parts)
              /\ \A i \in 1..Len(parts) : Fine(parts[i])
              /\ \E i \in 1..Len(parts) : parts[i].type = "call"
  <2>1. parts \in Seq(Parts) /\ Len(parts) = 2 /\ parts[1] = x /\ parts[2] = y
    BY <1>9, <1>13
  <2>2. \A i \in 1..Len(parts) : i = 1 \/ i = 2
    BY <2>1
  <2>3. \A i \in 1..Len(parts) : Fine(parts[i])
    BY <1>13, <2>1, <2>2
  <2>4. 1 \in 1..Len(parts) /\ 2 \in 1..Len(parts)
    BY <2>1
  <2>5. \E i \in 1..Len(parts) : parts[i].type = "call"
    BY <1>13, <2>1, <2>4
  <2>. QED
    BY <2>1, <2>3, <2>5
<1>14. CASE parts # <<text>>
  <2>1. /\ parts \in Seq(Parts)
        /\ \A i \in 1..Len(parts) : Fine(parts[i])
        /\ \E i \in 1..Len(parts) : parts[i].type = "call"
    BY <1>3, <1>4, <1>7, <1>10, <1>12, <1>13, <1>14, Zenon
  <2>. QED
    BY <2>1 DEF Fine
<1>. QED
  BY <1>11, <1>14

LEMMA CanonicalCalls ==
    ASSUME NEW calls \in Seq(CallStates)
    PROVE  /\ Canonical(calls) \in Seq(Calls) /\ Len(Canonical(calls)) = Len(calls)
           /\ \A n \in 1..Len(calls) : /\ Canonical(calls)[n].id = calls[n].id
                                       /\ Canonical(calls)[n].args = calls[n].args
<1>1. DOMAIN calls = 1..Len(calls) /\ Len(calls) \in Nat
  OBVIOUS
<1>2. \A n \in 1..Len(calls) : calls[n] \in CallStates
  OBVIOUS
<1>3. \A n \in 1..Len(calls) : [id |-> calls[n].id, args |-> calls[n].args] \in Calls
  BY <1>2 DEF CallStates, Calls
<1>4. Canonical(calls) = [n \in 1..Len(calls) |-> [id |-> calls[n].id, args |-> calls[n].args]]
  BY <1>1 DEF Canonical
<1>5. Canonical(calls) \in [1..Len(calls) -> Calls]
  BY <1>3, <1>4
<1>6. Canonical(calls) \in Seq(Calls) /\ Len(Canonical(calls)) = Len(calls)
  BY <1>1, <1>5
<1>7. ASSUME NEW n \in 1..Len(calls)
      PROVE  Canonical(calls)[n].id = calls[n].id /\ Canonical(calls)[n].args = calls[n].args
  <2>1. Canonical(calls)[n] = [id |-> calls[n].id, args |-> calls[n].args]
    BY <1>4
  <2>. QED
    BY <2>1
<1>. QED
  BY <1>6, <1>7

LEMMA GoogleMessageLinked ==
    ASSUME NEW g \in Google, NEW parts \in GoogleAnswers(g), answers \in Nat \ {0}
    PROVE  LET m == GoogleMessage(g, parts) IN
           /\ m \in LinkedMessages
           /\ m.kind \in {"assistant", "calls"}
           /\ m.kind = "assistant" => ~Signed(m.wrote.parts)
           /\ Signed(m.wrote.parts) => m.state = StateOf(m.wrote.model, m.wrote.parts)
           /\ m.kind = "calls" => /\ 1 \in DOMAIN m.calls
                                  /\ \A n \in DOMAIN m.calls : m.calls[n].args = Arguments
<1>. DEFINE m == GoogleMessage(g, parts)
            calls == CallsOf(parts)
<1>1. /\ parts \in Seq(Parts)
      /\ \A i \in 1..Len(parts) :
                 /\ parts[i].sig = NoSignature \/ parts[i].sig.model = g
                 /\ parts[i].type = "call" => parts[i].args = Arguments
      /\ Signed(parts) => \E i \in 1..Len(parts) : parts[i].type = "call"
  BY AnswerParts
<1>2. /\ calls \in Seq(CallStates)
      /\ \A n \in 1..Len(calls) :
                 /\ calls[n].at \in 1..Len(parts)
                 /\ Copies(calls[n], parts[calls[n].at], calls[n].at)
      /\ \A k \in 1..Len(parts) : parts[k].type = "call" => \E n \in 1..Len(calls) : calls[n].at = k
  BY <1>1, CallsOfParts
<1>3. /\ Canonical(calls) \in Seq(Calls) /\ Len(Canonical(calls)) = Len(calls)
      /\ \A n \in 1..Len(calls) : Canonical(calls)[n].args = calls[n].args
  BY <1>2, CanonicalCalls
<1>4. \A n \in 1..Len(calls) : calls[n].args = Arguments
  <2>. SUFFICES ASSUME NEW n \in 1..Len(calls) PROVE calls[n].args = Arguments
    OBVIOUS
  <2>. DEFINE k == calls[n].at
  <2>1. k \in 1..Len(parts) /\ Copies(calls[n], parts[k], k)
    BY <1>2
  <2>. HIDE DEF k
  <2>2. calls[n].args = parts[k].args /\ parts[k].type = "call"
    BY <2>1 DEF Copies
  <2>. QED
    BY <1>1, <2>1, <2>2
<1>5. g \in Names
  BY DEF Names
<1>6. calls = <<>> <=> Len(calls) = 0
  BY <1>2
<1>7. Signed(parts) => calls # <<>>
  <2>. SUFFICES ASSUME Signed(parts) PROVE calls # <<>>
    OBVIOUS
  <2>1. PICK n \in 1..Len(calls) : TRUE
    BY <1>1, <1>2
  <2>2. Len(calls) \in Nat
    BY <1>2
  <2>. QED
    BY <1>6, <2>1, <2>2
<1>. HIDE DEF calls
<1>8. /\ m.kind = IF calls = <<>> THEN "assistant" ELSE "calls"
      /\ m.calls = Canonical(calls)
      /\ m.state = Attached(g, parts)
      /\ m.wrote = [model |-> g, parts |-> parts]
      /\ m = Message(m.kind, Canonical(calls), Attached(g, parts), [model |-> g, parts |-> parts])
  BY DEF GoogleMessage, Message, calls
<1>9. Attached(g, parts) = IF calls # <<>> /\ Signed(parts) THEN StateOf(g, parts) ELSE NoState
  BY DEF Attached, StateOf, calls
<1>10. StateOf(g, parts) \in States
  BY <1>1, <1>2, <1>5 DEF StateOf, States, calls
<1>11. Attached(g, parts) \in States
  BY <1>9, <1>10, NoStateIsState
<1>12. m \in Messages
  BY <1>1, <1>3, <1>5, <1>8, <1>11 DEF Message, Messages
<1>13. Linked(m)
  <2>1. CASE calls # <<>> /\ Signed(parts)
    <3>1. m.state = StateOf(g, parts) /\ m.kind = "calls" /\ m.calls = Canonical(calls)
      BY <1>8, <1>9, <2>1
    <3>2. m.state.model = g /\ m.state.parts = parts /\ m.state.calls = calls
      BY <3>1 DEF StateOf, calls
    <3>3. DOMAIN parts = 1..Len(parts)
      BY <1>1
    <3>. QED
      BY <1>1, <2>1, <3>1, <3>2, <3>3 DEF Linked
  <2>2. CASE ~(calls # <<>> /\ Signed(parts))
    BY <1>8, <1>9, <2>2 DEF Linked
  <2>. QED
    BY <2>1, <2>2
<1>14. Signed(m.wrote.parts) => m.state = StateOf(m.wrote.model, m.wrote.parts)
  BY <1>7, <1>8, <1>9
<1>15. m.kind = "assistant" => ~Signed(m.wrote.parts)
  BY <1>7, <1>8
<1>16. ASSUME m.kind = "calls"
       PROVE  1 \in DOMAIN m.calls /\ \A n \in DOMAIN m.calls : m.calls[n].args = Arguments
  <2>1. Len(calls) # 0 /\ Len(calls) \in Nat
    BY <1>2, <1>6, <1>8, <1>16 DEF calls
  <2>2. DOMAIN m.calls = 1..Len(calls)
    BY <1>3, <1>8
  <2>. QED
    BY <1>3, <1>4, <1>8, <2>1, <2>2 DEF calls
<1>17. m.kind \in {"assistant", "calls"}
  BY <1>8
<1>. QED
  BY <1>12, <1>13, <1>14, <1>15, <1>16, <1>17 DEF LinkedMessages

LEMMA OtherMessageLinked ==
    ASSUME NEW m \in OtherMessages, answers \in Nat \ {0}
    PROVE  /\ m \in LinkedMessages
           /\ m.kind \in {"assistant", "calls"}
           /\ ~Signed(m.wrote.parts)
           /\ m.kind = "calls" => /\ 1 \in DOMAIN m.calls
                                  /\ \A n \in DOMAIN m.calls : m.calls[n].args = Arguments
<1>1. Arguments \in Nat
  BY DEF Arguments
<1>2. NoState \in States /\ "none" \in Names /\ <<>> \in Seq(Parts) /\ <<>> \in Seq(Calls)
  BY NoStateIsState DEF Names
<1>3. Nobody \in [model : Names, parts : Seq(Parts)] /\ ~Signed(Nobody.parts)
  BY <1>2 DEF Nobody, Signed
<1>4. CASE m = Message("assistant", <<>>, NoState, Nobody)
  BY <1>2, <1>3, <1>4 DEF Message, LinkedMessages, Messages, Linked
<1>. DEFINE call == [id |-> <<"call", answers>>, args |-> Arguments]
<1>5. CASE m = Message("calls", <<call>>, NoState, Nobody)
  <2>1. <<"call", answers>> \in Ids
    BY DEF Ids
  <2>2. call \in Calls /\ call.args = Arguments
    BY <1>1, <2>1 DEF Calls
  <2>. HIDE DEF call
  <2>3. <<call>> \in Seq(Calls) /\ Len(<<call>>) = 1 /\ <<call>>[1] = call /\ DOMAIN <<call>> = 1..1
    BY <2>2
  <2>4. m.kind = "calls" /\ m.calls = <<call>> /\ m.state = NoState /\ m.wrote = Nobody
    BY <1>5 DEF Message
  <2>5. m \in LinkedMessages
    BY <1>2, <1>3, <1>5, <2>3 DEF Message, LinkedMessages, Messages, Linked
  <2>. QED
    BY <1>3, <2>2, <2>3, <2>4, <2>5
<1>. QED
  BY <1>4, <1>5 DEF OtherMessages

-----------------------------------------------------------------------------
(* The invariant.                                                          *)

TypeInv ==
    /\ history \in Seq(LinkedMessages) /\ working \in Seq(LinkedMessages)
    /\ answers \in Nat \ {0}
    /\ loaded \in BOOLEAN /\ asking \in BOOLEAN /\ refused \in BOOLEAN
    /\ repeats \in BOOLEAN /\ strategy \in Strategies

(* The stored snapshot is that of the messages it restores to, which are   *)
(* the conversation in memory when there is one, but for what no snapshot  *)
(* holds.  It is never too large.                                          *)
SavedInv ==
    /\ Restored(saved) \in Seq(DurableMessages)
    /\ saved = Snapshot(Restored(saved))
    /\ loaded => Restored(saved) = Durable(history)
    /\ Fits(saved.entries)

RefusedInv ==
    /\ asking => loaded
    /\ refused => ~loaded /\ ~Loadable(saved)

ReplayInv == TypeInv /\ SavedInv /\ RefusedInv

LEMMA InitReplay == Init => ReplayInv
<1>. SUFFICES ASSUME Init PROVE ReplayInv
  OBVIOUS
<1>1. TypeInv
  <2>1. history \in Seq(LinkedMessages) /\ working \in Seq(LinkedMessages) /\ answers \in Nat \ {0}
    BY DEF Init
  <2>2. /\ loaded \in BOOLEAN /\ asking \in BOOLEAN /\ refused \in BOOLEAN
        /\ repeats \in BOOLEAN /\ strategy \in Strategies
    BY Zenon DEF Init
  <2>. QED
    BY <2>1, <2>2 DEF TypeInv
<1>2. saved = Snapshot(<<>>)
  <2>1. Serialized(<<>>) = <<>>
    <3>1. <<>> \in Seq(LinkedMessages) /\ Carrying(<<>>) = {}
      BY DEF Carrying
    <3>2. /\ DOMAIN Serialized(<<>>) = 1..Cardinality(Carrying(<<>>))
          /\ Cardinality({}) = 0
      BY <3>1, SerializedStates, FS_EmptySet
    <3>3. DOMAIN Serialized(<<>>) = {}
      <4>1. 1..0 = {}
        OBVIOUS
      <4>. QED
        BY <3>1, <3>2, <4>1, Zenon
    <3>. QED
      BY <3>3 DEF Serialized
  <2>2. Bare(<<>>) = <<>>
    BY DEF Bare
  <2>. QED
    BY <2>1, <2>2 DEF Init, Snapshot
<1>3. Restored(saved) = <<>> /\ Durable(<<>>) = <<>> /\ <<>> \in Seq(DurableMessages)
  <2>1. <<>> \in Seq(DurableMessages)
    OBVIOUS
  <2>. QED
    BY <1>2, <2>1, DurableItself, SnapshotRestores
<1>6. Fits(saved.entries)
  <2>1. saved.entries = <<>>
    BY DEF Init
  <2>2. UNION {{n} \X DOMAIN <<>>[n].state.parts : n \in DOMAIN <<>>} = {}
    OBVIOUS
  <2>3. Cardinality({}) = 0 /\ MaxSize \in Nat
    BY ReplayAssumption, FS_EmptySet
  <2>. QED
    BY <2>1, <2>2, <2>3 DEF Fits
<1>4. SavedInv
  BY <1>2, <1>3, <1>6 DEF Init, SavedInv
<1>5. RefusedInv
  BY DEF Init, RefusedInv
<1>. QED
  BY <1>1, <1>4, <1>5 DEF ReplayInv

(* The stored messages are a list, and another list of messages given the  *)
(* states of the stored ones is one to store.                              *)
LEMMA ReindexedLinked ==
    ASSUME SavedInv, NEW target \in Seq(LinkedMessages)
    PROVE  LET ms == CopyStates(Restored(saved), Bare(target)) IN
           /\ ms \in Seq(LinkedMessages)
           /\ Reindexed(saved, target) = Snapshot(ms)
           /\ Restored(Reindexed(saved, target)) = Durable(ms)
<1>1. Bare(target) \in Seq(LinkedMessages)
  BY LinkedAreMessages, BareLinked
<1>2. CopyStates(Restored(saved), Bare(target)) \in Seq(LinkedMessages)
  BY <1>1, CopiesAreLinked, DurableItself DEF SavedInv
<1>. QED
  BY <1>2, SnapshotRestores DEF Reindexed

LEMMA SavedMessages ==
    ASSUME SavedInv
    PROVE  saved.messages = Bare(Restored(saved)) /\ saved.messages \in Seq(LinkedMessages)
<1>1. saved.messages = Bare(Restored(saved))
  BY DEF SavedInv, Snapshot
<1>2. Bare(Restored(saved)) \in Seq(LinkedMessages)
  BY LinkedAreMessages, BareLinked, DurableItself DEF SavedInv
<1>. QED
  BY <1>1, <1>2

(* What every answer adds to a turn.                                       *)
Candidates ==
    OtherMessages \union UNION {{GoogleMessage(g, p) : p \in GoogleAnswers(g)} : g \in Google}

LEMMA CandidatesLinked ==
    ASSUME NEW m \in Candidates, answers \in Nat \ {0}
    PROVE  /\ m \in LinkedMessages
           /\ m.kind \in {"assistant", "calls"}
           /\ m.kind = "assistant" => ~Signed(m.wrote.parts)
           /\ Signed(m.wrote.parts) => m.state = StateOf(m.wrote.model, m.wrote.parts)
           /\ m.kind = "calls" => /\ 1 \in DOMAIN m.calls
                                  /\ \A n \in DOMAIN m.calls : m.calls[n].args = Arguments
<1>1. CASE m \in OtherMessages
  BY <1>1, OtherMessageLinked
<1>2. CASE \E g \in Google : \E p \in GoogleAnswers(g) : m = GoogleMessage(g, p)
  <2>1. PICK g \in Google : \E p \in GoogleAnswers(g) : m = GoogleMessage(g, p)
    BY <1>2
  <2>2. PICK p \in GoogleAnswers(g) : m = GoogleMessage(g, p)
    BY <2>1
  <2>. QED
    BY <2>2, GoogleMessageLinked
<1>. QED
  BY <1>1, <1>2 DEF Candidates

LEMMA AnsweredLinked ==
    ASSUME NEW m \in LinkedMessages
    PROVE  m.calls \in Seq(Calls) /\ Results(m.calls) \in LinkedMessages
BY PlainMessages DEF LinkedMessages, Messages

(* A new list that is saved and is the conversation in memory, if any.     *)
LEMMA SavedStep ==
    ASSUME NEW ms \in Seq(LinkedMessages), saved' = Snapshot(ms), loaded' => history' = ms,
           Fits(saved'.entries)
    PROVE  SavedInv'
<1>1. Restored(saved') = Durable(ms)
  BY SnapshotRestores
<1>2. Durable(ms) \in Seq(DurableMessages)
  BY DurableKeeps
<1>3. saved' = Snapshot(Durable(ms))
  BY SnapshotDurable
<1>. QED
  BY <1>1, <1>2, <1>3 DEF SavedInv

LEMMA NextReplay == ReplayInv /\ [Next]_vars => ReplayInv'
<1>. SUFFICES ASSUME ReplayInv, [Next]_vars PROVE ReplayInv'
  OBVIOUS
<1>. USE DEF ReplayInv
<1>1. /\ history \in Seq(LinkedMessages) /\ working \in Seq(LinkedMessages)
      /\ answers \in Nat \ {0} /\ <<>> \in Seq(LinkedMessages)
  BY DEF TypeInv
<1>2. CASE Send
  <2>1. Append(history, User) \in Seq(LinkedMessages)
    BY <1>1, PlainMessages
  <2>2. working' \in Seq(LinkedMessages)
    BY <1>2, <2>1, PreparedLinked DEF Send
  <2>3. TypeInv'
    BY <1>2, <2>2 DEF Send, TypeInv
  <2>4. SavedInv'
    BY <1>2 DEF Send, SavedInv
  <2>5. RefusedInv'
    BY <1>2 DEF Send, RefusedInv
  <2>. QED
    BY <2>3, <2>4, <2>5
<1>3. CASE Answer
  <2>1. PICK m \in Candidates : CallTools(m) \/ Finish(m)
    BY <1>3 DEF Answer, Candidates
  <2>2. m \in LinkedMessages
    BY <1>1, <2>1, CandidatesLinked
  <2>3. Append(working, m) \in Seq(LinkedMessages)
    BY <1>1, <2>2
  <2>4. asking /\ loaded /\ ~refused
    BY <1>3 DEF Answer, RefusedInv
  <2>5. answers' \in Nat \ {0} /\ UNCHANGED <<loaded, refused, strategy, repeats>>
    BY <1>1, <1>3 DEF Answer
  <2>6. CASE CallTools(m)
    <3>1. working \o <<m, Results(m.calls)>> \in Seq(LinkedMessages)
      BY <1>1, <2>2, AnsweredLinked
    <3>2. working' \in Seq(LinkedMessages) /\ asking' \in BOOLEAN
      <4>1. CASE rounds = MaxRounds
        <5>1. working' = <<>> /\ asking' = FALSE
          BY <2>6, <4>1 DEF CallTools, EndTurn
        <5>. QED
          BY <1>1, <5>1
      <4>2. CASE rounds # MaxRounds
        BY <2>6, <3>1, <4>2, PreparedLinked DEF CallTools, TypeInv
      <4>. QED
        BY <4>1, <4>2
    <3>3. UNCHANGED <<history, saved>>
      BY <2>6 DEF CallTools
    <3>4. TypeInv'
      BY <2>5, <3>2, <3>3 DEF TypeInv
    <3>5. SavedInv'
      BY <2>5, <3>3 DEF SavedInv
    <3>6. RefusedInv'
      BY <2>4, <2>5 DEF RefusedInv
    <3>. QED
      BY <3>4, <3>5, <3>6
  <2>7. CASE Finish(m)
    <3>1. /\ working' = <<>> /\ asking' = FALSE
          /\ \/ /\ history' = Append(working, m) /\ saved' = Snapshot(Append(working, m))
                /\ Fits(saved'.entries)
             \/ UNCHANGED <<history, saved>>
      BY <2>7 DEF Finish, EndTurn
    <3>2. SavedInv'
      <4>1. CASE UNCHANGED <<history, saved>>
        BY <2>5, <4>1 DEF SavedInv
      <4>. QED
        BY <2>3, <3>1, <4>1, SavedStep
    <3>3. TypeInv'
      <4>1. history' \in Seq(LinkedMessages)
        BY <1>1, <2>3, <3>1
      <4>. QED
        BY <1>1, <2>5, <3>1, <4>1 DEF TypeInv
    <3>4. RefusedInv'
      BY <2>4, <2>5, <3>1 DEF RefusedInv
    <3>. QED
      BY <3>2, <3>3, <3>4
  <2>. QED
    BY <2>1, <2>6, <2>7
<1>4. CASE Fail
  <2>1. TypeInv'
    BY <1>1, <1>4 DEF Fail, EndTurn, TypeInv
  <2>2. SavedInv' /\ RefusedInv'
    BY <1>4 DEF Fail, EndTurn, SavedInv, RefusedInv
  <2>. QED
    BY <2>1, <2>2
<1>5. CASE Restart
  <2>1. TypeInv'
    BY <1>1, <1>5 DEF Restart, EndTurn, TypeInv
  <2>2. SavedInv' /\ RefusedInv'
    BY <1>5 DEF Restart, EndTurn, SavedInv, RefusedInv
  <2>. QED
    BY <2>1, <2>2
<1>6. CASE Load
  <2>. DEFINE ms == Restored(saved)
  <2>1. /\ ms \in Seq(LinkedMessages) /\ Durable(ms) = ms
        /\ saved = Snapshot(ms) /\ Fits(saved.entries)
    BY DurableItself DEF SavedInv
  <2>2. Acceptable(saved) <=> Loadable(saved)
    BY <2>1, SnapshotAcceptable
  <2>4. ~loaded /\ ~asking
    BY <1>6 DEF Load, RefusedInv
  <2>5. CASE Acceptable(saved)
    <3>1. loaded' = TRUE /\ history' = ms /\ UNCHANGED <<refused, saved, turnVars>>
      BY <1>6, <2>5 DEF Load
    <3>2. TypeInv'
      BY <2>1, <3>1 DEF TypeInv, turnVars
    <3>3. SavedInv'
      BY <2>1, <3>1 DEF SavedInv
    <3>4. ~refused
      BY <2>2, <2>5 DEF RefusedInv
    <3>5. RefusedInv'
      BY <3>1, <3>4 DEF RefusedInv
    <3>. QED
      BY <3>2, <3>3, <3>5
  <2>6. CASE ~Acceptable(saved)
    <3>1. refused' = TRUE /\ UNCHANGED <<loaded, history, saved, turnVars>>
      BY <1>6, <2>6 DEF Load
    <3>2. TypeInv'
      BY <3>1 DEF TypeInv, turnVars
    <3>3. SavedInv'
      BY <3>1 DEF SavedInv
    <3>4. RefusedInv'
      BY <2>2, <2>4, <2>6, <3>1 DEF RefusedInv, Loadable, turnVars
    <3>. QED
      BY <3>2, <3>3, <3>4
  <2>. QED
    BY <2>5, <2>6
<1>7. ASSUME NEW target \in Seq(LinkedMessages), Acceptable(saved), ~asking,
             saved' = Reindexed(saved, target), Fits(saved'.entries),
             loaded' = FALSE, history' = <<>>, UNCHANGED <<refused, turnVars>>
      PROVE  ReplayInv'
  <2>1. PICK ms \in Seq(LinkedMessages) : saved' = Snapshot(ms)
    BY <1>7, ReindexedLinked
  <2>2. SavedInv'
    BY <1>7, <2>1, SavedStep
  <2>3. TypeInv'
    BY <1>1, <1>7 DEF TypeInv, turnVars
  <2>4. ~refused
    <3>1. Loadable(saved)
      BY <1>7 DEF Acceptable, Loadable
    <3>. QED
      BY <3>1 DEF RefusedInv
  <2>5. RefusedInv'
    BY <1>7, <2>4 DEF RefusedInv, turnVars
  <2>. QED
    BY <2>2, <2>3, <2>5
<1>8. CASE Compact
  <2>1. Context!SlidingWindow(saved.messages) \in Seq(LinkedMessages)
    BY SavedMessages, SlidingWindowWithin
  <2>. QED
    BY <1>7, <1>8, <2>1 DEF Compact
<1>9. CASE Fork
  <2>1. PICK last \in DOMAIN saved.messages :
            saved' = Reindexed(saved, SubSeq(saved.messages, 1, last))
    BY <1>9 DEF Fork
  <2>2. saved.messages \in Seq(LinkedMessages)
    BY SavedMessages
  <2>3. SubSeq(saved.messages, 1, last) \in Seq(LinkedMessages)
    <3>1. last \in 1..Len(saved.messages)
      BY <2>1, <2>2
    <3>. QED
      BY <2>2, <3>1
  <2>. QED
    BY <1>7, <1>9, <2>1, <2>3 DEF Fork
<1>10. CASE UNCHANGED vars
  BY <1>10 DEF vars, TypeInv, SavedInv, RefusedInv
<1>. QED
  BY <1>2, <1>3, <1>4, <1>5, <1>6, <1>8, <1>9, <1>10 DEF Next

THEOREM TypeCorrect == Spec => []ReplayInv
BY InitReplay, NextReplay, PTL DEF Spec

(* Between turns a restart loses nothing.                                  *)
THEOREM SavedCorrect == Spec => []SavedSessionRestores
<1>1. ReplayInv => SavedSessionRestores
  <2>. SUFFICES ASSUME ReplayInv PROVE SavedSessionRestores
    OBVIOUS
  <2>1. refused => Len(saved.entries) > MaxEntries \/ ~Recognised(saved.entries)
    <3>1. Len(saved.entries) \in Nat /\ MaxEntries \in Nat
      <4>1. saved.entries = Serialized(Restored(saved)) /\ Restored(saved) \in Seq(LinkedMessages)
        BY DurableItself DEF ReplayInv, SavedInv, Snapshot
      <4>2. Len(Serialized(Restored(saved))) \in Nat
        BY <4>1, SerializedStates
      <4>. QED
        BY <4>1, <4>2, ReplayAssumption
    <3>. QED
      BY <3>1 DEF ReplayInv, RefusedInv, Loadable
  <2>. QED
    BY <2>1 DEF ReplayInv, SavedInv, SavedSessionRestores
<1>. QED
  BY <1>1, TypeCorrect, PTL

-----------------------------------------------------------------------------
(* What a model is sent.                                                   *)

(* The parts of a message that goes out without a state.                   *)
PlainParts(ms, g, i) ==
    [n \in DOMAIN ms[i].calls |->
        IF ms[i].kind = "results"
        THEN Part("response", 0, NativeId(ms, g, i, ms[i].calls[n].id), NoSignature)
        ELSE Part(ms[i].kind, 0, NoId, NoSignature)]

LEMMA SentParts ==
    ASSUME NEW ms \in Seq(LinkedMessages), NEW g
    PROVE  \A i \in 1..Len(ms) :
              /\ Contents(ms, g)[i].raw <=> GetState(ms[i], g) # NoState
              /\ GetState(ms[i], g) # NoState =>
                    /\ ms[i].state = GetState(ms[i], g) /\ GetState(ms[i], g).model = g
                    /\ Contents(ms, g)[i].parts = GetState(ms[i], g).parts
              /\ GetState(ms[i], g) = NoState => Contents(ms, g)[i].parts = PlainParts(ms, g, i)
<1>. SUFFICES ASSUME NEW i \in 1..Len(ms)
              PROVE  /\ Contents(ms, g)[i].raw <=> GetState(ms[i], g) # NoState
                     /\ GetState(ms[i], g) # NoState =>
                           /\ ms[i].state = GetState(ms[i], g) /\ GetState(ms[i], g).model = g
                           /\ Contents(ms, g)[i].parts = GetState(ms[i], g).parts
                     /\ GetState(ms[i], g) = NoState =>
                           Contents(ms, g)[i].parts = PlainParts(ms, g, i)
  OBVIOUS
<1>. DEFINE sent == Contents(ms, g)
            state == GetState(ms[i], g)
            content(j) == IF GetState(ms[j], g) # NoState
                          THEN [raw |-> TRUE, parts |-> GetState(ms[j], g).parts]
                          ELSE [raw |-> FALSE, parts |-> PlainParts(ms, g, j)]
<1>1. DOMAIN ms = 1..Len(ms)
  OBVIOUS
<1>2. sent = [j \in DOMAIN ms |-> content(j)]
  BY DEF Contents, PlainParts
<1>. HIDE DEF sent
<1>3. sent[i] = IF state # NoState THEN [raw |-> TRUE, parts |-> state.parts]
                ELSE [raw |-> FALSE, parts |-> PlainParts(ms, g, i)]
  BY <1>1, <1>2
<1>4. state # NoState => ms[i].state = state /\ state.model = g
  BY DEF GetState
<1>. HIDE DEF state
<1>5. sent[i].raw <=> state # NoState
  BY <1>3
<1>6. state # NoState => sent[i].parts = state.parts
  BY <1>3
<1>7. state = NoState => sent[i].parts = PlainParts(ms, g, i)
  BY <1>3
<1>. QED
  BY <1>4, <1>5, <1>6, <1>7 DEF sent, state

LEMMA SentMessage ==
    ASSUME NEW m \in LinkedMessages, m.state # NoState
    PROVE  /\ m.kind = "calls" /\ Signed(m.state.parts) /\ m.state.parts \in Seq(Parts)
           /\ m.state.calls = CallsOf(m.state.parts) /\ m.state.calls \in Seq(CallStates)
           /\ \A i \in 1..Len(m.state.parts) :
                 m.state.parts[i].sig = NoSignature \/ m.state.parts[i].sig.model = m.state.model
           /\ Len(m.calls) = Len(m.state.calls)
           /\ \A n \in 1..Len(m.calls) : /\ m.calls[n].id = m.state.calls[n].id
                                         /\ m.calls[n].args = m.state.calls[n].args
<1>1. m.state.parts \in Seq(Parts) /\ m.state.calls \in Seq(CallStates)
  BY DEF LinkedMessages, Messages, States
<1>2. Linked(m)
  BY DEF LinkedMessages
<1>3. m.kind = "calls" /\ Signed(m.state.parts) /\ m.calls = Canonical(m.state.calls)
  BY <1>2 DEF Linked
<1>4. m.state.calls = CallsOf(m.state.parts)
  <2>1. m.state = StateOf(m.state.model, m.state.parts)
    BY <1>2 DEF Linked
  <2>. QED
    BY <2>1 DEF StateOf
<1>5. \A i \in 1..Len(m.state.parts) :
         m.state.parts[i].sig = NoSignature \/ m.state.parts[i].sig.model = m.state.model
  <2>1. DOMAIN m.state.parts = 1..Len(m.state.parts)
    BY <1>1
  <2>. QED
    BY <1>2, <2>1 DEF Linked
<1>6. /\ Len(m.calls) = Len(m.state.calls)
      /\ \A n \in 1..Len(m.calls) : /\ m.calls[n].id = m.state.calls[n].id
                                    /\ m.calls[n].args = m.state.calls[n].args
  BY <1>1, <1>3, CanonicalCalls
<1>. QED
  BY <1>1, <1>3, <1>4, <1>5, <1>6

LEMMA BoundToModel == TypeInv => StateBoundToModel
<1>. SUFFICES ASSUME TypeInv, NEW g \in Google, NEW i \in DOMAIN Contents(working, g),
                     NEW p \in Range(Contents(working, g)[i].parts)
              PROVE  /\ p.sig # NoSignature => p.sig.model = g
                     /\ Contents(working, g)[i].raw =>
                           [n \in DOMAIN working[i].calls |-> working[i].calls[n].args]
                             = [n \in DOMAIN CallsOf(Contents(working, g)[i].parts) |->
                                  CallsOf(Contents(working, g)[i].parts)[n].args]
  BY DEF StateBoundToModel
<1>. DEFINE sent == Contents(working, g)[i]
            m == working[i]
            state == GetState(m, g)
<1>1. working \in Seq(LinkedMessages)
  BY DEF TypeInv
<1>2. i \in 1..Len(working) /\ m \in LinkedMessages
  <2>1. DOMAIN Contents(working, g) = DOMAIN working
    BY DEF Contents
  <2>. QED
    BY <1>1, <2>1
<1>3. /\ sent.raw <=> state # NoState
      /\ state # NoState => m.state = state /\ state.model = g /\ sent.parts = state.parts
      /\ state = NoState => sent.parts = PlainParts(working, g, i)
  BY <1>1, <1>2, SentParts
<1>4. PICK k \in DOMAIN sent.parts : p = sent.parts[k]
  BY DEF Range
<1>. HIDE DEF sent, m, state
<1>5. CASE state = NoState
  <2>1. p.sig = NoSignature
    BY <1>3, <1>4, <1>5 DEF PlainParts, Part
  <2>. QED
    BY <1>3, <1>5, <2>1 DEF sent
<1>6. CASE state # NoState
  <2>1. m.state = state /\ m.state # NoState /\ state.model = g /\ sent.parts = m.state.parts
    BY <1>3, <1>6
  <2>2. /\ m.state.parts \in Seq(Parts) /\ m.state.calls = CallsOf(m.state.parts)
        /\ m.state.calls \in Seq(CallStates) /\ m.calls \in Seq(Calls)
        /\ \A j \in 1..Len(m.state.parts) :
              m.state.parts[j].sig = NoSignature \/ m.state.parts[j].sig.model = m.state.model
        /\ Len(m.calls) = Len(m.state.calls)
        /\ \A n \in 1..Len(m.calls) : m.calls[n].args = m.state.calls[n].args
    BY <1>2, <2>1, SentMessage, AnsweredLinked
  <2>3. k \in 1..Len(m.state.parts) /\ p = m.state.parts[k]
    BY <1>4, <2>1, <2>2
  <2>4. p.sig # NoSignature => p.sig.model = g
    BY <2>1, <2>2, <2>3
  <2>5. DOMAIN m.calls = 1..Len(m.calls) /\ DOMAIN m.state.calls = 1..Len(m.calls)
    BY <2>2
  <2>6. [n \in DOMAIN m.calls |-> m.calls[n].args]
           = [n \in DOMAIN m.state.calls |-> m.state.calls[n].args]
    BY <2>2, <2>5
  <2>7. CallsOf(sent.parts) = m.state.calls
    BY <2>1, <2>2
  <2>. QED
    BY <2>4, <2>6, <2>7 DEF sent, m
<1>. QED
  BY <1>5, <1>6

(* No request to one model contains what another model made up.            *)
THEOREM BoundCorrect == Spec => []StateBoundToModel
<1>1. ReplayInv => StateBoundToModel
  BY BoundToModel DEF ReplayInv
<1>. QED
  BY <1>1, TypeCorrect, PTL

LEMMA DistinctIds ==
    ASSUME NEW parts \in Seq(Parts)
    PROVE  LET calls == CallsOf(parts) IN
           \A i, j \in 1..Len(calls) : calls[i].id = calls[j].id => i = j
<1>. DEFINE calls == CallsOf(parts)
<1>1. /\ calls \in Seq(CallStates)
      /\ \A n \in 1..Len(calls) :
            calls[n].at \in 1..Len(parts) /\ Copies(calls[n], parts[calls[n].at], calls[n].at)
      /\ \A i, j \in 1..Len(calls) : i < j => calls[i].at < calls[j].at
  BY CallsOfParts
<1>. HIDE DEF calls
<1>2. \A n \in 1..Len(calls) : calls[n].id = <<"gemini", calls[n].at>> /\ calls[n].at \in Nat
  <2>. SUFFICES ASSUME NEW n \in 1..Len(calls)
                PROVE  calls[n].id = <<"gemini", calls[n].at>> /\ calls[n].at \in Nat
    OBVIOUS
  <2>. DEFINE k == calls[n].at
  <2>1. k \in 1..Len(parts) /\ Copies(calls[n], parts[k], k) /\ Len(parts) \in Nat
    BY <1>1
  <2>2. k \in Nat
    BY <2>1
  <2>. HIDE DEF k
  <2>3. calls[n].id = <<"gemini", k>>
    BY <2>1 DEF Copies
  <2>. QED
    BY <2>2, <2>3 DEF k
<1>3. \A i, j \in 1..Len(calls) : calls[i].at = calls[j].at => i = j
  <2>1. \A i, j \in 1..Len(calls) : i < j \/ j < i \/ i = j
    BY <1>1
  <2>. QED
    BY <1>1, <1>2, <2>1
<1>4. \A i, j \in 1..Len(calls) : calls[i].id = calls[j].id => i = j
  <2>. SUFFICES ASSUME NEW i \in 1..Len(calls), NEW j \in 1..Len(calls), calls[i].id = calls[j].id
                PROVE  i = j
    OBVIOUS
  <2>1. <<"gemini", calls[i].at>> = <<"gemini", calls[j].at>>
    BY <1>2
  <2>2. calls[i].at = calls[j].at
    BY <2>1
  <2>. QED
    BY <1>3, <2>2
<1>. QED
  BY <1>4 DEF calls

LEMMA NamesCalls == TypeInv => ResultsNameCalls
<1>. SUFFICES ASSUME TypeInv, NEW g \in Google, NEW i \in DOMAIN working,
                     i > 1, working[i].kind = "results", Contents(working, g)[i - 1].raw,
                     working[i].calls = working[i - 1].calls,
                     NEW n \in DOMAIN working[i].calls,
                     CallsOf(Contents(working, g)[i - 1].parts)[n].native # NoId
              PROVE  Contents(working, g)[i].parts[n].native
                       = CallsOf(Contents(working, g)[i - 1].parts)[n].native
  BY DEF ResultsNameCalls
<1>. DEFINE asked == working[i - 1]
            answer == working[i]
            state == GetState(asked, g)
            calls == state.calls
            id == answer.calls[n].id
            callers == {j \in 1..(i - 1) : NamedAs(GetState(working[j], g), id) # {}}
<1>1. working \in Seq(LinkedMessages) /\ Len(working) \in Nat
  BY DEF TypeInv
<1>2. i \in 1..Len(working) /\ i - 1 \in 1..Len(working) /\ i \in Nat
  BY <1>1
<1>3. answer \in LinkedMessages /\ asked \in LinkedMessages
  BY <1>1, <1>2
<1>4. state # NoState /\ asked.state = state /\ Contents(working, g)[i - 1].parts = state.parts
  BY <1>1, <1>2, SentParts
<1>5. /\ state.parts \in Seq(Parts) /\ calls = CallsOf(state.parts) /\ calls \in Seq(CallStates)
      /\ Len(asked.calls) = Len(calls)
      /\ \A k \in 1..Len(asked.calls) : asked.calls[k].id = calls[k].id
  BY <1>3, <1>4, SentMessage
<1>6. answer.state = NoState
  BY <1>3, SentMessage
<1>7. GetState(answer, g) = NoState
  BY <1>6 DEF GetState
<1>8. Contents(working, g)[i].parts =
         [k \in DOMAIN answer.calls |->
             Part("response", 0, NativeId(working, g, i, answer.calls[k].id), NoSignature)]
  <2>1. Contents(working, g)[i].parts = PlainParts(working, g, i)
    BY <1>1, <1>2, <1>7, SentParts
  <2>2. PlainParts(working, g, i) =
           [k \in DOMAIN answer.calls |->
              IF answer.kind = "results"
              THEN Part("response", 0, NativeId(working, g, i, answer.calls[k].id), NoSignature)
              ELSE Part(answer.kind, 0, NoId, NoSignature)]
    BY DEF PlainParts
  <2>3. answer.kind = "results"
    OBVIOUS
  <2>. HIDE DEF answer
  <2>. QED
    BY <2>1, <2>2, <2>3
<1>9. Contents(working, g)[i].parts[n].native = NativeId(working, g, i, id)
  BY <1>8 DEF Part
<1>10. n \in 1..Len(calls) /\ id = calls[n].id /\ n \in Nat
  <2>1. answer.calls \in Seq(Calls)
    BY <1>3, AnsweredLinked
  <2>2. n \in 1..Len(asked.calls)
    BY <2>1
  <2>3. Len(calls) \in Nat
    BY <1>5
  <2>. QED
    BY <1>5, <2>2, <2>3
<1>11. calls[n].native # NoId
  BY <1>4, <1>5
<1>12. NamedAs(state, id) = {n}
  <2>1. DOMAIN calls = 1..Len(calls)
    BY <1>5
  <2>2. \A k \in 1..Len(calls) : calls[k].id = id => k = n
    BY <1>5, <1>10, DistinctIds
  <2>3. NamedAs(state, id) = {k \in DOMAIN calls : calls[k].id = id /\ calls[k].native # NoId}
    BY DEF NamedAs
  <2>. HIDE DEF calls, id
  <2>. QED
    BY <1>10, <1>11, <2>1, <2>2, <2>3
<1>13. callers # {} /\ Max(callers) = i - 1
  <2>1. i - 1 \in callers
    <3>1. NamedAs(GetState(working[i - 1], g), id) # {}
      BY <1>12
    <3>2. i - 1 \in 1..(i - 1)
      BY <1>2
    <3>. HIDE DEF id
    <3>. QED
      BY <3>1, <3>2
  <2>2. callers \in SUBSET (1..(i - 1)) /\ callers \in SUBSET Nat
    BY <1>2
  <2>3. IsFiniteSet(callers)
    <3>1. IsFiniteSet(1..(i - 1))
      BY <1>2, FS_Interval
    <3>. QED
      BY <2>2, <3>1, FS_Subset
  <2>. HIDE DEF callers
  <2>4. Max(callers) \in callers /\ i - 1 <= Max(callers)
    BY <2>1, <2>2, <2>3, Extremes
  <2>. QED
    BY <1>2, <2>1, <2>2, <2>4
<1>14. NativeId(working, g, i, id) =
         IF callers = {} THEN NoId
         ELSE GetState(working[Latest(callers)], g).calls[
                  Max(NamedAs(GetState(working[Latest(callers)], g), id))].native
  BY DEF NativeId
<1>15. NativeId(working, g, i, id) = calls[Max(NamedAs(state, id))].native
  <2>. HIDE DEF callers
  <2>. QED
    BY <1>13, <1>14 DEF Latest
<1>16. Max(NamedAs(state, id)) = n
  BY <1>10, <1>12, SingletonExtremes
<1>. QED
  BY <1>4, <1>5, <1>9, <1>15, <1>16

(* A result carries the id the model gave to the call it answers.          *)
THEOREM NamesCorrect == Spec => []ResultsNameCalls
<1>1. ReplayInv => ResultsNameCalls
  BY NamesCalls DEF ReplayInv
<1>. QED
  BY <1>1, TypeCorrect, PTL

-----------------------------------------------------------------------------
(* States stay with their messages in sessions whose calls differ and that *)
(* are not summarised.                                                     *)

(* A message made of a signed answer asks for tools and carries the state  *)
(* of that answer, if a snapshot can hold it.                              *)
Kept(m) ==
    Signed(m.wrote.parts) =>
        /\ m.kind = "calls"
        /\ Short(m.wrote.parts) => m.state = StateOf(m.wrote.model, m.wrote.parts)

(* The arguments of calls name answers given before.                       *)
Aged(m, now) == m.kind = "calls" => \A n \in DOMAIN m.calls : m.calls[n].args < now

(* Messages that read the same as a signed one come from the same answer.  *)
OneWriter(m, n) == Signed(m.wrote.parts) /\ SameMessage(m, n) => n.wrote = m.wrote

Faithful(ms, now) ==
    /\ \A i \in 1..Len(ms) : Kept(ms[i]) /\ Aged(ms[i], now)
    /\ \A i, j \in 1..Len(ms) : OneWriter(ms[i], ms[j])

Differing == ~repeats /\ strategy # "summary"

FaithfulInv ==
    Differing => /\ Faithful(history, answers) /\ Faithful(working, answers)
                 /\ Faithful(Restored(saved), answers)

LEMMA FaithfulNothing == \A now : Faithful(<<>>, now)
BY DEF Faithful

LEMMA FaithfulLater ==
    ASSUME NEW ms \in Seq(LinkedMessages), NEW now \in Nat, Faithful(ms, now)
    PROVE  Faithful(ms, now + 1)
<1>1. ASSUME NEW i \in 1..Len(ms) PROVE Aged(ms[i], now + 1)
  <2>. DEFINE m == ms[i]
  <2>1. m \in LinkedMessages /\ Aged(m, now)
    BY DEF Faithful
  <2>2. m.calls \in Seq(Calls)
    BY <2>1, AnsweredLinked
  <2>. HIDE DEF m
  <2>3. \A n \in DOMAIN m.calls : m.calls[n].args \in Nat
    <3>. SUFFICES ASSUME NEW n \in DOMAIN m.calls PROVE m.calls[n].args \in Nat
      OBVIOUS
    <3>1. m.calls[n] \in Calls
      BY <2>2
    <3>. QED
      BY <3>1 DEF Calls
  <2>4. Aged(m, now + 1)
    BY <2>1, <2>3 DEF Aged
  <2>. QED
    BY <2>4 DEF m
<1>. QED
  BY <1>1 DEF Faithful

(* A message at the end of a list, like no signed one and unlike any that  *)
(* it could be taken for.                                                  *)
LEMMA FaithfulAppend ==
    ASSUME NEW ms \in Seq(LinkedMessages), NEW now, Faithful(ms, now),
           NEW m \in LinkedMessages, Kept(m), Aged(m, now),
           \A i \in 1..Len(ms) : OneWriter(ms[i], m) /\ OneWriter(m, ms[i])
    PROVE  Faithful(Append(ms, m), now)
<1>. DEFINE longer == Append(ms, m)
<1>1. /\ Len(longer) = Len(ms) + 1 /\ Len(ms) \in Nat
      /\ \A i \in 1..Len(longer) : i \in 1..Len(ms) \/ i = Len(longer)
      /\ \A i \in 1..Len(ms) : longer[i] = ms[i]
      /\ longer[Len(longer)] = m
  OBVIOUS
<1>2. OneWriter(m, m)
  BY DEF OneWriter
<1>. HIDE DEF longer
<1>3. \A i \in 1..Len(longer) : Kept(longer[i]) /\ Aged(longer[i], now)
  BY <1>1 DEF Faithful
<1>4. \A i, j \in 1..Len(longer) : OneWriter(longer[i], longer[j])
  BY <1>1, <1>2 DEF Faithful
<1>5. Faithful(longer, now)
  BY <1>3, <1>4 DEF Faithful
<1>. QED
  BY <1>5 DEF longer

LEMMA FaithfulPlain ==
    ASSUME NEW ms \in Seq(LinkedMessages), NEW now, Faithful(ms, now),
           NEW m \in LinkedMessages, m.kind # "calls", ~Signed(m.wrote.parts)
    PROVE  Faithful(Append(ms, m), now)
<1>1. Kept(m) /\ Aged(m, now)
  BY DEF Kept, Aged
<1>2. ASSUME NEW i \in 1..Len(ms) PROVE OneWriter(ms[i], m) /\ OneWriter(m, ms[i])
  <2>1. Kept(ms[i])
    BY DEF Faithful
  <2>2. Signed(ms[i].wrote.parts) => ms[i].kind = "calls"
    BY <2>1 DEF Kept
  <2>. QED
    BY <2>2 DEF OneWriter, SameMessage
<1>. QED
  BY <1>1, <1>2, FaithfulAppend

(* The calls of a new answer differ from all earlier ones.                 *)
LEMMA FaithfulFresh ==
    ASSUME NEW ms \in Seq(LinkedMessages), NEW now \in Nat, Faithful(ms, now),
           NEW m \in LinkedMessages, Kept(m), m.kind = "calls", 1 \in DOMAIN m.calls,
           \A n \in DOMAIN m.calls : m.calls[n].args = now
    PROVE  Faithful(Append(ms, m), now + 1)
<1>1. Faithful(ms, now + 1)
  BY FaithfulLater
<1>2. Aged(m, now + 1)
  BY DEF Aged
<1>3. ASSUME NEW i \in 1..Len(ms) PROVE OneWriter(ms[i], m) /\ OneWriter(m, ms[i])
  <2>1. Aged(ms[i], now)
    BY DEF Faithful
  <2>2. ~SameMessage(ms[i], m) /\ ~SameMessage(m, ms[i])
    <3>1. ASSUME ms[i].kind = m.kind, ms[i].calls = m.calls PROVE FALSE
      <4>1. m.calls[1].args < now
        BY <2>1, <3>1 DEF Aged
      <4>. QED
        BY <4>1
    <3>. QED
      BY <3>1 DEF SameMessage
  <2>. QED
    BY <2>2 DEF OneWriter
<1>. QED
  BY <1>1, <1>2, <1>3, FaithfulAppend

(* Copying to messages of the list itself, in its order.                   *)
LEMMA FaithfulCopies ==
    ASSUME NEW source \in Seq(LinkedMessages), NEW now, Faithful(source, now),
           NEW target \in Seq(LinkedMessages), NEW e, Increasing(e, target, source),
           \A i \in 1..Len(target) : target[i] = Stripped(source[e[i]])
    PROVE  Faithful(CopyStates(source, target), now)
<1>. DEFINE copies == CopyStates(source, target)
<1>1. \A i \in 1..Len(target) : e[i] \in 1..Len(source)
  BY DEF Increasing
<1>2. \A i \in 1..Len(target) : /\ target[i].kind = source[e[i]].kind
                                /\ target[i].calls = source[e[i]].calls
                                /\ target[i].wrote = source[e[i]].wrote
  <2>. SUFFICES ASSUME NEW i \in 1..Len(target)
                PROVE  /\ target[i].kind = source[e[i]].kind
                       /\ target[i].calls = source[e[i]].calls
                       /\ target[i].wrote = source[e[i]].wrote
    OBVIOUS
  <2>1. source[e[i]] \in Messages
    BY <1>1, LinkedAreMessages
  <2>. QED
    BY <2>1 DEF Stripped, Messages
<1>3. \A i \in 1..Len(target) : SameMessage(source[e[i]], target[i])
  BY <1>2 DEF SameMessage
<1>4. \A i \in 1..Len(target) : CopyOf(copies[i], target[i], source)
  BY <1>3, KeptOrderCopies
<1>5. Len(copies) = Len(target) /\ copies \in Seq(LinkedMessages)
  <2>1. DOMAIN copies = 1..Len(target)
    BY CopiesOrNothing
  <2>2. copies \in Seq(LinkedMessages)
    BY CopiesAreLinked
  <2>. HIDE DEF copies
  <2>3. DOMAIN copies = 1..Len(copies) /\ Len(copies) \in Nat /\ Len(target) \in Nat
    BY <2>2
  <2>4. Len(copies) = Len(target)
    BY <2>1, <2>3
  <2>. QED
    BY <2>2, <2>4
<1>. HIDE DEF copies
<1>6. ASSUME NEW i \in 1..Len(target)
      PROVE  /\ copies[i].kind = source[e[i]].kind /\ copies[i].calls = source[e[i]].calls
             /\ copies[i].wrote = source[e[i]].wrote
             /\ \E j \in 1..Len(source) : /\ SameMessage(source[e[i]], source[j])
                                          /\ copies[i].state = source[j].state
  <2>1. target[i] \in Messages /\ CopyOf(copies[i], target[i], source)
    BY <1>4, LinkedAreMessages
  <2>2. /\ copies[i].kind = target[i].kind /\ copies[i].calls = target[i].calls
        /\ copies[i].wrote = target[i].wrote
    BY <2>1, CopyIsLinked
  <2>3. PICK j \in 1..Len(source) : /\ SameMessage(source[j], target[i])
                                    /\ copies[i] = [target[i] EXCEPT !.state = source[j].state]
    BY <2>1 DEF CopyOf
  <2>4. copies[i].state = source[j].state
    BY <2>1, <2>3 DEF Messages
  <2>5. SameMessage(source[e[i]], source[j])
    BY <1>2, <2>3 DEF SameMessage
  <2>. QED
    BY <1>2, <2>2, <2>4, <2>5
<1>7. ASSUME NEW i \in 1..Len(target) PROVE Kept(copies[i]) /\ Aged(copies[i], now)
  <2>1. PICK j \in 1..Len(source) : /\ SameMessage(source[e[i]], source[j])
                                    /\ copies[i].state = source[j].state
    BY <1>6
  <2>2. e[i] \in 1..Len(source)
    BY <1>1
  <2>3. OneWriter(source[e[i]], source[j]) /\ Kept(source[j]) /\ Aged(source[e[i]], now)
    BY <2>2 DEF Faithful
  <2>4. copies[i].wrote = source[e[i]].wrote
    BY <1>6
  <2>7. copies[i].kind = source[e[i]].kind /\ Kept(source[e[i]])
    BY <1>6, <2>2 DEF Faithful
  <2>5. Kept(copies[i])
    BY <2>1, <2>3, <2>4, <2>7 DEF Kept, OneWriter
  <2>6. Aged(copies[i], now)
    BY <1>6, <2>3 DEF Aged
  <2>. QED
    BY <2>5, <2>6
<1>8. ASSUME NEW i \in 1..Len(target), NEW j \in 1..Len(target)
      PROVE  OneWriter(copies[i], copies[j])
  <2>1. e[i] \in 1..Len(source) /\ e[j] \in 1..Len(source)
    BY <1>1
  <2>2. OneWriter(source[e[i]], source[e[j]])
    BY <2>1 DEF Faithful
  <2>3. /\ copies[i].kind = source[e[i]].kind /\ copies[i].calls = source[e[i]].calls
        /\ copies[i].wrote = source[e[i]].wrote
        /\ copies[j].kind = source[e[j]].kind /\ copies[j].calls = source[e[j]].calls
        /\ copies[j].wrote = source[e[j]].wrote
    BY <1>6
  <2>. QED
    BY <2>2, <2>3 DEF OneWriter, SameMessage
<1>9. Faithful(copies, now)
  BY <1>5, <1>7, <1>8 DEF Faithful
<1>. QED
  BY <1>9 DEF copies

(* What a snapshot can hold of a list.                                     *)
LEMMA FaithfulDurable ==
    ASSUME NEW ms \in Seq(LinkedMessages), NEW now, Faithful(ms, now)
    PROVE  Faithful(Durable(ms), now)
<1>. DEFINE kept == Durable(ms)
<1>1. /\ Len(kept) = Len(ms)
      /\ \A i \in 1..Len(ms) : kept[i] = IF Short(ms[i].state.parts) THEN ms[i] ELSE Stripped(ms[i])
  BY DurableKeeps
<1>. HIDE DEF kept
<1>2. ASSUME NEW i \in 1..Len(ms)
      PROVE  /\ kept[i].kind = ms[i].kind /\ kept[i].calls = ms[i].calls
             /\ kept[i].wrote = ms[i].wrote
             /\ kept[i] = ms[i] \/ ~Short(ms[i].state.parts)
  <2>1. ms[i] \in Messages
    BY LinkedAreMessages
  <2>. QED
    BY <1>1, <2>1 DEF Stripped, Messages
<1>3. ASSUME NEW i \in 1..Len(ms) PROVE Kept(kept[i]) /\ Aged(kept[i], now)
  <2>1. Kept(ms[i]) /\ Aged(ms[i], now)
    BY DEF Faithful
  <2>2. ASSUME Signed(ms[i].wrote.parts), Short(ms[i].wrote.parts) PROVE kept[i] = ms[i]
    <3>1. ms[i].state.parts = ms[i].wrote.parts
      BY <2>1, <2>2 DEF Kept, StateOf
    <3>. QED
      BY <1>2, <2>2, <3>1
  <2>3. Kept(kept[i])
    BY <1>2, <2>1, <2>2 DEF Kept
  <2>. QED
    BY <1>2, <2>1, <2>3 DEF Aged
<1>4. ASSUME NEW i \in 1..Len(ms), NEW j \in 1..Len(ms) PROVE OneWriter(kept[i], kept[j])
  <2>1. OneWriter(ms[i], ms[j])
    BY DEF Faithful
  <2>. QED
    BY <1>2, <2>1 DEF OneWriter, SameMessage
<1>5. Faithful(kept, now)
  BY <1>1, <1>3, <1>4 DEF Faithful
<1>. QED
  BY <1>5 DEF kept

(* The bare messages of a list, with the states of the list copied back.   *)
LEMMA FaithfulBare ==
    ASSUME NEW source \in Seq(LinkedMessages), NEW now, Faithful(source, now),
           NEW target \in Seq(Messages), NEW e, Increasing(e, target, source),
           \A i \in 1..Len(target) : Stripped(target[i]) = Stripped(source[e[i]])
    PROVE  Faithful(CopyStates(source, Bare(target)), now)
<1>1. /\ Bare(target) \in Seq(LinkedMessages) /\ Len(Bare(target)) = Len(target)
      /\ \A i \in 1..Len(target) : Bare(target)[i] = Stripped(target[i])
  BY BareLinked, BareMessages
<1>2. Increasing(e, Bare(target), source)
  BY <1>1 DEF Increasing
<1>3. \A i \in 1..Len(Bare(target)) : Bare(target)[i] = Stripped(source[e[i]])
  BY <1>1
<1>. QED
  BY <1>1, <1>2, <1>3, FaithfulCopies

LEMMA FaithfulPrepared ==
    ASSUME strategy \in Strategies, strategy # "summary",
           NEW ms \in Seq(LinkedMessages), NEW now, Faithful(ms, now), NEW answered
    PROVE  Faithful(Prepared(ms, answered), now)
<1>1. strategy \in {"none", "window"}
  BY ReplayAssumption
<1>. DEFINE target == Context!SlidingWindow(ms)
<1>2. target \in Seq(LinkedMessages) /\ Within(target, ms)
  BY SlidingWindowWithin
<1>3. target \in Seq(Messages)
  BY <1>2, LinkedAreMessages
<1>4. Prepared(ms, answered) = ms \/ Prepared(ms, answered) = CopyStates(ms, Bare(target))
  BY <1>1, Zenon DEF Prepared
<1>. HIDE DEF target
<1>5. PICK e : Increasing(e, target, ms) /\ \A i \in 1..Len(target) : target[i] = ms[e[i]]
  BY <1>2 DEF Within
<1>6. \A i \in 1..Len(target) : Stripped(target[i]) = Stripped(ms[e[i]])
  BY <1>5
<1>7. Faithful(CopyStates(ms, Bare(target)), now)
  BY <1>3, <1>5, <1>6, FaithfulBare
<1>. QED
  BY <1>4, <1>7

(* Part of the stored messages, stored with their states.                  *)
LEMMA FaithfulReindexed ==
    ASSUME SavedInv, NEW now, Faithful(Restored(saved), now),
           NEW target \in Seq(LinkedMessages), Within(target, saved.messages)
    PROVE  Faithful(Restored(Reindexed(saved, target)), now)
<1>. DEFINE source == Restored(saved)
<1>1. source \in Seq(LinkedMessages) /\ source \in Seq(Messages) /\ target \in Seq(Messages)
  BY LinkedAreMessages, DurableItself DEF SavedInv
<1>2. saved.messages = Bare(source) /\ Faithful(source, now)
  BY SavedMessages
<1>3. /\ CopyStates(source, Bare(target)) \in Seq(LinkedMessages)
      /\ Restored(Reindexed(saved, target)) = Durable(CopyStates(source, Bare(target)))
  BY ReindexedLinked
<1>. HIDE DEF source
<1>4. PICK e : /\ Increasing(e, target, Bare(source))
               /\ \A i \in 1..Len(target) : target[i] = Bare(source)[e[i]]
  BY <1>2 DEF Within
<1>5. /\ Len(Bare(source)) = Len(source)
      /\ \A i \in 1..Len(source) : Bare(source)[i] = Stripped(source[i])
  BY <1>1, BareMessages
<1>6. Increasing(e, target, source)
  BY <1>4, <1>5 DEF Increasing
<1>7. ASSUME NEW i \in 1..Len(target) PROVE Stripped(target[i]) = Stripped(source[e[i]])
  <2>1. e[i] \in 1..Len(source)
    BY <1>6 DEF Increasing
  <2>2. target[i] = Stripped(source[e[i]]) /\ source[e[i]] \in Messages
    BY <1>1, <1>4, <1>5, <2>1
  <2>. QED
    BY <2>2 DEF Stripped, Messages
<1>8. Faithful(CopyStates(source, Bare(target)), now)
  BY <1>1, <1>2, <1>6, <1>7, FaithfulBare
<1>. QED
  BY <1>3, <1>8, FaithfulDurable

LEMMA PrefixWithin ==
    ASSUME NEW M, NEW w \in Seq(M), NEW last \in 1..Len(w)
    PROVE  Within(SubSeq(w, 1, last), w)
<1>. DEFINE u == SubSeq(w, 1, last)
            e == [i \in 1..last |-> i]
<1>1. Len(u) = last /\ last \in Nat /\ Len(w) \in Nat /\ \A i \in 1..last : u[i] = w[i]
  OBVIOUS
<1>. HIDE DEF u
<1>2. Increasing(e, u, w)
  BY <1>1 DEF Increasing
<1>3. \A i \in 1..Len(u) : u[i] = w[e[i]]
  BY <1>1
<1>4. Within(u, w)
  BY <1>2, <1>3 DEF Within
<1>. QED
  BY <1>4 DEF u

(* What an answer and the results of its calls do to a faithful list.      *)
LEMMA FaithfulAnswer ==
    ASSUME TypeInv, ~repeats, NEW m \in Candidates,
           NEW ms \in Seq(LinkedMessages), Faithful(ms, answers)
    PROVE  /\ m.kind = "assistant" => Faithful(Append(ms, m), answers + 1)
           /\ m.kind = "calls" => Faithful(ms \o <<m, Results(m.calls)>>, answers + 1)
<1>1. /\ m \in LinkedMessages /\ m.kind \in {"assistant", "calls"}
      /\ m.kind = "assistant" => ~Signed(m.wrote.parts)
      /\ Signed(m.wrote.parts) => m.state = StateOf(m.wrote.model, m.wrote.parts)
      /\ m.kind = "calls" => /\ 1 \in DOMAIN m.calls
                             /\ \A n \in DOMAIN m.calls : m.calls[n].args = Arguments
  BY CandidatesLinked DEF TypeInv
<1>2. Arguments = answers /\ answers \in Nat
  BY DEF Arguments, TypeInv
<1>3. Faithful(ms, answers + 1)
  BY <1>2, FaithfulLater
<1>4. ASSUME m.kind = "assistant" PROVE Faithful(Append(ms, m), answers + 1)
  <2>1. m.kind # "calls" /\ ~Signed(m.wrote.parts)
    BY <1>1, <1>4
  <2>. QED
    BY <1>1, <1>3, <2>1, FaithfulPlain
<1>5. ASSUME m.kind = "calls" PROVE Faithful(ms \o <<m, Results(m.calls)>>, answers + 1)
  <2>. DEFINE longer == Append(ms, m)
              r == Results(m.calls)
  <2>1. Kept(m)
    BY <1>1, <1>5, Zenon DEF Kept
  <2>2. Faithful(longer, answers + 1)
    BY <1>1, <1>2, <1>5, <2>1, FaithfulFresh
  <2>3. longer \in Seq(LinkedMessages) /\ r \in LinkedMessages
    BY <1>1, AnsweredLinked
  <2>4. r.kind # "calls" /\ ~Signed(r.wrote.parts)
    BY DEF Results, Message, Nobody, Signed
  <2>5. ms \o <<m, r>> = Append(longer, r)
    <3>. HIDE DEF r
    <3>. QED
      BY <1>1, <2>3
  <2>. HIDE DEF longer, r
  <2>6. Faithful(Append(longer, r), answers + 1)
    BY <2>2, <2>3, <2>4, FaithfulPlain
  <2>. QED
    BY <2>5, <2>6 DEF r
<1>. QED
  BY <1>4, <1>5

LEMMA InitFaithful == Init => FaithfulInv
<1>. SUFFICES ASSUME Init PROVE FaithfulInv
  OBVIOUS
<1>1. Restored(saved) = history
  <2>1. Restored(saved) = Durable(<<>>)
    BY InitReplay DEF ReplayInv, SavedInv, Init
  <2>2. Durable(<<>>) = <<>>
    BY DEF Durable
  <2>. QED
    BY <2>1, <2>2 DEF Init
<1>. QED
  BY <1>1, FaithfulNothing DEF Init, FaithfulInv

LEMMA NextFaithful == ReplayInv /\ ReplayInv' /\ FaithfulInv /\ [Next]_vars => FaithfulInv'
<1>. SUFFICES ASSUME ReplayInv, ReplayInv', FaithfulInv, [Next]_vars, Differing' PROVE
                /\ Faithful(history', answers') /\ Faithful(working', answers')
                /\ Faithful(Restored(saved'), answers')
  BY DEF FaithfulInv
<1>1. UNCHANGED <<strategy, repeats>>
  BY DEF Next, Send, Answer, Fail, Restart, Load, Compact, Fork, vars, turnVars
<1>2. /\ TypeInv /\ SavedInv /\ ~repeats /\ strategy \in Strategies /\ strategy # "summary"
      /\ history \in Seq(LinkedMessages) /\ working \in Seq(LinkedMessages)
      /\ answers \in Nat
      /\ Restored(saved) \in Seq(LinkedMessages)
  BY <1>1, DurableItself DEF Differing, ReplayInv, TypeInv, SavedInv
<1>3. /\ Faithful(history, answers) /\ Faithful(working, answers)
      /\ Faithful(Restored(saved), answers) /\ Faithful(<<>>, answers)
  BY <1>2, FaithfulNothing DEF FaithfulInv, Differing
<1>4. CASE Send
  <2>1. User \in LinkedMessages /\ User.kind # "calls" /\ ~Signed(User.wrote.parts)
    BY PlainMessages DEF User, Message, Nobody, Signed
  <2>2. Append(history, User) \in Seq(LinkedMessages) /\ Faithful(Append(history, User), answers)
    BY <1>2, <1>3, <2>1, FaithfulPlain
  <2>3. PICK answered \in BOOLEAN : working' = Prepared(Append(history, User), answered)
    BY <1>4 DEF Send
  <2>4. Faithful(working', answers)
    BY <1>2, <2>2, <2>3, FaithfulPrepared
  <2>. QED
    BY <1>3, <1>4, <2>4 DEF Send
<1>5. CASE Answer
  <2>1. PICK m \in Candidates : CallTools(m) \/ Finish(m)
    BY <1>5 DEF Answer, Candidates
  <2>2. answers' = answers + 1
    BY <1>5 DEF Answer
  <2>3. /\ Faithful(history, answers') /\ Faithful(Restored(saved), answers')
        /\ Faithful(<<>>, answers')
    BY <1>2, <1>3, <2>2, FaithfulLater, FaithfulNothing
  <2>4. CASE CallTools(m)
    <3>. DEFINE longer == working \o <<m, Results(m.calls)>>
    <3>1. m.kind = "calls" /\ UNCHANGED <<history, saved>>
      BY <2>4 DEF CallTools
    <3>2. m \in LinkedMessages
      BY <2>1, <1>2, CandidatesLinked DEF TypeInv
    <3>3. longer \in Seq(LinkedMessages)
      BY <1>2, <3>2, AnsweredLinked
    <3>4. Faithful(longer, answers')
      BY <1>2, <1>3, <2>1, <2>2, <3>1, FaithfulAnswer
    <3>5. working' = <<>> \/ \E answered \in BOOLEAN : working' = Prepared(longer, answered)
      BY <2>4 DEF CallTools, EndTurn
    <3>. HIDE DEF longer
    <3>6. Faithful(working', answers')
      BY <1>2, <2>3, <3>3, <3>4, <3>5, FaithfulPrepared
    <3>. QED
      BY <2>3, <3>1, <3>6
  <2>5. CASE Finish(m)
    <3>. DEFINE longer == Append(working, m)
    <3>1. /\ m.kind = "assistant" /\ working' = <<>>
          /\ \/ history' = longer /\ saved' = Snapshot(longer)
             \/ UNCHANGED <<history, saved>>
      BY <2>5 DEF Finish, EndTurn
    <3>2. Faithful(longer, answers')
      BY <1>2, <1>3, <2>1, <2>2, <3>1, FaithfulAnswer
    <3>3. longer \in Seq(LinkedMessages)
      BY <1>2, <2>1, CandidatesLinked DEF TypeInv
    <3>. HIDE DEF longer
    <3>4. Restored(Snapshot(longer)) = Durable(longer) /\ Faithful(Durable(longer), answers')
      BY <3>2, <3>3, SnapshotRestores, FaithfulDurable
    <3>. QED
      BY <2>3, <3>1, <3>2, <3>4
  <2>. QED
    BY <2>1, <2>4, <2>5
<1>6. CASE Fail \/ Restart
  BY <1>3, <1>6 DEF Fail, Restart, EndTurn
<1>7. CASE Load
  <2>1. UNCHANGED <<saved, working, answers>> /\ history' \in {history, Restored(saved)}
    BY <1>7 DEF Load, turnVars
  <2>. QED
    BY <1>3, <2>1
<1>8. ASSUME NEW target \in Seq(LinkedMessages), Within(target, saved.messages),
             saved' = Reindexed(saved, target), history' = <<>>, UNCHANGED turnVars
      PROVE  /\ Faithful(history', answers') /\ Faithful(working', answers')
             /\ Faithful(Restored(saved'), answers')
  <2>1. Faithful(Restored(saved'), answers)
    BY <1>2, <1>3, <1>8, FaithfulReindexed
  <2>. QED
    BY <1>3, <1>8, <2>1 DEF turnVars
<1>9. CASE Compact
  <2>1. /\ Context!SlidingWindow(saved.messages) \in Seq(LinkedMessages)
        /\ Within(Context!SlidingWindow(saved.messages), saved.messages)
    BY <1>2, SavedMessages, SlidingWindowWithin
  <2>. QED
    BY <1>8, <1>9, <2>1 DEF Compact
<1>10. CASE Fork
  <2>1. PICK last \in DOMAIN saved.messages :
            saved' = Reindexed(saved, SubSeq(saved.messages, 1, last))
    BY <1>10 DEF Fork
  <2>2. saved.messages \in Seq(LinkedMessages)
    BY <1>2, SavedMessages
  <2>3. last \in 1..Len(saved.messages)
    BY <2>1, <2>2
  <2>4. SubSeq(saved.messages, 1, last) \in Seq(LinkedMessages)
    BY <2>2, <2>3
  <2>5. Within(SubSeq(saved.messages, 1, last), saved.messages)
    BY <2>2, <2>3, PrefixWithin
  <2>. QED
    BY <1>8, <1>10, <2>1, <2>4, <2>5 DEF Fork
<1>11. CASE UNCHANGED vars
  BY <1>3, <1>11 DEF vars
<1>. QED
  BY <1>4, <1>5, <1>6, <1>7, <1>9, <1>10, <1>11 DEF Next

(* The answer before the results still carries the state made of it, and   *)
(* goes out to its model as that state.                                    *)
LEMMA SignedIsReplayed == TypeInv /\ FaithfulInv => SignatureReplayed
<1>. SUFFICES ASSUME TypeInv, FaithfulInv, Len(working) > 1, ~repeats, strategy # "summary",
                     NEW g \in Google,
                     working[Len(working) - 1].wrote.model = g,
                     Signed(working[Len(working) - 1].wrote.parts),
                     Short(working[Len(working) - 1].wrote.parts)
              PROVE  Contents(working, g)[Len(working) - 1].parts
                       = working[Len(working) - 1].wrote.parts
  BY DEF SignatureReplayed
<1>. DEFINE i == Len(working) - 1
            asked == working[i]
            state == GetState(asked, g)
<1>1. working \in Seq(LinkedMessages) /\ i \in 1..Len(working)
  BY DEF TypeInv
<1>2. Kept(asked) /\ asked \in LinkedMessages
  BY <1>1 DEF FaithfulInv, Differing, Faithful
<1>3. asked.state = StateOf(g, asked.wrote.parts)
  BY <1>2 DEF Kept
<1>4. asked.state.model = g /\ asked.state.parts = asked.wrote.parts
  BY <1>3 DEF StateOf
<1>5. state = asked.state
  BY <1>4 DEF GetState
<1>6. state # NoState
  <2>1. NoState.parts = <<>> /\ ~Signed(<<>>)
    BY DEF NoState, Signed
  <2>. QED
    BY <1>4, <1>5, <2>1
<1>. HIDE DEF i
<1>7. Contents(working, g)[i].parts = state.parts
  BY <1>1, <1>6, SentParts
<1>. QED
  BY <1>4, <1>5, <1>7 DEF i

(* The model that signed an answer gets the signatures back with the       *)
(* results of its calls, and no other model ever gets them.                *)
THEOREM SignaturesCorrect == Spec => []SignaturesFollowModel
<1>1. Init => ReplayInv /\ FaithfulInv
  BY InitReplay, InitFaithful
<1>2. ReplayInv /\ FaithfulInv /\ [Next]_vars => (ReplayInv /\ FaithfulInv)'
  BY NextReplay, NextFaithful
<1>3. ReplayInv /\ FaithfulInv => SignaturesFollowModel
  BY BoundToModel, SignedIsReplayed DEF ReplayInv, SignaturesFollowModel
<1>. QED
  BY <1>1, <1>2, <1>3, PTL DEF Spec
=============================================================================
