----------------------------- MODULE Positions ------------------------------
(***************************************************************************)
(* A list of which some elements are taken out, as the code does with a    *)
(* comprehension that keeps the others: what is left, and where a place    *)
(* that the code keeps by identity is then.  The lemmas say of both, and   *)
(* of the ends of a set of places, what the proofs about histories and     *)
(* plans need.                                                             *)
(***************************************************************************)
EXTENDS Integers, Sequences, FiniteSets, TLAPS, SequenceTheorems, FiniteSetTheorems,
        WellFoundedInduction

\* Where the element at i is once those at D are gone, 0 for one of those,
Moved(i, D) == IF i \in D THEN 0 ELSE i - Cardinality({d \in D : d < i})

\* and the sequence then.
Without(m, D) ==
  [k \in 1..(Len(m) - Cardinality(D)) |->
     m[CHOOSE i \in DOMAIN m \ D : Moved(i, D) = k]]

-----------------------------------------------------------------------------
(* The ends of a set of numbers *)

\* A set of numbers with a bound above has a greatest one,
LEMMA HasGreatest ==
  ASSUME NEW a \in Int, NEW b \in Int, NEW S \in SUBSET (a..b), S # {}
  PROVE  \E g \in S : \A j \in S : j <= g
<1> DEFINE Upto == {i..b : i \in S}
<1>1. PICK s \in S : TRUE
  OBVIOUS
<1>2. IsFiniteSet(a..b)
  BY FS_Interval
<1>3. Upto \subseteq FiniteSubsetsOf(a..b) /\ Upto # {}
  <2>1. FiniteSubsetsOf(a..b) = SUBSET (a..b)
    BY <1>2, FS_FiniteSubsetsOfFinite, Zenon
  <2>2. \A i \in S : i..b \subseteq a..b
    OBVIOUS
  <2>3. QED
    BY <1>1, <2>1, <2>2
<1>4. PICK U \in Upto : \A V \in Upto : <<V, U>> \notin StrictSubsetOrdering(a..b)
  BY <1>2, <1>3, FS_StrictSubsetOrderingWellFounded, WFMin
<1>5. PICK g \in S : U = g..b
  BY <1>4
<1>6. ASSUME NEW j \in S PROVE j <= g
  <2>1. SUFFICES ASSUME g < j PROVE FALSE
    OBVIOUS
  <2>2. j..b \subseteq g..b /\ g \in g..b /\ g \notin j..b /\ g..b \subseteq a..b
    BY <2>1
  <2>3. <<j..b, g..b>> \in StrictSubsetOrdering(a..b)
    BY <2>2 DEF StrictSubsetOrdering
  <2>4. QED
    BY <1>4, <1>5, <2>3
<1>7. QED
  BY <1>6

\* and one with a bound below a least one.
LEMMA HasLeast ==
  ASSUME NEW a \in Int, NEW b \in Int, NEW S \in SUBSET (a..b), S # {}
  PROVE  \E l \in S : \A j \in S : l <= j
<1> DEFINE T == {0 - i : i \in S}
<1>1. \A i \in S : i \in Int /\ a <= i /\ i <= b
  OBVIOUS
<1>2. T \in SUBSET ((0 - b)..(0 - a)) /\ (0 - a) \in Int /\ (0 - b) \in Int
  BY <1>1
<1>3. T # {}
  OBVIOUS
<1>4. PICK g \in T : \A t \in T : t <= g
  <2> HIDE DEF T
  <2>1. QED
    BY <1>2, <1>3, HasGreatest
<1>5. PICK l \in S : g = 0 - l
  OBVIOUS
<1>6. ASSUME NEW j \in S PROVE l <= j
  <2>1. 0 - j <= g
    BY <1>4
  <2>2. QED
    BY <2>1, <1>5, <1>1
<1>7. QED
  BY <1>6

\* How many numbers there are from a to b, when none is missing between them.
LEMMA IntervalCount ==
  ASSUME NEW a \in Int, NEW b \in Int, a <= b + 1
  PROVE  IsFiniteSet(a..b) /\ Cardinality(a..b) = b - a + 1
<1>1. IsFiniteSet(a..b) /\ Cardinality(a..b) = IF a > b THEN 0 ELSE b - a + 1
  BY FS_Interval
<1>2. a > b => b - a + 1 = 0
  OBVIOUS
<1>3. QED
  BY <1>1, <1>2

-----------------------------------------------------------------------------
(* What is left of n positions once those at D are gone *)

LEMMA DropCount ==
  ASSUME NEW n \in Nat, NEW D \in SUBSET (1..n)
  PROVE  /\ IsFiniteSet(D) /\ Cardinality(D) \in 0..n
         /\ \A i \in Nat : /\ IsFiniteSet({d \in D : d < i})
                           /\ Cardinality({d \in D : d < i}) \in Nat
<1>1. IsFiniteSet(1..n) /\ Cardinality(1..n) = n
  BY FS_Interval
<1>2. IsFiniteSet(D) /\ Cardinality(D) <= n
  BY <1>1, FS_Subset
<1>3. Cardinality(D) \in Nat
  BY <1>2, FS_CardinalityType
<1>4. ASSUME NEW i \in Nat
      PROVE  IsFiniteSet({d \in D : d < i}) /\ Cardinality({d \in D : d < i}) \in Nat
  <2>1. {d \in D : d < i} \in SUBSET D
    OBVIOUS
  <2>2. IsFiniteSet({d \in D : d < i})
    BY <2>1, <1>2, FS_Subset, Zenon
  <2>3. QED
    BY <2>2, FS_CardinalityType, Zenon
<1>5. QED
  BY <1>2, <1>3, <1>4

\* A position that stays is still one of what is left.
LEMMA MovedRange ==
  ASSUME NEW n \in Nat, NEW D \in SUBSET (1..n), NEW i \in (1..n) \ D
  PROVE  Moved(i, D) \in 1..(n - Cardinality(D))
<1> DEFINE L == {d \in D : d < i}
           H == {d \in D : i < d}
<1>0. /\ \A d \in D : d \in Int /\ 1 <= d /\ d <= n /\ d # i
      /\ i \in Int /\ 1 <= i /\ i <= n
  OBVIOUS
<1>1. D = L \cup H /\ L \cap H = {}
  <2>1. \A d \in D : (d < i) <=> ~(i < d)
    BY <1>0
  <2>2. QED
    BY <2>1
<1>2. L \in SUBSET (1..(i - 1)) /\ H \in SUBSET ((i + 1)..n)
  <2>1. \A d \in D : (d < i => d \in 1..(i - 1)) /\ (i < d => d \in (i + 1)..n)
    BY <1>0
  <2>2. QED
    BY <2>1
<1>3. IsFiniteSet(1..(i - 1)) /\ Cardinality(1..(i - 1)) = i - 1
  <2>1. i - 1 \in Int /\ 1 <= (i - 1) + 1
    BY <1>0
  <2>2. Cardinality(1..(i - 1)) = (i - 1) - 1 + 1 /\ IsFiniteSet(1..(i - 1))
    BY <2>1, IntervalCount
  <2>3. (i - 1) - 1 + 1 = i - 1
    BY <1>0
  <2>4. QED
    BY <2>2, <2>3
<1>4. IsFiniteSet((i + 1)..n) /\ Cardinality((i + 1)..n) = n - i
  <2>1. i + 1 \in Int /\ n \in Int /\ i + 1 <= n + 1
    BY <1>0
  <2>2. Cardinality((i + 1)..n) = n - (i + 1) + 1 /\ IsFiniteSet((i + 1)..n)
    BY <2>1, IntervalCount
  <2>3. n - (i + 1) + 1 = n - i
    BY <1>0
  <2>4. QED
    BY <2>2, <2>3
<1>5. IsFiniteSet(L) /\ Cardinality(L) <= i - 1
  <2> HIDE DEF L
  <2>1. QED
    BY <1>2, <1>3, FS_Subset
<1>6. IsFiniteSet(H) /\ Cardinality(H) <= n - i
  <2> HIDE DEF H
  <2>1. QED
    BY <1>2, <1>4, FS_Subset
<1>7. Cardinality(L) \in Nat /\ Cardinality(H) \in Nat /\ Cardinality({}) = 0
  BY <1>5, <1>6, FS_CardinalityType, FS_EmptySet
<1>8. Cardinality(D) = Cardinality(L) + Cardinality(H)
  <2> HIDE DEF L, H
  <2>1. Cardinality(D) = Cardinality(L) + Cardinality(H) - Cardinality(L \cap H)
    BY <1>1, <1>5, <1>6, FS_Union
  <2>2. Cardinality(L \cap H) = 0
    BY <1>1, <1>7, Zenon
  <2>3. Cardinality(L) + Cardinality(H) - 0 = Cardinality(L) + Cardinality(H)
    BY <1>7
  <2>4. QED
    BY <2>1, <2>2, <2>3, Zenon
<1>9. Moved(i, D) = i - Cardinality(L)
  BY DEF Moved
<1>10. QED
  <2> HIDE DEF L, H
  <2>1. QED
    BY <1>5, <1>6, <1>7, <1>8, <1>9

\* Positions that stay keep their order.
LEMMA MovedOrder ==
  ASSUME NEW n \in Nat, NEW D \in SUBSET (1..n),
         NEW i \in (1..n) \ D, NEW j \in (1..n) \ D, i < j
  PROVE  Moved(i, D) < Moved(j, D)
<1> DEFINE L == {d \in D : d < i}
           B == {d \in D : i < d /\ d < j}
           M == {d \in D : d < j}
<1>0. /\ \A d \in D : d \in Int /\ 1 <= d /\ d <= n /\ d # i
      /\ i \in Int /\ j \in Int /\ i < j
  OBVIOUS
<1>1. M = L \cup B /\ L \cap B = {}
  <2>1. \A d \in D : /\ (d < j) <=> (d < i) \/ (i < d /\ d < j)
                     /\ ~(d < i /\ i < d)
    BY <1>0
  <2>2. QED
    BY <2>1
<1>2. B \in SUBSET ((i + 1)..(j - 1))
  <2>1. \A d \in D : i < d /\ d < j => d \in (i + 1)..(j - 1)
    BY <1>0
  <2>2. QED
    BY <2>1
<1>3. IsFiniteSet((i + 1)..(j - 1)) /\ Cardinality((i + 1)..(j - 1)) = j - 1 - i
  <2>1. i + 1 \in Int /\ j - 1 \in Int /\ i + 1 <= (j - 1) + 1
    BY <1>0
  <2>2. /\ Cardinality((i + 1)..(j - 1)) = (j - 1) - (i + 1) + 1
        /\ IsFiniteSet((i + 1)..(j - 1))
    BY <2>1, IntervalCount
  <2>3. (j - 1) - (i + 1) + 1 = j - 1 - i
    BY <1>0
  <2>4. QED
    BY <2>2, <2>3
<1>4. IsFiniteSet(L) /\ Cardinality(L) \in Nat /\ Cardinality(M) \in Nat
  <2>1. i \in Nat /\ j \in Nat
    OBVIOUS
  <2>2. QED
    BY <2>1, DropCount
<1>5. IsFiniteSet(B) /\ Cardinality(B) <= j - 1 - i
  <2> HIDE DEF B
  <2>1. IsFiniteSet(B) /\ Cardinality(B) <= Cardinality((i + 1)..(j - 1))
    BY <1>2, <1>3, FS_Subset, Zenon
  <2>2. QED
    BY <2>1, <1>3, Zenon
<1>6. Cardinality(B) \in Nat /\ Cardinality({}) = 0
  BY <1>5, FS_CardinalityType, FS_EmptySet
<1>7. Cardinality(M) = Cardinality(L) + Cardinality(B)
  <2> HIDE DEF L, B, M
  <2>1. Cardinality(M) = Cardinality(L) + Cardinality(B) - Cardinality(L \cap B)
    BY <1>1, <1>4, <1>5, FS_Union
  <2>2. Cardinality(L \cap B) = 0
    BY <1>1, <1>6, Zenon
  <2>3. Cardinality(L) + Cardinality(B) - 0 = Cardinality(L) + Cardinality(B)
    BY <1>4, <1>6
  <2>4. QED
    BY <2>1, <2>2, <2>3, Zenon
<1>8. Moved(i, D) = i - Cardinality(L) /\ Moved(j, D) = j - Cardinality(M)
  BY DEF Moved
<1>9. QED
  <2> HIDE DEF L, B, M
  <2>1. QED
    BY <1>4, <1>5, <1>6, <1>7, <1>8

\* Positions with nothing dropped between them keep their distance.
LEMMA MovedTogether ==
  ASSUME NEW n \in Nat, NEW D \in SUBSET (1..n), NEW i \in 1..n, NEW j \in 1..n,
         i <= j, (i..j) \cap D = {}
  PROVE  Moved(j, D) = Moved(i, D) + (j - i)
<1>1. {d \in D : d < j} = {d \in D : d < i}
  <2>1. \A d \in D : d \in Int /\ d \notin i..j
    OBVIOUS
  <2>2. \A d \in D : (d < j) <=> (d < i)
    BY <2>1
  <2>3. QED
    BY <2>2
<1>2. i \notin D /\ j \notin D
  <2>1. i \in i..j /\ j \in i..j
    OBVIOUS
  <2>2. QED
    BY <2>1
<1>3. Cardinality({d \in D : d < i}) \in Nat
  <2>1. i \in Nat
    OBVIOUS
  <2>2. QED
    BY <2>1, DropCount
<1>4. Moved(i, D) = i - Cardinality({d \in D : d < i})
  BY <1>2 DEF Moved
<1>5. Moved(j, D) = j - Cardinality({d \in D : d < i})
  BY <1>1, <1>2 DEF Moved
<1>6. QED
  BY <1>3, <1>4, <1>5

\* Every position of what is left is where one that stays has moved to.
LEMMA MovedOnto ==
  ASSUME NEW n \in Nat, NEW D \in SUBSET (1..n), NEW p \in 1..(n - Cardinality(D))
  PROVE  \E k \in (1..n) \ D : Moved(k, D) = p
<1> DEFINE S == (1..n) \ D
           T == 1..(n - Cardinality(D))
           f == [k \in S |-> Moved(k, D)]
<1>1. f \in [S -> T]
  BY MovedRange
<1>2. ASSUME NEW a \in S, NEW b \in S, f[a] = f[b] PROVE a = b
  <2>1. f[a] = Moved(a, D) /\ f[b] = Moved(b, D) /\ f[a] \in Int /\ f[b] \in Int
    BY MovedRange
  <2>2. CASE a < b
    BY <2>1, <2>2, <1>2, MovedOrder
  <2>3. CASE b < a
    BY <2>1, <2>3, <1>2, MovedOrder
  <2>4. QED
    BY <2>2, <2>3
<1>3. f \in Injection(S, T)
  <2> HIDE DEF f, S, T
  <2>1. QED
    BY <1>1, <1>2 DEF Injection, IsInjective
<1>4. Cardinality(D) \in 0..n /\ IsFiniteSet(D) /\ D = (1..n) \cap D
  BY DropCount
<1>5. IsFiniteSet(T) /\ Cardinality(T) = n - Cardinality(D)
  <2>1. ASSUME NEW c \in Nat PROVE IsFiniteSet(1..c) /\ Cardinality(1..c) = c
    <3>1. IsFiniteSet(1..c) /\ Cardinality(1..c) = c - 1 + 1
      BY IntervalCount
    <3>2. QED
      BY <3>1
  <2>2. n - Cardinality(D) \in Nat
    BY <1>4
  <2>3. QED
    BY <2>1, <2>2, Zenon
<1>6. Cardinality(S) = n - Cardinality(D)
  <2>1. IsFiniteSet(1..n) /\ Cardinality(1..n) = n
    BY FS_Interval
  <2>2. Cardinality(S) = Cardinality(1..n) - Cardinality((1..n) \cap D)
    BY <2>1, FS_Difference
  <2>3. QED
    BY <2>1, <2>2, <1>4
<1>7. f \in Surjection(S, T)
  <2> HIDE DEF f, S, T
  <2>1. QED
    BY <1>3, <1>5, <1>6, FS_Injection
<1>8. \E k \in S : f[k] = p
  <2> HIDE DEF f, S, T
  <2>1. p \in T
    BY DEF T
  <2>2. QED
    BY <1>7, <2>1 DEF Surjection
<1>9. QED
  BY <1>8

\* Nowhere stays nowhere.
LEMMA MovedZero ==
  ASSUME NEW n \in Nat, NEW D \in SUBSET (1..n)
  PROVE  Moved(0, D) = 0
<1>1. {d \in D : d < 0} = {} /\ 0 \notin D
  <2>1. \A d \in D : d \in Int /\ 1 <= d
    OBVIOUS
  <2>2. \A d \in D : ~(d < 0) /\ d # 0
    BY <2>1
  <2>3. QED
    BY <2>2
<1>2. Cardinality({d \in D : d < 0}) = 0
  BY <1>1, FS_EmptySet
<1>3. QED
  BY <1>1, <1>2 DEF Moved

LEMMA WithoutIs ==
  ASSUME NEW X, NEW m \in Seq(X), NEW D \in SUBSET (DOMAIN m)
  PROVE  /\ Without(m, D) \in Seq(X)
         /\ Len(Without(m, D)) = Len(m) - Cardinality(D)
         /\ \A k \in DOMAIN m \ D : /\ Moved(k, D) \in 1..Len(Without(m, D))
                                    /\ Without(m, D)[Moved(k, D)] = m[k]
         /\ \A p \in 1..Len(Without(m, D)) :
              \E k \in DOMAIN m \ D : Moved(k, D) = p /\ Without(m, D)[p] = m[k]
<1> DEFINE w == Without(m, D)
           n == Len(m)
           c == n - Cardinality(D)
           From(p) == CHOOSE i \in DOMAIN m \ D : Moved(i, D) = p
<1>1. n \in Nat /\ DOMAIN m = 1..n /\ D \in SUBSET (1..n) /\ \A i \in 1..n : m[i] \in X
  BY LenProperties, ElementOfSeq
<1>2. c \in Nat
  BY <1>1, DropCount
<1>3. \A p \in 1..c : From(p) \in DOMAIN m \ D /\ Moved(From(p), D) = p
  BY <1>1, MovedOnto
<1>4. w = [p \in 1..c |-> m[From(p)]]
  BY DEF Without
<1> HIDE DEF w, From, c, n
<1>5. w \in Seq(X) /\ Len(w) = c /\ \A p \in 1..c : w[p] = m[From(p)]
  <2>1. \A p \in 1..c : m[From(p)] \in X
    BY <1>1, <1>3
  <2>2. w \in [1..c -> X]
    BY <1>4, <2>1
  <2>3. w \in Seq(X) /\ DOMAIN w = 1..c
    BY <2>2, <1>2, IsASeq
  <2>4. Len(w) \in Nat /\ 1..Len(w) = 1..c
    BY <2>3, LenProperties
  <2>5. Len(w) = c
    BY <2>4, <1>2
  <2>6. QED
    BY <2>3, <2>5, <1>4
<1>6. ASSUME NEW k \in DOMAIN m \ D
      PROVE  Moved(k, D) \in 1..c /\ w[Moved(k, D)] = m[k]
  <2>1. Moved(k, D) \in 1..c
    BY <1>1, MovedRange DEF c
  <2>2. From(Moved(k, D)) \in (1..n) \ D /\ Moved(From(Moved(k, D)), D) = Moved(k, D)
    BY <1>1, <1>3, <2>1
  <2>3. From(Moved(k, D)) = k
    <3> DEFINE j == From(Moved(k, D))
    <3>1. j \in (1..n) \ D /\ k \in (1..n) \ D /\ Moved(j, D) = Moved(k, D)
      BY <1>1, <2>2
    <3> HIDE DEF j
    <3>2. Moved(k, D) \in Int
      BY <2>1
    <3>3. ~(j < k)
      BY <1>1, <3>1, <3>2, MovedOrder
    <3>4. ~(k < j)
      BY <1>1, <3>1, <3>2, MovedOrder
    <3>5. j = k
      BY <1>1, <3>1, <3>3, <3>4
    <3>6. QED
      BY <3>5 DEF j
  <2>4. QED
    BY <1>5, <2>1, <2>3
<1>7. QED
  BY <1>3, <1>5, <1>6 DEF w, c, n

\* So it is a list of the same elements.
LEMMA WithoutSeq ==
  ASSUME NEW X, NEW m \in Seq(X), NEW D \in SUBSET (DOMAIN m)
  PROVE  Without(m, D) \in Seq(X)
BY WithoutIs

\* What stays is found where it has moved to.
LEMMA WithoutAt ==
  ASSUME NEW X, NEW m \in Seq(X), NEW D \in SUBSET (DOMAIN m), NEW k \in DOMAIN m \ D
  PROVE  Moved(k, D) \in 1..Len(Without(m, D)) /\ Without(m, D)[Moved(k, D)] = m[k]
<1>1. \A l \in DOMAIN m \ D : /\ Moved(l, D) \in 1..Len(Without(m, D))
                               /\ Without(m, D)[Moved(l, D)] = m[l]
  BY WithoutIs
<1>2. QED
  BY <1>1, Zenon

=============================================================================
