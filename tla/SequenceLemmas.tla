--------------------------- MODULE SequenceLemmas ---------------------------
(***************************************************************************)
(* What the proofs about texts need to know of numbers, of sorted sets and *)
(* of sequences.                                                           *)
(***************************************************************************)
EXTENDS SortedSets, SequencesExt, SequenceTheorems, FiniteSetTheorems, TLAPS

-----------------------------------------------------------------------------
(* Induction.                                                              *)

\* A set of numbers has a least element: the intervals from 0 to its elements are finite
\* sets, and inclusion is well-founded on those.
LEMMA LeastNatural ==
    ASSUME NEW T, T \subseteq Nat, T # {}
    PROVE  \E n \in T : \A m \in T : n <= m
<1>. DEFINE R == StrictSubsetOrdering(Nat)
            U == {0..n : n \in T}
<1>1. IsWellFoundedOn(R, FiniteSubsetsOf(Nat))
    BY FS_StrictSubsetOrderingWellFounded
<1>2. U \subseteq FiniteSubsetsOf(Nat) /\ U # {}
    <2>1. ASSUME NEW n \in T
          PROVE  IsFiniteSet(0..n) /\ 0..n \subseteq Nat
        BY FS_Interval
    <2>. QED BY <2>1 DEF FiniteSubsetsOf
<1>3. \E x \in U : \A y \in U : <<y, x>> \notin R
    <2>. HIDE DEF R, U
    <2>. QED BY <1>1, <1>2, WFMin
<1>4. PICK n \in T : \A m \in T : <<0..m, 0..n>> \notin R
    BY <1>3
<1>5. ASSUME NEW m \in T, m < n
      PROVE  FALSE
    <2>1. 0..m \subseteq 0..n /\ n \in 0..n /\ n \notin 0..m /\ 0..m \subseteq Nat /\ 0..n \subseteq Nat
        BY <1>5
    <2>2. 0..m # 0..n
        BY <2>1
    <2>3. <<0..m, 0..n>> \in (SUBSET Nat) \X (SUBSET Nat)
        BY <2>1
    <2>4. <<0..m, 0..n>> \in R
        <3>. DEFINE x == <<0..m, 0..n>>
        <3>1. x[1] = 0..m /\ x[2] = 0..n
            OBVIOUS
        <3>2. x \in R
            <4>. HIDE DEF x
            <4>. QED BY <2>1, <2>2, <2>3, <3>1 DEF StrictSubsetOrdering, x
        <3>. QED BY <3>2
    <2>. QED BY <1>4, <2>4
<1>6. \A m \in T : n <= m
    BY <1>5
<1>. QED BY <1>6

\* Induction over the numbers of a set.
LEMMA Induction ==
    ASSUME NEW S, 0 \in S, \A n \in Nat : n \in S => n + 1 \in S
    PROVE  \A n \in Nat : n \in S
<1>1. SUFFICES ASSUME Nat \ S # {}
               PROVE  FALSE
    OBVIOUS
<1>2. PICK n \in Nat \ S : \A m \in Nat \ S : n <= m
    BY <1>1, LeastNatural
<1>3. n - 1 \in Nat /\ n - 1 \notin Nat \ S
    BY <1>2
<1>4. (n - 1) + 1 = n
    BY <1>3
<1>. QED BY <1>2, <1>3, <1>4

\* Min() is the least of a set of numbers.
LEMMA MinIsLeast ==
    ASSUME NEW T, T \subseteq Nat, T # {}
    PROVE  Min(T) \in T /\ \A m \in T : Min(T) <= m
BY LeastNatural DEF Min

\* Max() is the greatest of a bounded one.
LEMMA MaxIsGreatest ==
    ASSUME NEW T, T \subseteq Nat, T # {}, NEW n \in Nat, \A m \in T : m <= n
    PROVE  Max(T) \in T /\ \A m \in T : m <= Max(T)
<1>. DEFINE U == {k \in 0..n : n - k \in T}
<1>1. U # {} /\ U \subseteq Nat
    <2>1. PICK m \in T : TRUE
        OBVIOUS
    <2>2. n - m \in 0..n /\ n - (n - m) = m
        OBVIOUS
    <2>3. n - m \in U
        BY <2>2
    <2>4. U \subseteq Nat
        OBVIOUS
    <2>. QED BY <2>3, <2>4
<1>2. PICK k \in U : \A j \in U : k <= j
    <2>. HIDE DEF U
    <2>. QED BY <1>1, LeastNatural
<1>3. n - k \in T /\ n - k \in Nat
    BY <1>2
<1>4. ASSUME NEW m \in T
      PROVE  m <= n - k
    <2>1. n - m \in 0..n /\ n - (n - m) = m
        OBVIOUS
    <2>2. k <= n - m
        BY <1>2, <2>1
    <2>. QED BY <1>2, <2>2
<1>5. \E x \in T : \A y \in T : x >= y
    BY <1>3, <1>4
<1>. QED BY <1>5 DEF Max
-----------------------------------------------------------------------------
(* Sorted sets.                                                            *)

\* How many elements of S come before i.
Before(S, i) == {j \in S : j < i}

\* The elements of S are told apart by how many there are before them, and every number
\* below that of the elements is one element's.
LEMMA Ranks ==
    ASSUME NEW S, S \subseteq Nat, IsFiniteSet(S)
    PROVE  /\ Cardinality(S) \in Nat
           /\ \A i \in S : Cardinality(Before(S, i)) \in 0..(Cardinality(S) - 1)
           /\ \A i, j \in S : i < j => Cardinality(Before(S, i)) < Cardinality(Before(S, j))
           /\ \A k \in 1..Cardinality(S) : \E i \in S : Cardinality(Before(S, i)) = k - 1
<1>. DEFINE n == Cardinality(S)
<1>1. n \in Nat
    BY FS_CardinalityType
<1>2. ASSUME NEW T, T \subseteq S, NEW U, U \subseteq T, U # T
      PROVE  /\ Cardinality(U) \in Nat /\ Cardinality(T) \in Nat
             /\ Cardinality(U) < Cardinality(T)
    <2>1. IsFiniteSet(T) /\ IsFiniteSet(U)
        BY <1>2, FS_Subset
    <2>2. Cardinality(U) \in Nat /\ Cardinality(T) \in Nat
        BY <2>1, FS_CardinalityType
    <2>3. Cardinality(U) <= Cardinality(T) /\ Cardinality(T) # Cardinality(U)
        BY <1>2, <2>1, FS_Subset
    <2>. QED BY <2>2, <2>3
<1>3. ASSUME NEW i \in S
      PROVE  Cardinality(Before(S, i)) \in 0..(n - 1)
    <2>1. Before(S, i) \subseteq S /\ i \notin Before(S, i)
        BY DEF Before
    <2>2. Cardinality(Before(S, i)) \in Nat /\ Cardinality(Before(S, i)) < n
        BY <1>2, <2>1
    <2>. QED BY <1>1, <2>2
<1>4. ASSUME NEW i \in S, NEW j \in S, i < j
      PROVE  Cardinality(Before(S, i)) < Cardinality(Before(S, j))
    <2>0. \A l \in S : l \in Nat
        OBVIOUS
    <2>1. Before(S, j) \subseteq S /\ Before(S, i) \subseteq Before(S, j)
        <3>1. \A l \in S : l < i => l < j
            BY <1>4, <2>0
        <3>. QED BY <3>1 DEF Before
    <2>2. i \in Before(S, j) /\ i \notin Before(S, i)
        BY <1>4 DEF Before
    <2>. QED BY <1>2, <2>1, <2>2
<1>5. ASSUME NEW k \in 1..n
      PROVE  \E i \in S : Cardinality(Before(S, i)) = k - 1
    <2>. DEFINE f == [i \in S |-> Cardinality(Before(S, i)) + 1]
    <2>1. f \in [S -> 1..n]
        BY <1>1, <1>3
    <2>2. ASSUME NEW i \in S, NEW j \in S, f[i] = f[j]
          PROVE  i = j
        <3>1. Cardinality(Before(S, i)) = Cardinality(Before(S, j))
            BY <1>3, <2>2
        <3>2. ~(i < j) /\ ~(j < i)
            BY <1>3, <1>4, <3>1
        <3>. QED BY <3>2
    <2>3. f \in Injection(S, 1..n)
        BY <2>1, <2>2 DEF Injection, IsInjective
    <2>4. IsFiniteSet(1..n) /\ Cardinality(1..n) = n
        BY <1>1, FS_Interval
    <2>5. f \in Surjection(S, 1..n)
        BY <2>3, <2>4, FS_Injection
    <2>6. PICK i \in S : f[i] = k
        BY <2>5 DEF Surjection
    <2>7. Cardinality(Before(S, i)) = k - 1
        BY <1>3, <2>6
    <2>. QED BY <2>7
<1>. QED BY <1>1, <1>3, <1>4, <1>5

\* Sorted() yields each element once, in their order.
LEMMA SortedIsInOrder ==
    ASSUME NEW S, S \subseteq Nat, IsFiniteSet(S)
    PROVE  /\ Sorted(S) \in Seq(S) /\ Len(Sorted(S)) = Cardinality(S)
           /\ DOMAIN Sorted(S) = 1..Len(Sorted(S))
           /\ \A k, l \in DOMAIN Sorted(S) : k < l <=> Sorted(S)[k] < Sorted(S)[l]
           /\ \A i \in S : \E k \in DOMAIN Sorted(S) : Sorted(S)[k] = i
<1>. DEFINE n == Cardinality(S)
            q == Sorted(S)
            r(i) == Cardinality(Before(S, i))
<1>1. n \in Nat /\ DOMAIN q = 1..n
    BY Ranks DEF Sorted
<1>2. ASSUME NEW k \in 1..n
      PROVE  q[k] \in S /\ r(q[k]) = k - 1
    <2>1. q[k] = CHOOSE i \in S : Cardinality(Before(S, i)) = k - 1
        BY DEF Sorted, Before
    <2>2. \E i \in S : Cardinality(Before(S, i)) = k - 1
        BY Ranks
    <2>. QED BY <2>1, <2>2
<1>3. q \in [1..n -> S]
    BY <1>1, <1>2 DEF Sorted
<1>4. q \in Seq(S) /\ Len(q) = n
    <2>. HIDE DEF q, n
    <2>1. q \in Seq(S)
        BY <1>1, <1>3, SeqDef
    <2>. QED BY <1>1, <1>3, <2>1, LenProperties
<1>5. \A k, l \in 1..n : k < l => q[k] < q[l]
    <2>1. SUFFICES ASSUME NEW k \in 1..n, NEW l \in 1..n, k < l, ~(q[k] < q[l])
                   PROVE  FALSE
        OBVIOUS
    <2>2. q[k] \in S /\ q[l] \in S /\ r(q[k]) = k - 1 /\ r(q[l]) = l - 1
        BY <1>2
    <2>3. q[k] = q[l] \/ q[l] < q[k]
        <3>1. q[k] \in Nat /\ q[l] \in Nat
            BY <2>2
        <3>. QED BY <2>1, <3>1
    <2>4. CASE q[l] < q[k]
        <3>1. r(q[l]) < r(q[k])
            BY <2>2, <2>4, Ranks
        <3>. QED BY <2>1, <2>2, <3>1
    <2>. QED BY <2>1, <2>2, <2>3, <2>4
<1>6. ASSUME NEW i \in S
      PROVE  \E k \in 1..n : q[k] = i
    <2>1. r(i) \in 0..(n - 1)
        BY Ranks
    <2>2. r(i) + 1 \in 1..n
        BY <1>1, <2>1
    <2>3. q[r(i) + 1] \in S /\ r(q[r(i) + 1]) = r(i)
        <3>1. (r(i) + 1) - 1 = r(i)
            BY <2>1
        <3>. QED BY <1>2, <2>2, <3>1
    <2>4. ~(q[r(i) + 1] < i) /\ ~(i < q[r(i) + 1])
        <3>. DEFINE j == q[r(i) + 1]
        <3>1. j \in S /\ r(j) = r(i) /\ r(i) \in Nat
            BY <2>1, <2>3
        <3>2. (i < j => r(i) < r(j)) /\ (j < i => r(j) < r(i))
            <4>. HIDE DEF j
            <4>. QED BY <3>1, Ranks
        <3>. HIDE DEF j, r
        <3>3. ~(j < i) /\ ~(i < j)
            BY <3>1, <3>2
        <3>. QED BY <3>3 DEF j
    <2>5. q[r(i) + 1] = i
        <3>1. q[r(i) + 1] \in Nat /\ i \in Nat
            BY <2>3
        <3>. HIDE DEF q, r
        <3>. QED BY <2>4, <3>1
    <2>. QED BY <2>2, <2>5
<1>7. \A k, l \in 1..n : q[k] < q[l] => k < l
    <2>1. SUFFICES ASSUME NEW k \in 1..n, NEW l \in 1..n, q[k] < q[l], ~(k < l)
                   PROVE  FALSE
        OBVIOUS
    <2>2. q[k] \in Nat /\ q[l] \in Nat
        BY <1>2
    <2>3. l = k \/ l < k
        BY <2>1
    <2>. QED BY <1>5, <2>1, <2>2, <2>3
<1>. QED BY <1>1, <1>4, <1>5, <1>6, <1>7

\* Whatever lists S in order is what Sorted() yields.
LEMMA SortedIsUnique ==
    ASSUME NEW S, S \subseteq Nat, IsFiniteSet(S), NEW q \in Seq(S),
           \A k, l \in 1..Len(q) : k < l => q[k] < q[l],
           \A i \in S : \E k \in 1..Len(q) : q[k] = i
    PROVE  Sorted(S) = q
<1>. DEFINE r == Sorted(S)
<1>1. /\ r \in Seq(S) /\ DOMAIN r = 1..Len(r) /\ Len(r) \in Nat
      /\ \A k, l \in 1..Len(r) : k < l <=> r[k] < r[l]
      /\ \A i \in S : \E k \in 1..Len(r) : r[k] = i
    <2>1. /\ r \in Seq(S) /\ DOMAIN r = 1..Len(r)
          /\ \A k, l \in DOMAIN r : k < l <=> r[k] < r[l]
          /\ \A i \in S : \E k \in DOMAIN r : r[k] = i
        BY SortedIsInOrder
    <2>. HIDE DEF r
    <2>2. Len(r) \in Nat
        BY <2>1, LenProperties
    <2>. QED BY <2>1, <2>2
<1>2. /\ Len(q) \in Nat /\ DOMAIN q = 1..Len(q)
      /\ \A k \in 1..Len(q) : q[k] \in S /\ q[k] \in Nat
    BY LenProperties, ElementOfSeq
<1>3. \A k \in 1..Len(r) : r[k] \in S /\ r[k] \in Nat
    BY <1>1, ElementOfSeq
<1>. HIDE DEF r
<1>. DEFINE Same == {n \in Nat : \A k \in 1..n : (k <= Len(q) <=> k <= Len(r))
                                                /\ (k <= Len(q) => q[k] = r[k])}
<1>4. 0 \in Same
    OBVIOUS
<1>5. ASSUME NEW n \in Nat, n \in Same
      PROVE  n + 1 \in Same
    <2>1. \A k \in 1..n : (k <= Len(q) <=> k <= Len(r)) /\ (k <= Len(q) => q[k] = r[k])
        BY <1>5
    <2>2. ASSUME n + 1 <= Len(q)
          PROVE  n + 1 <= Len(r) /\ r[n + 1] <= q[n + 1]
        <3>1. n + 1 \in 1..Len(q) /\ q[n + 1] \in S
            BY <1>2, <2>2
        <3>2. PICK k \in 1..Len(r) : r[k] = q[n + 1]
            BY <1>1, <3>1
        <3>3. k > n
            <4>1. SUFFICES ASSUME k <= n PROVE FALSE
                BY <1>1, <3>2
            <4>2. k \in 1..n /\ k \in 1..Len(q) /\ q[k] = q[n + 1]
                BY <1>1, <1>2, <2>1, <2>2, <3>2, <4>1
            <4>3. q[k] < q[n + 1]
                BY <3>1, <4>2
            <4>. QED BY <1>2, <3>1, <4>2, <4>3
        <3>4. n + 1 \in 1..Len(r) /\ n + 1 <= k
            BY <1>1, <3>2, <3>3
        <3>5. r[n + 1] <= r[k]
            <4>1. CASE n + 1 = k
                BY <1>3, <3>4, <4>1
            <4>2. CASE n + 1 < k
                BY <1>1, <1>3, <3>4, <4>2
            <4>. QED BY <3>2, <3>4, <4>1, <4>2
        <3>. QED BY <3>2, <3>4, <3>5
    <2>3. ASSUME n + 1 <= Len(r)
          PROVE  n + 1 <= Len(q) /\ q[n + 1] <= r[n + 1]
        <3>1. n + 1 \in 1..Len(r) /\ r[n + 1] \in S
            BY <1>1, <1>3, <2>3
        <3>2. PICK k \in 1..Len(q) : q[k] = r[n + 1]
            BY <3>1
        <3>3. k > n
            <4>1. SUFFICES ASSUME k <= n PROVE FALSE
                BY <1>2, <3>2
            <4>2. k \in 1..n /\ k \in 1..Len(r) /\ r[k] = r[n + 1]
                BY <1>1, <1>2, <2>1, <2>3, <3>2, <4>1
            <4>3. r[k] < r[n + 1]
                BY <1>1, <3>1, <4>2
            <4>. QED BY <1>3, <3>1, <4>2, <4>3
        <3>4. n + 1 \in 1..Len(q) /\ n + 1 <= k
            BY <1>2, <3>2, <3>3
        <3>5. q[n + 1] <= q[k]
            <4>1. CASE n + 1 = k
                BY <1>2, <3>4, <4>1
            <4>2. CASE n + 1 < k
                BY <1>2, <3>4, <4>2
            <4>. QED BY <3>2, <3>4, <4>1, <4>2
        <3>. QED BY <3>2, <3>4, <3>5
    <2>4. /\ n + 1 <= Len(q) <=> n + 1 <= Len(r)
          /\ n + 1 <= Len(q) => q[n + 1] = r[n + 1]
        <3>1. n + 1 <= Len(q) <=> n + 1 <= Len(r)
            BY <2>2, <2>3
        <3>2. ASSUME n + 1 <= Len(q) PROVE q[n + 1] = r[n + 1]
            <4>1. n + 1 \in 1..Len(q) /\ n + 1 \in 1..Len(r)
                BY <1>1, <1>2, <2>2, <3>2
            <4>2. q[n + 1] \in Nat /\ r[n + 1] \in Nat
                BY <1>2, <1>3, <4>1
            <4>3. q[n + 1] <= r[n + 1] /\ r[n + 1] <= q[n + 1]
                BY <2>2, <2>3, <3>1, <3>2
            <4>. QED BY <4>2, <4>3
        <3>. QED BY <3>1, <3>2
    <2>5. \A k \in 1..(n + 1) : k \in 1..n \/ k = n + 1
        OBVIOUS
    <2>. QED BY <2>1, <2>4, <2>5
<1>6. \A n \in Nat : n \in Same
    <2>. HIDE DEF Same
    <2>. QED BY <1>4, <1>5, Induction
<1>7. \A k \in Nat \ {0} : (k <= Len(q) <=> k <= Len(r)) /\ (k <= Len(q) => q[k] = r[k])
    <2>1. SUFFICES ASSUME NEW k \in Nat \ {0}
                   PROVE  (k <= Len(q) <=> k <= Len(r)) /\ (k <= Len(q) => q[k] = r[k])
        OBVIOUS
    <2>2. k \in 1..k /\ k \in Same
        BY <1>6
    <2>. QED BY <2>2
<1>8. Len(q) = Len(r)
    <2>1. Len(q) = 0 \/ Len(q) \in Nat \ {0}
        BY <1>2
    <2>2. Len(r) = 0 \/ Len(r) \in Nat \ {0}
        BY <1>1
    <2>3. Len(q) # 0 => Len(q) <= Len(r)
        BY <1>2, <1>7, <2>1
    <2>4. Len(r) # 0 => Len(r) <= Len(q)
        BY <1>1, <1>7, <2>2
    <2>. HIDE DEF Same
    <2>5. \A a, b \in Nat : (a # 0 => a <= b) /\ (b # 0 => b <= a) => a = b
        OBVIOUS
    <2>. QED BY <1>1, <1>2, <2>3, <2>4, <2>5
<1>9. \A k \in 1..Len(q) : q[k] = r[k]
    BY <1>2, <1>7
<1>10. q = r
    BY <1>1, <1>8, <1>9, SeqEqual
<1>. QED BY <1>10 DEF r

\* A number greater than all the others comes last.
LEMMA SortedAppend ==
    ASSUME NEW S, S \subseteq Nat, IsFiniteSet(S), NEW x \in Nat, \A i \in S : i < x
    PROVE  Sorted(S \cup {x}) = Append(Sorted(S), x)
<1>. DEFINE q == Sorted(S)
            r == Append(q, x)
            T == S \cup {x}
<1>1. /\ q \in Seq(S) /\ Len(q) \in Nat /\ DOMAIN q = 1..Len(q)
      /\ \A k, l \in 1..Len(q) : k < l <=> q[k] < q[l]
      /\ \A i \in S : \E k \in 1..Len(q) : q[k] = i
      /\ \A k \in 1..Len(q) : q[k] \in S
    BY SortedIsInOrder, LenProperties, ElementOfSeq
<1>2. T \subseteq Nat /\ IsFiniteSet(T) /\ S \subseteq T
    BY FS_AddElement
<1>3. q \in Seq(T)
    BY <1>1, <1>2, SeqMonotonic
<1>. HIDE DEF q, T
<1>4. /\ r \in Seq(T) /\ Len(r) = Len(q) + 1 /\ \A k \in 1..Len(q) : r[k] = q[k]
      /\ r[Len(q) + 1] = x
    BY <1>3, AppendProperties DEF T
<1>. HIDE DEF r
<1>5. ASSUME NEW k \in 1..Len(r), NEW l \in 1..Len(r), k < l
      PROVE  r[k] < r[l]
    <2>1. k \in 1..Len(q)
        BY <1>1, <1>4, <1>5
    <2>2. CASE l \in 1..Len(q)
        BY <1>1, <1>4, <1>5, <2>1, <2>2
    <2>3. CASE l = Len(q) + 1
        BY <1>1, <1>4, <2>1, <2>3
    <2>. QED BY <1>1, <1>4, <2>2, <2>3
<1>6. ASSUME NEW i \in T
      PROVE  \E k \in 1..Len(r) : r[k] = i
    <2>1. CASE i = x
        <3>1. Len(q) + 1 \in 1..Len(r)
            BY <1>1, <1>4
        <3>. QED BY <1>4, <2>1, <3>1
    <2>2. CASE i \in S
        <3>1. PICK k \in 1..Len(q) : q[k] = i
            BY <1>1, <2>2
        <3>2. k \in 1..Len(r) /\ r[k] = i
            BY <1>1, <1>4, <3>1
        <3>. QED BY <3>2
    <2>. QED BY <2>1, <2>2 DEF T
<1>7. Sorted(T) = r
    BY <1>2, <1>4, <1>5, <1>6, SortedIsUnique
<1>. QED BY <1>7 DEF T, r, q

-----------------------------------------------------------------------------
(* Sequences.                                                              *)

\* A function over the first n numbers is a sequence.
LEMMA FunctionIsSeq ==
    ASSUME NEW S, NEW n \in Nat, NEW f \in [1..n -> S]
    PROVE  f \in Seq(S) /\ Len(f) = n /\ DOMAIN f = 1..n
<1>1. f \in Seq(S)
    BY SeqDef
<1>2. DOMAIN f = 1..n /\ DOMAIN f = 1..Len(f) /\ Len(f) \in Nat
    BY <1>1, LenProperties
<1>. QED BY <1>1, <1>2

\* A piece of a sequence.
LEMMA Piece ==
    ASSUME NEW S, NEW s \in Seq(S), NEW m \in 1..(Len(s) + 1), NEW n \in (m - 1)..Len(s)
    PROVE  /\ SubSeq(s, m, n) \in Seq(S) /\ Len(SubSeq(s, m, n)) = n - m + 1
           /\ \A i \in 1..(n - m + 1) : SubSeq(s, m, n)[i] = s[m + i - 1]
<1>1. Len(s) \in Nat /\ m \in Int /\ n \in Int
    BY LenProperties
<1>2. \A i \in m..n : s[i] \in S
    BY <1>1, ElementOfSeq
<1>3. IF m <= n THEN n - m + 1 = n - m + 1 ELSE n - m + 1 = 0
    BY <1>1
<1>. QED BY <1>1, <1>2, <1>3, SubSeqProperties

\* A sequence of what is in T is one of T.
LEMMA SeqOfTheirs ==
    ASSUME NEW S, NEW T, NEW s \in Seq(S), \A i \in 1..Len(s) : s[i] \in T
    PROVE  s \in Seq(T)
<1>1. Len(s) \in Nat /\ s \in [1..Len(s) -> S]
    BY LenProperties
<1>2. s \in [1..Len(s) -> T]
    BY <1>1
<1>. QED BY <1>1, <1>2, FunctionIsSeq

\* What holds of nothing and of one element more holds of every sequence.
LEMMA SequenceInduction ==
    ASSUME NEW S, NEW X, <<>> \in X, \A s \in Seq(S), c \in S : s \in X => Append(s, c) \in X
    PROVE  \A s \in Seq(S) : s \in X
<1>. DEFINE N == {n \in Nat : \A s \in Seq(S) : Len(s) = n => s \in X}
<1>1. 0 \in N
    <2>1. \A s \in Seq(S) : Len(s) = 0 => s = <<>>
        BY EmptySeq
    <2>. QED BY <2>1
<1>2. ASSUME NEW n \in Nat, n \in N
      PROVE  n + 1 \in N
    <2>1. ASSUME NEW s \in Seq(S), Len(s) = n + 1
          PROVE  s \in X
        <3>1. s # <<>>
            BY <2>1, EmptySeq
        <3>2. PICK t \in Seq(S), c \in S : s = Append(t, c)
            BY <3>1, SequenceEmptyOrAppend
        <3>3. Len(t) \in Nat /\ Len(s) = Len(t) + 1
            BY <3>2, AppendProperties, LenProperties
        <3>4. t \in X
            BY <1>2, <2>1, <3>3
        <3>. QED BY <3>2, <3>4
    <2>. QED BY <2>1
<1>3. \A n \in Nat : n \in N
    <2>. HIDE DEF N
    <2>. QED BY <1>1, <1>2, Induction
<1>. QED BY <1>3, LenProperties

\* ToSet() has the elements of the sequence.
LEMMA ToSetOfSeq ==
    ASSUME NEW S, NEW s \in Seq(S)
    PROVE  /\ \A x : x \in ToSet(s) <=> \E i \in 1..Len(s) : s[i] = x
           /\ ToSet(s) \subseteq S
<1>1. DOMAIN s = 1..Len(s)
    BY LenProperties
<1>. QED BY <1>1, ElementOfSeq DEF ToSet

\* FlattenSeq() joins one sequence after another.
LEMMA FlattenSeqJoins ==
    ASSUME NEW S, NEW q \in Seq(Seq(S))
    PROVE  \E f \in [0..Len(q) -> Seq(S)] :
              /\ f[0] = <<>> /\ \A i \in 1..Len(q) : f[i] = f[i - 1] \o q[i]
              /\ FlattenSeq(q) = f[Len(q)]
<1>. DEFINE Joins(f, n) == f[0] = <<>> /\ \A i \in 1..n : f[i] = f[i - 1] \o q[i]
            Joined == {n \in Nat : n <= Len(q) => \E f \in [0..n -> Seq(S)] : Joins(f, n)}
<1>1. Len(q) \in Nat /\ \A i \in 1..Len(q) : q[i] \in Seq(S)
    BY LenProperties, ElementOfSeq
<1>2. 0 \in Joined
    <2>. DEFINE f == [i \in 0..0 |-> <<>>]
    <2>1. f \in [0..0 -> Seq(S)] /\ f[0] = <<>>
        BY EmptySeq
    <2>2. \A i \in 1..0 : FALSE
        OBVIOUS
    <2>. QED BY <2>1, <2>2
<1>3. ASSUME NEW n \in Nat, n \in Joined
      PROVE  n + 1 \in Joined
    <2>1. SUFFICES ASSUME n + 1 <= Len(q)
                   PROVE  \E f \in [0..(n + 1) -> Seq(S)] : Joins(f, n + 1)
        <3>1. n + 1 \in Nat
            OBVIOUS
        <3>. HIDE DEF Joins
        <3>. QED BY <3>1
    <2>2. PICK f \in [0..n -> Seq(S)] : Joins(f, n)
        <3>1. n <= Len(q)
            BY <1>1, <2>1
        <3>. HIDE DEF Joins
        <3>. QED BY <1>3, <3>1
    <2>. DEFINE g == [i \in 0..(n + 1) |-> IF i = n + 1 THEN f[n] \o q[n + 1] ELSE f[i]]
    <2>3. n + 1 \in 1..Len(q) /\ n \in 0..n
        BY <1>1, <2>1
    <2>4. f[n] \in Seq(S) /\ f[n] \o q[n + 1] \in Seq(S)
        BY <1>1, <2>2, <2>3, ConcatProperties
    <2>5. g \in [0..(n + 1) -> Seq(S)]
        BY <2>2, <2>4
    <2>6. g[0] = <<>>
        BY <2>2
    <2>7. ASSUME NEW i \in 1..(n + 1)
          PROVE  g[i] = g[i - 1] \o q[i]
        <3>1. CASE i = n + 1
            <4>1. n \in 0..(n + 1) /\ n # n + 1 /\ i - 1 = n /\ i \in 0..(n + 1)
                BY <3>1
            <4>2. g[n] = f[n] /\ g[i] = f[n] \o q[n + 1]
                BY <3>1, <4>1
            <4>. QED BY <3>1, <4>1, <4>2
        <3>2. CASE i # n + 1
            <4>1. i \in 1..n /\ i - 1 \in 0..n /\ i \in 0..(n + 1) /\ i - 1 \in 0..(n + 1) /\ i - 1 # n + 1
                BY <3>2
            <4>2. g[i] = f[i] /\ g[i - 1] = f[i - 1]
                BY <4>1
            <4>. QED BY <2>2, <4>1, <4>2
        <3>. QED BY <3>1, <3>2
    <2>. QED BY <2>5, <2>6, <2>7
<1>4. \A n \in Nat : n \in Joined
    <2>. HIDE DEF Joined
    <2>. QED BY <1>2, <1>3, Induction
<1>5. PICK f \in [0..Len(q) -> Seq(S)] : Joins(f, Len(q))
    <2>1. Len(q) \in Joined
        <3>. HIDE DEF Joined
        <3>. QED BY <1>1, <1>4
    <2>2. Len(q) <= Len(q)
        BY <1>1
    <2>. HIDE DEF Joins
    <2>. QED BY <2>1, <2>2
<1>6. CASE Len(q) = 0
    <2>1. q = <<>> /\ FlattenSeq(q) = q
        BY <1>6, EmptySeq DEF FlattenSeq
    <2>. QED BY <1>5, <1>6, <2>1
<1>7. CASE Len(q) # 0
    <2>. DEFINE Def(g) == [i \in 1..Len(q) |-> IF i = 1 THEN q[i] ELSE g[i - 1] \o q[i]]
                h == CHOOSE g : g = Def(g)
                k == [i \in 1..Len(q) |-> f[i]]
    <2>1. FlattenSeq(q) = h[Len(q)]
        BY <1>7 DEF FlattenSeq
    <2>2. ASSUME NEW i \in 1..Len(q)
          PROVE  f[i] = IF i = 1 THEN q[i] ELSE f[i - 1] \o q[i]
        <3>1. i = 1 => f[i - 1] = <<>>
            BY <1>5
        <3>2. <<>> \o q[i] = q[i]
            BY <1>1, ConcatEmptySeq
        <3>. QED BY <1>5, <3>1, <3>2
    <2>3. k = Def(k)
        <3>1. ASSUME NEW i \in 1..Len(q)
              PROVE  k[i] = Def(k)[i]
            <4>1. i # 1 => i - 1 \in 1..Len(q)
                BY <1>1
            <4>2. i # 1 => k[i - 1] = f[i - 1]
                BY <4>1
            <4>. QED BY <2>2, <4>2
        <3>. QED BY <3>1
    <2>4. h = Def(h)
        <3>. HIDE DEF Def, k
        <3>. QED BY <2>3
    <2>. HIDE DEF h
    <2>. DEFINE Same == {n \in Nat : n \in 1..Len(q) => h[n] = f[n]}
    <2>5. 0 \in Same
        OBVIOUS
    <2>6. ASSUME NEW n \in Nat, n \in Same
          PROVE  n + 1 \in Same
        <3>1. SUFFICES ASSUME n + 1 \in 1..Len(q)
                       PROVE  h[n + 1] = f[n + 1]
            OBVIOUS
        <3>2. Def(h)[n + 1] = IF n + 1 = 1 THEN q[n + 1] ELSE h[(n + 1) - 1] \o q[n + 1]
            BY <3>1
        <3>3. n + 1 # 1 => n \in 1..Len(q) /\ (n + 1) - 1 = n
            BY <1>1, <3>1
        <3>4. n + 1 # 1 => h[(n + 1) - 1] = f[(n + 1) - 1]
            BY <2>6, <3>3
        <3>5. h[n + 1] = Def(h)[n + 1]
            <4>. HIDE DEF Def
            <4>. QED BY <2>4
        <3>. HIDE DEF Def
        <3>. QED BY <2>2, <3>1, <3>2, <3>4, <3>5
    <2>7. \A n \in Nat : n \in Same
        <3>. HIDE DEF Same
        <3>. QED BY <2>5, <2>6, Induction
    <2>8. Len(q) \in 1..Len(q) /\ Len(q) \in Same
        BY <1>1, <1>7, <2>7
    <2>9. h[Len(q)] = f[Len(q)]
        BY <2>8
    <2>. QED BY <1>5, <2>1, <2>9
<1>. QED BY <1>6, <1>7

\* The recursive function behind FoldLeft() exists.
IsFolded(A, base, step, s) ==
    \E g \in [SUBSET (1..Len(s)) -> A] : \A x \in SUBSET (1..Len(s)) :
        g[x] = IF x = {} THEN base ELSE step[<<g[x \ {Max(x)}], s[Max(x)]>>]

\* A fold over a sequence, whatever function is folded.
LEMMA FoldExists ==
    ASSUME NEW A, NEW B, NEW base \in A, NEW step \in [A \X B -> A], NEW s \in Seq(B)
    PROVE  IsFolded(A, base, step, s)
<1>. DEFINE Def(g, n) == [x \in SUBSET (1..n) |->
                            IF x = {} THEN base ELSE step[<<g[x \ {Max(x)}], s[Max(x)]>>]]
            Folded == {n \in Nat : n <= Len(s) => \E g \in [SUBSET (1..n) -> A] : g = Def(g, n)}
<1>1. Len(s) \in Nat /\ \A i \in 1..Len(s) : s[i] \in B
    BY LenProperties, ElementOfSeq
<1>2. 0 \in Folded
    <2>. DEFINE g == [x \in SUBSET (1..0) |-> base]
    <2>1. 1..0 = {} /\ g \in [SUBSET (1..0) -> A]
        OBVIOUS
    <2>2. \A x \in SUBSET (1..0) : x = {}
        BY <2>1
    <2>3. g = Def(g, 0)
        BY <2>2
    <2>. QED BY <2>1, <2>3
<1>3. ASSUME NEW n \in Nat, n \in Folded
      PROVE  n + 1 \in Folded
    <2>1. SUFFICES ASSUME n + 1 <= Len(s)
                   PROVE  \E g \in [SUBSET (1..(n + 1)) -> A] : g = Def(g, n + 1)
        <3>1. n + 1 \in Nat
            OBVIOUS
        <3>. HIDE DEF Def
        <3>. QED BY <3>1
    <2>2. PICK g \in [SUBSET (1..n) -> A] : g = Def(g, n)
        <3>1. n <= Len(s)
            BY <1>1, <2>1
        <3>. HIDE DEF Def
        <3>. QED BY <1>3, <3>1
    <2>. DEFINE h == [x \in SUBSET (1..(n + 1)) |->
                        IF n + 1 \in x THEN step[<<g[x \ {n + 1}], s[n + 1]>>] ELSE g[x]]
    <2>3. \A x \in SUBSET (1..(n + 1)) : /\ x \ {n + 1} \in SUBSET (1..n)
                                         /\ n + 1 \notin x => x \in SUBSET (1..n)
        <3>1. \A i \in 1..(n + 1) : i # n + 1 => i \in 1..n
            OBVIOUS
        <3>. QED BY <3>1
    <2>4. n + 1 \in 1..Len(s) /\ s[n + 1] \in B
        BY <1>1, <2>1
    <2>5. \A x \in SUBSET (1..(n + 1)) :
            /\ n + 1 \in x => step[<<g[x \ {n + 1}], s[n + 1]>>] \in A
            /\ n + 1 \notin x => g[x] \in A
        BY <2>2, <2>3, <2>4
    <2>6. h \in [SUBSET (1..(n + 1)) -> A]
        BY <2>5
    <2>7. ASSUME NEW x \in SUBSET (1..(n + 1))
          PROVE  h[x] = Def(h, n + 1)[x]
        <3>1. CASE n + 1 \in x
            <4>1. Max(x) = n + 1
                <5>1. x \subseteq Nat /\ x # {} /\ n + 1 \in Nat /\ \A m \in x : m <= n + 1
                    BY <3>1
                <5>2. Max(x) \in x /\ \A m \in x : m <= Max(x)
                    BY <5>1, MaxIsGreatest
                <5>3. Max(x) \in Nat /\ Max(x) <= n + 1 /\ n + 1 <= Max(x)
                    BY <3>1, <5>1, <5>2
                <5>. QED BY <5>1, <5>3
            <4>2. h[x] = step[<<g[x \ {n + 1}], s[n + 1]>>]
                BY <3>1
            <4>3. x \ {n + 1} \in SUBSET (1..(n + 1)) /\ n + 1 \notin x \ {n + 1}
                OBVIOUS
            <4>4. h[x \ {n + 1}] = g[x \ {n + 1}]
                BY <4>3
            <4>. QED BY <3>1, <4>1, <4>2, <4>4
        <3>2. CASE n + 1 \notin x
            <4>1. x \in SUBSET (1..n) /\ h[x] = g[x]
                BY <2>3, <3>2
            <4>2. x = {} \/ Max(x) \in x
                <5>1. x \subseteq Nat /\ \A m \in x : m <= n
                    BY <4>1
                <5>. QED BY <5>1, MaxIsGreatest
            <4>3. Def(g, n)[x] = IF x = {} THEN base ELSE step[<<g[x \ {Max(x)}], s[Max(x)]>>]
                BY <4>1
            <4>4. g[x] = Def(g, n)[x]
                <5>. HIDE DEF Def
                <5>. QED BY <2>2
            <4>5. h[x \ {Max(x)}] = g[x \ {Max(x)}]
                <5>1. x \ {Max(x)} \in SUBSET (1..(n + 1)) /\ n + 1 \notin x \ {Max(x)}
                    BY <3>2
                <5>. QED BY <5>1
            <4>. QED BY <4>1, <4>3, <4>4, <4>5
        <3>. QED BY <3>1, <3>2
    <2>8. h = Def(h, n + 1)
        BY <2>7
    <2>. HIDE DEF h, Def
    <2>. QED BY <2>6, <2>8
<1>4. \A n \in Nat : n \in Folded
    <2>. HIDE DEF Folded
    <2>. QED BY <1>2, <1>3, Induction
<1>5. Len(s) \in Folded /\ Len(s) <= Len(s)
    <2>. HIDE DEF Folded
    <2>. QED BY <1>1, <1>4
<1>6. PICK g \in [SUBSET (1..Len(s)) -> A] : g = Def(g, Len(s))
    <2>. HIDE DEF Def
    <2>. QED BY <1>5
<1>7. \A x \in SUBSET (1..Len(s)) : g[x] = Def(g, Len(s))[x]
    <2>. HIDE DEF Def
    <2>. QED BY <1>6
<1>8. \A x \in SUBSET (1..Len(s)) :
        Def(g, Len(s))[x] = IF x = {} THEN base ELSE step[<<g[x \ {Max(x)}], s[Max(x)]>>]
    OBVIOUS
<1>9. \A x \in SUBSET (1..Len(s)) :
        g[x] = IF x = {} THEN base ELSE step[<<g[x \ {Max(x)}], s[Max(x)]>>]
    <2>. HIDE DEF Def
    <2>. QED BY <1>7, <1>8
<1>. QED BY <1>9 DEF IsFolded

\* The intervals from 1 are what such a fold goes through.
LEMMA IntervalGrows ==
    ASSUME NEW n \in Nat
    PROVE  1..(n + 1) # {} /\ Max(1..(n + 1)) = n + 1 /\ (1..(n + 1)) \ {n + 1} = 1..n
<1>. DEFINE x == 1..(n + 1)
<1>1. x \subseteq Nat /\ x # {} /\ n + 1 \in Nat /\ n + 1 \in x /\ \A m \in x : m <= n + 1
    OBVIOUS
<1>2. x \ {n + 1} = 1..n
    OBVIOUS
<1>. HIDE DEF x
<1>3. Max(x) \in x /\ \A m \in x : m <= Max(x)
    BY <1>1, MaxIsGreatest
<1>4. Max(x) \in Nat /\ Max(x) <= n + 1 /\ n + 1 <= Max(x)
    BY <1>1, <1>3
<1>. QED BY <1>1, <1>2, <1>4 DEF x
=============================================================================
