---------------------------- MODULE VTableLayoutProofs ----------------------------
(***************************************************************************)
(* Proofs that the layout of vtables (CastSanLayoutBuilder.cpp) is         *)
(* correct for every cloud that the metadata can describe.  In order: how  *)
(* lists, loops and recursive definitions behave; the graph of a cloud and *)
(* its pre-order; ranges of positions; the two arrays and the distances of *)
(* address points in them; trees, where what derives from a vtable lies    *)
(* together; the checks; and the invariant of the passes.                  *)
(***************************************************************************)
EXTENDS VTableLayout, RangeChecksProofs, SequenceTheorems, FiniteSetTheorems,
        NaturalsInduction, TLAPS

(* Every set of natural numbers that is not empty has a least one.         *)
LEMMA Least ==
  ASSUME NEW S \in SUBSET Nat, S # {}
  PROVE  \E m \in S : \A n \in S : m <= n
<1> DEFINE R == OpToRel(<, Nat)
<1>1. IsWellFoundedOn(R, Nat)
  BY NatLessThanWellFounded
<1>2. \A a, b \in Nat : a < b => <<a, b>> \in R
  BY DEF OpToRel
<1> HIDE DEF R
<1>3. PICK m \in S : \A n \in S : <<n, m>> \notin R
  BY <1>1, WFMin
<1>4. ASSUME NEW n \in S
      PROVE  m <= n
  <2>1. n \in Nat /\ m \in Nat
    OBVIOUS
  <2>2. ~(n < m)
    BY <1>2, <1>3, <2>1
  <2> QED
    BY <2>1, <2>2
<1> QED
  BY <1>4

(* Induction over the numbers up to n, for a set of numbers.               *)
LEMMA UpTo ==
  ASSUME NEW n \in Nat, NEW S, 0 \in S,
         \A m \in 0..n : m < n /\ m \in S => m + 1 \in S
  PROVE  0..n \subseteq S
<1> SUFFICES ASSUME (0..n) \ S # {}
             PROVE  FALSE
  OBVIOUS
<1>0. (0..n) \ S \in SUBSET Nat
  OBVIOUS
<1>1. PICK m \in (0..n) \ S : \A l \in (0..n) \ S : m <= l
  BY <1>0, Least
<1>2. m \in Nat /\ m # 0 /\ m - 1 \in 0..n /\ m - 1 < n /\ (m - 1) + 1 = m
  BY <1>1
<1>3. m - 1 \in S
  BY <1>1, <1>2
<1> QED
  BY <1>1, <1>2, <1>3

(* The values of a sequence.                                               *)
LEMMA Members ==
  ASSUME NEW X, NEW s \in Seq(X)
  PROVE  /\ Len(s) \in Nat /\ DOMAIN s = 1..Len(s)
         /\ \A j \in 1..Len(s) : s[j] \in X
         /\ \A x : x \in Range(s) <=> \E j \in 1..Len(s) : s[j] = x
         /\ Range(s) \subseteq X
  BY LenProperties, ElementOfSeq DEF Range

(* The image of a finite set is finite and no larger.                      *)
LEMMA Image ==
  ASSUME NEW S, IsFiniteSet(S), NEW g, NEW T, T = {g[x] : x \in S}
  PROVE  IsFiniteSet(T) /\ Cardinality(T) <= Cardinality(S)
<1> DEFINE h == [x \in S |-> g[x]]
<1>1. h \in Surjection(S, T)
  BY DEF Surjection
<1> QED
  BY <1>1, FS_Surjection

-----------------------------------------------------------------------------
(* Sorted lists.                                                           *)

strictOrder(R, S) ==
  /\ \A x, y \in S : x # y => <<x, y>> \in R \/ <<y, x>> \in R
  /\ \A x \in S : <<x, x>> \notin R
  /\ \A x, y, z \in S : <<x, y>> \in R /\ <<y, z>> \in R => <<x, z>> \in R

lower(R, S, x) == {y \in S : <<y, x>> \in R}
ranks(R, S) == [x \in S |-> Cardinality({y \in S : <<y, x>> \in R})]
listing(S, rank) == [n \in 1..Cardinality(S) |-> CHOOSE x \in S : rank[x] = n - 1]

(* A strict order of a finite set lists it: the member with n - 1 before   *)
(* it is the n-th.                                                         *)
LEMMA InOrder ==
  ASSUME NEW S, IsFiniteSet(S), NEW R, strictOrder(R, S),
         NEW f, f = listing(S, ranks(R, S))
  PROVE  /\ Cardinality(S) \in Nat
         /\ f \in Seq(S) /\ Len(f) = Cardinality(S)
         /\ \A x \in S : \E n \in 1..Len(f) : f[n] = x
         /\ \A m, n \in 1..Len(f) : m < n <=> <<f[m], f[n]>> \in R
         /\ \A n \in 1..Len(f) : Cardinality(lower(R, S, f[n])) = n - 1
<1> DEFINE C == Cardinality(S)
           before(x) == {y \in S : <<y, x>> \in R}
           rank == ranks(R, S)
<1>a. /\ \A x, y \in S : x # y => <<x, y>> \in R \/ <<y, x>> \in R
      /\ \A x \in S : <<x, x>> \notin R
      /\ \A x, y, z \in S : <<x, y>> \in R /\ <<y, z>> \in R => <<x, z>> \in R
  BY DEF strictOrder
<1>0. rank = [x \in S |-> Cardinality(before(x))]
  BY DEF ranks
<1> HIDE DEF rank
<1>1. C \in Nat
  BY FS_CardinalityType
<1>2. \A x \in S : IsFiniteSet(before(x)) /\ Cardinality(before(x)) \in Nat
  BY FS_Subset, FS_CardinalityType
<1>3. ASSUME NEW x \in S, NEW y \in S, <<x, y>> \in R
      PROVE  rank[x] < rank[y]
  <2>0. rank[x] = Cardinality(before(x)) /\ rank[y] = Cardinality(before(y))
    BY <1>0
  <2>1. before(x) \cup {x} \in SUBSET before(y) /\ x \notin before(x)
    BY <1>a, <1>3
  <2>2. Cardinality(before(x) \cup {x}) = Cardinality(before(x)) + 1
    BY <1>2, <2>1, FS_AddElement
  <2>3. Cardinality(before(x) \cup {x}) <= Cardinality(before(y))
    BY <1>2, <2>1, FS_Subset
  <2> HIDE DEF before
  <2>4. QED
    BY <1>2, <2>0, <2>2, <2>3
<1>4. ASSUME NEW x \in S
      PROVE  rank[x] \in 0..(C - 1)
  <2>1. before(x) \cup {x} \in SUBSET S /\ x \notin before(x)
    BY <1>a
  <2>2. Cardinality(before(x) \cup {x}) = Cardinality(before(x)) + 1
    BY <1>2, <2>1, FS_AddElement
  <2>3. Cardinality(before(x) \cup {x}) <= C
    BY <2>1, FS_Subset
  <2>4. rank[x] = Cardinality(before(x))
    BY <1>0
  <2> HIDE DEF before, C
  <2>5. QED
    BY <1>1, <1>2, <2>2, <2>3, <2>4
<1>5. rank \in [S -> 0..(C - 1)]
  BY <1>0, <1>4
<1>6. \A x, y \in S : rank[x] = rank[y] => x = y
  <2> SUFFICES ASSUME NEW x \in S, NEW y \in S, rank[x] = rank[y], x # y
               PROVE  FALSE
    OBVIOUS
  <2>1. rank[x] < rank[y] \/ rank[y] < rank[x]
    BY <1>a, <1>3
  <2>2. rank[x] \in Int /\ rank[y] \in Int
    BY <1>5
  <2> QED
    BY <2>1, <2>2
<1>7. rank \in Injection(S, 0..(C - 1))
  BY <1>5, <1>6 DEF Injection, IsInjective
<1>8. IsFiniteSet(0..(C - 1)) /\ Cardinality(0..(C - 1)) = C
  <2>1. C - 1 \in Int
    BY <1>1
  <2>2. IsFiniteSet(0..(C - 1)) /\ Cardinality(0..(C - 1)) = IF 0 > C - 1 THEN 0 ELSE (C - 1) - 0 + 1
    BY <2>1, FS_Interval
  <2> HIDE DEF C
  <2> QED
    BY <1>1, <2>2
<1>9. rank \in Surjection(S, 0..(C - 1))
  BY <1>7, <1>8, FS_Injection
<1>10. ASSUME NEW n \in 1..C
       PROVE  f[n] \in S /\ rank[f[n]] = n - 1
  <2>1. n - 1 \in 0..(C - 1)
    BY <1>1
  <2>2. \E x \in S : rank[x] = n - 1
    BY <1>9, <2>1 DEF Surjection
  <2>3. f[n] = CHOOSE x \in S : rank[x] = n - 1
    BY DEF listing, rank
  <2> QED
    BY <2>2, <2>3
<1>11. f \in [1..C -> S]
  BY <1>10 DEF listing, rank
<1> HIDE DEF C
<1>12. f \in Seq(S) /\ Len(f) = C
  BY <1>1, <1>11
<1>13. ASSUME NEW x \in S
       PROVE  \E n \in 1..C : f[n] = x
  <2> DEFINE n == rank[x] + 1
  <2>1. n \in 1..C /\ n - 1 = rank[x]
    BY <1>1, <1>5
  <2> HIDE DEF n
  <2>2. f[n] \in S /\ rank[f[n]] = rank[x]
    BY <1>10, <2>1
  <2> QED
    BY <1>6, <2>1, <2>2
<1>14. ASSUME NEW m \in 1..C, NEW n \in 1..C
       PROVE  m < n <=> <<f[m], f[n]>> \in R
  <2>1. m \in Int /\ n \in Int
    BY <1>1
  <2>a. f[m] \in S /\ f[n] \in S /\ rank[f[m]] = m - 1 /\ rank[f[n]] = n - 1
    BY <1>10
  <2>2. CASE m < n
    <3>1. f[m] # f[n]
      BY <2>a, <2>1, <2>2
    <3>2. ~(rank[f[n]] < rank[f[m]])
      BY <2>a, <2>1, <2>2
    <3> QED
      BY <1>a, <1>3, <2>a, <2>2, <3>1, <3>2
  <2>3. CASE <<f[m], f[n]>> \in R
    <3>1. rank[f[m]] < rank[f[n]]
      BY <1>3, <2>a, <2>3
    <3> QED
      BY <2>a, <2>1, <2>3, <3>1
  <2> QED
    BY <2>2, <2>3
<1>15. ASSUME NEW n \in 1..C
       PROVE  Cardinality(lower(R, S, f[n])) = n - 1
  BY <1>0, <1>10 DEF lower
<1> QED
  BY <1>1, <1>12, <1>13, <1>14, <1>15 DEF C

smaller(S, x) == {y \in S : y < x}

(* ascending lists a finite set of numbers from the least to the greatest. *)
LEMMA Ascending ==
  ASSUME NEW S \in SUBSET Int, IsFiniteSet(S)
  PROVE  /\ Cardinality(S) \in Nat
         /\ ascending(S) \in Seq(S) /\ Len(ascending(S)) = Cardinality(S)
         /\ Range(ascending(S)) = S
         /\ \A m, n \in 1..Cardinality(S) : m < n <=> ascending(S)[m] < ascending(S)[n]
         /\ \A n \in 1..Cardinality(S) : Cardinality(smaller(S, ascending(S)[n])) = n - 1
<1> DEFINE R == {p \in S \X S : p[1] < p[2]}
           rank == [x \in S |-> Cardinality({y \in S : y < x})]
           f == listing(S, ranks(R, S))
<1>1. \A x, y \in S : <<x, y>> \in R <=> x < y
  OBVIOUS
<1>2. \A x \in S : {y \in S : <<y, x>> \in R} = {y \in S : y < x}
  BY <1>1
<1>a. rank = ranks(R, S)
  BY <1>2 DEF ranks
<1>3. f = ascending(S)
  <2>1. listing(S, rank) = ascending(S)
    BY DEF ascending, inOrder, listing
  <2> HIDE DEF rank
  <2> QED
    BY <1>a, <2>1
<1> HIDE DEF R, rank
<1>4. strictOrder(R, S)
  BY <1>1 DEF strictOrder
<1>7. f = listing(S, ranks(R, S))
  OBVIOUS
<1> HIDE DEF f
<1>8. /\ Cardinality(S) \in Nat
      /\ f \in Seq(S) /\ Len(f) = Cardinality(S)
      /\ \A x \in S : \E n \in 1..Len(f) : f[n] = x
      /\ \A m, n \in 1..Len(f) : m < n <=> <<f[m], f[n]>> \in R
      /\ \A n \in 1..Len(f) : Cardinality(lower(R, S, f[n])) = n - 1
  BY SMTT(30), <1>4, <1>7, InOrder
<1>9. \A n \in 1..Len(f) : f[n] \in S
  BY <1>8, Members
<1>10. Range(f) = S
  <2>1. \A x : x \in Range(f) <=> \E j \in 1..Len(f) : f[j] = x
    BY <1>8, Members
  <2> QED
    BY <1>8, <1>9, <2>1
<1>11. \A n \in 1..Len(f) : Cardinality(smaller(S, f[n])) = n - 1
  <2>1. \A x \in S : lower(R, S, x) = smaller(S, x)
    BY <1>1 DEF lower, smaller
  <2> QED
    BY <1>8, <1>9, <2>1
<1> QED
  BY <1>1, <1>3, <1>8, <1>9, <1>10, <1>11

(* the identity of an increasing enumeration                               *)
LEMMA Increasing ==
  ASSUME NEW n \in Nat, NEW g \in [1..n -> Int],
         \A i, j \in 1..n : i < j => g[i] < g[j],
         NEW S, S = {g[i] : i \in 1..n}
  PROVE  /\ IsFiniteSet(S) /\ S \in SUBSET Int /\ Cardinality(S) = n
         /\ \A i \in 1..n : ascending(S)[i] = g[i]
         /\ ascending(S) = g
<1>0. ASSUME NEW m \in 0..n, NEW T, T = {g[i] : i \in 1..m}
      PROVE  IsFiniteSet(T) /\ Cardinality(T) = m
  <2>1. m \in Nat /\ 1..m \subseteq 1..n
    OBVIOUS
  <2> DEFINE h == [i \in 1..m |-> g[i]]
  <2>2. h \in [1..m -> T]
    BY <1>0
  <2>3. \A i, j \in 1..m : h[i] = h[j] => i = j
    <3> SUFFICES ASSUME NEW i \in 1..m, NEW j \in 1..m, g[i] = g[j], i # j
                 PROVE  FALSE
      OBVIOUS
    <3>1. g[i] \in Int /\ i \in 1..n /\ j \in 1..n /\ i \in Int /\ j \in Int
      BY <2>1
    <3>2. i < j \/ j < i
      BY <3>1
    <3> QED
      BY <3>1, <3>2
  <2>4. \A t \in T : \E i \in 1..m : h[i] = t
    BY <1>0
  <2> HIDE DEF h
  <2>5. h \in Injection(1..m, T) /\ h \in Surjection(1..m, T)
    BY <2>2, <2>3, <2>4 DEF Injection, IsInjective, Surjection
  <2>6. ExistsBijection(1..m, T)
    BY <2>5 DEF ExistsBijection, Bijection
  <2>7. IsFiniteSet(T)
    BY <2>1, <2>6, FS_NatBijection
  <2> QED
    BY <2>1, <2>6, <2>7, FS_CountingElements
<1>1. IsFiniteSet(S) /\ Cardinality(S) = n /\ S \in SUBSET Int
  BY <1>0
<1>2. /\ ascending(S) \in Seq(S) /\ Len(ascending(S)) = n
      /\ Range(ascending(S)) = S
      /\ \A m, l \in 1..n : m < l <=> ascending(S)[m] < ascending(S)[l]
  BY <1>1, Ascending
<1> DEFINE a == ascending(S)
<1> HIDE DEF a
<1>3. /\ a \in Seq(S) /\ Len(a) = n /\ DOMAIN a = 1..n
      /\ \A i \in 1..n : a[i] \in S
      /\ \A x \in S : \E i \in 1..n : a[i] = x
      /\ \A m, l \in 1..n : m < l <=> a[m] < a[l]
  BY <1>2, Members DEF a
<1>4. \A i \in 1..n : a[i] \in Int /\ g[i] \in Int /\ g[i] \in S
  BY <1>1, <1>3
<1> DEFINE D == {i \in 1..n : a[i] # g[i]}
<1>5. D = {}
  <2> SUFFICES ASSUME D # {}
               PROVE  FALSE
    OBVIOUS
  <2>1. PICK i \in D : \A j \in D : i <= j
    <3>1. D \in SUBSET Nat
      OBVIOUS
    <3> QED
      BY <3>1, Least
  <2>2. i \in 1..n /\ a[i] # g[i] /\ \A j \in 1..n : j < i => a[j] = g[j]
    BY <2>1
  <2>3. PICK k \in 1..n : a[k] = g[i]
    BY <1>3, <1>4, <2>2
  <2>4. PICK l \in 1..n : a[i] = g[l]
    BY <1>3, <2>2
  <2>5. ~(k < i) /\ ~(l < i)
    <3>1. CASE k < i
      BY <2>2, <2>3, <3>1, <1>4
    <3>2. CASE l < i
      <4>1. a[l] = a[i]
        BY <2>2, <2>4, <3>2
      <4>2. a[l] < a[i]
        BY <1>3, <2>2, <3>2
      <4>3. a[i] \in Int
        BY <1>4, <2>2
      <4> QED
        BY <4>1, <4>2, <4>3
    <3> QED
      BY <3>1, <3>2
  <2>6. i < k /\ i < l
    BY <2>2, <2>3, <2>4, <2>5
  <2>7. a[i] < a[k] /\ g[i] < g[l]
    BY <1>3, <2>2, <2>6
  <2> QED
    BY <1>4, <2>2, <2>3, <2>4, <2>7
<1>6. \A i \in 1..n : a[i] = g[i]
  BY <1>5
<1>7. a = g
  <2>1. a \in [1..n -> S]
    BY <1>3
  <2> QED
    BY <1>6, <2>1
<1> QED
  BY <1>1, <1>6, <1>7 DEF a

keptOf(s, S) == ascending({i \in DOMAIN s : s[i] \in S})

(* The list o has the members of s that are in S, those at the positions   *)
(* kept, in their order.                                                   *)
selects(X, s, S, kept, o) ==
  /\ kept \in Seq(1..Len(s)) /\ o \in Seq(X \cap S) /\ Len(o) = Len(kept)
  /\ \A m, n \in 1..Len(kept) : m < n <=> kept[m] < kept[n]
  /\ \A i \in 1..Len(s) : s[i] \in S => \E k \in 1..Len(kept) : kept[k] = i
  /\ \A k \in 1..Len(kept) : kept[k] \in 1..Len(s) /\ o[k] = s[kept[k]] /\ o[k] \in S
  /\ \A x : x \in Range(o) <=> x \in Range(s) /\ x \in S

(* only keeps the members that are in S, in their order.                   *)
LEMMA Only ==
  ASSUME NEW X, NEW s \in Seq(X), NEW S
  PROVE  selects(X, s, S, keptOf(s, S), only(s, S))
<1> DEFINE kept == keptOf(s, S)
<1> DEFINE I == {i \in DOMAIN s : s[i] \in S}
<1>0. kept = ascending(I)
  BY DEF keptOf
<1> HIDE DEF kept
<1>1. Len(s) \in Nat /\ DOMAIN s = 1..Len(s) /\ \A i \in 1..Len(s) : s[i] \in X
  BY Members
<1>2. IsFiniteSet(1..Len(s))
  BY <1>1, FS_Interval
<1>3. I \in SUBSET (1..Len(s)) /\ I \in SUBSET Int /\ IsFiniteSet(I)
  <2>1. I \in SUBSET (1..Len(s)) /\ I \in SUBSET Int
    BY <1>1
  <2> QED
    BY <1>2, <2>1, FS_Subset
<1>4. /\ Cardinality(I) \in Nat
      /\ kept \in Seq(I) /\ Len(kept) = Cardinality(I)
      /\ Range(kept) = I
      /\ \A m, n \in 1..Cardinality(I) : m < n <=> kept[m] < kept[n]
  BY <1>0, <1>3, Ascending
<1> DEFINE o == only(s, S)
<1>5. o = [k \in DOMAIN kept |-> s[kept[k]]]
  BY <1>0 DEF only
<1> HIDE DEF o
<1>6. DOMAIN kept = 1..Len(kept) /\ Len(kept) \in Nat /\ \A k \in 1..Len(kept) : kept[k] \in I
  BY <1>4, Members
<1>7. \A k \in 1..Len(kept) : o[k] = s[kept[k]] /\ o[k] \in X /\ o[k] \in S /\ kept[k] \in 1..Len(s)
  BY <1>1, <1>3, <1>5, <1>6
<1>8. o \in Seq(X \cap S) /\ Len(o) = Len(kept)
  <2>1. o \in [1..Len(kept) -> X \cap S]
    BY <1>5, <1>6, <1>7
  <2> QED
    BY <1>6, <2>1
<1>9. \A i \in I : \E k \in 1..Len(kept) : kept[k] = i
  BY <1>4, <1>6, Members
<1>10. ASSUME NEW x
       PROVE  x \in Range(o) <=> x \in Range(s) /\ x \in S
  <2>1. x \in Range(o) <=> \E k \in 1..Len(kept) : o[k] = x
    BY <1>8, Members
  <2>2. x \in Range(s) <=> \E i \in 1..Len(s) : s[i] = x
    BY Members
  <2>3. CASE x \in Range(o)
    BY <1>7, <2>1, <2>2, <2>3
  <2>4. ASSUME x \in Range(s), x \in S
        PROVE  x \in Range(o)
    <3>1. PICK i \in 1..Len(s) : s[i] = x
      BY <2>2, <2>4
    <3>2. i \in I
      BY <1>1, <2>4, <3>1
    <3>3. PICK k \in 1..Len(kept) : kept[k] = i
      BY <1>9, <3>2
    <3> QED
      BY <1>7, <2>1, <3>1, <3>3
  <2> QED
    BY <2>3, <2>4
<1>11. kept \in Seq(1..Len(s))
  BY <1>3, <1>4, SeqMonotonic
<1>12. \A i \in 1..Len(s) : s[i] \in S => i \in I
  BY <1>1
<1> QED
  BY <1>4, <1>7, <1>8, <1>9, <1>9, <1>10, <1>11, <1>12 DEF o, kept, selects

-----------------------------------------------------------------------------
(* Loops.                                                                  *)

(* a[n] is what a loop over s has after n rounds.                          *)
Loop(f, s, x, a) ==
  a = [n \in 0..Len(s) |-> IF n = 0 THEN x ELSE f[s[n]][a[n - 1]]]

(* The values after every round of a loop exist as a function.             *)
LEMMA LoopExists ==
  ASSUME NEW f, NEW s, Len(s) \in Nat, NEW x
  PROVE  \E a : Loop(f, s, x, a)
<1> DEFINE upto(n, a) == a = [m \in 0..n |-> IF m = 0 THEN x ELSE f[s[m]][a[m - 1]]]
           S == {n \in 0..Len(s) : \E a : upto(n, a)}
<1>1. 0 \in S
  <2>1. upto(0, [m \in 0..0 |-> x])
    OBVIOUS
  <2>2. 0 \in 0..Len(s)
    OBVIOUS
  <2> HIDE DEF upto
  <2> QED
    BY <2>1, <2>2
<1>2. ASSUME NEW n \in 0..Len(s), n < Len(s), n \in S
      PROVE  n + 1 \in S
  <2>1. PICK a : upto(n, a)
    BY SMTT(30), <1>2
  <2> DEFINE b == [m \in 0..(n + 1) |-> IF m <= n THEN a[m] ELSE f[s[n + 1]][a[n]]]
  <2>2. \A m \in 0..n : b[m] = a[m] /\ a[m] = IF m = 0 THEN x ELSE f[s[m]][a[m - 1]]
    BY SMTT(30), <2>1
  <2>3. b[n + 1] = f[s[n + 1]][a[n]]
    OBVIOUS
  <2>4. ASSUME NEW m \in 0..(n + 1)
        PROVE  b[m] = IF m = 0 THEN x ELSE f[s[m]][b[m - 1]]
    <3>1. CASE m = 0
      <4>1. 0 \in 0..n
        BY <1>2
      <4> HIDE DEF b
      <4> QED
        BY <2>2, <3>1, <4>1
    <3>2. CASE m \in 1..n
      <4>1. m - 1 \in 0..n /\ m \in 0..n /\ m # 0
        BY <3>2
      <4> HIDE DEF b
      <4> QED
        BY <2>2, <4>1
    <3>3. CASE m = n + 1
      <4>1. m # 0 /\ m - 1 = n /\ n \in 0..n
        BY <3>3
      <4>2. b[n] = a[n]
        BY <2>2, <4>1
      <4> QED
        BY <2>3, <3>3, <4>1, <4>2
    <3> QED
      BY <3>1, <3>2, <3>3
  <2>5. upto(n + 1, b)
    BY <2>4
  <2>6. n + 1 \in 0..Len(s)
    BY <1>2
  <2> HIDE DEF upto, b
  <2> QED
    BY <2>5, <2>6
<1>3. Len(s) \in S
  <2> HIDE DEF S
  <2>1. 0..Len(s) \subseteq S
    BY <1>1, <1>2, UpTo
  <2> QED
    BY <2>1
<1> QED
  BY <1>3 DEF Loop

Rounds(f, s, x, a) ==
  /\ each(f, s, x) = a[Len(s)] /\ a[0] = x
  /\ \A n \in 1..Len(s) : a[n] = f[s[n]][a[n - 1]]

(* A loop over a list: each round applies the function of one element.     *)
LEMMA Each ==
  ASSUME NEW f, NEW s, Len(s) \in Nat, NEW x
  PROVE  \E a : Loop(f, s, x, a) /\ Rounds(f, s, x, a)
<1> DEFINE next(a) == [n \in 0..Len(s) |-> IF n = 0 THEN x ELSE f[s[n]][a[n - 1]]]
           a == CHOOSE a : a = next(a)
<1>1. \E b : b = next(b)
  <2>1. PICK b : Loop(f, s, x, b)
    BY LoopExists
  <2>2. b = next(b)
    BY <2>1 DEF Loop
  <2> HIDE DEF next
  <2> QED
    BY <2>2
<1>2. each(f, s, x) = a[Len(s)]
  BY DEF each
<1> HIDE DEF next
<1>3. a = next(a)
  BY <1>1
<1> HIDE DEF a
<1>4. Loop(f, s, x, a)
  BY <1>3 DEF next, Loop
<1>7. \A n \in 0..Len(s) : a[n] = IF n = 0 THEN x ELSE f[s[n]][a[n - 1]]
  BY <1>3 DEF next
<1>5. a[0] = x
  <2>1. 0 \in 0..Len(s)
    OBVIOUS
  <2> QED
    BY <1>7, <2>1
<1>6. \A n \in 1..Len(s) : a[n] = f[s[n]][a[n - 1]]
  BY <1>7
<1> QED
  BY <1>2, <1>4, <1>5, <1>6 DEF Rounds

(* What a loop over members that keep the values in X returns.             *)
Keeps(f, s, X) == \A n \in 1..Len(s) : \A y \in X : f[s[n]][y] \in X

(* A set that every round keeps holds the result of the loop.              *)
LEMMA EachTyped ==
  ASSUME NEW X, NEW f, NEW s, Len(s) \in Nat, NEW x \in X, Keeps(f, s, X)
  PROVE  /\ each(f, s, x) \in X
         /\ \E a \in [0..Len(s) -> X] : Rounds(f, s, x, a)
<1>0. PICK a : Loop(f, s, x, a) /\ Rounds(f, s, x, a)
  BY Each
<1>1. /\ Loop(f, s, x, a) /\ each(f, s, x) = a[Len(s)]
      /\ a[0] = x
      /\ \A n \in 1..Len(s) : a[n] = f[s[n]][a[n - 1]]
  BY <1>0 DEF Rounds
<1> DEFINE S == {n \in 0..Len(s) : a[n] \in X}
<1>2. ASSUME NEW n \in 0..Len(s), n < Len(s), n \in S
      PROVE  n + 1 \in S
  <2>1. n + 1 \in 1..Len(s) /\ (n + 1) - 1 = n /\ n + 1 \in 0..Len(s)
    BY <1>2
  <2>2. a[n + 1] = f[s[n + 1]][a[n]]
    BY <1>1, <2>1
  <2> QED
    BY <1>2, <2>1, <2>2 DEF Keeps
<1>3. 0 \in S
  BY <1>1
<1> HIDE DEF S
<1>4. 0..Len(s) \subseteq S
  BY <1>2, <1>3, UpTo
<1>5. \A n \in 0..Len(s) : a[n] \in X
  BY <1>4 DEF S
<1>6. a \in [0..Len(s) -> X]
  BY <1>1, <1>5 DEF Loop
<1> QED
  BY <1>0, <1>1, <1>5, <1>6

Agree(f, g, s) == \A n \in 1..Len(s) : f[s[n]] = g[s[n]]

(* Functions that agree on the elements of the list loop alike.            *)
LEMMA EachSame ==
  ASSUME NEW f, NEW g, NEW s, Len(s) \in Nat, NEW x, Agree(f, g, s)
  PROVE  each(f, s, x) = each(g, s, x)
<1>a. PICK a : Rounds(f, s, x, a)
  BY Each
<1>b. PICK b : Rounds(g, s, x, b)
  BY Each
<1>1. /\ each(f, s, x) = a[Len(s)] /\ a[0] = x
      /\ \A n \in 1..Len(s) : a[n] = f[s[n]][a[n - 1]]
  BY <1>a DEF Rounds
<1>2. /\ each(g, s, x) = b[Len(s)] /\ b[0] = x
      /\ \A n \in 1..Len(s) : b[n] = g[s[n]][b[n - 1]]
  BY <1>b DEF Rounds
<1> DEFINE S == {n \in 0..Len(s) : a[n] = b[n]}
<1>3. ASSUME NEW n \in 0..Len(s), n < Len(s), n \in S
      PROVE  n + 1 \in S
  <2>1. n + 1 \in 1..Len(s) /\ (n + 1) - 1 = n /\ n + 1 \in 0..Len(s)
    BY <1>3
  <2>2. a[n + 1] = f[s[n + 1]][a[n]] /\ b[n + 1] = g[s[n + 1]][b[n]]
    BY <1>1, <1>2, <2>1
  <2> QED
    BY <1>3, <2>1, <2>2 DEF Agree
<1>4. 0 \in S
  BY <1>1, <1>2
<1> HIDE DEF S
<1>5. 0..Len(s) \subseteq S
  BY <1>3, <1>4, UpTo
<1>6. a[Len(s)] = b[Len(s)]
  BY <1>5 DEF S
<1> QED
  BY <1>1, <1>2, <1>6

-----------------------------------------------------------------------------
(* Recursion.                                                              *)

(* Of any members of V, one has none of the others below it.               *)
WellFounded(V, down) ==
  \A S \in (SUBSET V) \ {{}} : \E v \in S : down[v] \cap S = {}

(* A function that is defined from its values for what is below.           *)
FromBelow(F, V, T, down) ==
  \A g, h \in [V -> T], v \in V :
    (\A c \in down[v] : g[c] = h[c]) => F[g][v] = F[h][v]

Recursive(F, V, T, down) ==
  /\ down \in [V -> SUBSET V] /\ WellFounded(V, down)
  /\ F \in [[V -> T] -> [V -> T]] /\ FromBelow(F, V, T, down)

(* A definition by recursion over a relation without infinite descent has  *)
(* a function that satisfies it.                                           *)
LEMMA Recursion ==
  ASSUME NEW V, NEW T, NEW t \in T, NEW down, NEW F, Recursive(F, V, T, down)
  PROVE  \E h \in [V -> T] : h = F[h]
<1>t. /\ down \in [V -> SUBSET V] /\ WellFounded(V, down)
      /\ F \in [[V -> T] -> [V -> T]] /\ FromBelow(F, V, T, down)
  BY DEF Recursive
<1> DEFINE closed(W) == \A w \in W : down[w] \subseteq W
           solves(W, g) == \A w \in W : g[w] = F[g][w]
           Part == {p \in (SUBSET V) \X [V -> T] : closed(p[1]) /\ solves(p[1], p[2])}
           W == UNION {p[1] : p \in Part}
           of(w) == CHOOSE p : p \in Part /\ w \in p[1]
           h == [w \in V |-> IF w \in W THEN of(w)[2][w] ELSE t]
<1>c. \A g, k \in [V -> T], v \in V :
        (\A c \in down[v] : g[c] = k[c]) => F[g][v] = F[k][v]
  BY <1>t DEF FromBelow
<1>a. \A p \in Part : /\ p[1] \in SUBSET V /\ p[2] \in [V -> T]
                      /\ \A w \in p[1] : down[w] \subseteq p[1]
                      /\ \A w \in p[1] : p[2][w] = F[p[2]][w]
  OBVIOUS
<1>b. ASSUME NEW U \in SUBSET V, NEW g \in [V -> T],
             \A w \in U : down[w] \subseteq U, \A w \in U : g[w] = F[g][w]
      PROVE  <<U, g>> \in Part
  BY <1>b
<1> HIDE DEF Part
<1>1. ASSUME NEW p \in Part, NEW q \in Part, NEW w \in p[1] \cap q[1]
      PROVE  p[2][w] = q[2][w]
  <2> DEFINE D == {v \in p[1] \cap q[1] : p[2][v] # q[2][v]}
  <2> SUFFICES ASSUME D # {}
               PROVE  FALSE
    OBVIOUS
  <2>1. D \in (SUBSET V) \ {{}}
    <3>1. p[1] \in SUBSET V
      BY <1>a
    <3> QED
      BY <3>1
  <2>2. PICK v \in D : down[v] \cap D = {}
    BY <1>t, <2>1 DEF WellFounded
  <2>3. \A c \in down[v] : p[2][c] = q[2][c]
    BY <1>a, <2>2
  <2>4. F[p[2]][v] = F[q[2]][v]
    BY <1>a, <1>c, <2>2, <2>3
  <2> QED
    BY <1>a, <2>2, <2>4
<1>2. ASSUME NEW w \in W
      PROVE  of(w) \in Part /\ w \in of(w)[1]
  BY <1>2
<1>3. W \in SUBSET V
  BY <1>a
<1>4. h \in [V -> T]
  <2> SUFFICES ASSUME NEW w \in W
               PROVE  of(w)[2][w] \in T
    BY <1>3
  <2>1. of(w) \in Part
    BY <1>2
  <2> HIDE DEF W, of
  <2>2. of(w)[2] \in [V -> T] /\ w \in V
    BY <1>a, <1>3, <2>1
  <2> QED
    BY <2>2
<1>5. ASSUME NEW p \in Part, NEW w \in p[1]
      PROVE  w \in W /\ h[w] = p[2][w]
  <2>1. w \in W /\ w \in V
    BY <1>a
  <2>2. of(w) \in Part /\ w \in of(w)[1]
    BY <1>2, <2>1
  <2>3. h[w] = of(w)[2][w]
    BY <2>1
  <2> HIDE DEF h, of, W
  <2>4. of(w)[2][w] = p[2][w]
    BY <1>1, <2>2
  <2> QED
    BY <2>1, <2>3, <2>4
<1>6. ASSUME NEW w \in W
      PROVE  h[w] = F[h][w] /\ down[w] \subseteq W
  <2>1. PICK p \in Part : w \in p[1]
    BY <1>6
  <2> HIDE DEF h, W
  <2>2. /\ p[2] \in [V -> T] /\ w \in V
        /\ down[w] \subseteq p[1] /\ p[2][w] = F[p[2]][w]
    BY <1>a, <2>1
  <2>3. \A c \in down[w] : h[c] = p[2][c] /\ c \in W
    BY <1>5, <2>2
  <2>4. F[h][w] = F[p[2]][w]
    BY <1>c, <1>4, <2>2, <2>3
  <2>5. h[w] = p[2][w]
    BY <1>5, <2>1
  <2> QED
    BY <2>2, <2>3, <2>4, <2>5
<1> HIDE DEF h
<1>7. V \subseteq W
  <2> SUFFICES ASSUME V \ W # {}
               PROVE  FALSE
    OBVIOUS
  <2>1. PICK v \in V \ W : down[v] \cap (V \ W) = {}
    <3>1. V \ W \in (SUBSET V) \ {{}}
      OBVIOUS
    <3> HIDE DEF W
    <3> QED
      BY <1>t, <3>1 DEF WellFounded
  <2> HIDE DEF W
  <2>2. down[v] \subseteq W
    BY <1>t, <2>1
  <2> DEFINE g == [h EXCEPT ![v] = F[h][v]]
             U == W \cup {v}
  <2>3. g \in [V -> T]
    BY <1>t, <1>4, <2>1
  <2>4. \A w \in V : w # v => g[w] = h[w]
    BY <1>4
  <2>5. g[v] = F[h][v]
    BY <1>4, <2>1
  <2> HIDE DEF g
  <2>6. ASSUME NEW w \in U
        PROVE  down[w] \subseteq W /\ g[w] = F[g][w]
    <3>1. down[w] \subseteq W
      BY <1>6, <2>2
    <3>2. \A c \in down[w] : g[c] = h[c]
      BY <1>3, <2>1, <2>4, <3>1
    <3>3. w \in V
      BY <1>3, <2>1
    <3>4. F[g][w] = F[h][w]
      BY <1>c, <1>4, <2>3, <3>2, <3>3
    <3>5. g[w] = F[h][w]
      BY <1>6, <2>4, <2>5, <3>3
    <3> QED
      BY <3>1, <3>4, <3>5
  <2>7. U \in SUBSET V /\ \A w \in U : down[w] \subseteq U
    BY <1>3, <2>1, <2>6
  <2>8. <<U, g>> \in Part
    BY <1>b, <2>3, <2>6, <2>7
  <2>9. v \in W
    <3>1. v \in <<U, g>>[1]
      OBVIOUS
    <3> HIDE DEF U
    <3> QED
      BY <1>5, <2>8, <3>1
  <2> QED
    BY <2>1, <2>9
<1>8. F[h] \in [V -> T] /\ \A v \in V : h[v] = F[h][v]
  <2> HIDE DEF W
  <2> QED
    BY <1>t, <1>4, <1>6, <1>7
<1> QED
  BY <1>4, <1>8

-----------------------------------------------------------------------------
(* Derivation.                                                             *)

(* The types of the parts of a cloud.                                      *)
LEMMA Metadata ==
  ASSUME NEW c, isCloud(c)
  PROVE  LET V == DOMAIN c.parents
         IN /\ Root \in V /\ V \in SUBSET Nat /\ IsFiniteSet(V) /\ Dummy \notin V
            /\ \A v \in V : /\ c.parents[v] \in SUBSET V
                            /\ c.extends[v] \in V /\ c.primary[v] \in V
                            /\ v = Root => c.parents[v] = {}
                            /\ v # Root => c.extends[v] \in c.parents[v]
                            /\ c.neg[v] \in Nat /\ c.pos[v] \in Nat \ {0}
            /\ c.undefined \in SUBSET V
  BY DEF isCloud

(* What derives from v is the least set with v that has with a vtable all  *)
(* that are derived from it.                                               *)
LEMMA Below ==
  ASSUME NEW c, isCloud(c), NEW v \in DOMAIN c.parents
  PROVE  /\ below(c, v) \in SUBSET DOMAIN c.parents /\ v \in below(c, v)
         /\ \A d \in DOMAIN c.parents : \A p \in c.parents[d] :
              p \in below(c, v) => d \in below(c, v)
         /\ \A S : v \in S /\ (\A d \in DOMAIN c.parents : \A p \in c.parents[d] :
                                 p \in S => d \in S)
                     => below(c, v) \subseteq S
<1> DEFINE V == DOMAIN c.parents
           inherits(S) == \A d \in V : c.parents[d] \cap S # {} => d \in S
<1>1. below(c, v) = {d \in V : \A S \in SUBSET V : v \in S /\ inherits(S) => d \in S}
  BY DEF below
<1>2. \A S : inherits(S) <=> \A d \in V : \A p \in c.parents[d] : p \in S => d \in S
  OBVIOUS
<1>3. \A d \in V : c.parents[d] \in SUBSET V
  BY Metadata
<1> HIDE DEF inherits
<1>4. below(c, v) \in SUBSET V /\ v \in below(c, v)
  BY <1>1
<1>5. ASSUME NEW d \in V, NEW p \in c.parents[d], p \in below(c, v)
      PROVE  d \in below(c, v)
  <2> SUFFICES ASSUME NEW S \in SUBSET V, v \in S, inherits(S)
               PROVE  d \in S
    BY <1>1
  <2>1. p \in S
    BY <1>1, <1>5
  <2> QED
    BY <1>2, <1>5, <2>1
<1>6. ASSUME NEW S, v \in S, \A d \in V : \A p \in c.parents[d] : p \in S => d \in S
      PROVE  below(c, v) \subseteq S
  <2>1. S \cap V \in SUBSET V /\ v \in S \cap V
    BY <1>6
  <2>2. inherits(S \cap V)
    BY <1>2, <1>6
  <2>3. \A d \in below(c, v) : d \in S \cap V
    BY <1>1, <2>1, <2>2
  <2> QED
    BY <2>3
<1> QED
  BY <1>4, <1>5, <1>6

(* What derives from a derived vtable derives from v.                      *)
LEMMA BelowTrans ==
  ASSUME NEW c, isCloud(c), NEW v \in DOMAIN c.parents, NEW d \in below(c, v)
  PROVE  below(c, d) \in SUBSET below(c, v) /\ d \in DOMAIN c.parents
<1>1. d \in DOMAIN c.parents
  BY Below
<1>2. \A e \in DOMAIN c.parents : \A p \in c.parents[e] :
              p \in below(c, v) => e \in below(c, v)
  BY Below
<1>3. below(c, d) \subseteq below(c, v)
  BY <1>1, <1>2, Below
<1> QED
  BY <1>1, <1>3

(* A path to a derived vtable has a last step.                             *)
LEMMA BelowLast ==
  ASSUME NEW c, isCloud(c), NEW v \in DOMAIN c.parents, NEW d \in below(c, v), d # v
  PROVE  \E p \in c.parents[d] : p \in below(c, v)
<1> DEFINE S == {v} \cup {x \in DOMAIN c.parents : \E p \in c.parents[x] : p \in below(c, v)}
<1>1. S \subseteq below(c, v)
  BY Below
<1>2. \A x \in DOMAIN c.parents : \A p \in c.parents[x] : p \in S => x \in S
  BY <1>1
<1>3. v \in S
  OBVIOUS
<1> HIDE DEF S
<1>4. d \in S
  BY <1>2, <1>3, Below
<1> QED
  BY <1>4 DEF S

(* A path to a derived vtable has a first step.                            *)
LEMMA BelowFirst ==
  ASSUME NEW c, isCloud(c), NEW v \in DOMAIN c.parents, NEW d \in below(c, v), d # v
  PROVE  \E k \in DOMAIN c.parents : v \in c.parents[k] /\ d \in below(c, k)
<1> DEFINE K == {k \in DOMAIN c.parents : v \in c.parents[k]}
           S == {v} \cup {x \in DOMAIN c.parents : \E k \in K : x \in below(c, k)}
<1>1. ASSUME NEW x \in DOMAIN c.parents, NEW p \in c.parents[x], p \in S
      PROVE  x \in S
  <2>1. CASE p = v
    <3>1. x \in K /\ x \in below(c, x)
      BY <2>1, Below
    <3> QED
      BY <3>1
  <2>2. CASE p # v
    <3>1. PICK k \in K : p \in below(c, k)
      BY <1>1, <2>2
    <3>2. x \in below(c, k)
      BY <3>1, Below
    <3> QED
      BY <3>2
  <2> QED
    BY <2>1, <2>2
<1>2. v \in S
  OBVIOUS
<1> HIDE DEF S
<1>3. d \in S
  BY <1>1, <1>2, Below
<1> QED
  BY <1>3 DEF S

(* Nothing derives from a vtable that derives from it.                     *)
LEMMA NoCycle ==
  ASSUME NEW c, isCloud(c), acyclic(c), NEW v \in DOMAIN c.parents,
         NEW k \in DOMAIN c.parents, v \in c.parents[k]
  PROVE  v \notin below(c, k) /\ v # k
<1> SUFFICES ASSUME v \in below(c, k)
             PROVE  FALSE
  BY Below
<1> DEFINE V == DOMAIN c.parents
           S == {x \in V : x \in below(c, v) /\ v \in below(c, x)}
<1>1. k \in below(c, v) /\ v \in below(c, v)
  BY Below
<1>2. ASSUME NEW x \in S, NEW p \in c.parents[x], p \in below(c, v)
      PROVE  p \in S
  <2>1. p \in V /\ x \in V
    BY <1>2, Below
  <2>2. x \in below(c, p)
    BY <2>1, Below
  <2>3. v \in below(c, p)
    BY <2>1, <2>2, BelowTrans
  <2> QED
    BY <1>2, <2>1, <2>3
<1>3. ASSUME NEW x \in S
      PROVE  \E p \in c.parents[x] : p \in S
  <2>1. CASE x # v
    <3>1. \E p \in c.parents[x] : p \in below(c, v)
      BY <2>1, BelowLast
    <3> QED
      BY <1>2, <3>1
  <2>2. CASE x = v /\ v = k
    BY <1>3, <2>2
  <2>3. CASE x = v /\ v # k
    <3>1. PICK p \in c.parents[v] : p \in below(c, k)
      BY <2>3, BelowLast
    <3>2. p \in below(c, v)
      BY <1>1, <3>1, BelowTrans
    <3> QED
      BY <1>2, <2>3, <3>1, <3>2
  <2> QED
    BY <2>1, <2>2, <2>3
<1>4. S \in (SUBSET V) \ {{}}
  <2>1. v \in S
    BY <1>1
  <2> QED
    BY <2>1
<1>5. PICK x \in S : c.parents[x] \cap S = {}
  BY <1>4 DEF acyclic
<1> QED
  BY <1>3, <1>5

(* In a tree nothing is derived from two.                                  *)
LEMMA OneParent ==
  ASSUME NEW c, isCloud(c), treeShaped(c), NEW x \in DOMAIN c.parents,
         NEW p \in c.parents[x], NEW q \in c.parents[x]
  PROVE  p = q
<1>1. IsFiniteSet(c.parents[x])
  BY FS_Subset, Metadata
<1>2. Cardinality(c.parents[x]) \in Nat /\ Cardinality(c.parents[x]) <= 1
  BY <1>1, FS_CardinalityType DEF treeShaped
<1>3. Cardinality(c.parents[x]) # 0
  BY <1>1, FS_EmptySet
<1>4. Cardinality(c.parents[x]) = 1
  BY <1>2, <1>3
<1>5. PICK y : c.parents[x] = {y}
  BY <1>1, <1>4, FS_Singleton
<1> QED
  BY <1>5

(* Where no vtable has two parents, nothing derives from two children of   *)
(* one.                                                                    *)
LEMMA TreeApart ==
  ASSUME NEW c, isCloud(c), acyclic(c), treeShaped(c), NEW v \in DOMAIN c.parents,
         NEW k \in DOMAIN c.parents, NEW l \in DOMAIN c.parents,
         v \in c.parents[k], v \in c.parents[l], k # l
  PROVE  below(c, k) \cap below(c, l) = {}
<1> DEFINE V == DOMAIN c.parents
           S == {x \in V : x \in below(c, k) /\ x \in below(c, l)}
<1>1. ASSUME NEW x \in V, NEW p \in c.parents[x], NEW q \in c.parents[x]
      PROVE  p = q
  BY OneParent
<1>2. ASSUME NEW a \in {k, l}, NEW b \in {k, l}, a # b, a \in below(c, b)
      PROVE  FALSE
  <2>1. PICK p \in c.parents[a] : p \in below(c, b)
    BY <1>2, BelowLast
  <2>2. p = v
    BY <1>1, <2>1
  <2> QED
    BY <2>1, <2>2, NoCycle
<1>3. ASSUME NEW x \in S
      PROVE  \E p \in c.parents[x] : p \in S
  <2>1. x # k /\ x # l
    BY <1>2
  <2>2. PICK p \in c.parents[x] : p \in below(c, k)
    BY <2>1, BelowLast
  <2>3. PICK q \in c.parents[x] : q \in below(c, l)
    BY <2>1, BelowLast
  <2>4. p = q /\ p \in V
    BY <1>1, <2>2, Below
  <2> QED
    BY <2>2, <2>3, <2>4
<1>4. S = {}
  <2> SUFFICES ASSUME S # {}
               PROVE  FALSE
    OBVIOUS
  <2>1. S \in (SUBSET V) \ {{}}
    OBVIOUS
  <2>2. PICK x \in S : c.parents[x] \cap S = {}
    BY <2>1 DEF acyclic
  <2> QED
    BY <1>3, <2>2
<1>5. below(c, k) \in SUBSET V
  BY Below
<1> QED
  BY <1>4, <1>5

(* Everything derives from the root.                                       *)
LEMMA AllBelowRoot ==
  ASSUME NEW c, isCloud(c), acyclic(c)
  PROVE  below(c, Root) = DOMAIN c.parents /\ Root \in DOMAIN c.parents
<1> DEFINE V == DOMAIN c.parents
           S == V \ below(c, Root)
<1>1. Root \in V /\ below(c, Root) \in SUBSET V
  BY Metadata, Below
<1>2. S = {}
  <2> SUFFICES ASSUME S # {}
               PROVE  FALSE
    OBVIOUS
  <2>1. S \in (SUBSET V) \ {{}}
    OBVIOUS
  <2>2. PICK x \in S : c.parents[x] \cap S = {}
    BY <2>1 DEF acyclic
  <2>3. x # Root /\ c.extends[x] \in c.parents[x] /\ c.extends[x] \in V
    BY <1>1, <2>2, Below, Metadata
  <2>4. c.extends[x] \in below(c, Root)
    BY <2>2, <2>3
  <2>5. x \in below(c, Root)
    BY <1>1, <2>3, <2>4, Below
  <2> QED
    BY <2>5
<1> QED
  BY <1>1, <1>2

(* the vtables that are derived from one, as functions and without cycles  *)
LEMMA KidsWellFounded ==
  ASSUME NEW c, isCloud(c), acyclic(c),
         NEW map, map = [v \in DOMAIN c.parents |-> {k \in DOMAIN c.parents : v \in c.parents[k]}]
  PROVE  /\ map \in [DOMAIN c.parents -> SUBSET DOMAIN c.parents]
         /\ WellFounded(DOMAIN c.parents, map)
<1> DEFINE V == DOMAIN c.parents
<1>1. map \in [V -> SUBSET V]
  OBVIOUS
<1>2. ASSUME NEW S \in (SUBSET V) \ {{}}
      PROVE  \E v \in S : map[v] \cap S = {}
  <2>1. PICK v \in S : \A w \in S : v \notin c.parents[w]
    BY <1>2 DEF acyclic
  <2> QED
    BY <2>1
<1> QED
  BY <1>1, <1>2 DEF WellFounded

-----------------------------------------------------------------------------
(* The pre-order.                                                          *)

Graph ==
  /\ isCloud(cloud) /\ acyclic(cloud)
  /\ cloudMap = [v \in Vtbl |-> {k \in Vtbl : v \in cloud.parents[k]}]

(* The list of the children of a vtable holds each of them once.           *)
LEMMA Children ==
  ASSUME Graph, NEW v \in Vtbl
  PROVE  /\ children(v) \in Seq(Vtbl) /\ Len(children(v)) \in Nat
         /\ \A n \in 1..Len(children(v)) : /\ children(v)[n] \in Vtbl
                                           /\ v \in cloud.parents[children(v)[n]]
                                           /\ children(v)[n] \in cloudMap[v]
         /\ \A k \in Vtbl : v \in cloud.parents[k] =>
              \E n \in 1..Len(children(v)) : children(v)[n] = k
         /\ \A m, n \in 1..Len(children(v)) : m # n => children(v)[m] # children(v)[n]
<1>1. Vtbl \in SUBSET Nat /\ IsFiniteSet(Vtbl)
  BY Metadata DEF Graph, Vtbl
<1>2. cloudMap[v] = {k \in Vtbl : v \in cloud.parents[k]}
  BY DEF Graph
<1>3. cloudMap[v] \in SUBSET Vtbl /\ cloudMap[v] \in SUBSET Int /\ IsFiniteSet(cloudMap[v])
  <2>0. \A k \in cloudMap[v] : k \in Vtbl
    BY <1>2
  <2>1. cloudMap[v] \in SUBSET Vtbl
    BY <2>0
  <2>2. \A k \in cloudMap[v] : k \in Int
    <3>1. \A k \in Vtbl : k \in Int
      BY <1>1
    <3> QED
      BY <2>0, <3>1
  <2> QED
    BY <1>1, <2>1, <2>2, FS_Subset
<1> DEFINE s == children(v)
<1>4. /\ s \in Seq(cloudMap[v]) /\ Range(s) = cloudMap[v]
      /\ Len(s) = Cardinality(cloudMap[v])
      /\ \A m, n \in 1..Cardinality(cloudMap[v]) : m < n <=> s[m] < s[n]
  BY <1>3, Ascending DEF children
<1> HIDE DEF s
<1>5. /\ Len(s) \in Nat /\ \A n \in 1..Len(s) : s[n] \in cloudMap[v]
      /\ \A x : x \in Range(s) <=> \E j \in 1..Len(s) : s[j] = x
  BY <1>4, Members
<1>6. s \in Seq(Vtbl)
  BY <1>3, <1>4, SeqMonotonic
<1>7. ASSUME NEW m \in 1..Len(s), NEW n \in 1..Len(s), m # n
      PROVE  s[m] # s[n]
  <2>1. m < n \/ n < m
    BY <1>5, <1>7
  <2>2. s[m] < s[n] \/ s[n] < s[m]
    BY <1>4, <2>1
  <2>3. s[m] \in Int /\ s[n] \in Int
    BY <1>3, <1>5
  <2> QED
    BY <2>2, <2>3
<1> QED
  BY <1>2, <1>4, <1>5, <1>6, <1>7 DEF s

visit(h, v) ==
  [nodes \in Seq(Vtbl) |-> IF v \in Range(nodes) THEN nodes
                           ELSE each(h, children(v), Append(nodes, v))]

(* The search is a function that satisfies its recursive definition.       *)
LEMMA Visit ==
  ASSUME Graph
  PROVE  /\ preorderHelper \in [Vtbl -> [Seq(Vtbl) -> Seq(Vtbl)]]
         /\ \A v \in Vtbl : preorderHelper[v] = visit(preorderHelper, v)
<1> DEFINE T == [Seq(Vtbl) -> Seq(Vtbl)]
           F == [h \in [Vtbl -> T] |-> [v \in Vtbl |-> visit(h, v)]]
<1>1. ASSUME NEW h \in [Vtbl -> T], NEW v \in Vtbl
      PROVE  visit(h, v) \in T
  <2> SUFFICES ASSUME NEW nodes \in Seq(Vtbl)
               PROVE  each(h, children(v), Append(nodes, v)) \in Seq(Vtbl)
    BY DEF visit
  <2>1. Append(nodes, v) \in Seq(Vtbl)
    BY AppendProperties
  <2>2. Len(children(v)) \in Nat /\ \A n \in 1..Len(children(v)) : children(v)[n] \in Vtbl
    BY Children
  <2>3. \A n \in 1..Len(children(v)) : \A y \in Seq(Vtbl) : h[children(v)[n]][y] \in Seq(Vtbl)
    <3> TAKE n \in 1..Len(children(v))
    <3>1. h[children(v)[n]] \in T
      BY <2>2
    <3> QED
      BY <3>1
  <2> DEFINE X == Seq(Vtbl)
             s == children(v)
             x == Append(nodes, v)
  <2>4. x \in X /\ Len(s) \in Nat /\ Keeps(h, s, X)
    BY <2>1, <2>2, <2>3 DEF Keeps
  <2> HIDE DEF X, s, x
  <2>6. each(h, s, x) \in X
    BY <2>4, EachTyped
  <2> QED
    BY <2>6 DEF X, s, x
<1>2. ASSUME NEW g, NEW h, NEW v \in Vtbl, \A k \in cloudMap[v] : g[k] = h[k]
      PROVE  visit(g, v) = visit(h, v)
  <2>1. ASSUME NEW nodes \in Seq(Vtbl)
        PROVE  each(g, children(v), Append(nodes, v)) = each(h, children(v), Append(nodes, v))
    <3>1. Len(children(v)) \in Nat /\ \A n \in 1..Len(children(v)) : children(v)[n] \in cloudMap[v]
      BY Children
    <3> DEFINE s == children(v)
               x == Append(nodes, v)
    <3>2. Len(s) \in Nat /\ Agree(g, h, s)
      BY <1>2, <3>1 DEF Agree
    <3> HIDE DEF s, x
    <3>3. each(g, s, x) = each(h, s, x)
      BY <3>2, EachSame
    <3> QED
      BY <3>3 DEF s, x
  <2> QED
    BY <2>1 DEF visit
<1>3. cloudMap \in [Vtbl -> SUBSET Vtbl] /\ WellFounded(Vtbl, cloudMap)
  BY KidsWellFounded DEF Graph, Vtbl
<1> DEFINE t == [s \in Seq(Vtbl) |-> s]
<1>4. t \in T
  OBVIOUS
<1>5. F \in [[Vtbl -> T] -> [Vtbl -> T]]
  BY <1>1
<1>6. FromBelow(F, Vtbl, T, cloudMap)
  BY <1>2 DEF FromBelow
<1>7. PICK h \in [Vtbl -> T] : h = F[h]
  <2> DEFINE V == Vtbl
             down == cloudMap
  <2>1. t \in T /\ Recursive(F, V, T, down)
    BY <1>3, <1>4, <1>5, <1>6 DEF Recursive
  <2> HIDE DEF F, T, t, V, down
  <2>2. \E h \in [V -> T] : h = F[h]
    BY <2>1, Recursion
  <2> QED
    BY <2>2 DEF V
<1>8. h = [v \in Vtbl |-> visit(h, v)]
  BY <1>7
<1> DEFINE next(f) == [v \in Vtbl |-> visit(f, v)]
           f == CHOOSE f : f = next(f)
<1>9. preorderHelper = f
  BY DEF preorderHelper, visit
<1>10. f = next(f)
  <2>1. h = next(h)
    BY <1>8
  <2> HIDE DEF next
  <2> QED
    BY <2>1
<1> HIDE DEF f
<1>11. \A v \in Vtbl : f[v] = visit(f, v) /\ h[v] = visit(h, v)
  BY <1>8, <1>10
<1>12. \A v \in Vtbl : f[v] = h[v]
  <2> DEFINE D == {v \in Vtbl : f[v] # h[v]}
  <2> SUFFICES ASSUME D # {}
               PROVE  FALSE
    OBVIOUS
  <2>1. D \in (SUBSET Vtbl) \ {{}}
    OBVIOUS
  <2>2. PICK v \in D : cloudMap[v] \cap D = {}
    BY <1>3, <2>1 DEF WellFounded
  <2>3. \A k \in cloudMap[v] : f[k] = h[k]
    BY <1>3, <2>2
  <2>4. visit(f, v) = visit(h, v)
    BY <1>2, <2>2, <2>3
  <2> QED
    BY <1>11, <2>2, <2>4
<1>13. f = h
  <2>1. f = [v \in Vtbl |-> f[v]] /\ h = [v \in Vtbl |-> h[v]]
    <3>1. f = [v \in Vtbl |-> visit(f, v)]
      BY <1>10
    <3> QED
      BY <1>8, <1>11, <3>1
  <2> QED
    BY <1>12, <2>1
<1> QED
  BY <1>8, <1>9, <1>11, <1>13

-----------------------------------------------------------------------------
(* What the depth-first search of preorderHelper returns.                  *)

distinct(s) == \A i, j \in 1..Len(s) : s[i] = s[j] => i = j
begins(s, r) == Len(s) <= Len(r) /\ \A i \in 1..Len(s) : r[i] = s[i]

(* r extends s by vtables derived from v, which have what is derived from  *)
(* them in r, but for the one at position k                                *)
grows(v, s, r, k) ==
  /\ begins(s, r) /\ (distinct(s) => distinct(r))
  /\ \A i \in 1..Len(r) : i > Len(s) =>
       /\ r[i] \in below(cloud, v)
       /\ i # k => cloudMap[r[i]] \subseteq Range(r)

explores(v, s, r) ==
  /\ grows(v, s, r, 0) /\ v \in Range(r)
  /\ v \notin Range(s) => Len(s) < Len(r) /\ r[Len(s) + 1] = v

(* A list with one more element at its end.                                *)
LEMMA Appended ==
  ASSUME NEW X, NEW s \in Seq(X), NEW v \in X
  PROVE  /\ Append(s, v) \in Seq(X) /\ Len(Append(s, v)) = Len(s) + 1
         /\ Append(s, v)[Len(s) + 1] = v
         /\ \A i \in 1..Len(s) : Append(s, v)[i] = s[i]
         /\ begins(s, Append(s, v))
         /\ distinct(s) /\ v \notin Range(s) => distinct(Append(s, v))
<1> DEFINE r == Append(s, v)
<1>1. /\ r \in Seq(X) /\ Len(r) = Len(s) + 1 /\ Len(s) \in Nat
      /\ r[Len(s) + 1] = v /\ \A i \in 1..Len(s) : r[i] = s[i]
  BY AppendProperties, LenProperties
<1> HIDE DEF r
<1>2. ASSUME distinct(s), v \notin Range(s)
      PROVE  distinct(r)
  <2>1. \A j \in 1..Len(s) : s[j] # v
    BY <1>2, Members
  <2> SUFFICES ASSUME NEW i \in 1..Len(r), NEW j \in 1..Len(r), r[i] = r[j]
               PROVE  i = j
    BY DEF distinct
  <2>2. CASE i \in 1..Len(s) /\ j \in 1..Len(s)
    BY <1>1, <1>2, <2>2 DEF distinct
  <2>3. CASE i = Len(s) + 1 \/ j = Len(s) + 1
    <3>1. (i \in 1..Len(s) \/ i = Len(s) + 1) /\ (j \in 1..Len(s) \/ j = Len(s) + 1)
      BY <1>1
    <3> QED
      BY <1>1, <2>1, <2>3, <3>1
  <2>4. QED
    BY <1>1, <2>2, <2>3
<1>3. begins(s, r)
  BY <1>1 DEF begins
<1> QED
  BY <1>1, <1>2, <1>3 DEF r

(* What a search of a derived vtable adds continues the search of v.       *)
LEMMA GrowsMore ==
  ASSUME Graph, NEW v \in Vtbl, NEW k \in below(cloud, v), NEW n \in Nat \ {0},
         NEW s \in Seq(Vtbl), NEW r \in Seq(Vtbl), NEW t \in Seq(Vtbl),
         grows(v, s, r, n), grows(k, r, t, 0), n <= Len(r)
  PROVE  grows(v, s, t, n)
<1>1. Len(s) \in Nat /\ Len(r) \in Nat /\ Len(t) \in Nat
  BY LenProperties
<1>2. begins(s, t)
  BY <1>1 DEF grows, begins
<1>3. distinct(s) => distinct(t)
  BY DEF grows
<1>4. Range(r) \subseteq Range(t)
  <2> SUFFICES ASSUME NEW x \in Range(r)
               PROVE  x \in Range(t)
    OBVIOUS
  <2>1. PICK j \in 1..Len(r) : r[j] = x
    BY Members
  <2>2. j \in 1..Len(t) /\ t[j] = x
    BY <1>1, <2>1 DEF grows, begins
  <2> QED
    BY <2>2, Members
<1>5. ASSUME NEW i \in 1..Len(t), i > Len(s)
      PROVE  t[i] \in below(cloud, v) /\ (i # n => cloudMap[t[i]] \subseteq Range(t))
  <2>1. CASE i <= Len(r)
    <3>1. i \in 1..Len(r) /\ t[i] = r[i]
      BY <1>1, <2>1 DEF grows, begins
    <3>2. r[i] \in below(cloud, v) /\ (i # n => cloudMap[r[i]] \subseteq Range(r))
      BY <1>5, <3>1 DEF grows
    <3> QED
      BY <1>4, <3>1, <3>2
  <2>2. CASE i > Len(r)
    <3>1. t[i] \in below(cloud, k) /\ cloudMap[t[i]] \subseteq Range(t)
      BY <1>1, <2>2 DEF grows
    <3>2. below(cloud, k) \in SUBSET below(cloud, v)
      BY BelowTrans DEF Graph, Vtbl
    <3> QED
      BY <3>1, <3>2
  <2> QED
    BY <1>1, <2>1, <2>2
<1> QED
  BY <1>2, <1>3, <1>5 DEF grows

(* A search keeps the list it starts with and adds, each once, vtables     *)
(* that derive from v, with each of them all of its children.              *)
LEMMA Explores ==
  ASSUME Graph, NEW v \in Vtbl, NEW s \in Seq(Vtbl)
  PROVE  preorderHelper[v][s] \in Seq(Vtbl) /\ explores(v, s, preorderHelper[v][s])
<1> DEFINE P == preorderHelper
           D == {w \in Vtbl : \E q \in Seq(Vtbl) : ~explores(w, q, P[w][q])}
<1>1. /\ \A w \in Vtbl : \A q \in Seq(Vtbl) : P[w][q] \in Seq(Vtbl)
      /\ \A w \in Vtbl : P[w] = visit(P, w)
  <2>1. /\ P \in [Vtbl -> [Seq(Vtbl) -> Seq(Vtbl)]]
        /\ \A w \in Vtbl : P[w] = visit(P, w)
    BY Visit
  <2>2. \A w \in Vtbl : P[w] \in [Seq(Vtbl) -> Seq(Vtbl)]
    BY <2>1
  <2> QED
    BY <2>1, <2>2
<1> HIDE DEF P
<1> SUFFICES ASSUME D # {}
             PROVE  FALSE
  BY <1>1 DEF P
<1>2. cloudMap \in [Vtbl -> SUBSET Vtbl] /\ WellFounded(Vtbl, cloudMap)
  BY KidsWellFounded DEF Graph, Vtbl
<1>3. PICK w \in D : cloudMap[w] \cap D = {}
  <2>1. D \in (SUBSET Vtbl) \ {{}}
    OBVIOUS
  <2> HIDE DEF D
  <2> QED
    BY <1>2, <2>1 DEF WellFounded
<1>4. PICK q \in Seq(Vtbl) : ~explores(w, q, P[w][q])
  BY <1>3
<1>5. w \in Vtbl /\ \A k \in cloudMap[w] : \A t \in Seq(Vtbl) : explores(k, t, P[k][t])
  BY <1>2, <1>3
<1> HIDE DEF D
<1>6. P[w][q] = IF w \in Range(q) THEN q ELSE each(P, children(w), Append(q, w))
  BY <1>1, <1>4, <1>5 DEF visit
<1>7. Len(q) \in Nat
  BY <1>4, LenProperties
<1>8. CASE w \in Range(q)
  <2>1. grows(w, q, q, 0)
    BY <1>7 DEF grows, begins
  <2>2. explores(w, q, q)
    BY <1>8, <2>1 DEF explores
  <2> QED
    BY <1>4, <1>6, <1>8, <2>2
<1>9. CASE w \notin Range(q)
  <2> DEFINE c == children(w)
             x == Append(q, w)
             n == Len(q) + 1
             X == Seq(Vtbl)
  <2>1. /\ c \in Seq(Vtbl) /\ Len(c) \in Nat
        /\ \A i \in 1..Len(c) : c[i] \in Vtbl /\ c[i] \in cloudMap[w]
        /\ \A k \in cloudMap[w] : \E i \in 1..Len(c) : c[i] = k
    <3>1. \A k \in cloudMap[w] : k \in Vtbl /\ w \in cloud.parents[k]
      BY <1>5 DEF Graph
    <3> QED
      BY <1>5, <3>1, Children
  <2>2. \A k \in cloudMap[w] : k \in below(cloud, w)
    <3>1. \A k \in cloudMap[w] : k \in Vtbl /\ w \in cloud.parents[k]
      BY <1>5 DEF Graph
    <3> QED
      BY <1>5, <3>1, Below DEF Graph, Vtbl
  <2> HIDE DEF c
  <2>3. /\ x \in X /\ Len(x) = n /\ x[n] = w /\ begins(q, x)
        /\ distinct(q) => distinct(x)
    BY <1>4, <1>5, <1>9, Appended
  <2> HIDE DEF x
  <2>4. \E a \in [0..Len(c) -> X] : Rounds(P, c, x, a)
    <3>1. Keeps(P, c, X)
      BY <1>1, <2>1 DEF Keeps
    <3> HIDE DEF X
    <3> QED
      BY <2>1, <2>3, <3>1, EachTyped
  <2>5. PICK a \in [0..Len(c) -> X] : Rounds(P, c, x, a)
    BY <2>4
  <2>6. /\ each(P, c, x) = a[Len(c)] /\ a[0] = x
        /\ \A i \in 1..Len(c) : a[i] = P[c[i]][a[i - 1]]
    BY <2>5 DEF Rounds
  <2> DEFINE I(i) == /\ grows(w, q, a[i], n) /\ n <= Len(a[i]) /\ a[i][n] = w
                     /\ \A j \in 1..i : c[j] \in Range(a[i])
             S == {i \in 0..Len(c) : I(i)}
  <2>7. 0 \in S
    <3>1. grows(w, q, x, n)
      <4>1. \A i \in 1..Len(x) : i > Len(q) => i = n
        BY <1>7, <2>3
      <4>2. w \in below(cloud, w)
        BY <1>5, Below DEF Graph, Vtbl
      <4> QED
        BY <2>3, <4>1, <4>2 DEF grows
    <3> QED
      BY <1>7, <2>1, <2>3, <2>6, <3>1
  <2>8. ASSUME NEW i \in 0..Len(c), i < Len(c), i \in S
        PROVE  i + 1 \in S
    <3> DEFINE k == c[i + 1]
               r == a[i]
               t == a[i + 1]
    <3>1. i + 1 \in 1..Len(c) /\ i + 1 \in 0..Len(c) /\ (i + 1) - 1 = i
      BY <2>1, <2>8
    <3>2. k \in cloudMap[w] /\ r \in Seq(Vtbl) /\ t \in Seq(Vtbl) /\ t = P[k][r]
      BY <2>1, <2>6, <3>1
    <3>3. explores(k, r, t)
      BY <1>5, <3>2
    <3>4. I(i)
      BY <2>8
    <3>a. \A j \in 1..(i + 1) : j \in 1..i \/ j = i + 1
      BY <3>1
    <3> HIDE DEF k, r, t
    <3>5. grows(k, r, t, 0) /\ k \in Range(t) /\ k \in below(cloud, w)
      BY <2>2, <3>2, <3>3 DEF explores
    <3>6. grows(w, q, r, n) /\ n <= Len(r) /\ r[n] = w /\ n \in Nat \ {0}
          /\ \A j \in 1..i : c[j] \in Range(r)
      BY <1>7, <3>4 DEF r
    <3> HIDE DEF n
    <3>7. grows(w, q, t, n)
      BY <1>4, <1>5, <3>2, <3>5, <3>6, GrowsMore
    <3>8. Len(r) \in Nat /\ Len(t) \in Nat /\ Len(r) <= Len(t) /\ t[n] = r[n]
      <4>1. Len(r) \in Nat /\ Len(t) \in Nat
        BY <3>2, LenProperties
      <4>2. n \in 1..Len(r)
        BY <3>6, <4>1
      <4> QED
        BY <3>5, <4>1, <4>2 DEF grows, begins
    <3>9. Range(r) \subseteq Range(t)
      <4> SUFFICES ASSUME NEW y \in Range(r)
                   PROVE  y \in Range(t)
        OBVIOUS
      <4>1. PICK j \in 1..Len(r) : r[j] = y
        BY <3>2, Members
      <4>2. j \in 1..Len(t) /\ t[j] = y
        BY <3>5, <3>8, <4>1 DEF grows, begins
      <4> QED
        BY <3>2, <4>2, Members
    <3>10. \A j \in 1..(i + 1) : c[j] \in Range(t)
      BY <3>a, <3>5, <3>6, <3>9 DEF k
    <3> QED
      BY <3>1, <3>6, <3>7, <3>8, <3>10 DEF t
  <2> HIDE DEF S
  <2>9. 0..Len(c) \subseteq S
    BY <2>1, <2>7, <2>8, UpTo
  <2>10. I(Len(c))
    <3>1. Len(c) \in S
      BY <2>1, <2>9
    <3> QED
      BY <3>1 DEF S
  <2> DEFINE r == a[Len(c)]
  <2>11. /\ r \in Seq(Vtbl) /\ grows(w, q, r, n) /\ n <= Len(r) /\ r[n] = w
         /\ \A j \in 1..Len(c) : c[j] \in Range(r)
    BY <2>1, <2>10
  <2> HIDE DEF r
  <2>12. cloudMap[w] \subseteq Range(r)
    BY <2>1, <2>11
  <2>13. grows(w, q, r, 0)
    BY <2>11, <2>12 DEF grows
  <2>14. w \in Range(r)
    <3>1. n \in 1..Len(r)
      BY <1>7, <2>11, LenProperties
    <3> QED
      BY <2>11, <3>1, Members
  <2>15. explores(w, q, r)
    BY <1>7, <2>11, <2>13, <2>14 DEF explores
  <2> QED
    BY <1>4, <1>6, <1>9, <2>6, <2>15 DEF r, c, x
<1> QED
  BY <1>8, <1>9

(* The pre-order from v holds exactly what derives from v, each once, and  *)
(* v first.                                                                *)
LEMMA Preorder ==
  ASSUME Graph, NEW v \in Vtbl
  PROVE  /\ preorder(v) \in Seq(Vtbl) /\ Len(preorder(v)) \in Nat \ {0}
         /\ distinct(preorder(v)) /\ preorder(v)[1] = v
         /\ Range(preorder(v)) = below(cloud, v)
<1> DEFINE r == preorder(v)
<1>1. <<>> \in Seq(Vtbl) /\ Len(<<>>) = 0 /\ Range(<<>>) = {}
  BY EmptySeq DEF Range
<1>2. r \in Seq(Vtbl) /\ explores(v, <<>>, r)
  BY <1>1, Explores DEF preorder
<1> HIDE DEF r
<1>3. distinct(<<>>)
  BY <1>1 DEF distinct
<1>4. /\ distinct(r) /\ v \in Range(r) /\ Len(r) \in Nat \ {0} /\ r[1] = v
      /\ \A i \in 1..Len(r) : r[i] \in below(cloud, v) /\ cloudMap[r[i]] \subseteq Range(r)
  <2>1. Len(r) \in Nat
    BY <1>2, LenProperties
  <2> QED
    BY <1>1, <1>2, <1>3, <2>1 DEF explores, grows
<1>5. Range(r) \subseteq below(cloud, v)
  BY <1>2, <1>4, Members
<1>6. below(cloud, v) \subseteq Range(r)
  <2>1. ASSUME NEW d \in Vtbl, NEW p \in cloud.parents[d], p \in Range(r)
        PROVE  d \in Range(r)
    <3>1. PICK i \in 1..Len(r) : r[i] = p
      BY <1>2, <2>1, Members
    <3>2. p \in Vtbl
      BY <1>2, <3>1, Members
    <3>3. d \in cloudMap[p]
      BY <2>1, <3>2 DEF Graph
    <3> QED
      BY <1>4, <3>1, <3>3
  <2> QED
    BY <1>4, <2>1, Below DEF Graph, Vtbl
<1> QED
  BY <1>2, <1>4, <1>5, <1>6 DEF r

(* The pre-order of the cloud numbers its vtables.                         *)
LEMMA CloudOrder ==
  ASSUME Graph
  PROVE  /\ cloudOrder \in Seq(Vtbl) /\ Len(cloudOrder) \in Nat \ {0}
         /\ distinct(cloudOrder) /\ Range(cloudOrder) = Vtbl
         /\ \A v \in Vtbl : /\ indexIn(cloudOrder, v) \in 1..Len(cloudOrder)
                            /\ cloudOrder[indexIn(cloudOrder, v)] = v
         /\ \A i \in 1..Len(cloudOrder) : indexIn(cloudOrder, cloudOrder[i]) = i
<1>1. Root \in Vtbl /\ below(cloud, Root) = Vtbl
  BY AllBelowRoot DEF Graph, Vtbl
<1> DEFINE r == cloudOrder
<1>2. r \in Seq(Vtbl) /\ Len(r) \in Nat \ {0} /\ distinct(r) /\ Range(r) = Vtbl
  BY <1>1, Preorder DEF cloudOrder
<1> HIDE DEF r
<1>3. DOMAIN r = 1..Len(r)
  BY <1>2, Members
<1>4. ASSUME NEW v \in Vtbl
      PROVE  indexIn(r, v) \in 1..Len(r) /\ r[indexIn(r, v)] = v
  <2>1. \E i \in DOMAIN r : r[i] = v
    BY <1>2, <1>3, Members
  <2> QED
    BY <1>3, <2>1 DEF indexIn
<1>5. ASSUME NEW i \in 1..Len(r)
      PROVE  indexIn(r, r[i]) = i
  <2>1. r[i] \in Vtbl
    BY <1>2, Members
  <2>2. indexIn(r, r[i]) \in 1..Len(r) /\ r[indexIn(r, r[i])] = r[i]
    BY <1>4, <2>1
  <2> QED
    BY <1>2, <2>2 DEF distinct
<1> QED
  BY <1>2, <1>4, <1>5 DEF r

-----------------------------------------------------------------------------
(* Ranges.                                                                 *)

(* position x is in one of the ranges of the list d                        *)
holds(d, x) == \E k \in 1..Len(d) : d[k][1] <= x /\ x < d[k][2]

(* the ranges of d are not empty and do not touch                          *)
separate(d) ==
  /\ \A k \in 1..Len(d) : d[k][1] < d[k][2]
  /\ \A k \in 1..(Len(d) - 1) : d[k][2] < d[k + 1][1]

intervals(S) ==
  IsFiniteSet(S) /\ S \in SUBSET (Nat \X Nat) /\ \A r \in S : r[1] < r[2]

extended(done, r) ==
  LET last == done[Len(done)]
  IN IF done = <<>> \/ last[2] < r[1] THEN Append(done, r)
     ELSE IF last[2] < r[2] THEN [done EXCEPT ![Len(done)] = <<last[1], r[2]>>]
          ELSE done

extensions(S) == [r \in S |-> [done \in Seq(Nat \X Nat) |-> extended(done, r)]]

(* The sorted list of a set of ranges.                                     *)
LEMMA RangesInOrder ==
  ASSUME NEW S, intervals(S)
  PROVE  LET s == inOrder(S, rangeBefore)
         IN /\ s \in Seq(S) /\ Len(s) \in Nat
            /\ \A r \in S : \E n \in 1..Len(s) : s[n] = r
            /\ \A n \in 1..Len(s) : s[n] \in S
            /\ \A m, n \in 1..Len(s) : m < n => s[m][1] <= s[n][1]
<1> DEFINE R == {p \in S \X S : rangeBefore(p[1], p[2])}
           rank == [x \in S |-> Cardinality({y \in S : rangeBefore(y, x)})]
           f == listing(S, ranks(R, S))
<1>0. IsFiniteSet(S) /\ \A r \in S : r[1] \in Nat /\ r[2] \in Nat /\ r = <<r[1], r[2]>>
  BY DEF intervals
<1>1. \A x, y \in S : <<x, y>> \in R <=> rangeBefore(x, y)
  OBVIOUS
<1>2. \A x \in S : {y \in S : <<y, x>> \in R} = {y \in S : rangeBefore(y, x)}
  BY <1>1
<1>a. rank = ranks(R, S)
  BY <1>2 DEF ranks
<1>3. f = inOrder(S, rangeBefore)
  <2>1. listing(S, rank) = inOrder(S, rangeBefore)
    BY DEF inOrder, listing
  <2> HIDE DEF rank
  <2> QED
    BY <1>a, <2>1
<1> HIDE DEF R, rank
<1>4. strictOrder(R, S)
  <2>1. \A x, y \in S : x # y => <<x, y>> \in R \/ <<y, x>> \in R
    <3> TAKE x, y \in S
    <3>1. x # y => x[1] # y[1] \/ x[2] # y[2]
      BY <1>0
    <3> QED
      BY <1>0, <1>1, <3>1 DEF rangeBefore
  <2>2. \A x \in S : <<x, x>> \notin R
    BY <1>0, <1>1 DEF rangeBefore
  <2>3. \A x, y, z \in S : <<x, y>> \in R /\ <<y, z>> \in R => <<x, z>> \in R
    <3> TAKE x, y, z \in S
    <3>1. rangeBefore(x, y) /\ rangeBefore(y, z) => rangeBefore(x, z)
      BY <1>0 DEF rangeBefore
    <3> QED
      BY <1>1, <3>1
  <2> QED
    BY <2>1, <2>2, <2>3 DEF strictOrder
<1>7. f = listing(S, ranks(R, S))
  OBVIOUS
<1> HIDE DEF f
<1>8. /\ Cardinality(S) \in Nat
      /\ f \in Seq(S) /\ Len(f) = Cardinality(S)
      /\ \A x \in S : \E n \in 1..Len(f) : f[n] = x
      /\ \A m, n \in 1..Len(f) : m < n <=> <<f[m], f[n]>> \in R
  <2>1. IsFiniteSet(S)
    BY <1>0
  <2>2. /\ Cardinality(S) \in Nat
        /\ f \in Seq(S) /\ Len(f) = Cardinality(S)
        /\ \A x \in S : \E n \in 1..Len(f) : f[n] = x
        /\ \A m, n \in 1..Len(f) : m < n <=> <<f[m], f[n]>> \in R
        /\ \A n \in 1..Len(f) : Cardinality(lower(R, S, f[n])) = n - 1
    BY SMTT(30), <1>4, <1>7, <2>1, InOrder
  <2> QED
    BY <2>2
<1>9. \A n \in 1..Len(f) : f[n] \in S
  BY <1>8, Members
<1>10. \A m, n \in 1..Len(f) : m < n => f[m][1] <= f[n][1]
  <2> SUFFICES ASSUME NEW m \in 1..Len(f), NEW n \in 1..Len(f), m < n
               PROVE  f[m][1] <= f[n][1]
    OBVIOUS
  <2>1. rangeBefore(f[m], f[n])
    BY <1>1, <1>8, <1>9
  <2> QED
    BY <1>0, <1>9, <2>1 DEF rangeBefore
<1> QED
  BY <1>3, <1>8, <1>9, <1>10

(* One round of coalesce, with a range that starts no earlier than those   *)
(* before it.                                                              *)
LEMMA Extended ==
  ASSUME NEW d \in Seq(Nat \X Nat), separate(d), NEW r \in Nat \X Nat, r[1] < r[2],
         d # <<>> => d[Len(d)][1] <= r[1]
  PROVE  LET e == extended(d, r)
         IN /\ e \in Seq(Nat \X Nat) /\ separate(e) /\ e # <<>>
            /\ e[Len(e)][1] <= r[1]
            /\ \A x \in Int : holds(e, x) <=> holds(d, x) \/ (r[1] <= x /\ x < r[2])
<1> DEFINE e == extended(d, r)
           m == Len(d)
           last == d[m]
<1>1. /\ m \in Nat /\ DOMAIN d = 1..m
      /\ \A k \in 1..m : d[k] \in Nat \X Nat
  BY Members
<1>m. m \in Nat
  BY <1>1
<1>b. \A k \in 1..m : d[k][1] \in Nat /\ d[k][2] \in Nat
  BY <1>1
<1>2. r[1] \in Nat /\ r[2] \in Nat
  OBVIOUS
<1>3. d = <<>> <=> m = 0
  BY EmptySeq
<1>4. CASE d = <<>> \/ last[2] < r[1]
  <2>1. e = Append(d, r)
    BY <1>4 DEF extended
  <2>2. /\ e \in Seq(Nat \X Nat) /\ Len(e) = m + 1 /\ e[m + 1] = r
        /\ \A k \in 1..m : e[k] = d[k]
    BY <2>1, AppendProperties
  <2> HIDE DEF e
  <2>3. separate(e)
    <3>1. ASSUME NEW k \in 1..Len(e)
          PROVE  e[k][1] < e[k][2]
      <4>1. k \in 1..m \/ k = m + 1
        BY <1>1, <2>2
      <4> QED
        BY <2>2, <4>1 DEF separate
    <3>2. ASSUME NEW k \in 1..(Len(e) - 1)
          PROVE  e[k][2] < e[k + 1][1]
      <4>1. k \in 1..m
        BY <1>1, <2>2
      <4>2. CASE k = m
        <5>1. e[k] = d[m] /\ e[k + 1] = r
          BY <2>2, <4>1, <4>2
        <5>2. d # <<>>
          BY <1>3, <4>1, <4>2
        <5> QED
          BY <1>4, <5>1, <5>2
      <4>3. CASE k # m
        <5>1. k \in 1..(m - 1) /\ k + 1 \in 1..m
          <6> HIDE DEF m
          <6> QED
            BY <1>m, <4>1, <4>3
        <5> QED
          BY <2>2, <4>1, <5>1 DEF separate
      <4> QED
        BY <4>2, <4>3
    <3> QED
      BY <3>1, <3>2 DEF separate
  <2>4. ASSUME NEW x \in Int
        PROVE  holds(e, x) <=> holds(d, x) \/ (r[1] <= x /\ x < r[2])
    <3>1. \A k \in 1..Len(e) : k \in 1..m \/ k = m + 1
      BY <1>1, <2>2
    <3>2. m + 1 \in 1..Len(e) /\ \A k \in 1..m : k \in 1..Len(e)
      BY <1>1, <2>2
    <3> QED
      BY <2>2, <3>1, <3>2 DEF holds
  <2>5. e # <<>> /\ e[Len(e)][1] <= r[1]
    BY <1>1, <1>2, <2>2, EmptySeq
  <2> QED
    BY <2>2, <2>3, <2>4, <2>5 DEF e
<1>5. CASE ~(d = <<>> \/ last[2] < r[1]) /\ last[2] < r[2]
  <2>1. e = [d EXCEPT ![m] = <<last[1], r[2]>>]
    BY <1>5 DEF extended
  <2>2. m \in 1..m /\ last[1] \in Nat /\ last[2] \in Nat /\ r[1] <= last[2] /\ last[1] <= r[1]
    BY <1>1, <1>b, <1>2, <1>3, <1>5
  <2>3. /\ e \in Seq(Nat \X Nat) /\ Len(e) = m /\ e[m] = <<last[1], r[2]>>
        /\ \A k \in 1..m : k # m => e[k] = d[k]
    BY <1>1, <1>2, <2>1, <2>2
  <2> HIDE DEF e, last
  <2>4. separate(e)
    <3>1. ASSUME NEW k \in 1..Len(e)
          PROVE  e[k][1] < e[k][2]
      <4>1. CASE k = m
        BY <1>2, <1>5, <2>2, <2>3, <4>1
      <4>2. CASE k # m
        BY <2>3, <4>2 DEF separate
      <4> QED
        BY <4>1, <4>2
    <3>2. ASSUME NEW k \in 1..(Len(e) - 1)
          PROVE  e[k][2] < e[k + 1][1]
      <4>0. Len(e) = m
        BY <2>3
      <4>1. k \in 1..(m - 1) /\ k \in 1..m /\ k # m /\ k + 1 \in 1..m
        <5> HIDE DEF m
        <5> QED
          BY <1>m, <4>0
      <4>2. d[k][2] < d[k + 1][1] /\ e[k] = d[k]
        BY <2>3, <4>1 DEF separate
      <4>3. e[k + 1][1] = d[k + 1][1]
        <5>1. CASE k + 1 = m
          <6>1. e[k + 1][1] = last[1]
            BY SMTT(30), <2>3, <5>1
          <6> QED
            BY <5>1, <6>1 DEF last
        <5>2. CASE k + 1 # m
          BY <2>3, <4>1, <5>2
        <5> QED
          BY <5>1, <5>2
      <4> QED
        BY <4>2, <4>3
    <3> QED
      BY <3>1, <3>2 DEF separate
  <2>5. ASSUME NEW x \in Int
        PROVE  holds(e, x) <=> holds(d, x) \/ (r[1] <= x /\ x < r[2])
    <3>1. last[1] <= x /\ x < r[2] <=> (last[1] <= x /\ x < last[2]) \/ (r[1] <= x /\ x < r[2])
      BY <1>2, <1>5, <2>2
    <3>2. holds(e, x) <=> \/ \E k \in 1..m : k # m /\ d[k][1] <= x /\ x < d[k][2]
                          \/ last[1] <= x /\ x < r[2]
      <4>1. holds(e, x) <=> \E k \in 1..m : e[k][1] <= x /\ x < e[k][2]
        BY <2>3 DEF holds
      <4>2. e[m][1] = last[1] /\ e[m][2] = r[2]
        BY <2>3
      <4> HIDE DEF m
      <4> QED
        BY <2>2, <2>3, <4>1, <4>2
    <3>3. holds(d, x) <=> \/ \E k \in 1..m : k # m /\ d[k][1] <= x /\ x < d[k][2]
                          \/ last[1] <= x /\ x < last[2]
      BY <2>2 DEF holds, last
    <3> QED
      BY <3>1, <3>2, <3>3
  <2>6. e # <<>> /\ e[Len(e)][1] <= r[1]
    BY <2>2, <2>3, EmptySeq
  <2> QED
    BY <2>3, <2>4, <2>5, <2>6 DEF e
<1>6. CASE ~(d = <<>> \/ last[2] < r[1]) /\ ~(last[2] < r[2])
  <2>1. e = d
    BY <1>6 DEF extended
  <2>2. m \in 1..m /\ last[1] \in Nat /\ last[2] \in Nat /\ r[2] <= last[2] /\ last[1] <= r[1]
    BY <1>1, <1>b, <1>2, <1>3, <1>6
  <2>3. \A x \in Int : r[1] <= x /\ x < r[2] => last[1] <= x /\ x < last[2]
    BY <1>2, <2>2
  <2>4. \A x \in Int : holds(e, x) <=> holds(d, x) \/ (r[1] <= x /\ x < r[2])
    BY <2>1, <2>2, <2>3 DEF holds
  <2> QED
    BY <1>6, <2>1, <2>2, <2>4
<1> QED
  BY <1>4, <1>5, <1>6

(* Coalesced ranges do not touch and hold the same positions.              *)
LEMMA Coalesce ==
  ASSUME NEW S, intervals(S)
  PROVE  /\ coalesce(S) \in Seq(Nat \X Nat) /\ separate(coalesce(S))
         /\ \A x \in Int : holds(coalesce(S), x) <=> \E r \in S : r[1] <= x /\ x < r[2]
<1> DEFINE s == inOrder(S, rangeBefore)
           f == extensions(S)
           X == Seq(Nat \X Nat)
<1>1. coalesce(S) = each(f, s, <<>>)
  BY DEF coalesce, extensions, extended
<1>2. /\ Len(s) \in Nat
      /\ \A r \in S : \E n \in 1..Len(s) : s[n] = r
      /\ \A n \in 1..Len(s) : s[n] \in S
      /\ \A m, n \in 1..Len(s) : m < n => s[m][1] <= s[n][1]
  BY RangesInOrder
<1>3. \A r \in S : r \in Nat \X Nat /\ r[1] \in Nat /\ r[2] \in Nat /\ r[1] < r[2]
  BY DEF intervals
<1> HIDE DEF s
<1>4. PICK a : Rounds(f, s, <<>>, a)
  BY <1>2, Each
<1>5. /\ each(f, s, <<>>) = a[Len(s)] /\ a[0] = <<>>
      /\ \A n \in 1..Len(s) : a[n] = f[s[n]][a[n - 1]]
  BY <1>4 DEF Rounds
<1>6. \A r \in S : \A d \in X : f[r][d] = extended(d, r)
  BY DEF extensions
<1> HIDE DEF f
<1> DEFINE I(n) ==
      /\ a[n] \in X /\ separate(a[n])
      /\ n = 0 => a[n] = <<>>
      /\ n > 0 => a[n] # <<>> /\ a[n][Len(a[n])][1] <= s[n][1]
      /\ \A x \in Int : holds(a[n], x) <=> \E j \in 1..n : s[j][1] <= x /\ x < s[j][2]
           N == {n \in 0..Len(s) : I(n)}
<1>7. 0 \in N
  <2>1. <<>> \in X /\ Len(<<>>) = 0
    BY EmptySeq
  <2>2. separate(<<>>)
    BY <2>1 DEF separate
  <2>3. \A x \in Int : ~holds(<<>>, x)
    BY <2>1 DEF holds
  <2> HIDE DEF X
  <2> QED
    BY <1>2, <1>5, <2>1, <2>2, <2>3
<1>8. ASSUME NEW n \in 0..Len(s), n < Len(s), n \in N
      PROVE  n + 1 \in N
  <2> DEFINE d == a[n]
             r == s[n + 1]
             e == a[n + 1]
  <2>1. n + 1 \in 1..Len(s) /\ n + 1 \in 0..Len(s) /\ (n + 1) - 1 = n /\ n + 1 # 0
    BY <1>2, <1>8
  <2>2. r \in S /\ r \in Nat \X Nat /\ r[1] \in Nat /\ r[2] \in Nat /\ r[1] < r[2]
    BY <1>2, <1>3, <2>1
  <2>3. d \in X /\ separate(d)
    BY <1>8
  <2>4. e = extended(d, r)
    BY <1>5, <1>6, <2>1, <2>2, <2>3
  <2>5. d # <<>> => d[Len(d)][1] <= r[1]
    <3> SUFFICES ASSUME d # <<>>
                 PROVE  d[Len(d)][1] <= r[1]
      OBVIOUS
    <3>1. n > 0 /\ n \in 1..Len(s) /\ d[Len(d)][1] <= s[n][1]
      BY <1>8
    <3>2. s[n][1] <= r[1] /\ s[n][1] \in Nat
      BY <1>2, <1>3, <2>1, <3>1
    <3>3. d[Len(d)][1] \in Nat
      <4>1. Len(d) \in 1..Len(d)
        BY <2>3, EmptySeq, LenProperties
      <4>2. d[Len(d)] \in Nat \X Nat
        BY <2>3, <4>1, Members
      <4> QED
        BY <4>2
    <3> QED
      BY SMTT(30), <2>2, <3>1, <3>2, <3>3
  <2>6. /\ e \in X /\ separate(e) /\ e # <<>>
        /\ e[Len(e)][1] <= r[1]
        /\ \A x \in Int : holds(e, x) <=> holds(d, x) \/ (r[1] <= x /\ x < r[2])
    <3> HIDE DEF e, d, r
    <3> QED
      BY <2>2, <2>3, <2>4, <2>5, Extended
  <2>7. ASSUME NEW x \in Int
        PROVE  holds(e, x) <=> \E j \in 1..(n + 1) : s[j][1] <= x /\ x < s[j][2]
    <3>1. \A j \in 1..(n + 1) : j \in 1..n \/ j = n + 1
      BY <1>8
    <3>2. n + 1 \in 1..(n + 1) /\ \A j \in 1..n : j \in 1..(n + 1)
      BY <1>8
    <3>3. holds(d, x) <=> \E j \in 1..n : s[j][1] <= x /\ x < s[j][2]
      BY <1>8
    <3> HIDE DEF e, d
    <3> QED
      BY <2>6, <3>1, <3>2, <3>3
  <2> HIDE DEF X
  <2> QED
    BY <2>1, <2>6, <2>7
<1> HIDE DEF N
<1>9. 0..Len(s) \subseteq N
  BY <1>2, <1>7, <1>8, UpTo
<1>10. I(Len(s))
  <2>1. Len(s) \in N
    BY <1>2, <1>9
  <2> QED
    BY <2>1 DEF N
<1>11. ASSUME NEW x \in Int
       PROVE  holds(coalesce(S), x) <=> \E r \in S : r[1] <= x /\ x < r[2]
  <2>1. holds(coalesce(S), x) <=> \E j \in 1..Len(s) : s[j][1] <= x /\ x < s[j][2]
    BY <1>1, <1>5, <1>10
  <2>2. \A j \in 1..Len(s) : s[j] \in S
    BY <1>2
  <2>3. \A r \in S : \E j \in 1..Len(s) : s[j] = r
    BY <1>2
  <2> QED
    BY <2>1, <2>2, <2>3
<1> QED
  BY <1>1, <1>5, <1>10, <1>11


(* the ranges of v from those of what is derived from it                   *)
ownRange(i) == <<i, i + 1>>
collected(h, v) ==
  {ownRange(indexIn(cloudOrder, v))} \cup UNION {Range(h[c]) : c \in cloudMap[v]}

(* the list d holds the positions of what derives from v                   *)
ranged(v, d) ==
  /\ d \in Seq(Nat \X Nat) /\ separate(d)
  /\ \A x \in Int : holds(d, x) <=> \E w \in below(cloud, v) : x = indexIn(cloudOrder, w)

(* The entries of a list of separate ranges.                               *)
LEMMA RangeEntries ==
  ASSUME NEW d \in Seq(Nat \X Nat), separate(d)
  PROVE  /\ IsFiniteSet(Range(d)) /\ Range(d) \in SUBSET (Nat \X Nat)
         /\ \A r \in Range(d) : r[1] < r[2]
         /\ \A x : holds(d, x) <=> \E r \in Range(d) : r[1] <= x /\ x < r[2]
<1>1. Len(d) \in Nat /\ DOMAIN d = 1..Len(d)
      /\ (\A x : x \in Range(d) <=> \E j \in 1..Len(d) : d[j] = x)
      /\ Range(d) \subseteq Nat \X Nat
  BY Members
<1>2. IsFiniteSet(Range(d))
  <2>1. Range(d) = {d[j] : j \in 1..Len(d)}
    BY <1>1
  <2>2. IsFiniteSet(1..Len(d))
    BY <1>1, FS_Interval
  <2>3. IsFiniteSet({d[j] : j \in 1..Len(d)})
    BY <2>2, Image
  <2> QED
    BY <2>1, <2>3
<1> QED
  BY <1>1, <1>2 DEF separate, holds

(* The ranges of a vtable and of its children form a finite set.           *)
LEMMA Collected ==
  ASSUME Graph, NEW v \in Vtbl, NEW h,
         \A c \in cloudMap[v] : h[c] \in Seq(Nat \X Nat) /\ separate(h[c])
  PROVE  intervals(collected(h, v))
<1> DEFINE i == indexIn(cloudOrder, v)
           K == {Range(h[c]) : c \in cloudMap[v]}
<1>1. i \in Nat
  BY CloudOrder
<1>2. IsFiniteSet(cloudMap[v])
  <2>1. IsFiniteSet(Vtbl)
    BY Metadata DEF Graph, Vtbl
  <2>2. cloudMap[v] \in SUBSET Vtbl
    BY DEF Graph
  <2> QED
    BY <2>1, <2>2, FS_Subset
<1>3. IsFiniteSet(UNION K)
  <2>1. IsFiniteSet(K)
    <3> DEFINE g == [c \in cloudMap[v] |-> Range(h[c])]
    <3>1. K = {g[c] : c \in cloudMap[v]}
      OBVIOUS
    <3> HIDE DEF g, K
    <3> QED
      BY <1>2, <3>1, Image
  <2>2. \A x \in K : IsFiniteSet(x)
    BY RangeEntries
  <2> HIDE DEF K
  <2> QED
    BY <2>1, <2>2, FS_UNION
<1>4. \A r \in UNION K : r \in Nat \X Nat /\ r[1] < r[2]
  <2> SUFFICES ASSUME NEW c \in cloudMap[v], NEW r \in Range(h[c])
               PROVE  r \in Nat \X Nat /\ r[1] < r[2]
    OBVIOUS
  <2> DEFINE d == h[c]
  <2>1. d \in Seq(Nat \X Nat) /\ separate(d) /\ r \in Range(d)
    OBVIOUS
  <2> HIDE DEF d
  <2> QED
    BY <2>1, RangeEntries
<1>5. ownRange(i) \in Nat \X Nat /\ ownRange(i)[1] < ownRange(i)[2]
  BY <1>1 DEF ownRange
<1>6. collected(h, v) = {ownRange(i)} \cup UNION K
  BY DEF collected
<1> HIDE DEF K, i
<1>7. IsFiniteSet(collected(h, v))
  <2> DEFINE A == {ownRange(i)}
             B == UNION K
  <2>1. IsFiniteSet(A) /\ IsFiniteSet(B)
    BY <1>3, FS_Singleton
  <2>2. collected(h, v) = A \cup B
    BY <1>6
  <2> HIDE DEF A, B
  <2>3. IsFiniteSet(A \cup B)
    BY <2>1, FS_Union
  <2> QED
    BY <2>2, <2>3
<1>8. \A r \in collected(h, v) : r \in Nat \X Nat /\ r[1] < r[2]
  BY <1>4, <1>5, <1>6
<1> QED
  BY <1>7, <1>8 DEF intervals

(* The ranges satisfy their recursive definition.                          *)
LEMMA HelperEquation ==
  ASSUME Graph
  PROVE  LET f == calculateVPtrRangesHelper(cloudOrder)
         IN /\ f = [v \in Vtbl |-> f[v]]
            /\ \A v \in Vtbl : f[v] = coalesce(collected(f, v))
<1> DEFINE T == {d \in Seq(Nat \X Nat) : separate(d)}
           F == [h \in [Vtbl -> T] |-> [v \in Vtbl |-> coalesce(collected(h, v))]]
           t == <<>>
<1>1. ASSUME NEW h \in [Vtbl -> T], NEW v \in Vtbl
      PROVE  coalesce(collected(h, v)) \in T
  <2>1. cloudMap[v] \in SUBSET Vtbl
    BY DEF Graph
  <2>2. \A c \in cloudMap[v] : h[c] \in T
    BY <2>1
  <2>3. intervals(collected(h, v))
    BY <2>2, Collected
  <2> QED
    BY <2>3, Coalesce
<1>2. t \in T
  <2>1. <<>> \in Seq(Nat \X Nat) /\ Len(<<>>) = 0
    BY EmptySeq
  <2> QED
    BY <2>1 DEF separate
<1>3. cloudMap \in [Vtbl -> SUBSET Vtbl] /\ WellFounded(Vtbl, cloudMap)
  BY KidsWellFounded DEF Graph, Vtbl
<1>5. F \in [[Vtbl -> T] -> [Vtbl -> T]]
  <2> HIDE DEF T
  <2> QED
    BY <1>1
<1>6. FromBelow(F, Vtbl, T, cloudMap)
  <2> SUFFICES ASSUME NEW g \in [Vtbl -> T], NEW h \in [Vtbl -> T], NEW v \in Vtbl,
                      \A c \in cloudMap[v] : g[c] = h[c]
               PROVE  F[g][v] = F[h][v]
    BY DEF FromBelow
  <2>1. collected(g, v) = collected(h, v)
    BY DEF collected
  <2> HIDE DEF T
  <2> QED
    BY <2>1
<1>7. \E h \in [Vtbl -> T] : h = F[h]
  <2> DEFINE V == Vtbl
             down == cloudMap
  <2>1. t \in T /\ Recursive(F, V, T, down)
    BY <1>2, <1>3, <1>5, <1>6 DEF Recursive
  <2> HIDE DEF F, T, t, V, down
  <2>2. \E h \in [V -> T] : h = F[h]
    BY <2>1, Recursion
  <2> QED
    BY <2>2 DEF V
<1> DEFINE next(f) == [v \in Vtbl |-> coalesce(collected(f, v))]
           f == CHOOSE f : f = next(f)
<1>8. \E h : h = next(h)
  <2>1. PICK h \in [Vtbl -> T] : h = F[h]
    BY <1>7
  <2> HIDE DEF T
  <2>2. h = next(h)
    BY <2>1
  <2> HIDE DEF next
  <2> QED
    BY <2>2
<1>9. calculateVPtrRangesHelper(cloudOrder) = f
  BY DEF calculateVPtrRangesHelper, collected, ownRange
<1>10. f = next(f)
  <2> HIDE DEF next
  <2> QED
    BY <1>8
<1> HIDE DEF f
<1>11. f = [v \in Vtbl |-> f[v]] /\ \A v \in Vtbl : f[v] = coalesce(collected(f, v))
  BY <1>10
<1> QED
  BY <1>9, <1>11

(* The ranges of a vtable do not touch and hold the positions of what      *)
(* derives from it.                                                        *)
LEMMA Ranged ==
  ASSUME Graph, NEW v \in Vtbl
  PROVE  ranged(v, calculateVPtrRangesHelper(cloudOrder)[v])
<1> DEFINE f == calculateVPtrRangesHelper(cloudOrder)
           D == {w \in Vtbl : ~ranged(w, f[w])}
<1>1. \A w \in Vtbl : f[w] = coalesce(collected(f, w))
  BY HelperEquation
<1>2. cloudMap \in [Vtbl -> SUBSET Vtbl] /\ WellFounded(Vtbl, cloudMap)
  BY KidsWellFounded DEF Graph, Vtbl
<1> SUFFICES ASSUME D # {}
             PROVE  FALSE
  OBVIOUS
<1>3. PICK w \in D : cloudMap[w] \cap D = {}
  <2>1. D \in (SUBSET Vtbl) \ {{}}
    OBVIOUS
  <2> HIDE DEF D
  <2> QED
    BY <1>2, <2>1 DEF WellFounded
<1> HIDE DEF f
<1>4. w \in Vtbl /\ ~ranged(w, f[w]) /\ \A c \in cloudMap[w] : c \in Vtbl /\ ranged(c, f[c])
  BY <1>2, <1>3
<1> HIDE DEF D
<1> DEFINE C == collected(f, w)
           i == indexIn(cloudOrder, w)
<1>5. intervals(C)
  BY <1>4, Collected DEF ranged
<1>6. i \in Nat
  BY <1>4, CloudOrder
<1>7. ASSUME NEW x \in Int
      PROVE  (\E r \in C : r[1] <= x /\ x < r[2]) <=> x = i \/ \E c \in cloudMap[w] : holds(f[c], x)
  <2>1. \A r : r \in C <=> r = ownRange(i) \/ \E c \in cloudMap[w] : r \in Range(f[c])
    BY DEF collected
  <2>2. ownRange(i)[1] <= x /\ x < ownRange(i)[2] <=> x = i
    BY <1>6 DEF ownRange
  <2>3. ASSUME NEW c \in cloudMap[w]
        PROVE  holds(f[c], x) <=> \E r \in Range(f[c]) : r[1] <= x /\ x < r[2]
    <3> DEFINE d == f[c]
    <3>1. d \in Seq(Nat \X Nat) /\ separate(d)
      BY <1>4 DEF ranged
    <3> HIDE DEF d
    <3>2. holds(d, x) <=> \E r \in Range(d) : r[1] <= x /\ x < r[2]
      BY <3>1, RangeEntries
    <3> QED
      BY <3>2 DEF d
  <2> HIDE DEF C
  <2> QED
    BY <2>1, <2>2, <2>3
<1>8. \A d : d \in below(cloud, w) <=> d = w \/ \E c \in cloudMap[w] : d \in below(cloud, c)
  <2>1. w \in below(cloud, w)
    BY <1>4, Below DEF Graph, Vtbl
  <2>2. ASSUME NEW c \in cloudMap[w]
        PROVE  below(cloud, c) \in SUBSET below(cloud, w)
    <3>1. c \in Vtbl /\ w \in cloud.parents[c]
      BY <1>4 DEF Graph
    <3>2. c \in below(cloud, w)
      BY <1>4, <2>1, <3>1, Below DEF Graph, Vtbl
    <3> QED
      BY <1>4, <3>2, BelowTrans DEF Graph, Vtbl
  <2>3. ASSUME NEW d \in below(cloud, w), d # w
        PROVE  \E c \in cloudMap[w] : d \in below(cloud, c)
    <3>1. PICK k \in Vtbl : w \in cloud.parents[k] /\ d \in below(cloud, k)
      BY <1>4, <2>3, BelowFirst DEF Graph, Vtbl
    <3>2. k \in cloudMap[w]
      BY <1>4, <3>1 DEF Graph
    <3> QED
      BY <3>1, <3>2
  <2> QED
    BY <2>1, <2>2, <2>3
<1>9. coalesce(C) \in Seq(Nat \X Nat) /\ separate(coalesce(C))
      /\ \A x \in Int : holds(coalesce(C), x) <=> \E r \in C : r[1] <= x /\ x < r[2]
  <2> HIDE DEF C
  <2> QED
    BY <1>5, Coalesce
<1>10. f[w] = coalesce(C)
  BY <1>1, <1>4
<1> HIDE DEF C
<1>11. ASSUME NEW x \in Int
       PROVE  holds(f[w], x) <=> \E d \in below(cloud, w) : x = indexIn(cloudOrder, d)
  <2>1. holds(f[w], x) <=> x = i \/ \E c \in cloudMap[w] : holds(f[c], x)
    BY <1>7, <1>9, <1>10
  <2>2. \A c \in cloudMap[w] : holds(f[c], x) <=> \E d \in below(cloud, c) : x = indexIn(cloudOrder, d)
    BY <1>4 DEF ranged
  <2> QED
    BY <1>8, <2>1, <2>2
<1>12. ranged(w, f[w])
  BY <1>9, <1>10, <1>11 DEF ranged
<1> QED
  BY <1>4, <1>12

-----------------------------------------------------------------------------
(* The alignment of the ordered layout.                                    *)

(* Powers of two grow.                                                     *)
LEMMA Power ==
  ASSUME NEW k \in Nat
  PROVE  powerOfTwo(k) \in Nat /\ powerOfTwo(k) >= k + 1
<1> DEFINE f == [once \in {1} |-> [p \in Nat |-> 2 * p]]
           s == [i \in 1..k |-> 1]
<1>1. powerOfTwo(k) = each(f, s, 1)
  BY DEF powerOfTwo
<1>2. s \in Seq({1}) /\ Len(s) = k /\ \A i \in 1..k : s[i] = 1
  OBVIOUS
<1>3. \A p \in Nat : f[1][p] = 2 * p
  OBVIOUS
<1> HIDE DEF f, s
<1>4. Keeps(f, s, Nat)
  <2>1. \A y \in Nat : 2 * y \in Nat
    OBVIOUS
  <2>2. \A y \in Nat : f[1][y] \in Nat
    BY <1>3, <2>1
  <2> QED
    BY <1>2, <2>2 DEF Keeps
<1>5. PICK a \in [0..Len(s) -> Nat] : Rounds(f, s, 1, a)
  <2>1. 1 \in Nat
    OBVIOUS
  <2> QED
    BY <1>2, <1>4, <2>1, EachTyped
<1>6. /\ each(f, s, 1) = a[k] /\ a[0] = 1 /\ a \in [0..k -> Nat]
      /\ \A n \in 1..k : a[n] = f[s[n]][a[n - 1]]
  BY <1>2, <1>5 DEF Rounds
<1> DEFINE S == {n \in 0..k : a[n] >= n + 1}
<1>7. 0 \in S
  BY <1>6
<1>8. ASSUME NEW n \in 0..k, n < k, n \in S
      PROVE  n + 1 \in S
  <2>1. n + 1 \in 1..k /\ (n + 1) - 1 = n /\ n + 1 \in 0..k
    BY <1>8
  <2>2. a[n + 1] = f[1][a[n]] /\ a[n] \in Nat
    BY <1>2, <1>6, <2>1
  <2>3. a[n + 1] = 2 * a[n]
    BY <1>3, <2>2
  <2> QED
    BY <1>8, <2>1, <2>2, <2>3
<1> HIDE DEF S
<1>9. k \in S
  <2>1. 0..k \subseteq S
    BY <1>7, <1>8, UpTo
  <2> QED
    BY <2>1
<1> QED
  BY <1>1, <1>6, <1>9 DEF S

(* There is a power of two from any number on.                             *)
LEMMA PowerFrom ==
  ASSUME NEW n \in Nat
  PROVE  powerOfTwoFrom(n) \in Nat \ {0} /\ n <= powerOfTwoFrom(n)
<1> DEFINE good(k) == /\ n <= powerOfTwo(k)
                      /\ \A j \in 0..(k - 1) : powerOfTwo(j) < n
           K == {k \in 0..n : n <= powerOfTwo(k)}
<1>1. \E k \in 0..n : good(k)
  <2>1. n \in K
    BY Power
  <2>2. PICK m \in K : \A l \in K : m <= l
    <3>1. K \in SUBSET Nat /\ K # {}
      BY <2>1
    <3> HIDE DEF K
    <3> QED
      BY <3>1, Least
  <2>3. m \in 0..n /\ n <= powerOfTwo(m)
    BY <2>2
  <2>4. ASSUME NEW j \in 0..(m - 1)
        PROVE  powerOfTwo(j) < n
    <3>1. j \in 0..n /\ j < m /\ j \in Nat
      BY <2>3
    <3>2. j \notin K
      BY <2>2, <2>3, <3>1
    <3>3. powerOfTwo(j) \in Nat
      BY <3>1, Power
    <3> QED
      BY <3>1, <3>2, <3>3
  <2> QED
    BY <2>3, <2>4
<1> DEFINE k == CHOOSE k \in 0..n : good(k)
<1>2. k \in 0..n /\ n <= powerOfTwo(k)
  BY <1>1
<1>3. powerOfTwoFrom(n) = powerOfTwo(k)
  BY DEF powerOfTwoFrom
<1> HIDE DEF k
<1>4. powerOfTwo(k) \in Nat /\ powerOfTwo(k) >= k + 1
  BY <1>2, Power
<1> QED
  BY <1>2, <1>3, <1>4

(* The alignment of the ordered layout is at least the size of any vtable. *)
LEMMA OrderAlignment ==
  ASSUME NEW c, isCloud(c)
  PROVE  /\ orderAlignment(c) \in Nat \ {0}
         /\ \A v \in DOMAIN c.parents : /\ size(c, v) \in Nat \ {0}
                                        /\ size(c, v) <= orderAlignment(c)
<1> DEFINE V == DOMAIN c.parents
           sizes == {size(c, v) : v \in V}
           l == ascending(sizes)
           n == Cardinality(sizes)
<1>1. /\ Root \in V /\ IsFiniteSet(V)
      /\ \A v \in V : c.neg[v] \in Nat /\ c.pos[v] \in Nat \ {0}
  BY Metadata
<1>2. \A v \in V : size(c, v) \in Nat \ {0}
  <2> TAKE v \in V
  <2>1. c.neg[v] \in Nat /\ c.pos[v] \in Nat \ {0}
    BY <1>1
  <2> QED
    BY <2>1 DEF size
<1>3. IsFiniteSet(sizes) /\ sizes \in SUBSET Int /\ size(c, Root) \in sizes
  <2> DEFINE g == [v \in V |-> size(c, v)]
  <2>1. sizes = {g[v] : v \in V}
    OBVIOUS
  <2>2. IsFiniteSet(sizes)
    <3> HIDE DEF g, sizes
    <3> QED
      BY <1>1, <2>1, Image
  <2> QED
    BY <1>1, <1>2, <2>2
<1>4. orderAlignment(c) = powerOfTwoFrom(l[n])
  BY DEF orderAlignment
<1>a. \A v \in V : size(c, v) \in sizes
  OBVIOUS
<1>b. \A x \in sizes : x \in Nat
  BY <1>2
<1> HIDE DEF sizes
<1>5. /\ n \in Nat /\ l \in Seq(sizes) /\ Len(l) = n /\ Range(l) = sizes
      /\ \A i, j \in 1..n : i < j <=> l[i] < l[j]
  BY <1>3, Ascending
<1> HIDE DEF l, n
<1>6. ASSUME NEW x \in sizes
      PROVE  \E j \in 1..n : l[j] = x
  BY <1>5, Members
<1>7. n \in 1..n /\ l[n] \in sizes
  <2>1. \E j \in 1..n : l[j] = size(c, Root)
    BY <1>3, <1>6
  <2>2. n \in 1..n
    BY <1>5, <2>1
  <2> QED
    BY <1>5, <2>2, Members
<1>8. ASSUME NEW v \in V
      PROVE  size(c, v) <= l[n]
  <2>1. PICK j \in 1..n : l[j] = size(c, v)
    BY <1>6, <1>a
  <2>2. l[j] \in Nat /\ l[n] \in Nat
    BY <1>2, <1>7, <1>b, <2>1
  <2>3. j = n \/ j < n
    BY <1>5
  <2> QED
    BY <1>5, <1>7, <2>1, <2>2, <2>3
<1>9. l[n] \in Nat
  BY <1>7, <1>b
<1>10. powerOfTwoFrom(l[n]) \in Nat \ {0} /\ l[n] <= powerOfTwoFrom(l[n])
  BY <1>9, PowerFrom
<1>11. ASSUME NEW v \in V
       PROVE  size(c, v) \in Nat \ {0} /\ size(c, v) <= orderAlignment(c)
  <2>1. size(c, v) \in Nat \ {0} /\ size(c, v) <= l[n]
    BY <1>2, <1>8
  <2> QED
    BY <1>4, <1>9, <1>10, <2>1
<1> QED
  BY <1>4, <1>10, <1>11

-----------------------------------------------------------------------------
(* Padding.                                                                *)

padChild(pre, pad, p, c) ==
  LET parentPre == cloud.neg[p] + pad[p]
      childPre  == cloud.neg[c] + pad[c]
  IN IF indexIn(pre, c) < indexIn(pre, p) \/ parentPre <= childPre
     THEN pad ELSE [pad EXCEPT ![c] = parentPre - childPre]
padChildren(pre, p) ==
  [c \in Vtbl |-> [pad \in [Vtbl -> Int] |-> padChild(pre, pad, p, c)]]
pads(pre) ==
  [p \in Vtbl |-> [pad \in [Vtbl -> Int] |-> each(padChildren(pre, p), children(p), pad)]]

Unpadded == prePadMap = [v \in Vtbl |-> 0]

(* No vtable starts later than one it derives from, as the metadata        *)
(* describes them, so that none is padded.                                 *)
LEMMA NoPadding ==
  ASSUME Graph, contains(cloud), Unpadded
  PROVE  prePadding(cloudOrder) = prePadMap
<1> DEFINE pre == cloudOrder
           zero == prePadMap
           X == {zero}
<1>1. zero \in [Vtbl -> Int] /\ \A v \in Vtbl : zero[v] = 0
  BY DEF Unpadded
<1>2. ASSUME NEW p \in Vtbl, NEW c \in Vtbl, p \in cloud.parents[c]
      PROVE  padChild(pre, zero, p, c) = zero
  <2>1. cloud.neg[p] \in Nat /\ cloud.neg[c] \in Nat /\ cloud.neg[p] <= cloud.neg[c]
    BY <1>2, Metadata DEF Graph, Vtbl, contains
  <2>2. cloud.neg[p] + zero[p] <= cloud.neg[c] + zero[c]
    BY <1>1, <2>1
  <2> QED
    BY <2>2 DEF padChild
<1>3. ASSUME NEW p \in Vtbl
      PROVE  pads(pre)[p][zero] = zero
  <2> DEFINE f == padChildren(pre, p)
             s == children(p)
  <2>1. Len(s) \in Nat /\ \A n \in 1..Len(s) : s[n] \in Vtbl /\ p \in cloud.parents[s[n]]
    BY Children
  <2>2. \A n \in 1..Len(s) : f[s[n]][zero] = zero
    BY <1>1, <1>2, <2>1 DEF padChildren
  <2>3. Keeps(f, s, X)
    BY <2>2 DEF Keeps
  <2>4. pads(pre)[p][zero] = each(f, s, zero)
    BY <1>1 DEF pads
  <2>5. zero \in X
    OBVIOUS
  <2> HIDE DEF f, s, X
  <2>6. each(f, s, zero) \in X
    BY <2>1, <2>3, <2>5, EachTyped
  <2> QED
    BY <2>4, <2>6 DEF X
<1>4. prePadding(pre) = each(pads(pre), only(pre, Objects), zero)
  BY DEF prePadding, pads, padChildren, padChild
<1> DEFINE s == only(pre, Objects)
           f == pads(pre)
<1>5. Len(s) \in Nat /\ \A n \in 1..Len(s) : s[n] \in Vtbl
  <2>1. pre \in Seq(Vtbl)
    BY CloudOrder
  <2>2. only(pre, Objects) \in Seq(Vtbl \cap Objects)
    BY <2>1, Only DEF selects
  <2> QED
    BY <2>2, Members
<1>6. zero \in X /\ Keeps(f, s, X)
  BY <1>3, <1>5 DEF Keeps
<1> HIDE DEF f, s, X, zero
<1>7. each(f, s, zero) \in X
  BY <1>5, <1>6, EachTyped
<1> QED
  BY <1>4, <1>7 DEF f, s, X, zero

-----------------------------------------------------------------------------
(* Where the entries of a vtable are in the new array.                     *)

entry(v, i) == <<v, i - 1 - cloud.neg[v]>>

(* g[i]: the new index of entry i of v in the list f                       *)
placed(f, v, g) ==
  /\ g \in [1..size(cloud, v) -> Nat]
  /\ \A i, j \in 1..size(cloud, v) : i < j => g[i] < g[j]
  /\ \A i \in 1..size(cloud, v) : g[i] + 1 \in 1..Len(f) /\ f[g[i] + 1] = entry(v, i)
  /\ \A k \in 1..Len(f) : f[k][1] = v => \E i \in 1..size(cloud, v) : k = g[i] + 1

indicesOf(f, v) == ascending({k - 1 : k \in {k \in DOMAIN f : f[k][1] = v}})

(* Entries that lie in order in the array have their places as the new     *)
(* indices.                                                                *)
LEMMA Placed ==
  ASSUME NEW X, NEW f \in Seq(X), NEW v, size(cloud, v) \in Nat, NEW g, placed(f, v, g)
  PROVE  indicesOf(f, v) = g /\ g \in Seq(Nat)
<1> DEFINE n == size(cloud, v)
           K == {k \in DOMAIN f : f[k][1] = v}
           S == {k - 1 : k \in K}
<1>1. /\ n \in Nat /\ g \in [1..n -> Nat]
      /\ \A i, j \in 1..n : i < j => g[i] < g[j]
      /\ \A i \in 1..n : g[i] + 1 \in 1..Len(f) /\ f[g[i] + 1] = entry(v, i)
      /\ \A k \in 1..Len(f) : f[k][1] = v => \E i \in 1..n : k = g[i] + 1
  BY DEF placed
<1>2. DOMAIN f = 1..Len(f) /\ Len(f) \in Nat
  BY Members
<1> HIDE DEF n
<1>3. g \in [1..n -> Int]
  BY <1>1
<1>a. \A i \in 1..n : g[i] \in Nat
  BY <1>1
<1>4. S = {g[i] : i \in 1..n}
  <2>1. ASSUME NEW k \in K
        PROVE  \E i \in 1..n : k - 1 = g[i]
    <3>1. k \in 1..Len(f) /\ f[k][1] = v
      BY <1>2
    <3>2. PICK i \in 1..n : k = g[i] + 1
      BY <1>1, <3>1
    <3>3. g[i] \in Nat
      BY <1>a
    <3>4. k - 1 = g[i]
      BY <3>2, <3>3
    <3> QED
      BY <3>4
  <2>2. ASSUME NEW i \in 1..n
        PROVE  g[i] + 1 \in K /\ (g[i] + 1) - 1 = g[i]
    <3>1. g[i] + 1 \in 1..Len(f) /\ f[g[i] + 1][1] = v
      BY <1>1 DEF entry
    <3> QED
      BY <1>2, <1>a, <3>1
  <2> HIDE DEF K
  <2>3. \A x : x \in S <=> \E k \in K : x = k - 1
    OBVIOUS
  <2>4. \A x \in S : \E i \in 1..n : x = g[i]
    BY <2>1, <2>3
  <2>5. \A i \in 1..n : g[i] \in S
    BY <2>2
  <2> HIDE DEF S
  <2> QED
    BY <2>4, <2>5
<1>5. indicesOf(f, v) = ascending(S)
  BY DEF indicesOf
<1> HIDE DEF S
<1>6. ascending(S) = g
  BY <1>1, <1>3, <1>4, Increasing
<1>7. g \in Seq(Nat)
  BY <1>1
<1> QED
  BY <1>5, <1>6, <1>7

-----------------------------------------------------------------------------
(* The interleaved layout.                                                 *)

Entries == {x \in Objects \X Int : -cloud.neg[x[1]] <= x[2] /\ x[2] < cloud.pos[x[1]]}
ahead(x) == {y \in Entries : fillsBefore(cloudOrder, y, x)}

(* The entries of a vtable, by their number and by their distance from the *)
(* address point.                                                          *)
LEMMA Entry ==
  ASSUME Graph
  PROVE  /\ \A v \in Objects : v \in Vtbl /\ size(cloud, v) \in Nat \ {0}
                               /\ cloud.neg[v] \in Nat /\ cloud.pos[v] \in Nat \ {0}
                               /\ size(cloud, v) = cloud.neg[v] + cloud.pos[v]
         /\ \A v \in Objects : \A i \in 1..size(cloud, v) : entry(v, i) \in Entries
         /\ \A x \in Entries : /\ x[1] \in Objects /\ x[2] \in Int
                               /\ x[2] + 1 + cloud.neg[x[1]] \in 1..size(cloud, x[1])
                               /\ x = entry(x[1], x[2] + 1 + cloud.neg[x[1]])
<1>1. \A v \in Objects : v \in Vtbl /\ size(cloud, v) \in Nat \ {0}
                         /\ cloud.neg[v] \in Nat /\ cloud.pos[v] \in Nat \ {0}
                         /\ size(cloud, v) = cloud.neg[v] + cloud.pos[v]
  BY OrderAlignment, Metadata DEF Graph, Vtbl, Objects, size
<1>2. ASSUME NEW v \in Objects, NEW i \in 1..size(cloud, v)
      PROVE  entry(v, i) \in Entries
  <2>1. /\ cloud.neg[v] \in Nat /\ cloud.pos[v] \in Nat
        /\ size(cloud, v) = cloud.neg[v] + cloud.pos[v]
    BY <1>1
  <2>2. /\ i - 1 - cloud.neg[v] \in Int /\ -cloud.neg[v] <= i - 1 - cloud.neg[v]
        /\ i - 1 - cloud.neg[v] < cloud.pos[v]
    BY <2>1
  <2> QED
    BY <2>2 DEF entry, Entries
<1>3. ASSUME NEW x \in Entries
      PROVE  /\ x[1] \in Objects /\ x[2] \in Int
             /\ x[2] + 1 + cloud.neg[x[1]] \in 1..size(cloud, x[1])
             /\ x = entry(x[1], x[2] + 1 + cloud.neg[x[1]])
  <2>1. /\ x[1] \in Objects /\ x[2] \in Int /\ x = <<x[1], x[2]>>
        /\ -cloud.neg[x[1]] <= x[2] /\ x[2] < cloud.pos[x[1]]
    BY DEF Entries
  <2>2. /\ cloud.neg[x[1]] \in Nat /\ cloud.pos[x[1]] \in Nat
        /\ size(cloud, x[1]) = cloud.neg[x[1]] + cloud.pos[x[1]]
    BY <1>1, <2>1
  <2>3. x[2] + 1 + cloud.neg[x[1]] \in 1..size(cloud, x[1])
    BY <2>1, <2>2
  <2>4. (x[2] + 1 + cloud.neg[x[1]]) - 1 - cloud.neg[x[1]] = x[2]
    BY <2>1, <2>2
  <2> QED
    BY <2>1, <2>3, <2>4 DEF entry
<1> QED
  BY <1>1, <1>2, <1>3

(* There are no more entries than every vtable can have.                   *)
LEMMA EntriesFinite ==
  ASSUME Graph
  PROVE  /\ IsFiniteSet(Entries) /\ Cardinality(Entries) \in Nat
         /\ Cardinality(Entries) <= Cardinality(Vtbl) * (2 * orderAlignment(cloud))
<1> DEFINE A == orderAlignment(cloud)
           I == (-A)..(A - 1)
<1>1. A \in Nat \ {0}
  BY OrderAlignment DEF Graph
<1>2. IsFiniteSet(Vtbl) /\ Cardinality(Vtbl) \in Nat
  BY Metadata, FS_CardinalityType DEF Graph, Vtbl
<1>3. IsFiniteSet(I) /\ Cardinality(I) = 2 * A
  <2> HIDE DEF A
  <2>1. -A \in Int /\ A - 1 \in Int /\ ~(-A > A - 1) /\ (A - 1) - (-A) + 1 = 2 * A
    BY <1>1
  <2> QED
    BY <2>1, FS_Interval
<1>4. Entries \in SUBSET (Vtbl \X I)
  <2> SUFFICES ASSUME NEW x \in Entries
               PROVE  x \in Vtbl \X I
    OBVIOUS
  <2>1. x[1] \in Objects /\ x[1] \in Vtbl /\ x[2] \in Int /\ x = <<x[1], x[2]>>
        /\ -cloud.neg[x[1]] <= x[2] /\ x[2] < cloud.pos[x[1]]
    BY DEF Entries, Objects
  <2>2. /\ cloud.neg[x[1]] \in Nat /\ cloud.pos[x[1]] \in Nat
        /\ size(cloud, x[1]) = cloud.neg[x[1]] + cloud.pos[x[1]]
    BY <2>1, Entry
  <2>3. size(cloud, x[1]) <= A
    BY <2>1, OrderAlignment DEF Graph, Vtbl
  <2> HIDE DEF A
  <2>4. x[2] \in I
    BY <1>1, <2>1, <2>2, <2>3
  <2> QED
    BY <2>1, <2>4
<1> HIDE DEF I, A
<1>5. IsFiniteSet(Vtbl \X I) /\ Cardinality(Vtbl \X I) = Cardinality(Vtbl) * Cardinality(I)
  BY <1>2, <1>3, FS_Product
<1>6. IsFiniteSet(Entries) /\ Cardinality(Entries) <= Cardinality(Vtbl \X I)
  BY <1>4, <1>5, FS_Subset
<1> QED
  BY <1>3, <1>5, <1>6, FS_CardinalityType DEF A

(* The interleaved array holds every entry once, in the order of the       *)
(* rounds.                                                                 *)
LEMMA Interleaved ==
  ASSUME Graph, Unpadded, NEW f, f = interleaved(cloudOrder, prePadMap)
  PROVE  /\ f \in Seq(Entries) /\ Len(f) = Cardinality(Entries)
         /\ \A x \in Entries : \E n \in 1..Len(f) : f[n] = x
         /\ \A m, n \in 1..Len(f) : m < n <=> fillsBefore(cloudOrder, f[m], f[n])
         /\ \A n \in 1..Len(f) : f[n] \in Entries /\ Cardinality(ahead(f[n])) = n - 1
<1> DEFINE given == UNION {{v} \X ((-(cloud.neg[v] + prePadMap[v]))..(cloud.pos[v] - 1)) :
                             v \in Objects}
           S == Entries
           R == {p \in S \X S : fillsBefore(cloudOrder, p[1], p[2])}
           rank == [x \in S |-> Cardinality({y \in S : fillsBefore(cloudOrder, y, x)})]
           l == listing(S, ranks(R, S))
<1>1. given = S
  <2>1. ASSUME NEW v \in Objects
        PROVE  cloud.neg[v] + prePadMap[v] = cloud.neg[v] /\ cloud.neg[v] \in Nat
               /\ cloud.pos[v] \in Nat
    BY Entry DEF Unpadded, Objects
  <2>2. ASSUME NEW x \in given
        PROVE  x \in S
    <3>1. PICK v \in Objects :
            x \in {v} \X ((-(cloud.neg[v] + prePadMap[v]))..(cloud.pos[v] - 1))
      OBVIOUS
    <3>2. /\ x = <<v, x[2]>> /\ x[2] \in (-cloud.neg[v])..(cloud.pos[v] - 1)
      BY <2>1, <3>1
    <3>3. x[2] \in Int /\ -cloud.neg[v] <= x[2] /\ x[2] < cloud.pos[v]
      BY <2>1, <3>2
    <3> QED
      BY <3>2, <3>3 DEF Entries
  <2>3. ASSUME NEW x \in S
        PROVE  x \in given
    <3>1. /\ x[1] \in Objects /\ x[2] \in Int /\ x = <<x[1], x[2]>>
          /\ -cloud.neg[x[1]] <= x[2] /\ x[2] < cloud.pos[x[1]]
      BY DEF Entries
    <3>2. x[2] \in (-(cloud.neg[x[1]] + prePadMap[x[1]]))..(cloud.pos[x[1]] - 1)
      BY <2>1, <3>1
    <3> QED
      BY <3>1, <3>2
  <2> QED
    BY <2>2, <2>3
<1>2. interleaved(cloudOrder, prePadMap) = listing(given, [x \in given |->
          Cardinality({y \in given : fillsBefore(cloudOrder, y, x)})])
  BY DEF interleaved, inOrder, listing
<1> HIDE DEF given
<1>3. f = listing(S, rank)
  BY <1>1, <1>2
<1>4. \A x, y \in S : <<x, y>> \in R <=> fillsBefore(cloudOrder, x, y)
  OBVIOUS
<1>5. \A x \in S : lower(R, S, x) = ahead(x)
  BY <1>4 DEF ahead, lower
<1>6. rank = ranks(R, S)
  BY <1>5 DEF ranks, ahead, lower
<1> HIDE DEF R, rank
<1>7. f = l
  BY <1>3, <1>6
<1>8. \A v \in Objects : indexIn(cloudOrder, v) \in Nat
  <2>1. \A v \in Objects : v \in Vtbl
    BY Entry
  <2> QED
    BY <2>1, CloudOrder
<1>9. \A v, w \in Objects : indexIn(cloudOrder, v) = indexIn(cloudOrder, w) => v = w
  <2>1. \A v \in Objects : v \in Vtbl
    BY Entry
  <2> QED
    BY <2>1, CloudOrder
<1>10. \A x \in S : x[1] \in Objects /\ x[2] \in Int /\ x = <<x[1], x[2]>>
  BY DEF Entries
<1>11. strictOrder(R, S)
  <2>1. \A x, y \in S : x # y => <<x, y>> \in R \/ <<y, x>> \in R
    <3> SUFFICES ASSUME NEW x \in S, NEW y \in S, x # y
                 PROVE  fillsBefore(cloudOrder, x, y) \/ fillsBefore(cloudOrder, y, x)
      BY <1>4
    <3>1. x[2] # y[2] \/ (x[2] = y[2] /\ indexIn(cloudOrder, x[1]) # indexIn(cloudOrder, y[1]))
      BY <1>9, <1>10
    <3>2. /\ x[2] \in Int /\ y[2] \in Int
          /\ indexIn(cloudOrder, x[1]) \in Nat /\ indexIn(cloudOrder, y[1]) \in Nat
      BY <1>8, <1>10
    <3> QED
      BY <3>1, <3>2 DEF fillsBefore
  <2>2. \A x \in S : <<x, x>> \notin R
    <3> SUFFICES ASSUME NEW x \in S, fillsBefore(cloudOrder, x, x)
                 PROVE  FALSE
      BY <1>4
    <3>1. x[2] \in Int /\ indexIn(cloudOrder, x[1]) \in Nat
      BY <1>8, <1>10
    <3> QED
      BY <3>1 DEF fillsBefore
  <2>3. \A x, y, z \in S : <<x, y>> \in R /\ <<y, z>> \in R => <<x, z>> \in R
    <3> SUFFICES ASSUME NEW x \in S, NEW y \in S, NEW z \in S,
                        fillsBefore(cloudOrder, x, y), fillsBefore(cloudOrder, y, z)
                 PROVE  fillsBefore(cloudOrder, x, z)
      BY <1>4
    <3>1. /\ x[2] \in Int /\ y[2] \in Int /\ z[2] \in Int
          /\ indexIn(cloudOrder, x[1]) \in Nat /\ indexIn(cloudOrder, y[1]) \in Nat
          /\ indexIn(cloudOrder, z[1]) \in Nat
      BY <1>8, <1>10
    <3> QED
      BY <3>1 DEF fillsBefore
  <2> QED
    BY <2>1, <2>2, <2>3 DEF strictOrder
<1>12. IsFiniteSet(S)
  BY EntriesFinite
<1>13. l = listing(S, ranks(R, S))
  OBVIOUS
<1> HIDE DEF l, S
<1>14. /\ Cardinality(S) \in Nat
       /\ l \in Seq(S) /\ Len(l) = Cardinality(S)
       /\ \A x \in S : \E n \in 1..Len(l) : l[n] = x
       /\ \A m, n \in 1..Len(l) : m < n <=> <<l[m], l[n]>> \in R
       /\ \A n \in 1..Len(l) : Cardinality(lower(R, S, l[n])) = n - 1
  BY SMTT(30), <1>11, <1>12, <1>13, InOrder
<1>15. \A n \in 1..Len(l) : l[n] \in S
  BY <1>14, Members
<1>16. \A n \in 1..Len(l) : Cardinality(ahead(l[n])) = n - 1
  BY <1>5, <1>14, <1>15
<1>17. \A m, n \in 1..Len(l) : m < n <=> fillsBefore(cloudOrder, l[m], l[n])
  BY <1>4, <1>14, <1>15
<1> QED
  BY <1>7, <1>14, <1>15, <1>16, <1>17 DEF S


(* the defined vtables from f to the one before o in the pre-order         *)
between(f, o) ==
  {u \in Objects : /\ indexIn(cloudOrder, f) <= indexIn(cloudOrder, u)
                   /\ indexIn(cloudOrder, u) < indexIn(cloudOrder, o)}

has(v, e) == e \in Int /\ -cloud.neg[v] <= e /\ e < cloud.pos[v]

(* The vtables of a cloud are finitely many, and have different positions  *)
(* in the pre-order.                                                       *)
LEMMA ObjectsFinite ==
  ASSUME Graph
  PROVE  /\ Objects \in SUBSET Vtbl /\ IsFiniteSet(Vtbl) /\ IsFiniteSet(Objects)
         /\ Cardinality(Objects) \in Nat /\ Cardinality(Vtbl) \in Nat
         /\ Cardinality(Objects) <= Cardinality(Vtbl)
         /\ \A v \in Objects : indexIn(cloudOrder, v) \in Nat
         /\ \A v, w \in Vtbl : indexIn(cloudOrder, v) = indexIn(cloudOrder, w) => v = w
<1>1. Objects \in SUBSET Vtbl /\ IsFiniteSet(Vtbl)
  BY Metadata DEF Graph, Vtbl, Objects
<1>2. \A v \in Vtbl : indexIn(cloudOrder, v) \in Nat /\ cloudOrder[indexIn(cloudOrder, v)] = v
  BY CloudOrder
<1> QED
  BY <1>1, <1>2, FS_Subset, FS_CardinalityType

(* The vtables between two in the pre-order are finitely many.             *)
LEMMA BetweenFinite ==
  ASSUME Graph, NEW f \in Objects, NEW o \in Objects
  PROVE  /\ between(f, o) \in SUBSET Objects /\ IsFiniteSet(between(f, o))
         /\ Cardinality(between(f, o)) \in Nat
         /\ Cardinality(between(f, o)) <= Cardinality(Objects)
<1>1. between(f, o) \in SUBSET Objects
  BY DEF between
<1> QED
  BY <1>1, ObjectsFinite, FS_Subset, FS_CardinalityType

(* The entries before one are finitely many.                               *)
LEMMA AheadFinite ==
  ASSUME Graph, NEW x
  PROVE  /\ IsFiniteSet(ahead(x)) /\ Cardinality(ahead(x)) \in Nat
         /\ Cardinality(ahead(x)) <= Cardinality(Entries)
<1>1. ahead(x) \in SUBSET Entries
  BY DEF ahead
<1> QED
  BY <1>1, EntriesFinite, FS_Subset, FS_CardinalityType

(* Where two vtables and all between them have an entry, those of the ones *)
(* from the first to the last are all that stand between their entries.    *)
LEMMA AheadApart ==
  ASSUME Graph, NEW f \in Objects, NEW o \in Objects,
         indexIn(cloudOrder, f) <= indexIn(cloudOrder, o),
         NEW e, has(f, e), \A u \in between(f, o) : has(u, e)
  PROVE  Cardinality(ahead(<<o, e>>)) = Cardinality(ahead(<<f, e>>)) + Cardinality(between(f, o))
<1> DEFINE B == between(f, o)
           T == {<<u, e>> : u \in B}
           A == ahead(<<f, e>>)
<1>0. /\ \A v \in Objects : indexIn(cloudOrder, v) \in Nat
      /\ \A v, w \in Objects : indexIn(cloudOrder, v) = indexIn(cloudOrder, w) => v = w
  BY ObjectsFinite
<1>1. e \in Int
  BY DEF has
<1>2. \A u \in B : u \in Objects /\ <<u, e>> \in Entries
  BY <1>1 DEF between, has, Entries
<1>3. T \in SUBSET Entries
  BY <1>2
<1>4. ASSUME NEW y \in Entries
      PROVE  y \in ahead(<<o, e>>) <=> y \in A \/ y \in T
  <2>1. y[1] \in Objects /\ y[2] \in Int /\ y = <<y[1], y[2]>>
    BY Entry DEF Entries
  <2> DEFINE i == indexIn(cloudOrder, y[1])
             j == indexIn(cloudOrder, f)
             k == indexIn(cloudOrder, o)
  <2>2. y \in ahead(<<o, e>>) <=> y[2] < e \/ (y[2] = e /\ i < k)
    BY DEF ahead, fillsBefore
  <2>3. y \in A <=> y[2] < e \/ (y[2] = e /\ i < j)
    BY DEF ahead, fillsBefore
  <2>4. y \in T <=> y[2] = e /\ j <= i /\ i < k
    <3>1. y \in T <=> y[2] = e /\ y[1] \in B
      BY <2>1
    <3> QED
      BY <2>1, <3>1 DEF between
  <2>5. i \in Nat /\ j \in Nat /\ k \in Nat /\ j <= k
    BY <1>0, <2>1
  <2> HIDE DEF i, j, k, A, T
  <2> QED
    BY <1>1, <2>1, <2>2, <2>3, <2>4, <2>5
<1>5. A \cap T = {}
  <2> SUFFICES ASSUME NEW u \in B, <<u, e>> \in A
               PROVE  FALSE
    OBVIOUS
  <2>1. indexIn(cloudOrder, f) <= indexIn(cloudOrder, u) /\ u \in Objects
    BY DEF between
  <2>2. e < e \/ indexIn(cloudOrder, u) < indexIn(cloudOrder, f)
    BY DEF ahead, fillsBefore
  <2> QED
    BY <1>0, <1>1, <2>1, <2>2
<1>6. ahead(<<o, e>>) = A \cup T
  <2>1. ahead(<<o, e>>) \in SUBSET Entries /\ A \in SUBSET Entries
    BY DEF ahead
  <2> HIDE DEF A, T
  <2> QED
    BY <1>3, <1>4, <2>1
<1>7. IsFiniteSet(B) /\ Cardinality(B) \in Nat
  BY BetweenFinite
<1>8. IsFiniteSet(T) /\ Cardinality(T) = Cardinality(B)
  <2> DEFINE h == [u \in B |-> <<u, e>>]
  <2>1. h \in Injection(B, T) /\ h \in Surjection(B, T)
    BY DEF Injection, IsInjective, Surjection
  <2>2. ExistsBijection(B, T)
    BY <2>1 DEF ExistsBijection, Bijection
  <2>3. IsFiniteSet(T)
    <3> HIDE DEF T, h, B
    <3> QED
      BY <1>7, <2>1, FS_Surjection
  <2> HIDE DEF T, B, h
  <2> QED
    BY <1>7, <2>1, <2>3, FS_Surjection, FS_Injection, FS_SameCardinalityBij
<1>9. IsFiniteSet(A) /\ Cardinality(A) \in Nat
  BY AheadFinite
<1> HIDE DEF A, B, T
<1>10. Cardinality(A \cup T) = Cardinality(A) + Cardinality(T) - Cardinality(A \cap T)
  BY <1>8, <1>9, FS_Union
<1>11. Cardinality(A \cap T) = 0
  BY <1>5, FS_EmptySet
<1>12. Cardinality(ahead(<<o, e>>)) = Cardinality(A) + Cardinality(B)
  <2>1. Cardinality(A \cup T) = Cardinality(A) + Cardinality(B)
    BY <1>7, <1>8, <1>9, <1>10, <1>11
  <2> QED
    BY <1>6, <2>1
<1> QED
  BY <1>12 DEF A, B

aheadOf(v) == [i \in 1..size(cloud, v) |-> Cardinality(ahead(entry(v, i)))]

(* In the interleaved array the entries of a vtable lie in order.          *)
LEMMA InterleavedPlaced ==
  ASSUME Graph, Unpadded, NEW v \in Objects
  PROVE  /\ interleaved(cloudOrder, prePadMap) \in Seq(Entries)
         /\ placed(interleaved(cloudOrder, prePadMap), v, aheadOf(v))
<1> DEFINE f == interleaved(cloudOrder, prePadMap)
           n == size(cloud, v)
           g == aheadOf(v)
<1>1. /\ f \in Seq(Entries) /\ Len(f) = Cardinality(Entries)
      /\ \A x \in Entries : \E m \in 1..Len(f) : f[m] = x
      /\ \A k, m \in 1..Len(f) : k < m <=> fillsBefore(cloudOrder, f[k], f[m])
      /\ \A m \in 1..Len(f) : f[m] \in Entries /\ Cardinality(ahead(f[m])) = m - 1
  BY Interleaved
<1> HIDE DEF f
<1>2. n \in Nat
  BY Entry
<1>3. g \in [1..n -> Nat]
  BY AheadFinite DEF aheadOf
<1>a. \A i \in 1..n : g[i] = Cardinality(ahead(entry(v, i))) /\ entry(v, i) \in Entries
  BY Entry DEF aheadOf
<1>4. ASSUME NEW i \in 1..n
      PROVE  g[i] + 1 \in 1..Len(f) /\ f[g[i] + 1] = entry(v, i)
  <2>1. PICK m \in 1..Len(f) : f[m] = entry(v, i)
    BY <1>1, <1>a
  <2>2. g[i] = m - 1
    BY <1>1, <1>a, <2>1
  <2>3. m \in Int
    OBVIOUS
  <2>4. g[i] + 1 = m
    BY <2>2, <2>3
  <2> QED
    BY <2>1, <2>4
<1>5. ASSUME NEW i \in 1..n, NEW j \in 1..n, i < j
      PROVE  g[i] < g[j]
  <2>1. cloud.neg[v] \in Nat
    BY Entry
  <2>2. entry(v, i)[2] < entry(v, j)[2]
    BY <1>2, <1>5, <2>1 DEF entry
  <2>3. fillsBefore(cloudOrder, entry(v, i), entry(v, j))
    BY <2>2 DEF fillsBefore
  <2>4. /\ g[i] + 1 \in 1..Len(f) /\ f[g[i] + 1] = entry(v, i)
        /\ g[j] + 1 \in 1..Len(f) /\ f[g[j] + 1] = entry(v, j)
    BY <1>4
  <2>5. g[i] + 1 < g[j] + 1
    BY <1>1, <2>3, <2>4
  <2>6. g[i] \in Nat /\ g[j] \in Nat
    BY <1>3
  <2> QED
    BY <2>5, <2>6
<1>6. ASSUME NEW k \in 1..Len(f), f[k][1] = v
      PROVE  \E i \in 1..n : k = g[i] + 1
  <2>1. f[k] \in Entries /\ Cardinality(ahead(f[k])) = k - 1
    BY <1>1
  <2>2. PICK i \in 1..n : f[k] = entry(v, i)
    BY <1>6, <2>1, Entry
  <2>3. g[i] = k - 1
    BY <1>a, <2>1, <2>2
  <2>4. k \in Int
    OBVIOUS
  <2>5. k = g[i] + 1
    BY <2>3, <2>4
  <2> QED
    BY <2>5
<1>7. placed(f, v, g)
  <2> HIDE DEF g
  <2> QED
    BY <1>3, <1>4, <1>5, <1>6 DEF placed
<1> QED
  BY <1>1, <1>7 DEF f

-----------------------------------------------------------------------------
(* The ordered layout.                                                     *)

(* Padding up to the next multiple of the alignment.                       *)
LEMMA RoundUp ==
  ASSUME NEW x \in Nat, NEW a \in Nat \ {0}
  PROVE  /\ (-x) % a \in 0..(a - 1)
         /\ \E q \in Nat : x + ((-x) % a) = q * a
<1> DEFINE d == (-x) \div a
           r == (-x) % a
<1>1. d \in Int /\ r \in 0..(a - 1) /\ -x = d * a + r
  OBVIOUS
<1> HIDE DEF d, r
<1>2. x + r = (-d) * a
  BY <1>1
<1>3. -d \in Nat
  <2> SUFFICES ASSUME d >= 1
               PROVE  FALSE
    BY <1>1
  <2>1. d * a >= a
    BY <1>1
  <2> QED
    BY <1>1, <2>1
<1> QED
  BY <1>1, <1>2, <1>3 DEF r

dummies(list, v, align) == [k \in 1..((-(Len(list) + cloud.neg[v])) % align) |-> <<Dummy, 0>>]
entriesOf(v) == [k \in 1..size(cloud, v) |-> <<v, k - 1 - cloud.neg[v]>>]
puts(align) ==
  [v \in Objects |-> [list \in Seq(Nat \X Int) |-> list \o dummies(list, v, align) \o entriesOf(v)]]

(* A round puts the address point of v at the multiple q of the alignment. *)
rounded(v, list, r, a, q) ==
  /\ q \in Nat /\ Len(list) + cloud.neg[v] <= q * a /\ q * a < Len(list) + cloud.neg[v] + a
  /\ r \in Seq(Nat \X Int) /\ Len(r) = q * a + cloud.pos[v] /\ begins(list, r)
  /\ \A i \in 1..size(cloud, v) : r[q * a - cloud.neg[v] + i] = entry(v, i)
  /\ \A k \in 1..Len(r) : Len(list) < k /\ k <= q * a - cloud.neg[v] => r[k][1] = Dummy

(* Where dummies and entries lie after one round of the ordered layout.    *)
LEMMA RoundArithmetic ==
  ASSUME NEW l \in Nat, NEW d \in Nat, NEW a \in Nat, NEW st \in Nat, NEW neg \in Nat,
         NEW pos \in Nat, NEW n \in Nat, NEW len,
         d < a, n = neg + pos, st = l + neg + d, len = l + d + n
  PROVE  /\ len = st + pos /\ l <= len
         /\ \A k \in 1..len : l < k /\ k <= st - neg =>
              /\ k \in 1..(l + d) /\ k \in 1..(l + d + n) /\ k <= l + d /\ ~(k <= l)
              /\ k - l \in 1..d
  OBVIOUS

(* A round of the ordered layout puts an address point at a multiple of    *)
(* the alignment.                                                          *)
LEMMA Round ==
  ASSUME Graph, NEW v \in Objects, NEW list \in Seq(Nat \X Int), NEW a \in Nat \ {0}
  PROVE  \E q : rounded(v, list, puts(a)[v][list], a, q)
<1> DEFINE x == Len(list) + cloud.neg[v]
           D == dummies(list, v, a)
           E == entriesOf(v)
           d == (-x) % a
           n == size(cloud, v)
           r == list \o D \o E
<1>1. /\ Len(list) \in Nat /\ cloud.neg[v] \in Nat /\ cloud.pos[v] \in Nat /\ v \in Nat
      /\ n = cloud.neg[v] + cloud.pos[v] /\ n \in Nat
  <2>1. v \in Vtbl /\ Vtbl \in SUBSET Nat
    BY Entry, Metadata DEF Graph, Vtbl
  <2>2. v \in Nat
    BY <2>1
  <2> QED
    BY <2>2, Entry, LenProperties
<1>2. x \in Nat
  BY <1>1
<1>3. d \in 0..(a - 1) /\ \E q \in Nat : x + d = q * a
  <2> HIDE DEF x
  <2> QED
    BY <1>2, RoundUp
<1>4. PICK q \in Nat : x + d = q * a
  BY <1>3
<1>5. puts(a)[v][list] = r
  BY DEF puts
<1>6. D \in Seq(Nat \X Int) /\ Len(D) = d /\ \A k \in 1..d : D[k] = <<Dummy, 0>>
  <2>1. D = [k \in 1..d |-> <<Dummy, 0>>]
    BY DEF dummies
  <2>2. d \in Nat
    BY <1>3
  <2> HIDE DEF d, D
  <2> QED
    BY <2>1, <2>2 DEF Dummy
<1>7. E \in Seq(Nat \X Int) /\ Len(E) = n /\ \A k \in 1..n : E[k] = entry(v, k)
  <2>1. E = [k \in 1..n |-> <<v, k - 1 - cloud.neg[v]>>]
    BY DEF entriesOf
  <2> HIDE DEF n, E
  <2> QED
    <3>1. \A k \in 1..n : k - 1 - cloud.neg[v] \in Int
      BY <1>1
    <3>2. \A k \in 1..n : <<v, k - 1 - cloud.neg[v]>> \in Nat \X Int
      BY <1>1, <3>1
    <3>3. E \in [1..n -> Nat \X Int]
      BY <2>1, <3>2
    <3>4. E \in Seq(Nat \X Int) /\ Len(E) = n
      <4>1. n \in Nat
        BY <1>1
      <4> QED
        BY <3>3, <4>1
    <3> QED
      BY <2>1, <3>4 DEF entry
<1>8. d \in Nat /\ d < a
  BY <1>3
<1> HIDE DEF D, E, d, n
<1> DEFINE l == Len(list)
<1> DEFINE LD == list \o D
<1>9. /\ LD \in Seq(Nat \X Int) /\ Len(LD) = l + d
      /\ \A k \in 1..(l + d) : LD[k] = IF k <= l THEN list[k] ELSE D[k - l]
  BY <1>6, ConcatProperties
<1>a. r = LD \o E
  OBVIOUS
<1> HIDE DEF r, LD
<1>10. /\ r \in Seq(Nat \X Int) /\ Len(r) = l + d + n
       /\ \A k \in 1..(l + d + n) : r[k] = IF k <= l + d THEN LD[k] ELSE E[k - (l + d)]
  BY <1>7, <1>9, <1>a, ConcatProperties
<1>b. Len(r) = l + d + n
  BY <1>10
<1> DEFINE st == q * a
<1>11. st \in Nat /\ l \in Nat /\ st = l + cloud.neg[v] + d
  BY <1>1, <1>2, <1>4, <1>8
<1> HIDE DEF st, l
<1>c. /\ l \in Nat /\ d \in Nat /\ d < a /\ st \in Nat /\ cloud.neg[v] \in Nat
      /\ cloud.pos[v] \in Nat /\ n = cloud.neg[v] + cloud.pos[v]
      /\ st = l + cloud.neg[v] + d /\ Len(r) = l + d + n
  BY <1>1, <1>8, <1>11, <1>b
<1>d. /\ Len(r) = st + cloud.pos[v] /\ l <= Len(r)
      /\ \A k \in 1..Len(r) : l < k /\ k <= st - cloud.neg[v] =>
           /\ k \in 1..(l + d) /\ k \in 1..(l + d + n) /\ k <= l + d /\ ~(k <= l)
           /\ k - l \in 1..d
  <2>1. n \in Nat /\ a \in Nat
    BY <1>1
  <2> DEFINE len == Len(r)
             neg == cloud.neg[v]
             pos == cloud.pos[v]
  <2>2. /\ l \in Nat /\ d \in Nat /\ a \in Nat /\ st \in Nat /\ neg \in Nat
        /\ pos \in Nat /\ n \in Nat
        /\ d < a /\ n = neg + pos /\ st = l + neg + d /\ len = l + d + n
    BY <1>c, <2>1
  <2> HIDE DEF len, neg, pos
  <2>3. /\ len = st + pos /\ l <= len
        /\ \A k \in 1..len : l < k /\ k <= st - neg =>
              /\ k \in 1..(l + d) /\ k \in 1..(l + d + n) /\ k <= l + d /\ ~(k <= l)
              /\ k - l \in 1..d
    BY <2>2, RoundArithmetic
  <2> QED
    BY <2>3 DEF len, neg, pos
<1>12. Len(r) = st + cloud.pos[v]
  BY <1>d
<1>13. ASSUME NEW k \in 1..l
       PROVE  r[k] = list[k] /\ l <= Len(r)
  <2>1. /\ k \in 1..(l + d) /\ k \in 1..(l + d + n) /\ k <= l + d /\ k <= l
        /\ l <= l + d + n
    BY SMTT(30), <1>1, <1>8, <1>11
  <2> QED
    BY <1>9, <1>10, <2>1
<1>14. begins(list, r)
  <2>1. l <= Len(r)
    BY <1>d
  <2> QED
    BY <1>13, <2>1 DEF begins, l
<1>15. ASSUME NEW i \in 1..n
       PROVE  r[st - cloud.neg[v] + i] = entry(v, i)
  <2>1. st - cloud.neg[v] + i = l + d + i
    BY SMTT(30), <1>1, <1>8, <1>11
  <2>2. /\ l + d + i \in 1..(l + d + n) /\ ~(l + d + i <= l + d)
        /\ (l + d + i) - (l + d) = i
    BY <1>1, <1>8, <1>11
  <2> QED
    BY <1>7, <1>10, <2>1, <2>2
<1>16. ASSUME NEW k \in 1..Len(r), l < k, k <= st - cloud.neg[v]
       PROVE  r[k][1] = Dummy
  <2>1. /\ k \in 1..(l + d) /\ k \in 1..(l + d + n) /\ k <= l + d /\ ~(k <= l)
        /\ k - l \in 1..d
    BY <1>d, <1>16
  <2>2. r[k] = D[k - l]
    BY <1>9, <1>10, <2>1
  <2>3. D[k - l] = <<Dummy, 0>>
    BY <1>6, <2>1
  <2> QED
    BY <2>2, <2>3
<1>17. l + cloud.neg[v] <= st /\ st < l + cloud.neg[v] + a
  BY SMTT(30), <1>1, <1>8, <1>11
<1>18. rounded(v, list, r, a, q)
  BY <1>10, <1>12, <1>14, <1>15, <1>16, <1>17 DEF rounded, st, l, n
<1> QED
  BY <1>5, <1>18 DEF r


definedOrder == only(cloudOrder, Objects)

(* The defined vtables in pre-order, each once.                            *)
LEMMA DefinedOrder ==
  ASSUME Graph, NEW s, s = definedOrder
  PROVE  /\ s \in Seq(Objects) /\ Len(s) \in Nat /\ Len(s) = Cardinality(Objects)
         /\ \A u \in Objects : \E j \in 1..Len(s) : s[j] = u
         /\ \A j \in 1..Len(s) : s[j] \in Objects
         /\ \A j, k \in 1..Len(s) :
              /\ s[j] = s[k] => j = k
              /\ j < k <=> indexIn(cloudOrder, s[j]) < indexIn(cloudOrder, s[k])
         /\ \A j, k \in 1..Len(s) : j <= k => Cardinality(between(s[j], s[k])) = k - j
<1> DEFINE pre == cloudOrder
           kept == keptOf(pre, Objects)
           n == Len(s)
<1>1. /\ pre \in Seq(Vtbl) /\ Range(pre) = Vtbl
      /\ \A i \in 1..Len(pre) : indexIn(pre, pre[i]) = i
  BY CloudOrder
<1>2. /\ Objects \in SUBSET Vtbl
      /\ \A u \in Objects : indexIn(pre, u) \in Nat
  BY ObjectsFinite
<1>3. /\ \A m, k \in 1..Len(kept) : m < k <=> kept[m] < kept[k]
      /\ s \in Seq(Vtbl \cap Objects) /\ Len(s) = Len(kept)
      /\ \A k \in 1..Len(kept) : /\ kept[k] \in 1..Len(pre)
                                 /\ s[k] = pre[kept[k]]
                                 /\ s[k] \in Objects
      /\ \A x : x \in Range(s) <=> x \in Range(pre) /\ x \in Objects
  <2> DEFINE P == pre
             S == Objects
             X == Vtbl
  <2>1. P \in Seq(X)
    BY <1>1
  <2> HIDE DEF P, S, X
  <2>2. selects(X, P, S, keptOf(P, S), only(P, S))
    BY <2>1, Only
  <2>3. selects(X, P, S, kept, s)
    BY <2>2 DEF P, S, definedOrder
  <2> QED
    BY <2>3 DEF P, S, X, selects
<1> HIDE DEF kept
<1>4. s \in Seq(Objects) /\ n \in Nat /\ \A j \in 1..n : s[j] \in Objects
  <2>1. Vtbl \cap Objects = Objects
    BY <1>2
  <2> QED
    BY <1>3, <2>1, Members
<1>5. \A u \in Objects : \E j \in 1..n : s[j] = u
  BY <1>1, <1>2, <1>3, <1>4, Members
<1>6. \A k \in 1..n : indexIn(pre, s[k]) = kept[k]
  BY <1>1, <1>3
<1>7. \A j, k \in 1..n : j < k <=> indexIn(pre, s[j]) < indexIn(pre, s[k])
  BY <1>3, <1>6
<1>8. ASSUME NEW j \in 1..n, NEW k \in 1..n, s[j] = s[k]
      PROVE  j = k
  <2>1. indexIn(pre, s[j]) \in Nat
    BY <1>2, <1>4
  <2>2. ~(j < k) /\ ~(k < j)
    BY <1>7, <1>8, <2>1
  <2>3. j \in Int /\ k \in Int
    OBVIOUS
  <2> QED
    BY <2>2, <2>3
<1>9. n = Cardinality(Objects)
  <2> DEFINE I == 1..n
             O == Objects
             h == [i \in I |-> s[i]]
  <2>a. h \in [I -> O] /\ \A i, j \in I : h[i] = h[j] => i = j
    BY <1>4, <1>8
  <2>b. \A u \in O : \E i \in I : h[i] = u
    BY <1>5
  <2>1. h \in Injection(I, O) /\ h \in Surjection(I, O)
    BY <2>a, <2>b DEF Injection, IsInjective, Surjection
  <2>2. ExistsBijection(I, O)
    BY <2>1 DEF ExistsBijection, Bijection
  <2>3. IsFiniteSet(O)
    BY ObjectsFinite
  <2> HIDE DEF O, h
  <2>4. Cardinality(O) = n
    BY <1>4, <2>2, <2>3, FS_CountingElements
  <2> QED
    BY <2>4 DEF O
<1>10. ASSUME NEW j \in 1..n, NEW k \in 1..n, j <= k
       PROVE  Cardinality(between(s[j], s[k])) = k - j
  <2> DEFINE I == j..(k - 1)
             B == between(s[j], s[k])
             h == [i \in I |-> s[i]]
  <2>1. ASSUME NEW i \in I
        PROVE  i \in 1..n /\ s[i] \in B
    <3>1. i \in 1..n /\ i < k /\ ~(i < j)
      BY <1>4, <1>10
    <3>2. indexIn(pre, s[i]) < indexIn(pre, s[k]) /\ ~(indexIn(pre, s[i]) < indexIn(pre, s[j]))
      BY <1>7, <3>1
    <3>3. indexIn(pre, s[i]) \in Nat /\ indexIn(pre, s[j]) \in Nat
      BY <1>2, <1>4, <3>1
    <3>4. indexIn(pre, s[j]) <= indexIn(pre, s[i])
      BY <3>2, <3>3
    <3> QED
      BY <1>4, <3>1, <3>2, <3>4 DEF between
  <2>2. ASSUME NEW u \in B
        PROVE  \E i \in I : s[i] = u
    <3>1. u \in Objects /\ indexIn(pre, s[j]) <= indexIn(pre, u)
          /\ indexIn(pre, u) < indexIn(pre, s[k])
      BY DEF between
    <3>2. PICK i \in 1..n : s[i] = u
      BY <1>5, <3>1
    <3>3. i < k
      BY <1>7, <3>1, <3>2
    <3>4. ~(indexIn(pre, s[i]) < indexIn(pre, s[j]))
      <4>1. indexIn(pre, s[i]) \in Nat /\ indexIn(pre, s[j]) \in Nat
        BY <1>2, <1>4
      <4> QED
        BY <3>1, <3>2, <4>1
    <3>5. ~(i < j)
      BY <1>7, <3>4
    <3>6. i \in I
      BY <3>3, <3>5
    <3> QED
      BY <3>2, <3>6
  <2>3. h \in Injection(I, B) /\ h \in Surjection(I, B)
    BY <1>8, <2>1, <2>2 DEF Injection, IsInjective, Surjection
  <2>4. ExistsBijection(I, B)
    BY <2>3 DEF ExistsBijection, Bijection
  <2>5. j \in Int /\ k - 1 \in Int /\ j \in Nat /\ k \in Nat
    BY <1>4
  <2>6. IsFiniteSet(I) /\ Cardinality(I) = k - j
    <3>1. IsFiniteSet(I) /\ Cardinality(I) = IF j > k - 1 THEN 0 ELSE (k - 1) - j + 1
      BY <2>5, FS_Interval
    <3> HIDE DEF I
    <3> QED
      BY <1>10, <2>5, <3>1
  <2>7. IsFiniteSet(B)
    BY <1>4, BetweenFinite
  <2> HIDE DEF I, B, h
  <2>8. Cardinality(I) = Cardinality(B)
    BY <2>4, <2>6, <2>7, FS_SameCardinalityBij, FS_Bijection
  <2> QED
    BY <2>6, <2>8 DEF B
<1>11. \A j, k \in 1..n :
         /\ s[j] = s[k] => j = k
         /\ j < k <=> indexIn(pre, s[j]) < indexIn(pre, s[k])
  BY <1>7, <1>8
<1>12. \A j, k \in 1..n : j <= k => Cardinality(between(s[j], s[k])) = k - j
  BY <1>10
<1> QED
  BY <1>4, <1>5, <1>9, <1>11, <1>12

(* Multiples of the alignment that are less than one, two or three apart.  *)
LEMMA Multiples ==
  ASSUME NEW a \in Nat \ {0}, NEW q \in Nat, NEW r \in Nat
  PROVE  /\ q * a < r * a => q + 1 <= r
         /\ r * a < q * a + (2 * a) => r <= q + 1
         /\ r * a < q * a + (3 * a) => r <= q + 2
         /\ r * a < 2 * a => r <= 1
<1>1. r <= q => r * a <= q * a
  BY TimesMonotonic
<1>2. q + 2 <= r => (q + 2) * a <= r * a
  <2>1. q + 2 \in Nat /\ a \in Nat
    OBVIOUS
  <2> QED
    BY <2>1, TimesMonotonic
<1>3. q + 3 <= r => (q + 3) * a <= r * a
  <2>1. q + 3 \in Nat /\ a \in Nat
    OBVIOUS
  <2> QED
    BY <2>1, TimesMonotonic
<1>4. 2 <= r => 2 * a <= r * a
  <2>1. 2 \in Nat /\ a \in Nat
    OBVIOUS
  <2> QED
    BY <2>1, TimesMonotonic
<1>5. (q + 2) * a = q * a + (2 * a) /\ (q + 3) * a = q * a + (3 * a)
  OBVIOUS
<1> DEFINE x == q * a
           y == r * a
<1>6. x \in Nat /\ y \in Nat
  OBVIOUS
<1> HIDE DEF x, y
<1> QED
  BY <1>1, <1>2, <1>3, <1>4, <1>5, <1>6 DEF x, y


(* the multiples of the alignment that the address points are at           *)
strides(n, q) ==
  /\ q \in [1..n -> Nat] /\ (n >= 1 => q[1] <= 1)
  /\ \A j \in 1..(n - 1) : /\ q[j] + 1 <= q[j + 1] /\ q[j + 1] <= q[j] + 2
                           /\ SamePrefix => q[j + 1] <= q[j] + 1

(* where entry m of the vtable j of s is: one after its index              *)
spot(s, q, a, j, m) == q[j] * a - cloud.neg[s[j]] + m

(* f has the entries of the vtables of s at their spots, and padding       *)
(* elsewhere.                                                              *)
spaced(s, f, a, q) ==
  /\ strides(Len(s), q)
  /\ \A j \in 1..Len(s) : \A m \in 1..size(cloud, s[j]) :
       /\ spot(s, q, a, j, m) \in 1..Len(f)
       /\ f[spot(s, q, a, j, m)] = entry(s[j], m)
  /\ \A k \in 1..Len(f) :
       \/ f[k][1] = Dummy
       \/ \E j \in 1..Len(s) : \E m \in 1..size(cloud, s[j]) : k = spot(s, q, a, j, m)
  /\ \A j \in 1..Len(s) : cloud.neg[s[j]] <= q[j] * a

(* The next address point lies one or two alignments further, and one      *)
(* where both vtables fit between.                                         *)
LEMMA Gap ==
  ASSUME NEW a \in Nat \ {0}, NEW q \in Nat, NEW r \in Nat,
         NEW pos \in Nat \ {0}, NEW neg \in Nat, pos <= a, neg < a,
         q * a + pos + neg <= r * a, r * a < q * a + pos + neg + a
  PROVE  /\ q + 1 <= r /\ r <= q + 2
         /\ pos + neg <= a => r <= q + 1
<1> DEFINE x == q * a
           y == r * a
           d == 2 * a
           t == 3 * a
<1>1. x \in Nat /\ y \in Nat /\ d = a + a /\ t = a + a + a
  OBVIOUS
<1>2. x + pos + neg <= y /\ y < x + pos + neg + a
  OBVIOUS
<1>3. /\ x < y => q + 1 <= r
      /\ y < x + d => r <= q + 1
      /\ y < x + t => r <= q + 2
  BY Multiples
<1> HIDE DEF x, y, d, t
<1>4. x < y /\ y < x + t /\ (pos + neg <= a => y < x + d)
  BY <1>1, <1>2
<1> QED
  BY <1>3, <1>4

(* In the ordered layout the address points are multiples of the           *)
(* alignment, and between the entries there are only dummies.              *)
LEMMA OrderedLoop ==
  ASSUME Graph, NEW s, s = definedOrder, NEW a, a = orderAlignment(cloud),
         NEW f, f = ordered(cloudOrder, a)
  PROVE  /\ f \in Seq(Nat \X Int) /\ a \in Nat \ {0}
         /\ \E q : spaced(s, f, a, q)
<1> DEFINE n == Len(s)
           X == Seq(Nat \X Int)
<1>1. /\ s \in Seq(Objects) /\ n \in Nat /\ \A j \in 1..n : s[j] \in Objects
  BY DefinedOrder
<1>2. a \in Nat \ {0} /\ \A v \in Vtbl : size(cloud, v) <= a
  BY OrderAlignment DEF Graph, Vtbl
<1>3. \A j \in 1..n : /\ s[j] \in Vtbl /\ size(cloud, s[j]) \in Nat
                      /\ cloud.neg[s[j]] \in Nat /\ cloud.pos[s[j]] \in Nat \ {0}
                      /\ size(cloud, s[j]) = cloud.neg[s[j]] + cloud.pos[s[j]]
                      /\ size(cloud, s[j]) <= a
  BY <1>1, <1>2, Entry
<1>4. f = each(puts(a), s, <<>>)
  BY DEF ordered, puts, dummies, entriesOf, definedOrder
<1>5. Keeps(puts(a), s, X)
  <2> SUFFICES ASSUME NEW j \in 1..n, NEW list \in X
               PROVE  puts(a)[s[j]][list] \in X
    BY DEF Keeps
  <2>1. \E q : rounded(s[j], list, puts(a)[s[j]][list], a, q)
    BY <1>1, <1>2, Round
  <2> QED
    BY <2>1 DEF rounded
<1>6. <<>> \in X /\ Len(<<>>) = 0
  BY EmptySeq
<1>7. PICK b \in [0..n -> X] : Rounds(puts(a), s, <<>>, b)
  <2> DEFINE p == puts(a)
             e == <<>>
  <2>1. Len(s) \in Nat /\ e \in X /\ Keeps(p, s, X)
    BY <1>1, <1>5, <1>6
  <2> HIDE DEF p, e, X
  <2>2. \E b \in [0..Len(s) -> X] : Rounds(p, s, e, b)
    BY <2>1, EachTyped
  <2> QED
    BY <2>2 DEF p, e
<1>8. /\ f = b[n] /\ b[0] = <<>>
      /\ \A j \in 1..n : b[j] = puts(a)[s[j]][b[j - 1]]
  BY <1>4, <1>7 DEF Rounds
<1> DEFINE q == [j \in 1..n |-> CHOOSE q : rounded(s[j], b[j - 1], b[j], a, q)]
<1>9. ASSUME NEW j \in 1..n
      PROVE  rounded(s[j], b[j - 1], b[j], a, q[j])
  <2>1. j - 1 \in 0..n
    BY <1>1
  <2>2. b[j - 1] \in Seq(Nat \X Int)
    BY <1>7, <2>1
  <2>3. \E r : rounded(s[j], b[j - 1], b[j], a, r)
    <3> DEFINE v == s[j]
               list == b[j - 1]
    <3>1. v \in Objects /\ list \in Seq(Nat \X Int) /\ b[j] = puts(a)[v][list]
      BY <1>1, <1>8, <2>2
    <3> HIDE DEF v, list
    <3>2. \E r : rounded(v, list, puts(a)[v][list], a, r)
      BY <1>2, <3>1, Round
    <3> QED
      BY <3>1, <3>2 DEF v, list
  <2>4. q[j] = CHOOSE r : rounded(s[j], b[j - 1], b[j], a, r)
    OBVIOUS
  <2> HIDE DEF q
  <2> QED
    BY <2>3, <2>4
<1>a. q = [j \in 1..n |-> q[j]]
  OBVIOUS
<1> HIDE DEF q, n
<1> DEFINE L(i) == Len(b[i])
           st(j) == q[j] * a
<1>10. \A j \in 1..n : q[j] \in Nat
  BY <1>9 DEF rounded
<1>11. \A i \in 0..n : L(i) \in Nat
  BY <1>7, LenProperties
<1>12. ASSUME NEW j \in 1..n
       PROVE  /\ st(j) \in Nat /\ j - 1 \in 0..n /\ j \in 0..n
              /\ L(j - 1) + cloud.neg[s[j]] <= st(j)
              /\ st(j) < L(j - 1) + cloud.neg[s[j]] + a
              /\ L(j) = st(j) + cloud.pos[s[j]]
  <2>1. st(j) \in Nat
    BY <1>2, <1>10
  <2>2. j - 1 \in 0..n /\ j \in 0..n
    BY <1>1
  <2> QED
    BY <1>9, <2>1, <2>2 DEF rounded
<1>13. strides(n, q)
  <2>1. q \in [1..n -> Nat]
    BY <1>a, <1>10
  <2>2. ASSUME n >= 1
        PROVE  q[1] <= 1
    <3>1. 1 \in 1..n
      BY <1>1, <2>2
    <3>2. /\ L(0) = 0 /\ st(1) < L(0) + cloud.neg[s[1]] + a /\ st(1) \in Nat
      BY <1>6, <1>8, <1>12, <3>1
    <3>3. cloud.neg[s[1]] \in Nat /\ cloud.neg[s[1]] < a
      <4>1. /\ cloud.neg[s[1]] \in Nat /\ cloud.pos[s[1]] \in Nat \ {0}
            /\ cloud.neg[s[1]] + cloud.pos[s[1]] <= a
        BY <1>3, <3>1
      <4> QED
        BY <1>2, <4>1
    <3>4. st(1) < 2 * a
      BY <1>2, <3>2, <3>3
    <3>5. q[1] \in Nat
      BY <1>10, <3>1
    <3> QED
      BY <1>2, <3>4, <3>5, Multiples
  <2>3. ASSUME NEW j \in 1..(n - 1)
        PROVE  /\ q[j] + 1 <= q[j + 1] /\ q[j + 1] <= q[j] + 2
               /\ SamePrefix => q[j + 1] <= q[j] + 1
    <3> DEFINE k == j + 1
               pos == cloud.pos[s[j]]
               neg == cloud.neg[s[k]]
    <3>1. j \in 1..n /\ k \in 1..n /\ k - 1 = j
      BY <1>1
    <3>2. /\ L(j) + neg <= st(k) /\ st(k) < L(j) + neg + a /\ L(j) = st(j) + pos
      BY <1>12, <3>1
    <3>3. /\ pos \in Nat \ {0} /\ pos <= a /\ neg \in Nat /\ neg < a
      <4>1. /\ cloud.neg[s[j]] \in Nat /\ cloud.pos[s[j]] \in Nat \ {0}
            /\ cloud.neg[s[j]] + cloud.pos[s[j]] <= a
        BY <1>3, <3>1
      <4>2. /\ cloud.neg[s[k]] \in Nat /\ cloud.pos[s[k]] \in Nat \ {0}
            /\ cloud.neg[s[k]] + cloud.pos[s[k]] <= a
        BY <1>3, <3>1
      <4> QED
        BY SMTT(30), <1>2, <4>1, <4>2
    <3>4. q[j] \in Nat /\ q[k] \in Nat
      BY <1>10, <3>1
    <3>5. SamePrefix => pos + neg <= a
      <4>1. SamePrefix => cloud.neg[s[k]] = cloud.neg[s[j]]
        BY <1>3, <3>1 DEF SamePrefix
      <4>2. /\ cloud.neg[s[j]] \in Nat /\ cloud.pos[s[j]] \in Nat \ {0}
            /\ cloud.neg[s[j]] + cloud.pos[s[j]] <= a
        BY <1>3, <3>1
      <4> QED
        BY <1>2, <4>1, <4>2
    <3>6. q[j] * a + pos + neg <= q[k] * a /\ q[k] * a < q[j] * a + pos + neg + a
      <4>1. st(j) \in Nat /\ st(k) \in Nat /\ L(j) \in Nat
        BY <1>11, <1>12, <3>1
      <4> HIDE DEF pos, neg, L, st
      <4>2. st(j) + pos + neg <= st(k) /\ st(k) < st(j) + pos + neg + a
        BY <3>2, <4>1
      <4> QED
        BY <4>2 DEF st
    <3> HIDE DEF pos, neg, k, st, L
    <3>7. /\ q[j] + 1 <= q[k] /\ q[k] <= q[j] + 2
          /\ pos + neg <= a => q[k] <= q[j] + 1
      <4> DEFINE x == q[j]
                 y == q[k]
      <4>1. /\ x \in Nat /\ y \in Nat
            /\ x * a + pos + neg <= y * a /\ y * a < x * a + pos + neg + a
        BY <3>4, <3>6
      <4> HIDE DEF x, y
      <4>2. /\ x + 1 <= y /\ y <= x + 2
            /\ pos + neg <= a => y <= x + 1
        BY <1>2, <3>3, <4>1, Gap
      <4> QED
        BY <4>2 DEF x, y
    <3> QED
      BY <3>5, <3>7 DEF k
  <2> QED
    BY <2>1, <2>2, <2>3 DEF strides
<1> DEFINE S(i) ==
      /\ \A j \in 1..i : \A m \in 1..size(cloud, s[j]) :
           /\ spot(s, q, a, j, m) \in 1..L(i)
           /\ b[i][spot(s, q, a, j, m)] = entry(s[j], m)
      /\ \A k \in 1..L(i) :
           \/ b[i][k][1] = Dummy
           \/ \E j \in 1..i : \E m \in 1..size(cloud, s[j]) : k = spot(s, q, a, j, m)
           N == {i \in 0..n : S(i)}
<1>14. 0 \in N
  BY <1>1, <1>6, <1>8
<1>15. ASSUME NEW i \in 0..n, i < n, i \in N
       PROVE  i + 1 \in N
  <2> DEFINE j == i + 1
             v == s[j]
  <2>1. j \in 1..n /\ j \in 0..n /\ j - 1 = i /\ \A h \in 1..j : h \in 1..i \/ h = j
    BY <1>1, <1>15
  <2>2. /\ L(i) \in Nat /\ L(j) \in Nat /\ st(j) \in Nat
        /\ L(i) + cloud.neg[v] <= st(j) /\ L(j) = st(j) + cloud.pos[v]
        /\ size(cloud, v) \in Nat
        /\ cloud.neg[v] \in Nat /\ cloud.pos[v] \in Nat
        /\ size(cloud, v) = cloud.neg[v] + cloud.pos[v]
    BY <1>3, <1>11, <1>12, <2>1
  <2>3. /\ begins(b[i], b[j])
        /\ \A m \in 1..size(cloud, v) : b[j][st(j) - cloud.neg[v] + m] = entry(v, m)
        /\ \A k \in 1..L(j) : L(i) < k /\ k <= st(j) - cloud.neg[v] => b[j][k][1] = Dummy
    BY <1>9, <2>1 DEF rounded
  <2>4. S(i)
    BY <1>15
  <2>5. ASSUME NEW h \in 1..j, NEW m \in 1..size(cloud, s[h])
        PROVE  spot(s, q, a, h, m) \in 1..L(j) /\ b[j][spot(s, q, a, h, m)] = entry(s[h], m)
    <3>1. CASE h \in 1..i
      <4>1. /\ spot(s, q, a, h, m) \in 1..L(i)
            /\ b[i][spot(s, q, a, h, m)] = entry(s[h], m)
        BY <2>4, <3>1
      <4>2. L(i) <= L(j) /\ b[j][spot(s, q, a, h, m)] = b[i][spot(s, q, a, h, m)]
        BY <2>3, <4>1 DEF begins
      <4>3. spot(s, q, a, h, m) \in 1..L(j)
        <5> DEFINE x == spot(s, q, a, h, m)
        <5> HIDE DEF x, L
        <5> QED
          BY <2>2, <4>1, <4>2
      <4> QED
        BY <4>1, <4>2, <4>3
    <3>2. CASE h = j
      <4>1. spot(s, q, a, h, m) = st(j) - cloud.neg[v] + m
        BY <3>2 DEF spot
      <4>2. m \in 1..size(cloud, v)
        BY <3>2
      <4>3. st(j) - cloud.neg[v] + m \in 1..L(j)
        <5> DEFINE x == st(j)
                   y == L(j)
                   z == L(i)
                   neg == cloud.neg[v]
                   pos == cloud.pos[v]
                   w == size(cloud, v)
        <5>1. /\ z \in Nat /\ y \in Nat /\ x \in Nat /\ z + neg <= x /\ y = x + pos
              /\ neg \in Nat /\ pos \in Nat /\ w = neg + pos /\ m \in 1..w /\ w \in Nat
          BY <2>2, <4>2
        <5> HIDE DEF x, y, z, neg, pos, w
        <5>2. x - neg + m \in 1..y
          BY <5>1
        <5> QED
          BY <5>2 DEF x, y, neg
      <4> QED
        BY <2>3, <3>2, <4>1, <4>2, <4>3
    <3> QED
      BY <2>1, <3>1, <3>2
  <2>6. ASSUME NEW k \in 1..L(j)
        PROVE  \/ b[j][k][1] = Dummy
               \/ \E h \in 1..j : \E m \in 1..size(cloud, s[h]) : k = spot(s, q, a, h, m)
    <3>1. CASE k <= L(i)
      <4>1. k \in 1..L(i) /\ b[j][k] = b[i][k]
        BY <2>2, <2>3, <3>1 DEF begins
      <4>2. \A h \in 1..i : h \in 1..j
        BY <2>1
      <4> QED
        BY <2>4, <4>1, <4>2
    <3>2. CASE k > L(i) /\ k <= st(j) - cloud.neg[v]
      BY <2>3, <3>2
    <3>3. CASE k > st(j) - cloud.neg[v]
      <4> DEFINE x == st(j)
                 y == L(j)
                 neg == cloud.neg[v]
                 pos == cloud.pos[v]
                 w == size(cloud, v)
                 m == k - (x - neg)
      <4>1. /\ y \in Nat /\ x \in Nat /\ y = x + pos /\ k \in 1..y /\ k > x - neg
            /\ neg \in Nat /\ pos \in Nat /\ w = neg + pos
        BY <2>2, <3>3
      <4> HIDE DEF x, y, neg, pos, w
      <4>2. m \in 1..w /\ k = x - neg + m
        BY <4>1
      <4>3. k = spot(s, q, a, j, m)
        <5> HIDE DEF m
        <5> QED
          BY <4>2 DEF spot, x, neg
      <4>4. j \in 1..j
        BY <2>1
      <4> HIDE DEF m
      <4> QED
        BY <4>2, <4>3, <4>4 DEF w
    <3>4. k \in Int /\ L(i) \in Nat /\ st(j) - cloud.neg[v] \in Int
      <4> DEFINE x == st(j)
                 y == L(j)
                 neg == cloud.neg[v]
      <4>1. y \in Nat /\ x \in Nat /\ neg \in Nat /\ k \in 1..y /\ L(i) \in Nat
        BY <2>2
      <4> HIDE DEF x, y, neg
      <4>2. k \in Int /\ x - neg \in Int
        BY <4>1
      <4> QED
        BY <4>1, <4>2 DEF x, neg
    <3> QED
      BY <3>1, <3>2, <3>3, <3>4
  <2> QED
    BY <2>1, <2>5, <2>6
<1>16. S(n)
  <2> HIDE DEF N
  <2>1. 0..n \subseteq N
    BY <1>1, <1>14, <1>15, UpTo
  <2>2. n \in N
    BY <1>1, <2>1
  <2> QED
    BY <2>2 DEF N
<1>17. f \in Seq(Nat \X Int)
  <2>1. n \in 0..n
    BY <1>1
  <2> QED
    BY <1>7, <1>8, <2>1
<1>18. \A j \in 1..n : cloud.neg[s[j]] <= q[j] * a
  <2> TAKE j \in 1..n
  <2> DEFINE x == st(j)
             z == L(j - 1)
             neg == cloud.neg[s[j]]
  <2>1. x \in Nat /\ z \in Nat /\ neg \in Nat /\ z + neg <= x
    BY <1>3, <1>11, <1>12
  <2> HIDE DEF x, z, neg
  <2>2. neg <= x
    BY <2>1
  <2> QED
    BY <2>2 DEF x, neg
<1>19. /\ \A j \in 1..n : \A m \in 1..size(cloud, s[j]) :
            /\ spot(s, q, a, j, m) \in 1..Len(f)
            /\ f[spot(s, q, a, j, m)] = entry(s[j], m)
       /\ \A k \in 1..Len(f) :
            \/ f[k][1] = Dummy
            \/ \E j \in 1..n : \E m \in 1..size(cloud, s[j]) : k = spot(s, q, a, j, m)
  BY <1>8, <1>16
<1> HIDE DEF S
<1>20. spaced(s, f, a, q)
  BY <1>13, <1>18, <1>19 DEF n, spaced
<1> QED
  BY <1>2, <1>17, <1>20

-----------------------------------------------------------------------------
(* The new indices.                                                        *)

LaidOut ==
  /\ Graph /\ contains(cloud) /\ Unpadded /\ interleave \in BOOLEAN
  /\ interleavingMap = IF interleave THEN interleaved(cloudOrder, prePadMap)
                       ELSE ordered(cloudOrder, orderAlignment(cloud))

Indexed ==
  LaidOut /\ newLayoutInds = [v \in Objects |-> indicesOf(interleavingMap, v)]

(* The new indices of the interleaved layout.                              *)
LEMMA InterleavedIndices ==
  ASSUME Indexed, interleave, NEW v \in Objects
  PROVE  /\ interleavingMap \in Seq(Entries)
         /\ placed(interleavingMap, v, newLayoutInds[v])
         /\ newLayoutInds[v] \in Seq(Nat)
         /\ newLayoutInds[v] = aheadOf(v)
<1>1. /\ Graph /\ Unpadded /\ interleavingMap = interleaved(cloudOrder, prePadMap)
      /\ newLayoutInds[v] = indicesOf(interleavingMap, v)
  BY DEF Indexed, LaidOut
<1> DEFINE f == interleavingMap
           g == aheadOf(v)
<1>2. f \in Seq(Entries) /\ placed(f, v, g)
  BY <1>1, InterleavedPlaced
<1>3. size(cloud, v) \in Nat
  BY <1>1, Entry
<1> HIDE DEF f, g
<1>4. indicesOf(f, v) = g /\ g \in Seq(Nat)
  BY <1>2, <1>3, Placed
<1> QED
  BY <1>1, <1>2, <1>4 DEF f, g

(* the strides that the address points have in the ordered layout          *)
strided(s, a, q) ==
  /\ strides(Len(s), q) /\ a \in Nat \ {0}
  /\ \A j \in 1..Len(s) : /\ cloud.neg[s[j]] <= q[j] * a
                          /\ newLayoutInds[s[j]] =
                               [m \in 1..size(cloud, s[j]) |-> spot(s, q, a, j, m) - 1]

(* The array of either layout consists of entries and dummies.             *)
LEMMA ArrayTyped ==
  ASSUME LaidOut
  PROVE  interleavingMap \in Seq((Vtbl \cup {Dummy}) \X Int)
<1>0. Graph /\ Unpadded /\ interleave \in BOOLEAN
  BY DEF LaidOut
<1> DEFINE Y == (Vtbl \cup {Dummy}) \X Int
<1>1. CASE interleave
  <2>1. interleavingMap = interleaved(cloudOrder, prePadMap)
    BY <1>1 DEF LaidOut
  <2>2. interleavingMap \in Seq(Entries)
    BY <1>0, <2>1, Interleaved
  <2>3. Entries \subseteq Y
    BY <1>0, ObjectsFinite DEF Entries
  <2> HIDE DEF Y
  <2>4. interleavingMap \in Seq(Y)
    BY <2>2, <2>3, SeqMonotonic
  <2> QED
    BY <2>4 DEF Y
<1>2. CASE ~interleave
  <2> DEFINE f == interleavingMap
             s == definedOrder
             n == Len(s)
             a == orderAlignment(cloud)
  <2> HIDE DEF f, s, a
  <2>1. f = ordered(cloudOrder, a)
    BY <1>2 DEF LaidOut, f, a
  <2>2. f \in Seq(Nat \X Int) /\ \E q : spaced(s, f, a, q)
    BY <1>0, <2>1, OrderedLoop DEF s, a
  <2>3. PICK q : spaced(s, f, a, q)
    BY <2>2
  <2>4. /\ \A j \in 1..n : \A m \in 1..size(cloud, s[j]) :
             f[spot(s, q, a, j, m)] = entry(s[j], m)
        /\ \A k \in 1..Len(f) :
             \/ f[k][1] = Dummy
             \/ \E j \in 1..n : \E m \in 1..size(cloud, s[j]) : k = spot(s, q, a, j, m)
    BY <2>3 DEF spaced
  <2>5. \A j \in 1..n : s[j] \in Vtbl
    <3>1. \A j \in 1..n : s[j] \in Objects
      BY <1>0, DefinedOrder DEF s
    <3> QED
      BY <1>0, <3>1, Entry
  <2>6. Len(f) \in Nat /\ DOMAIN f = 1..Len(f) /\ \A k \in 1..Len(f) : f[k] \in Nat \X Int
    BY <2>2, Members
  <2>7. ASSUME NEW k \in 1..Len(f)
        PROVE  f[k] \in Y
    <3>1. f[k][1] \in Vtbl \cup {Dummy}
      <4>1. CASE f[k][1] = Dummy
        BY <4>1
      <4>2. ASSUME NEW j \in 1..n, NEW m \in 1..size(cloud, s[j]), k = spot(s, q, a, j, m)
            PROVE  f[k][1] \in Vtbl \cup {Dummy}
        BY <2>4, <2>5, <4>2 DEF entry
      <4> QED
        BY <2>4, <4>1, <4>2
    <3>2. f[k][2] \in Int /\ f[k] = <<f[k][1], f[k][2]>>
      BY <2>6
    <3> QED
      BY <3>1, <3>2
  <2>8. f = [k \in 1..Len(f) |-> f[k]]
    BY <2>2, <2>6
  <2> HIDE DEF Y
  <2>9. f \in [1..Len(f) -> Y]
    BY <2>7, <2>8
  <2>10. f \in Seq(Y)
    BY <2>6, <2>9
  <2> QED
    BY <2>10 DEF Y, f
<1> QED
  BY <1>0, <1>1, <1>2

(* The new indices of the ordered layout.                                  *)
LEMMA OrderedIndices ==
  ASSUME Indexed, ~interleave, NEW s, s = definedOrder,
         NEW a, a = orderAlignment(cloud)
  PROVE  /\ interleavingMap \in Seq((Vtbl \cup {Dummy}) \X Int)
         /\ \A v \in Objects : /\ placed(interleavingMap, v, newLayoutInds[v])
                               /\ newLayoutInds[v] \in Seq(Nat)
         /\ \E q : strided(s, a, q)
<1>1. /\ Graph /\ interleavingMap = ordered(cloudOrder, a)
      /\ newLayoutInds = [v \in Objects |-> indicesOf(interleavingMap, v)]
  BY DEF Indexed, LaidOut
<1> DEFINE f == interleavingMap
           n == Len(s)
<1>a. /\ f \in Seq(Nat \X Int) /\ a \in Nat \ {0}
      /\ \E q : spaced(s, f, a, q)
  <2> HIDE DEF f
  <2>1. f = ordered(cloudOrder, a)
    BY <1>1 DEF f
  <2> QED
    BY <1>1, <2>1, OrderedLoop
<1>b. PICK q : spaced(s, f, a, q)
  BY <1>a
<1>2. /\ strides(n, q)
      /\ \A j \in 1..n : \A m \in 1..size(cloud, s[j]) :
           /\ spot(s, q, a, j, m) \in 1..Len(f)
           /\ f[spot(s, q, a, j, m)] = entry(s[j], m)
      /\ \A k \in 1..Len(f) :
           \/ f[k][1] = Dummy
           \/ \E j \in 1..n : \E m \in 1..size(cloud, s[j]) : k = spot(s, q, a, j, m)
      /\ \A j \in 1..n : cloud.neg[s[j]] <= q[j] * a
  BY <1>b DEF spaced
<1>3. /\ n \in Nat /\ \A j \in 1..n : s[j] \in Objects
      /\ \A u \in Objects : \E j \in 1..n : s[j] = u
      /\ \A j, k \in 1..n : s[j] = s[k] => j = k
  BY <1>1, DefinedOrder
<1>4. \A j \in 1..n : /\ s[j] \in Vtbl /\ size(cloud, s[j]) \in Nat
                      /\ cloud.neg[s[j]] \in Nat
  BY <1>1, <1>3, Entry
<1>5. f \in Seq((Vtbl \cup {Dummy}) \X Int)
  BY ArrayTyped DEF Indexed
<1> DEFINE spots(j) == [m \in 1..size(cloud, s[j]) |-> spot(s, q, a, j, m) - 1]
<1>6. ASSUME NEW j \in 1..n
      PROVE  /\ placed(f, s[j], spots(j)) /\ indicesOf(f, s[j]) = spots(j) /\ spots(j) \in Seq(Nat)
             /\ newLayoutInds[s[j]] = spots(j)
  <2> DEFINE v == s[j]
             w == size(cloud, v)
             g == spots(j)
             x == q[j] * a - cloud.neg[v]
  <2>1. /\ v \in Objects /\ w \in Nat
    BY <1>3, <1>4
  <2>2. x \in Int
    <3>1. q[j] \in Nat /\ a \in Nat /\ cloud.neg[v] \in Nat
      BY <1>2, <1>4, <1>a DEF strides
    <3>2. q[j] * a \in Int
      BY <3>1
    <3> QED
      BY <3>1, <3>2
  <2>3. \A m \in 1..w : g[m] = spot(s, q, a, j, m) - 1 /\ spot(s, q, a, j, m) = x + m
    BY DEF spot
  <2>4. g = [m \in 1..w |-> g[m]]
    OBVIOUS
  <2>5. Len(f) \in Nat
    BY <1>5, LenProperties
  <2> HIDE DEF g, x
  <2>6. ASSUME NEW m \in 1..w
        PROVE  g[m] \in Nat /\ g[m] + 1 = spot(s, q, a, j, m) /\ m \in Int
    <3>1. spot(s, q, a, j, m) \in 1..Len(f)
      BY <1>2
    <3> DEFINE p == spot(s, q, a, j, m)
    <3> HIDE DEF p
    <3>2. p \in 1..Len(f) /\ g[m] = p - 1
      BY <2>3, <3>1 DEF p
    <3>3. g[m] \in Nat /\ g[m] + 1 = p
      BY <2>5, <3>2
    <3> QED
      BY <2>1, <3>3 DEF p
  <2>7. g \in [1..w -> Nat]
    BY <2>4, <2>6
  <2>8. ASSUME NEW i \in 1..w, NEW m \in 1..w, i < m
        PROVE  g[i] < g[m]
    <3>1. g[i] = x + i - 1 /\ g[m] = x + m - 1 /\ i \in Int /\ m \in Int
      <4>1. i \in Int /\ m \in Int
        BY <2>6
      <4>2. spot(s, q, a, j, i) = x + i /\ spot(s, q, a, j, m) = x + m
        BY <2>3
      <4>3. g[i] = spot(s, q, a, j, i) - 1 /\ g[m] = spot(s, q, a, j, m) - 1
        BY <2>3
      <4> QED
        BY <2>2, <4>1, <4>2, <4>3
    <3> QED
      BY <2>2, <2>8, <3>1
  <2>9. \A m \in 1..w : g[m] + 1 \in 1..Len(f) /\ f[g[m] + 1] = entry(v, m)
    BY <1>2, <2>6
  <2>10. ASSUME NEW k \in 1..Len(f), f[k][1] = v
         PROVE  \E m \in 1..w : k = g[m] + 1
    <3>1. v # Dummy
      <4>1. v \in Vtbl
        BY <1>4
      <4>2. Dummy \notin Vtbl
        BY <1>1, Metadata DEF Graph, Vtbl
      <4> QED
        BY <4>1, <4>2
    <3>2. PICK i \in 1..n : \E m \in 1..size(cloud, s[i]) : k = spot(s, q, a, i, m)
      BY <1>2, <2>10, <3>1
    <3>3. PICK m \in 1..size(cloud, s[i]) : k = spot(s, q, a, i, m)
      BY <3>2
    <3>4. f[k] = entry(s[i], m)
      BY <1>2, <3>3
    <3>5. s[i] = v
      BY <2>10, <3>4 DEF entry
    <3>6. i = j
      BY <1>3, <3>5
    <3> QED
      BY <2>6, <3>3, <3>6
  <2>11. placed(f, v, g)
    BY <2>7, <2>8, <2>9, <2>10 DEF placed
  <2> HIDE DEF f
  <2>12. indicesOf(f, v) = g /\ g \in Seq(Nat)
    <3> HIDE DEF v, w
    <3>1. size(cloud, v) \in Nat
      BY <2>1 DEF w
    <3> QED
      BY <1>5, <2>11, <3>1, Placed
  <2>13. newLayoutInds[v] = indicesOf(f, v)
    BY <1>1, <2>1 DEF f
  <2> QED
    BY <2>11, <2>12, <2>13 DEF g
<1>7. ASSUME NEW v \in Objects
      PROVE  placed(f, v, newLayoutInds[v]) /\ newLayoutInds[v] \in Seq(Nat)
  <2>1. PICK j \in 1..n : s[j] = v
    BY <1>3
  <2> HIDE DEF spots, f, n
  <2> QED
    BY <1>6, <2>1
<1>8. strided(s, a, q)
  <2>1. \A j \in 1..n : newLayoutInds[s[j]] = spots(j)
    BY <1>6
  <2> QED
    BY <1>2, <1>a, <2>1 DEF strided
<1> QED
  BY <1>5, <1>7, <1>8


(* Address points lie at least as many alignments apart as there are       *)
(* vtables from one to the other, and exactly as many where all vtables    *)
(* have the same number of entries before theirs.                          *)
LEMMA Strides ==
  ASSUME NEW n \in Nat, NEW q, strides(n, q)
  PROVE  /\ \A j, k \in 1..n : j <= k => /\ q[j] + (k - j) <= q[k]
                                         /\ SamePrefix => q[k] = q[j] + (k - j)
         /\ \A j \in 1..n : q[j] \in Nat /\ q[j] <= 2 * j - 1
<1>1. \A j \in 1..n : q[j] \in Nat
  BY DEF strides
<1>2. \A j \in 1..(n - 1) : /\ q[j] + 1 <= q[j + 1] /\ q[j + 1] <= q[j] + 2
                            /\ SamePrefix => q[j + 1] <= q[j] + 1
  BY DEF strides
<1>3. n >= 1 => q[1] <= 1
  BY DEF strides
<1> DEFINE P(k) == /\ \A j \in 1..k : /\ q[j] + (k - j) <= q[k]
                                      /\ SamePrefix => q[k] = q[j] + (k - j)
                   /\ k >= 1 => q[k] <= 2 * k - 1
           S == {k \in 0..n : P(k)}
<1>4. 0 \in S
  OBVIOUS
<1>5. ASSUME NEW k \in 0..n, k < n, k \in S
      PROVE  k + 1 \in S
  <2>1. k + 1 \in 0..n /\ k + 1 \in 1..n /\ k \in Nat
    BY <1>5
  <2>2. P(k)
    BY <1>5
  <2>3. ASSUME NEW j \in 1..(k + 1)
        PROVE  /\ q[j] + ((k + 1) - j) <= q[k + 1]
               /\ SamePrefix => q[k + 1] = q[j] + ((k + 1) - j)
    <3>1. CASE j = k + 1
      <4>1. q[k + 1] \in Nat
        BY <1>1, <2>1
      <4> QED
        BY <2>1, <3>1, <4>1
    <3>2. CASE j \in 1..k
      <4>1. k \in 1..(n - 1) /\ k \in 1..n /\ j \in 1..n
        BY <1>5, <3>2
      <4>2. /\ q[j] + (k - j) <= q[k]
            /\ SamePrefix => q[k] = q[j] + (k - j)
        BY <2>2, <3>2
      <4>3. q[j] \in Nat /\ q[k] \in Nat /\ q[k + 1] \in Nat
        BY <1>1, <2>1, <4>1
      <4>4. /\ q[k] + 1 <= q[k + 1]
            /\ SamePrefix => q[k + 1] <= q[k] + 1
        BY <1>2, <4>1
      <4> QED
        BY <2>1, <3>2, <4>2, <4>3, <4>4
    <3> QED
      BY <2>1, <3>1, <3>2
  <2>4. q[k + 1] <= 2 * (k + 1) - 1
    <3>1. CASE k = 0
      <4>1. n >= 1 /\ k + 1 = 1
        BY <1>5, <3>1
      <4>2. q[1] <= 1
        BY <1>3, <4>1
      <4> QED
        BY <3>1, <4>2
    <3>2. CASE k >= 1
      <4>1. k \in 1..(n - 1) /\ k \in 1..n
        BY <1>5, <3>2
      <4>2. q[k] <= 2 * k - 1
        BY <2>2, <3>2
      <4>3. q[k + 1] <= q[k] + 2
        BY <1>2, <4>1
      <4>4. q[k] \in Nat /\ q[k + 1] \in Nat
        BY <1>1, <2>1, <4>1
      <4> QED
        BY <2>1, <4>2, <4>3, <4>4
    <3> QED
      BY <2>1, <3>1, <3>2
  <2> QED
    BY <2>1, <2>3, <2>4
<1> HIDE DEF S
<1>6. 0..n \subseteq S
  BY <1>4, <1>5, UpTo
<1>7. \A k \in 1..n : P(k)
  <2>1. \A k \in 1..n : k \in 0..n
    OBVIOUS
  <2> QED
    BY <1>6, <2>1 DEF S
<1>8. \A j, k \in 1..n : j <= k => j \in 1..k
  OBVIOUS
<1> QED
  BY <1>1, <1>7, <1>8

(* An entry that a vtable has is looked up at its number.                  *)
LEMMA HasEntry ==
  ASSUME Graph, NEW v \in Objects, NEW e, has(v, e)
  PROVE  /\ e \in Int /\ cloud.neg[v] + e + 1 \in 1..size(cloud, v)
         /\ entry(v, cloud.neg[v] + e + 1) = <<v, e>>
         /\ has(v, 0)
<1>1. /\ cloud.neg[v] \in Nat /\ cloud.pos[v] \in Nat \ {0}
      /\ size(cloud, v) = cloud.neg[v] + cloud.pos[v]
  BY Entry
<1>2. e \in Int /\ -cloud.neg[v] <= e /\ e < cloud.pos[v]
  BY DEF has
<1>3. cloud.neg[v] + e + 1 - 1 - cloud.neg[v] = e
  BY <1>1, <1>2
<1>4. has(v, 0)
  BY <1>1 DEF has
<1> QED
  BY <1>1, <1>2, <1>3, <1>4 DEF entry

(* Every vtable has an entry at its address point.                         *)
LEMMA HasZero ==
  ASSUME Graph, NEW v \in Objects
  PROVE  has(v, 0)
<1>1. /\ cloud.neg[v] \in Nat /\ cloud.pos[v] \in Nat \ {0}
  BY Entry
<1> QED
  BY <1>1 DEF has

(* Every entry of a defined vtable is found at its new index.              *)
LEMMA Found ==
  ASSUME Indexed
  PROVE  /\ interleavingMap \in Seq((Vtbl \cup {Dummy}) \X Int)
         /\ newLayoutInds \in [Objects -> Seq(Nat)]
         /\ \A v \in Objects : \A e : has(v, e) =>
              /\ newIndex(v, e) \in Nat /\ newIndex(v, e) + 1 \in 1..Len(interleavingMap)
              /\ interleavingMap[newIndex(v, e) + 1] = <<v, e>>
<1>0. Graph /\ interleave \in BOOLEAN
      /\ newLayoutInds = [v \in Objects |-> indicesOf(interleavingMap, v)]
  BY DEF Indexed, LaidOut
<1> DEFINE Y == (Vtbl \cup {Dummy}) \X Int
           f == interleavingMap
<1>1. /\ f \in Seq(Y)
      /\ \A v \in Objects : placed(f, v, newLayoutInds[v]) /\ newLayoutInds[v] \in Seq(Nat)
  <2>1. CASE interleave
    <3>1. Entries \subseteq Y
      BY <1>0, ObjectsFinite DEF Entries
    <3>2. f \in Seq(Entries)
      <4>1. f = interleaved(cloudOrder, prePadMap)
        BY <2>1 DEF Indexed, LaidOut
      <4>2. Graph /\ Unpadded
        BY DEF Indexed, LaidOut
      <4> QED
        BY <4>1, <4>2, Interleaved
    <3>3. f \in Seq(Y)
      <4> HIDE DEF Y, f
      <4> QED
        BY <3>1, <3>2, SeqMonotonic
    <3> QED
      BY <2>1, <3>3, InterleavedIndices
  <2>2. CASE ~interleave
    BY <2>2, OrderedIndices
  <2> QED
    BY <1>0, <2>1, <2>2
<1>2. newLayoutInds \in [Objects -> Seq(Nat)]
  <2> DEFINE g == newLayoutInds
  <2>1. g = [v \in Objects |-> g[v]] /\ \A v \in Objects : g[v] \in Seq(Nat)
    BY <1>0, <1>1
  <2> HIDE DEF g
  <2>2. g \in [Objects -> Seq(Nat)]
    BY <2>1
  <2> QED
    BY <2>2 DEF g
<1>3. ASSUME NEW v \in Objects, NEW e, has(v, e)
      PROVE  /\ newIndex(v, e) \in Nat /\ newIndex(v, e) + 1 \in 1..Len(f)
             /\ f[newIndex(v, e) + 1] = <<v, e>>
  <2> DEFINE m == cloud.neg[v] + e + 1
             g == newLayoutInds[v]
  <2>1. m \in 1..size(cloud, v) /\ entry(v, m) = <<v, e>>
    BY <1>0, <1>3, HasEntry
  <2>2. newIndex(v, e) = g[m]
    BY DEF newIndex
  <2>3. placed(f, v, g)
    BY <1>1
  <2> HIDE DEF m, f, g
  <2>4. g[m] \in Nat /\ g[m] + 1 \in 1..Len(f) /\ f[g[m] + 1] = entry(v, m)
    BY <2>1, <2>3 DEF placed
  <2> QED
    BY <2>1, <2>2, <2>4 DEF f
<1> QED
  BY <1>1, <1>2, <1>3

(* In the interleaved layout the index of an entry is the number of        *)
(* entries before it.                                                      *)
LEMMA InterleavedIndex ==
  ASSUME Indexed, interleave, NEW v \in Objects, NEW e, has(v, e)
  PROVE  newIndex(v, e) = Cardinality(ahead(<<v, e>>))
<1>0. Graph
  BY DEF Indexed, LaidOut
<1> DEFINE m == cloud.neg[v] + e + 1
<1>1. m \in 1..size(cloud, v) /\ entry(v, m) = <<v, e>>
  BY <1>0, HasEntry
<1>2. newIndex(v, e) = newLayoutInds[v][m] /\ newLayoutInds[v] = aheadOf(v)
  BY InterleavedIndices DEF newIndex
<1> HIDE DEF m
<1> QED
  BY <1>1, <1>2 DEF aheadOf

(* In the ordered layout the index of an entry is an address point and the *)
(* distance from it.                                                       *)
LEMMA OrderedIndex ==
  ASSUME Indexed, ~interleave, NEW s, s = definedOrder, NEW a, NEW q, strided(s, a, q),
         NEW j \in 1..Len(s), NEW e, has(s[j], e)
  PROVE  newIndex(s[j], e) = q[j] * a + e /\ q[j] * a \in Nat
<1>0. Graph
  BY DEF Indexed, LaidOut
<1> DEFINE v == s[j]
           m == cloud.neg[v] + e + 1
<1>1. v \in Objects
  BY <1>0, DefinedOrder
<1>2. m \in 1..size(cloud, v) /\ e \in Int
  <2> HIDE DEF v
  <2>1. has(v, e)
    BY DEF v
  <2> QED
    BY <1>0, <1>1, <2>1, HasEntry
<1>3. newIndex(v, e) = newLayoutInds[v][m]
  BY DEF newIndex
<1>4. newLayoutInds[v] = [i \in 1..size(cloud, v) |-> spot(s, q, a, j, i) - 1]
  BY DEF strided
<1>5. newLayoutInds[v][m] = spot(s, q, a, j, m) - 1
  <2> HIDE DEF m, v
  <2> QED
    BY <1>2, <1>4
<1>6. q[j] * a \in Nat
  <2>1. q[j] \in Nat /\ a \in Nat
    BY DEF strided, strides
  <2> QED
    BY <2>1
<1>7. cloud.neg[v] \in Nat
  BY <1>0, <1>1, Entry
<1>8. spot(s, q, a, j, m) - 1 = q[j] * a + e
  <2> DEFINE x == q[j] * a
             g == cloud.neg[v]
  <2>1. spot(s, q, a, j, m) = x - g + (g + e + 1)
    BY DEF spot
  <2>2. x \in Nat /\ g \in Nat /\ e \in Int
    BY <1>2, <1>6, <1>7
  <2> HIDE DEF x, g
  <2>3. x - g + (g + e + 1) = x + e + 1 /\ (x + e + 1) - 1 = x + e
    BY <2>2
  <2> QED
    BY <2>1, <2>3 DEF x
<1> QED
  BY <1>3, <1>5, <1>6, <1>8

-----------------------------------------------------------------------------
(* Address points, whatever the layout.                                    *)

(* the distance, in entries, that address points of neighbours have        *)
unit == IF interleave THEN 1 ELSE orderAlignment(cloud)

(* The distance of address points that the checks assume is at least one   *)
(* word.                                                                   *)
LEMMA UnitType ==
  ASSUME Indexed
  PROVE  /\ unit \in Nat \ {0} /\ orderAlignment(cloud) \in Nat \ {0}
         /\ unit <= orderAlignment(cloud)
<1>1. orderAlignment(cloud) \in Nat \ {0}
  BY OrderAlignment DEF Indexed, LaidOut, Graph
<1> DEFINE a == orderAlignment(cloud)
<1> HIDE DEF a
<1>2. a \in Nat \ {0} /\ unit = IF interleave THEN 1 ELSE a
  BY <1>1 DEF a, unit
<1> QED
  BY <1>1, <1>2 DEF a

(* the positions in the ordered layout of two defined vtables              *)
LEMMA InDefinedOrder ==
  ASSUME Graph, NEW s, s = definedOrder, NEW f \in Objects, NEW o \in Objects,
         indexIn(cloudOrder, f) <= indexIn(cloudOrder, o)
  PROVE  \E j, k \in 1..Len(s) : /\ j <= k /\ s[j] = f /\ s[k] = o
                                 /\ Cardinality(between(f, o)) = k - j
<1>1. /\ \A u \in Objects : \E j \in 1..Len(s) : s[j] = u
      /\ \A j, k \in 1..Len(s) :
           /\ s[j] = s[k] => j = k
           /\ j < k <=> indexIn(cloudOrder, s[j]) < indexIn(cloudOrder, s[k])
      /\ \A j, k \in 1..Len(s) : j <= k => Cardinality(between(s[j], s[k])) = k - j
      /\ Len(s) \in Nat
  BY DefinedOrder
<1>2. PICK j \in 1..Len(s) : s[j] = f
  BY <1>1
<1>3. PICK k \in 1..Len(s) : s[k] = o
  BY <1>1
<1>4. indexIn(cloudOrder, f) \in Nat /\ indexIn(cloudOrder, o) \in Nat
  BY ObjectsFinite
<1>5. ~(k < j)
  <2>1. ~(indexIn(cloudOrder, o) < indexIn(cloudOrder, f))
    BY <1>4
  <2> QED
    BY <1>1, <1>2, <1>3, <2>1
<1>6. j <= k
  BY <1>5
<1> QED
  BY <1>1, <1>2, <1>3, <1>6

(* Distances of address points in words.                                   *)
LEMMA StrideArithmetic ==
  ASSUME NEW a \in Nat, NEW p \in Nat, NEW q \in Nat, NEW d \in Nat
  PROVE  /\ p + d <= q => p * a + d * a <= q * a
         /\ q = p + d => q * a = p * a + d * a
<1>1. p + d <= q => (p + d) * a <= q * a
  <2>1. p + d \in Nat
    OBVIOUS
  <2> QED
    BY <2>1, TimesMonotonic
<1>2. (p + d) * a = p * a + d * a
  OBVIOUS
<1> QED
  BY <1>1, <1>2

(* Address points lie at least one distance apart for every vtable from    *)
(* one to the other, and exactly that where the layout is even.            *)
LEMMA Spacing ==
  ASSUME Indexed, NEW f \in Objects, NEW o \in Objects,
         indexIn(cloudOrder, f) <= indexIn(cloudOrder, o)
  PROVE  LET d == Cardinality(between(f, o)) * unit
         IN /\ newIndex(f, 0) \in Nat /\ newIndex(o, 0) \in Nat /\ d \in Nat
            /\ newIndex(f, 0) + d <= newIndex(o, 0)
            /\ Even => newIndex(o, 0) = newIndex(f, 0) + d
<1> DEFINE c == Cardinality(between(f, o))
           x == newIndex(f, 0)
           y == newIndex(o, 0)
<1>0. Graph /\ interleave \in BOOLEAN
  BY DEF Indexed, LaidOut
<1>1. \A u \in Objects : has(u, 0)
  BY <1>0, HasZero
<1>2. x \in Nat /\ y \in Nat
  BY <1>1, Found
<1>3. c \in Nat
  BY <1>0, BetweenFinite
<1>4. CASE interleave
  <2>1. \A u \in between(f, o) : has(u, 0)
    BY <1>1 DEF between
  <2>2. x = Cardinality(ahead(<<f, 0>>)) /\ y = Cardinality(ahead(<<o, 0>>))
    BY <1>1, <1>4, InterleavedIndex
  <2>3. y = x + c
    BY <1>0, <1>1, <2>1, <2>2, AheadApart
  <2>4. c * unit = c
    <3>1. unit = 1
      BY <1>4 DEF unit
    <3> QED
      BY <1>3, <3>1
  <2> HIDE DEF x, y, c
  <2>5. x + c * unit = y /\ c * unit \in Nat /\ x + c * unit <= y
    BY <1>2, <1>3, <2>3, <2>4
  <2> QED
    BY <1>2, <2>5 DEF x, y, c
<1>5. CASE ~interleave
  <2> DEFINE s == definedOrder
             a == orderAlignment(cloud)
  <2>1. PICK q : strided(s, a, q)
    BY <1>5, OrderedIndices
  <2>2. PICK j, k \in 1..Len(s) : j <= k /\ s[j] = f /\ s[k] = o /\ c = k - j
    BY <1>0, InDefinedOrder
  <2>3. x = q[j] * a + 0 /\ y = q[k] * a + 0
    BY <1>1, <1>5, <2>1, <2>2, OrderedIndex
  <2>4. strides(Len(s), q) /\ a \in Nat
    BY <2>1 DEF strided
  <2>5. Len(s) \in Nat
    BY <1>0, DefinedOrder
  <2>6. /\ q[j] \in Nat /\ q[k] \in Nat
        /\ q[j] + (k - j) <= q[k]
        /\ SamePrefix => q[k] = q[j] + (k - j)
    <3> HIDE DEF s
    <3> QED
      BY <2>2, <2>4, <2>5, Strides
  <2>7. unit = a
    BY <1>5 DEF unit
  <2> DEFINE m == q[j]
             n == q[k]
  <2>8. /\ m \in Nat /\ n \in Nat /\ m + c <= n
        /\ SamePrefix => n = m + c
    BY <2>2, <2>6
  <2>9. Even <=> SamePrefix
    BY <1>5 DEF Even
  <2> HIDE DEF m, n, c, a, s
  <2>10. /\ m * a + c * a <= n * a
         /\ n = m + c => n * a = m * a + c * a
    BY <1>3, <2>4, <2>8, StrideArithmetic
  <2>11. x = m * a /\ y = n * a /\ m * a \in Nat /\ n * a \in Nat /\ c * a \in Nat
    <3>1. m * a \in Nat /\ n * a \in Nat /\ c * a \in Nat
      BY <1>3, <2>4, <2>8
    <3>2. x = m * a + 0 /\ y = n * a + 0
      BY <2>3 DEF m, n
    <3> QED
      BY <3>1, <3>2
  <2> HIDE DEF x, y
  <2>12. /\ c * unit \in Nat /\ x + c * unit <= y
         /\ Even => y = x + c * unit
    BY <2>7, <2>8, <2>9, <2>10, <2>11
  <2> QED
    BY <1>2, <2>12 DEF x, y, c
<1> QED
  BY <1>0, <1>4, <1>5

(* Where two vtables and all between them have an entry, it is as far from *)
(* the address point in the one as in the other.                           *)
LEMMA SameOffset ==
  ASSUME Indexed, NEW f \in Objects, NEW o \in Objects,
         indexIn(cloudOrder, f) <= indexIn(cloudOrder, o),
         NEW e, has(f, e), has(o, e), \A u \in between(f, o) : has(u, e)
  PROVE  newIndex(o, 0) + (newIndex(f, e) - newIndex(f, 0)) = newIndex(o, e)
<1> DEFINE c == Cardinality(between(f, o))
           x == newIndex(f, 0)
           y == newIndex(o, 0)
           xe == newIndex(f, e)
           ye == newIndex(o, e)
<1>0. Graph /\ interleave \in BOOLEAN
  BY DEF Indexed, LaidOut
<1>1. \A u \in Objects : has(u, 0)
  BY <1>0, HasZero
<1>2. x \in Nat /\ y \in Nat /\ xe \in Nat /\ ye \in Nat
  BY <1>1, Found
<1>3. c \in Nat
  BY <1>0, BetweenFinite
<1>4. CASE interleave
  <2>1. \A u \in between(f, o) : has(u, 0)
    BY <1>1 DEF between
  <2>2. /\ x = Cardinality(ahead(<<f, 0>>)) /\ y = Cardinality(ahead(<<o, 0>>))
        /\ xe = Cardinality(ahead(<<f, e>>)) /\ ye = Cardinality(ahead(<<o, e>>))
    BY <1>1, <1>4, InterleavedIndex
  <2>3. y = x + c
    BY <1>0, <1>1, <2>1, <2>2, AheadApart
  <2>4. ye = xe + c
    BY <1>0, <2>2, AheadApart
  <2> HIDE DEF x, y, xe, ye, c
  <2>5. y + (xe - x) = ye
    BY <1>2, <1>3, <2>3, <2>4
  <2> QED
    BY <2>5 DEF x, y, xe, ye
<1>5. CASE ~interleave
  <2> DEFINE s == definedOrder
             a == orderAlignment(cloud)
  <2>1. PICK q : strided(s, a, q)
    BY <1>5, OrderedIndices
  <2>2. PICK j, k \in 1..Len(s) : j <= k /\ s[j] = f /\ s[k] = o /\ c = k - j
    BY <1>0, InDefinedOrder
  <2>3. /\ x = q[j] * a + 0 /\ y = q[k] * a + 0
        /\ q[j] * a \in Nat /\ q[k] * a \in Nat
    BY <1>1, <1>5, <2>1, <2>2, OrderedIndex
  <2>4. xe = q[j] * a + e /\ ye = q[k] * a + e
    BY <1>5, <2>1, <2>2, OrderedIndex
  <2> DEFINE m == q[j] * a
             n == q[k] * a
  <2>5. e \in Int
    BY DEF has
  <2>6. m \in Nat /\ n \in Nat /\ x = m + 0 /\ y = n + 0 /\ xe = m + e /\ ye = n + e
    BY <2>3, <2>4
  <2> HIDE DEF x, y, xe, ye, c, m, n
  <2>7. y + (xe - x) = ye
    BY <1>2, <2>5, <2>6
  <2> QED
    BY <2>7 DEF x, y, xe, ye
<1> QED
  BY <1>0, <1>4, <1>5

(* The last index that a check may reach, in the ordered layout.           *)
LEMMA BoundArithmetic ==
  ASSUME NEW a \in Nat \ {0}, NEW n \in Nat, NEW j \in 1..n, NEW q \in Nat, q <= 2 * j - 1
  PROVE  q * a + n * a <= 3 * (n * a)
<1>1. q <= 2 * n /\ 2 * n \in Nat
  OBVIOUS
<1>2. q * a <= (2 * n) * a
  BY <1>1, TimesMonotonic
<1>3. (2 * n) * a = 2 * (n * a) /\ n * a \in Nat /\ q * a \in Nat
  OBVIOUS
<1> QED
  BY <1>2, <1>3

(* The array is as long as addressable allows for.                         *)
LEMMA Bound ==
  ASSUME Indexed, NEW v \in Objects
  PROVE  /\ Cardinality(Vtbl) * unit \in Nat /\ Cardinality(Vtbl) \in Nat
         /\ newIndex(v, 0) \in Nat
         /\ newIndex(v, 0) + Cardinality(Vtbl) * unit
              <= 3 * (Cardinality(Vtbl) * orderAlignment(cloud))
<1> DEFINE n == Cardinality(Vtbl)
           a == orderAlignment(cloud)
           x == newIndex(v, 0)
<1>0. Graph /\ interleave \in BOOLEAN
  BY DEF Indexed, LaidOut
<1>1. has(v, 0)
  BY <1>0, HasZero
<1>2. x \in Nat
  BY <1>1, Found
<1>3. n \in Nat /\ Cardinality(Objects) <= n /\ Cardinality(Objects) \in Nat
  BY <1>0, ObjectsFinite
<1>4. a \in Nat \ {0} /\ unit \in Nat
  BY UnitType
<1>5. CASE interleave
  <2>1. x = Cardinality(ahead(<<v, 0>>))
    BY <1>1, <1>5, InterleavedIndex
  <2>2. Cardinality(ahead(<<v, 0>>)) <= Cardinality(Entries)
    BY <1>0, AheadFinite
  <2>3. Cardinality(Entries) <= n * (2 * a) /\ Cardinality(Entries) \in Nat
    BY <1>0, EntriesFinite
  <2>4. unit = 1
    BY <1>5 DEF unit
  <2> HIDE DEF n, a, x
  <2> DEFINE t == n * a
             e == Cardinality(Entries)
  <2>5. t \in Nat /\ n * (2 * a) = 2 * t /\ n * unit = n
    BY <1>3, <1>4, <2>4
  <2>6. n <= t
    <3>1. 1 <= a /\ 1 \in Nat /\ a \in Nat
      BY <1>4
    <3>2. 1 * n <= a * n
      BY <1>3, <3>1, TimesMonotonic
    <3> QED
      BY <1>3, <1>4, <3>2
  <2>7. e \in Nat /\ x <= e /\ e <= n * (2 * a)
    BY <2>1, <2>2, <2>3
  <2> HIDE DEF t, e
  <2>8. x + n * unit <= 3 * t /\ n * unit \in Nat
    BY <1>2, <1>3, <2>5, <2>6, <2>7
  <2> QED
    BY <1>2, <1>3, <2>8 DEF n, a, x, t
<1>6. CASE ~interleave
  <2> DEFINE s == definedOrder
  <2>1. PICK q : strided(s, a, q)
    BY <1>6, OrderedIndices
  <2>2. /\ Len(s) \in Nat /\ Len(s) = Cardinality(Objects)
        /\ \E j \in 1..Len(s) : s[j] = v
    BY <1>0, DefinedOrder
  <2>3. PICK j \in 1..Len(s) : s[j] = v
    BY <2>2
  <2>4. x = q[j] * a + 0
    BY <1>1, <1>6, <2>1, <2>3, OrderedIndex
  <2>5. strides(Len(s), q)
    BY <2>1 DEF strided
  <2>6. q[j] \in Nat /\ q[j] <= 2 * j - 1
    <3> HIDE DEF s
    <3> QED
      BY <2>2, <2>5, Strides
  <2>7. j \in 1..n
    <3> HIDE DEF n, s
    <3> QED
      BY <1>3, <2>2
  <2> DEFINE m == q[j]
  <2> HIDE DEF n, a, x, m
  <2>8. m \in Nat /\ m <= 2 * j - 1
    BY <2>6 DEF m
  <2>9. m * a + n * a <= 3 * (n * a)
    BY <1>3, <1>4, <2>7, <2>8, BoundArithmetic
  <2>10. x = m * a
    <3>1. m * a \in Nat /\ x = m * a + 0
      BY <1>4, <2>4, <2>8 DEF m
    <3> QED
      BY <3>1
  <2>11. unit = a /\ n * a \in Nat
    <3>1. unit = a
      BY <1>6 DEF unit, a
    <3> QED
      BY <1>3, <1>4, <3>1
  <2>12. x + n * unit <= 3 * (n * a) /\ n * unit \in Nat
    BY <2>9, <2>10, <2>11
  <2> QED
    BY <1>2, <1>3, <2>12 DEF n, a, x
<1> QED
  BY <1>0, <1>5, <1>6

-----------------------------------------------------------------------------
(* Trees: what is derived from a vtable stands together in the pre-order.  *)

Tree == Graph /\ treeShaped(cloud)

(* nothing of the list s is derived from v                                 *)
free(v, s) == \A x \in below(cloud, v) : x \notin Range(s)

(* the members of s are v or derived from one of the first i children of v *)
amongFirst(v, i, s) ==
  \A x \in Range(s) : x = v \/ \E j \in 1..i : x \in below(cloud, children(v)[j])

(* the search from v goes on from what was visited before as from nothing  *)
goesOn(v) ==
  \A s \in Seq(Vtbl) : free(v, s) => preorderHelper[v][s] = s \o preorder(v)

(* In a tree, what derives from different children is different.           *)
LEMMA TreeChildren ==
  ASSUME Tree, NEW v \in Vtbl, NEW j \in 1..Len(children(v)), NEW i \in 1..Len(children(v))
  PROVE  /\ below(cloud, children(v)[j]) \in SUBSET below(cloud, v)
         /\ v \notin below(cloud, children(v)[j])
         /\ i # j => below(cloud, children(v)[i]) \cap below(cloud, children(v)[j]) = {}
<1>0. Graph /\ isCloud(cloud) /\ acyclic(cloud) /\ treeShaped(cloud) /\ Vtbl = DOMAIN cloud.parents
  BY DEF Tree, Graph, Vtbl
<1> DEFINE k == children(v)[j]
           l == children(v)[i]
<1>1. /\ k \in Vtbl /\ v \in cloud.parents[k] /\ l \in Vtbl /\ v \in cloud.parents[l]
      /\ i # j => l # k
  BY <1>0, Children
<1> HIDE DEF k, l
<1>2. k \in below(cloud, v)
  BY <1>0, <1>1, Below
<1>3. below(cloud, k) \in SUBSET below(cloud, v)
  BY <1>0, <1>2, BelowTrans
<1>4. v \notin below(cloud, k)
  BY <1>0, <1>1, NoCycle
<1>5. i # j => below(cloud, l) \cap below(cloud, k) = {}
  BY <1>0, <1>1, TreeApart
<1> QED
  BY <1>3, <1>4, <1>5 DEF k, l

(* the search from v, with its rounds: s is what was visited before        *)
searches(v, s, a) ==
  /\ a[0] = Append(s, v) /\ preorderHelper[v][s] = a[Len(children(v))]
  /\ \A i \in 0..Len(children(v)) : a[i] \in Seq(Vtbl)
  /\ \A i \in 1..Len(children(v)) :
       a[i] = preorderHelper[children(v)[i]][a[i - 1]]

(* The lists that a search passes through, one for each child.             *)
LEMMA Searches ==
  ASSUME Graph, NEW v \in Vtbl, NEW s \in Seq(Vtbl), v \notin Range(s)
  PROVE  \E a : searches(v, s, a)
<1> DEFINE P == preorderHelper
           c == children(v)
           x == Append(s, v)
           X == Seq(Vtbl)
<1>1. /\ \A w \in Vtbl : \A q \in Seq(Vtbl) : P[w][q] \in Seq(Vtbl)
      /\ \A w \in Vtbl : P[w] = visit(P, w)
  <2>1. /\ P \in [Vtbl -> [Seq(Vtbl) -> Seq(Vtbl)]]
        /\ \A w \in Vtbl : P[w] = visit(P, w)
    BY Visit
  <2> HIDE DEF P
  <2>2. \A w \in Vtbl : P[w] \in [Seq(Vtbl) -> Seq(Vtbl)]
    BY <2>1
  <2> QED
    BY <2>1, <2>2
<1>2. Len(c) \in Nat /\ \A i \in 1..Len(c) : c[i] \in Vtbl
  BY Children
<1>3. x \in X
  BY AppendProperties
<1>4. P[v][s] = each(P, c, x)
  <2> HIDE DEF P
  <2> QED
    BY <1>1 DEF visit
<1>5. \E a \in [0..Len(c) -> X] : Rounds(P, c, x, a)
  <2>1. Keeps(P, c, X)
    BY <1>1, <1>2 DEF Keeps
  <2> HIDE DEF X, P, c, x
  <2> QED
    BY <1>2, <1>3, <2>1, EachTyped
<1>6. PICK a \in [0..Len(c) -> X] : Rounds(P, c, x, a)
  BY <1>5
<1>7. /\ each(P, c, x) = a[Len(c)] /\ a[0] = x
      /\ \A i \in 1..Len(c) : a[i] = P[c[i]][a[i - 1]]
  BY <1>6 DEF Rounds
<1>8. \A i \in 0..Len(c) : a[i] \in X
  BY <1>6
<1>9. searches(v, s, a)
  BY <1>4, <1>7, <1>8 DEF searches
<1> QED
  BY <1>9

(* One more child.                                                         *)
LEMMA AmongMore ==
  ASSUME Graph, NEW v \in Vtbl, NEW i \in Nat, i < Len(children(v)), NEW s \in Seq(Vtbl),
         amongFirst(v, i, s), NEW t, t = preorderHelper[children(v)[i + 1]][s]
  PROVE  t \in Seq(Vtbl) /\ begins(s, t) /\ amongFirst(v, i + 1, t)
<1> DEFINE k == children(v)[i + 1]
<1>1. Len(children(v)) \in Nat /\ i + 1 \in 1..Len(children(v))
  BY Children
<1>2. k \in Vtbl
  BY <1>1, Children
<1> HIDE DEF k
<1>3. t \in Seq(Vtbl) /\ explores(k, s, t)
  BY <1>2, Explores DEF k
<1>4. /\ begins(s, t)
      /\ \A j \in 1..Len(t) : j > Len(s) => t[j] \in below(cloud, k)
  BY <1>3 DEF explores, grows
<1>5. Len(s) \in Nat /\ Len(t) \in Nat
  BY <1>3, LenProperties
<1>6. ASSUME NEW x \in Range(t)
      PROVE  x = v \/ \E j \in 1..(i + 1) : x \in below(cloud, children(v)[j])
  <2>1. PICK j \in 1..Len(t) : t[j] = x
    BY <1>3, Members
  <2>2. CASE j > Len(s)
    <3>1. x \in below(cloud, children(v)[i + 1])
      BY <1>4, <2>1, <2>2 DEF k
    <3>2. i + 1 \in 1..(i + 1)
      OBVIOUS
    <3> QED
      BY <3>1, <3>2
  <2>3. CASE j <= Len(s)
    <3>1. j \in 1..Len(s)
      BY <1>5, <2>3
    <3>2. s[j] = x
      BY <1>4, <2>1, <3>1 DEF begins
    <3>3. x \in Range(s)
      BY <3>1, <3>2, Members
    <3>4. x = v \/ \E m \in 1..i : x \in below(cloud, children(v)[m])
      BY <3>3 DEF amongFirst
    <3>5. \A m \in 1..i : m \in 1..(i + 1)
      OBVIOUS
    <3> QED
      BY <3>4, <3>5
  <2> QED
    BY <1>5, <2>2, <2>3
<1>7. amongFirst(v, i + 1, t)
  BY <1>6 DEF amongFirst
<1> QED
  BY <1>3, <1>4, <1>7

(* The list with which the search of the children starts.                  *)
LEMMA AmongStart ==
  ASSUME NEW v \in Vtbl
  PROVE  amongFirst(v, 0, Append(<<>>, v)) /\ Append(<<>>, v) \in Seq(Vtbl)
<1>1. <<>> \in Seq(Vtbl) /\ Len(<<>>) = 0
  BY EmptySeq
<1> DEFINE s == Append(<<>>, v)
<1>2. s \in Seq(Vtbl) /\ Len(s) = 1 /\ s[1] = v
  BY <1>1, Appended
<1> HIDE DEF s
<1>3. \A x \in Range(s) : x = v
  <2>1. \A x : x \in Range(s) <=> \E j \in 1..Len(s) : s[j] = x
    BY <1>2, Members
  <2> QED
    BY <1>2, <2>1
<1> QED
  BY <1>2, <1>3 DEF amongFirst, s

(* What the first children have visited is apart from the next one.        *)
LEMMA AmongFree ==
  ASSUME Tree, NEW v \in Vtbl, NEW i \in Nat, i < Len(children(v)), NEW s,
         amongFirst(v, i, s)
  PROVE  free(children(v)[i + 1], s)
<1>1. Len(children(v)) \in Nat /\ i + 1 \in 1..Len(children(v))
  BY Children DEF Tree
<1> SUFFICES ASSUME NEW x \in below(cloud, children(v)[i + 1]), x \in Range(s)
             PROVE  FALSE
  BY DEF free
<1>2. x # v
  BY <1>1, TreeChildren
<1>3. PICK j \in 1..i : x \in below(cloud, children(v)[j])
  BY <1>2 DEF amongFirst
<1>4. j \in 1..Len(children(v)) /\ j # i + 1
  BY <1>1
<1>5. below(cloud, children(v)[j]) \cap below(cloud, children(v)[i + 1]) = {}
  BY <1>1, <1>4, TreeChildren
<1> QED
  BY <1>3, <1>5

(* In a tree, a search that meets nothing it has seen appends the pre-     *)
(* order.                                                                  *)
LEMMA GoesOn ==
  ASSUME Tree
  PROVE  \A v \in Vtbl : goesOn(v)
<1> DEFINE D == {v \in Vtbl : ~goesOn(v)}
<1>0. Graph /\ isCloud(cloud) /\ Vtbl = DOMAIN cloud.parents
  BY DEF Tree, Graph, Vtbl
<1> SUFFICES ASSUME D # {}
             PROVE  FALSE
  BY DEF goesOn
<1>1. cloudMap \in [Vtbl -> SUBSET Vtbl] /\ WellFounded(Vtbl, cloudMap)
  BY KidsWellFounded DEF Tree, Graph, Vtbl
<1>2. PICK v \in D : cloudMap[v] \cap D = {}
  <2>1. D \in (SUBSET Vtbl) \ {{}}
    OBVIOUS
  <2> HIDE DEF D
  <2> QED
    BY <1>1, <2>1 DEF WellFounded
<1>3. v \in Vtbl /\ ~goesOn(v) /\ \A k \in cloudMap[v] : k \in Vtbl /\ goesOn(k)
  BY <1>1, <1>2
<1> HIDE DEF D
<1>4. PICK s \in Seq(Vtbl) : free(v, s) /\ preorderHelper[v][s] # s \o preorder(v)
  BY <1>3 DEF goesOn
<1> DEFINE c == children(v)
<1>5. Len(c) \in Nat /\ \A i \in 1..Len(c) : c[i] \in cloudMap[v]
  BY <1>0, <1>3, Children
<1>6. v \notin Range(s) /\ v \notin Range(<<>>)
  <2>1. v \in below(cloud, v)
    BY <1>0, <1>3, Below
  <2>2. v \notin Range(<<>>)
    BY DEF Range
  <2> QED
    BY <1>4, <2>1, <2>2 DEF free
<1>7. PICK a : searches(v, s, a)
  BY <1>0, <1>3, <1>4, <1>6, Searches
<1>8. PICK b : searches(v, <<>>, b)
  <2>1. <<>> \in Seq(Vtbl)
    BY EmptySeq
  <2> QED
    BY <1>0, <1>3, <1>6, <2>1, Searches
<1>9. /\ a[0] = Append(s, v) /\ preorderHelper[v][s] = a[Len(c)]
      /\ \A i \in 1..Len(c) : a[i] = preorderHelper[c[i]][a[i - 1]]
      /\ b[0] = Append(<<>>, v) /\ preorder(v) = b[Len(c)]
      /\ \A i \in 1..Len(c) : b[i] = preorderHelper[c[i]][b[i - 1]]
  BY <1>7, <1>8 DEF searches, preorder
<1> DEFINE I(i) == a[i] = s \o b[i] /\ b[i] \in Seq(Vtbl) /\ amongFirst(v, i, b[i])
           S == {i \in 0..Len(c) : I(i)}
<1>10. 0 \in S
  <2>1. amongFirst(v, 0, b[0]) /\ b[0] \in Seq(Vtbl)
    BY <1>3, <1>9, AmongStart
  <2>2. Append(s, v) = s \o Append(<<>>, v)
    OBVIOUS
  <2>3. 0 \in 0..Len(c)
    BY <1>5
  <2> QED
    BY <1>9, <2>1, <2>2, <2>3
<1>11. ASSUME NEW i \in 0..Len(c), i < Len(c), i \in S
       PROVE  i + 1 \in S
  <2> DEFINE k == c[i + 1]
             q == b[i]
             t == b[i + 1]
  <2>1. i \in Nat /\ i + 1 \in 1..Len(c) /\ i + 1 \in 0..Len(c) /\ (i + 1) - 1 = i
    BY <1>5, <1>11
  <2>2. a[i] = s \o q /\ q \in Seq(Vtbl) /\ amongFirst(v, i, q)
    BY <1>11
  <2>3. t = preorderHelper[k][q] /\ a[i + 1] = preorderHelper[k][s \o q]
    BY <1>9, <2>1, <2>2
  <2>4. t \in Seq(Vtbl) /\ amongFirst(v, i + 1, t)
    <3> HIDE DEF q, t
    <3> QED
      BY <1>0, <1>3, <1>11, <2>1, <2>2, <2>3, AmongMore
  <2>5. k \in Vtbl /\ goesOn(k) /\ preorder(k) \in Seq(Vtbl)
    <3>1. k \in cloudMap[v]
      BY <1>5, <2>1
    <3> HIDE DEF k
    <3>2. k \in Vtbl /\ goesOn(k)
      BY <1>3, <3>1
    <3> QED
      BY <1>0, <3>2, Preorder
  <2>6. free(k, q)
    <3> HIDE DEF q
    <3> QED
      BY <1>3, <1>11, <2>1, <2>2, AmongFree
  <2>7. free(k, s)
    <3>1. below(cloud, k) \in SUBSET below(cloud, v)
      BY <1>3, <2>1, TreeChildren
    <3> QED
      BY <1>4, <3>1 DEF free
  <2> HIDE DEF k, q, t
  <2>8. s \o q \in Seq(Vtbl) /\ free(k, s \o q)
    <3> DEFINE r == s \o q
    <3>1. /\ r \in Seq(Vtbl) /\ Len(r) = Len(s) + Len(q)
          /\ \A j \in 1..(Len(s) + Len(q)) : r[j] = IF j <= Len(s) THEN s[j] ELSE q[j - Len(s)]
      BY <1>4, <2>2, ConcatProperties
    <3> HIDE DEF r
    <3>2. ASSUME NEW x \in below(cloud, k), x \in Range(r)
          PROVE  FALSE
      <4>1. PICK j \in 1..Len(r) : r[j] = x
        BY <3>1, <3>2, Members
      <4>2. Len(s) \in Nat /\ Len(q) \in Nat
        BY <1>4, <2>2, LenProperties
      <4>3. CASE j <= Len(s)
        <5>1. j \in 1..Len(s) /\ s[j] = x
          BY <3>1, <4>1, <4>2, <4>3
        <5>2. x \in Range(s)
          BY <1>4, <5>1, Members
        <5> QED
          BY <2>7, <3>2, <5>2 DEF free
      <4>4. CASE ~(j <= Len(s))
        <5>1. j - Len(s) \in 1..Len(q) /\ q[j - Len(s)] = x
          BY <3>1, <4>1, <4>2, <4>4
        <5>2. x \in Range(q)
          BY <2>2, <5>1, Members
        <5> QED
          BY <2>6, <3>2, <5>2 DEF free
      <4> QED
        BY <4>3, <4>4
    <3> QED
      BY <3>1, <3>2 DEF free, r
  <2>9. preorderHelper[k][s \o q] = (s \o q) \o preorder(k) /\ preorderHelper[k][q] = q \o preorder(k)
    BY <2>2, <2>5, <2>6, <2>8 DEF goesOn
  <2>10. (s \o q) \o preorder(k) = s \o (q \o preorder(k))
    <3> DEFINE X == Vtbl
               r == preorder(k)
    <3>1. s \in Seq(X) /\ q \in Seq(X) /\ r \in Seq(X)
      BY <1>4, <2>2, <2>5
    <3> HIDE DEF X, r
    <3>2. (s \o q) \o r = s \o (q \o r)
      BY <3>1, ConcatAssociative
    <3> QED
      BY <3>2 DEF r
  <2>11. a[i + 1] = s \o t
    BY <2>3, <2>9, <2>10
  <2> QED
    BY <2>1, <2>4, <2>11 DEF t
<1> HIDE DEF S
<1>12. 0..Len(c) \subseteq S
  BY <1>5, <1>10, <1>11, UpTo
<1>13. Len(c) \in S
  BY <1>5, <1>12
<1>14. a[Len(c)] = s \o b[Len(c)]
  BY <1>13 DEF S
<1> QED
  BY <1>4, <1>9, <1>14

(* preorder(k) stands in preorder(p), after d others                       *)
infix(k, p, d) ==
  /\ d \in Nat
  /\ \A i \in 1..Len(preorder(k)) : /\ d + i \in 1..Len(preorder(p))
                                    /\ preorder(p)[d + i] = preorder(k)[i]

(* The pre-order from a child is a part of the pre-order from v.           *)
LEMMA ChildInfix ==
  ASSUME Tree, NEW v \in Vtbl, NEW n \in 1..Len(children(v))
  PROVE  \E d : infix(children(v)[n], v, d)
<1> DEFINE c == children(v)
           k == c[n]
           r == preorder(k)
<1>0. Graph /\ isCloud(cloud) /\ Vtbl = DOMAIN cloud.parents
  BY DEF Tree, Graph, Vtbl
<1>1. Len(c) \in Nat /\ k \in Vtbl
  BY <1>0, Children
<1>2. r \in Seq(Vtbl) /\ goesOn(k) /\ Len(r) \in Nat
  <2> HIDE DEF k
  <2>1. r \in Seq(Vtbl) /\ Len(r) \in Nat \ {0}
    BY <1>0, <1>1, Preorder
  <2>2. goesOn(k)
    BY <1>1, GoesOn
  <2> QED
    BY <2>1, <2>2
<1>3. PICK a : searches(v, <<>>, a)
  <2>1. <<>> \in Seq(Vtbl)
    BY EmptySeq
  <2>2. v \notin Range(<<>>)
    BY DEF Range
  <2> QED
    BY <1>0, <2>1, <2>2, Searches
<1>4. /\ a[0] = Append(<<>>, v) /\ preorder(v) = a[Len(c)]
      /\ \A i \in 1..Len(c) : a[i] = preorderHelper[c[i]][a[i - 1]]
  BY <1>3 DEF searches, preorder
<1> DEFINE I(i) == /\ a[i] \in Seq(Vtbl) /\ amongFirst(v, i, a[i])
                   /\ n <= i => begins(a[n], a[i])
           S == {i \in 0..Len(c) : I(i)}
<1>5. 0 \in S
  <2>1. amongFirst(v, 0, a[0]) /\ a[0] \in Seq(Vtbl)
    BY <1>4, AmongStart
  <2>2. 0 \in 0..Len(c) /\ ~(n <= 0)
    BY <1>1
  <2> QED
    BY <2>1, <2>2
<1>6. ASSUME NEW i \in 0..Len(c), i < Len(c), i \in S
      PROVE  i + 1 \in S
  <2> DEFINE q == a[i]
             t == a[i + 1]
  <2>1. i \in Nat /\ i + 1 \in 1..Len(c) /\ i + 1 \in 0..Len(c) /\ (i + 1) - 1 = i
    BY <1>1, <1>6
  <2>2. q \in Seq(Vtbl) /\ amongFirst(v, i, q) /\ (n <= i => begins(a[n], q))
    BY <1>6
  <2>3. t = preorderHelper[c[i + 1]][q]
    BY <1>4, <2>1
  <2> HIDE DEF q, t
  <2>4. t \in Seq(Vtbl) /\ begins(q, t) /\ amongFirst(v, i + 1, t)
    BY <1>0, <1>6, <2>1, <2>2, <2>3, AmongMore
  <2>5. n <= i + 1 => begins(a[n], t)
    <3> SUFFICES ASSUME n <= i + 1
                 PROVE  begins(a[n], t)
      OBVIOUS
    <3>1. CASE n = i + 1
      BY <3>1 DEF begins, t
    <3>2. CASE n <= i
      <4>1. begins(a[n], q) /\ begins(q, t)
        BY <2>2, <2>4, <3>2
      <4>2. a[n] \in Seq(Vtbl)
        BY <1>3 DEF searches
      <4>3. Len(a[n]) \in Nat /\ Len(q) \in Nat /\ Len(t) \in Nat
        BY <2>2, <2>4, <4>2, LenProperties
      <4> QED
        BY <4>1, <4>3 DEF begins
    <3> QED
      BY <1>1, <2>1, <3>1, <3>2
  <2> QED
    BY <2>1, <2>4, <2>5 DEF t
<1> HIDE DEF S
<1>7. 0..Len(c) \subseteq S
  BY <1>1, <1>5, <1>6, UpTo
<1> DEFINE m == n - 1
<1>8. m \in Nat /\ m < Len(c) /\ m + 1 = n /\ m \in 0..Len(c) /\ Len(c) \in 0..Len(c) /\ n <= Len(c)
  BY <1>1
<1>9. a[m] \in Seq(Vtbl) /\ amongFirst(v, m, a[m]) /\ begins(a[n], a[Len(c)]) /\ a[Len(c)] \in Seq(Vtbl)
  <2>1. m \in S /\ Len(c) \in S
    BY <1>7, <1>8
  <2> QED
    BY <1>8, <2>1 DEF S
<1>10. free(k, a[m])
  <2> HIDE DEF m
  <2>1. free(children(v)[m + 1], a[m])
    BY <1>8, <1>9, AmongFree
  <2> QED
    BY <1>8, <2>1
<1>11. a[n] = a[m] \o r
  <2>1. a[n] = preorderHelper[k][a[m]]
    BY <1>4
  <2> HIDE DEF m, k
  <2> QED
    BY <1>2, <1>9, <1>10, <2>1 DEF goesOn, k
<1> DEFINE d == Len(a[m])
           w == preorder(v)
<1>12. d \in Nat /\ Len(a[n]) = d + Len(r) /\ a[n] \in Seq(Vtbl)
       /\ \A j \in 1..(d + Len(r)) : a[n][j] = IF j <= d THEN a[m][j] ELSE r[j - d]
  <2> HIDE DEF m, r
  <2> QED
    BY <1>2, <1>9, <1>11, ConcatProperties, LenProperties
<1>13. begins(a[n], w) /\ w \in Seq(Vtbl) /\ Len(w) \in Nat
  BY <1>4, <1>9, LenProperties
<1> HIDE DEF d, w, r, m, k
<1>14. ASSUME NEW i \in 1..Len(r)
       PROVE  d + i \in 1..Len(w) /\ w[d + i] = r[i]
  <2>1. d + i \in 1..Len(a[n]) /\ ~(d + i <= d) /\ (d + i) - d = i
    BY <1>2, <1>12
  <2>2. a[n][d + i] = r[i]
    BY <1>2, <1>12, <2>1
  <2>3. d + i \in 1..Len(w) /\ w[d + i] = a[n][d + i]
    BY <1>12, <1>13, <2>1 DEF begins
  <2> QED
    BY <2>2, <2>3
<1>15. infix(k, v, d)
  BY <1>12, <1>14 DEF infix, r, w
<1> QED
  BY <1>15 DEF k

(* The pre-order from a vtable is a part of the pre-order of a tree.       *)
LEMMA Infix ==
  ASSUME Tree, NEW v \in Vtbl
  PROVE  \E d : infix(v, Root, d)
<1>0. Graph /\ isCloud(cloud) /\ acyclic(cloud) /\ Vtbl = DOMAIN cloud.parents
  BY DEF Tree, Graph, Vtbl
<1>1. below(cloud, Root) = Vtbl /\ Root \in Vtbl
  BY <1>0, AllBelowRoot
<1> DEFINE S == {w \in Vtbl : \E d : infix(w, Root, d)}
<1>2. Root \in S
  <2>1. Len(preorder(Root)) \in Nat
    BY <1>0, <1>1, Preorder
  <2>2. infix(Root, Root, 0)
    BY <2>1 DEF infix
  <2> QED
    BY <1>1, <2>2
<1>3. ASSUME NEW k \in Vtbl, NEW p \in cloud.parents[k], p \in S
      PROVE  k \in S
  <2>1. p \in Vtbl
    BY <1>3
  <2>2. PICK n \in 1..Len(children(p)) : children(p)[n] = k
    BY <1>0, <1>3, <2>1, Children
  <2>3. PICK d : infix(k, p, d)
    BY <2>1, <2>2, ChildInfix
  <2>4. PICK e : infix(p, Root, e)
    BY <1>3
  <2>5. e \in Nat /\ d \in Nat /\ Len(preorder(k)) \in Nat
    BY <1>0, <1>3, <2>3, <2>4, Preorder DEF infix
  <2>6. ASSUME NEW i \in 1..Len(preorder(k))
        PROVE  /\ (e + d) + i \in 1..Len(preorder(Root))
               /\ preorder(Root)[(e + d) + i] = preorder(k)[i]
    <3>1. d + i \in 1..Len(preorder(p)) /\ preorder(p)[d + i] = preorder(k)[i]
      BY <2>3 DEF infix
    <3>2. e + (d + i) \in 1..Len(preorder(Root)) /\ preorder(Root)[e + (d + i)] = preorder(p)[d + i]
      BY <2>4, <3>1 DEF infix
    <3>3. e + (d + i) = (e + d) + i
      BY <2>5
    <3> QED
      BY <3>1, <3>2, <3>3
  <2>7. infix(k, Root, e + d)
    BY <2>5, <2>6 DEF infix
  <2> QED
    BY <2>7
<1> HIDE DEF S
<1>4. below(cloud, Root) \subseteq S
  BY <1>0, <1>1, <1>2, <1>3, Below
<1> QED
  BY <1>1, <1>4 DEF S


(* In a tree, what derives from a vtable has positions one after the       *)
(* other.                                                                  *)
LEMMA TreeOrder ==
  ASSUME Tree, NEW v \in Vtbl
  PROVE  \E d \in Nat : \A i \in 1..Len(preorder(v)) :
           indexIn(cloudOrder, preorder(v)[i]) = d + i
<1>1. PICK d : infix(v, Root, d)
  BY Infix
<1>2. \A i \in 1..Len(cloudOrder) : indexIn(cloudOrder, cloudOrder[i]) = i
  BY CloudOrder DEF Tree
<1> DEFINE s == cloudOrder
<1>3. s = preorder(Root)
  BY DEF cloudOrder
<1> HIDE DEF s
<1>4. /\ d \in Nat
      /\ \A i \in 1..Len(preorder(v)) : d + i \in 1..Len(s) /\ s[d + i] = preorder(v)[i]
  BY <1>1, <1>3 DEF infix
<1>5. \A i \in 1..Len(preorder(v)) : indexIn(s, preorder(v)[i]) = d + i
  BY <1>2, <1>4 DEF s
<1> QED
  BY <1>4, <1>5 DEF s

(* In a tree, what lies between two vtables derived from v derives from v. *)
LEMMA Together ==
  ASSUME Tree, NEW v \in Vtbl, NEW x \in below(cloud, v), NEW z \in below(cloud, v),
         NEW y \in Vtbl, indexIn(cloudOrder, x) <= indexIn(cloudOrder, y),
         indexIn(cloudOrder, y) <= indexIn(cloudOrder, z)
  PROVE  y \in below(cloud, v)
<1>0. Graph
  BY DEF Tree
<1> DEFINE r == preorder(v)
<1>1. PICK d \in Nat : \A i \in 1..Len(r) : indexIn(cloudOrder, r[i]) = d + i
  BY TreeOrder
<1>2. r \in Seq(Vtbl) /\ Len(r) \in Nat /\ Range(r) = below(cloud, v)
  BY <1>0, Preorder
<1> HIDE DEF r
<1>3. \A u : u \in below(cloud, v) <=> \E i \in 1..Len(r) : r[i] = u
  BY <1>2, Members
<1>4. PICK i \in 1..Len(r) : r[i] = x
  BY <1>3
<1>5. PICK j \in 1..Len(r) : r[j] = z
  BY <1>3
<1> DEFINE k == indexIn(cloudOrder, y)
           n == k - d
<1>6. k \in Nat
  BY <1>0, CloudOrder
<1> HIDE DEF k
<1>7. d + i <= k /\ k <= d + j
  BY <1>1, <1>4, <1>5 DEF k
<1>8. n \in 1..Len(r) /\ d + n = k
  BY <1>2, <1>6, <1>7
<1>9. indexIn(cloudOrder, r[n]) = k
  BY <1>1, <1>8
<1>10. r[n] \in Vtbl
  BY <1>2, <1>8, Members
<1>11. r[n] = y
  BY <1>0, <1>9, <1>10, ObjectsFinite DEF k
<1> QED
  BY <1>3, <1>8, <1>11

(* The first defined child is the first defined vtable, in pre-order, that *)
(* derives from v.                                                         *)
LEMMA FirstDefined ==
  ASSUME Tree, NEW v \in Vtbl
  PROVE  /\ known(v) <=> \E u \in below(cloud, v) : u \in Objects
         /\ known(v) =>
              /\ definedOrFirst(v) \in below(cloud, v) /\ definedOrFirst(v) \in Objects
              /\ \A u \in below(cloud, v) : u \in Objects =>
                   indexIn(cloudOrder, definedOrFirst(v)) <= indexIn(cloudOrder, u)
<1>0. Graph
  BY DEF Tree
<1> DEFINE r == preorder(v)
           f == definedOrFirst(v)
<1>1. PICK d \in Nat : \A i \in 1..Len(r) : indexIn(cloudOrder, r[i]) = d + i
  BY TreeOrder
<1>2. /\ r \in Seq(Vtbl) /\ Len(r) \in Nat \ {0} /\ Range(r) = below(cloud, v)
      /\ r[1] = v /\ distinct(r)
  BY <1>0, Preorder
<1>3. \A u : u \in below(cloud, v) <=> \E i \in 1..Len(r) : r[i] = u
  BY <1>2, Members
<1>4. \A u \in below(cloud, v) : u \in Objects <=> isDefined(u)
  <2>1. below(cloud, v) \in SUBSET Vtbl
    BY <1>0, Below DEF Graph, Vtbl
  <2> QED
    BY <2>1 DEF Objects
<1>5. known(v) <=> \E u \in below(cloud, v) : u \in Objects
  <2>1. known(v) <=> \E u \in below(cloud, v) : isDefined(u)
    <3>1. v \in below(cloud, v)
      BY <1>2, <1>3
    <3> QED
      BY <1>2, <3>1 DEF known, hasFirstDefinedChild
  <2> QED
    BY <1>4, <2>1
<1> HIDE DEF r
<1>6. ASSUME known(v)
      PROVE  \E i \in 1..Len(r) : /\ r[i] = f /\ f \in Objects
                                  /\ \A j \in 1..Len(r) : r[j] \in Objects => i <= j
  <2>1. CASE isDefined(v)
    <3>1. f = v /\ 1 \in 1..Len(r)
      BY <1>2, <2>1 DEF definedOrFirst
    <3>2. v \in Objects
      BY <2>1 DEF Objects
    <3>3. \A j \in 1..Len(r) : 1 <= j
      OBVIOUS
    <3> QED
      BY <1>2, <3>1, <3>2, <3>3
  <2>2. CASE ~isDefined(v)
    <3> DEFINE S == Objects \ {v}
               kept == keptOf(r, S)
               o == only(r, S)
               X == Vtbl
    <3>1. f = o[1]
      BY <2>2 DEF definedOrFirst, getFirstDefinedChild, r
    <3>2. selects(X, r, S, kept, o)
      <4>1. r \in Seq(X)
        BY <1>2
      <4> HIDE DEF X, S
      <4> QED
        BY <4>1, Only
    <3>3. \A u : u \in S <=> u \in Objects
      BY <2>2 DEF Objects
    <3> HIDE DEF S, kept, o, X
    <3>4. /\ kept \in Seq(1..Len(r))
          /\ \A m, n \in 1..Len(kept) : m < n <=> kept[m] < kept[n]
          /\ \A i \in 1..Len(r) : r[i] \in S => \E k \in 1..Len(kept) : kept[k] = i
          /\ \A k \in 1..Len(kept) : kept[k] \in 1..Len(r) /\ o[k] = r[kept[k]] /\ o[k] \in S
      BY <3>2 DEF selects
    <3>5. Len(kept) \in Nat
      BY <3>4, LenProperties
    <3>6. \E j \in 1..Len(r) : r[j] \in S
      BY <1>3, <1>5, <1>6, <3>3
    <3>7. 1 \in 1..Len(kept)
      BY <3>4, <3>5, <3>6
    <3>8. kept[1] \in 1..Len(r) /\ o[1] = r[kept[1]] /\ o[1] \in Objects
      BY <3>3, <3>4, <3>7
    <3>9. ASSUME NEW j \in 1..Len(r), r[j] \in Objects
          PROVE  kept[1] <= j
      <4>1. PICK k \in 1..Len(kept) : kept[k] = j
        BY <3>3, <3>4, <3>9
      <4>2. k = 1 \/ 1 < k
        BY <3>5
      <4>3. 1 < k => kept[1] < kept[k]
        BY <3>4, <3>7
      <4>4. kept[1] \in Nat /\ j \in Nat
        BY <3>8
      <4> QED
        BY <4>1, <4>2, <4>3, <4>4
    <3> QED
      BY <3>1, <3>8, <3>9
  <2> QED
    BY <2>1, <2>2
<1>7. ASSUME known(v)
      PROVE  /\ f \in below(cloud, v) /\ f \in Objects
             /\ \A u \in below(cloud, v) : u \in Objects =>
                  indexIn(cloudOrder, f) <= indexIn(cloudOrder, u)
  <2>1. PICK i \in 1..Len(r) : /\ r[i] = f /\ f \in Objects
                               /\ \A j \in 1..Len(r) : r[j] \in Objects => i <= j
    BY <1>6, <1>7
  <2>2. ASSUME NEW u \in below(cloud, v), u \in Objects
        PROVE  indexIn(cloudOrder, f) <= indexIn(cloudOrder, u)
    <3>1. PICK j \in 1..Len(r) : r[j] = u
      BY <1>3
    <3>2. i <= j
      BY <2>1, <2>2, <3>1
    <3>3. indexIn(cloudOrder, f) = d + i /\ indexIn(cloudOrder, u) = d + j
      BY <1>1, <2>1, <3>1
    <3>4. d + i <= d + j
      BY <3>2
    <3> QED
      BY <3>3, <3>4
  <2> QED
    BY <1>3, <2>1, <2>2
<1> QED
  BY <1>5, <1>7

-----------------------------------------------------------------------------
(* How many defined vtables derive from a vtable.                          *)

adders(h) == [c \in Vtbl |-> [n \in Nat |-> n + h[c]]]
ownCount(v) == IF isDefined(v) THEN 1 ELSE 0

(* The counts satisfy their recursive definition.                          *)
LEMMA ChildrenCounts ==
  ASSUME Graph
  PROVE  /\ calculateChildrenCounts(cloudMap) \in [Vtbl -> Nat]
         /\ \A v \in Vtbl : calculateChildrenCounts(cloudMap)[v] =
              each(adders(calculateChildrenCounts(cloudMap)), children(v), ownCount(v))
<1> DEFINE counted(h, v) == each(adders(h), children(v), ownCount(v))
           F == [h \in [Vtbl -> Nat] |-> [v \in Vtbl |-> counted(h, v)]]
<1>1. ASSUME NEW h \in [Vtbl -> Nat], NEW v \in Vtbl
      PROVE  counted(h, v) \in Nat
  <2> DEFINE f == adders(h)
             s == children(v)
             x == ownCount(v)
             X == Nat
  <2>1. Len(s) \in Nat /\ \A n \in 1..Len(s) : s[n] \in Vtbl
    BY Children
  <2>2. Keeps(f, s, X)
    <3> HIDE DEF s
    <3>1. \A c \in Vtbl : \A n \in Nat : f[c][n] = n + h[c] /\ h[c] \in Nat
      BY DEF adders
    <3> HIDE DEF f
    <3>2. ASSUME NEW n \in 1..Len(s), NEW y \in Nat
          PROVE  f[s[n]][y] \in Nat
      <4>1. f[s[n]][y] = y + h[s[n]] /\ h[s[n]] \in Nat
        BY <2>1, <3>1
      <4> QED
        BY <4>1
    <3> QED
      BY <3>2 DEF Keeps
  <2>3. x \in X
    BY DEF ownCount
  <2> HIDE DEF f, s, x, X
  <2>4. each(f, s, x) \in X
    BY <2>1, <2>2, <2>3, EachTyped
  <2> QED
    BY <2>4 DEF f, s, x, X
<1>2. ASSUME NEW g, NEW h, NEW v \in Vtbl, \A k \in cloudMap[v] : g[k] = h[k]
      PROVE  counted(g, v) = counted(h, v)
  <2> DEFINE f == adders(g)
             e == adders(h)
             s == children(v)
             x == ownCount(v)
  <2>1. Len(s) \in Nat /\ \A n \in 1..Len(s) : s[n] \in cloudMap[v] /\ s[n] \in Vtbl
    BY Children
  <2>2. Agree(f, e, s)
    <3> HIDE DEF s
    <3>1. \A n \in 1..Len(s) : f[s[n]] = e[s[n]]
      BY <1>2, <2>1 DEF adders
    <3> QED
      BY <3>1 DEF Agree
  <2> HIDE DEF f, e, s, x
  <2>3. each(f, s, x) = each(e, s, x)
    BY <2>1, <2>2, EachSame
  <2> QED
    BY <2>3 DEF f, e, s, x
<1> HIDE DEF counted
<1>3. cloudMap \in [Vtbl -> SUBSET Vtbl] /\ WellFounded(Vtbl, cloudMap)
  BY KidsWellFounded DEF Graph, Vtbl
<1>5. F \in [[Vtbl -> Nat] -> [Vtbl -> Nat]]
  BY <1>1
<1>6. FromBelow(F, Vtbl, Nat, cloudMap)
  BY <1>2 DEF FromBelow
<1>7. PICK h \in [Vtbl -> Nat] : h = F[h]
  <2> DEFINE V == Vtbl
             T == Nat
             down == cloudMap
             t == 0
  <2>1. t \in T /\ Recursive(F, V, T, down)
    BY <1>3, <1>5, <1>6 DEF Recursive
  <2> HIDE DEF F, T, t, V, down
  <2>2. \E h \in [V -> T] : h = F[h]
    BY <2>1, Recursion
  <2> QED
    BY <2>2 DEF V, T
<1>8. h = [v \in Vtbl |-> counted(h, v)]
  BY <1>7
<1> DEFINE next(f) == [v \in Vtbl |-> counted(f, v)]
           f == CHOOSE f : f = next(f)
<1>9. calculateChildrenCounts(cloudMap) = f
  BY DEF calculateChildrenCounts, counted, adders, ownCount, children
<1>10. f = next(f)
  <2>1. h = next(h)
    BY <1>8
  <2> HIDE DEF next
  <2> QED
    BY <2>1
<1> HIDE DEF f
<1>11. \A v \in Vtbl : f[v] = counted(f, v) /\ h[v] = counted(h, v)
  BY <1>8, <1>10
<1>12. \A v \in Vtbl : f[v] = h[v]
  <2> DEFINE D == {v \in Vtbl : f[v] # h[v]}
  <2> SUFFICES ASSUME D # {}
               PROVE  FALSE
    OBVIOUS
  <2>1. D \in (SUBSET Vtbl) \ {{}}
    OBVIOUS
  <2>2. PICK v \in D : cloudMap[v] \cap D = {}
    BY <1>3, <2>1 DEF WellFounded
  <2>3. \A k \in cloudMap[v] : f[k] = h[k]
    BY <1>3, <2>2
  <2>4. counted(f, v) = counted(h, v)
    BY <1>2, <2>2, <2>3
  <2> QED
    BY <1>11, <2>2, <2>4
<1>13. f = h
  <2>1. f = [v \in Vtbl |-> f[v]] /\ h = [v \in Vtbl |-> h[v]]
    <3>1. f = [v \in Vtbl |-> counted(f, v)]
      BY <1>10
    <3> QED
      BY <1>8, <1>11, <3>1
  <2> QED
    BY <1>12, <2>1
<1> QED
  BY <1>8, <1>9, <1>11, <1>13 DEF counted

(* of v and what derives from its first i children, the defined ones       *)
countedSet(v, i) ==
  {x \in Objects : x = v \/ \E j \in 1..i : x \in below(cloud, children(v)[j])}

(* In a tree, the counts are the numbers of defined vtables that derive    *)
(* from a vtable.                                                          *)
LEMMA TreeCounts ==
  ASSUME Tree
  PROVE  \A v \in Vtbl : calculateChildrenCounts(cloudMap)[v]
                           = Cardinality(below(cloud, v) \cap Objects)
<1> DEFINE h == calculateChildrenCounts(cloudMap)
           objects(v) == below(cloud, v) \cap Objects
           D == {v \in Vtbl : h[v] # Cardinality(objects(v))}
<1>0. Graph /\ isCloud(cloud) /\ Vtbl = DOMAIN cloud.parents
  BY DEF Tree, Graph, Vtbl
<1>1. h \in [Vtbl -> Nat] /\ \A v \in Vtbl : h[v] = each(adders(h), children(v), ownCount(v))
  BY <1>0, ChildrenCounts
<1> HIDE DEF h
<1> SUFFICES ASSUME D # {}
             PROVE  FALSE
  BY DEF h
<1>2. cloudMap \in [Vtbl -> SUBSET Vtbl] /\ WellFounded(Vtbl, cloudMap)
  BY KidsWellFounded DEF Tree, Graph, Vtbl
<1>3. PICK v \in D : cloudMap[v] \cap D = {}
  <2>1. D \in (SUBSET Vtbl) \ {{}}
    OBVIOUS
  <2> HIDE DEF D
  <2> QED
    BY <1>2, <2>1 DEF WellFounded
<1>4. /\ v \in Vtbl /\ h[v] # Cardinality(objects(v))
      /\ \A k \in cloudMap[v] : k \in Vtbl /\ h[k] = Cardinality(objects(k))
  BY <1>2, <1>3
<1> HIDE DEF D
<1> DEFINE c == children(v)
<1>5. /\ Len(c) \in Nat /\ \A i \in 1..Len(c) : c[i] \in cloudMap[v] /\ c[i] \in Vtbl
      /\ \A k \in Vtbl : v \in cloud.parents[k] => \E n \in 1..Len(c) : c[n] = k
  BY <1>0, <1>4, Children
<1>6. PICK a : Rounds(adders(h), c, ownCount(v), a)
  BY <1>5, Each
<1>7. /\ h[v] = a[Len(c)] /\ a[0] = ownCount(v)
      /\ \A n \in 1..Len(c) : a[n] = adders(h)[c[n]][a[n - 1]]
  BY <1>1, <1>4, <1>6 DEF Rounds
<1>8. \A n \in 1..Len(c) : a[n - 1] \in Nat => a[n] = a[n - 1] + h[c[n]]
  BY <1>5, <1>7 DEF adders
<1>9. IsFiniteSet(Objects) /\ Objects \in SUBSET Vtbl
  BY <1>0, ObjectsFinite
<1>10. \A i : IsFiniteSet(countedSet(v, i)) /\ Cardinality(countedSet(v, i)) \in Nat
  <2> TAKE i
  <2>1. countedSet(v, i) \in SUBSET Objects
    BY DEF countedSet
  <2> QED
    BY <1>9, <2>1, FS_Subset, FS_CardinalityType
<1> DEFINE S == {i \in 0..Len(c) : a[i] = Cardinality(countedSet(v, i))}
<1>11. 0 \in S
  <2>1. 0 \in 0..Len(c)
    BY <1>5
  <2>2. countedSet(v, 0) = IF isDefined(v) THEN {v} ELSE {}
    BY <1>4 DEF countedSet, Objects
  <2>3. Cardinality(countedSet(v, 0)) = ownCount(v)
    <3>1. isDefined(v) => Cardinality({v}) = 1
      BY FS_Singleton
    <3>2. Cardinality({}) = 0
      BY FS_EmptySet
    <3> QED
      BY <2>2, <3>1, <3>2 DEF ownCount
  <2> QED
    BY <1>7, <2>1, <2>3
<1>12. ASSUME NEW i \in 0..Len(c), i < Len(c), i \in S
       PROVE  i + 1 \in S
  <2> DEFINE k == c[i + 1]
             A == countedSet(v, i)
             B == objects(k)
  <2>1. i \in Nat /\ i + 1 \in 1..Len(c) /\ i + 1 \in 0..Len(c) /\ (i + 1) - 1 = i
    BY <1>5, <1>12
  <2>2. a[i] = Cardinality(A)
    BY <1>12
  <2>3. k \in cloudMap[v] /\ h[k] = Cardinality(B)
    BY <1>4, <1>5, <2>1
  <2>4. a[i + 1] = a[i] + h[k]
    <3>1. a[i] \in Nat
      BY <1>10, <2>2
    <3> QED
      BY <1>8, <2>1, <3>1
  <2>5. countedSet(v, i + 1) = A \cup B
    <3>1. \A j \in 1..(i + 1) : j \in 1..i \/ j = i + 1
      BY <2>1
    <3>2. \A j \in 1..i : j \in 1..(i + 1)
      BY <2>1
    <3>3. i + 1 \in 1..(i + 1)
      BY <2>1
    <3> QED
      BY <3>1, <3>2, <3>3 DEF countedSet
  <2>6. A \cap B = {}
    <3> SUFFICES ASSUME NEW x \in A, x \in below(cloud, k)
                 PROVE  FALSE
      OBVIOUS
    <3>1. x # v
      BY <1>4, <2>1, TreeChildren
    <3>2. PICK j \in 1..i : x \in below(cloud, c[j])
      BY <3>1 DEF countedSet
    <3>3. j \in 1..Len(c) /\ j # i + 1
      BY <1>5, <2>1
    <3>4. below(cloud, c[j]) \cap below(cloud, c[i + 1]) = {}
      BY <1>4, <2>1, <3>3, TreeChildren
    <3> QED
      BY <3>2, <3>4
  <2>7. IsFiniteSet(A) /\ IsFiniteSet(B) /\ Cardinality(A) \in Nat /\ Cardinality(B) \in Nat
    <3>1. B \in SUBSET Objects
      OBVIOUS
    <3> QED
      BY <1>9, <1>10, <3>1, FS_Subset, FS_CardinalityType
  <2> HIDE DEF A, B
  <2>8. Cardinality(A \cup B) = Cardinality(A) + Cardinality(B) - Cardinality(A \cap B)
    BY <2>7, FS_Union
  <2>9. Cardinality(A \cap B) = 0
    BY <2>6, FS_EmptySet
  <2>10. Cardinality(A \cup B) = Cardinality(A) + Cardinality(B)
    BY <2>7, <2>8, <2>9
  <2>11. a[i + 1] = Cardinality(countedSet(v, i + 1))
    BY <2>2, <2>3, <2>4, <2>5, <2>10
  <2> QED
    BY <2>1, <2>11
<1> HIDE DEF S
<1>13. 0..Len(c) \subseteq S
  BY <1>5, <1>11, <1>12, UpTo
<1>14. h[v] = Cardinality(countedSet(v, Len(c)))
  <2>1. Len(c) \in S
    BY <1>5, <1>13
  <2> QED
    BY <1>7, <2>1 DEF S
<1>15. countedSet(v, Len(c)) = objects(v)
  <2>1. \A x \in countedSet(v, Len(c)) : x \in objects(v)
    <3>1. \A j \in 1..Len(c) : below(cloud, c[j]) \in SUBSET below(cloud, v)
      BY <1>4, TreeChildren
    <3>2. v \in below(cloud, v)
      BY <1>0, <1>4, Below
    <3> QED
      BY <3>1, <3>2 DEF countedSet
  <2>2. ASSUME NEW x \in objects(v)
        PROVE  x \in countedSet(v, Len(c))
    <3>1. CASE x = v
      BY <3>1 DEF countedSet
    <3>2. CASE x # v
      <4>1. PICK k \in Vtbl : v \in cloud.parents[k] /\ x \in below(cloud, k)
        BY <1>0, <1>4, <3>2, BelowFirst
      <4>2. PICK n \in 1..Len(c) : c[n] = k
        BY <1>5, <4>1
      <4>3. x \in Objects /\ x \in below(cloud, children(v)[n])
        BY <4>1, <4>2
      <4> QED
        BY <4>3 DEF countedSet
    <3> QED
      BY <3>1, <3>2
  <2> QED
    BY <2>1, <2>2
<1> QED
  BY <1>4, <1>14, <1>15

-----------------------------------------------------------------------------
(* The finished layout.                                                    *)

Finished ==
  /\ Indexed /\ addressable(cloud) /\ derivedTogether(cloud)
  /\ cloudSizeMap = calculateChildrenCounts(cloudMap)
  /\ alignment = unit * WORD_WIDTH
  /\ newVTableStartAddrMap = [v \in Objects |-> newIndex(v, 0)]
  /\ rangeMap = calculateVPtrRangesHelper(cloudOrder)
  /\ memRangeMap = [v \in Vtbl |-> memRanges(cloudOrder, rangeMap[v])]

(* What is a multiple of eight alignments is a multiple of eight.          *)
LEMMA FactorAligns ==
  ASSUME NEW w \in Nat, NEW a \in Nat \ {0}, w % (8 * a) = 0
  PROVE  w % 8 = 0
<1> DEFINE b == 8 * a
           q == w \div b
<1>1. b \in Nat \ {0}
  OBVIOUS
<1> HIDE DEF b
<1>2. q \in Nat /\ w = q * b + (w % b)
  BY <1>1, Division
<1>3. w % b = 0
  BY DEF b
<1> HIDE DEF q
<1>4. w = q * b
  <2>1. q * b \in Nat
    BY <1>1, <1>2
  <2> QED
    BY <1>2, <1>3, <2>1
<1>5. w = (q * a) * 8 /\ q * a \in Nat
  <2>1. q * b = (q * a) * 8
    BY <1>2 DEF b
  <2> QED
    BY <1>2, <1>4, <2>1
<1>6. 8 \in Nat \ {0}
  OBVIOUS
<1> DEFINE c == q * a
<1> HIDE DEF c
<1>7. c \in Nat /\ w = c * 8
  BY <1>5 DEF c
<1>8. (c * 8) % 8 = 0
  BY <1>6, <1>7, DivisionExact
<1> QED
  BY <1>7, <1>8

(* An address that a check may reach is a word.                            *)
LEMMA AddressArithmetic ==
  ASSUME NEW x \in Nat, NEW n \in Nat, NEW u \in Nat, NEW a \in Nat, NEW w \in 0..n,
         x + n * u <= 3 * (n * a), 3 * n * (8 * a) < Word64
  PROVE  x * 8 + w * (u * 8) < Word64 /\ x * 8 \in Word
<1>1. w * u <= n * u
  BY TimesMonotonic
<1>2. w * u \in Nat /\ n * u \in Nat /\ n * a \in Nat /\ Word64 \in Nat
  BY Word64Assumption
<1>3. w * (u * 8) = 8 * (w * u) /\ 3 * n * (8 * a) = 24 * (n * a)
  OBVIOUS
<1> DEFINE p == w * u
           q == n * u
           r == n * a
<1> HIDE DEF p, q, r
<1>4. /\ p \in Nat /\ q \in Nat /\ r \in Nat /\ p <= q
      /\ x + q <= 3 * r /\ 24 * r < Word64
  BY <1>1, <1>2, <1>3 DEF p, q, r
<1>5. x * 8 + 8 * p < Word64 /\ x * 8 \in 0..(Word64 - 1)
  BY <1>2, <1>4
<1> QED
  BY <1>3, <1>5 DEF p, Word

(* Vtable pointers, and the ends of what is compared with them, are words. *)
LEMMA Addresses ==
  ASSUME Finished
  PROVE  /\ alignment \in Alignments /\ alignment = unit * 8
         /\ \A v \in Objects :
              /\ newIndex(v, 0) \in Nat
              /\ vptrOf(v) = newIndex(v, 0) * 8 /\ vptrOf(v) \in Word
              /\ address(newIndex(v, 0)) = vptrOf(v)
              /\ \A w \in 0..Cardinality(Vtbl) : vptrOf(v) + w * alignment < Word64
<1> DEFINE a == orderAlignment(cloud)
           n == Cardinality(Vtbl)
<1>1. /\ Indexed /\ alignment = unit * 8
      /\ newVTableStartAddrMap = [v \in Objects |-> newIndex(v, 0)]
      /\ Word64 % (8 * a) = 0 /\ 3 * n * (8 * a) < Word64
  BY DEF Finished, WORD_WIDTH, addressable, Vtbl
<1>2. /\ unit \in Nat \ {0} /\ a \in Nat \ {0} /\ interleave \in BOOLEAN
      /\ unit = IF interleave THEN 1 ELSE a
  BY <1>1, UnitType DEF unit, Indexed, LaidOut
<1> HIDE DEF a
<1>3. alignment \in Alignments
  <2>1. Word64 % 8 = 0
    BY <1>1, <1>2, Word64Assumption, FactorAligns
  <2>2. alignment = 8 \/ alignment = 8 * a
    BY <1>1, <1>2
  <2>3. alignment \in Nat \ {0}
    BY <1>1, <1>2
  <2> QED
    BY <1>1, <2>1, <2>2, <2>3 DEF Alignments
<1>4. ASSUME NEW v \in Objects
      PROVE  /\ newIndex(v, 0) \in Nat
             /\ vptrOf(v) = newIndex(v, 0) * 8 /\ vptrOf(v) \in Word
             /\ address(newIndex(v, 0)) = vptrOf(v)
             /\ \A w \in 0..n : vptrOf(v) + w * alignment < Word64
  <2> DEFINE x == newIndex(v, 0)
  <2>1. x \in Nat /\ n \in Nat /\ x + n * unit <= 3 * (n * a)
    BY <1>1, Bound DEF a
  <2>2. vptrOf(v) = x * 8 /\ address(x) = x * 8
    BY <1>1 DEF vptrOf, address, WORD_WIDTH
  <2> HIDE DEF x, n
  <2>3. ASSUME NEW w \in 0..n
        PROVE  x * 8 + w * (unit * 8) < Word64 /\ x * 8 \in Word
    <3> DEFINE u == unit
    <3>1. u \in Nat /\ a \in Nat /\ x + n * u <= 3 * (n * a)
      BY <1>2, <2>1
    <3> HIDE DEF u
    <3>2. x * 8 + w * (u * 8) < Word64 /\ x * 8 \in Word
      BY <1>1, <2>1, <3>1, AddressArithmetic
    <3> QED
      BY <3>2 DEF u
  <2>4. 0 \in 0..n
    BY <2>1
  <2> QED
    BY <1>1, <2>1, <2>2, <2>3, <2>4 DEF x
<1> QED
  BY <1>1, <1>3, <1>4

(* Addresses compare as the indices do.                                    *)
LEMMA ScaleCancels ==
  ASSUME NEW x \in Nat, NEW y \in Nat, NEW i \in Nat, NEW u \in Nat
  PROVE  x * 8 = y * 8 + i * (u * 8) <=> x = y + i * u
<1> DEFINE p == i * u
<1>1. p \in Nat /\ i * (u * 8) = 8 * p
  OBVIOUS
<1> HIDE DEF p
<1>2. x * 8 = y * 8 + 8 * p <=> x = y + p
  BY <1>1
<1> QED
  BY <1>1, <1>2 DEF p

(* The checks, in terms of the indices of address points: object o against *)
(* w vtables from f on.                                                    *)
LEMMA ChecksOnIndices ==
  ASSUME Finished, NEW o \in Objects, NEW f \in Objects,
         NEW w \in 1..Cardinality(Vtbl)
  PROVE  /\ sd_subst_check_range(vptrOf(o), vptrOf(f), w, alignment)
              <=> \E i \in 0..(IF w = 1 THEN 0 ELSE w) :
                    newIndex(o, 0) = newIndex(f, 0) + i * unit
         /\ type_casting_verification_ranged(vptrOf(o), vptrOf(f), w, alignment)
              <=> \E i \in 0..(w - 1) : newIndex(o, 0) = newIndex(f, 0) + i * unit
<1> DEFINE x == vptrOf(o)
           y == vptrOf(f)
           k == newIndex(o, 0)
           l == newIndex(f, 0)
           u == unit
<1>0. Cardinality(Vtbl) \in Nat
  BY ObjectsFinite DEF Finished, Indexed, LaidOut
<1>1. /\ alignment \in Alignments /\ alignment = u * 8
      /\ x \in Word /\ y \in Word /\ k \in Nat /\ l \in Nat
      /\ x = k * 8 /\ y = l * 8
      /\ \A j \in 0..Cardinality(Vtbl) : y + j * alignment < Word64
  BY Addresses
<1>u. u \in Nat
  BY UnitType DEF Finished
<1>w. w \in Nat \ {0} /\ w \in 0..Cardinality(Vtbl) /\ w - 1 \in 0..Cardinality(Vtbl)
  BY <1>0
<1> HIDE DEF x, y, k, l, u
<1>2. y + w * alignment < Word64 /\ y + (w - 1) * alignment < Word64
  BY <1>1, <1>w
<1>3. ASSUME NEW i \in Nat
      PROVE  x = y + i * alignment <=> k = l + i * u
  BY <1>1, <1>u, ScaleCancels
<1>4. sd_subst_check_range(x, y, w, alignment)
        <=> \E i \in 0..(IF w = 1 THEN 0 ELSE w) : x = y + i * alignment
  <2>1. x \in Word /\ y \in Word /\ alignment \in Alignments /\ w \in Nat \ {0}
        /\ y + (w * alignment) < Word64
    BY <1>1, <1>2, <1>w
  <2> QED
    BY <2>1, CallCheckExact
<1>5. type_casting_verification_ranged(x, y, w, alignment)
        <=> \E i \in 0..(w - 1) : x = y + i * alignment
  <2>1. x \in Word /\ y \in Word /\ alignment \in Alignments /\ w \in Nat \ {0}
        /\ y + ((w - 1) * alignment) < Word64
    BY <1>1, <1>2, <1>w
  <2> QED
    BY <2>1, CastCheckExact
<1>6. \A i \in 0..(IF w = 1 THEN 0 ELSE w) : i \in Nat
  OBVIOUS
<1>7. \A i \in 0..(w - 1) : i \in Nat
  OBVIOUS
<1>8. sd_subst_check_range(x, y, w, alignment)
        <=> \E i \in 0..(IF w = 1 THEN 0 ELSE w) : k = l + i * u
  BY <1>3, <1>4, <1>6
<1>9. type_casting_verification_ranged(x, y, w, alignment)
        <=> \E i \in 0..(w - 1) : k = l + i * u
  BY <1>3, <1>5, <1>7
<1> QED
  BY <1>8, <1>9 DEF x, y, k, l, u

-----------------------------------------------------------------------------
(* Ranges of addresses.                                                    *)

inside(u, g) == g[1] <= indexIn(cloudOrder, u) /\ indexIn(cloudOrder, u) < g[2]
objectsIn(g) == {u \in Objects : inside(u, g)}

(* r is the range of addresses of the range g of positions, the first      *)
(* defined vtable of which is f.                                           *)
standsFor(r, g, f) ==
  /\ f \in objectsIn(g)
  /\ \A u \in objectsIn(g) : indexIn(cloudOrder, f) <= indexIn(cloudOrder, u)
  /\ r[1] = newIndex(f, 0) /\ r[2] = Cardinality(objectsIn(g))

(* The defined positions of a range.                                       *)
LEMMA DefinedIn ==
  ASSUME Graph, NEW g \in Nat \X Nat,
         \A i \in g[1]..(g[2] - 1) : i \in 1..Len(cloudOrder)
  PROVE  /\ definedIn(cloudOrder, g) # <<>> <=> objectsIn(g) # {}
         /\ Len(definedIn(cloudOrder, g)) = Cardinality(objectsIn(g))
         /\ objectsIn(g) # {} =>
              /\ cloudOrder[definedIn(cloudOrder, g)[1]] \in objectsIn(g)
              /\ \A u \in objectsIn(g) :
                   indexIn(cloudOrder, cloudOrder[definedIn(cloudOrder, g)[1]])
                     <= indexIn(cloudOrder, u)
<1> DEFINE p == cloudOrder
           I == {i \in g[1]..(g[2] - 1) : isDefined(p[i])}
           s == definedIn(p, g)
           B == objectsIn(g)
<1>1. /\ \A v \in Vtbl : indexIn(p, v) \in 1..Len(p) /\ p[indexIn(p, v)] = v
      /\ \A i \in 1..Len(p) : indexIn(p, p[i]) = i
      /\ \A i \in 1..Len(p) : p[i] \in Vtbl
  <2>1. p \in Seq(Vtbl)
    BY CloudOrder
  <2> HIDE DEF p
  <2>2. \A i \in 1..Len(p) : p[i] \in Vtbl
    BY <2>1, Members
  <2> QED
    BY <2>2, CloudOrder DEF p
<1> HIDE DEF p
<1>2. s = ascending(I)
  BY DEF definedIn
<1>3. g[1] \in Nat /\ g[2] \in Nat
  OBVIOUS
<1>4. IsFiniteSet(I) /\ I \in SUBSET Int
  <2>1. IsFiniteSet(g[1]..(g[2] - 1))
    BY <1>3, FS_Interval
  <2>2. I \in SUBSET (g[1]..(g[2] - 1)) /\ I \in SUBSET Int
    BY <1>3
  <2> QED
    BY <2>1, <2>2, FS_Subset
<1>5. ASSUME NEW i \in I
      PROVE  p[i] \in B /\ indexIn(p, p[i]) = i
  <2>1. i \in 1..Len(p) /\ g[1] <= i /\ i < g[2] /\ isDefined(p[i])
    BY <1>3 DEF p
  <2>2. p[i] \in Vtbl /\ indexIn(p, p[i]) = i
    BY <1>1, <2>1
  <2> QED
    BY <2>1, <2>2 DEF objectsIn, inside, Objects, p
<1>6. ASSUME NEW u \in B
      PROVE  indexIn(p, u) \in I /\ p[indexIn(p, u)] = u
  <2>1. u \in Vtbl /\ isDefined(u) /\ g[1] <= indexIn(p, u) /\ indexIn(p, u) < g[2]
    BY DEF objectsIn, inside, Objects, p
  <2>2. indexIn(p, u) \in 1..Len(p) /\ p[indexIn(p, u)] = u
    BY <1>1, <2>1
  <2> QED
    BY <1>3, <2>1, <2>2
<1>7. IsFiniteSet(B)
  <2>1. B \in SUBSET Objects
    BY DEF objectsIn
  <2> QED
    BY <2>1, ObjectsFinite, FS_Subset
<1>8. Cardinality(I) = Cardinality(B)
  <2> DEFINE h == [i \in I |-> p[i]]
  <2>1. h \in Injection(I, B) /\ h \in Surjection(I, B)
    <3>1. h \in [I -> B] /\ \A i, j \in I : h[i] = h[j] => i = j
      BY <1>5
    <3>2. \A u \in B : \E i \in I : h[i] = u
      BY <1>6
    <3> QED
      BY <3>1, <3>2 DEF Injection, IsInjective, Surjection
  <2>2. ExistsBijection(I, B)
    BY <2>1 DEF ExistsBijection, Bijection
  <2> HIDE DEF I, B, h
  <2> QED
    BY <1>4, <1>7, <2>2, FS_SameCardinalityBij, FS_Bijection
<1> HIDE DEF I, B, s
<1>9. /\ Cardinality(I) \in Nat
      /\ s \in Seq(I) /\ Len(s) = Cardinality(I)
      /\ Range(s) = I
      /\ \A m, n \in 1..Cardinality(I) : m < n <=> s[m] < s[n]
  BY <1>2, <1>4, Ascending
<1>10. \A x : x \in I <=> \E j \in 1..Len(s) : s[j] = x
  BY <1>9, Members
<1>11. s # <<>> <=> I # {}
  <2>1. s = <<>> <=> Len(s) = 0
    BY <1>9, EmptySeq
  <2>2. Len(s) # 0 => 1 \in 1..Len(s)
    BY <1>9
  <2>3. \A j \in 1..Len(s) : Len(s) # 0
    BY <1>9
  <2>4. Len(s) # 0 <=> I # {}
    BY <1>10, <2>2, <2>3
  <2> QED
    BY <2>1, <2>4
<1>12. I # {} <=> B # {}
  BY <1>5, <1>6
<1>13. ASSUME B # {}
       PROVE  p[s[1]] \in B /\ \A u \in B : indexIn(p, p[s[1]]) <= indexIn(p, u)
  <2>1. 1 \in 1..Len(s) /\ s[1] \in I
    <3>1. Len(s) # 0
      BY <1>10, <1>12, <1>13
    <3>2. 1 \in 1..Len(s)
      BY <1>9, <3>1
    <3> QED
      BY <1>10, <3>2
  <2>2. p[s[1]] \in B /\ indexIn(p, p[s[1]]) = s[1]
    BY <1>5, <2>1
  <2>3. ASSUME NEW u \in B
        PROVE  s[1] <= indexIn(p, u)
    <3>1. indexIn(p, u) \in I
      BY <1>6
    <3>2. PICK j \in 1..Len(s) : s[j] = indexIn(p, u)
      BY <1>10, <3>1
    <3>3. j = 1 \/ s[1] < s[j]
      BY <1>9, <2>1
    <3>4. s[1] \in Int /\ s[j] \in Int
      BY <1>4, <2>1, <3>1, <3>2
    <3> QED
      BY <3>2, <3>3, <3>4
  <2> QED
    BY <2>2, <2>3
<1> QED
  BY <1>8, <1>9, <1>11, <1>12, <1>13 DEF s, B, p


(* The ranges of the finished layout.                                      *)
LEMMA RangeFacts ==
  ASSUME Finished, NEW v \in Vtbl, NEW d, d = rangeMap[v]
  PROVE  /\ d \in Seq(Nat \X Nat) /\ separate(d) /\ Len(d) \in Nat
         /\ \A k \in 1..Len(d) :
              /\ d[k] \in Nat \X Nat
              /\ \A u \in Vtbl : inside(u, d[k]) => u \in below(cloud, v)
              /\ \A i \in d[k][1]..(d[k][2] - 1) : i \in 1..Len(cloudOrder)
         /\ \A u \in below(cloud, v) : u \in Vtbl /\ \E k \in 1..Len(d) : inside(u, d[k])
<1>0. Graph /\ d = calculateVPtrRangesHelper(cloudOrder)[v]
  BY DEF Finished, Indexed, LaidOut
<1>1. ranged(v, d)
  BY <1>0, Ranged
<1>2. /\ d \in Seq(Nat \X Nat) /\ separate(d)
      /\ \A x \in Int : holds(d, x) <=> \E w \in below(cloud, v) : x = indexIn(cloudOrder, w)
  BY <1>1 DEF ranged
<1>3. Len(d) \in Nat /\ \A k \in 1..Len(d) : d[k] \in Nat \X Nat
  BY <1>2, Members
<1>4. below(cloud, v) \in SUBSET Vtbl
  BY <1>0, Below DEF Graph, Vtbl
<1>5. \A u \in Vtbl : indexIn(cloudOrder, u) \in 1..Len(cloudOrder)
  BY <1>0, CloudOrder
<1>a. \A u \in Vtbl : indexIn(cloudOrder, u) \in Nat
  BY <1>5
<1>6. ASSUME NEW k \in 1..Len(d)
      PROVE  /\ \A u \in Vtbl : inside(u, d[k]) => u \in below(cloud, v)
             /\ \A i \in d[k][1]..(d[k][2] - 1) : i \in 1..Len(cloudOrder)
  <2>1. ASSUME NEW u \in Vtbl, inside(u, d[k])
        PROVE  u \in below(cloud, v)
    <3>1. holds(d, indexIn(cloudOrder, u))
      BY <2>1 DEF holds, inside
    <3>2. PICK w \in below(cloud, v) : indexIn(cloudOrder, u) = indexIn(cloudOrder, w)
      BY <1>2, <1>a, <3>1
    <3>3. u = w
      BY <1>0, <1>4, <3>2, ObjectsFinite
    <3> QED
      BY <3>3
  <2>2. ASSUME NEW i \in d[k][1]..(d[k][2] - 1)
        PROVE  i \in 1..Len(cloudOrder)
    <3>1. d[k][1] \in Nat /\ d[k][2] \in Nat
      BY <1>3
    <3>2. i \in Int /\ d[k][1] <= i /\ i < d[k][2]
      BY <3>1
    <3>3. holds(d, i)
      BY <3>2 DEF holds
    <3>4. PICK w \in below(cloud, v) : i = indexIn(cloudOrder, w)
      BY <1>2, <3>2, <3>3
    <3> QED
      BY <1>4, <1>5, <3>4
  <2> QED
    BY <2>1, <2>2
<1>7. ASSUME NEW u \in below(cloud, v)
      PROVE  u \in Vtbl /\ \E k \in 1..Len(d) : inside(u, d[k])
  <2>1. u \in Vtbl /\ indexIn(cloudOrder, u) \in Int
    BY <1>4, <1>a
  <2>2. holds(d, indexIn(cloudOrder, u))
    BY <1>2, <2>1
  <2> QED
    BY <2>1, <2>2 DEF holds, inside
<1> QED
  BY <1>2, <1>3, <1>6, <1>7

(* m has a range of addresses for each range of d with defined vtables     *)
translated(d, m) ==
  /\ m \in Seq(Nat \X Nat)
  /\ \A r \in Range(m) : \E k \in 1..Len(d) : \E f \in Objects : standsFor(r, d[k], f)
  /\ \A k \in 1..Len(d) : objectsIn(d[k]) # {} =>
       \E r \in Range(m) : \E f \in Objects : standsFor(r, d[k], f)

(* The ranges of addresses of the finished layout stand for the ranges of  *)
(* positions with a defined vtable.                                        *)
LEMMA MemRanges ==
  ASSUME Finished, NEW v \in Vtbl
  PROVE  translated(rangeMap[v], memRangeMap[v])
<1> DEFINE d == rangeMap[v]
           p == cloudOrder
           D == {r \in Range(d) : definedIn(p, r) # <<>>}
           s == only(d, D)
           first(r) == p[definedIn(p, r)[1]]
           m == [k \in DOMAIN s |-> <<newVTableStartAddrMap[first(s[k])], Len(definedIn(p, s[k]))>>]
           X == Nat \X Nat
<1>0. Graph /\ newVTableStartAddrMap = [u \in Objects |-> newIndex(u, 0)]
  BY DEF Finished, Indexed, LaidOut
<1>1. memRangeMap[v] = m
  BY DEF Finished, memRanges
<1>2. /\ d \in Seq(X) /\ Len(d) \in Nat
      /\ \A k \in 1..Len(d) :
           /\ d[k] \in X
           /\ \A i \in d[k][1]..(d[k][2] - 1) : i \in 1..Len(p)
  BY RangeFacts
<1> HIDE DEF d
<1>3. ASSUME NEW k \in 1..Len(d)
      PROVE  /\ definedIn(p, d[k]) # <<>> <=> objectsIn(d[k]) # {}
             /\ Len(definedIn(p, d[k])) = Cardinality(objectsIn(d[k]))
             /\ objectsIn(d[k]) # {} =>
                  /\ first(d[k]) \in objectsIn(d[k])
                  /\ \A u \in objectsIn(d[k]) :
                       indexIn(p, first(d[k])) <= indexIn(p, u)
  <2> DEFINE g == d[k]
  <2>1. g \in Nat \X Nat /\ \A i \in g[1]..(g[2] - 1) : i \in 1..Len(cloudOrder)
    BY <1>2
  <2> HIDE DEF g
  <2> QED
    BY <1>0, <2>1, DefinedIn DEF g
<1> DEFINE kept == keptOf(d, D)
<1>4. selects(X, d, D, kept, s)
  <2> HIDE DEF X, D
  <2> QED
    BY <1>2, Only
<1>5. \A r \in Range(d) : r \in D <=> definedIn(p, r) # <<>>
  OBVIOUS
<1> HIDE DEF D, s, kept
<1>6. /\ s \in Seq(X \cap D) /\ Len(s) = Len(kept) /\ Len(kept) \in Nat
      /\ \A i \in 1..Len(d) : d[i] \in D => \E k \in 1..Len(kept) : kept[k] = i
      /\ \A k \in 1..Len(kept) : kept[k] \in 1..Len(d) /\ s[k] = d[kept[k]] /\ s[k] \in D
  <2>1. kept \in Seq(1..Len(d))
    BY <1>4 DEF selects
  <2>2. Len(kept) \in Nat
    BY <2>1, LenProperties
  <2> QED
    BY <1>4, <2>2 DEF selects
<1>7. DOMAIN s = 1..Len(s) /\ Len(s) \in Nat
  BY <1>6, Members
<1>8. \A k \in 1..Len(d) : d[k] \in Range(d)
  BY <1>2, Members
<1>9. ASSUME NEW k \in 1..Len(s)
      PROVE  /\ kept[k] \in 1..Len(d) /\ s[k] = d[kept[k]] /\ objectsIn(s[k]) # {}
             /\ first(s[k]) \in Objects
             /\ standsFor(m[k], s[k], first(s[k]))
             /\ m[k] \in X
  <2> DEFINE g == s[k]
             f == first(g)
  <2>1. kept[k] \in 1..Len(d) /\ g = d[kept[k]] /\ g \in D
    BY <1>6
  <2>2. definedIn(p, g) # <<>>
    BY <1>5, <1>8, <2>1
  <2>3. /\ objectsIn(g) # {} /\ Len(definedIn(p, g)) = Cardinality(objectsIn(g))
        /\ f \in objectsIn(g)
        /\ \A u \in objectsIn(g) : indexIn(p, f) <= indexIn(p, u)
    BY <1>3, <2>1, <2>2
  <2>4. m[k] = <<newVTableStartAddrMap[f], Len(definedIn(p, g))>>
    BY <1>7
  <2>5. f \in Objects
    BY <2>3 DEF objectsIn
  <2>6. newVTableStartAddrMap[f] = newIndex(f, 0) /\ newIndex(f, 0) \in Nat
    <3>1. newIndex(f, 0) \in Nat
      BY <2>5, Addresses
    <3> QED
      BY <1>0, <2>5, <3>1
  <2>7. Cardinality(objectsIn(g)) \in Nat
    <3>1. objectsIn(g) \in SUBSET Objects
      BY DEF objectsIn
    <3> QED
      BY <1>0, <3>1, ObjectsFinite, FS_Subset, FS_CardinalityType
  <2> HIDE DEF f, g, m
  <2>8. standsFor(m[k], g, f) /\ m[k] \in X
    BY <2>3, <2>4, <2>6, <2>7 DEF standsFor
  <2> QED
    BY <2>1, <2>3, <2>5, <2>8 DEF f, g
<1>10. m \in Seq(X) /\ Len(m) = Len(s)
  <2>1. m = [k \in 1..Len(s) |-> m[k]]
    BY <1>7
  <2> HIDE DEF m, X
  <2>2. m \in [1..Len(s) -> X]
    BY <1>9, <2>1
  <2> QED
    BY <1>7, <2>2
<1> HIDE DEF m, first
<1>11. \A r : r \in Range(m) <=> \E k \in 1..Len(m) : m[k] = r
  BY <1>10, Members
<1>12. ASSUME NEW r \in Range(m)
       PROVE  \E k \in 1..Len(d) : \E f \in Objects : standsFor(r, d[k], f)
  <2>1. PICK k \in 1..Len(s) : m[k] = r
    BY <1>10, <1>11
  <2> QED
    BY <1>9, <2>1
<1>13. ASSUME NEW k \in 1..Len(d), objectsIn(d[k]) # {}
       PROVE  \E r \in Range(m) : \E f \in Objects : standsFor(r, d[k], f)
  <2>1. definedIn(p, d[k]) # <<>>
    BY <1>3, <1>13
  <2>2. d[k] \in D
    BY <1>5, <1>8, <2>1
  <2>3. PICK j \in 1..Len(s) : kept[j] = k
    BY <1>6, <2>2
  <2>4. m[j] \in Range(m)
    BY <1>10, <1>11
  <2> QED
    BY <1>9, <2>3, <2>4
<1> QED
  BY <1>1, <1>10, <1>12, <1>13 DEF translated, d

-----------------------------------------------------------------------------
(* Virtual calls.                                                          *)

(* f is the first defined vtable of the range g                            *)
leads(f, g) ==
  f \in objectsIn(g) /\ \A u \in objectsIn(g) : indexIn(cloudOrder, f) <= indexIn(cloudOrder, u)

hits(o, f, w) ==
  \E i \in 0..(IF w = 1 THEN 0 ELSE w) : newIndex(o, 0) = newIndex(f, 0) + i * unit

(* The defined vtables of a range are finitely many.                       *)
LEMMA ObjectsIn ==
  ASSUME Graph, NEW g, NEW f \in objectsIn(g)
  PROVE  /\ f \in Objects /\ objectsIn(g) \in SUBSET Objects /\ IsFiniteSet(objectsIn(g))
         /\ Cardinality(objectsIn(g)) \in 1..Cardinality(Vtbl)
<1>1. objectsIn(g) \in SUBSET Objects
  BY DEF objectsIn
<1>2. IsFiniteSet(objectsIn(g)) /\ Cardinality(objectsIn(g)) <= Cardinality(Objects)
      /\ Cardinality(objectsIn(g)) \in Nat
  BY <1>1, ObjectsFinite, FS_Subset, FS_CardinalityType
<1>3. Cardinality(objectsIn(g)) # 0
  BY <1>2, FS_EmptySet
<1>4. Cardinality(Objects) \in Nat /\ Cardinality(Objects) <= Cardinality(Vtbl)
      /\ Cardinality(Vtbl) \in Nat
  BY ObjectsFinite
<1> QED
  BY <1>1, <1>2, <1>3, <1>4

(* A virtual call accepts what lies a number of distances after the first  *)
(* defined vtable of a range.                                              *)
LEMMA VcallMeaning ==
  ASSUME Finished, NEW v \in Vtbl, NEW o \in Objects
  PROVE  vcallAccepts(v, o) <=>
           \E k \in 1..Len(rangeMap[v]) : \E f \in Objects :
             leads(f, rangeMap[v][k]) /\ hits(o, f, Cardinality(objectsIn(rangeMap[v][k])))
<1> DEFINE d == rangeMap[v]
           m == memRangeMap[v]
<1>0. Graph
  BY DEF Finished, Indexed, LaidOut
<1>1. translated(d, m)
  BY MemRanges
<1> HIDE DEF d, m
<1>2. ASSUME NEW r, NEW k \in 1..Len(d), NEW f \in Objects, standsFor(r, d[k], f)
      PROVE  /\ leads(f, d[k])
             /\ sd_subst_check_range(vptrOf(o), address(r[1]), r[2], alignment)
                  <=> hits(o, f, Cardinality(objectsIn(d[k])))
  <2> DEFINE w == Cardinality(objectsIn(d[k]))
  <2>1. leads(f, d[k]) /\ r[1] = newIndex(f, 0) /\ r[2] = w
    BY <1>2 DEF standsFor, leads
  <2>2. w \in 1..Cardinality(Vtbl)
    BY <1>0, <2>1, ObjectsIn DEF leads
  <2>3. address(r[1]) = vptrOf(f)
    BY <2>1, Addresses
  <2> HIDE DEF w
  <2>4. sd_subst_check_range(vptrOf(o), vptrOf(f), w, alignment) <=> hits(o, f, w)
    BY <2>2, ChecksOnIndices DEF hits
  <2> QED
    BY <2>1, <2>3, <2>4 DEF w
<1>3. ASSUME vcallAccepts(v, o)
      PROVE  \E k \in 1..Len(d) : \E f \in Objects :
               leads(f, d[k]) /\ hits(o, f, Cardinality(objectsIn(d[k])))
  <2>1. PICK r \in Range(m) : sd_subst_check_range(vptrOf(o), address(r[1]), r[2], alignment)
    BY <1>3 DEF vcallAccepts, m
  <2>2. PICK k \in 1..Len(d) : \E f \in Objects : standsFor(r, d[k], f)
    BY <1>1 DEF translated
  <2>3. PICK f \in Objects : standsFor(r, d[k], f)
    BY <2>2
  <2> QED
    BY <1>2, <2>1, <2>3
<1>4. ASSUME NEW k \in 1..Len(d), NEW f \in Objects, leads(f, d[k]),
             hits(o, f, Cardinality(objectsIn(d[k])))
      PROVE  vcallAccepts(v, o)
  <2>1. objectsIn(d[k]) # {}
    BY <1>4 DEF leads
  <2>2. PICK r \in Range(m) : \E e \in Objects : standsFor(r, d[k], e)
    BY <1>1, <2>1 DEF translated
  <2>3. PICK e \in Objects : standsFor(r, d[k], e)
    BY <2>2
  <2>4. leads(e, d[k])
    BY <1>2, <2>3
  <2>5. e = f
    <3>1. indexIn(cloudOrder, e) <= indexIn(cloudOrder, f)
          /\ indexIn(cloudOrder, f) <= indexIn(cloudOrder, e)
      BY <1>4, <2>4 DEF leads
    <3>2. indexIn(cloudOrder, e) \in Nat /\ indexIn(cloudOrder, f) \in Nat /\ e \in Vtbl /\ f \in Vtbl
      BY <1>0, ObjectsFinite
    <3>3. indexIn(cloudOrder, e) = indexIn(cloudOrder, f)
      BY <3>1, <3>2
    <3> QED
      BY <1>0, <3>2, <3>3, ObjectsFinite
  <2>6. sd_subst_check_range(vptrOf(o), address(r[1]), r[2], alignment)
    BY <1>2, <1>4, <2>3, <2>5
  <2> QED
    BY <2>6 DEF vcallAccepts, m
<1> QED
  BY <1>3, <1>4 DEF d

(* A common factor cancels.                                                *)
LEMMA CancelFactor ==
  ASSUME NEW c \in Nat, NEW i \in Nat, NEW u \in Nat \ {0}, c * u <= i * u
  PROVE  c <= i
<1> SUFFICES ASSUME i + 1 <= c
             PROVE  FALSE
  OBVIOUS
<1>1. (i + 1) * u <= c * u
  <2>1. i + 1 \in Nat /\ u \in Nat
    OBVIOUS
  <2> QED
    BY <2>1, TimesMonotonic
<1>2. (i + 1) * u = i * u + u /\ i * u \in Nat /\ c * u \in Nat
  OBVIOUS
<1> DEFINE x == i * u
           y == c * u
<1> HIDE DEF x, y
<1>3. x + u <= y /\ y <= x /\ x \in Nat /\ y \in Nat
  BY <1>1, <1>2 DEF x, y
<1> QED
  BY <1>3

(* An address point that is i times the distance from that of f has at     *)
(* most i defined vtables, f among them, before it.                        *)
LEMMA HitsAfter ==
  ASSUME Finished, NEW f \in Objects, NEW o \in Objects, NEW i \in Nat,
         newIndex(o, 0) = newIndex(f, 0) + i * unit
  PROVE  /\ indexIn(cloudOrder, f) <= indexIn(cloudOrder, o)
         /\ Cardinality(between(f, o)) \in Nat
         /\ Cardinality(between(f, o)) <= i
<1>0. Indexed /\ Graph
  BY DEF Finished, Indexed, LaidOut
<1> DEFINE x == newIndex(f, 0)
           y == newIndex(o, 0)
           u == unit
           j == indexIn(cloudOrder, f)
           k == indexIn(cloudOrder, o)
<1>1. u \in Nat \ {0}
  BY <1>0, UnitType
<1>2. j \in Nat /\ k \in Nat
  BY <1>0, ObjectsFinite
<1>3. y = x + i * u
  OBVIOUS
<1>4. x \in Nat /\ y \in Nat
  BY Addresses
<1>5. i * u \in Nat
  <2> HIDE DEF u
  <2> QED
    BY <1>1
<1>6. j <= k
  <2> SUFFICES ASSUME k < j
               PROVE  FALSE
    BY <1>2
  <2> DEFINE c == Cardinality(between(o, f))
  <2>0. k <= j
    BY <1>2
  <2>1. c * u \in Nat /\ y + c * u <= x
    BY <1>0, <2>0, Spacing
  <2>2. c \in Nat /\ IsFiniteSet(between(o, f))
    BY <1>0, BetweenFinite
  <2>3. c # 0
    <3>1. o \in between(o, f)
      BY <1>2 DEF between
    <3> QED
      BY <2>2, <3>1, FS_EmptySet
  <2>4. c * u # 0
    <3> HIDE DEF c, u
    <3>1. 1 <= c /\ 1 \in Nat /\ u \in Nat
      BY <1>1, <2>2, <2>3
    <3>2. 1 * u <= c * u
      BY <2>2, <3>1, TimesMonotonic
    <3> QED
      BY <1>1, <3>2
  <2> DEFINE s == c * u
             t == i * u
  <2>5. s \in Nat /\ t \in Nat /\ s # 0 /\ y + s <= x /\ y = x + t
    BY <1>3, <1>5, <2>1, <2>4
  <2> HIDE DEF s, t, x, y
  <2> QED
    BY <1>4, <2>5
<1> DEFINE c == Cardinality(between(f, o))
<1>7. c * u \in Nat /\ x + c * u <= y
  BY <1>0, <1>6, Spacing
<1>8. c \in Nat
  BY <1>0, BetweenFinite
<1>9. c * u <= i * u
  <2> DEFINE s == c * u
             t == i * u
  <2>1. s \in Nat /\ t \in Nat /\ x + s <= y /\ y = x + t
    BY <1>3, <1>5, <1>7
  <2> HIDE DEF s, t, x, y
  <2>2. s <= t
    BY <1>4, <2>1
  <2> QED
    BY <2>2 DEF s, t
<1> HIDE DEF u, c
<1>10. c <= i
  BY <1>1, <1>8, <1>9, CancelFactor
<1> QED
  BY <1>6, <1>8, <1>10 DEF c


(* Fewer than all vtables of a set stand before one of them.               *)
LEMMA BetweenLess ==
  ASSUME NEW T, IsFiniteSet(T), NEW o \in T, NEW B \in SUBSET T, o \notin B
  PROVE  /\ Cardinality(B) \in Nat /\ Cardinality(T) \in Nat
         /\ Cardinality(B) <= Cardinality(T) - 1
<1>1. IsFiniteSet(T \ {o}) /\ Cardinality(T \ {o}) = Cardinality(T) - 1
  BY FS_RemoveElement
<1>2. B \in SUBSET (T \ {o})
  OBVIOUS
<1>3. IsFiniteSet(B) /\ Cardinality(B) <= Cardinality(T) - 1
  BY <1>1, <1>2, FS_Subset
<1> QED
  BY <1>3, FS_CardinalityType

(* A virtual call accepts what derives from its static class: the defined  *)
(* vtables of a range lie one distance apart.                              *)
LEMMA AcceptsDerived ==
  ASSUME Finished, Even, NEW v \in Vtbl, NEW o \in Objects, o \in below(cloud, v)
  PROVE  vcallAccepts(v, o)
<1> DEFINE d == rangeMap[v]
<1>0. Graph /\ Indexed
  BY DEF Finished, Indexed, LaidOut
<1>1. PICK k \in 1..Len(d) : inside(o, d[k])
  BY RangeFacts
<1> DEFINE g == d[k]
           T == objectsIn(g)
<1>2. o \in T
  BY <1>1 DEF objectsIn
<1>3. PICK f \in Objects : leads(f, g)
  <2>1. translated(d, memRangeMap[v])
    BY MemRanges
  <2>2. \E r : \E f \in Objects : standsFor(r, d[k], f)
    BY <1>2, <2>1 DEF translated
  <2> HIDE DEF d
  <2> QED
    BY <2>2 DEF standsFor, leads
<1> HIDE DEF d, g
<1>4. /\ f \in T /\ IsFiniteSet(T) /\ Cardinality(T) \in 1..Cardinality(Vtbl)
      /\ indexIn(cloudOrder, f) <= indexIn(cloudOrder, o)
      /\ T \in SUBSET Objects
  BY <1>0, <1>2, <1>3, ObjectsIn DEF leads
<1>5. \A u \in Objects : indexIn(cloudOrder, u) \in Nat
  BY <1>0, ObjectsFinite
<1>6. ASSUME NEW u \in between(f, o)
      PROVE  u \in T /\ u # o
  <2>1. /\ u \in Objects /\ indexIn(cloudOrder, f) <= indexIn(cloudOrder, u)
        /\ indexIn(cloudOrder, u) < indexIn(cloudOrder, o)
    BY DEF between
  <2>2. g[1] <= indexIn(cloudOrder, f) /\ indexIn(cloudOrder, o) < g[2]
    BY <1>2, <1>4 DEF objectsIn, inside
  <2>3. g[1] \in Nat /\ g[2] \in Nat
    <3>1. g \in Nat \X Nat
      BY RangeFacts DEF g, d
    <3> QED
      BY <3>1
  <2>4. indexIn(cloudOrder, u) \in Nat /\ indexIn(cloudOrder, f) \in Nat
        /\ indexIn(cloudOrder, o) \in Nat
    BY <1>5, <2>1
  <2>5. inside(u, g) /\ u # o
    BY <2>1, <2>2, <2>3, <2>4 DEF inside
  <2> QED
    BY <2>1, <2>5 DEF objectsIn
<1> DEFINE B == between(f, o)
           c == Cardinality(B)
           w == Cardinality(T)
<1>7. c \in Nat /\ c <= w - 1 /\ w \in Nat
  <2>1. B \in SUBSET T /\ o \notin B
    BY <1>6
  <2> HIDE DEF B, T
  <2> QED
    BY <1>2, <1>4, <2>1, BetweenLess
<1>8. newIndex(o, 0) = newIndex(f, 0) + c * unit
  BY <1>0, <1>4, Spacing
<1> HIDE DEF c, w
<1>9. c \in 0..(IF w = 1 THEN 0 ELSE w)
  BY <1>7
<1>10. hits(o, f, w)
  BY <1>8, <1>9 DEF hits
<1> QED
  BY <1>3, <1>10, VcallMeaning DEF w, T, g, d

(* What a virtual call accepts and does not derive from its static class   *)
(* follows a range: all defined vtables of the range lie between, and no   *)
(* distance is left for another.                                           *)
LEMMA RejectsOthers ==
  ASSUME Finished, NEW v \in Vtbl, NEW o \in Objects, vcallAccepts(v, o),
         o \notin below(cloud, v)
  PROVE  \E r \in Range(rangeMap[v]) : isNextAfter(o, r)
<1> DEFINE d == rangeMap[v]
<1>0. Graph /\ Indexed
  BY DEF Finished, Indexed, LaidOut
<1>1. PICK k \in 1..Len(d) : \E f \in Objects :
        leads(f, d[k]) /\ hits(o, f, Cardinality(objectsIn(d[k])))
  BY VcallMeaning
<1> DEFINE g == d[k]
           T == objectsIn(g)
           w == Cardinality(T)
<1>2. PICK f \in Objects : leads(f, g) /\ hits(o, f, w)
  BY <1>1
<1>3. /\ d \in Seq(Nat \X Nat)
      /\ g \in Nat \X Nat
      /\ \A u \in Vtbl : inside(u, g) => u \in below(cloud, v)
  BY RangeFacts
<1>4. g \in Range(d)
  <2> HIDE DEF d
  <2> QED
    BY <1>3, Members
<1> HIDE DEF d, g
<1>5. /\ f \in T /\ IsFiniteSet(T) /\ w \in 1..Cardinality(Vtbl) /\ T \in SUBSET Objects
  BY <1>0, <1>2, ObjectsIn DEF leads
<1>w. w \in Nat
  <2>1. Cardinality(Vtbl) \in Nat
    BY <1>0, ObjectsFinite
  <2> QED
    BY <1>5, <2>1
<1>6. PICK i \in 0..(IF w = 1 THEN 0 ELSE w) : newIndex(o, 0) = newIndex(f, 0) + i * unit
  BY <1>2 DEF hits
<1>7. i \in Nat /\ i <= w
  BY <1>5, <1>w
<1> DEFINE B == between(f, o)
<1>8. /\ indexIn(cloudOrder, f) <= indexIn(cloudOrder, o)
      /\ Cardinality(B) \in Nat /\ Cardinality(B) <= i
  BY <1>6, <1>7, HitsAfter
<1>9. \A u \in Objects : indexIn(cloudOrder, u) \in Nat /\ u \in Vtbl
  BY <1>0, ObjectsFinite
<1>10. g[1] \in Nat /\ g[2] \in Nat
  BY <1>3
<1>11. g[2] <= indexIn(cloudOrder, o)
  <2>1. ~inside(o, g)
    BY <1>3, <1>9
  <2>2. g[1] <= indexIn(cloudOrder, f)
    BY <1>5 DEF objectsIn, inside
  <2> DEFINE x == indexIn(cloudOrder, f)
             y == indexIn(cloudOrder, o)
  <2>3. x \in Nat /\ y \in Nat /\ x <= y /\ g[1] <= x /\ ~(g[1] <= y /\ y < g[2])
    BY <1>8, <1>9, <2>1, <2>2 DEF inside
  <2> HIDE DEF x, y
  <2>4. g[2] <= y
    BY <1>10, <2>3
  <2> QED
    BY <2>4 DEF y
<1>12. ASSUME NEW u \in Objects, indexIn(cloudOrder, u) >= g[2]
       PROVE  indexIn(cloudOrder, o) <= indexIn(cloudOrder, u)
  <2> SUFFICES ASSUME indexIn(cloudOrder, u) < indexIn(cloudOrder, o)
               PROVE  FALSE
    BY <1>9
  <2>1. u \notin T
    <3>1. ~(indexIn(cloudOrder, u) < g[2])
      BY <1>9, <1>10, <1>12
    <3> QED
      BY <3>1 DEF objectsIn, inside
  <2>2. T \cup {u} \in SUBSET B
    <3> SUFFICES ASSUME NEW x \in T \cup {u}
                 PROVE  x \in B
      OBVIOUS
    <3>1. x \in Objects
      BY <1>5
    <3> DEFINE ix == indexIn(cloudOrder, x)
               jf == indexIn(cloudOrder, f)
               jo == indexIn(cloudOrder, o)
               ju == indexIn(cloudOrder, u)
    <3>2. ix \in Nat /\ jf \in Nat /\ jo \in Nat /\ ju \in Nat
      BY <1>9, <3>1
    <3>3. jf < g[2]
      BY <1>5 DEF objectsIn, inside
    <3>4. jf <= ix /\ ix < jo
      <4>1. CASE x \in T
        <5>1. jf <= ix
          BY <1>2, <4>1 DEF leads
        <5>2. ix < g[2] /\ g[2] <= jo
          BY <1>11, <4>1 DEF objectsIn, inside
        <5> HIDE DEF ix, jf, jo, ju
        <5> QED
          BY <1>10, <3>2, <5>1, <5>2
      <4>2. CASE x = u
        <5>1. ix = ju /\ g[2] <= ju /\ ju < jo
          BY <1>9, <1>10, <1>12, <4>2
        <5> HIDE DEF ix, jf, jo, ju
        <5> QED
          BY <1>10, <3>2, <3>3, <5>1
      <4> QED
        BY <4>1, <4>2
    <3> QED
      BY <3>1, <3>4 DEF between
  <2>3. IsFiniteSet(T \cup {u}) /\ Cardinality(T \cup {u}) = w + 1
    <3> HIDE DEF T
    <3> QED
      BY <1>5, <2>1, FS_AddElement DEF T
  <2>4. IsFiniteSet(B)
    BY <1>0, BetweenFinite
  <2>5. Cardinality(T \cup {u}) <= Cardinality(B)
    <3> HIDE DEF B, T
    <3> QED
      BY <2>2, <2>4, FS_Subset
  <2> HIDE DEF B, w, T
  <2> QED
    BY <1>7, <1>8, <1>w, <2>3, <2>5
<1>13. indexIn(cloudOrder, o) >= g[2]
  BY <1>9, <1>10, <1>11
<1>14. isNextAfter(o, g)
  BY <1>12, <1>13 DEF isNextAfter
<1> QED
  BY <1>4, <1>14 DEF d


(* The width of a cast to v in a tree.                                     *)
LEMMA CastWidth ==
  ASSUME Finished, IsTree, NEW v \in Vtbl
  PROVE  LET B == below(cloud, v) \cap Objects
         IN /\ cloudSizeMap[cloud.primary[v]] = Cardinality(B)
            /\ IsFiniteSet(B) /\ Cardinality(B) \in 0..Cardinality(Vtbl)
<1> DEFINE B == below(cloud, v) \cap Objects
           w == cloud.primary[v]
<1>0. Graph /\ Tree
  BY DEF Finished, Indexed, LaidOut, Tree, IsTree
<1>1. w \in Vtbl
  BY <1>0, Metadata DEF Graph, Vtbl
<1>2. \A x \in Vtbl : below(cloud, x) \cap Objects = below(cloud, x) \ cloud.undefined
  <2>1. \A x \in Vtbl : below(cloud, x) \in SUBSET Vtbl
    BY <1>0, Below DEF Graph, Vtbl
  <2> QED
    BY <2>1 DEF Objects, isDefined
<1>3. Cardinality(below(cloud, w) \ cloud.undefined)
        = Cardinality(below(cloud, v) \ cloud.undefined)
  BY DEF Finished, derivedTogether, IsTree, Vtbl
<1>4. cloudSizeMap[w] = Cardinality(below(cloud, w) \cap Objects)
  BY <1>0, <1>1, TreeCounts DEF Finished
<1>5. cloudSizeMap[w] = Cardinality(B)
  BY <1>1, <1>2, <1>3, <1>4
<1>6. /\ Objects \in SUBSET Vtbl /\ IsFiniteSet(Vtbl) /\ Cardinality(Vtbl) \in Nat
  BY <1>0, ObjectsFinite
<1>7. IsFiniteSet(B) /\ Cardinality(B) <= Cardinality(Vtbl) /\ Cardinality(B) \in Nat
  <2>1. B \in SUBSET Vtbl
    BY <1>6
  <2> HIDE DEF B
  <2> QED
    BY <1>6, <2>1, FS_Subset, FS_CardinalityType
<1> QED
  BY <1>5, <1>6, <1>7

(* A cast accepts what lies fewer distances after the first defined vtable *)
(* than its width.                                                         *)
LEMMA CastMeaning ==
  ASSUME Finished, NEW v \in Vtbl, NEW o \in Objects, known(v),
         NEW f \in Objects, f = definedOrFirst(v),
         NEW w \in 1..Cardinality(Vtbl), w = cloudSizeMap[cloud.primary[v]]
  PROVE  castAccepts(v, o) <=>
           \E i \in 0..(w - 1) : newIndex(o, 0) = newIndex(f, 0) + i * unit
<1>1. castAccepts(v, o) <=>
        IF w > 1 THEN type_casting_verification_ranged(vptrOf(o), vptrOf(f), w, alignment)
        ELSE vptrOf(o) = vptrOf(f)
  BY DEF castAccepts
<1>2. Cardinality(Vtbl) \in Nat /\ unit \in Nat
  BY ObjectsFinite, UnitType DEF Finished, Indexed, LaidOut
<1>3. CASE w > 1
  <2>1. type_casting_verification_ranged(vptrOf(o), vptrOf(f), w, alignment)
          <=> \E i \in 0..(w - 1) : newIndex(o, 0) = newIndex(f, 0) + i * unit
    BY ChecksOnIndices
  <2> QED
    BY <1>1, <1>3, <2>1
<1>4. CASE ~(w > 1)
  <2>1. w = 1
    BY <1>2, <1>4
  <2> DEFINE x == newIndex(o, 0)
             y == newIndex(f, 0)
  <2>2. x \in Nat /\ y \in Nat /\ vptrOf(o) = x * 8 /\ vptrOf(f) = y * 8
    BY Addresses
  <2> DEFINE u == unit
  <2> HIDE DEF x, y, u
  <2>3. castAccepts(v, o) <=> x = y
    BY <1>1, <1>4, <2>2
  <2>4. x = y <=> \E i \in 0..(w - 1) : x = y + i * u
    <3>1. 0 * u = 0
      BY <1>2 DEF u
    <3>2. 0 \in 0..(w - 1) /\ \A i \in 0..(w - 1) : i = 0
      BY <2>1
    <3> QED
      BY <2>2, <3>1, <3>2
  <2> QED
    BY <2>3, <2>4 DEF x, y, u
<1> QED
  BY <1>3, <1>4

(* In a tree, the defined vtables that derive from v are as many as the    *)
(* width of a cast and follow each other.                                  *)
LEMMA CastsDerived ==
  ASSUME Finished, Even, IsTree, NEW v \in Vtbl, NEW o \in Objects
  PROVE  castAccepts(v, o) <=> o \in below(cloud, v)
<1> DEFINE S == below(cloud, v)
           B == S \cap Objects
           w == cloudSizeMap[cloud.primary[v]]
           n == Cardinality(Vtbl)
<1>0. Graph /\ Tree /\ Indexed
  BY DEF Finished, Indexed, LaidOut, Tree, IsTree
<1>1. w = Cardinality(B) /\ IsFiniteSet(B) /\ w \in 0..n
  BY CastWidth
<1>n. n \in Nat
  BY <1>0, ObjectsFinite
<1>2. S \in SUBSET Vtbl
  BY <1>0, Below DEF Graph, Vtbl
<1>3. CASE ~known(v)
  <2>1. ~castAccepts(v, o)
    BY <1>3 DEF castAccepts
  <2>2. o \notin S
    BY <1>0, <1>3, FirstDefined
  <2> QED
    BY <2>1, <2>2
<1>4. CASE known(v)
  <2> DEFINE f == definedOrFirst(v)
             K == between(f, o)
  <2>1. f \in B /\ \A u \in B : indexIn(cloudOrder, f) <= indexIn(cloudOrder, u)
    BY <1>0, <1>4, FirstDefined
  <2>2. f \in Objects /\ f \in S
    BY <2>1
  <2>3. w # 0
    <3> HIDE DEF B
    <3> QED
      BY <1>1, <2>1, FS_EmptySet
  <2>4. w \in 1..n /\ w \in Nat
    BY <1>1, <1>n, <2>3
  <2>5. castAccepts(v, o) <=>
          \E i \in 0..(w - 1) : newIndex(o, 0) = newIndex(f, 0) + i * unit
    <3> HIDE DEF w, f
    <3> QED
      BY <1>4, <2>2, <2>4, CastMeaning DEF w, f
  <2>6. \A u \in Objects : indexIn(cloudOrder, u) \in Nat /\ u \in Vtbl
    BY <1>0, ObjectsFinite
  <2> HIDE DEF f, w
  <2>7. ASSUME o \in S
        PROVE  castAccepts(v, o)
    <3>1. indexIn(cloudOrder, f) <= indexIn(cloudOrder, o)
      BY <2>1, <2>7
    <3>2. newIndex(o, 0) = newIndex(f, 0) + Cardinality(K) * unit
      BY <1>0, <2>2, <3>1, Spacing
    <3>3. K \in SUBSET B /\ o \notin K
      <4> SUFFICES ASSUME NEW u \in K
                   PROVE  u \in B /\ u # o
        OBVIOUS
      <4>1. /\ u \in Objects /\ indexIn(cloudOrder, f) <= indexIn(cloudOrder, u)
            /\ indexIn(cloudOrder, u) < indexIn(cloudOrder, o)
        BY DEF between
      <4>2. indexIn(cloudOrder, u) \in Nat /\ indexIn(cloudOrder, o) \in Nat /\ u \in Vtbl
        BY <2>6, <4>1
      <4>3. indexIn(cloudOrder, u) <= indexIn(cloudOrder, o) /\ u # o
        BY <4>1, <4>2
      <4>4. u \in S
        BY <1>0, <2>2, <2>7, <4>1, <4>2, <4>3, Together
      <4> QED
        BY <4>1, <4>3, <4>4
    <3>4. o \in B
      BY <2>7
    <3>5. Cardinality(K) \in Nat /\ Cardinality(K) <= w - 1
      <4> HIDE DEF B, K
      <4> QED
        BY <1>1, <3>3, <3>4, BetweenLess
    <3>6. Cardinality(K) \in 0..(w - 1)
      BY <2>4, <3>5
    <3> QED
      BY <2>5, <3>2, <3>6
  <2>8. ASSUME castAccepts(v, o), o \notin S
        PROVE  FALSE
    <3>1. PICK i \in 0..(w - 1) : newIndex(o, 0) = newIndex(f, 0) + i * unit
      BY <2>5, <2>8
    <3>2. i \in Nat /\ i <= w - 1
      BY <2>4
    <3>3. /\ indexIn(cloudOrder, f) <= indexIn(cloudOrder, o)
          /\ Cardinality(K) \in Nat /\ Cardinality(K) <= i
      BY <2>2, <3>1, <3>2, HitsAfter
    <3>4. B \in SUBSET K
      <4> SUFFICES ASSUME NEW u \in B
                   PROVE  u \in K
        OBVIOUS
      <4>1. indexIn(cloudOrder, f) <= indexIn(cloudOrder, u) /\ u \in Objects /\ u \in S
        BY <2>1
      <4>2. indexIn(cloudOrder, u) \in Nat /\ indexIn(cloudOrder, o) \in Nat /\ o \in Vtbl
        BY <2>6, <4>1
      <4>3. ~(indexIn(cloudOrder, o) <= indexIn(cloudOrder, u))
        BY <1>0, <2>2, <2>8, <3>3, <4>1, <4>2, Together
      <4> QED
        BY <4>1, <4>2, <4>3 DEF between
    <3>5. IsFiniteSet(K)
      BY <1>0, <2>2, BetweenFinite
    <3>6. Cardinality(B) <= Cardinality(K)
      <4> HIDE DEF B, K
      <4> QED
        BY <3>4, <3>5, FS_Subset
    <3>7. w <= i
      <4> HIDE DEF B, K
      <4> QED
        BY <1>1, <2>4, <3>2, <3>3, <3>6
    <3> QED
      BY <2>4, <3>2, <3>7
  <2> QED
    BY <2>7, <2>8
<1> QED
  BY <1>3, <1>4


(* In a tree, what derives from v has every entry of v.                    *)
LEMMA EntriesRepeated ==
  ASSUME Tree, contains(cloud), NEW v \in Vtbl, NEW e, has(v, e), NEW u \in below(cloud, v)
  PROVE  has(u, e)
<1> DEFINE S == {x \in Vtbl : has(x, e)}
<1>1. isCloud(cloud) /\ treeShaped(cloud)
  BY DEF Tree, Graph
<1>2. ASSUME NEW d \in Vtbl, NEW p \in cloud.parents[d], p \in S
      PROVE  d \in S
  <2>1. p \in Vtbl /\ d # Root /\ cloud.extends[d] \in cloud.parents[d]
    BY <1>1, <1>2, Metadata DEF Vtbl
  <2>2. p = cloud.extends[d]
    BY <1>1, <2>1, OneParent DEF Vtbl
  <2>3. cloud.neg[p] <= cloud.neg[d] /\ cloud.pos[p] <= cloud.pos[d]
    BY <2>1, <2>2 DEF contains, Vtbl
  <2>4. /\ cloud.neg[p] \in Nat /\ cloud.neg[d] \in Nat
        /\ cloud.pos[p] \in Nat /\ cloud.pos[d] \in Nat
    BY <1>1, <2>1, Metadata DEF Vtbl
  <2>5. has(d, e)
    BY <1>2, <2>3, <2>4 DEF has
  <2> QED
    BY <2>5
<1>3. v \in S
  OBVIOUS
<1> HIDE DEF S
<1>4. below(cloud, v) \subseteq S
  BY <1>1, <1>2, <1>3, Below DEF Vtbl
<1> QED
  BY <1>4 DEF S

(* What repeats the entries of v derives from v.                           *)
LEMMA RepeatsBelow ==
  ASSUME Graph, NEW v \in Vtbl, NEW o \in Vtbl, repeats(o, v)
  PROVE  o \in below(cloud, v)
<1> DEFINE S == below(cloud, v)
<1>1. S \in SUBSET Vtbl /\ v \in S
  BY Below DEF Graph, Vtbl
<1>2. ASSUME NEW d \in Vtbl \ {Root}, cloud.extends[d] \in S
      PROVE  d \in S
  <2>1. cloud.extends[d] \in cloud.parents[d]
    BY Metadata DEF Graph, Vtbl
  <2> QED
    BY <1>2, <2>1, Below DEF Graph, Vtbl
<1> HIDE DEF S
<1> QED
  BY <1>1, <1>2 DEF repeats, S

(* In a tree, all vtables from the first defined one to that of the object *)
(* have the entry, which moves by as much as their address points do.      *)
LEMMA CallsFind ==
  ASSUME Finished, IsTree, NEW v \in Vtbl, NEW o \in Objects, repeats(o, v)
  PROVE  EntryReached(v, o)
<1> DEFINE S == below(cloud, v)
           f == definedOrFirst(v)
<1>0. Graph /\ Tree /\ Indexed /\ contains(cloud)
  BY DEF Finished, Indexed, LaidOut, Tree, IsTree
<1>1. \A u \in Objects : indexIn(cloudOrder, u) \in Nat /\ u \in Vtbl
  BY <1>0, ObjectsFinite
<1>2. o \in S
  BY <1>0, <1>1, RepeatsBelow
<1>3. known(v) /\ f \in S /\ f \in Objects
      /\ indexIn(cloudOrder, f) <= indexIn(cloudOrder, o)
  BY <1>0, <1>2, FirstDefined
<1> SUFFICES ASSUME NEW e \in (-cloud.neg[v])..(cloud.pos[v] - 1)
             PROVE  called(v, e, o) = <<o, e>>
  BY DEF EntryReached
<1>4. has(v, e)
  <2>1. cloud.neg[v] \in Nat /\ cloud.pos[v] \in Nat
    BY <1>0, Metadata DEF Graph, Vtbl
  <2> QED
    BY <2>1 DEF has
<1>5. \A u \in S : has(u, e)
  BY <1>0, <1>4, EntriesRepeated
<1> HIDE DEF f
<1>6. ASSUME NEW u \in between(f, o)
      PROVE  has(u, e)
  <2>1. /\ u \in Objects /\ indexIn(cloudOrder, f) <= indexIn(cloudOrder, u)
        /\ indexIn(cloudOrder, u) < indexIn(cloudOrder, o)
    BY DEF between
  <2>2. indexIn(cloudOrder, u) <= indexIn(cloudOrder, o) /\ u \in Vtbl
    BY <1>1, <2>1
  <2>3. u \in S
    BY <1>0, <1>2, <1>3, <2>1, <2>2, Together
  <2> QED
    BY <1>5, <2>3
<1>7. has(f, e) /\ has(o, e)
  BY <1>2, <1>3, <1>5
<1>8. newIndex(o, 0) + (newIndex(f, e) - newIndex(f, 0)) = newIndex(o, e)
  BY <1>0, <1>3, <1>6, <1>7, SameOffset
<1>9. interleavingMap[newIndex(o, e) + 1] = <<o, e>>
  BY <1>0, <1>7, Found
<1>10. newVTableStartAddrMap[o] = newIndex(o, 0)
  BY DEF Finished
<1> QED
  BY <1>8, <1>9, <1>10 DEF called, translateVtblInd, f

(* The ranges of the finished layout do not touch and hold the positions   *)
(* of what derives from a vtable.                                          *)
LEMMA RangesHold ==
  ASSUME Finished, NEW v \in Vtbl, NEW rs, rs = rangeMap[v]
  PROVE  /\ \A k \in 1..(Len(rs) - 1) : rs[k][2] < rs[k + 1][1]
         /\ UNION {r[1]..(r[2] - 1) : r \in Range(rs)}
              = {indexIn(cloudOrder, d) : d \in below(cloud, v)}
<1> DEFINE P == UNION {r[1]..(r[2] - 1) : r \in Range(rs)}
           S == below(cloud, v)
<1>1. Graph /\ ranged(v, rs)
  BY Ranged DEF Finished, Indexed, LaidOut
<1>2. rs \in Seq(Nat \X Nat) /\ separate(rs)
      /\ \A x \in Int : holds(rs, x) <=> \E w \in S : x = indexIn(cloudOrder, w)
  BY <1>1 DEF ranged
<1>3. S \in SUBSET Vtbl /\ \A u \in Vtbl : indexIn(cloudOrder, u) \in Int
  <2>1. S \in SUBSET Vtbl
    BY <1>1, Below DEF Graph, Vtbl
  <2>2. \A u \in Vtbl : indexIn(cloudOrder, u) \in 1..Len(cloudOrder)
    BY <1>1, CloudOrder
  <2> QED
    BY <2>1, <2>2
<1>4. /\ Range(rs) \in SUBSET (Nat \X Nat)
      /\ \A x : holds(rs, x) <=> \E r \in Range(rs) : r[1] <= x /\ x < r[2]
  BY <1>2, RangeEntries
<1>5. ASSUME NEW x
      PROVE  x \in P <=> x \in Int /\ holds(rs, x)
  <2>1. ASSUME x \in P
        PROVE  x \in Int /\ holds(rs, x)
    <3>1. PICK r \in Range(rs) : x \in r[1]..(r[2] - 1)
      BY <2>1
    <3>2. r[1] \in Nat /\ r[2] \in Nat
      BY <1>4
    <3>3. x \in Int /\ r[1] <= x /\ x < r[2]
      BY <3>1, <3>2
    <3> QED
      BY <1>4, <3>3
  <2>2. ASSUME x \in Int, holds(rs, x)
        PROVE  x \in P
    <3>1. PICK r \in Range(rs) : r[1] <= x /\ x < r[2]
      BY <1>4, <2>2
    <3>2. r[1] \in Nat /\ r[2] \in Nat
      BY <1>4
    <3>3. x \in r[1]..(r[2] - 1)
      BY <2>2, <3>1, <3>2
    <3> QED
      BY <3>3
  <2> QED
    BY <2>1, <2>2
<1> HIDE DEF P, S
<1>6. P = {indexIn(cloudOrder, d) : d \in S}
  BY <1>2, <1>3, <1>5
<1> QED
  BY <1>2, <1>6 DEF P, S, separate

-----------------------------------------------------------------------------
(* The inductive invariant: after every step, what the steps so far have   *)
(* computed from the metadata.                                             *)

analysis == [v \in Vtbl |-> {k \in Vtbl : v \in cloud.parents[k]}]
array == IF interleave THEN interleaved(cloudOrder, prePadMap)
         ELSE ordered(cloudOrder, orderAlignment(cloud))
indices == [v \in Objects |-> indicesOf(interleavingMap, v)]
addressPoints == [v \in Objects |-> newIndex(v, 0)]

Analysed == cloudMap = analysis /\ cloudSizeMap = calculateChildrenCounts(cloudMap)
Arranged == interleavingMap = array /\ alignment = unit * WORD_WIDTH
Ranges ==
  /\ rangeMap = calculateVPtrRangesHelper(cloudOrder)
  /\ memRangeMap = [v \in Vtbl |-> memRanges(cloudOrder, rangeMap[v])]

IInv ==
  /\ pc \in 1..6 /\ cloud \in Clouds /\ interleave \in BOOLEAN /\ Unpadded
  /\ pc > 1 => Analysed
  /\ pc > 2 => Arranged
  /\ pc <= 2 => interleavingMap = <<>> /\ alignment = 0
  /\ pc > 3 => newLayoutInds = indices
  /\ pc > 4 => newVTableStartAddrMap = addressPoints
  /\ pc > 5 => Ranges

(* The invariant holds before the first step.                              *)
LEMMA InitIInv == Init => IInv
<1> SUFFICES ASSUME Init
             PROVE  IInv
  OBVIOUS
<1>1. pc = 1 /\ cloud \in Clouds /\ interleave \in BOOLEAN /\ Unpadded
      /\ interleavingMap = <<>> /\ alignment = 0
  BY DEF Init, Unpadded
<1> QED
  BY <1>1 DEF IInv

(* The names of the steps.                                                 *)
LEMMA AtSteps ==
  ASSUME pc \in 1..6
  PROVE  /\ at("buildClouds") <=> pc = 1
         /\ at("layoutCloud") <=> pc = 2
         /\ at("calculateNewLayoutInds") <=> pc = 3
         /\ at("createNewVTable") <=> pc = 4
         /\ at("calculateVPtrRanges") <=> pc = 5
         /\ Built <=> pc = 6
<1>1. pc = 1 \/ pc = 2 \/ pc = 3 \/ pc = 4 \/ pc = 5 \/ pc = 6
  OBVIOUS
<1> QED
  BY <1>1 DEF at, Built, Steps

(* What is computed from values that stay the same stays the same.         *)
LEMMA SameOrder ==
  ASSUME UNCHANGED <<cloud, cloudMap>>
  PROVE  /\ cloudOrder' = cloudOrder /\ Vtbl' = Vtbl /\ Objects' = Objects
         /\ analysis' = analysis
         /\ calculateChildrenCounts(cloudMap)' = calculateChildrenCounts(cloudMap)
         /\ calculateVPtrRangesHelper(cloudOrder)' = calculateVPtrRangesHelper(cloudOrder)
<1>1. cloudOrder' = cloudOrder
  BY DEF cloudOrder, preorder, preorderHelper, children, Vtbl
<1>2. Vtbl' = Vtbl /\ Objects' = Objects
  BY DEF Vtbl, Objects, isDefined
<1>3. analysis' = analysis
  BY DEF analysis, Vtbl
<1>4. calculateChildrenCounts(cloudMap)' = calculateChildrenCounts(cloudMap)
  BY DEF calculateChildrenCounts, isDefined, Vtbl
<1>5. calculateVPtrRangesHelper(cloudOrder)' = calculateVPtrRangesHelper(cloudOrder)
  BY DEF calculateVPtrRangesHelper, indexIn, cloudOrder, preorder, preorderHelper, children, Vtbl
<1> QED
  BY <1>1, <1>2, <1>3, <1>4, <1>5

(* The layout stays while the order and the padding do.                    *)
LEMMA SameArray ==
  ASSUME UNCHANGED <<cloud, cloudMap, interleave, prePadMap>>
  PROVE  array' = array /\ unit' = unit
<1>1. interleaved(cloudOrder, prePadMap)' = interleaved(cloudOrder, prePadMap)
  BY DEF interleaved, inOrder, fillsBefore, indexIn, Objects, isDefined, Vtbl,
         cloudOrder, preorder, preorderHelper, children
<1>2. ordered(cloudOrder, orderAlignment(cloud))' = ordered(cloudOrder, orderAlignment(cloud))
  BY DEF ordered, Objects, isDefined, Vtbl, cloudOrder, preorder, preorderHelper, children
<1>3. unit' = unit
  BY DEF unit
<1> QED
  BY <1>1, <1>2, <1>3 DEF array

(* The new indices stay while the array does.                              *)
LEMMA SameIndices ==
  ASSUME UNCHANGED <<cloud, interleavingMap>>
  PROVE  indices' = indices
BY DEF indices, indicesOf, Objects, isDefined, Vtbl

(* The new address points stay while the indices do.                       *)
LEMMA SameAddressPoints ==
  ASSUME UNCHANGED <<cloud, newLayoutInds>>
  PROVE  addressPoints' = addressPoints
BY DEF addressPoints, newIndex, Objects, isDefined, Vtbl

(* Every step keeps the invariant; the interleaving needs that no padding  *)
(* was ever added (NoPadding).                                             *)
LEMMA NextIInv ==
  ASSUME IInv, Next
  PROVE  IInv'
<1>1. /\ pc \in 1..6 /\ cloud \in Clouds /\ interleave \in BOOLEAN /\ Unpadded
      /\ pc > 1 => Analysed
      /\ pc > 2 => Arranged
      /\ pc <= 2 => interleavingMap = <<>> /\ alignment = 0
      /\ pc > 3 => newLayoutInds = indices
      /\ pc > 4 => newVTableStartAddrMap = addressPoints
  BY DEF IInv
<1>2. ASSUME buildClouds
      PROVE  IInv'
  <2>1. pc = 1 /\ pc' = 2
    BY <1>1, <1>2, AtSteps DEF buildClouds, step
  <2>2. UNCHANGED <<cloud, interleave, prePadMap, interleavingMap, alignment>>
    BY <1>2 DEF buildClouds
  <2>3. Analysed'
    <3>1. cloudMap' = analysis' /\ cloudSizeMap' = calculateChildrenCounts(cloudMap')
      BY <1>2, <2>2 DEF buildClouds, analysis, Vtbl
    <3>2. calculateChildrenCounts(cloudMap)' = calculateChildrenCounts(cloudMap')
      BY <2>2 DEF calculateChildrenCounts, isDefined, Vtbl
    <3> QED
      BY <3>1, <3>2 DEF Analysed
  <2>4. Unpadded'
    BY <1>1, <2>2 DEF Unpadded, Vtbl
  <2> QED
    BY <1>1, <2>1, <2>2, <2>3, <2>4 DEF IInv
<1>3. ASSUME layoutCloud
      PROVE  IInv'
  <2>1. pc = 2 /\ pc' = 3
    BY <1>1, <1>3, AtSteps DEF layoutCloud, step
  <2>2. UNCHANGED <<cloud, interleave, cloudMap, cloudSizeMap>>
    BY <1>3 DEF layoutCloud
  <2>3. Analysed /\ Analysed' /\ cloudOrder' = cloudOrder
    BY <1>1, <2>1, <2>2, SameOrder DEF Analysed
  <2>4. prePadMap' = prePadMap
    <3>1. Graph /\ contains(cloud)
      BY <1>1, <2>3, CloudAssumption DEF Graph, Analysed, analysis
    <3>2. prePadding(cloudOrder) = prePadMap
      BY <1>1, <3>1, NoPadding
    <3> QED
      BY <1>3, <3>2 DEF layoutCloud
  <2>5. interleavingMap' = array /\ alignment' = unit * WORD_WIDTH
    <3>1. CASE interleave
      <4>1. interleavingMap' = interleaved(cloudOrder, prePadMap') /\ alignment' = WORD_WIDTH
        BY <1>3, <3>1 DEF layoutCloud
      <4>2. unit * WORD_WIDTH = WORD_WIDTH
        BY <3>1 DEF unit, WORD_WIDTH
      <4> QED
        BY <2>4, <3>1, <4>1, <4>2 DEF array
    <3>2. CASE ~interleave
      BY <1>3, <3>2 DEF layoutCloud, array, unit
    <3> QED
      BY <3>1, <3>2
  <2>6. Arranged'
    BY <2>2, <2>4, <2>5, SameArray DEF Arranged, WORD_WIDTH
  <2>7. Unpadded'
    BY <1>1, <2>2, <2>4 DEF Unpadded, Vtbl
  <2> QED
    BY <1>1, <2>1, <2>2, <2>3, <2>6, <2>7 DEF IInv
<1> DEFINE kept == UNCHANGED <<cloud, interleave, cloudMap, cloudSizeMap, prePadMap,
                               interleavingMap, alignment>>
<1>4. ASSUME kept, pc > 2
      PROVE  /\ cloud' \in Clouds /\ interleave' \in BOOLEAN /\ Unpadded'
             /\ Analysed' /\ Arranged'
  <2>1. Analysed /\ Arranged
    BY <1>1, <1>4
  <2>2. Analysed'
    BY <1>4, <2>1, SameOrder DEF Analysed
  <2>3. Arranged'
    BY <1>4, <2>1, SameArray DEF Arranged, WORD_WIDTH
  <2>4. Unpadded'
    BY <1>1, <1>4 DEF Unpadded, Vtbl
  <2> QED
    BY <1>1, <1>4, <2>2, <2>3, <2>4
<1>5. ASSUME calculateNewLayoutInds
      PROVE  IInv'
  <2>1. pc = 3 /\ pc' = 4
    BY <1>1, <1>5, AtSteps DEF calculateNewLayoutInds, step
  <2>2. kept
    BY <1>5 DEF calculateNewLayoutInds
  <2>3. newLayoutInds' = indices
    BY <1>5 DEF calculateNewLayoutInds, indices, indicesOf
  <2>4. newLayoutInds' = indices'
    BY <2>2, <2>3, SameIndices
  <2> QED
    BY <1>4, <2>1, <2>2, <2>4 DEF IInv
<1>6. ASSUME createNewVTable
      PROVE  IInv'
  <2>1. pc = 4 /\ pc' = 5
    BY <1>1, <1>6, AtSteps DEF createNewVTable, step
  <2>2. kept /\ newLayoutInds' = newLayoutInds
    BY <1>6 DEF createNewVTable
  <2>3. newLayoutInds' = indices'
    BY <1>1, <2>1, <2>2, SameIndices
  <2>4. newVTableStartAddrMap' = addressPoints'
    BY <1>6, <2>2, SameAddressPoints DEF createNewVTable, addressPoints
  <2> QED
    BY <1>4, <2>1, <2>2, <2>3, <2>4 DEF IInv
<1>7. ASSUME calculateVPtrRanges
      PROVE  IInv'
  <2>1. pc = 5 /\ pc' = 6
    BY <1>1, <1>7, AtSteps DEF calculateVPtrRanges, step
  <2>2. kept /\ newLayoutInds' = newLayoutInds /\ newVTableStartAddrMap' = newVTableStartAddrMap
    BY <1>7 DEF calculateVPtrRanges
  <2>3. newLayoutInds' = indices' /\ newVTableStartAddrMap' = addressPoints'
    BY <1>1, <2>1, <2>2, SameIndices, SameAddressPoints
  <2>4. Ranges'
    <3>1. /\ rangeMap' = calculateVPtrRangesHelper(cloudOrder)
          /\ memRangeMap' = [v \in Vtbl |-> memRanges(cloudOrder, rangeMap'[v])]
      BY <1>7 DEF calculateVPtrRanges
    <3>2. calculateVPtrRangesHelper(cloudOrder)' = calculateVPtrRangesHelper(cloudOrder)
      BY <2>2, SameOrder
    <3>3. [v \in Vtbl |-> memRanges(cloudOrder, rangeMap[v])]'
            = [v \in Vtbl |-> memRanges(cloudOrder, rangeMap'[v])]
      BY <2>2 DEF memRanges, definedIn, isDefined, Vtbl, cloudOrder, preorder,
                  preorderHelper, children
    <3> QED
      BY <3>1, <3>2, <3>3 DEF Ranges
  <2> QED
    BY <1>4, <2>1, <2>2, <2>3, <2>4 DEF IInv
<1> QED
  BY <1>2, <1>3, <1>5, <1>6, <1>7 DEF Next

(* The invariant speaks of the variables alone.                            *)
LEMMA StutterIInv ==
  ASSUME IInv, UNCHANGED vars
  PROVE  IInv'
<1>1. Analysed => Analysed'
  BY SameOrder DEF vars, Analysed
<1>2. Arranged => Arranged'
  BY SameArray DEF vars, Arranged, WORD_WIDTH
<1>3. indices' = indices /\ addressPoints' = addressPoints
  BY SameIndices, SameAddressPoints DEF vars
<1>4. Unpadded => Unpadded'
  BY DEF vars, Unpadded, Vtbl
<1>5. Ranges => Ranges'
  <2>1. calculateVPtrRangesHelper(cloudOrder)' = calculateVPtrRangesHelper(cloudOrder)
    BY SameOrder DEF vars
  <2>2. [v \in Vtbl |-> memRanges(cloudOrder, rangeMap[v])]'
          = [v \in Vtbl |-> memRanges(cloudOrder, rangeMap[v])]
    BY DEF vars, memRanges, definedIn, isDefined, Vtbl, cloudOrder, preorder,
           preorderHelper, children
  <2> QED
    BY <2>1, <2>2 DEF Ranges, vars
<1> QED
  BY <1>1, <1>2, <1>3, <1>4, <1>5 DEF IInv, vars

(* What the steps have computed is what their definitions say of the       *)
(* metadata.                                                               *)
THEOREM Invariant == Spec => []IInv
<1>1. IInv /\ [Next]_vars => IInv'
  BY NextIInv, StutterIInv
<1> QED
  BY <1>1, InitIInv, PTL DEF Spec


(* What the invariant says after each step, as the lemmas need it.         *)
LEMMA Stages ==
  ASSUME IInv
  PROVE  /\ isCloud(cloud) /\ cloud \in Clouds
         /\ pc > 1 => Graph
         /\ pc > 2 => LaidOut /\ alignment = unit * WORD_WIDTH
         /\ pc > 3 => Indexed
         /\ pc > 5 => Finished
<1>1. cloud \in Clouds /\ pc \in 1..6 /\ Unpadded /\ interleave \in BOOLEAN
  BY DEF IInv
<1>2. /\ isCloud(cloud) /\ acyclic(cloud) /\ contains(cloud)
      /\ derivedTogether(cloud) /\ addressable(cloud)
  BY <1>1, CloudAssumption
<1>3. pc > 1 => Graph
  BY <1>2 DEF IInv, Analysed, analysis, Graph
<1>4. pc > 2 => LaidOut /\ alignment = unit * WORD_WIDTH
  BY <1>1, <1>2, <1>3 DEF IInv, Arranged, array, LaidOut
<1>5. pc > 3 => Indexed
  BY <1>1, <1>4 DEF IInv, indices, Indexed
<1>6. pc > 5 => Finished
  BY <1>1, <1>2, <1>4, <1>5 DEF IInv, Analysed, addressPoints, Ranges, Finished
<1> QED
  BY <1>1, <1>2, <1>3, <1>4, <1>5, <1>6

(* The invariant implies the types.                                        *)
LEMMA TypesOfStages ==
  ASSUME IInv
  PROVE  TypeOK
<1>0. /\ isCloud(cloud) /\ (pc > 1 => Graph)
      /\ (pc > 2 => LaidOut /\ alignment = unit * WORD_WIDTH)
      /\ (pc > 3 => Indexed) /\ (pc > 5 => Finished)
  BY Stages
<1>1. pc \in DOMAIN Steps /\ interleave \in BOOLEAN /\ Unpadded /\ pc \in 1..6
  BY DEF IInv, Steps
<1>2. prePadMap \in [Vtbl -> Nat]
  BY <1>1 DEF Unpadded
<1>3. alignment \in Nat
  <2>1. CASE pc <= 2
    BY <2>1 DEF IInv
  <2>2. CASE pc > 2
    <3>1. orderAlignment(cloud) \in Nat \ {0}
      BY <1>0, OrderAlignment
    <3> DEFINE a == orderAlignment(cloud)
    <3>2. unit = IF interleave THEN 1 ELSE a
      BY DEF unit
    <3> HIDE DEF a
    <3>3. unit \in Nat
      BY <3>1, <3>2 DEF a
    <3> QED
      BY <1>0, <2>2, <3>3 DEF WORD_WIDTH
  <2> QED
    BY <1>1, <2>1, <2>2
<1>4. ASSUME pc > 1
      PROVE  cloudMap \in [Vtbl -> SUBSET Vtbl] /\ cloudSizeMap \in [Vtbl -> Nat]
  <2>1. cloudMap = [v \in Vtbl |-> {k \in Vtbl : v \in cloud.parents[k]}]
    BY <1>0, <1>4 DEF Graph
  <2>2. cloudMap \in [Vtbl -> SUBSET Vtbl]
    BY <2>1
  <2>3. cloudSizeMap = calculateChildrenCounts(cloudMap)
    BY <1>4 DEF IInv, Analysed
  <2> QED
    BY <1>0, <1>4, <2>2, <2>3, ChildrenCounts
<1>5. interleavingMap \in Seq((Vtbl \cup {Dummy}) \X Int)
  <2>1. CASE pc <= 2
    <3>1. interleavingMap = <<>>
      BY <2>1 DEF IInv
    <3> DEFINE X == (Vtbl \cup {Dummy}) \X Int
    <3> HIDE DEF X
    <3>2. <<>> \in Seq(X)
      BY EmptySeq
    <3> QED
      BY <3>1, <3>2 DEF X
  <2>2. CASE pc > 2
    BY <1>0, <2>2, ArrayTyped
  <2> QED
    BY <1>1, <2>1, <2>2
<1>6. pc > 3 => newLayoutInds \in [Objects -> Seq(Nat)]
  BY <1>0, Found
<1>7. pc > 4 => newVTableStartAddrMap \in [Objects -> Nat]
  <2> SUFFICES ASSUME pc > 4
               PROVE  newVTableStartAddrMap \in [Objects -> Nat]
    OBVIOUS
  <2>1. Indexed /\ Graph
    BY <1>0, <1>1 DEF Indexed, LaidOut
  <2>2. newVTableStartAddrMap = [v \in Objects |-> newIndex(v, 0)]
    BY DEF IInv, addressPoints
  <2>3. \A v \in Objects : newIndex(v, 0) \in Nat
    BY <2>1, HasZero, Found
  <2> QED
    BY <2>2, <2>3
<1>8. ASSUME pc > 5
      PROVE  /\ rangeMap \in [Vtbl -> Seq(Nat \X Nat)]
             /\ memRangeMap \in [Vtbl -> Seq(Nat \X Nat)]
  <2>1. Finished /\ Graph
    BY <1>0, <1>1, <1>8
  <2> DEFINE X == Seq(Nat \X Nat)
  <2>2. ASSUME NEW v \in Vtbl
        PROVE  rangeMap[v] \in X /\ memRangeMap[v] \in X
    BY <2>1, RangeFacts, MemRanges DEF translated
  <2>3. memRangeMap = [v \in Vtbl |-> memRangeMap[v]]
    BY <2>1 DEF Finished
  <2>4. rangeMap = [v \in Vtbl |-> rangeMap[v]]
    BY <2>1, HelperEquation DEF Finished
  <2> HIDE DEF X
  <2> QED
    BY <2>2, <2>3, <2>4 DEF X
<1> QED
  BY <1>0, <1>1, <1>2, <1>3, <1>4, <1>5, <1>6, <1>7, <1>8 DEF TypeOK

(* Every step leaves values of the declared types: in particular the       *)
(* padding before a vtable is never negative, and every index of the new   *)
(* array is a natural number.                                              *)
THEOREM TypeCorrect == Spec => []TypeOK
BY Invariant, TypesOfStages, PTL

(* When the passes are done, the layout is finished.                       *)
LEMMA BuiltFinished == IInv => (Built => Finished)
<1> SUFFICES ASSUME IInv, Built
             PROVE  Finished
  OBVIOUS
<1>1. pc \in 1..6
  BY DEF IInv
<1>2. pc = 6
  BY <1>1, AtSteps
<1> QED
  BY <1>2, Stages

(* The ranges of a vtable (calculateVPtrRangesHelper) do not touch, and    *)
(* hold exactly the positions of what derives from it.                     *)
THEOREM RangesAreVerified == Spec => []RangesVerified
<1>1. IInv => RangesVerified
  BY BuiltFinished, RangesHold DEF RangesVerified, descendants
<1> QED
  BY <1>1, Invariant, PTL

(* A virtual call accepts every object that derives from its static class. *)
THEOREM CallsAcceptDerived == Spec => []VcallAcceptsDerived
<1>1. IInv => VcallAcceptsDerived
  BY BuiltFinished, AcceptsDerived DEF VcallAcceptsDerived, derivedObjects, descendants
<1> QED
  BY <1>1, Invariant, PTL

(* A virtual call accepts no other object but the one vtable that follows  *)
(* a range.                                                                *)
THEOREM CallsRejectOthers == Spec => []VcallRejectsOthers
<1>1. IInv => VcallRejectsOthers
  BY BuiltFinished, RejectsOthers DEF VcallRejectsOthers, descendants
<1> QED
  BY <1>1, Invariant, PTL

(* In a tree a cast is accepted exactly for the objects of derived         *)
(* classes.                                                                *)
THEOREM CastsAreExact == Spec => []CastExact
<1>1. IInv => CastExact
  BY BuiltFinished, CastsDerived DEF CastExact, descendants
<1> QED
  BY <1>1, Invariant, PTL

(* In a tree a virtual call finds, in the new array, the entry that the    *)
(* object's own vtable had at that place.                                  *)
THEOREM CallsReachTheEntry == Spec => []CallsReachEntry
<1>1. IInv => CallsReachEntry
  BY BuiltFinished, CallsFind DEF CallsReachEntry
<1> QED
  BY <1>1, Invariant, PTL
=============================================================================
