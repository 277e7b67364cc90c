-------------------------- MODULE ClassTreeProofs ---------------------------
(***************************************************************************)
(* Proofs about ClassTree, for every class hierarchy.                      *)
(***************************************************************************)
EXTENDS ClassTree, SequenceTheorems, FiniteSetTheorems, NaturalsInduction, TLAPS

LEMMA Least ==
  ASSUME NEW S \in SUBSET Nat, S # {}
  PROVE  \E m \in S : \A n \in S : m <= n
<1> DEFINE R == OpToRel(<, Nat)
<1>1. IsWellFoundedOn(R, Nat)
  BY NatLessThanWellFounded
<1>2. \A a, b \in Nat : a < b => <<a, b>> \in R
  BY DEF OpToRel
<1> HIDE DEF R
<1>3. PICK m \in S : \A n \in S : <<n, m>> \notin R
  BY <1>1, WFMin
<1>4. ASSUME NEW n \in S
      PROVE  m <= n
  <2>1. n \in Nat /\ m \in Nat
    OBVIOUS
  <2>2. ~(n < m)
    BY <1>2, <1>3, <2>1
  <2> QED
    BY <2>1, <2>2
<1> QED
  BY <1>4

(* Induction over the numbers up to n, for a set of numbers.               *)
LEMMA UpTo ==
  ASSUME NEW n \in Nat, NEW S, 0 \in S,
         \A m \in 0..n : m < n /\ m \in S => m + 1 \in S
  PROVE  0..n \subseteq S
<1> SUFFICES ASSUME (0..n) \ S # {}
             PROVE  FALSE
  OBVIOUS
<1>0. (0..n) \ S \in SUBSET Nat
  OBVIOUS
<1>1. PICK m \in (0..n) \ S : \A l \in (0..n) \ S : m <= l
  BY <1>0, Least
<1>2. m \in Nat /\ m # 0 /\ m - 1 \in 0..n /\ m - 1 < n /\ (m - 1) + 1 = m
  BY <1>1
<1>3. m - 1 \in S
  BY <1>1, <1>2
<1> QED
  BY <1>1, <1>2, <1>3

-----------------------------------------------------------------------------
Edges == SUBSET (Class \X Class)

grow(E, S) == S \cup {e[2] : e \in {e \in E : e[1] \in S}}

(* the sets of classes within n edges of c                                 *)
Within(E, c, w) ==
  w = [n \in 0..Cardinality(Class) |-> IF n = 0 THEN {c} ELSE grow(E, w[n - 1])]

LEMMA WithinExists ==
  ASSUME NEW E \in Edges, NEW c \in Class
  PROVE  \E w : Within(E, c, w)
<1> DEFINE upto(n) == {w \in [0..n -> SUBSET Class] :
                         \A m \in 0..n : w[m] = IF m = 0 THEN {c} ELSE grow(E, w[m - 1])}
           S == {n \in Nat : upto(n) # {}}
<1>c. Cardinality(Class) \in Nat
  BY ClassAssumption, FS_CardinalityType
<1>1. 0 \in S
  <2>1. [m \in 0..0 |-> {c}] \in upto(0)
    OBVIOUS
  <2> QED
    BY <2>1
<1>2. ASSUME NEW m \in Nat, m \in S
      PROVE  m + 1 \in S
  <2>1. PICK w : w \in upto(m)
    BY <1>2
  <2>w. w[m] \in SUBSET Class /\ \A l \in 0..m : w[l] \in SUBSET Class
    BY <2>1
  <2>2. grow(E, w[m]) \in SUBSET Class
    BY <2>w DEF grow, Edges
  <2>3. PICK x : x = [l \in 0..(m + 1) |-> IF l = m + 1 THEN grow(E, w[m]) ELSE w[l]]
    OBVIOUS
  <2>4. x \in [0..(m + 1) -> SUBSET Class]
    BY <2>w, <2>2, <2>3
  <2>5. ASSUME NEW l \in 0..(m + 1)
        PROVE  x[l] = IF l = 0 THEN {c} ELSE grow(E, x[l - 1])
    <3>1. CASE l = m + 1
      <4>1. l # 0 /\ l - 1 = m /\ m \in 0..(m + 1) /\ m # m + 1
        BY <3>1
      <4> QED
        BY <2>3, <3>1, <4>1
    <3>2. CASE l # m + 1
      <4>1. l \in 0..m /\ (l # 0 => l - 1 \in 0..m /\ l - 1 # m + 1 /\ l - 1 \in 0..(m + 1))
        BY <3>2
      <4>2. w[l] = IF l = 0 THEN {c} ELSE grow(E, w[l - 1])
        BY <2>1, <4>1
      <4> QED
        BY <2>3, <3>2, <4>1, <4>2
    <3> QED
      BY <3>1, <3>2
  <2>6. x \in upto(m + 1)
    BY <2>4, <2>5
  <2> HIDE DEF upto
  <2>7. upto(m + 1) # {} /\ m + 1 \in Nat
    BY <2>6
  <2> QED
    BY <2>7
<1>3. Cardinality(Class) \in S
  <2> HIDE DEF S
  <2>1. 0..Cardinality(Class) \subseteq S
    BY <1>c, <1>1, <1>2, UpTo
  <2> QED
    BY <1>c, <2>1
<1>4. PICK w : w \in upto(Cardinality(Class))
  BY <1>3
<1>5. Within(E, c, w)
  BY <1>4 DEF Within
<1> QED
  BY <1>5

LEMMA ReachWithin ==
  ASSUME NEW E \in Edges, NEW c \in Class
  PROVE  \E w : Within(E, c, w) /\ reach(E, c) = w[Cardinality(Class)]
<1> DEFINE next(f) == [n \in 0..Cardinality(Class) |->
                         IF n = 0 THEN {c} ELSE grow(E, f[n - 1])]
<1> DEFINE w == CHOOSE f : f = next(f)
<1>1. \E f : f = next(f)
  BY WithinExists DEF Within
<1>2. reach(E, c) = w[Cardinality(Class)]
  BY DEF reach, grow
<1> HIDE DEF next
<1>3. w = next(w)
  BY <1>1
<1>4. Within(E, c, w)
  BY <1>3 DEF next, Within
<1> QED
  BY <1>2, <1>4

LEMMA Reach ==
  ASSUME NEW E \in Edges, NEW c \in Class
  PROVE  /\ reach(E, c) \subseteq Class /\ c \in reach(E, c)
         /\ \A e \in E : e[1] \in reach(E, c) => e[2] \in reach(E, c)
         /\ \A S : c \in S /\ (\A e \in E : e[1] \in S => e[2] \in S)
                  => reach(E, c) \subseteq S
<1> DEFINE N == Cardinality(Class)
<1>c. N \in Nat /\ IsFiniteSet(Class)
  BY ClassAssumption, FS_CardinalityType
<1>1. PICK w : Within(E, c, w) /\ reach(E, c) = w[N]
  BY ReachWithin
<1> HIDE DEF N
<1>2. /\ w[0] = {c}
      /\ \A n \in 0..N : n < N => n + 1 \in 0..N /\ w[n + 1] = grow(E, w[n])
  <2>1. \A n \in 0..N : w[n] = IF n = 0 THEN {c} ELSE grow(E, w[n - 1])
    BY <1>1 DEF Within, N
  <2>2. ASSUME NEW n \in 0..N, n < N
        PROVE  n + 1 \in 0..N /\ w[n + 1] = grow(E, w[n])
    <3>1. n + 1 \in 0..N /\ n + 1 # 0 /\ (n + 1) - 1 = n
      BY <1>c, <2>2
    <3> QED
      BY <2>1, <3>1
  <2>3. 0 \in 0..N
    BY <1>c
  <2> QED
    BY <2>1, <2>2, <2>3
<1>3. ASSUME NEW S, c \in S, \A e \in E : e[1] \in S => e[2] \in S
      PROVE  \A n \in 0..N : w[n] \subseteq S
  <2> DEFINE G == {n \in Nat : w[n] \subseteq S}
  <2>1. 0 \in G
    BY <1>2, <1>3
  <2>2. \A n \in 0..N : n < N /\ n \in G => n + 1 \in G
    BY <1>2, <1>3 DEF grow
  <2> HIDE DEF G
  <2>3. 0..N \subseteq G
    BY <1>c, <2>1, <2>2, UpTo
  <2> QED
    BY <2>3 DEF G
<1>4. \A n \in 0..N : w[n] \subseteq Class
  BY <1>3 DEF Edges
<1>5. N \in 0..N
  BY <1>c
<1>6. c \in w[N]
  <2> DEFINE G == {n \in Nat : c \in w[n]}
  <2>1. 0 \in G
    BY <1>2
  <2>2. \A n \in 0..N : n < N /\ n \in G => n + 1 \in G
    BY <1>2 DEF grow
  <2> HIDE DEF G
  <2>3. 0..N \subseteq G
    BY <1>c, <2>1, <2>2, UpTo
  <2> QED
    BY <1>5, <2>3 DEF G
<1>7. grow(E, w[N]) = w[N]
  <2> SUFFICES ASSUME grow(E, w[N]) # w[N]
               PROVE  FALSE
    OBVIOUS
  <2>1. \A n \in 0..N : grow(E, w[n]) # w[n]
    <3> DEFINE G == {m \in Nat : m > N \/ grow(E, w[N - m]) # w[N - m]}
    <3>1. 0 \in G
      BY <1>c
    <3>2. ASSUME NEW m \in 0..N, m < N, m \in G
          PROVE  m + 1 \in G
      <4>1. N - (m + 1) \in 0..N /\ N - (m + 1) < N /\ (N - (m + 1)) + 1 = N - m
            /\ ~(m > N)
        BY <1>c, <3>2
      <4>2. grow(E, w[N - m]) # w[N - m] /\ w[N - m] = grow(E, w[N - (m + 1)])
        BY <1>2, <3>2, <4>1
      <4> QED
        BY <4>2
    <3> HIDE DEF G
    <3>3. 0..N \subseteq G
      BY <1>c, <3>1, <3>2, UpTo
    <3>4. ASSUME NEW n \in 0..N
          PROVE  grow(E, w[n]) # w[n]
      <4>1. N - n \in 0..N /\ N - (N - n) = n /\ ~(N - n > N)
        BY <1>c
      <4> QED
        BY <3>3, <4>1 DEF G
    <3> QED
      BY <3>4
  <2>2. \A n \in 0..N : Cardinality(w[n]) >= n + 1
    <3> DEFINE G == {n \in Nat : Cardinality(w[n]) >= n + 1}
    <3>1. 0 \in G
      <4>1. Cardinality(w[0]) = 1
        BY <1>2, FS_Singleton
      <4> QED
        BY <4>1
    <3>2. ASSUME NEW n \in 0..N, n < N, n \in G
          PROVE  n + 1 \in G
      <4>1. w[n + 1] = grow(E, w[n]) /\ grow(E, w[n]) # w[n] /\ n + 1 \in 0..N
        BY <1>2, <2>1, <3>2
      <4>2. w[n] \subseteq w[n + 1] /\ w[n] # w[n + 1]
        BY <4>1 DEF grow
      <4>3. IsFiniteSet(w[n + 1]) /\ IsFiniteSet(w[n])
        BY <1>4, <1>c, <4>1, FS_Subset
      <4>4. Cardinality(w[n]) \in Nat /\ Cardinality(w[n + 1]) \in Nat
            /\ Cardinality(w[n]) <= Cardinality(w[n + 1])
            /\ Cardinality(w[n]) # Cardinality(w[n + 1])
        BY <4>2, <4>3, FS_Subset, FS_CardinalityType
      <4>5. Cardinality(w[n]) >= n + 1 /\ n \in Nat
        BY <3>2
      <4> QED
        BY <4>4, <4>5
    <3> HIDE DEF G
    <3>3. 0..N \subseteq G
      BY <1>c, <3>1, <3>2, UpTo
    <3> QED
      BY <3>3 DEF G
  <2>3. Cardinality(w[N]) <= N
    BY <1>4, <1>5, <1>c, FS_Subset DEF N
  <2>4. Cardinality(w[N]) \in Nat
    BY <1>4, <1>5, <1>c, FS_Subset, FS_CardinalityType
  <2> QED
    BY <1>5, <1>c, <2>2, <2>3, <2>4
<1>8. \A e \in E : e[1] \in w[N] => e[2] \in w[N]
  BY <1>7 DEF grow
<1> QED
  BY <1>1, <1>3, <1>4, <1>5, <1>6, <1>8

LEMMA ReachTrans ==
  ASSUME NEW E \in Edges, NEW c \in Class, NEW d \in reach(E, c)
  PROVE  reach(E, d) \subseteq reach(E, c)
<1>1. d \in Class
  BY Reach
<1> QED
  BY <1>1, Reach

LEMMA ReachFirst ==
  ASSUME NEW E \in Edges, NEW c \in Class, NEW d \in reach(E, c), d # c
  PROVE  \E e \in E : e[1] = c /\ d \in reach(E, e[2])
<1>t. \A e \in E : e[1] \in Class /\ e[2] \in Class
  BY DEF Edges
<1> DEFINE S == {c} \cup UNION {reach(E, e[2]) : e \in {e \in E : e[1] = c}}
<1>1. ASSUME NEW e \in E, e[1] \in S
      PROVE  e[2] \in S
  <2>1. CASE e[1] = c
    <3>1. e[2] \in reach(E, e[2])
      BY <1>t, Reach
    <3> QED
      BY <2>1, <3>1
  <2>2. CASE e[1] # c
    <3>1. PICK f \in E : f[1] = c /\ e[1] \in reach(E, f[2])
      BY <1>1, <2>2
    <3>2. e[2] \in reach(E, f[2])
      BY <1>t, <3>1, Reach
    <3> QED
      BY <3>1, <3>2
  <2> QED
    BY <2>1, <2>2
<1>2. c \in S
  OBVIOUS
<1>3. reach(E, c) \subseteq S
  <2> HIDE DEF S
  <2> QED
    BY <1>1, <1>2, Reach
<1> QED
  BY <1>3

LEMMA ReachLast ==
  ASSUME NEW E \in Edges, NEW c \in Class, NEW d \in reach(E, c), d # c
  PROVE  \E e \in E : e[1] \in reach(E, c) /\ e[2] = d
<1> DEFINE S == {c} \cup {x \in Class : \E e \in E : e[1] \in reach(E, c) /\ e[2] = x}
<1>1. ASSUME NEW e \in E, e[1] \in S
      PROVE  e[2] \in S
  <2>1. e[1] \in reach(E, c)
    BY <1>1, Reach
  <2>2. e[2] \in Class
    BY DEF Edges
  <2> QED
    BY <2>1, <2>2
<1>2. c \in S
  OBVIOUS
<1>3. reach(E, c) \subseteq S
  <2> HIDE DEF S
  <2> QED
    BY <1>1, <1>2, Reach
<1> QED
  BY <1>3

LEMMA ReachReverse ==
  ASSUME NEW E \in Edges, NEW F \in Edges,
         \A x, y \in Class : <<x, y>> \in E => <<y, x>> \in F,
         NEW c \in Class, NEW d \in reach(E, c)
  PROVE  c \in reach(F, d)
<1> DEFINE S == {x \in Class : c \in reach(F, x)}
<1>1. ASSUME NEW e \in E, e[1] \in S
      PROVE  e[2] \in S
  <2>1. e[1] \in Class /\ e[2] \in Class /\ e = <<e[1], e[2]>>
    BY DEF Edges
  <2>2. <<e[2], e[1]>> \in F
    BY <2>1
  <2>3. e[1] \in reach(F, e[2])
    BY <2>1, <2>2, Reach
  <2> QED
    BY <1>1, <2>1, <2>3, ReachTrans
<1>2. c \in S
  BY Reach
<1>3. reach(E, c) \subseteq S
  <2> HIDE DEF S
  <2> QED
    BY <1>1, <1>2, Reach
<1> QED
  BY <1>3

-----------------------------------------------------------------------------
(* Hierarchies.                                                            *)

LEMMA Bases ==
  ASSUME NEW h, isHierarchy(h), NEW c \in Class
  PROVE  /\ h[c] \in Seq(Class) /\ bases(h, c) \subseteq Class
         /\ bases(h, c) = {h[c][j] : j \in 1..Len(h[c])}
         /\ upwards(h) \in Edges
<1>1. h[c] \in Seq(Class)
  BY DEF isHierarchy
<1>2. DOMAIN h[c] = 1..Len(h[c]) /\ \A j \in 1..Len(h[c]) : h[c][j] \in Class
  BY <1>1
<1>3. upwards(h) \in Edges
  BY DEF upwards, Edges
<1> QED
  BY <1>1, <1>2, <1>3 DEF bases, Range

LEMMA Ancestors ==
  ASSUME NEW h, isHierarchy(h), NEW c \in Class
  PROVE  /\ ancestors(h, c) \subseteq Class /\ c \in ancestors(h, c)
         /\ \A d \in ancestors(h, c) : /\ ancestors(h, d) \subseteq ancestors(h, c)
                                       /\ bases(h, d) \subseteq ancestors(h, c)
         /\ \A d \in ancestors(h, c) : d # c =>
              /\ \E b \in bases(h, c) : d \in ancestors(h, b)
              /\ \E a \in ancestors(h, c) : d \in bases(h, a)
         /\ \A S : c \in S /\ (\A d \in S \cap Class : bases(h, d) \subseteq S)
                  => ancestors(h, c) \subseteq S
<1>1. upwards(h) \in Edges
  BY Bases
<1>2. ASSUME NEW e \in upwards(h)
      PROVE  e[1] \in Class /\ e[2] \in bases(h, e[1])
  BY DEF upwards
<1>3. ASSUME NEW d \in Class, NEW b \in bases(h, d)
      PROVE  <<d, b>> \in upwards(h)
  BY Bases DEF upwards
<1>4. ancestors(h, c) \subseteq Class /\ c \in ancestors(h, c)
  BY <1>1, Reach DEF ancestors
<1>5. ASSUME NEW d \in ancestors(h, c)
      PROVE  /\ ancestors(h, d) \subseteq ancestors(h, c)
             /\ bases(h, d) \subseteq ancestors(h, c)
  <2>1. d \in Class
    BY <1>4
  <2>2. ASSUME NEW b \in bases(h, d)
        PROVE  b \in ancestors(h, c)
    <3>1. PICK e \in upwards(h) : e = <<d, b>>
      BY <1>3, <2>1, <2>2
    <3>2. e[1] = d /\ e[2] = b
      BY <3>1
    <3> QED
      BY <1>1, <1>5, <3>2, Reach DEF ancestors
  <2> QED
    BY <1>1, <2>2, ReachTrans DEF ancestors
<1>6. ASSUME NEW d \in ancestors(h, c), d # c
      PROVE  /\ \E b \in bases(h, c) : d \in ancestors(h, b)
             /\ \E a \in ancestors(h, c) : d \in bases(h, a)
  <2>1. PICK e \in upwards(h) : e[1] = c /\ d \in reach(upwards(h), e[2])
    BY <1>1, <1>6, ReachFirst DEF ancestors
  <2>2. PICK f \in upwards(h) : f[1] \in reach(upwards(h), c) /\ f[2] = d
    BY <1>1, <1>6, ReachLast DEF ancestors
  <2> QED
    BY <1>2, <2>1, <2>2 DEF ancestors
<1>7. ASSUME NEW S, c \in S, \A d \in S \cap Class : bases(h, d) \subseteq S
      PROVE  ancestors(h, c) \subseteq S
  <2>1. ASSUME NEW e \in upwards(h), e[1] \in S
        PROVE  e[2] \in S
    BY <1>2, <1>7, <2>1
  <2> QED
    BY <1>1, <1>7, <2>1, Reach DEF ancestors
<1> QED
  BY <1>4, <1>5, <1>6, <1>7

(* no class is derived from itself                                         *)
LEMMA NoCycle ==
  ASSUME NEW h, isHierarchy(h), NEW c \in Class, NEW b \in bases(h, c)
  PROVE  c \notin ancestors(h, b) /\ b # c
<1>1. b \in Class
  BY Bases
<1>2. c \notin ancestors(h, b)
  <2> SUFFICES ASSUME c \in ancestors(h, b)
               PROVE  FALSE
    OBVIOUS
  <2> DEFINE S == {x \in ancestors(h, b) : c \in ancestors(h, x)}
  <2>1. S \subseteq Class /\ c \in S /\ b \in S
    BY <1>1, Ancestors
  <2>2. ASSUME NEW x \in S
        PROVE  \E y \in S : y \in bases(h, x)
    <3>1. CASE x = c
      BY <2>1, <3>1
    <3>2. CASE x # c
      <4>0. x \in Class
        BY <2>1
      <4>1. PICK y \in bases(h, x) : c \in ancestors(h, y)
        BY <2>2, <3>2, <4>0, Ancestors
      <4>2. y \in ancestors(h, b)
        BY <1>1, <2>2, <4>1, Ancestors
      <4> QED
        BY <4>1, <4>2
    <3> QED
      BY <3>1, <3>2
  <2> HIDE DEF S
  <2>3. \E x \in S : \A y \in S : y \notin bases(h, x)
    BY <2>1 DEF isHierarchy, acyclic
  <2> QED
    BY <2>2, <2>3
<1>3. b \in ancestors(h, b)
  BY <1>1, Ancestors
<1> QED
  BY <1>2, <1>3

-----------------------------------------------------------------------------
(* Sequences of classes.                                                   *)

LEMMA Pushed ==
  ASSUME NEW s \in Seq(Class), NEW c \in Class
  PROVE  /\ Append(s, c) \in Seq(Class) /\ Append(s, c) # <<>>
         /\ Len(s) \in Nat /\ Len(Append(s, c)) = Len(s) + 1
         /\ Last(Append(s, c)) = c
         /\ \A j \in 1..Len(s) : Append(s, c)[j] = s[j]
         /\ Append(s, c)[Len(s) + 1] = c
         /\ s = <<>> => Append(s, c)[1] = c
         /\ s # <<>> => Append(s, c)[1] = s[1]
         /\ Range(Append(s, c)) = Range(s) \cup {c}
<1>1. /\ Append(s, c) \in Seq(Class) /\ Append(s, c) # <<>>
      /\ Len(s) \in Nat /\ Len(Append(s, c)) = Len(s) + 1
      /\ \A j \in 1..Len(s) : Append(s, c)[j] = s[j]
      /\ Append(s, c)[Len(s) + 1] = c
  BY AppendProperties, LenProperties
<1>2. s = <<>> => Len(s) = 0
  OBVIOUS
<1>3. s # <<>> => Len(s) >= 1
  BY EmptySeq, <1>1
<1>4. Range(s) = {s[j] : j \in 1..Len(s)}
      /\ Range(Append(s, c)) = {Append(s, c)[j] : j \in 1..Len(Append(s, c))}
  BY <1>1, LenProperties DEF Range
<1>5. Range(Append(s, c)) = Range(s) \cup {c}
  <2>1. 1..Len(Append(s, c)) = 1..Len(s) \cup {Len(s) + 1}
    BY <1>1
  <2> QED
    BY <1>1, <1>4, <2>1
<1> QED
  BY <1>1, <1>2, <1>3, <1>5 DEF Last

LEMMA Popped ==
  ASSUME NEW s \in Seq(Class), s # <<>>
  PROVE  /\ Front(s) \in Seq(Class)
         /\ Len(s) \in Nat \ {0} /\ Len(Front(s)) = Len(s) - 1
         /\ \A j \in 1..Len(Front(s)) : Front(s)[j] = s[j]
         /\ Last(s) \in Class /\ Last(s) = s[Len(s)] /\ s[1] \in Class
         /\ Front(s) # <<>> => Len(s) > 1 /\ Front(s)[1] = s[1]
         /\ Range(s) = Range(Front(s)) \cup {Last(s)}
<1>1. Len(s) \in Nat \ {0} /\ \A j \in 1..Len(s) : s[j] \in Class
  BY EmptySeq, ElementOfSeq
<1>2. /\ Front(s) \in Seq(Class) /\ Len(Front(s)) = Len(s) - 1
      /\ \A j \in 1..Len(Front(s)) : Front(s)[j] = s[j]
  <2>1. \A j \in 1..(Len(s) - 1) : s[j] \in Class
    BY <1>1
  <2>2. /\ Front(s) \in Seq(Class)
        /\ Len(Front(s)) = IF 1 <= Len(s) - 1 THEN (Len(s) - 1) - 1 + 1 ELSE 0
        /\ \A j \in 1..((Len(s) - 1) - 1 + 1) : Front(s)[j] = s[1 + j - 1]
    BY <1>1, <2>1, SubSeqProperties DEF Front
  <2>3. Len(Front(s)) = Len(s) - 1 /\ (Len(s) - 1) - 1 + 1 = Len(s) - 1
    <3> DEFINE l == Len(s)
    <3>1. l \in Nat \ {0} /\ Len(Front(s)) = IF 1 <= l - 1 THEN (l - 1) - 1 + 1 ELSE 0
      BY <1>1, <2>2
    <3> HIDE DEF l
    <3>2. (l - 1) - 1 + 1 = l - 1 /\ (~(1 <= l - 1) => l - 1 = 0)
      BY <3>1
    <3>3. Len(Front(s)) = l - 1
      BY <3>1, <3>2
    <3> QED
      BY <3>2, <3>3 DEF l
  <2>4. ASSUME NEW j \in 1..(Len(s) - 1)
        PROVE  Front(s)[j] = s[j]
    <3>1. 1 + j - 1 = j
      OBVIOUS
    <3>2. Front(s)[j] = s[1 + j - 1]
      BY <2>2, <2>3
    <3> QED
      BY <3>1, <3>2
  <2> QED
    BY <2>2, <2>3, <2>4
<1>3. Front(s) # <<>> => Len(Front(s)) >= 1
  BY <1>2, EmptySeq
<1>4. Range(s) = {s[j] : j \in 1..Len(s)}
      /\ Range(Front(s)) = {Front(s)[j] : j \in 1..Len(Front(s))}
  BY <1>2, LenProperties DEF Range
<1>5. Range(s) = Range(Front(s)) \cup {s[Len(s)]}
  <2>1. 1..Len(s) = 1..Len(Front(s)) \cup {Len(s)}
    BY <1>1, <1>2
  <2> QED
    BY <1>2, <1>4, <2>1
<1>6. Last(s) = s[Len(s)] /\ s[Len(s)] \in Class /\ s[1] \in Class
  BY <1>1 DEF Last
<1> QED
  BY <1>1, <1>2, <1>3, <1>5, <1>6

LEMMA Members ==
  ASSUME NEW s \in Seq(Class)
  PROVE  /\ Len(s) \in Nat /\ DOMAIN s = 1..Len(s)
         /\ \A j \in 1..Len(s) : s[j] \in Class
         /\ Range(s) = {s[j] : j \in 1..Len(s)} /\ Range(s) \subseteq Class
  BY LenProperties, ElementOfSeq DEF Range

-----------------------------------------------------------------------------
(* Types.  The loop for every class on the stack has begun, so that the    *)
(* place where it is exists.                                               *)

Calls ==
  /\ \A j \in 1..Len(stack) : i[stack[j]] # 0
  /\ walking("buildFakeVTables") => Index # 0

Typed == TypeOK /\ isHierarchy(Parents) /\ Calls

LEMMA Current ==
  ASSUME Typed, stack # <<>>
  PROVE  /\ current \in Class /\ root \in Class
         /\ i[current] \in Nat \ {0} /\ k[current] \in Nat
         /\ current \in Range(stack) /\ root \in Range(stack)
         /\ i[current] <= Len(Parents[current]) =>
              Parents[current][i[current]] \in bases(Parents, current)
         /\ i[current] <= Len(Children[current]) =>
              /\ Children[current][i[current]] \in Class
              /\ Children[current][i[current]] \in Range(Children[current])
<1>0. stack \in Seq(Class)
  BY DEF Typed, TypeOK
<1>1. /\ current = stack[Len(stack)] /\ Len(stack) \in 1..Len(stack)
      /\ current \in Class /\ root \in Class /\ current \in Range(stack)
      /\ root = stack[1] /\ 1 \in 1..Len(stack) /\ root \in Range(stack)
  <2>1. Len(stack) \in Nat \ {0} /\ Last(stack) = stack[Len(stack)]
        /\ Last(stack) \in Class /\ stack[1] \in Class
    BY <1>0, Popped
  <2>2. 1 \in 1..Len(stack) /\ Len(stack) \in 1..Len(stack)
    BY <2>1
  <2> QED
    BY <1>0, <2>1, <2>2, Members DEF current, root
<1>2. i[current] \in Nat \ {0} /\ k[current] \in Nat
  BY <1>1 DEF Typed, TypeOK, Calls
<1>3. i[current] <= Len(Parents[current]) =>
        Parents[current][i[current]] \in bases(Parents, current)
  <2>1. Len(Parents[current]) \in Nat
    BY <1>1, Members DEF Typed, TypeOK
  <2> QED
    BY <1>1, <1>2, <2>1, Bases DEF Typed
<1>4. i[current] <= Len(Children[current]) =>
        /\ Children[current][i[current]] \in Class
        /\ Children[current][i[current]] \in Range(Children[current])
  <2>1. Children[current] \in Seq(Class)
    BY <1>1 DEF Typed, TypeOK
  <2>2. Len(Children[current]) \in Nat
    BY <2>1
  <2> QED
    BY <1>2, <2>1, <2>2, Members
<1> QED
  BY <1>1, <1>2, <1>3, <1>4

LEMMA TypedInit ==
  ASSUME Init
  PROVE  Typed
<1>1. isHierarchy(Parents)
  BY ClassAssumption DEF Init
<1>2. Roots \in Seq(Class)
  <2>1. PICK S \in SUBSET Class : Roots \in inOrder(S)
    BY DEF Init
  <2>2. Cardinality(S) \in Nat
    BY ClassAssumption, FS_Subset, FS_CardinalityType
  <2> QED
    BY <2>1, <2>2 DEF inOrder
<1>3. phantom \in SUBSET (Class \X Class)
  BY ClassAssumption DEF Init, derivations
<1>4. Parents \in [Class -> Seq(Class)]
  BY <1>1 DEF isHierarchy
<1>5. <<>> \in Seq(Class) /\ Len(<<>>) = 0
  OBVIOUS
<1>6. TypeOK
  BY <1>2, <1>3, <1>4, <1>5 DEF Init, TypeOK, Phases, NoIndex
<1>7. Calls
  BY <1>5 DEF Init, Calls, walking
<1> QED
  BY <1>1, <1>6, <1>7 DEF Typed

(* What a call and a return do to the stack.                               *)
LEMMA CallTyped ==
  ASSUME Typed, NEW c \in Class, call(c),
         NEW j \in [Class -> Nat], i' = j, j[c] = 1,
         \A d \in Class : i[d] # 0 => j[d] # 0
  PROVE  stack' \in Seq(Class) /\ i' \in [Class -> Nat]
         /\ \A a \in 1..Len(stack') : i'[stack'[a]] # 0
<1>1. stack \in Seq(Class) /\ stack' = Append(stack, c)
  BY DEF Typed, TypeOK, call
<1>2. ASSUME NEW a \in 1..Len(stack')
      PROVE  i'[stack'[a]] # 0
  <2>1. CASE a \in 1..Len(stack)
    <3>1. stack'[a] = stack[a] /\ stack[a] \in Class
      BY <1>1, <2>1, Pushed, Members
    <3>2. i[stack[a]] # 0
      BY <2>1 DEF Typed, Calls
    <3> QED
      BY <3>1, <3>2
  <2>2. CASE a \notin 1..Len(stack)
    <3>1. a = Len(stack) + 1
      BY <1>1, <2>2, Pushed
    <3> QED
      BY <1>1, <3>1, Pushed
  <2> QED
    BY <2>1, <2>2
<1> QED
  BY <1>1, <1>2, Pushed

LEMMA ReturnTyped ==
  ASSUME Typed, stack # <<>>, return
  PROVE  stack' \in Seq(Class) /\ i' \in [Class -> Nat] /\ k' \in [Class -> Nat]
         /\ \A a \in 1..Len(stack') : i'[stack'[a]] # 0
<1>1. stack \in Seq(Class) /\ stack' = Front(stack) /\ i' = i /\ k' = k
  BY DEF Typed, TypeOK, return
<1>2. \A a \in 1..Len(stack') : stack'[a] = stack[a] /\ a \in 1..Len(stack)
  BY <1>1, Popped
<1> QED
  BY <1>1, <1>2, Popped DEF Typed, TypeOK, Calls

(* counters of the loops, as they change in a step                         *)
LEMMA Counters ==
  ASSUME NEW f \in [Class -> Nat], NEW t \in Class, NEW c \in Class
  PROVE  /\ [f EXCEPT ![t] = @ + 1] \in [Class -> Nat]
         /\ \A d \in Class : [f EXCEPT ![t] = @ + 1][d] = IF d = t THEN f[t] + 1 ELSE f[d]
         /\ [f EXCEPT ![t] = @ + 1, ![c] = 1] \in [Class -> Nat]
         /\ \A d \in Class : [f EXCEPT ![t] = @ + 1, ![c] = 1][d] =
                             IF d = c THEN 1 ELSE IF d = t THEN f[t] + 1 ELSE f[d]
         /\ [f EXCEPT ![t] = @ + 1, ![c] = 0] \in [Class -> Nat]
         /\ \A d \in Class : [f EXCEPT ![t] = @ + 1, ![c] = 0][d] =
                             IF d = c THEN 0 ELSE IF d = t THEN f[t] + 1 ELSE f[d]
<1>1. f[t] + 1 \in Nat
  OBVIOUS
<1>2. /\ [f EXCEPT ![t] = @ + 1] = [d \in Class |-> IF d = t THEN f[t] + 1 ELSE f[d]]
      /\ [f EXCEPT ![t] = @ + 1, ![c] = 1] =
           [d \in Class |-> IF d = c THEN 1 ELSE IF d = t THEN f[t] + 1 ELSE f[d]]
      /\ [f EXCEPT ![t] = @ + 1, ![c] = 0] =
           [d \in Class |-> IF d = c THEN 0 ELSE IF d = t THEN f[t] + 1 ELSE f[d]]
  OBVIOUS
<1> QED
  BY <1>1, <1>2

LEMMA NumberTyped ==
  ASSUME Typed, NEW c \in Class, NEW r \in Class, NEW x \in Nat, number(c, r, x)
  PROVE  /\ TreeIndices' \in [Class -> [Class -> Nat \cup {NoIndex}]]
         /\ \A d, s \in Class :
              TreeIndices'[d][s] = IF d = c /\ s = r THEN x ELSE TreeIndices[d][s]
         /\ Index' = x + 1 /\ Index' \in Nat \ {0} /\ call(c)
<1> DEFINE T == Nat \cup {NoIndex}
<1>1. TreeIndices \in [Class -> [Class -> T]]
  BY DEF Typed, TypeOK
<1>2. TreeIndices' = [TreeIndices EXCEPT ![c][r] = x] /\ Index' = x + 1 /\ call(c)
  BY DEF number
<1>3. x \in T
  OBVIOUS
<1> HIDE DEF T
<1>4. [TreeIndices[c] EXCEPT ![r] = x] \in [Class -> T]
  BY <1>1, <1>3
<1>5. TreeIndices' = [TreeIndices EXCEPT ![c] = [TreeIndices[c] EXCEPT ![r] = x]]
  BY <1>1, <1>2
<1>6. TreeIndices' \in [Class -> [Class -> T]]
  BY <1>1, <1>4, <1>5
<1>7. \A d, s \in Class :
        TreeIndices'[d][s] = IF d = c /\ s = r THEN x ELSE TreeIndices[d][s]
  BY <1>1, <1>5
<1> QED
  BY <1>2, <1>6, <1>7 DEF T

LEMMA TypedStep ==
  ASSUME Typed, [Next]_vars
  PROVE  Typed'
<1> USE DEF Typed
<1>h. Parents' = Parents /\ phantom' = phantom /\ isHierarchy(Parents')
  BY DEF vars, hierarchy, Next, extendTypeMetadata, setParentsChildrenRecursive,
         findDiamonds, findDiamondsRecursive, buildFakeVTables,
         buildFakeVTablesRecursive, removeDuplicates
<1>p. Phases = {"extendTypeMetadata", "findDiamonds", "buildFakeVTables",
                "removeDuplicates", "done"}
  BY DEF Phases
<1>1. CASE extendTypeMetadata
  <2>1. ASSUME NEW c \in Class, call(c), i' = [i EXCEPT ![c] = 1]
        PROVE  stack' \in Seq(Class) /\ i' \in [Class -> Nat]
               /\ \A a \in 1..Len(stack') : i'[stack'[a]] # 0
    <3>1. /\ [i EXCEPT ![c] = 1] \in [Class -> Nat] /\ [i EXCEPT ![c] = 1][c] = 1
          /\ \A d \in Class : i[d] # 0 => [i EXCEPT ![c] = 1][d] # 0
      BY DEF TypeOK
    <3> QED
      BY <2>1, <3>1, CallTyped
  <2>2. /\ stack' \in Seq(Class) /\ i' \in [Class -> Nat] /\ type' \in Class \cup {0}
        /\ pc' \in Phases /\ pc' # "buildFakeVTables"
        /\ \A a \in 1..Len(stack') : i'[stack'[a]] # 0
    BY <1>1, <1>p, <2>1 DEF extendTypeMetadata, TypeOK, Calls
  <2>3. Calls'
    BY <2>2 DEF Calls, walking
  <2>u. UNCHANGED <<Children, Roots, Diamonds, TreeIndices, pos, k, Descendents, Index>>
    BY <1>1 DEF extendTypeMetadata
  <2>4. TypeOK'
    <3>1. TypeOK
      OBVIOUS
    <3>2. stack' \in Seq(Class) /\ i' \in [Class -> Nat] /\ type' \in Class \cup {0}
          /\ pc' \in Phases
      BY <2>2
    <3> QED
      BY <1>h, <2>u, <3>1, <3>2 DEF TypeOK
  <2> QED
    BY <1>h, <2>3, <2>4
<1>2. CASE setParentsChildrenRecursive
  <2> DEFINE t == current
             p == Parents[t][i[t]]
  <2>0. stack # <<>> /\ pc = "extendTypeMetadata" /\ pc' = pc
    BY <1>2 DEF setParentsChildrenRecursive, walking
  <2>t. t \in Class /\ i[t] \in Nat \ {0} /\ Len(Parents[t]) \in Nat
    BY <2>0, Current, Members DEF TypeOK
  <2>p. i[t] <= Len(Parents[t]) => p \in Class
    BY <2>0, <2>t, Current, Bases
  <2> HIDE DEF t, p
  <2>1. \/ i[t] > Len(Parents[t]) /\ return /\ UNCHANGED Children
        \/ /\ i[t] <= Len(Parents[t]) /\ k' = k
           /\ IF t \in Range(Children[p])
              THEN i' = [i EXCEPT ![t] = @ + 1] /\ UNCHANGED <<stack, Children>>
              ELSE /\ Children' = [Children EXCEPT ![p] = Append(@, t)]
                   /\ call(p) /\ i' = [i EXCEPT ![t] = @ + 1, ![p] = 1]
    BY <1>2 DEF setParentsChildrenRecursive, t, p
  <2>2. /\ stack' \in Seq(Class) /\ i' \in [Class -> Nat] /\ k' \in [Class -> Nat]
        /\ Children' \in [Class -> Seq(Class)]
        /\ \A a \in 1..Len(stack') : i'[stack'[a]] # 0
    <3>1. CASE i[t] > Len(Parents[t]) /\ return /\ UNCHANGED Children
      BY <2>0, <3>1, ReturnTyped DEF TypeOK
    <3>2. CASE /\ i[t] <= Len(Parents[t]) /\ k' = k
               /\ i' = [i EXCEPT ![t] = @ + 1] /\ UNCHANGED <<stack, Children>>
      <4>1. \A a \in 1..Len(stack) : stack[a] \in Class /\ i[stack[a]] \in Nat \ {0}
        BY Members DEF TypeOK, Calls
      <4>2. i' \in [Class -> Nat] /\ \A a \in 1..Len(stack) : i'[stack[a]] # 0
        <5>1. i \in [Class -> Nat] /\ i' = [i EXCEPT ![t] = @ + 1]
          BY <3>2 DEF TypeOK
        <5>2. i' \in [Class -> Nat]
              /\ \A d \in Class : i'[d] = IF d = t THEN i[t] + 1 ELSE i[d]
          BY <2>t, <5>1, Counters
        <5> QED
          BY <2>t, <4>1, <5>2
      <4> QED
        BY <2>t, <3>2, <4>2 DEF TypeOK
    <3>3. CASE /\ i[t] <= Len(Parents[t]) /\ k' = k
               /\ Children' = [Children EXCEPT ![p] = Append(@, t)]
               /\ call(p) /\ i' = [i EXCEPT ![t] = @ + 1, ![p] = 1]
      <4> DEFINE j == [i EXCEPT ![t] = @ + 1, ![p] = 1]
      <4>1. j \in [Class -> Nat] /\ j[p] = 1 /\ \A d \in Class : i[d] # 0 => j[d] # 0
        <5>1. i \in [Class -> Nat] /\ p \in Class
          BY <2>p, <3>3 DEF TypeOK
        <5> QED
          BY <2>t, <5>1, Counters
      <4>2. Append(Children[p], t) \in Seq(Class)
        BY <2>t, <2>p, <3>3, Pushed DEF TypeOK
      <4>3. Children' \in [Class -> Seq(Class)]
        BY <2>p, <3>3, <4>2 DEF TypeOK
      <4> HIDE DEF j
      <4>4. i' = j
        BY <3>3 DEF j
      <4>5. p \in Class /\ call(p) /\ k' \in [Class -> Nat]
        BY <2>p, <3>3 DEF TypeOK
      <4>6. stack' \in Seq(Class) /\ i' \in [Class -> Nat]
            /\ \A a \in 1..Len(stack') : i'[stack'[a]] # 0
        BY <4>1, <4>4, <4>5, CallTyped
      <4> QED
        BY <4>3, <4>5, <4>6
    <3> QED
      BY <2>1, <3>1, <3>2, <3>3
  <2>3. TypeOK'
    BY <1>2, <1>h, <2>0, <2>2 DEF setParentsChildrenRecursive, TypeOK
  <2> QED
    BY <1>h, <2>0, <2>2, <2>3 DEF Calls, walking
<1>3. CASE findDiamonds
  <2>1. CASE rootsDone("findDiamonds", "buildFakeVTables")
             /\ UNCHANGED <<stack, i, Descendents>>
    BY <1>3, <1>h, <1>p, <2>1 DEF findDiamonds, rootsDone, TypeOK, Calls, walking
  <2>2. CASE /\ pc = "findDiamonds" /\ pos <= Len(Roots)
             /\ Descendents' = {Roots[pos]}
             /\ call(Roots[pos]) /\ i' = [i EXCEPT ![Roots[pos]] = 1]
             /\ pos' = pos + 1 /\ UNCHANGED pc
    <3>1. Roots[pos] \in Class
      BY <2>2, Members DEF TypeOK
    <3>2. /\ [i EXCEPT ![Roots[pos]] = 1] \in [Class -> Nat]
          /\ [i EXCEPT ![Roots[pos]] = 1][Roots[pos]] = 1
          /\ \A d \in Class : i[d] # 0 => [i EXCEPT ![Roots[pos]] = 1][d] # 0
      BY <3>1 DEF TypeOK
    <3>3. stack' \in Seq(Class) /\ i' \in [Class -> Nat]
          /\ \A a \in 1..Len(stack') : i'[stack'[a]] # 0
      BY <2>2, <3>1, <3>2, CallTyped
    <3>u. UNCHANGED <<pc, Children, Roots, Diamonds, TreeIndices, type, k, Index>>
          /\ pos' \in Nat \ {0} /\ Descendents' \subseteq Class
      BY <1>3, <2>2, <3>1 DEF findDiamonds, TypeOK
    <3>4. TypeOK'
      BY <1>h, <3>u, <3>3 DEF TypeOK
    <3> QED
      BY <1>h, <2>2, <3>3, <3>4 DEF Calls, walking
  <2> QED
    BY <1>3, <2>1, <2>2 DEF findDiamonds
<1>4. CASE findDiamondsRecursive
  <2> DEFINE t == current
             c == Children[t][i[t]]
  <2>0. stack # <<>> /\ pc = "findDiamonds" /\ pc' = pc
    BY <1>4 DEF findDiamondsRecursive, walking
  <2>t. t \in Class /\ i[t] \in Nat \ {0} /\ Len(Children[t]) \in Nat /\ root \in Class
    BY <2>0, Current, Members DEF TypeOK
  <2>c. i[t] <= Len(Children[t]) => c \in Class
    BY <2>0, <2>t, Current
  <2> HIDE DEF t, c
  <2>1. \/ return /\ UNCHANGED <<Roots, Diamonds, Descendents>>
        \/ /\ i[t] <= Len(Children[t])
           /\ Roots' = pushNew(Roots, t)
           /\ Diamonds' = [Diamonds EXCEPT ![t] = @ \cup diamond(c)]
           /\ return /\ UNCHANGED Descendents
        \/ /\ i[t] <= Len(Children[t])
           /\ Descendents' = Descendents \cup {c}
           /\ call(c) /\ i' = [i EXCEPT ![t] = @ + 1, ![c] = 1]
           /\ UNCHANGED <<Roots, Diamonds, k>>
    BY <1>4 DEF findDiamondsRecursive, t, c
  <2>2. /\ stack' \in Seq(Class) /\ i' \in [Class -> Nat] /\ k' \in [Class -> Nat]
        /\ \A a \in 1..Len(stack') : i'[stack'[a]] # 0
    <3>1. CASE return
      BY <2>0, <3>1, ReturnTyped
    <3>2. CASE i[t] <= Len(Children[t]) /\ call(c) /\ k' = k
               /\ i' = [i EXCEPT ![t] = @ + 1, ![c] = 1]
      <4> DEFINE j == [i EXCEPT ![t] = @ + 1, ![c] = 1]
      <4>1. j \in [Class -> Nat] /\ j[c] = 1 /\ \A d \in Class : i[d] # 0 => j[d] # 0
        <5>1. i \in [Class -> Nat] /\ c \in Class
          BY <2>c, <3>2 DEF TypeOK
        <5> QED
          BY <2>t, <5>1, Counters
      <4> HIDE DEF j
      <4>4. i' = j /\ c \in Class /\ call(c) /\ k' \in [Class -> Nat]
        BY <2>c, <3>2 DEF j, TypeOK
      <4> QED
        BY <4>1, <4>4, CallTyped
    <3> QED
      BY <2>1, <3>1, <3>2
  <2>3. /\ Roots' \in Seq(Class) /\ Descendents' \subseteq Class
        /\ Diamonds' \in [Class -> SUBSET (Class \X Class)]
    <3>1. i[t] <= Len(Children[t]) => diamond(c) \in SUBSET (Class \X Class)
      BY <2>t, <2>c DEF diamond
    <3>2. pushNew(Roots, t) \in Seq(Class)
      BY <2>t, Pushed DEF pushNew, TypeOK
    <3> QED
      BY <2>1, <2>t, <2>c, <3>1, <3>2 DEF TypeOK
  <2>4. TypeOK'
    BY <1>4, <1>h, <2>0, <2>2, <2>3 DEF findDiamondsRecursive, TypeOK
  <2> QED
    BY <1>h, <2>0, <2>2, <2>4 DEF Calls, walking
<1>5. CASE buildFakeVTables
  <2>1. CASE rootsDone("buildFakeVTables", "removeDuplicates")
             /\ UNCHANGED <<TreeIndices, walk, Index>>
    BY <1>5, <1>h, <1>p, <2>1 DEF buildFakeVTables, rootsDone, TypeOK, Calls, walking, walk
  <2>2. CASE /\ pos <= Len(Roots) /\ number(Roots[pos], Roots[pos], Index)
             /\ i' = [i EXCEPT ![Roots[pos]] = 1] /\ k' = [k EXCEPT ![Roots[pos]] = 0]
             /\ pos' = pos + 1 /\ UNCHANGED pc
    <3>1. Roots[pos] \in Class
      BY <2>2, Members DEF TypeOK
    <3>2. /\ [i EXCEPT ![Roots[pos]] = 1] \in [Class -> Nat]
          /\ [i EXCEPT ![Roots[pos]] = 1][Roots[pos]] = 1
          /\ \A d \in Class : i[d] # 0 => [i EXCEPT ![Roots[pos]] = 1][d] # 0
      BY <3>1 DEF TypeOK
    <3>3. stack' \in Seq(Class) /\ i' \in [Class -> Nat]
          /\ \A a \in 1..Len(stack') : i'[stack'[a]] # 0
      BY <2>2, <3>1, <3>2, CallTyped DEF number
    <3>4. k' \in [Class -> Nat] /\ Index' = Index + 1 /\ Index' \in Nat
          /\ TreeIndices' \in [Class -> [Class -> Nat \cup {NoIndex}]] /\ Index' # 0
      <4>1. Index \in Nat /\ k' \in [Class -> Nat]
        BY <2>2, <3>1 DEF TypeOK
      <4> QED
        BY <2>2, <3>1, <4>1, NumberTyped
    <3>u. UNCHANGED <<pc, Children, Roots, Diamonds, type, Descendents>>
          /\ pos' \in Nat \ {0}
      BY <1>5, <2>2, <3>1 DEF buildFakeVTables, TypeOK
    <3>5. TypeOK'
      BY <1>h, <3>u, <3>3, <3>4 DEF TypeOK
    <3> QED
      BY <1>h, <3>3, <3>4, <3>5 DEF Calls, walking
  <2> QED
    BY <1>5, <2>1, <2>2 DEF buildFakeVTables
<1>6. CASE buildFakeVTablesRecursive
  <2> DEFINE t == current
             c == Children[t][i[t]]
  <2>0. stack # <<>> /\ pc = "buildFakeVTables" /\ pc' = pc
    BY <1>6 DEF buildFakeVTablesRecursive, walking
  <2>t. /\ t \in Class /\ i[t] \in Nat \ {0} /\ Len(Children[t]) \in Nat
        /\ root \in Class /\ Index \in Nat \ {0}
    BY <2>0, Current, Members DEF TypeOK, Calls, walking
  <2>c. i[t] <= Len(Children[t]) => c \in Class
    BY <2>0, <2>t, Current
  <2> HIDE DEF t, c
  <2>1. \/ return /\ UNCHANGED <<TreeIndices, Index>>
        \/ /\ i' = [i EXCEPT ![t] = @ + 1] /\ k' = [k EXCEPT ![t] = 0]
           /\ UNCHANGED <<stack, TreeIndices, Index>>
        \/ /\ i[t] <= Len(Children[t])
           /\ number(c, root, IF sharesIndex(t, c) THEN Index - 1 ELSE Index)
           /\ i' = [i EXCEPT ![c] = 1]
           /\ k' = [k EXCEPT ![t] = @ + 1, ![c] = 0]
    BY <1>6 DEF buildFakeVTablesRecursive, t, c
  <2>2. /\ stack' \in Seq(Class) /\ i' \in [Class -> Nat] /\ k' \in [Class -> Nat]
        /\ TreeIndices' \in [Class -> [Class -> Nat \cup {NoIndex}]]
        /\ Index' \in Nat \ {0}
        /\ \A a \in 1..Len(stack') : i'[stack'[a]] # 0
    <3>1. CASE return /\ UNCHANGED <<TreeIndices, Index>>
      BY <2>0, <2>t, <3>1, ReturnTyped DEF TypeOK
    <3>2. CASE /\ i' = [i EXCEPT ![t] = @ + 1] /\ k' = [k EXCEPT ![t] = 0]
               /\ UNCHANGED <<stack, TreeIndices, Index>>
      <4>1. \A a \in 1..Len(stack) : stack[a] \in Class /\ i[stack[a]] \in Nat \ {0}
        BY Members DEF TypeOK, Calls
      <4>2. i' \in [Class -> Nat] /\ \A a \in 1..Len(stack) : i'[stack[a]] # 0
        <5>1. i \in [Class -> Nat] /\ i' = [i EXCEPT ![t] = @ + 1]
          BY <3>2 DEF TypeOK
        <5>2. i' \in [Class -> Nat]
              /\ \A d \in Class : i'[d] = IF d = t THEN i[t] + 1 ELSE i[d]
          BY <2>t, <5>1, Counters
        <5> QED
          BY <2>t, <4>1, <5>2
      <4> QED
        BY <2>t, <3>2, <4>2 DEF TypeOK
    <3>3. CASE /\ i[t] <= Len(Children[t])
               /\ number(c, root, IF sharesIndex(t, c) THEN Index - 1 ELSE Index)
               /\ i' = [i EXCEPT ![c] = 1]
               /\ k' = [k EXCEPT ![t] = @ + 1, ![c] = 0]
      <4> DEFINE x == IF sharesIndex(t, c) THEN Index - 1 ELSE Index
      <4>1. x \in Nat
        BY <2>t
      <4>2. number(c, root, x)
        BY <3>3
      <4> HIDE DEF x
      <4>3. TreeIndices' \in [Class -> [Class -> Nat \cup {NoIndex}]] /\ Index' \in Nat \ {0}
            /\ call(c)
        BY <2>t, <2>c, <3>3, <4>1, <4>2, NumberTyped
      <4>4. k' \in [Class -> Nat]
        <5>1. k \in [Class -> Nat] /\ c \in Class
          BY <2>c, <3>3 DEF TypeOK
        <5> QED
          BY <2>t, <3>3, <5>1, Counters
      <4>5. /\ [i EXCEPT ![c] = 1] \in [Class -> Nat]
            /\ [i EXCEPT ![c] = 1][c] = 1
            /\ \A d \in Class : i[d] # 0 => [i EXCEPT ![c] = 1][d] # 0
        BY <2>c, <3>3 DEF TypeOK
      <4> QED
        BY <2>c, <3>3, <4>3, <4>4, <4>5, CallTyped
    <3> QED
      BY <2>1, <3>1, <3>2, <3>3
  <2>4. TypeOK'
    BY <1>6, <1>h, <2>0, <2>2 DEF buildFakeVTablesRecursive, TypeOK
  <2> QED
    BY <1>h, <2>2, <2>4 DEF Calls, walking
<1>7. CASE removeDuplicates
  <2>1. CASE rootsDone("removeDuplicates", "done") /\ UNCHANGED <<Roots, TreeIndices>>
    BY <1>7, <1>h, <1>p, <2>1 DEF removeDuplicates, rootsDone, TypeOK, Calls, walking, walk
  <2>2. CASE /\ pc = "removeDuplicates" /\ pos <= Len(Roots) /\ UNCHANGED pc
             /\ IF isDuplicate
                THEN /\ Roots' = RemoveAt(Roots, pos)
                     /\ TreeIndices' = removeTreeIndicesForRoot(Roots[pos])
                     /\ UNCHANGED pos
                ELSE pos' = pos + 1 /\ UNCHANGED <<Roots, TreeIndices>>
    <3>0. Roots \in Seq(Class) /\ Len(Roots) \in Nat /\ pos \in Nat \ {0}
          /\ \A j \in 1..Len(Roots) : Roots[j] \in Class
      BY Members DEF TypeOK
    <3>1. RemoveAt(Roots, pos) \in Seq(Class)
      <4>1. SubSeq(Roots, 1, pos - 1) \in Seq(Class)
        <5>1. \A j \in 1..(pos - 1) : Roots[j] \in Class
          BY <2>2, <3>0
        <5> QED
          BY <3>0, <5>1, SubSeqProperties
      <4>2. SubSeq(Roots, pos + 1, Len(Roots)) \in Seq(Class)
        <5>1. \A j \in (pos + 1)..Len(Roots) : Roots[j] \in Class
          BY <3>0
        <5> QED
          BY <3>0, <5>1, SubSeqProperties
      <4> QED
        BY <4>1, <4>2, ConcatProperties DEF RemoveAt
    <3>2. removeTreeIndicesForRoot(Roots[pos]) \in [Class -> [Class -> Nat \cup {NoIndex}]]
      BY DEF removeTreeIndicesForRoot, TypeOK
    <3>u. /\ UNCHANGED <<pc, Children, Diamonds, type, stack, i, k, Descendents, Index>>
          /\ pos' \in Nat \ {0} /\ Roots' \in Seq(Class)
          /\ TreeIndices' \in [Class -> [Class -> Nat \cup {NoIndex}]]
      <4>1. pos + 1 \in Nat \ {0}
        BY <3>0
      <4>2. TreeIndices \in [Class -> [Class -> Nat \cup {NoIndex}]]
        BY DEF TypeOK
      <4> QED
        BY <1>7, <2>2, <3>0, <3>1, <3>2, <4>1, <4>2 DEF removeDuplicates, walk
    <3>3. TypeOK'
      BY <1>h, <3>u DEF TypeOK
    <3> QED
      BY <1>7, <1>h, <2>2, <3>3 DEF removeDuplicates, walk, Calls, walking
  <2> QED
    BY <1>7, <2>1, <2>2 DEF removeDuplicates
<1>8. CASE UNCHANGED vars
  BY <1>8 DEF vars, hierarchy, walk, TypeOK, Calls, walking
<1> QED
  BY <1>1, <1>2, <1>3, <1>4, <1>5, <1>6, <1>7, <1>8 DEF Next

(* Every variable keeps its type: the walks stay within the classes, their *)
(* lists and their numbers, and their recursion never leaves the stack.    *)
THEOREM TypeCorrect == Spec => []TypeOK
<1>1. Init => Typed
  BY TypedInit
<1>2. Typed /\ [Next]_vars => Typed'
  BY TypedStep
<1>3. Typed => TypeOK
  BY DEF Typed
<1> QED
  BY <1>1, <1>2, <1>3, PTL DEF Spec

-----------------------------------------------------------------------------
(* The cases of every action, with the class t whose loop takes the step   *)
(* and the class that it has come to.                                      *)

LEMMA ExtendCases ==
  ASSUME Typed, extendTypeMetadata
  PROVE  /\ pc = "extendTypeMetadata" /\ stack = <<>>
         /\ UNCHANGED <<Parents, phantom, Children, Roots, Diamonds, TreeIndices, pos, k,
                        Descendents, Index>>
         /\ \/ \E c \in Class : /\ nextType(c) /\ type' = c /\ pc' = pc /\ isLeaf(c)
                                /\ call(c) /\ i' = [i EXCEPT ![c] = 1]
            \/ \E c \in Class : /\ nextType(c) /\ type' = c /\ pc' = pc /\ ~isLeaf(c)
                                /\ stack' = stack /\ i' = i
            \/ /\ \A c \in Class : c <= type
               /\ pc' = "findDiamonds" /\ UNCHANGED <<type, stack, i>>
<1>1. /\ pc = "extendTypeMetadata" /\ stack = <<>>
      /\ UNCHANGED <<Parents, phantom, Children, Roots, Diamonds, TreeIndices, pos, k,
                     Descendents, Index>>
  BY DEF extendTypeMetadata, hierarchy
<1>2. CASE \E c \in Class :
             /\ nextType(c) /\ type' = c
             /\ IF isLeaf(c) THEN call(c) /\ i' = [i EXCEPT ![c] = 1]
                ELSE UNCHANGED <<stack, i>>
             /\ UNCHANGED pc
  BY <1>1, <1>2
<1>3. CASE /\ \A c \in Class : c <= type
           /\ pc' = "findDiamonds" /\ UNCHANGED <<type, stack, i>>
  BY <1>1, <1>3
<1> QED
  BY <1>2, <1>3 DEF extendTypeMetadata

LEMMA SetCases ==
  ASSUME Typed, setParentsChildrenRecursive
  PROVE  \E t \in Class :
           /\ t = current /\ stack # <<>> /\ pc = "extendTypeMetadata" /\ pc' = pc
           /\ UNCHANGED <<Parents, phantom, Roots, Diamonds, TreeIndices, type, pos, k,
                          Descendents, Index>>
           /\ \/ i[t] > Len(Parents[t]) /\ return /\ Children' = Children
              \/ \E p \in bases(Parents, t) :
                   /\ i[t] \in 1..Len(Parents[t]) /\ p = Parents[t][i[t]]
                   /\ t \in Range(Children[p]) /\ i' = [i EXCEPT ![t] = @ + 1]
                   /\ stack' = stack /\ Children' = Children
              \/ \E p \in bases(Parents, t) :
                   /\ i[t] \in 1..Len(Parents[t]) /\ p = Parents[t][i[t]]
                   /\ t \notin Range(Children[p])
                   /\ Children' = [Children EXCEPT ![p] = Append(@, t)]
                   /\ call(p) /\ i' = [i EXCEPT ![t] = @ + 1, ![p] = 1]
<1> DEFINE t == current
           p == Parents[t][i[t]]
<1>1. stack # <<>>
  BY DEF setParentsChildrenRecursive, walking
<1>2. /\ t \in Class /\ i[t] \in Nat \ {0} /\ Len(Parents[t]) \in Nat
      /\ i[t] <= Len(Parents[t]) => p \in bases(Parents, t)
  BY <1>1, Current, Members DEF Typed, TypeOK
<1>3. /\ t = current /\ stack # <<>> /\ pc = "extendTypeMetadata" /\ pc' = pc
      /\ UNCHANGED <<Parents, phantom, Roots, Diamonds, TreeIndices, type, pos,
                     Descendents, Index>>
      /\ \/ i[t] > Len(Parents[t]) /\ return /\ UNCHANGED Children
         \/ /\ i[t] <= Len(Parents[t]) /\ k' = k
            /\ IF t \in Range(Children[p])
               THEN i' = [i EXCEPT ![t] = @ + 1] /\ UNCHANGED <<stack, Children>>
               ELSE /\ Children' = [Children EXCEPT ![p] = Append(@, t)]
                    /\ call(p) /\ i' = [i EXCEPT ![t] = @ + 1, ![p] = 1]
  BY DEF setParentsChildrenRecursive, walking, hierarchy
<1> HIDE DEF t, p
<1>4. CASE i[t] > Len(Parents[t]) /\ return /\ UNCHANGED Children
  BY <1>2, <1>3, <1>4 DEF return
<1>5. CASE /\ i[t] <= Len(Parents[t]) /\ k' = k
           /\ IF t \in Range(Children[p])
              THEN i' = [i EXCEPT ![t] = @ + 1] /\ UNCHANGED <<stack, Children>>
              ELSE /\ Children' = [Children EXCEPT ![p] = Append(@, t)]
                   /\ call(p) /\ i' = [i EXCEPT ![t] = @ + 1, ![p] = 1]
  <2>1. i[t] \in 1..Len(Parents[t]) /\ p \in bases(Parents, t) /\ p = Parents[t][i[t]]
    BY <1>2, <1>5 DEF p
  <2> QED
    BY <1>2, <1>3, <1>5, <2>1
<1> QED
  BY <1>3, <1>4, <1>5

LEMMA FindCases ==
  ASSUME Typed, findDiamonds
  PROVE  /\ pc = "findDiamonds" /\ stack = <<>>
         /\ UNCHANGED <<Parents, phantom, Children, Roots, Diamonds, TreeIndices, type, k, Index>>
         /\ \/ /\ pos > Len(Roots) /\ pc' = "buildFakeVTables" /\ pos' = 1
               /\ UNCHANGED <<stack, i, Descendents>>
            \/ \E r \in Class :
                 /\ pos \in 1..Len(Roots) /\ r = Roots[pos] /\ pos' = pos + 1 /\ pc' = pc
                 /\ Descendents' = {r} /\ call(r) /\ i' = [i EXCEPT ![r] = 1]
<1>1. pos <= Len(Roots) => pos \in 1..Len(Roots) /\ Roots[pos] \in Class
  BY Members DEF Typed, TypeOK
<1>2. UNCHANGED <<Parents, phantom, Children, Roots, Diamonds, TreeIndices, type, k, Index>>
      /\ pc = "findDiamonds" /\ stack = <<>>
  BY DEF findDiamonds, hierarchy, rootsDone
<1>3. CASE rootsDone("findDiamonds", "buildFakeVTables")
           /\ UNCHANGED <<stack, i, Descendents>>
  BY <1>2, <1>3 DEF rootsDone
<1>4. CASE /\ pc = "findDiamonds" /\ stack = <<>> /\ pos <= Len(Roots)
           /\ Descendents' = {Roots[pos]}
           /\ call(Roots[pos]) /\ i' = [i EXCEPT ![Roots[pos]] = 1]
           /\ pos' = pos + 1
           /\ UNCHANGED pc
  BY <1>1, <1>2, <1>4
<1> QED
  BY <1>3, <1>4 DEF findDiamonds

LEMMA FindRecursiveCases ==
  ASSUME Typed, findDiamondsRecursive
  PROVE  \E t \in Class :
           /\ t = current /\ stack # <<>> /\ pc = "findDiamonds" /\ pc' = pc
           /\ UNCHANGED <<Parents, phantom, Children, TreeIndices, type, pos, k, Index>>
           /\ \/ i[t] > Len(Children[t]) /\ return /\ UNCHANGED <<Roots, Diamonds, Descendents>>
              \/ \E c \in Range(Children[t]) :
                   /\ i[t] \in 1..Len(Children[t]) /\ c = Children[t][i[t]] /\ c \in Descendents
                   /\ Roots' = pushNew(Roots, t)
                   /\ Diamonds' = [Diamonds EXCEPT ![t] = @ \cup {<<root, c>>}]
                   /\ return /\ UNCHANGED Descendents
              \/ \E c \in Range(Children[t]) :
                   /\ i[t] \in 1..Len(Children[t]) /\ c = Children[t][i[t]] /\ c \notin Descendents
                   /\ Descendents' = Descendents \cup {c}
                   /\ call(c) /\ i' = [i EXCEPT ![t] = @ + 1, ![c] = 1]
                   /\ UNCHANGED <<Roots, Diamonds>>
<1> DEFINE t == current
           c == Children[t][i[t]]
<1>1. stack # <<>>
  BY DEF findDiamondsRecursive, walking
<1>2. /\ t \in Class /\ i[t] \in Nat \ {0} /\ Len(Children[t]) \in Nat
      /\ i[t] <= Len(Children[t]) => c \in Range(Children[t])
  BY <1>1, Current, Members DEF Typed, TypeOK
<1>3. /\ t = current /\ stack # <<>> /\ pc = "findDiamonds" /\ pc' = pc
      /\ UNCHANGED <<Parents, phantom, Children, TreeIndices, type, pos, Index>>
      /\ \/ /\ i[t] > Len(Children[t])
            /\ return /\ UNCHANGED <<Roots, Diamonds, Descendents>>
         \/ /\ i[t] <= Len(Children[t]) /\ c \in Descendents
            /\ Roots' = pushNew(Roots, t)
            /\ Diamonds' = [Diamonds EXCEPT ![t] = @ \cup diamond(c)]
            /\ return /\ UNCHANGED Descendents
         \/ /\ i[t] <= Len(Children[t]) /\ c \notin Descendents
            /\ Descendents' = Descendents \cup {c}
            /\ call(c) /\ i' = [i EXCEPT ![t] = @ + 1, ![c] = 1]
            /\ UNCHANGED <<Roots, Diamonds, k>>
  BY DEF findDiamondsRecursive, walking, hierarchy
<1> HIDE DEF t, c
<1>4. CASE i[t] > Len(Children[t]) /\ return /\ UNCHANGED <<Roots, Diamonds, Descendents>>
  BY <1>2, <1>3, <1>4 DEF return
<1>5. CASE i[t] <= Len(Children[t])
  <2>1. i[t] \in 1..Len(Children[t]) /\ c \in Range(Children[t]) /\ c = Children[t][i[t]]
    BY <1>2, <1>5 DEF c
  <2>2. CASE /\ c \in Descendents
             /\ Roots' = pushNew(Roots, t)
             /\ Diamonds' = [Diamonds EXCEPT ![t] = @ \cup diamond(c)]
             /\ return /\ UNCHANGED Descendents
    BY <1>2, <1>3, <2>1, <2>2 DEF return, diamond
  <2>3. CASE /\ c \notin Descendents
             /\ Descendents' = Descendents \cup {c}
             /\ call(c) /\ i' = [i EXCEPT ![t] = @ + 1, ![c] = 1]
             /\ UNCHANGED <<Roots, Diamonds, k>>
    BY <1>2, <1>3, <2>1, <2>3
  <2> QED
    BY <1>2, <1>3, <1>4, <1>5, <2>2, <2>3
<1> QED
  BY <1>3, <1>4, <1>5

LEMMA BuildCases ==
  ASSUME Typed, buildFakeVTables
  PROVE  /\ pc = "buildFakeVTables" /\ stack = <<>>
         /\ UNCHANGED <<Parents, phantom, Children, Roots, Diamonds, type, Descendents>>
         /\ \/ /\ pos > Len(Roots) /\ pc' = "removeDuplicates" /\ pos' = 1
               /\ UNCHANGED <<TreeIndices, stack, i, k, Index>>
            \/ \E r \in Class :
                 /\ pos \in 1..Len(Roots) /\ r = Roots[pos] /\ pos' = pos + 1 /\ pc' = pc
                 /\ number(r, r, Index)
                 /\ i' = [i EXCEPT ![r] = 1] /\ k' = [k EXCEPT ![r] = 0]
<1>1. pos <= Len(Roots) => pos \in 1..Len(Roots) /\ Roots[pos] \in Class
  BY Members DEF Typed, TypeOK
<1>2. UNCHANGED <<Parents, phantom, Children, Roots, Diamonds, type, Descendents>>
      /\ pc = "buildFakeVTables" /\ stack = <<>>
  BY DEF buildFakeVTables, hierarchy, rootsDone
<1>3. CASE rootsDone("buildFakeVTables", "removeDuplicates")
           /\ UNCHANGED <<TreeIndices, walk, Index>>
  BY <1>2, <1>3 DEF rootsDone, walk
<1>4. CASE /\ pc = "buildFakeVTables" /\ stack = <<>> /\ pos <= Len(Roots)
           /\ number(Roots[pos], Roots[pos], Index)
           /\ i' = [i EXCEPT ![Roots[pos]] = 1] /\ k' = [k EXCEPT ![Roots[pos]] = 0]
           /\ pos' = pos + 1
           /\ UNCHANGED pc
  BY <1>1, <1>2, <1>4
<1> QED
  BY <1>3, <1>4 DEF buildFakeVTables

LEMMA BuildRecursiveCases ==
  ASSUME Typed, buildFakeVTablesRecursive
  PROVE  \E t \in Class :
           /\ t = current /\ stack # <<>> /\ pc = "buildFakeVTables" /\ pc' = pc
           /\ UNCHANGED <<Parents, phantom, Children, Roots, Diamonds, type, pos, Descendents>>
           /\ \/ i[t] > Len(Children[t]) /\ return /\ UNCHANGED <<TreeIndices, Index>>
              \/ \E c \in Range(Children[t]) :
                   /\ i[t] \in 1..Len(Children[t]) /\ c = Children[t][i[t]]
                   /\ k[t] >= descents(t, c)
                   /\ i' = [i EXCEPT ![t] = @ + 1] /\ k' = [k EXCEPT ![t] = 0]
                   /\ UNCHANGED <<stack, TreeIndices, Index>>
              \/ \E c \in Range(Children[t]) :
                   /\ i[t] \in 1..Len(Children[t]) /\ c = Children[t][i[t]]
                   /\ k[t] < descents(t, c)
                   /\ number(c, root, IF sharesIndex(t, c) THEN Index - 1 ELSE Index)
                   /\ i' = [i EXCEPT ![c] = 1]
                   /\ k' = [k EXCEPT ![t] = @ + 1, ![c] = 0]
<1> DEFINE t == current
           c == Children[t][i[t]]
<1>1. stack # <<>>
  BY DEF buildFakeVTablesRecursive, walking
<1>2. /\ t \in Class /\ i[t] \in Nat \ {0} /\ Len(Children[t]) \in Nat
      /\ i[t] <= Len(Children[t]) => c \in Range(Children[t])
  BY <1>1, Current, Members DEF Typed, TypeOK
<1>3. /\ t = current /\ stack # <<>> /\ pc = "buildFakeVTables" /\ pc' = pc
      /\ UNCHANGED <<Parents, phantom, Children, Roots, Diamonds, type, pos, Descendents>>
      /\ \/ i[t] > Len(Children[t]) /\ return /\ UNCHANGED <<TreeIndices, Index>>
         \/ /\ i[t] <= Len(Children[t]) /\ k[t] >= descents(t, c)
            /\ i' = [i EXCEPT ![t] = @ + 1] /\ k' = [k EXCEPT ![t] = 0]
            /\ UNCHANGED <<stack, TreeIndices, Index>>
         \/ /\ i[t] <= Len(Children[t]) /\ k[t] < descents(t, c)
            /\ number(c, root, IF sharesIndex(t, c) THEN Index - 1 ELSE Index)
            /\ i' = [i EXCEPT ![c] = 1]
            /\ k' = [k EXCEPT ![t] = @ + 1, ![c] = 0]
  BY DEF buildFakeVTablesRecursive, walking, hierarchy
<1> HIDE DEF t, c
<1>4. CASE i[t] > Len(Children[t]) /\ return /\ UNCHANGED <<TreeIndices, Index>>
  BY <1>2, <1>3, <1>4
<1>5. CASE i[t] <= Len(Children[t])
  <2>1. i[t] \in 1..Len(Children[t]) /\ c \in Range(Children[t]) /\ c = Children[t][i[t]]
    BY <1>2, <1>5 DEF c
  <2>2. CASE /\ k[t] >= descents(t, c)
             /\ i' = [i EXCEPT ![t] = @ + 1] /\ k' = [k EXCEPT ![t] = 0]
             /\ UNCHANGED <<stack, TreeIndices, Index>>
    BY <1>2, <1>3, <2>1, <2>2
  <2>3. CASE /\ k[t] < descents(t, c)
             /\ number(c, root, IF sharesIndex(t, c) THEN Index - 1 ELSE Index)
             /\ i' = [i EXCEPT ![c] = 1]
             /\ k' = [k EXCEPT ![t] = @ + 1, ![c] = 0]
    BY <1>2, <1>3, <2>1, <2>3
  <2> QED
    BY <1>2, <1>3, <1>4, <1>5, <2>2, <2>3
<1> QED
  BY <1>3, <1>4, <1>5

LEMMA RemoveCases ==
  ASSUME Typed, removeDuplicates
  PROVE  /\ pc = "removeDuplicates"
         /\ UNCHANGED <<Parents, phantom, Children, Diamonds, type, stack, i, k, Descendents, Index>>
         /\ \/ pc' = "done" /\ pos' = 1 /\ UNCHANGED <<Roots, TreeIndices>>
            \/ \E r \in Class :
                 /\ pos \in 1..Len(Roots) /\ r = Roots[pos] /\ pc' = pc /\ pos' = pos
                 /\ isDuplicate /\ Roots' = RemoveAt(Roots, pos)
                 /\ TreeIndices' = removeTreeIndicesForRoot(r)
            \/ pos' = pos + 1 /\ pc' = pc /\ UNCHANGED <<Roots, TreeIndices>>
<1>1. pos <= Len(Roots) => pos \in 1..Len(Roots) /\ Roots[pos] \in Class
  BY Members DEF Typed, TypeOK
<1>2. UNCHANGED <<Parents, phantom, Children, Diamonds, type, stack, i, k, Descendents, Index>>
      /\ pc = "removeDuplicates"
  BY DEF removeDuplicates, hierarchy, walk, rootsDone
<1>3. CASE rootsDone("removeDuplicates", "done") /\ UNCHANGED <<Roots, TreeIndices>>
  BY <1>2, <1>3 DEF rootsDone
<1>4. CASE /\ pc = "removeDuplicates" /\ pos <= Len(Roots)
           /\ IF isDuplicate
              THEN /\ Roots' = RemoveAt(Roots, pos)
                   /\ TreeIndices' = removeTreeIndicesForRoot(Roots[pos])
                   /\ UNCHANGED pos
              ELSE pos' = pos + 1 /\ UNCHANGED <<Roots, TreeIndices>>
           /\ UNCHANGED pc
  BY <1>1, <1>2, <1>4
<1> QED
  BY <1>3, <1>4 DEF removeDuplicates

-----------------------------------------------------------------------------
(* Calls and returns.                                                      *)

Above(c) == ancestors(Parents, c)
Baseless(r) == Parents[r] = <<>>

LEMMA Called ==
  ASSUME Typed, NEW c \in Class, call(c)
  PROVE  /\ stack' \in Seq(Class) /\ stack' # <<>>
         /\ Len(stack) \in Nat /\ Len(stack') = Len(stack) + 1
         /\ \A j \in 1..Len(stack) : stack'[j] = stack[j]
         /\ stack'[Len(stack) + 1] = c /\ current' = c
         /\ stack = <<>> => root' = c /\ Len(stack) = 0
         /\ stack # <<>> => root' = root /\ current = stack[Len(stack)] /\ Len(stack) > 0
         /\ Range(stack') = Range(stack) \cup {c}
<1>1. stack \in Seq(Class) /\ stack' = Append(stack, c)
  BY DEF Typed, TypeOK, call
<1>2. stack # <<>> => current = stack[Len(stack)] /\ Len(stack) > 0
  BY <1>1, Popped DEF current
<1>3. stack = <<>> => Len(stack) = 0
  BY <1>1, EmptySeq
<1> QED
  BY <1>1, <1>2, <1>3, Pushed DEF current, root

LEMMA Returned ==
  ASSUME Typed, stack # <<>>, return
  PROVE  /\ stack' \in Seq(Class) /\ i' = i /\ k' = k
         /\ Len(stack) \in Nat \ {0} /\ Len(stack') = Len(stack) - 1
         /\ \A j \in 1..Len(stack') : stack'[j] = stack[j]
         /\ current = stack[Len(stack)] /\ current \in Class
         /\ stack' # <<>> => root' = root
         /\ Range(stack) = Range(stack') \cup {current}
<1>1. stack \in Seq(Class) /\ stack' = Front(stack)
  BY DEF Typed, TypeOK, return
<1> QED
  BY <1>1, Popped DEF return, current, root

(* a call for a class, a base of the next one, and so on *)
LEMMA Upwards ==
  ASSUME isHierarchy(Parents), NEW s \in Seq(Class),
         \A j \in 1..(Len(s) - 1) : s[j] \in bases(Parents, s[j + 1])
  PROVE  \A a, b \in 1..Len(s) : a <= b => s[a] \in Above(s[b])
<1> DEFINE S == {n \in Nat : \A a, b \in 1..Len(s) : b = a + n => s[a] \in Above(s[b])}
<1>1. Len(s) \in Nat /\ \A j \in 1..Len(s) : s[j] \in Class
  BY Members
<1>2. 0 \in S
  <2> SUFFICES ASSUME NEW a \in 1..Len(s), NEW b \in 1..Len(s), b = a + 0
               PROVE  s[a] \in Above(s[b])
    OBVIOUS
  <2>1. a = b
    OBVIOUS
  <2> QED
    BY <1>1, <2>1, Ancestors DEF Above
<1>3. ASSUME NEW n \in 0..Len(s), n < Len(s), n \in S
      PROVE  n + 1 \in S
  <2> SUFFICES ASSUME NEW a \in 1..Len(s), NEW b \in 1..Len(s), b = a + (n + 1)
               PROVE  s[a] \in Above(s[b])
    BY <1>3
  <2>1. b - 1 \in 1..(Len(s) - 1) /\ b - 1 \in 1..Len(s) /\ b - 1 = a + n /\ (b - 1) + 1 = b
    BY <1>1
  <2>2. s[a] \in Above(s[b - 1])
    BY <1>3, <2>1
  <2>3. s[b - 1] \in bases(Parents, s[b])
    BY <2>1
  <2>4. s[b] \in Class /\ s[b] \in Above(s[b]) /\ s[b - 1] \in Above(s[b])
    BY <1>1, <2>3, Ancestors DEF Above
  <2>5. Above(s[b - 1]) \subseteq Above(s[b])
    BY <2>4, Ancestors DEF Above
  <2> QED
    BY <2>2, <2>5
<1> HIDE DEF S
<1>4. 0..Len(s) \subseteq S
  BY <1>1, <1>2, <1>3, UpTo
<1> SUFFICES ASSUME NEW a \in 1..Len(s), NEW b \in 1..Len(s), a <= b
             PROVE  s[a] \in Above(s[b])
  OBVIOUS
<1>5. b - a \in 0..Len(s) /\ b = a + (b - a)
  BY <1>1
<1> QED
  BY <1>4, <1>5 DEF S

-----------------------------------------------------------------------------
(* The stack: up the bases in the first walk, down a root's tree in the    *)
(* others.                                                                 *)

Chain ==
  /\ pc = "extendTypeMetadata" =>
       \A j \in 1..(Len(stack) - 1) : stack[j + 1] \in bases(Parents, stack[j])
  /\ pc \in {"findDiamonds", "buildFakeVTables"} =>
       /\ \A j \in 1..(Len(stack) - 1) : stack[j] \in bases(Parents, stack[j + 1])
       /\ stack # <<>> => pos > 1 /\ pos - 1 <= Len(Roots) /\ root = Roots[pos - 1]
  /\ pc \in {"removeDuplicates", "done"} => stack = <<>>

(* A child has its parent among its bases, and is in the list once; after  *)
(* the first walk every derived class is a child.                          *)
ChildLists ==
  /\ \A p \in Class : IsInjective(Children[p])
  /\ \A p \in Class : \A c \in Range(Children[p]) : p \in bases(Parents, c)
  /\ pc # "extendTypeMetadata" =>
       \A c \in Class : \A p \in bases(Parents, c) : c \in Range(Children[p])

LEMMA ChainStep ==
  ASSUME Typed, Chain, ChildLists, [Next]_vars
  PROVE  Chain'
<1>1. TypeOK /\ isHierarchy(Parents) /\ stack \in Seq(Class) /\ Roots \in Seq(Class)
      /\ Len(stack) \in Nat /\ Len(Roots) \in Nat /\ pos \in Nat \ {0}
  BY LenProperties DEF Typed, TypeOK
<1>2. \A s : s = <<>> => Len(s) = 0
  OBVIOUS
<1> DEFINE down(s) == \A j \in 1..(Len(s) - 1) : s[j + 1] \in bases(Parents, s[j])
           up(s) == \A j \in 1..(Len(s) - 1) : s[j] \in bases(Parents, s[j + 1])
<1>3. ASSUME NEW c \in Class, call(c)
      PROVE  /\ down(stack) /\ (stack # <<>> => c \in bases(Parents, current)) => down(stack')
             /\ up(stack) /\ (stack # <<>> => current \in bases(Parents, c)) => up(stack')
  <2>1. /\ Len(stack') = Len(stack) + 1
        /\ \A j \in 1..Len(stack) : stack'[j] = stack[j]
        /\ stack'[Len(stack) + 1] = c
        /\ stack = <<>> => Len(stack) = 0
        /\ stack # <<>> => current = stack[Len(stack)] /\ Len(stack) > 0
    BY <1>3, Called
  <2>2. ASSUME NEW j \in 1..(Len(stack') - 1)
        PROVE  \/ j \in 1..(Len(stack) - 1) /\ stack'[j] = stack[j] /\ stack'[j + 1] = stack[j + 1]
               \/ /\ stack # <<>> /\ j = Len(stack)
                  /\ stack'[j] = current /\ stack'[j + 1] = c
    <3>1. j \in 1..Len(stack) /\ stack # <<>>
      BY <1>1, <2>1
    <3>2. CASE j = Len(stack)
      BY <2>1, <3>1, <3>2
    <3>3. CASE j # Len(stack)
      <4>1. j \in 1..(Len(stack) - 1) /\ j + 1 \in 1..Len(stack)
        BY <1>1, <3>1, <3>3
      <4> QED
        BY <2>1, <4>1
    <3> QED
      BY <3>2, <3>3
  <2> QED
    BY <2>2
<1>4. ASSUME stack # <<>>, return
      PROVE  /\ down(stack) => down(stack')
             /\ up(stack) => up(stack')
  <2>1. Len(stack') = Len(stack) - 1 /\ \A j \in 1..Len(stack') : stack'[j] = stack[j]
    BY <1>4, Returned
  <2>2. ASSUME NEW j \in 1..(Len(stack') - 1)
        PROVE  j \in 1..(Len(stack) - 1) /\ stack'[j] = stack[j] /\ stack'[j + 1] = stack[j + 1]
    <3>1. j \in 1..Len(stack') /\ j + 1 \in 1..Len(stack') /\ j \in 1..(Len(stack) - 1)
      BY <1>1, <2>1
    <3> QED
      BY <2>1, <3>1
  <2> QED
    BY <2>2
<1>5. ASSUME stack' = <<>>
      PROVE  down(stack') /\ up(stack')
  <2>1. \A j : j \notin 1..(Len(stack') - 1)
    BY <1>2, <1>5
  <2> QED
    BY <2>1
<1>6. CASE extendTypeMetadata
  <2>1. pc = "extendTypeMetadata" /\ stack = <<>> /\ Parents' = Parents /\ down(stack)
    BY <1>6, ExtendCases DEF Chain
  <2>2. CASE \E c \in Class : call(c) /\ pc' = pc
    <3>1. pc' = pc /\ down(stack')
      BY <1>3, <2>1, <2>2
    <3> QED
      BY <2>1, <3>1 DEF Chain
  <2>3. CASE stack' = stack /\ (pc' = pc \/ pc' = "findDiamonds")
    <3>1. stack' = <<>>
      BY <2>1, <2>3
    <3> QED
      BY <1>5, <2>1, <2>3, <3>1 DEF Chain
  <2> QED
    BY <1>6, <2>2, <2>3, ExtendCases
<1>7. CASE setParentsChildrenRecursive
  <2>1. /\ pc = "extendTypeMetadata" /\ pc' = pc /\ stack # <<>> /\ Parents' = Parents
        /\ \/ return
           \/ stack' = stack
           \/ \E p \in bases(Parents, current) : call(p)
    BY <1>7, SetCases
  <2>2. down(stack) /\ current \in Class
    BY <2>1, Current DEF Chain
  <2>3. \A p \in bases(Parents, current) : p \in Class
    BY <1>1, <2>2, Bases
  <2>4. down(stack')
    BY <1>3, <1>4, <2>1, <2>2, <2>3
  <2> QED
    BY <2>1, <2>4 DEF Chain
<1>8. CASE findDiamonds
  <2>1. pc = "findDiamonds" /\ stack = <<>> /\ Parents' = Parents /\ Roots' = Roots /\ up(stack)
    BY <1>8, FindCases DEF Chain
  <2>2. CASE pc' = "buildFakeVTables" /\ stack' = stack
    <3>1. stack' = <<>>
      BY <2>1, <2>2
    <3> QED
      BY <1>5, <2>1, <2>2, <3>1 DEF Chain
  <2>3. CASE \E r \in Class : /\ pos \in 1..Len(Roots) /\ r = Roots[pos] /\ pos' = pos + 1
                              /\ call(r) /\ pc' = pc
    <3>1. PICK r \in Class : /\ pos \in 1..Len(Roots) /\ r = Roots[pos] /\ pos' = pos + 1
                             /\ call(r) /\ pc' = pc
      BY <2>3
    <3>2. up(stack') /\ root' = r
      BY <1>3, <2>1, <3>1, Called
    <3>3. pos' > 1 /\ pos' - 1 = pos /\ pos' - 1 <= Len(Roots')
      BY <1>1, <2>1, <3>1
    <3> QED
      BY <2>1, <3>1, <3>2, <3>3 DEF Chain
  <2> QED
    BY <1>8, <2>2, <2>3, FindCases
<1>9. CASE findDiamondsRecursive
  <2>1. /\ pc = "findDiamonds" /\ pc' = pc /\ stack # <<>> /\ Parents' = Parents /\ pos' = pos
        /\ \/ return /\ Roots' = Roots
           \/ return /\ Roots' = pushNew(Roots, current)
           \/ (\E c \in Range(Children[current]) : call(c)) /\ Roots' = Roots
    BY <1>9, FindRecursiveCases
  <2>2. up(stack) /\ current \in Class /\ root \in Class
        /\ pos > 1 /\ pos - 1 <= Len(Roots) /\ root = Roots[pos - 1]
    BY <2>1, Current DEF Chain
  <2>3. \A c \in Range(Children[current]) : c \in Class /\ current \in bases(Parents, c)
    BY <1>1, <2>2, Members DEF ChildLists, TypeOK
  <2>4. up(stack')
    BY <1>3, <1>4, <2>1, <2>2, <2>3
  <2>5. stack' # <<>> => root' = root
    BY <2>1, <2>3, Called, Returned
  <2>6. pos - 1 <= Len(Roots') /\ Roots'[pos - 1] = Roots[pos - 1]
    <3>1. CASE Roots' = Roots
      BY <2>2, <3>1
    <3>2. CASE Roots' = pushNew(Roots, current)
      <4>1. Roots' = Roots \/ Roots' = Append(Roots, current)
        BY <3>2 DEF pushNew
      <4>2. pos - 1 \in 1..Len(Roots)
        BY <1>1, <2>2
      <4>3. Len(Append(Roots, current)) = Len(Roots) + 1
            /\ Append(Roots, current)[pos - 1] = Roots[pos - 1]
        BY <1>1, <2>2, <4>2, Pushed
      <4> QED
        BY <1>1, <4>1, <4>2, <4>3
    <3> QED
      BY <2>1, <3>1, <3>2
  <2> QED
    BY <2>1, <2>2, <2>4, <2>5, <2>6 DEF Chain
<1>10. CASE buildFakeVTables
  <2>1. pc = "buildFakeVTables" /\ stack = <<>> /\ Parents' = Parents /\ Roots' = Roots /\ up(stack)
    BY <1>10, BuildCases DEF Chain
  <2>2. CASE pc' = "removeDuplicates" /\ stack' = stack
    BY <2>1, <2>2 DEF Chain
  <2>3. CASE \E r \in Class : /\ pos \in 1..Len(Roots) /\ r = Roots[pos] /\ pos' = pos + 1
                              /\ call(r) /\ pc' = pc
    <3>1. PICK r \in Class : /\ pos \in 1..Len(Roots) /\ r = Roots[pos] /\ pos' = pos + 1
                             /\ call(r) /\ pc' = pc
      BY <2>3
    <3>2. up(stack') /\ root' = r
      BY <1>3, <2>1, <3>1, Called
    <3>3. pos' > 1 /\ pos' - 1 = pos /\ pos' - 1 <= Len(Roots')
      BY <1>1, <2>1, <3>1
    <3> QED
      BY <2>1, <3>1, <3>2, <3>3 DEF Chain
  <2> QED
    BY <1>10, <2>2, <2>3, BuildCases DEF number
<1>11. CASE buildFakeVTablesRecursive
  <2>1. /\ pc = "buildFakeVTables" /\ pc' = pc /\ stack # <<>> /\ Parents' = Parents /\ pos' = pos
        /\ Roots' = Roots
        /\ \/ return
           \/ stack' = stack
           \/ \E c \in Range(Children[current]) : call(c)
    BY <1>11, BuildRecursiveCases DEF number
  <2>2. up(stack) /\ current \in Class /\ root \in Class
        /\ pos > 1 /\ pos - 1 <= Len(Roots) /\ root = Roots[pos - 1]
    BY <2>1, Current DEF Chain
  <2>3. \A c \in Range(Children[current]) : c \in Class /\ current \in bases(Parents, c)
    BY <1>1, <2>2, Members DEF ChildLists, TypeOK
  <2>4. up(stack')
    BY <1>3, <1>4, <2>1, <2>2, <2>3
  <2>5. stack' # <<>> => root' = root
    BY <2>1, <2>3, Called, Returned DEF root
  <2> QED
    BY <2>1, <2>2, <2>4, <2>5 DEF Chain
<1>12. CASE removeDuplicates
  <2>1. pc = "removeDuplicates" /\ stack' = stack /\ pc' \in {"removeDuplicates", "done"}
    BY <1>12, RemoveCases
  <2> QED
    BY <2>1 DEF Chain
<1>13. CASE UNCHANGED vars
  BY <1>13 DEF vars, hierarchy, walk, root, Chain
<1> QED
  BY <1>6, <1>7, <1>8, <1>9, <1>10, <1>11, <1>12, <1>13 DEF Next

LEMMA Distinct ==
  ASSUME NEW s \in Seq(Class), NEW c \in Class, IsInjective(s), c \notin Range(s)
  PROVE  IsInjective(Append(s, c))
<1>1. /\ Len(s) \in Nat /\ Len(Append(s, c)) = Len(s) + 1
      /\ \A j \in 1..Len(s) : Append(s, c)[j] = s[j] /\ Append(s, c)[j] # c
      /\ Append(s, c)[Len(s) + 1] = c
      /\ DOMAIN Append(s, c) = 1..(Len(s) + 1)
      /\ DOMAIN s = 1..Len(s)
  <2>1. Append(s, c) \in Seq(Class) /\ DOMAIN Append(s, c) = 1..Len(Append(s, c))
    BY Pushed, Members
  <2>2. \A j \in 1..Len(s) : s[j] # c
    BY Members
  <2> QED
    BY <2>1, <2>2, Pushed, Members
<1>2. \A a, b \in 1..Len(s) : s[a] = s[b] => a = b
  BY <1>1 DEF IsInjective
<1>3. ASSUME NEW a \in 1..(Len(s) + 1), NEW b \in 1..(Len(s) + 1),
             Append(s, c)[a] = Append(s, c)[b]
      PROVE  a = b
  <2>1. (a \in 1..Len(s) \/ a = Len(s) + 1) /\ (b \in 1..Len(s) \/ b = Len(s) + 1)
    BY <1>1
  <2> QED
    BY <1>1, <1>2, <1>3, <2>1
<1> QED
  BY <1>1, <1>3 DEF IsInjective

(* A class that has been reached from below, in the first walk, is a child *)
(* of its bases, as far as its loop has come.                              *)
reached(c) == (c <= type /\ isLeaf(c)) \/ Children[c] # <<>>

Entered ==
  pc = "extendTypeMetadata" =>
    \A c \in Class : \A j \in 1..Len(Parents[c]) :
      (IF c \in Range(stack) THEN j < i[c] ELSE reached(c))
        => c \in Range(Children[Parents[c][j]])

LEMMA ListsInit ==
  ASSUME Init
  PROVE  Chain /\ ChildLists /\ Entered
<1>1. /\ pc = "extendTypeMetadata" /\ stack = <<>> /\ type = 0
      /\ \A c \in Class : Children[c] = <<>>
  BY DEF Init
<1>2. Len(stack) = 0 /\ \A j : j \notin 1..(Len(stack) - 1)
  BY <1>1
<1>3. Range(<<>>) = {} /\ IsInjective(<<>>)
  BY DEF Range, IsInjective
<1>4. \A c \in Class : ~reached(c)
  BY <1>1, ClassAssumption DEF reached
<1> QED
  BY <1>1, <1>2, <1>3, <1>4 DEF Chain, ChildLists, Entered

(* at the end of the first walk, every class has been reached *)
LEMMA AllReached ==
  ASSUME Typed, ChildLists, Entered, pc = "extendTypeMetadata", stack = <<>>,
         \A c \in Class : c <= type
  PROVE  \A c \in Class : \A p \in bases(Parents, c) : c \in Range(Children[p])
<1>1. isHierarchy(Parents)
  BY DEF Typed
<1>2. Range(stack) = {} /\ Range(<<>>) = {}
  BY DEF Range
<1>3. \A c \in Class : reached(c) =>
        \A p \in bases(Parents, c) : c \in Range(Children[p])
  <2> SUFFICES ASSUME NEW c \in Class, reached(c), NEW p \in bases(Parents, c)
               PROVE  c \in Range(Children[p])
    OBVIOUS
  <2>1. PICK j \in 1..Len(Parents[c]) : p = Parents[c][j]
    BY <1>1, Bases
  <2> QED
    BY <1>2, <2>1 DEF Entered
<1> DEFINE U == {c \in Class : ~reached(c)}
<1>4. ASSUME U # {}
      PROVE  FALSE
  <2>1. U \in (SUBSET Class) \ {{}}
    BY <1>4
  <2>2. PICK p \in U : \A c \in U : p \notin bases(Parents, c)
    BY <1>1, <2>1 DEF isHierarchy, acyclic
  <2>3. p \in Class /\ ~isLeaf(p) /\ Children[p] = <<>>
    BY <2>2 DEF reached
  <2>4. PICK d \in Class : p \in bases(Parents, d)
    BY <2>3 DEF isLeaf
  <2>5. reached(d)
    BY <2>2, <2>4
  <2>6. d \in Range(Children[p])
    BY <1>3, <2>4, <2>5
  <2> QED
    BY <1>2, <2>3, <2>6
<1> QED
  BY <1>3, <1>4

LEMMA ListsStep ==
  ASSUME Typed, Chain, ChildLists, Entered, [Next]_vars
  PROVE  ChildLists' /\ Entered'
<1>1. /\ TypeOK /\ isHierarchy(Parents) /\ stack \in Seq(Class)
      /\ Children \in [Class -> Seq(Class)]
      /\ type \in Nat /\ i \in [Class -> Nat]
  BY ClassAssumption DEF Typed, TypeOK
<1>2. Parents' = Parents
  BY DEF vars, hierarchy, Next, extendTypeMetadata, setParentsChildrenRecursive,
         findDiamonds, findDiamondsRecursive, buildFakeVTables,
         buildFakeVTablesRecursive, removeDuplicates
<1>3. Range(<<>>) = {}
  BY DEF Range
<1>4. ASSUME UNCHANGED Children, pc' # "extendTypeMetadata",
             pc # "extendTypeMetadata"
      PROVE  ChildLists' /\ Entered'
  BY <1>2, <1>4 DEF ChildLists, Entered
<1>5. CASE extendTypeMetadata
  <2>1. pc = "extendTypeMetadata" /\ stack = <<>> /\ Children' = Children /\ Range(stack) = {}
    BY <1>3, <1>5, ExtendCases
  <2>2. ASSUME NEW c \in Class, nextType(c), type' = c, NEW d \in Class, d # c \/ ~isLeaf(c),
               reached(d)'
        PROVE  reached(d)
    <3>1. CASE d <= c /\ isLeaf(d)
      <4>1. d <= type
        BY <1>1, <2>2, <3>1, ClassAssumption DEF nextType
      <4> QED
        BY <3>1, <4>1 DEF reached
    <3>2. isLeaf(d)' <=> isLeaf(d)
      BY <1>2 DEF isLeaf
    <3> QED
      BY <2>1, <2>2, <3>1, <3>2 DEF reached
  <2>3. ASSUME NEW c \in Class, nextType(c), type' = c, pc' = pc, isLeaf(c), call(c),
               i' = [i EXCEPT ![c] = 1]
        PROVE  ChildLists' /\ Entered'
    <3>1. ChildLists'
      BY <1>2, <2>1, <2>3 DEF ChildLists
    <3>2. Range(stack') = {c} /\ i'[c] = 1
      BY <1>1, <2>1, <2>3, Called
    <3>3. ASSUME NEW d \in Class, NEW j \in 1..Len(Parents[d]),
                 IF d \in Range(stack') THEN j < i'[d] ELSE reached(d)'
          PROVE  d \in Range(Children[Parents[d][j]])
      <4>1. d # c
        BY <3>2, <3>3
      <4>2. reached(d)
        BY <2>2, <2>3, <3>2, <3>3, <4>1
      <4> QED
        BY <2>1, <4>2 DEF Entered
    <3> QED
      BY <1>2, <2>1, <3>1, <3>3 DEF Entered
  <2>4. ASSUME NEW c \in Class, nextType(c), type' = c, pc' = pc, ~isLeaf(c),
               stack' = stack, i' = i
        PROVE  ChildLists' /\ Entered'
    <3>1. ChildLists'
      BY <1>2, <2>1, <2>4 DEF ChildLists
    <3>2. \A d \in Class : reached(d)' => reached(d)
      BY <2>2, <2>4
    <3> QED
      BY <1>2, <2>1, <2>4, <3>1, <3>2 DEF Entered
  <2>5. ASSUME \A c \in Class : c <= type, pc' = "findDiamonds"
        PROVE  ChildLists' /\ Entered'
    <3>1. \A c \in Class : \A p \in bases(Parents, c) : c \in Range(Children[p])
      BY <2>1, <2>5, AllReached
    <3> QED
      BY <1>2, <2>1, <2>5, <3>1 DEF ChildLists, Entered
  <2> QED
    BY <1>5, <2>3, <2>4, <2>5, ExtendCases
<1>6. CASE setParentsChildrenRecursive
  <2>1. PICK t \in Class :
           /\ t = current /\ stack # <<>> /\ pc = "extendTypeMetadata" /\ pc' = pc
           /\ UNCHANGED type
           /\ \/ i[t] > Len(Parents[t]) /\ return /\ Children' = Children
              \/ \E p \in bases(Parents, t) :
                   /\ i[t] \in 1..Len(Parents[t]) /\ p = Parents[t][i[t]]
                   /\ t \in Range(Children[p]) /\ i' = [i EXCEPT ![t] = @ + 1]
                   /\ stack' = stack /\ Children' = Children
              \/ \E p \in bases(Parents, t) :
                   /\ i[t] \in 1..Len(Parents[t]) /\ p = Parents[t][i[t]]
                   /\ t \notin Range(Children[p])
                   /\ Children' = [Children EXCEPT ![p] = Append(@, t)]
                   /\ call(p) /\ i' = [i EXCEPT ![t] = @ + 1, ![p] = 1]
    BY <1>6, SetCases
  <2>2. t \in Range(stack) /\ i[t] \in Nat /\ Len(Parents[t]) \in Nat
    BY <1>1, <2>1, Current, Bases, LenProperties
  <2>3. \A c \in Class : isLeaf(c)' <=> isLeaf(c)
    BY <1>2 DEF isLeaf
  <2>4. CASE i[t] > Len(Parents[t]) /\ return /\ Children' = Children
    <3>1. ChildLists'
      BY <1>2, <2>1, <2>4 DEF ChildLists
    <3>2. i' = i /\ Range(stack) = Range(stack') \cup {t}
      BY <2>1, <2>4, Returned
    <3>3. ASSUME NEW d \in Class, NEW j \in 1..Len(Parents[d]),
                 IF d \in Range(stack') THEN j < i'[d] ELSE reached(d)'
          PROVE  d \in Range(Children[Parents[d][j]])
      <4>1. CASE d = t
        <5>1. j < i[t]
          BY <2>2, <2>4, <4>1
        <5> QED
          BY <2>1, <2>2, <4>1, <5>1 DEF Entered
      <4>2. CASE d # t
        <5>1. reached(d)' => reached(d)
          BY <2>1, <2>3, <2>4 DEF reached
        <5>2. IF d \in Range(stack) THEN j < i[d] ELSE reached(d)
          BY <3>2, <3>3, <4>2, <5>1
        <5> QED
          BY <2>1, <5>2 DEF Entered
      <4> QED
        BY <4>1, <4>2
    <3> QED
      BY <1>2, <2>1, <2>4, <3>1, <3>3 DEF Entered
  <2>5. ASSUME NEW p \in bases(Parents, t),
               i[t] \in 1..Len(Parents[t]), p = Parents[t][i[t]],
               t \in Range(Children[p]), i' = [i EXCEPT ![t] = @ + 1],
               stack' = stack, Children' = Children
        PROVE  ChildLists' /\ Entered'
    <3>1. ChildLists'
      BY <1>2, <2>1, <2>5 DEF ChildLists
    <3>2. \A d \in Class : i'[d] = IF d = t THEN i[t] + 1 ELSE i[d]
      BY <1>1, <2>5, Counters
    <3>3. ASSUME NEW d \in Class, NEW j \in 1..Len(Parents[d]),
                 IF d \in Range(stack') THEN j < i'[d] ELSE reached(d)'
          PROVE  d \in Range(Children[Parents[d][j]])
      <4>1. CASE d = t
        <5>1. j < i[t] \/ j = i[t]
          BY <2>2, <2>5, <3>2, <3>3, <4>1
        <5>2. CASE j = i[t]
          BY <2>5, <4>1, <5>2
        <5>3. CASE j < i[t]
          BY <2>1, <2>2, <4>1, <5>3 DEF Entered
        <5> QED
          BY <5>1, <5>2, <5>3
      <4>2. CASE d # t
        <5>1. reached(d)' => reached(d)
          BY <2>1, <2>3, <2>5 DEF reached
        <5>2. IF d \in Range(stack) THEN j < i[d] ELSE reached(d)
          BY <2>5, <3>2, <3>3, <4>2, <5>1
        <5> QED
          BY <2>1, <5>2 DEF Entered
      <4> QED
        BY <4>1, <4>2
    <3> QED
      BY <1>2, <2>1, <2>5, <3>1, <3>3 DEF Entered
  <2>6. ASSUME NEW p \in bases(Parents, t),
               i[t] \in 1..Len(Parents[t]), p = Parents[t][i[t]],
               t \notin Range(Children[p]),
               Children' = [Children EXCEPT ![p] = Append(@, t)],
               call(p), i' = [i EXCEPT ![t] = @ + 1, ![p] = 1]
        PROVE  ChildLists' /\ Entered'
    <3>1. p \in Class /\ p # t
      BY <1>1, Bases, NoCycle
    <3>2. /\ Children'[p] = Append(Children[p], t) /\ Children[p] \in Seq(Class)
          /\ \A q \in Class : q # p => Children'[q] = Children[q]
      BY <1>1, <2>6, <3>1
    <3>3. Range(Children'[p]) = Range(Children[p]) \cup {t} /\ IsInjective(Children'[p])
      <4>1. IsInjective(Children[p])
        BY <3>1 DEF ChildLists
      <4>2. Range(Append(Children[p], t)) = Range(Children[p]) \cup {t}
        BY <3>2, Pushed
      <4>3. IsInjective(Append(Children[p], t))
        BY <2>6, <3>2, <4>1, Distinct
      <4> QED
        BY <3>2, <4>2, <4>3
    <3>4. ChildLists'
      <4>1. ASSUME NEW q \in Class
            PROVE  /\ IsInjective(Children'[q])
                   /\ \A c \in Range(Children'[q]) : q \in bases(Parents, c)
        BY <2>6, <3>2, <3>3 DEF ChildLists
      <4> QED
        BY <1>2, <2>1, <4>1 DEF ChildLists
    <3>5. Range(stack') = Range(stack) \cup {p}
      BY <2>6, <3>1, Called
    <3>6. \A d \in Class : i'[d] = IF d = p THEN 1 ELSE IF d = t THEN i[t] + 1 ELSE i[d]
      BY <1>1, <2>6, <3>1, Counters
    <3>7. ASSUME NEW d \in Class, NEW j \in 1..Len(Parents[d]),
                 IF d \in Range(stack') THEN j < i'[d] ELSE reached(d)'
          PROVE  d \in Range(Children'[Parents[d][j]])
      <4>1. Parents[d][j] \in Class
        BY <1>1, Bases
      <4>2. Range(Children[Parents[d][j]]) \subseteq Range(Children'[Parents[d][j]])
        BY <3>2, <3>3, <4>1
      <4>3. d # p
        BY <3>5, <3>6, <3>7
      <4>4. CASE d = t
        <5>1. j < i[t] \/ j = i[t]
          BY <2>2, <3>5, <3>6, <3>7, <4>3, <4>4
        <5>2. CASE j = i[t]
          BY <2>6, <3>3, <4>4, <5>2
        <5>3. CASE j < i[t]
          BY <2>1, <2>2, <4>2, <4>4, <5>3 DEF Entered
        <5> QED
          BY <5>1, <5>2, <5>3
      <4>5. CASE d # t
        <5>1. reached(d)' => reached(d)
          BY <2>1, <2>3, <3>2, <4>3 DEF reached
        <5>2. IF d \in Range(stack) THEN j < i[d] ELSE reached(d)
          BY <3>5, <3>6, <3>7, <4>3, <4>5, <5>1
        <5> QED
          BY <2>1, <4>2, <5>2 DEF Entered
      <4> QED
        BY <4>4, <4>5
    <3> QED
      BY <1>2, <2>1, <3>4, <3>7 DEF Entered
  <2> QED
    BY <2>1, <2>4, <2>5, <2>6
<1>7. CASE findDiamonds
  BY <1>4, <1>7, FindCases
<1>8. CASE findDiamondsRecursive
  BY <1>4, <1>8, FindRecursiveCases
<1>9. CASE buildFakeVTables
  BY <1>4, <1>9, BuildCases
<1>10. CASE buildFakeVTablesRecursive
  BY <1>4, <1>10, BuildRecursiveCases
<1>11. CASE removeDuplicates
  BY <1>4, <1>11, RemoveCases
<1>12. CASE UNCHANGED vars
  <2>1. \A c \in Class : reached(c)' <=> reached(c)
    BY <1>12 DEF vars, hierarchy, reached, isLeaf
  <2> QED
    BY <1>2, <1>12, <2>1 DEF vars, walk, ChildLists, Entered
<1> QED
  BY <1>5, <1>6, <1>7, <1>8, <1>9, <1>10, <1>11, <1>12 DEF Next

-----------------------------------------------------------------------------
(* Trees and roots.                                                        *)

LEMMA AboveBaseless ==
  ASSUME Typed, NEW r \in Class, Baseless(r)
  PROVE  Above(r) = {r}
<1>1. isHierarchy(Parents) /\ bases(Parents, r) = {}
  BY DEF Typed, Baseless, bases, Range
<1>2. r \in Above(r) /\ \A d \in Above(r) : d # r => \E b \in bases(Parents, r) : d \in ancestors(Parents, b)
  BY <1>1, Ancestors DEF Above
<1> QED
  BY <1>1, <1>2

LEMMA Below ==
  ASSUME Typed, ChildLists, NEW c \in Class
  PROVE  /\ descendants(c) \subseteq Class /\ c \in descendants(c)
         /\ \A d \in descendants(c) : c \in Above(d)
         /\ pc # "extendTypeMetadata" =>
              \A d \in Class : c \in Above(d) => d \in descendants(c)
<1>1. isHierarchy(Parents) /\ Children \in [Class -> Seq(Class)]
  BY DEF Typed, TypeOK
<1> DEFINE E == downwards
           F == upwards(Parents)
<1>2. E \in Edges /\ F \in Edges
  BY DEF downwards, upwards, Edges
<1>3. \A x, y \in Class : <<x, y>> \in E <=> y \in Range(Children[x])
  BY DEF downwards
<1>4. \A x, y \in Class : <<x, y>> \in F <=> y \in bases(Parents, x)
  BY DEF upwards
<1>5. \A x, y \in Class : <<x, y>> \in E => <<y, x>> \in F
  BY <1>3, <1>4 DEF ChildLists
<1>6. pc # "extendTypeMetadata" => \A x, y \in Class : <<x, y>> \in F => <<y, x>> \in E
  BY <1>3, <1>4 DEF ChildLists
<1> HIDE DEF E, F
<1>7. /\ reach(E, c) \subseteq Class /\ c \in reach(E, c)
      /\ \A d \in reach(E, c) : c \in reach(F, d)
  BY <1>2, <1>5, Reach, ReachReverse
<1>8. pc # "extendTypeMetadata" => \A d \in Class : c \in reach(F, d) => d \in reach(E, c)
  BY <1>2, <1>6, ReachReverse
<1> QED
  BY <1>7, <1>8 DEF E, F, descendants, Above, ancestors

(* a child that has been met before is below the root in two ways *)
LEMMA TwoWays ==
  ASSUME Typed, NEW c \in Class, NEW t \in bases(Parents, c), NEW u \in bases(Parents, c),
         t # u, NEW r \in Class, r \in Above(t), r \in Above(u)
  PROVE  ~noDiamonds /\ ~Baseless(t)
<1>1. isHierarchy(Parents) /\ t \in Class /\ u \in Class
  BY Bases DEF Typed
<1>2. ~diamondFree(Parents, c)
  BY DEF diamondFree, Above
<1>3. ASSUME Baseless(t)
      PROVE  FALSE
  <2>1. r = t
    BY <1>1, <1>3, AboveBaseless
  <2> QED
    BY <1>1, <2>1 DEF isHierarchy, accessible, Above
<1> QED
  BY <1>2, <1>3 DEF noDiamonds

LEMMA Removed ==
  ASSUME NEW s \in Seq(Class), IsInjective(s), NEW n \in 1..Len(s)
  PROVE  /\ RemoveAt(s, n) \in Seq(Class) /\ IsInjective(RemoveAt(s, n))
         /\ Range(RemoveAt(s, n)) = Range(s) \ {s[n]}
<1> DEFINE u == RemoveAt(s, n)
<1>1. Len(s) \in Nat /\ DOMAIN s = 1..Len(s) /\ \A j \in 1..Len(s) : s[j] \in Class
  BY Members
<1>2. /\ u \in Seq(Class) /\ Len(u) = Len(s) - 1
      /\ \A j \in 1..Len(u) : u[j] = IF j < n THEN s[j] ELSE s[j + 1]
  <2>1. /\ SubSeq(s, 1, n - 1) \in Seq(Class) /\ Len(SubSeq(s, 1, n - 1)) = n - 1
        /\ \A j \in 1..(n - 1) : SubSeq(s, 1, n - 1)[j] = s[j]
    BY <1>1
  <2>2. /\ SubSeq(s, n + 1, Len(s)) \in Seq(Class) /\ Len(SubSeq(s, n + 1, Len(s))) = Len(s) - n
        /\ \A j \in 1..(Len(s) - n) : SubSeq(s, n + 1, Len(s))[j] = s[n + j]
    <3>1. \A j \in (n + 1)..Len(s) : s[j] \in Class
      BY <1>1
    <3> DEFINE l == Len(s)
               v == SubSeq(s, n + 1, l)
    <3>2. n + 1 \in Int /\ l \in Int
      BY <1>1
    <3>3. /\ v \in Seq(Class) /\ Len(v) = IF n + 1 <= l THEN l - (n + 1) + 1 ELSE 0
          /\ \A j \in 1..(l - (n + 1) + 1) : v[j] = s[(n + 1) + j - 1]
      BY <3>1, <3>2, SubSeqProperties
    <3>4. n \in Nat /\ l \in Nat /\ n <= l
      BY <1>1
    <3> HIDE DEF l, v
    <3>5. l - (n + 1) + 1 = l - n /\ (~(n + 1 <= l) => l - n = 0)
      BY <3>4
    <3>6. \A j \in 1..(l - n) : (n + 1) + j - 1 = n + j
      BY <3>4
    <3> QED
      BY <3>3, <3>5, <3>6 DEF l, v
  <2> DEFINE f == SubSeq(s, 1, n - 1)
             g == SubSeq(s, n + 1, Len(s))
  <2>3. u = f \o g
    BY DEF RemoveAt
  <2> HIDE DEF f, g, u
  <2>4. f \in Seq(Class) /\ g \in Seq(Class) /\ Len(f) = n - 1 /\ Len(g) = Len(s) - n
        /\ (\A j \in 1..(n - 1) : f[j] = s[j])
        /\ (\A j \in 1..(Len(s) - n) : g[j] = s[n + j])
    BY <2>1, <2>2 DEF f, g
  <2>5. u \in Seq(Class) /\ Len(u) = Len(f) + Len(g)
        /\ \A j \in 1..(Len(f) + Len(g)) : u[j] = IF j <= Len(f) THEN f[j] ELSE g[j - Len(f)]
    BY <2>3, <2>4, ConcatProperties
  <2>6. Len(u) = Len(s) - 1
    BY <1>1, <2>4, <2>5
  <2>7. ASSUME NEW j \in 1..Len(u)
        PROVE  u[j] = IF j < n THEN s[j] ELSE s[j + 1]
    <3>1. j \in 1..(Len(f) + Len(g)) /\ Len(f) = n - 1
      BY <2>4, <2>5
    <3>2. CASE j < n
      <4>1. j \in 1..(n - 1) /\ j <= Len(f)
        BY <1>1, <3>1, <3>2
      <4> QED
        BY <2>4, <2>5, <3>1, <3>2, <4>1
    <3>3. CASE ~(j < n)
      <4>1. ~(j <= Len(f)) /\ j - Len(f) \in 1..(Len(s) - n) /\ n + (j - Len(f)) = j + 1
        BY <1>1, <2>6, <3>1, <3>3
      <4>2. u[j] = g[j - Len(f)]
        BY <2>5, <3>1, <4>1
      <4>3. g[j - Len(f)] = s[n + (j - Len(f))]
        BY <2>4, <4>1
      <4> QED
        BY <3>3, <4>1, <4>2, <4>3
    <3> QED
      BY <3>2, <3>3
  <2> QED
    BY <2>5, <2>6, <2>7
<1> HIDE DEF u
<1>3. \A a, b \in 1..Len(s) : s[a] = s[b] => a = b
  BY <1>1 DEF IsInjective
<1>4. ASSUME NEW a \in 1..Len(u), NEW b \in 1..Len(u), u[a] = u[b]
      PROVE  a = b
  <2>1. a \in 1..Len(s) /\ a + 1 \in 1..Len(s) /\ b \in 1..Len(s) /\ b + 1 \in 1..Len(s)
    BY <1>1, <1>2
  <2> QED
    BY <1>2, <1>3, <1>4, <2>1
<1>5. IsInjective(u)
  BY <1>2, <1>4, Members DEF IsInjective
<1>6. Range(u) = {u[j] : j \in 1..Len(u)} /\ Range(s) = {s[j] : j \in 1..Len(s)}
  BY <1>2, Members
<1>7. ASSUME NEW j \in 1..Len(u)
      PROVE  u[j] \in Range(s) \ {s[n]}
  <2>1. j \in 1..Len(s) /\ j + 1 \in 1..Len(s) /\ (j < n => j # n) /\ (~(j < n) => j + 1 # n)
    BY <1>1, <1>2
  <2> QED
    BY <1>2, <1>3, <1>6, <2>1
<1>8. ASSUME NEW j \in 1..Len(s), s[j] # s[n]
      PROVE  s[j] \in Range(u)
  <2>1. CASE j < n
    <3>1. j \in 1..Len(u)
      BY <1>1, <1>2, <2>1
    <3> QED
      BY <1>2, <1>6, <2>1, <3>1
  <2>2. CASE j > n
    <3>1. j - 1 \in 1..Len(u) /\ ~(j - 1 < n) /\ (j - 1) + 1 = j
      BY <1>1, <1>2, <2>2
    <3>2. u[j - 1] = s[j]
      BY <1>2, <3>1
    <3> QED
      BY <1>6, <3>1, <3>2
  <2> QED
    BY <1>1, <1>8, <2>1, <2>2
<1> QED
  BY <1>2, <1>5, <1>6, <1>7, <1>8 DEF u

-----------------------------------------------------------------------------
(* The search for diamonds.                                                *)

RootList ==
  /\ IsInjective(Roots)
  /\ \A r \in Range(Roots) : Baseless(r) \/ Children[r] # <<>>
  /\ \A r \in Class : Baseless(r) => r \in Range(Roots)
  /\ noDiamonds => \A r \in Range(Roots) : Baseless(r)

(* where a diamond can be marked *)
Marks ==
  /\ pc = "extendTypeMetadata" => pos = 1
  /\ \A t \in Class : \A d \in Diamonds[t] :
       /\ pc # "extendTypeMetadata" /\ ~Baseless(t) /\ ~noDiamonds
       /\ pc = "findDiamonds" => \E a \in 1..Len(Roots) : a < pos /\ d[1] = Roots[a]

(* The classes met in the walk over the tree of r are below r, each was    *)
(* met first at an edge that is not marked, and only these are marked.     *)
Visited(r) ==
  /\ r \in Descendents
  /\ \A c \in Descendents : r \in Above(c)
  /\ \A c \in Descendents : c # r =>
       \E t \in Descendents : \E j \in 1..Len(Children[t]) :
         j < i[t] /\ Children[t][j] = c /\ <<r, c>> \notin Diamonds[t]
  /\ \A t, c \in Class : <<r, c>> \in Diamonds[t] => c \in Descendents

Visiting ==
  walking("findDiamonds") => Range(stack) \subseteq Descendents /\ Visited(root)

LEMMA Entries ==
  ASSUME Typed, NEW t \in Class, NEW j \in 1..Len(Children[t])
  PROVE  Children[t][j] \in Range(Children[t]) /\ Children[t][j] \in Class
<1>1. Children[t] \in Seq(Class)
  BY DEF Typed, TypeOK
<1> QED
  BY <1>1, Members

LEMMA VisitStart ==
  ASSUME Typed, RootList, Marks, NEW r \in Class,
         pc = "findDiamonds", pos \in 1..Len(Roots), r = Roots[pos],
         Descendents' = {r}, UNCHANGED <<Parents, Children, Diamonds>>
  PROVE  Visited(r)'
<1>1. r \in Above(r)
  BY Ancestors DEF Above, Typed
<1>2. ASSUME NEW t \in Class, NEW c \in Class, <<r, c>> \in Diamonds[t]
      PROVE  FALSE
  <2>1. PICK a \in 1..Len(Roots) : a < pos /\ <<r, c>>[1] = Roots[a]
    BY <1>2 DEF Marks
  <2>2. DOMAIN Roots = 1..Len(Roots) /\ Len(Roots) \in Nat
    BY Members DEF Typed, TypeOK
  <2>3. a = pos
    BY <2>1, <2>2 DEF RootList, IsInjective
  <2> QED
    BY <2>1, <2>3
<1> QED
  BY <1>1, <1>2 DEF Visited, Above

(* a step of the walk: an edge that is marked closes a diamond *)
LEMMA VisitStep ==
  ASSUME Typed, ChildLists, Visiting, findDiamondsRecursive
  PROVE  \E t, r \in Class :
           /\ pc = "findDiamonds" /\ pc' = pc /\ stack # <<>> /\ r = root
           /\ UNCHANGED <<Parents, phantom, Children, TreeIndices, type, pos, k, Index>>
           /\ Visited(r)' /\ Range(stack') \subseteq Descendents'
           /\ stack' # <<>> => root' = r
           /\ \/ UNCHANGED <<Roots, Diamonds>>
              \/ /\ Roots' = pushNew(Roots, t)
                 /\ \E c \in Class : Diamonds' = [Diamonds EXCEPT ![t] = @ \cup {<<r, c>>}]
                 /\ ~noDiamonds /\ ~Baseless(t) /\ Children[t] # <<>>
<1>1. PICK t \in Class :
           /\ t = current /\ stack # <<>> /\ pc = "findDiamonds" /\ pc' = pc
           /\ UNCHANGED <<Parents, phantom, Children, TreeIndices, type, pos, k, Index>>
           /\ \/ i[t] > Len(Children[t]) /\ return /\ UNCHANGED <<Roots, Diamonds, Descendents>>
              \/ \E c \in Range(Children[t]) :
                   /\ i[t] \in 1..Len(Children[t]) /\ c = Children[t][i[t]] /\ c \in Descendents
                   /\ Roots' = pushNew(Roots, t)
                   /\ Diamonds' = [Diamonds EXCEPT ![t] = @ \cup {<<root, c>>}]
                   /\ return /\ UNCHANGED Descendents
              \/ \E c \in Range(Children[t]) :
                   /\ i[t] \in 1..Len(Children[t]) /\ c = Children[t][i[t]] /\ c \notin Descendents
                   /\ Descendents' = Descendents \cup {c}
                   /\ call(c) /\ i' = [i EXCEPT ![t] = @ + 1, ![c] = 1]
                   /\ UNCHANGED <<Roots, Diamonds>>
  BY FindRecursiveCases
<1>2. PICK r \in Class : r = root
  BY <1>1, Current
<1>3. /\ TypeOK /\ isHierarchy(Parents)
      /\ i \in [Class -> Nat] /\ Descendents \subseteq Class
      /\ Diamonds \in [Class -> SUBSET (Class \X Class)]
      /\ Children \in [Class -> Seq(Class)]
  BY DEF Typed, TypeOK
<1>4. /\ Range(stack) \subseteq Descendents /\ Visited(r)
      /\ t \in Descendents /\ r \in Above(t)
  <2>1. t \in Range(stack)
    BY <1>1, Current
  <2> QED
    BY <1>1, <1>2, <2>1 DEF Visiting, walking, Visited
<1>5. ASSUME NEW c \in Range(Children[t])
      PROVE  c \in Class /\ t \in bases(Parents, c) /\ r \in Above(c) /\ c # r
  <2>1. c \in Class /\ t \in bases(Parents, c)
    BY <1>3, <1>5, Members DEF ChildLists
  <2>2. t \in Above(c) /\ c \in Above(c) /\ c \notin Above(t)
    BY <1>3, <2>1, Ancestors, NoCycle DEF Above
  <2>3. Above(t) \subseteq Above(c)
    BY <1>3, <2>1, <2>2, Ancestors DEF Above
  <2> QED
    BY <1>4, <2>1, <2>2, <2>3
<1>6. \A c : Above(c)' = Above(c)
  BY <1>1 DEF Above
<1>7. ASSUME stack # <<>>, return
      PROVE  Range(stack') \subseteq Range(stack) /\ i' = i /\ (stack' # <<>> => root' = r)
  BY <1>2, <1>7, Returned
<1>8. CASE i[t] > Len(Children[t]) /\ return /\ UNCHANGED <<Roots, Diamonds, Descendents>>
  <2>1. Visited(r)'
    BY <1>1, <1>4, <1>6, <1>7, <1>8 DEF Visited
  <2> QED
    BY <1>1, <1>2, <1>4, <1>7, <1>8, <2>1
<1>9. ASSUME NEW c \in Range(Children[t]),
             i[t] \in 1..Len(Children[t]), c = Children[t][i[t]], c \in Descendents,
             Roots' = pushNew(Roots, t),
             Diamonds' = [Diamonds EXCEPT ![t] = @ \cup {<<root, c>>}],
             return, UNCHANGED Descendents
      PROVE  /\ Visited(r)' /\ Range(stack') \subseteq Descendents'
             /\ ~noDiamonds /\ ~Baseless(t) /\ Children[t] # <<>>
  <2>1. /\ c \in Class /\ t \in bases(Parents, c) /\ r \in Above(c) /\ c # r
        /\ i[t] \in Nat
    BY <1>3, <1>5
  <2>2. \A u \in Class : Diamonds'[u] = IF u = t THEN Diamonds[t] \cup {<<r, c>>} ELSE Diamonds[u]
    BY <1>2, <1>3, <1>9
  <2>3. ASSUME NEW d \in Descendents, d # r
        PROVE  \E u \in Descendents :
                 /\ d = c => u # t
                 /\ \E j \in 1..Len(Children[u]) :
                      j < i[u] /\ Children[u][j] = d /\ <<r, d>> \notin Diamonds'[u]
    <3>1. PICK u \in Descendents : \E j \in 1..Len(Children[u]) :
                 j < i[u] /\ Children[u][j] = d /\ <<r, d>> \notin Diamonds[u]
      BY <1>4, <2>3 DEF Visited
    <3>2. PICK j \in 1..Len(Children[u]) :
                 j < i[u] /\ Children[u][j] = d /\ <<r, d>> \notin Diamonds[u]
      BY <3>1
    <3>3. ASSUME d = c, u = t
          PROVE  FALSE
      <4>1. DOMAIN Children[t] = 1..Len(Children[t]) /\ IsInjective(Children[t])
        BY <1>3, Members DEF ChildLists
      <4>2. j = i[t]
        BY <1>9, <3>2, <3>3, <4>1 DEF IsInjective
      <4> QED
        BY <2>1, <3>2, <3>3, <4>2
    <3>4. <<r, d>> \notin Diamonds'[u]
      BY <1>3, <2>2, <3>2, <3>3
    <3> QED
      BY <3>2, <3>3, <3>4
  <2>4. \A u, d \in Class : <<r, d>> \in Diamonds'[u] => d \in Descendents
    BY <1>4, <1>9, <2>2 DEF Visited
  <2>5. Visited(r)'
    BY <1>1, <1>4, <1>6, <1>7, <1>9, <2>3, <2>4 DEF Visited
  <2>6. PICK u \in Descendents : u # t /\ \E j \in 1..Len(Children[u]) : Children[u][j] = c
    <3>1. c \in Descendents /\ c # r
      BY <1>9, <2>1
    <3>2. \E u \in Descendents :
                 /\ c = c => u # t
                 /\ \E j \in 1..Len(Children[u]) :
                      j < i[u] /\ Children[u][j] = c /\ <<r, c>> \notin Diamonds'[u]
      BY <2>3, <3>1
    <3> QED
      BY <3>2
  <2>7. u \in bases(Parents, c) /\ r \in Above(u)
    <3>1. u \in Class /\ r \in Above(u)
      BY <1>3, <1>4, <2>6 DEF Visited
    <3>2. c \in Range(Children[u])
      BY <2>6, <3>1, Entries
    <3> QED
      BY <3>1, <3>2 DEF ChildLists
  <2>8. ~noDiamonds /\ ~Baseless(t)
    BY <1>4, <2>1, <2>6, <2>7, TwoWays
  <2>9. Children[t] # <<>>
    <3>1. Range(<<>>) = {}
      BY DEF Range
    <3> QED
      BY <1>9, <3>1
  <2> QED
    BY <1>1, <1>4, <1>7, <1>9, <2>5, <2>8, <2>9
<1>10. ASSUME NEW c \in Range(Children[t]),
              i[t] \in 1..Len(Children[t]), c = Children[t][i[t]], c \notin Descendents,
              Descendents' = Descendents \cup {c},
              call(c), i' = [i EXCEPT ![t] = @ + 1, ![c] = 1],
              UNCHANGED <<Roots, Diamonds>>
       PROVE  Visited(r)' /\ Range(stack') \subseteq Descendents' /\ root' = r
  <2>1. c \in Class /\ t \in bases(Parents, c) /\ r \in Above(c) /\ c # r /\ c # t
    BY <1>3, <1>4, <1>5, <1>10
  <2>2. /\ Range(stack') = Range(stack) \cup {c} /\ root' = r
    BY <1>1, <1>2, <1>10, <2>1, Called
  <2>3. \A d \in Class : i'[d] = IF d = c THEN 1 ELSE IF d = t THEN i[t] + 1 ELSE i[d]
    BY <1>3, <1>10, <2>1, Counters
  <2>4. ASSUME NEW d \in Descendents', d # r
        PROVE  \E u \in Descendents' : \E j \in 1..Len(Children[u]) :
                 j < i'[u] /\ Children[u][j] = d /\ <<r, d>> \notin Diamonds[u]
    <3>1. CASE d = c
      <4>1. i[t] < i'[t]
        BY <1>3, <2>1, <2>3
      <4>2. <<r, c>> \notin Diamonds[t]
        BY <1>4, <1>10, <2>1 DEF Visited
      <4> QED
        BY <1>4, <1>10, <3>1, <4>1, <4>2
    <3>2. CASE d # c
      <4>1. PICK u \in Descendents : \E j \in 1..Len(Children[u]) :
                   j < i[u] /\ Children[u][j] = d /\ <<r, d>> \notin Diamonds[u]
        BY <1>4, <1>10, <2>4, <3>2 DEF Visited
      <4>2. PICK j \in 1..Len(Children[u]) :
                   j < i[u] /\ Children[u][j] = d /\ <<r, d>> \notin Diamonds[u]
        BY <4>1
      <4>3. j < i'[u]
        <5>1. u # c /\ u \in Class /\ i[u] \in Nat
          BY <1>3, <1>10
        <5>2. i'[u] = i[u] \/ i'[u] = i[u] + 1
          BY <2>3, <5>1
        <5>3. j \in Int /\ j < i[u]
          BY <4>2
        <5> QED
          BY <5>1, <5>2, <5>3
      <4> QED
        BY <1>10, <4>2, <4>3
    <3> QED
      BY <3>1, <3>2
  <2>5. Visited(r)'
    <3>1. r \in Descendents' /\ \A d \in Descendents' : r \in Above(d)'
      BY <1>4, <1>6, <1>10, <2>1 DEF Visited
    <3>2. \A u, d \in Class : <<r, d>> \in Diamonds'[u] => d \in Descendents'
      BY <1>4, <1>10 DEF Visited
    <3> QED
      <4>1. Children' = Children /\ Diamonds' = Diamonds
        BY <1>1, <1>10
      <4> QED
        BY <2>4, <3>1, <3>2, <4>1 DEF Visited
  <2> QED
    BY <1>4, <1>10, <2>2, <2>5
<1>11. CASE \E c \in Range(Children[t]) :
                   /\ i[t] \in 1..Len(Children[t]) /\ c = Children[t][i[t]] /\ c \in Descendents
                   /\ Roots' = pushNew(Roots, t)
                   /\ Diamonds' = [Diamonds EXCEPT ![t] = @ \cup {<<root, c>>}]
                   /\ return /\ UNCHANGED Descendents
  <2>1. stack' # <<>> => root' = r
    BY <1>1, <1>7, <1>11
  <2>2. PICK c \in Range(Children[t]) :
                   /\ i[t] \in 1..Len(Children[t]) /\ c = Children[t][i[t]] /\ c \in Descendents
                   /\ Roots' = pushNew(Roots, t)
                   /\ Diamonds' = [Diamonds EXCEPT ![t] = @ \cup {<<root, c>>}]
                   /\ return /\ UNCHANGED Descendents
    BY <1>11
  <2>3. /\ Visited(r)' /\ Range(stack') \subseteq Descendents'
        /\ ~noDiamonds /\ ~Baseless(t) /\ Children[t] # <<>>
    BY <1>9, <2>2
  <2>4. c \in Class /\ Diamonds' = [Diamonds EXCEPT ![t] = @ \cup {<<r, c>>}]
    BY <1>2, <1>5, <2>2
  <2> QED
    <3>1. /\ pc = "findDiamonds" /\ pc' = pc /\ stack # <<>>
          /\ UNCHANGED <<Parents, phantom, Children, TreeIndices, type, pos, k, Index>>
          /\ Roots' = pushNew(Roots, t)
      BY <1>1, <2>2
    <3> QED
      BY <1>2, <2>1, <2>3, <2>4, <3>1
<1>12. CASE \E c \in Range(Children[t]) :
                   /\ i[t] \in 1..Len(Children[t]) /\ c = Children[t][i[t]] /\ c \notin Descendents
                   /\ Descendents' = Descendents \cup {c}
                   /\ call(c) /\ i' = [i EXCEPT ![t] = @ + 1, ![c] = 1]
                   /\ UNCHANGED <<Roots, Diamonds>>
  BY <1>1, <1>2, <1>10, <1>12
<1> QED
  BY <1>1, <1>8, <1>11, <1>12

(* In a tree that has been searched every class can be come to by an edge  *)
(* that is not marked.                                                     *)
way(r, c) == \E t \in bases(Parents, c) : r \in Above(t) /\ <<r, c>> \notin Diamonds[t]

found(a) ==
  \/ pc = "buildFakeVTables"
  \/ pc = "findDiamonds" /\ a < pos /\ (stack = <<>> \/ a # pos - 1)

Ways ==
  \A a \in 1..Len(Roots) : found(a) =>
    \A c \in Class : Roots[a] \in Above(c) /\ c # Roots[a] => way(Roots[a], c)

Trees == Typed /\ Chain /\ ChildLists /\ Entered /\ RootList /\ Marks /\ Visiting /\ Ways

(* what a root in the list of roots is *)
LEMMA RootEntries ==
  ASSUME Typed
  PROVE  /\ Len(Roots) \in Nat /\ DOMAIN Roots = 1..Len(Roots) /\ pos \in Nat \ {0}
         /\ \A a \in 1..Len(Roots) : Roots[a] \in Class
         /\ Range(Roots) = {Roots[a] : a \in 1..Len(Roots)}
BY Members DEF Typed, TypeOK

LEMMA TreesInit ==
  ASSUME Init
  PROVE  Trees
<1>1. Typed
  BY TypedInit
<1>2. Chain /\ ChildLists /\ Entered
  BY ListsInit
<1>3. /\ pc = "extendTypeMetadata" /\ pos = 1 /\ \A t \in Class : Diamonds[t] = {}
      /\ Roots \in inOrder({c \in Class : Parents[c] = <<>>})
  BY DEF Init
<1>4. RootList
  <2> DEFINE B == {c \in Class : Parents[c] = <<>>}
             N == Cardinality(B)
  <2>1. N \in Nat
    BY ClassAssumption, FS_Subset, FS_CardinalityType
  <2>2. /\ Roots \in [1..N -> B] /\ Range(Roots) = B
        /\ \A a, b \in DOMAIN Roots : a < b => Roots[a] < Roots[b]
    BY <1>3 DEF inOrder
  <2>3. DOMAIN Roots = 1..N /\ \A a \in 1..N : Roots[a] \in Nat
    BY <2>2, ClassAssumption
  <2> HIDE DEF N
  <2>4. ASSUME NEW a \in 1..N, NEW b \in 1..N, Roots[a] = Roots[b]
        PROVE  a = b
    <3>1. ~(Roots[a] < Roots[b]) /\ ~(Roots[b] < Roots[a])
      BY <2>3, <2>4
    <3>2. ~(a < b) /\ ~(b < a)
      BY <2>2, <2>3, <3>1
    <3> QED
      BY <2>1, <3>2
  <2>5. IsInjective(Roots)
    BY <2>3, <2>4 DEF IsInjective
  <2> QED
    BY <2>2, <2>5 DEF RootList, Baseless
<1>5. Marks
  BY <1>3 DEF Marks
<1> QED
  BY <1>1, <1>2, <1>3, <1>4, <1>5 DEF Trees, Visiting, walking, Ways, found

LEMMA PushedNew ==
  ASSUME NEW s \in Seq(Class), NEW t \in Class, IsInjective(s)
  PROVE  /\ IsInjective(pushNew(s, t)) /\ Range(pushNew(s, t)) = Range(s) \cup {t}
         /\ Len(s) \in Nat /\ Len(pushNew(s, t)) \in {Len(s), Len(s) + 1}
         /\ \A a \in 1..Len(s) : pushNew(s, t)[a] = s[a]
<1>1. Len(s) \in Nat
  BY Members
<1>2. CASE t \in Range(s)
  BY <1>1, <1>2 DEF pushNew
<1>3. CASE t \notin Range(s)
  BY <1>3, Pushed, Distinct DEF pushNew
<1> QED
  BY <1>2, <1>3

(* a tree without children is never in another tree, nor is any tree of a  *)
(* class without bases                                                     *)
LEMMA NotBelow ==
  ASSUME Typed, ChildLists, NEW r \in Class, Baseless(r), NEW s \in Class, r \in descendants(s)
  PROVE  r = s
<1>1. s \in Above(r)
  BY Below
<1> QED
  BY <1>1, AboveBaseless

LEMMA RootListStep ==
  ASSUME Trees, [Next]_vars
  PROVE  RootList'
<1>1. /\ Typed /\ ChildLists /\ RootList /\ Roots \in Seq(Class)
      /\ Children \in [Class -> Seq(Class)]
  BY DEF Trees, Typed, TypeOK
<1>2. Parents' = Parents
  BY DEF vars, hierarchy, Next, extendTypeMetadata, setParentsChildrenRecursive,
         findDiamonds, findDiamondsRecursive, buildFakeVTables,
         buildFakeVTablesRecursive, removeDuplicates
<1>3. (\A r : Baseless(r)' <=> Baseless(r)) /\ (noDiamonds' <=> noDiamonds)
  BY <1>2 DEF Baseless, noDiamonds
<1>4. ASSUME UNCHANGED <<Roots, Children>>
      PROVE  RootList'
  BY <1>1, <1>3, <1>4 DEF RootList
<1>5. CASE setParentsChildrenRecursive
  <2>1. /\ Roots' = Roots
        /\ \/ Children' = Children
           \/ \E p \in Class, t \in Class : Children' = [Children EXCEPT ![p] = Append(@, t)]
    <3>1. PICK t \in Class :
           /\ Roots' = Roots
           /\ Children' = Children
              \/ \E p \in bases(Parents, t) : Children' = [Children EXCEPT ![p] = Append(@, t)]
      BY <1>1, <1>5, SetCases
    <3>2. bases(Parents, t) \subseteq Class
      BY <1>1, Bases DEF Typed
    <3> QED
      BY <3>1, <3>2
  <2>2. ASSUME NEW p \in Class, NEW t \in Class, Children' = [Children EXCEPT ![p] = Append(@, t)]
        PROVE  \A r \in Class : Children[r] # <<>> => Children'[r] # <<>>
    <3>1. Append(Children[p], t) # <<>>
      BY <1>1, Pushed
    <3> QED
      BY <1>1, <2>2, <3>1
  <2>3. Range(Roots) \subseteq Class
    BY <1>1, Members
  <2> QED
    BY <1>1, <1>3, <1>4, <2>1, <2>2, <2>3 DEF RootList
<1>6. CASE findDiamondsRecursive
  <2>1. PICK t \in Class :
              /\ UNCHANGED Children
              /\ \/ Roots' = Roots
                 \/ /\ Roots' = pushNew(Roots, t)
                    /\ ~noDiamonds /\ ~Baseless(t) /\ Children[t] # <<>>
    BY <1>1, <1>6, VisitStep DEF Trees
  <2>2. CASE Roots' = pushNew(Roots, t) /\ ~noDiamonds /\ Children[t] # <<>>
    <3>1. IsInjective(Roots') /\ Range(Roots') = Range(Roots) \cup {t}
      BY <1>1, <2>2, PushedNew DEF RootList
    <3> QED
      BY <1>1, <1>3, <2>1, <2>2, <3>1 DEF RootList
  <2> QED
    BY <1>4, <2>1, <2>2
<1>7. CASE removeDuplicates
  <2>1. ASSUME NEW r \in Class, pos \in 1..Len(Roots), r = Roots[pos], isDuplicate,
               Roots' = RemoveAt(Roots, pos), UNCHANGED Children
        PROVE  RootList'
    <3>1. IsInjective(Roots') /\ Range(Roots') = Range(Roots) \ {r}
      BY <1>1, <2>1, Removed DEF RootList
    <3>2. PICK a \in 1..Len(Roots) : a # pos /\ r \in descendants(Roots[a]) /\ r # Roots[a]
      BY <1>1, <2>1, RootEntries DEF isDuplicate, isSubtreeInTree
    <3>3. ~Baseless(r)
      BY <1>1, <3>2, NotBelow, RootEntries
    <3> QED
      BY <1>1, <1>3, <2>1, <3>1, <3>3 DEF RootList
  <2> QED
    BY <1>1, <1>4, <1>7, <2>1, RemoveCases
<1>8. CASE extendTypeMetadata
  BY <1>1, <1>4, <1>8, ExtendCases
<1>9. CASE findDiamonds
  BY <1>1, <1>4, <1>9, FindCases
<1>10. CASE buildFakeVTables
  BY <1>1, <1>4, <1>10, BuildCases
<1>11. CASE buildFakeVTablesRecursive
  BY <1>1, <1>4, <1>11, BuildRecursiveCases
<1>12. CASE UNCHANGED vars
  BY <1>4, <1>12 DEF vars
<1> QED
  BY <1>5, <1>6, <1>7, <1>8, <1>9, <1>10, <1>11, <1>12 DEF Next

(* what the steps of the passes after the search leave alone *)
LEMMA LaterSteps ==
  ASSUME Typed, buildFakeVTables \/ buildFakeVTablesRecursive \/ removeDuplicates
  PROVE  /\ pc \in {"buildFakeVTables", "removeDuplicates"}
         /\ pc' \in {"buildFakeVTables", "removeDuplicates", "done"}
         /\ pc = "removeDuplicates" => pc' # "buildFakeVTables"
         /\ UNCHANGED <<Parents, phantom, Children, Diamonds, type, Descendents>>
         /\ pc = "buildFakeVTables" => Roots' = Roots
<1>1. CASE buildFakeVTables
  BY <1>1, BuildCases
<1>2. CASE buildFakeVTablesRecursive
  BY <1>2, BuildRecursiveCases
<1>3. CASE removeDuplicates
  BY <1>3, RemoveCases
<1> QED
  BY <1>1, <1>2, <1>3

LEMMA MarksStep ==
  ASSUME Trees, [Next]_vars
  PROVE  Marks' /\ Visiting'
<1>1. /\ Typed /\ ChildLists /\ RootList /\ Marks /\ Visiting /\ Roots \in Seq(Class)
      /\ Diamonds \in [Class -> SUBSET (Class \X Class)]
      /\ pos \in Nat \ {0} /\ Len(Roots) \in Nat
  BY LenProperties DEF Trees, Typed, TypeOK
<1>2. Parents' = Parents
  BY DEF vars, hierarchy, Next, extendTypeMetadata, setParentsChildrenRecursive,
         findDiamonds, findDiamondsRecursive, buildFakeVTables,
         buildFakeVTablesRecursive, removeDuplicates
<1>3. (\A r : Baseless(r)' <=> Baseless(r)) /\ (noDiamonds' <=> noDiamonds)
  BY <1>2 DEF Baseless, noDiamonds
<1>4. CASE extendTypeMetadata \/ setParentsChildrenRecursive
  <2>1. /\ pc = "extendTypeMetadata" /\ UNCHANGED <<Diamonds, pos>>
        /\ pc' = pc \/ (pc' = "findDiamonds" /\ stack' = <<>>)
    BY <1>1, <1>4, ExtendCases, SetCases
  <2>2. \A t \in Class : Diamonds[t] = {}
    BY <1>1, <2>1 DEF Marks
  <2> QED
    BY <1>1, <2>1, <2>2 DEF Marks, Visiting, walking
<1>5. CASE findDiamonds
  <2>1. pc = "findDiamonds" /\ stack = <<>> /\ UNCHANGED <<Parents, Children, Roots, Diamonds>>
    BY <1>1, <1>5, FindCases
  <2>2. CASE pc' = "buildFakeVTables"
    BY <1>1, <1>3, <2>1, <2>2 DEF Marks, Visiting, walking
  <2>3. ASSUME NEW r \in Class, pos \in 1..Len(Roots), r = Roots[pos], pos' = pos + 1, pc' = pc,
               Descendents' = {r}, call(r)
        PROVE  Marks' /\ Visiting'
    <3>1. Visited(r)'
      BY <1>1, <2>1, <2>3, VisitStart
    <3>2. root' = r /\ Range(stack') = {r}
      <4>1. Range(<<>>) = {}
        BY DEF Range
      <4> QED
        BY <1>1, <2>1, <2>3, <4>1, Called
    <3>3. \A a : a \in 1..Len(Roots) /\ a < pos => a < pos'
      BY <1>1, <2>3
    <3>4. Marks'
      BY <1>1, <1>3, <2>1, <2>3, <3>3 DEF Marks
    <3>5. Visiting'
      BY <2>3, <3>1, <3>2 DEF Visiting
    <3> QED
      BY <3>4, <3>5
  <2> QED
    BY <1>1, <1>5, <2>2, <2>3, FindCases
<1>6. CASE findDiamondsRecursive
  <2>1. PICK t \in Class, r \in Class :
           /\ pc = "findDiamonds" /\ pc' = pc /\ stack # <<>> /\ r = root
           /\ UNCHANGED <<Parents, phantom, Children, TreeIndices, type, pos, k, Index>>
           /\ Visited(r)' /\ Range(stack') \subseteq Descendents'
           /\ stack' # <<>> => root' = r
           /\ \/ UNCHANGED <<Roots, Diamonds>>
              \/ /\ Roots' = pushNew(Roots, t)
                 /\ \E c \in Class : Diamonds' = [Diamonds EXCEPT ![t] = @ \cup {<<r, c>>}]
                 /\ ~noDiamonds /\ ~Baseless(t) /\ Children[t] # <<>>
    BY <1>1, <1>6, VisitStep
  <2>2. Visiting'
    BY <2>1 DEF Visiting, walking
  <2>3. CASE UNCHANGED <<Roots, Diamonds>>
    BY <1>1, <1>3, <2>1, <2>2, <2>3 DEF Marks
  <2>4. ASSUME Roots' = pushNew(Roots, t), ~noDiamonds, ~Baseless(t),
               NEW c \in Class, Diamonds' = [Diamonds EXCEPT ![t] = @ \cup {<<r, c>>}]
        PROVE  Marks'
    <3>1. /\ Len(Roots') \in {Len(Roots), Len(Roots) + 1}
          /\ \A a \in 1..Len(Roots) : Roots'[a] = Roots[a]
      BY <1>1, <2>4, PushedNew DEF RootList
    <3>2. pos - 1 \in 1..Len(Roots) /\ r = Roots[pos - 1] /\ pos - 1 < pos
      BY <1>1, <2>1 DEF Trees, Chain
    <3>3. ASSUME NEW u \in Class, NEW d \in Diamonds'[u]
          PROVE  ~Baseless(u) /\ \E a \in 1..Len(Roots) : a < pos /\ d[1] = Roots[a]
      <4>1. CASE d \in Diamonds[u]
        BY <1>1, <2>1, <4>1 DEF Marks
      <4>2. CASE d \notin Diamonds[u]
        <5>1. u = t /\ d = <<r, c>>
          BY <1>1, <2>4, <3>3, <4>2
        <5> QED
          BY <2>4, <3>2, <5>1
      <4> QED
        BY <4>1, <4>2
    <3>4. ASSUME NEW u \in Class, NEW d \in Diamonds'[u]
          PROVE  \E a \in 1..Len(Roots') : a < pos' /\ d[1] = Roots'[a]
      <4>1. PICK a \in 1..Len(Roots) : a < pos /\ d[1] = Roots[a]
        BY <3>3, <3>4
      <4>2. a \in 1..Len(Roots')
        BY <1>1, <3>1
      <4> QED
        BY <2>1, <3>1, <4>1, <4>2
    <3> QED
      BY <1>3, <2>1, <2>4, <3>3, <3>4 DEF Marks
  <2> QED
    BY <2>1, <2>2, <2>3, <2>4
<1>7. CASE buildFakeVTables \/ buildFakeVTablesRecursive \/ removeDuplicates
  BY <1>1, <1>3, <1>7, LaterSteps DEF Marks, Visiting, walking
<1>8. CASE UNCHANGED vars
  BY <1>1, <1>3, <1>8
     DEF vars, hierarchy, walk, Marks, Visiting, walking, Visited, root, Above
<1> QED
  BY <1>4, <1>5, <1>6, <1>7, <1>8 DEF Next

LEMMA WaysStep ==
  ASSUME Trees, [Next]_vars
  PROVE  Ways'
<1>1. /\ Typed /\ Chain /\ ChildLists /\ RootList /\ Ways /\ Roots \in Seq(Class)
      /\ Diamonds \in [Class -> SUBSET (Class \X Class)]
      /\ pos \in Nat \ {0} /\ Len(Roots) \in Nat /\ isHierarchy(Parents)
  BY LenProperties DEF Trees, Typed, TypeOK
<1>2. Parents' = Parents
  BY DEF vars, hierarchy, Next, extendTypeMetadata, setParentsChildrenRecursive,
         findDiamonds, findDiamondsRecursive, buildFakeVTables,
         buildFakeVTablesRecursive, removeDuplicates
<1>3. \A c : Above(c)' = Above(c)
  BY <1>2 DEF Above
<1>4. ASSUME UNCHANGED <<Roots, Diamonds>>, \A a \in 1..Len(Roots) : found(a)' => found(a)
      PROVE  Ways'
  BY <1>1, <1>2, <1>3, <1>4 DEF Ways, way
<1>5. CASE extendTypeMetadata \/ setParentsChildrenRecursive
  <2>1. /\ pc = "extendTypeMetadata" /\ pos' = 1
        /\ pc' \in {"extendTypeMetadata", "findDiamonds"}
    BY <1>1, <1>5, ExtendCases, SetCases DEF Trees, Marks
  <2>2. \A a : a \in 1..Len(Roots') => ~found(a)'
    <3>1. \A n, a : a \in 1..n => ~(a < 1)
      OBVIOUS
    <3> QED
      BY <2>1, <3>1 DEF found
  <2> QED
    BY <2>2 DEF Ways
<1>6. CASE findDiamonds
  <2>1. pc = "findDiamonds" /\ stack = <<>> /\ UNCHANGED <<Roots, Diamonds>>
    BY <1>1, <1>6, FindCases
  <2>2. CASE pos > Len(Roots)
    <3>1. \A a \in 1..Len(Roots) : found(a)
      BY <1>1, <2>1, <2>2 DEF found
    <3> QED
      BY <1>4, <2>1, <3>1
  <2>3. CASE ~(pos > Len(Roots))
    <3>1. pos' = pos + 1 /\ pc' = pc /\ \E r \in Class : call(r)
      BY <1>1, <1>6, <2>3, FindCases
    <3>2. stack' # <<>>
      BY <1>1, <3>1, Called
    <3>3. \A a \in 1..Len(Roots) : found(a)' => found(a)
      BY <1>1, <2>1, <3>1, <3>2 DEF found
    <3> QED
      BY <1>4, <2>1, <3>3
  <2> QED
    BY <2>2, <2>3
<1>7. CASE findDiamondsRecursive
  <2>1. PICK t \in Class, r \in Class :
           /\ pc = "findDiamonds" /\ pc' = pc /\ stack # <<>> /\ r = root
           /\ UNCHANGED <<Children, pos>>
           /\ Visited(r)'
           /\ \/ UNCHANGED <<Roots, Diamonds>>
              \/ /\ Roots' = pushNew(Roots, t)
                 /\ \E c \in Class : Diamonds' = [Diamonds EXCEPT ![t] = @ \cup {<<r, c>>}]
    BY <1>1, <1>7, VisitStep DEF Trees
  <2>2. pos - 1 \in 1..Len(Roots) /\ r = Roots[pos - 1]
    BY <1>1, <2>1 DEF Chain
  <2>3. \A a \in 1..Len(Roots) : Roots'[a] = Roots[a]
    BY <1>1, <2>1, PushedNew DEF RootList
  <2>4. \A u \in Class : \A d \in Diamonds'[u] : d \in Diamonds[u] \/ d[1] = r
    BY <1>1, <2>1
  <2>5. ASSUME NEW c \in Class, r \in Above(c), c # r
        PROVE  way(r, c)'
    <3>1. CASE c \in Descendents'
      <4>1. PICK u \in Descendents' : \E j \in 1..Len(Children[u]) :
               Children[u][j] = c /\ <<r, c>> \notin Diamonds'[u]
        BY <2>1, <2>5, <3>1 DEF Visited
      <4>2. u \in Class /\ r \in Above(u)
        <5>1. Typed'
          BY <1>1, TypedStep
        <5> QED
          BY <1>3, <2>1, <4>1, <5>1 DEF Visited, Typed, TypeOK
      <4>3. u \in bases(Parents, c)
        BY <1>1, <4>1, <4>2, Entries DEF ChildLists
      <4> QED
        BY <1>2, <1>3, <4>1, <4>2, <4>3 DEF way
    <3>2. CASE c \notin Descendents'
      <4>1. PICK b \in bases(Parents, c) : r \in Above(b)
        BY <1>1, <2>5, Ancestors DEF Above
      <4>2. b \in Class /\ <<r, c>> \notin Diamonds'[b]
        BY <1>1, <2>1, <3>2, <4>1, Bases DEF Visited
      <4> QED
        BY <1>2, <1>3, <4>1, <4>2 DEF way
    <3> QED
      BY <3>1, <3>2
  <2>6. ASSUME NEW a \in 1..Len(Roots'), found(a)', NEW c \in Class, NEW s, s = Roots'[a],
               s \in Above(c), c # s
        PROVE  way(s, c)'
    <3>1. a <= pos - 1 /\ a \in 1..Len(Roots) /\ a < pos
      BY <1>1, <2>1, <2>2, <2>6 DEF found
    <3>2. CASE a = pos - 1
      BY <2>2, <2>3, <2>5, <2>6, <3>2
    <3>3. CASE a # pos - 1
      <4>1. found(a) /\ s = Roots[a]
        BY <2>1, <2>3, <2>6, <3>1, <3>3 DEF found
      <4>2. PICK b \in bases(Parents, c) : s \in Above(b) /\ <<s, c>> \notin Diamonds[b]
        BY <1>1, <2>6, <3>1, <4>1 DEF Ways, way
      <4>3. s # r
        BY <1>1, <4>1, <2>2, <3>1, <3>3, RootEntries DEF RootList, IsInjective
      <4>4. b \in Class
        BY <1>1, Bases
      <4>5. <<s, c>> \notin Diamonds'[b]
        BY <2>4, <4>2, <4>3, <4>4
      <4> QED
        BY <1>2, <1>3, <4>1, <4>2, <4>5 DEF way
    <3> QED
      BY <3>2, <3>3
  <2> QED
    BY <1>3, <2>6 DEF Ways
<1>8. CASE buildFakeVTables \/ buildFakeVTablesRecursive \/ removeDuplicates
  <2>1. CASE pc = "buildFakeVTables"
    <3>1. \A a : found(a)
      BY <2>1 DEF found
    <3> QED
      BY <1>1, <1>4, <1>8, <2>1, <3>1, LaterSteps
  <2>2. CASE pc # "buildFakeVTables"
    <3>1. \A a : ~found(a)'
      BY <1>1, <1>8, <2>2, LaterSteps DEF found
    <3> QED
      BY <3>1 DEF Ways
  <2> QED
    BY <2>1, <2>2
<1>9. CASE UNCHANGED vars
  BY <1>4, <1>9 DEF vars, walk, found
<1> QED
  BY <1>5, <1>6, <1>7, <1>8, <1>9 DEF Next

LEMMA TreesStep ==
  ASSUME Trees, [Next]_vars
  PROVE  Trees'
BY TypedStep, ChainStep, ListsStep, RootListStep, MarksStep, WaysStep DEF Trees

(* The assertions of the pass never fail: no class is added twice to a     *)
(* list of children, no root twice to the list of roots, and a root that   *)
(* is found in another root's tree has children.                           *)
THEOREM NoFailedAssertion == Spec => []AssertionsHold
<1>1. Init => Trees
  BY TreesInit
<1>2. Trees /\ [Next]_vars => Trees'
  BY TreesStep
<1>3. Trees => AssertionsHold
  <2> SUFFICES ASSUME Trees
               PROVE  AssertionsHold
    OBVIOUS
  <2>1. Typed /\ ChildLists /\ RootList
    BY DEF Trees
  <2>2. ASSUME NEW r \in Range(Roots), NEW s \in Range(Roots), r # s, Children[r] = <<>>
        PROVE  r \notin descendants(s)
    <3>1. r \in Class /\ s \in Class /\ Baseless(r)
      BY <2>1, <2>2, RootEntries DEF RootList
    <3> QED
      BY <2>1, <2>2, <3>1, NotBelow
  <2> QED
    BY <2>1, <2>2 DEF AssertionsHold, ChildLists, RootList
<1> QED
  BY <1>1, <1>2, <1>3, PTL DEF Spec

(* Numbers grow: a number is given twice to a phantom below a mark only,   *)
(* and without diamonds there are no marks.                                *)

apart == phantom = {} \/ noDiamonds

Numbers ==
  apart =>
    /\ \A c, r \in Class : numbered(c, r) => TreeIndices[c][r] < Index
    /\ NumbersDistinct

LEMMA NumbersInit ==
  ASSUME Init
  PROVE  Numbers
<1>1. \A c, r \in Class : ~numbered(c, r)
  BY DEF Init, numbered
<1> QED
  BY <1>1 DEF Numbers, NumbersDistinct

LEMMA NumbersStep ==
  ASSUME Typed, Marks, Numbers, [Next]_vars
  PROVE  Numbers'
<1> SUFFICES ASSUME apart'
             PROVE  /\ \A c, r \in Class : numbered(c, r)' => TreeIndices'[c][r] < Index'
                    /\ \A c, d, r, s \in Class :
                         numbered(c, r)' /\ numbered(d, s)' /\ <<c, r>> # <<d, s>> =>
                           TreeIndices'[c][r] # TreeIndices'[d][s]
  BY DEF Numbers, NumbersDistinct, apart
<1>1. TypeOK
  BY DEF Typed
<1>2. phantom' = phantom /\ Parents' = Parents
  BY DEF vars, hierarchy, Next, extendTypeMetadata, setParentsChildrenRecursive,
         findDiamonds, findDiamondsRecursive, buildFakeVTables,
         buildFakeVTablesRecursive, removeDuplicates
<1>3. /\ \A c, r \in Class : numbered(c, r) => TreeIndices[c][r] < Index
      /\ \A c, d, r, s \in Class :
           numbered(c, r) /\ numbered(d, s) /\ <<c, r>> # <<d, s>> =>
             TreeIndices[c][r] # TreeIndices[d][s]
  BY <1>2 DEF Numbers, NumbersDistinct, apart, noDiamonds
<1>4. \A c, r \in Class : TreeIndices[c][r] \in Nat \cup {NoIndex}
  BY <1>1 DEF TypeOK
<1>5. ASSUME NEW c \in Class, NEW r \in Class, number(c, r, Index)
      PROVE  /\ \A d, s \in Class : numbered(d, s)' => TreeIndices'[d][s] < Index'
             /\ \A d, e, s, u \in Class :
                  numbered(d, s)' /\ numbered(e, u)' /\ <<d, s>> # <<e, u>> =>
                    TreeIndices'[d][s] # TreeIndices'[e][u]
  <2>1. Index \in Nat
    BY <1>1 DEF TypeOK
  <2>2. /\ \A d, s \in Class :
             TreeIndices'[d][s] = IF d = c /\ s = r THEN Index ELSE TreeIndices[d][s]
        /\ Index' = Index + 1
    BY <1>5, <2>1, NumberTyped
  <2>3. \A d, s \in Class : numbered(d, s)' /\ ~(d = c /\ s = r) =>
          numbered(d, s) /\ TreeIndices'[d][s] = TreeIndices[d][s]
    BY <2>2 DEF numbered
  <2>4. \A d, s \in Class : numbered(d, s)' => TreeIndices'[d][s] < Index'
    <3> SUFFICES ASSUME NEW d \in Class, NEW s \in Class, numbered(d, s)'
                 PROVE  TreeIndices'[d][s] < Index'
      OBVIOUS
    <3>1. CASE d = c /\ s = r
      BY <2>1, <2>2, <3>1
    <3>2. CASE ~(d = c /\ s = r)
      <4>1. TreeIndices'[d][s] < Index /\ TreeIndices[d][s] \in Nat \cup {NoIndex}
        BY <1>3, <1>4, <2>3, <3>2
      <4> QED
        BY <4>1, <1>4, <2>1, <2>2, <2>3, <3>2 DEF NoIndex
    <3> QED
      BY <3>1, <3>2
  <2>5. ASSUME NEW d \in Class, NEW e \in Class, NEW s \in Class, NEW u \in Class,
               numbered(d, s)', numbered(e, u)', <<d, s>> # <<e, u>>
        PROVE  TreeIndices'[d][s] # TreeIndices'[e][u]
    <3>1. CASE d = c /\ s = r
      <4>1. TreeIndices'[e][u] < Index /\ TreeIndices'[d][s] = Index
        BY <1>3, <2>2, <2>3, <2>5, <3>1
      <4> QED
        BY <4>1, <2>1
    <3>2. CASE e = c /\ u = r
      <4>1. TreeIndices'[d][s] < Index /\ TreeIndices'[e][u] = Index
        BY <1>3, <2>2, <2>3, <2>5, <3>2
      <4> QED
        BY <4>1, <2>1
    <3>3. CASE ~(d = c /\ s = r) /\ ~(e = c /\ u = r)
      BY <1>3, <2>3, <2>5, <3>3
    <3> QED
      BY <3>1, <3>2, <3>3
  <2> QED
    BY <2>4, <2>5
<1>6. ASSUME UNCHANGED <<TreeIndices, Index>>
      PROVE  /\ \A c, r \in Class : numbered(c, r)' => TreeIndices'[c][r] < Index'
             /\ \A c, d, r, s \in Class :
                  numbered(c, r)' /\ numbered(d, s)' /\ <<c, r>> # <<d, s>> =>
                    TreeIndices'[c][r] # TreeIndices'[d][s]
  BY <1>3, <1>6 DEF numbered
<1>7. CASE extendTypeMetadata
  BY <1>6, <1>7 DEF extendTypeMetadata
<1>8. CASE setParentsChildrenRecursive
  BY <1>6, <1>8 DEF setParentsChildrenRecursive
<1>9. CASE findDiamonds
  BY <1>6, <1>9 DEF findDiamonds
<1>10. CASE findDiamondsRecursive
  BY <1>6, <1>10 DEF findDiamondsRecursive
<1>11. CASE buildFakeVTables
  BY <1>5, <1>6, <1>11, BuildCases
<1>12. CASE buildFakeVTablesRecursive
  <2>1. \A u \in Class : \A c : ~sharesIndex(u, c)
    BY <1>2 DEF Marks, apart, noDiamonds, sharesIndex, isPhantomChild
  <2>2. PICK t \in Class :
             /\ t = current /\ stack # <<>>
             /\ \/ UNCHANGED <<TreeIndices, Index>>
                \/ \E c \in Range(Children[t]) :
                     /\ i[t] \in 1..Len(Children[t]) /\ c = Children[t][i[t]]
                     /\ number(c, root, IF sharesIndex(t, c) THEN Index - 1 ELSE Index)
    BY <1>12, BuildRecursiveCases
  <2>3. CASE UNCHANGED <<TreeIndices, Index>>
    BY <1>6, <2>3
  <2>4. ASSUME NEW c \in Range(Children[t]), i[t] \in 1..Len(Children[t]), c = Children[t][i[t]],
               number(c, root, IF sharesIndex(t, c) THEN Index - 1 ELSE Index)
        PROVE  number(c, root, Index) /\ c \in Class /\ root \in Class
    <3>1. (IF sharesIndex(t, c) THEN Index - 1 ELSE Index) = Index
      BY <2>1
    <3>2. c \in Class /\ root \in Class
      <4>1. i[t] <= Len(Children[t])
        BY <2>4, <1>1, Members DEF TypeOK
      <4> QED
        BY <2>2, <2>4, <4>1, Current
    <3> QED
      BY <2>4, <3>1, <3>2
  <2> QED
    BY <1>5, <2>2, <2>3, <2>4
<1>13. CASE removeDuplicates
  <2>1. UNCHANGED Index
    BY <1>13 DEF removeDuplicates
  <2>2. \A c, r \in Class : numbered(c, r)' =>
          numbered(c, r) /\ TreeIndices'[c][r] = TreeIndices[c][r]
    <3>1. CASE UNCHANGED TreeIndices
      BY <3>1 DEF numbered
    <3>2. ASSUME NEW s, TreeIndices' = removeTreeIndicesForRoot(s)
          PROVE  \A c, r \in Class : numbered(c, r)' =>
                   numbered(c, r) /\ TreeIndices'[c][r] = TreeIndices[c][r]
      <4> SUFFICES ASSUME NEW c \in Class, NEW r \in Class, numbered(c, r)'
                   PROVE  TreeIndices'[c][r] = TreeIndices[c][r]
        BY DEF numbered
      <4>1. TreeIndices[c] \in [Class -> Nat \cup {NoIndex}]
        BY <1>1 DEF TypeOK
      <4>2. TreeIndices'[c] = [TreeIndices[c] EXCEPT ![s] =
                                 IF c \in descendants(s) THEN NoIndex ELSE @]
        BY <3>2 DEF removeTreeIndicesForRoot
      <4>3. TreeIndices'[c][r] = IF r = s /\ c \in descendants(s) THEN NoIndex
                                 ELSE TreeIndices[c][r]
        BY <4>1, <4>2
      <4> QED
        BY <4>3 DEF numbered
    <3> QED
      BY <1>13, <3>1, <3>2, RemoveCases
  <2> QED
    BY <1>3, <2>1, <2>2
<1>14. CASE UNCHANGED vars
  BY <1>6, <1>14 DEF vars
<1> QED
  BY <1>7, <1>8, <1>9, <1>10, <1>11, <1>12, <1>13, <1>14 DEF Next

(* No number is given to two classes, nor to a class in two trees, in any  *)
(* program that does not have both phantoms and diamonds.                  *)
THEOREM NoNumberTwice == Spec => []NumbersDistinct
<1>1. Init => Trees /\ Numbers
  BY TreesInit, NumbersInit
<1>2. Trees /\ Numbers /\ [Next]_vars => (Trees /\ Numbers)'
  BY TreesStep, NumbersStep DEF Trees
<1>3. Numbers => NumbersDistinct
  BY DEF Numbers, NumbersDistinct, apart
<1> QED
  BY <1>1, <1>2, <1>3, PTL DEF Spec

-----------------------------------------------------------------------------
(* The walk that numbers the classes.                                      *)

LEMMA BuildStep ==
  ASSUME Typed, ChildLists, buildFakeVTablesRecursive
  PROVE  \E t, r \in Class :
           /\ t = current /\ r = root /\ t \in Range(stack) /\ stack # <<>>
           /\ pc = "buildFakeVTables" /\ pc' = pc
           /\ UNCHANGED <<Parents, phantom, Children, Roots, Diamonds, type, pos, Descendents>>
           /\ stack' # <<>> => root' = r
           /\ \/ /\ i[t] > Len(Children[t]) /\ return /\ UNCHANGED <<TreeIndices, Index>>
              \/ \E c \in Class :
                   /\ i[t] \in 1..Len(Children[t]) /\ c = Children[t][i[t]]
                   /\ k[t] >= descents(t, c)
                   /\ i' = [i EXCEPT ![t] = @ + 1] /\ k' = [k EXCEPT ![t] = 0]
                   /\ UNCHANGED <<stack, TreeIndices, Index>>
              \/ \E c \in Class, x \in Nat :
                   /\ i[t] \in 1..Len(Children[t]) /\ c = Children[t][i[t]]
                   /\ k[t] < descents(t, c) /\ t \in bases(Parents, c) /\ c # t
                   /\ call(c) /\ (Diamonds[t] = {} => x = Index)
                   /\ Index' = x + 1
                   /\ \A d, s \in Class :
                        TreeIndices'[d][s] = IF d = c /\ s = r THEN x ELSE TreeIndices[d][s]
                   /\ \A d, s \in Class :
                        numbered(d, s)' <=> numbered(d, s) \/ (d = c /\ s = r)
                   /\ \A d \in Class : /\ i'[d] = IF d = c THEN 1 ELSE i[d]
                                       /\ k'[d] = IF d = c THEN 0
                                                  ELSE IF d = t THEN k[t] + 1 ELSE k[d]
<1>1. PICK t \in Class :
           /\ t = current /\ stack # <<>> /\ pc = "buildFakeVTables" /\ pc' = pc
           /\ UNCHANGED <<Parents, phantom, Children, Roots, Diamonds, type, pos, Descendents>>
           /\ \/ i[t] > Len(Children[t]) /\ return /\ UNCHANGED <<TreeIndices, Index>>
              \/ \E c \in Range(Children[t]) :
                   /\ i[t] \in 1..Len(Children[t]) /\ c = Children[t][i[t]]
                   /\ k[t] >= descents(t, c)
                   /\ i' = [i EXCEPT ![t] = @ + 1] /\ k' = [k EXCEPT ![t] = 0]
                   /\ UNCHANGED <<stack, TreeIndices, Index>>
              \/ \E c \in Range(Children[t]) :
                   /\ i[t] \in 1..Len(Children[t]) /\ c = Children[t][i[t]]
                   /\ k[t] < descents(t, c)
                   /\ number(c, root, IF sharesIndex(t, c) THEN Index - 1 ELSE Index)
                   /\ i' = [i EXCEPT ![c] = 1]
                   /\ k' = [k EXCEPT ![t] = @ + 1, ![c] = 0]
  BY BuildRecursiveCases
<1>2. PICK r \in Class : r = root
  BY <1>1, Current
<1>3. /\ TypeOK /\ isHierarchy(Parents) /\ t \in Range(stack)
      /\ Index \in Nat \ {0} /\ i \in [Class -> Nat] /\ k \in [Class -> Nat]
      /\ Children[t] \in Seq(Class)
  BY <1>1, Current DEF Typed, TypeOK, Calls, walking
<1>4. \A c \in Range(Children[t]) : c \in Class /\ t \in bases(Parents, c) /\ c # t
  BY <1>3, Members, NoCycle DEF ChildLists
<1>5. CASE i[t] > Len(Children[t]) /\ return /\ UNCHANGED <<TreeIndices, Index>>
  <2>1. stack' # <<>> => root' = r
    BY <1>1, <1>2, <1>5, Returned
  <2> QED
    BY <1>1, <1>2, <1>3, <1>5, <2>1
<1>6. CASE \E c \in Range(Children[t]) :
                   /\ i[t] \in 1..Len(Children[t]) /\ c = Children[t][i[t]]
                   /\ k[t] >= descents(t, c)
                   /\ i' = [i EXCEPT ![t] = @ + 1] /\ k' = [k EXCEPT ![t] = 0]
                   /\ UNCHANGED <<stack, TreeIndices, Index>>
  <2>1. root' = r
    BY <1>2, <1>6 DEF root
  <2> QED
    BY <1>1, <1>2, <1>3, <1>4, <1>6, <2>1
<1>7. ASSUME NEW c \in Range(Children[t]),
             i[t] \in 1..Len(Children[t]), c = Children[t][i[t]],
             k[t] < descents(t, c),
             number(c, root, IF sharesIndex(t, c) THEN Index - 1 ELSE Index),
             i' = [i EXCEPT ![c] = 1],
             k' = [k EXCEPT ![t] = @ + 1, ![c] = 0]
      PROVE  \E x \in Nat :
                   /\ c \in Class /\ t \in bases(Parents, c) /\ c # t
                   /\ call(c) /\ (Diamonds[t] = {} => x = Index)
                   /\ Index' = x + 1
                   /\ \A d, s \in Class :
                        TreeIndices'[d][s] = IF d = c /\ s = r THEN x ELSE TreeIndices[d][s]
                   /\ \A d, s \in Class :
                        numbered(d, s)' <=> numbered(d, s) \/ (d = c /\ s = r)
                   /\ \A d \in Class : /\ i'[d] = IF d = c THEN 1 ELSE i[d]
                                       /\ k'[d] = IF d = c THEN 0
                                                  ELSE IF d = t THEN k[t] + 1 ELSE k[d]
                   /\ root' = r
  <2>1. PICK x : x = IF sharesIndex(t, c) THEN Index - 1 ELSE Index
    OBVIOUS
  <2>2. x \in Nat
    BY <1>3, <2>1
  <2>3. Diamonds[t] = {} => x = Index
    BY <2>1 DEF sharesIndex
  <2>4. c \in Class /\ number(c, r, x)
    BY <1>2, <1>4, <1>7, <2>1
  <2>5. /\ \A d, s \in Class :
             TreeIndices'[d][s] = IF d = c /\ s = r THEN x ELSE TreeIndices[d][s]
        /\ Index' = x + 1 /\ call(c)
    BY <2>2, <2>4, NumberTyped
  <2>6. \A d, s \in Class :
                        numbered(d, s)' <=> numbered(d, s) \/ (d = c /\ s = r)
    <3>1. x # NoIndex
      BY <2>2 DEF NoIndex
    <3> QED
      BY <2>5, <3>1 DEF numbered
  <2>7. \A d \in Class : /\ i'[d] = IF d = c THEN 1 ELSE i[d]
                         /\ k'[d] = IF d = c THEN 0
                                    ELSE IF d = t THEN k[t] + 1 ELSE k[d]
    BY <1>3, <1>7, <2>4, Counters
  <2>8. root' = r
    BY <1>1, <1>2, <2>4, <2>5, Called
  <2> QED
    BY <1>4, <2>2, <2>3, <2>5, <2>6, <2>7, <2>8
<1>8. CASE \E c \in Range(Children[t]) :
                   /\ i[t] \in 1..Len(Children[t]) /\ c = Children[t][i[t]]
                   /\ k[t] < descents(t, c)
                   /\ number(c, root, IF sharesIndex(t, c) THEN Index - 1 ELSE Index)
                   /\ i' = [i EXCEPT ![c] = 1]
                   /\ k' = [k EXCEPT ![t] = @ + 1, ![c] = 0]
  <2>1. PICK c \in Range(Children[t]) :
                   /\ i[t] \in 1..Len(Children[t]) /\ c = Children[t][i[t]]
                   /\ k[t] < descents(t, c)
                   /\ number(c, root, IF sharesIndex(t, c) THEN Index - 1 ELSE Index)
                   /\ i' = [i EXCEPT ![c] = 1]
                   /\ k' = [k EXCEPT ![t] = @ + 1, ![c] = 0]
    BY <1>8
  <2>2. PICK x \in Nat :
                   /\ c \in Class /\ t \in bases(Parents, c) /\ c # t
                   /\ call(c) /\ (Diamonds[t] = {} => x = Index)
                   /\ Index' = x + 1
                   /\ \A d, s \in Class :
                        TreeIndices'[d][s] = IF d = c /\ s = r THEN x ELSE TreeIndices[d][s]
                   /\ \A d, s \in Class :
                        numbered(d, s)' <=> numbered(d, s) \/ (d = c /\ s = r)
                   /\ \A d \in Class : /\ i'[d] = IF d = c THEN 1 ELSE i[d]
                                       /\ k'[d] = IF d = c THEN 0
                                                  ELSE IF d = t THEN k[t] + 1 ELSE k[d]
                   /\ root' = r
    BY <1>7, <2>1
  <2>3. /\ t = current /\ r = root /\ t \in Range(stack) /\ stack # <<>>
        /\ pc = "buildFakeVTables" /\ pc' = pc
        /\ UNCHANGED <<Parents, phantom, Children, Roots, Diamonds, type, pos, Descendents>>
        /\ stack' # <<>> => root' = r
    BY <1>1, <1>2, <1>3, <2>2
  <2>4. \E d \in Class, y \in Nat :
                   /\ i[t] \in 1..Len(Children[t]) /\ d = Children[t][i[t]]
                   /\ k[t] < descents(t, d) /\ t \in bases(Parents, d) /\ d # t
                   /\ call(d) /\ (Diamonds[t] = {} => y = Index)
                   /\ Index' = y + 1
                   /\ \A e, s \in Class :
                        TreeIndices'[e][s] = IF e = d /\ s = r THEN y ELSE TreeIndices[e][s]
                   /\ \A e, s \in Class :
                        numbered(e, s)' <=> numbered(e, s) \/ (e = d /\ s = r)
                   /\ \A e \in Class : /\ i'[e] = IF e = d THEN 1 ELSE i[e]
                                       /\ k'[e] = IF e = d THEN 0
                                                  ELSE IF e = t THEN k[t] + 1 ELSE k[e]
    <3>1. c \in Class
      BY <2>2
    <3> WITNESS c \in Class, x \in Nat
    <3> QED
      BY <2>1, <2>2
  <2> QED
    BY <2>3, <2>4
<1> QED
  BY <1>1, <1>5, <1>6, <1>8

LEMMA BuildStart ==
  ASSUME Typed, buildFakeVTables
  PROVE  /\ pc = "buildFakeVTables" /\ stack = <<>> /\ Range(stack) = {}
         /\ UNCHANGED <<Parents, phantom, Children, Roots, Diamonds, type, Descendents>>
         /\ \/ /\ pos > Len(Roots) /\ pc' = "removeDuplicates" /\ stack' = <<>>
               /\ UNCHANGED <<TreeIndices, Index>>
            \/ \E r \in Class :
                 /\ pos \in 1..Len(Roots) /\ r = Roots[pos] /\ pos' = pos + 1 /\ pc' = pc
                 /\ call(r) /\ root' = r /\ stack' # <<>> /\ Range(stack') = {r}
                 /\ Index' = Index + 1
                 /\ \A d, s \in Class :
                      TreeIndices'[d][s] = IF d = r /\ s = r THEN Index ELSE TreeIndices[d][s]
                 /\ \A d, s \in Class :
                      numbered(d, s)' <=> numbered(d, s) \/ (d = r /\ s = r)
                 /\ i'[r] = 1 /\ k'[r] = 0
<1>1. /\ pc = "buildFakeVTables" /\ stack = <<>> /\ Range(stack) = {}
      /\ UNCHANGED <<Parents, phantom, Children, Roots, Diamonds, type, Descendents>>
  BY BuildCases DEF Range
<1>2. /\ Index \in Nat /\ Index # NoIndex /\ i \in [Class -> Nat] /\ k \in [Class -> Nat]
  BY DEF Typed, TypeOK, NoIndex
<1>3. CASE pos > Len(Roots) /\ pc' = "removeDuplicates" /\ UNCHANGED <<TreeIndices, stack, Index>>
  BY <1>1, <1>3
<1>4. ASSUME NEW r \in Class,
             pos \in 1..Len(Roots), r = Roots[pos], pos' = pos + 1, pc' = pc,
             number(r, r, Index),
             i' = [i EXCEPT ![r] = 1], k' = [k EXCEPT ![r] = 0]
      PROVE  /\ call(r) /\ root' = r /\ stack' # <<>> /\ Range(stack') = {r}
             /\ Index' = Index + 1
             /\ \A d, s \in Class :
                  TreeIndices'[d][s] = IF d = r /\ s = r THEN Index ELSE TreeIndices[d][s]
             /\ \A d, s \in Class :
                  numbered(d, s)' <=> numbered(d, s) \/ (d = r /\ s = r)
             /\ i'[r] = 1 /\ k'[r] = 0
  <2>1. /\ \A d, s \in Class :
             TreeIndices'[d][s] = IF d = r /\ s = r THEN Index ELSE TreeIndices[d][s]
        /\ Index' = Index + 1 /\ call(r)
    BY <1>2, <1>4, NumberTyped
  <2>2. root' = r /\ stack' # <<>> /\ Range(stack') = {r}
    BY <1>1, <2>1, Called
  <2>3. i'[r] = 1 /\ k'[r] = 0
    BY <1>2, <1>4
  <2>4. \A d, s \in Class :
                  numbered(d, s)' <=> numbered(d, s) \/ (d = r /\ s = r)
    BY <1>2, <2>1 DEF numbered
  <2> QED
    BY <2>1, <2>2, <2>3, <2>4
<1>5. CASE \E r \in Class :
                 /\ pos \in 1..Len(Roots) /\ r = Roots[pos] /\ pos' = pos + 1 /\ pc' = pc
                 /\ number(r, r, Index)
                 /\ i' = [i EXCEPT ![r] = 1] /\ k' = [k EXCEPT ![r] = 0]
  BY <1>1, <1>4, <1>5
<1> QED
  BY <1>3, <1>5, BuildCases

(* numbers are dropped in the tree of a root that has bases only *)
LEMMA RemoveStep ==
  ASSUME Trees, removeDuplicates
  PROVE  /\ pc = "removeDuplicates" /\ pc' \in {"removeDuplicates", "done"}
         /\ UNCHANGED <<Parents, phantom, Children, Diamonds, Index>>
         /\ Range(Roots') \subseteq Range(Roots)
         /\ \/ UNCHANGED TreeIndices
            \/ \E r \in Class :
                 /\ ~Baseless(r) /\ r \in Range(Roots)
                 /\ \A d, s \in Class :
                      TreeIndices'[d][s] = IF s = r /\ d \in descendants(r) THEN NoIndex
                                           ELSE TreeIndices[d][s]
<1>1. /\ Typed /\ ChildLists /\ RootList /\ Roots \in Seq(Class)
      /\ TreeIndices \in [Class -> [Class -> Nat \cup {NoIndex}]]
  BY DEF Trees, Typed, TypeOK
<1>2. ASSUME NEW r \in Class, pos \in 1..Len(Roots), r = Roots[pos], isDuplicate,
             Roots' = RemoveAt(Roots, pos), TreeIndices' = removeTreeIndicesForRoot(r)
      PROVE  /\ ~Baseless(r) /\ r \in Range(Roots) /\ Range(Roots') \subseteq Range(Roots)
             /\ \A d, s \in Class :
                  TreeIndices'[d][s] = IF s = r /\ d \in descendants(r) THEN NoIndex
                                       ELSE TreeIndices[d][s]
  <2>1. Range(Roots') = Range(Roots) \ {r}
    BY <1>1, <1>2, Removed DEF RootList
  <2>2. PICK a \in 1..Len(Roots) : a # pos /\ r \in descendants(Roots[a]) /\ r # Roots[a]
    BY <1>1, <1>2, RootEntries DEF isDuplicate, isSubtreeInTree
  <2>3. ~Baseless(r) /\ r \in Range(Roots)
    BY <1>1, <1>2, <2>2, NotBelow, RootEntries
  <2>4. ASSUME NEW d \in Class, NEW s \in Class
        PROVE  TreeIndices'[d][s] = IF s = r /\ d \in descendants(r) THEN NoIndex
                                    ELSE TreeIndices[d][s]
    <3>1. TreeIndices[d] \in [Class -> Nat \cup {NoIndex}]
      BY <1>1
    <3>2. TreeIndices'[d] = [TreeIndices[d] EXCEPT ![r] =
                               IF d \in descendants(r) THEN NoIndex ELSE @]
      BY <1>2 DEF removeTreeIndicesForRoot
    <3> QED
      BY <3>1, <3>2
  <2> QED
    BY <2>1, <2>3, <2>4
<1>3. /\ pc = "removeDuplicates" /\ pc' \in {"removeDuplicates", "done"}
      /\ UNCHANGED <<Parents, phantom, Children, Diamonds, Index>>
      /\ \/ \E r \in Class :
              /\ pos \in 1..Len(Roots) /\ r = Roots[pos]
              /\ isDuplicate /\ Roots' = RemoveAt(Roots, pos)
              /\ TreeIndices' = removeTreeIndicesForRoot(r)
         \/ UNCHANGED <<Roots, TreeIndices>>
  BY <1>1, RemoveCases
<1> QED
  BY <1>2, <1>3

(* A tree that has not been built is empty; in the one that is being built *)
(* the children that the loops have passed are numbered, but for those at  *)
(* a marked edge; and one that has been built, for a class without bases,  *)
(* has all the classes derived from it.                                    *)
Fresh ==
  /\ pc \in {"extendTypeMetadata", "findDiamonds"} =>
       \A c, r \in Class : ~numbered(c, r)
  /\ pc = "buildFakeVTables" =>
       \A a \in 1..Len(Roots) : a >= pos => \A c \in Class : ~numbered(c, Roots[a])

passed(t, j) == t \notin Range(stack) \/ j < i[t] \/ (j = i[t] /\ k[t] # 0)

Closed(r) ==
  /\ numbered(r, r)
  /\ \A t \in Class : numbered(t, r) =>
       \A j \in 1..Len(Children[t]) :
         <<r, Children[t][j]>> \notin Diamonds[t] /\ passed(t, j)
           => numbered(Children[t][j], r)

Covered == walking("buildFakeVTables") /\ Baseless(root) => Closed(root)

finished(a) ==
  \/ pc \in {"removeDuplicates", "done"}
  \/ pc = "buildFakeVTables" /\ a < pos /\ (stack = <<>> \/ a # pos - 1)

Complete ==
  \A a \in 1..Len(Roots) : finished(a) /\ Baseless(Roots[a]) =>
    \A c \in Class : Roots[a] \in Above(c) => numbered(c, Roots[a])

LEMMA FreshStep ==
  ASSUME Trees, Fresh, [Next]_vars
  PROVE  Fresh'
<1>1. /\ Typed /\ Chain /\ RootList /\ ChildLists /\ pos \in Nat \ {0} /\ Len(Roots) \in Nat
  BY RootEntries DEF Trees
<1>2. CASE extendTypeMetadata \/ setParentsChildrenRecursive
  <2>1. /\ UNCHANGED TreeIndices /\ pc = "extendTypeMetadata" /\ pc' # "buildFakeVTables"
    BY <1>1, <1>2, ExtendCases, SetCases
  <2> QED
    BY <2>1 DEF Fresh, numbered
<1>3. CASE findDiamonds \/ findDiamondsRecursive
  <2>1. UNCHANGED TreeIndices /\ pc = "findDiamonds"
    BY <1>1, <1>3, FindCases, FindRecursiveCases
  <2>2. Typed'
    BY <1>1, TypedStep
  <2>3. \A a \in 1..Len(Roots') : Roots'[a] \in Class
    BY <2>2, Members DEF Typed, TypeOK
  <2> QED
    BY <2>1, <2>3 DEF Fresh, numbered
<1>4. CASE buildFakeVTables
  <2>1. CASE pc' = "removeDuplicates"
    BY <2>1 DEF Fresh
  <2>2. ASSUME NEW r \in Class, pos \in 1..Len(Roots), r = Roots[pos], pos' = pos + 1, pc' = pc,
               \A d, s \in Class :
                      numbered(d, s)' <=> numbered(d, s) \/ (d = r /\ s = r)
        PROVE  Fresh'
    <3>1. Roots' = Roots /\ pc = "buildFakeVTables"
      BY <1>1, <1>4, BuildStart
    <3>2. ASSUME NEW a \in 1..Len(Roots), a >= pos', NEW c \in Class, NEW s \in Class, s = Roots[a]
          PROVE  ~numbered(c, s)'
      <4>1. a # pos /\ a >= pos
        BY <1>1, <2>2, <3>2
      <4>2. s # r
        BY <1>1, <2>2, <3>2, <4>1, RootEntries DEF RootList, IsInjective
      <4> QED
        BY <2>2, <3>1, <3>2, <4>1, <4>2 DEF Fresh
    <3> QED
      BY <1>1, <2>2, <3>1, <3>2, RootEntries DEF Fresh
  <2> QED
    BY <1>1, <1>4, <2>1, <2>2, BuildStart
<1>5. CASE buildFakeVTablesRecursive
  <2>1. PICK t \in Class, r \in Class :
           /\ r = root /\ stack # <<>> /\ pc = "buildFakeVTables" /\ pc' = pc
           /\ UNCHANGED <<Roots, pos>>
           /\ \/ UNCHANGED TreeIndices
              \/ \E c \in Class :
                   \A d, s \in Class :
                        numbered(d, s)' <=> numbered(d, s) \/ (d = c /\ s = r)
    BY <1>1, <1>5, BuildStep
  <2>2. ASSUME NEW a \in 1..Len(Roots), a >= pos, NEW c \in Class, NEW s \in Class, s = Roots[a]
        PROVE  ~numbered(c, s)'
    <3>1. s # r
      <4>1. pos - 1 \in 1..Len(Roots) /\ r = Roots[pos - 1] /\ a # pos - 1
        BY <1>1, <2>1, <2>2 DEF Chain
      <4> QED
        BY <1>1, <2>2, <4>1, RootEntries DEF RootList, IsInjective
    <3>2. ~numbered(c, s)
      BY <2>1, <2>2 DEF Fresh
    <3> QED
      BY <2>1, <3>1, <3>2 DEF numbered
  <2> QED
    BY <1>1, <2>1, <2>2, RootEntries DEF Fresh
<1>6. CASE removeDuplicates
  <2>1. pc' \in {"removeDuplicates", "done"}
    BY <1>6, RemoveStep
  <2> QED
    BY <2>1 DEF Fresh
<1>7. CASE UNCHANGED vars
  BY <1>7 DEF vars, Fresh, numbered
<1> QED
  BY <1>2, <1>3, <1>4, <1>5, <1>6, <1>7 DEF Next

(* a walk over a tree without marks at the root *)
LEMMA ClosedStep ==
  ASSUME Trees, buildFakeVTablesRecursive, Covered, Baseless(root)
  PROVE  \E r \in Class :
           /\ r = root /\ stack # <<>> /\ pc = "buildFakeVTables" /\ pc' = pc
           /\ UNCHANGED <<Parents, Roots, Diamonds, pos>>
           /\ stack' # <<>> => root' = r
           /\ Closed(r)' /\ (stack' = <<>> => Range(stack') = {})
           /\ \A c, s \in Class : numbered(c, s) => numbered(c, s)'
<1>1. /\ Typed /\ ChildLists /\ Marks
      /\ i \in [Class -> Nat] /\ k \in [Class -> Nat]
  BY DEF Trees, Typed, TypeOK
<1>2. PICK t, r \in Class :
           /\ t = current /\ r = root /\ t \in Range(stack) /\ stack # <<>>
           /\ pc = "buildFakeVTables" /\ pc' = pc
           /\ UNCHANGED <<Parents, phantom, Children, Roots, Diamonds, type, pos, Descendents>>
           /\ stack' # <<>> => root' = r
           /\ \/ /\ i[t] > Len(Children[t]) /\ return /\ UNCHANGED <<TreeIndices, Index>>
              \/ \E c \in Class :
                   /\ i[t] \in 1..Len(Children[t]) /\ c = Children[t][i[t]]
                   /\ k[t] >= descents(t, c)
                   /\ i' = [i EXCEPT ![t] = @ + 1] /\ k' = [k EXCEPT ![t] = 0]
                   /\ UNCHANGED <<stack, TreeIndices, Index>>
              \/ \E c \in Class, x \in Nat :
                   /\ i[t] \in 1..Len(Children[t]) /\ c = Children[t][i[t]]
                   /\ k[t] < descents(t, c) /\ t \in bases(Parents, c) /\ c # t
                   /\ call(c) /\ (Diamonds[t] = {} => x = Index)
                   /\ Index' = x + 1
                   /\ \A d, s \in Class :
                        TreeIndices'[d][s] = IF d = c /\ s = r THEN x ELSE TreeIndices[d][s]
                   /\ \A d, s \in Class :
                        numbered(d, s)' <=> numbered(d, s) \/ (d = c /\ s = r)
                   /\ \A d \in Class : /\ i'[d] = IF d = c THEN 1 ELSE i[d]
                                       /\ k'[d] = IF d = c THEN 0
                                                  ELSE IF d = t THEN k[t] + 1 ELSE k[d]
  BY <1>1, BuildStep
<1>3. Closed(r) /\ Diamonds[r] = {} /\ Children' = Children /\ Diamonds' = Diamonds
  BY <1>1, <1>2 DEF Covered, walking, Marks
<1>4. \A u \in Class : \A j \in 1..Len(Children[u]) : Children[u][j] \in Class
  BY <1>1, Entries
<1>5. ASSUME UNCHANGED TreeIndices,
             \A u \in Class : \A j \in 1..Len(Children[u]) :
               <<r, Children[u][j]>> \notin Diamonds[u] /\ passed(u, j)' => passed(u, j)
      PROVE  Closed(r)' /\ \A c, s \in Class : numbered(c, s) => numbered(c, s)'
  BY <1>3, <1>5 DEF Closed, numbered
<1>6. CASE i[t] > Len(Children[t]) /\ return /\ UNCHANGED TreeIndices
  <2>1. i' = i /\ k' = k /\ Range(stack) = Range(stack') \cup {t}
    BY <1>1, <1>2, <1>6, Returned
  <2>2. ASSUME NEW u \in Class, NEW j \in 1..Len(Children[u]), passed(u, j)'
        PROVE  passed(u, j)
    <3>1. u # t \/ j < i[t]
      <4>1. Len(Children[t]) \in Nat /\ i[t] \in Nat
        BY <1>1, LenProperties DEF Typed, TypeOK
      <4> QED
        BY <1>6, <2>2, <4>1
    <3> QED
      BY <2>1, <2>2, <3>1 DEF passed
  <2> QED
    BY <1>2, <1>5, <1>6, <2>2 DEF Range
<1>7. ASSUME NEW c \in Class,
             i[t] \in 1..Len(Children[t]), c = Children[t][i[t]],
             k[t] >= descents(t, c),
             i' = [i EXCEPT ![t] = @ + 1], k' = [k EXCEPT ![t] = 0],
             UNCHANGED <<stack, TreeIndices, Index>>
      PROVE  Closed(r)' /\ \A d, s \in Class : numbered(d, s) => numbered(d, s)'
  <2>1. /\ \A u \in Class : i'[u] = IF u = t THEN i[t] + 1 ELSE i[u]
        /\ \A u \in Class : k'[u] = IF u = t THEN 0 ELSE k[u]
    BY <1>1, <1>7
  <2>2. ASSUME NEW u \in Class, NEW j \in 1..Len(Children[u]),
               <<r, Children[u][j]>> \notin Diamonds[u], passed(u, j)'
        PROVE  passed(u, j)
    <3>1. CASE u # t
      BY <1>7, <2>1, <2>2, <3>1 DEF passed
    <3>2. CASE u = t /\ j = i[t]
      <4>1. descents(t, c) = 1
        BY <1>2, <1>3, <1>7, <2>2, <3>2 DEF descents
      <4>2. k[t] # 0
        BY <1>1, <1>7, <4>1
      <4> QED
        BY <3>2, <4>2 DEF passed
    <3>3. CASE u = t /\ j # i[t]
      <4>1. j \in Int /\ i[t] \in Nat
        BY <1>1
      <4>2. (j < i[t] + 1 \/ (j = i[t] + 1 /\ 0 # 0)) => j < i[t]
        BY <3>3, <4>1
      <4> QED
        BY <1>2, <1>7, <2>1, <2>2, <3>3, <4>2 DEF passed
    <3> QED
      BY <3>1, <3>2, <3>3
  <2> QED
    BY <1>5, <1>7, <2>2
<1>8. ASSUME NEW c \in Class, NEW x \in Nat,
             i[t] \in 1..Len(Children[t]), c = Children[t][i[t]], c # t,
             call(c),
             \A d, s \in Class : numbered(d, s)' <=> numbered(d, s) \/ (d = c /\ s = r),
             \A d \in Class : /\ i'[d] = IF d = c THEN 1 ELSE i[d]
                              /\ k'[d] = IF d = c THEN 0
                                         ELSE IF d = t THEN k[t] + 1 ELSE k[d]
      PROVE  Closed(r)' /\ stack' # <<>>
  <2>1. Range(stack') = Range(stack) \cup {c} /\ stack' # <<>>
    BY <1>1, <1>8, Called
  <2>2. ASSUME NEW u \in Class, numbered(u, r)', NEW j \in 1..Len(Children[u]),
               <<r, Children[u][j]>> \notin Diamonds[u], passed(u, j)',
               Children[u][j] # c
        PROVE  numbered(Children[u][j], r)
    <3>1. u # c
      <4>1. j \in Int /\ j >= 1 /\ ~(j < 1)
        OBVIOUS
      <4> QED
        BY <1>8, <2>1, <2>2, <4>1 DEF passed
    <3>2. passed(u, j)
      BY <1>8, <2>1, <2>2, <3>1 DEF passed
    <3> QED
      BY <1>3, <1>8, <2>2, <3>1, <3>2 DEF Closed
  <2>3. \A u \in Class : numbered(u, r)' => \A j \in 1..Len(Children[u]) :
          <<r, Children[u][j]>> \notin Diamonds[u] /\ passed(u, j)' => numbered(Children[u][j], r)'
    <3> SUFFICES ASSUME NEW u \in Class, numbered(u, r)', NEW j \in 1..Len(Children[u]),
                        <<r, Children[u][j]>> \notin Diamonds[u], passed(u, j)',
                        NEW d \in Class, d = Children[u][j]
                 PROVE  numbered(d, r)'
      BY <1>3, <1>4
    <3> QED
      BY <1>8, <2>2
  <2>4. numbered(r, r)'
    BY <1>3, <1>8 DEF Closed
  <2> QED
    BY <1>3, <2>1, <2>3, <2>4 DEF Closed
<1>9. CASE \E c \in Class :
                   /\ i[t] \in 1..Len(Children[t]) /\ c = Children[t][i[t]]
                   /\ k[t] >= descents(t, c)
                   /\ i' = [i EXCEPT ![t] = @ + 1] /\ k' = [k EXCEPT ![t] = 0]
                   /\ UNCHANGED <<stack, TreeIndices, Index>>
  BY <1>2, <1>7, <1>9
<1>10. CASE \E c \in Class, x \in Nat :
                   /\ i[t] \in 1..Len(Children[t]) /\ c = Children[t][i[t]]
                   /\ c # t
                   /\ call(c)
                   /\ \A d, s \in Class :
                        numbered(d, s)' <=> numbered(d, s) \/ (d = c /\ s = r)
                   /\ \A d \in Class : /\ i'[d] = IF d = c THEN 1 ELSE i[d]
                                       /\ k'[d] = IF d = c THEN 0
                                                  ELSE IF d = t THEN k[t] + 1 ELSE k[d]
  <2>1. Closed(r)' /\ stack' # <<>> /\ \A d, s \in Class : numbered(d, s) => numbered(d, s)'
    BY <1>8, <1>10
  <2> QED
    BY <1>2, <2>1
<1> QED
  BY <1>2, <1>6, <1>9, <1>10

(* Classes that contain the root, and a class whenever they contain a base *)
(* of it that is below the root, contain all classes below the root.       *)
LEMMA Spread ==
  ASSUME NEW h, isHierarchy(h), NEW r \in Class, NEW N, r \in N,
         \A c \in Class : r \in ancestors(h, c) /\ c # r =>
           \E t \in bases(h, c) : r \in ancestors(h, t) /\ (t \in N => c \in N)
  PROVE  \A c \in Class : r \in ancestors(h, c) => c \in N
<1> DEFINE U == {c \in Class : r \in ancestors(h, c) /\ c \notin N}
<1>1. ASSUME U # {}
      PROVE  FALSE
  <2>1. U \in (SUBSET Class) \ {{}}
    BY <1>1
  <2>2. PICK c \in U : \A p \in U : p \notin bases(h, c)
    BY <2>1 DEF isHierarchy, acyclic
  <2>3. PICK t \in bases(h, c) : r \in ancestors(h, t) /\ (t \in N => c \in N)
    BY <2>2
  <2>4. t \in Class
    BY <2>2, Bases
  <2> QED
    BY <2>2, <2>3, <2>4
<1> QED
  BY <1>1

LEMMA CompleteStep ==
  ASSUME Trees, Fresh, Covered, Complete, [Next]_vars
  PROVE  Covered' /\ Complete'
<1>1. /\ Typed /\ Chain /\ RootList /\ ChildLists /\ Marks /\ Ways
      /\ pos \in Nat \ {0} /\ Len(Roots) \in Nat
      /\ \A a \in 1..Len(Roots) : Roots[a] \in Class
  BY RootEntries DEF Trees
<1>2. Parents' = Parents
  BY DEF vars, hierarchy, Next, extendTypeMetadata, setParentsChildrenRecursive,
         findDiamonds, findDiamondsRecursive, buildFakeVTables,
         buildFakeVTablesRecursive, removeDuplicates
<1>3. (\A r : Baseless(r)' <=> Baseless(r)) /\ (\A c : Above(c)' = Above(c))
  BY <1>2 DEF Baseless, Above
<1>4. ASSUME UNCHANGED Roots, \A a \in 1..Len(Roots) : finished(a)' => finished(a),
             \A c, s \in Class : numbered(c, s) => numbered(c, s)'
      PROVE  Complete'
  <2> SUFFICES ASSUME NEW a \in 1..Len(Roots), finished(a), NEW r \in Class, r = Roots[a],
                      Baseless(r), NEW c \in Class, r \in Above(c)
               PROVE  numbered(c, r)'
    BY <1>1, <1>3, <1>4 DEF Complete
  <2> QED
    BY <1>4 DEF Complete
<1>5. CASE extendTypeMetadata \/ setParentsChildrenRecursive
           \/ findDiamonds \/ findDiamondsRecursive
  <2>1. /\ pc \in {"extendTypeMetadata", "findDiamonds"}
        /\ \/ pc' \in {"extendTypeMetadata", "findDiamonds"}
           \/ pc' = "buildFakeVTables" /\ pos' = 1 /\ stack' = <<>>
    BY <1>1, <1>5, ExtendCases, SetCases, FindCases, FindRecursiveCases
  <2>2. \A n, a : a \in 1..n => ~(a < 1)
    OBVIOUS
  <2>3. \A a \in 1..Len(Roots') : ~finished(a)'
    BY <2>1, <2>2 DEF finished
  <2> QED
    BY <2>1, <2>3 DEF Covered, Complete, walking
<1>6. CASE buildFakeVTables
  <2>1. pc = "buildFakeVTables" /\ stack = <<>> /\ Range(stack) = {}
        /\ UNCHANGED <<Parents, Children, Roots, Diamonds>>
    BY <1>1, <1>6, BuildStart
  <2>2. CASE pos > Len(Roots) /\ pc' = "removeDuplicates" /\ UNCHANGED TreeIndices
    <3>1. \A a \in 1..Len(Roots) : finished(a)
      BY <1>1, <2>1, <2>2 DEF finished
    <3> QED
      BY <1>4, <2>1, <2>2, <3>1 DEF Covered, walking, numbered
  <2>3. ASSUME NEW r \in Class,
                 pos \in 1..Len(Roots), r = Roots[pos], pos' = pos + 1, pc' = pc,
                 root' = r, stack' # <<>>, Range(stack') = {r},
                 \A d, s \in Class :
                      numbered(d, s)' <=> numbered(d, s) \/ (d = r /\ s = r),
                 i'[r] = 1, k'[r] = 0
        PROVE  Covered' /\ Complete'
    <3>1. Complete'
      <4>1. \A a \in 1..Len(Roots) : finished(a)' => finished(a)
        BY <1>1, <2>1, <2>3 DEF finished
      <4> QED
        BY <1>4, <2>1, <2>3, <4>1
    <3>2. \A c \in Class : ~numbered(c, r)
      BY <1>1, <2>1, <2>3 DEF Fresh
    <3>3. \A t \in Class : \A j \in 1..Len(Children[t]) : numbered(t, r)' => ~passed(t, j)'
      <4>1. \A n : \A j \in 1..n : ~(j < 1)
        OBVIOUS
      <4> QED
        BY <2>3, <3>2, <4>1 DEF passed
    <3>4. Closed(r)'
      BY <2>1, <2>3, <3>3 DEF Closed
    <3> QED
      BY <2>3, <3>1, <3>4 DEF Covered
  <2> QED
    BY <1>1, <1>6, <2>2, <2>3, BuildStart
<1>7. CASE buildFakeVTablesRecursive
  <2>1. PICK t, r \in Class :
           /\ r = root /\ stack # <<>>
           /\ pc = "buildFakeVTables" /\ pc' = pc
           /\ UNCHANGED <<Children, Roots, Diamonds, pos>>
           /\ stack' # <<>> => root' = r
           /\ \/ UNCHANGED TreeIndices
              \/ \E c \in Class :
                   \A d, s \in Class :
                        numbered(d, s)' <=> numbered(d, s) \/ (d = c /\ s = r)
    BY <1>1, <1>7, BuildStep
  <2>2. \A c, s \in Class : numbered(c, s) => numbered(c, s)'
    BY <2>1 DEF numbered
  <2>3. pos - 1 \in 1..Len(Roots) /\ r = Roots[pos - 1]
    BY <1>1, <2>1 DEF Chain
  <2>4. CASE ~Baseless(r)
    <3>1. Covered'
      BY <1>3, <2>1, <2>4 DEF Covered, walking
    <3>2. ASSUME NEW a \in 1..Len(Roots), finished(a)', NEW s \in Class, s = Roots[a],
                 Baseless(s), NEW c \in Class, s \in Above(c)
          PROVE  numbered(c, s)'
      <4>1. finished(a)
        BY <2>1, <2>3, <2>4, <3>2 DEF finished
      <4> QED
        BY <2>2, <3>2, <4>1 DEF Complete
    <3> QED
      BY <1>1, <1>3, <2>1, <3>1, <3>2 DEF Complete
  <2>5. CASE Baseless(r)
    <3>1. Closed(r)' /\ (stack' = <<>> => Range(stack') = {})
      BY <1>7, <2>1, <2>5, ClosedStep
    <3>2. Covered'
      BY <2>1, <3>1 DEF Covered, walking
    <3>3. ASSUME stack' = <<>>
          PROVE  \A c \in Class : r \in Above(c) => numbered(c, r)'
      <4>1. Typed' /\ ChildLists' /\ Ways'
        BY TreesStep DEF Trees
      <4>2. found(pos - 1)' /\ pos - 1 \in 1..Len(Roots') /\ r = Roots'[pos - 1]
        BY <2>1, <2>3 DEF found
      <4>3. \A c \in Class : r \in Above(c) /\ c # r =>
              \E b \in bases(Parents, c) : r \in Above(b) /\ <<r, c>> \notin Diamonds[b]
        BY <1>2, <1>3, <2>1, <4>1, <4>2 DEF Ways, way
      <4> DEFINE N == {c \in Class : numbered(c, r)'}
      <4>4. ASSUME NEW c \in Class, NEW u \in bases(Parents, c), <<r, c>> \notin Diamonds[u], u \in N
            PROVE  c \in N
        <5>1. u \in Class /\ Children[u] \in Seq(Class) /\ c \in Range(Children[u])
          BY <1>1, <2>1, <4>4, Bases DEF Typed, TypeOK, ChildLists
        <5>2. PICK j \in 1..Len(Children[u]) : Children[u][j] = c
          BY <5>1, Members
        <5>3. passed(u, j)'
          BY <3>1, <3>3 DEF passed
        <5> QED
          BY <2>1, <3>1, <4>4, <5>1, <5>2, <5>3 DEF Closed
      <4>5. r \in N
        BY <3>1 DEF Closed
      <4> HIDE DEF N
      <4>6. \A c \in Class : r \in Above(c) => c \in N
        <5>1. isHierarchy(Parents)
          BY <1>1 DEF Typed
        <5>2. \A c \in Class : r \in ancestors(Parents, c) /\ c # r =>
                \E u \in bases(Parents, c) : r \in ancestors(Parents, u) /\ (u \in N => c \in N)
          BY <4>3, <4>4 DEF Above
        <5> QED
          BY <4>5, <5>1, <5>2, Spread DEF Above
      <4> QED
        BY <4>6 DEF N
    <3>4. ASSUME NEW a \in 1..Len(Roots), finished(a)', NEW s \in Class, s = Roots[a],
                 Baseless(s), NEW c \in Class, s \in Above(c)
          PROVE  numbered(c, s)'
      <4>1. CASE a = pos - 1
        <5>1. stack' = <<>> /\ s = r
          BY <2>1, <2>3, <3>4, <4>1 DEF finished
        <5> QED
          BY <3>3, <3>4, <5>1
      <4>2. CASE a # pos - 1
        <5>1. finished(a)
          BY <2>1, <3>4, <4>2 DEF finished
        <5> QED
          BY <2>2, <3>4, <5>1 DEF Complete
      <4> QED
        BY <4>1, <4>2
    <3> QED
      BY <1>1, <1>3, <2>1, <3>2, <3>4 DEF Complete
  <2> QED
    BY <2>4, <2>5
<1>8. CASE removeDuplicates
  <2>1. /\ pc = "removeDuplicates" /\ pc' \in {"removeDuplicates", "done"}
        /\ Range(Roots') \subseteq Range(Roots)
        /\ \/ UNCHANGED TreeIndices
           \/ \E r \in Class :
                /\ ~Baseless(r)
                /\ \A d, s \in Class :
                      TreeIndices'[d][s] = IF s = r /\ d \in descendants(r) THEN NoIndex
                                           ELSE TreeIndices[d][s]
    BY <1>8, RemoveStep
  <2>2. \A c, s \in Class : Baseless(s) /\ numbered(c, s) => numbered(c, s)'
    BY <2>1 DEF numbered
  <2>3. ASSUME NEW a \in 1..Len(Roots'), NEW s, s = Roots'[a],
               Baseless(s), NEW c \in Class, s \in Above(c)
        PROVE  numbered(c, s)'
    <3>1. s \in Range(Roots)
      <4>1. Roots' \in Seq(Class)
        BY <1>1, TypedStep DEF Typed, TypeOK
      <4> QED
        BY <2>1, <2>3, <4>1, Members
    <3>2. PICK b \in 1..Len(Roots) : s = Roots[b]
      BY <1>1, <3>1, RootEntries
    <3>3. finished(b) /\ s \in Class
      BY <1>1, <2>1, <3>2 DEF finished
    <3> QED
      BY <2>2, <2>3, <3>2, <3>3 DEF Complete
  <2> QED
    BY <1>3, <2>1, <2>3 DEF Covered, walking, Complete
<1>9. CASE UNCHANGED vars
  <2>1. UNCHANGED <<pc, Parents, Children, Roots, Diamonds, TreeIndices, pos, stack, i, k>>
    BY <1>9 DEF vars, hierarchy, walk
  <2>2. Covered'
    BY <1>1, <1>3, <2>1 DEF Covered, walking, root, Closed, passed, numbered
  <2> QED
    BY <1>4, <2>1, <2>2 DEF finished, numbered
<1> QED
  BY <1>5, <1>6, <1>7, <1>8, <1>9 DEF Next

Traced == Trees /\ Fresh /\ Covered /\ Complete

LEMMA TracedInit ==
  ASSUME Init
  PROVE  Traced
<1>1. pc = "extendTypeMetadata" /\ \A c, r \in Class : ~numbered(c, r)
  BY DEF Init, numbered
<1> QED
  BY <1>1, TreesInit DEF Traced, Fresh, Covered, walking, Complete, finished

LEMMA TracedStep ==
  ASSUME Traced, [Next]_vars
  PROVE  Traced'
BY TreesStep, FreshStep, CompleteStep DEF Traced

(* the first bases lead to one class that has none *)
LEMMA PrimaryRoot ==
  ASSUME Typed, NEW c \in Class
  PROVE  /\ primaryRoot(c) \in Class /\ Baseless(primaryRoot(c))
         /\ primaryRoot(c) \in reach(firstBases, c) /\ primaryRoot(c) \in Above(c)
<1>1. isHierarchy(Parents)
  BY DEF Typed
<1>2. \A d \in Class : Parents[d] # <<>> => Parents[d][1] \in bases(Parents, d)
  <2> SUFFICES ASSUME NEW d \in Class, Parents[d] # <<>>
               PROVE  Parents[d][1] \in bases(Parents, d)
    OBVIOUS
  <2>1. Parents[d] \in Seq(Class)
    BY <1>1, Bases
  <2>2. Len(Parents[d]) \in Nat /\ Len(Parents[d]) # 0
    BY <2>1, EmptySeq, LenProperties
  <2>3. 1 \in 1..Len(Parents[d])
    BY <2>2
  <2> QED
    BY <1>1, <2>3, Bases
<1>3. firstBases \in Edges
  BY <1>1, <1>2, Bases DEF firstBases, Edges
<1> DEFINE S == reach(firstBases, c)
<1> HIDE DEF S
<1>4. /\ S \subseteq Class /\ c \in S
      /\ \A d \in S : Parents[d] # <<>> => Parents[d][1] \in S
  <2>1. \A d \in Class : Parents[d] # <<>> => <<d, Parents[d][1]>> \in firstBases
    BY DEF firstBases
  <2>2. \A e \in firstBases : e[1] \in S => e[2] \in S
    BY <1>3, Reach DEF S
  <2>3. S \subseteq Class /\ c \in S
    BY <1>3, Reach DEF S
  <2>4. ASSUME NEW d \in S, Parents[d] # <<>>
        PROVE  Parents[d][1] \in S
    <3>1. <<d, Parents[d][1]>> \in firstBases
      BY <2>1, <2>3, <2>4
    <3> QED
      BY <2>2, <3>1
  <2> QED
    BY <2>3, <2>4
<1>5. S \subseteq Above(c)
  <2>1. c \in Above(c)
    BY <1>1, Ancestors DEF Above
  <2>2. \A e \in firstBases : e[1] \in Above(c) => e[2] \in Above(c)
    <3> SUFFICES ASSUME NEW e \in firstBases, e[1] \in Above(c)
                 PROVE  e[2] \in Above(c)
      OBVIOUS
    <3>1. e[1] \in Class /\ e[2] \in bases(Parents, e[1])
      BY <1>2 DEF firstBases
    <3> QED
      BY <1>1, <3>1, Ancestors DEF Above
  <2> QED
    BY <1>3, <2>1, <2>2, Reach DEF S
<1>6. \E r \in S : Parents[r] = <<>>
  <2>1. S \in (SUBSET Class) \ {{}}
    BY <1>4
  <2>2. PICK r \in S : \A p \in S : p \notin bases(Parents, r)
    BY <1>1, <2>1 DEF isHierarchy, acyclic
  <2> QED
    BY <1>2, <1>4, <2>2
<1>7. (CHOOSE r \in S : Parents[r] = <<>>) \in S
      /\ Parents[CHOOSE r \in S : Parents[r] = <<>>] = <<>>
  BY <1>6
<1> QED
  BY <1>4, <1>5, <1>7 DEF S, primaryRoot, Baseless

(* When the pass is done, every object can be traced: its class has a      *)
(* number in the tree of the class without bases that lies at the start of *)
(* the object.  Neither diamonds nor the trees that are dropped lose it.   *)
THEOREM EveryObjectTraced == Spec => []ObjectsTraced
<1>1. Init => Traced
  BY TracedInit
<1>2. Traced /\ [Next]_vars => Traced'
  BY TracedStep
<1>3. Traced => ObjectsTraced
  <2> SUFFICES ASSUME Traced, pc = "done", NEW c \in Class
               PROVE  getFakeVPointer(c, c) # NoVPointer
    BY DEF ObjectsTraced
  <2>1. Typed /\ RootList /\ Complete
    BY DEF Traced, Trees
  <2> DEFINE r == primaryRoot(c)
  <2>2. r \in Class /\ Baseless(r) /\ r \in Above(c)
    BY <2>1, PrimaryRoot
  <2>3. PICK a \in 1..Len(Roots) : r = Roots[a]
    BY <2>1, <2>2, RootEntries DEF RootList
  <2>4. numbered(c, r)
    BY <2>1, <2>2, <2>3 DEF Complete, finished
  <2>5. getFakeVPointer(c, c) = [root |-> r, index |-> TreeIndices[c][r]]
    BY <2>4 DEF getFakeVPointer
  <2>6. r # 0
    BY <2>2, ClassAssumption
  <2> HIDE DEF r
  <2> QED
    BY <2>5, <2>6 DEF NoVPointer
<1> QED
  BY <1>1, <1>2, <1>3, PTL DEF Spec
=============================================================================
