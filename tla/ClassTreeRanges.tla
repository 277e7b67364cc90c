-------------------------- MODULE ClassTreeRanges ---------------------------
(***************************************************************************)
(* Proofs about the ranges that casts are checked with, for every class    *)
(* hierarchy without diamonds.                                             *)
(***************************************************************************)
EXTENDS ClassTreeProofs, FunctionTheorems

-----------------------------------------------------------------------------
(* Programs without diamonds: the bases of a class have no class above     *)
(* them in common, so that there is one way down from a root to a class.   *)

LEMMA OneWay ==
  ASSUME Typed, noDiamonds, NEW c \in Class,
         NEW t \in bases(Parents, c), NEW u \in bases(Parents, c),
         NEW r \in Class, r \in Above(t), r \in Above(u)
  PROVE  t = u
BY TwoWays

LEMMA NoMarks ==
  ASSUME Trees, noDiamonds
  PROVE  /\ \A t \in Class : Diamonds[t] = {} /\ \A c : descents(t, c) = 1
         /\ \A r \in Range(Roots) : Baseless(r)
<1>1. \A t \in Class : Diamonds[t] = {}
  BY DEF Trees, Marks
<1> QED
  BY <1>1 DEF Trees, RootList, descents

(* The classes between the root and the current class are on the stack.    *)
LEMMA OnStack ==
  ASSUME Typed, Chain, noDiamonds, pc \in {"findDiamonds", "buildFakeVTables"}, stack # <<>>,
         Baseless(root),
         NEW d \in Class, root \in Above(d), d \in Above(current)
  PROVE  d \in Range(stack)
<1>1. /\ isHierarchy(Parents) /\ stack \in Seq(Class) /\ root \in Class
  BY Current DEF Typed, TypeOK
<1>2. /\ Len(stack) \in Nat \ {0} /\ current = stack[Len(stack)] /\ root = stack[1]
  BY <1>1, Popped DEF current, root
<1>3. /\ \A j \in 1..Len(stack) : stack[j] \in Class /\ stack[j] \in Range(stack)
  BY <1>1, Members
<1>4. \A j \in 1..(Len(stack) - 1) : stack[j] \in bases(Parents, stack[j + 1])
  BY DEF Chain
<1>5. \A a, b \in 1..Len(stack) : a <= b => stack[a] \in Above(stack[b])
  BY <1>1, <1>4, Upwards
<1> DEFINE S == {n \in Nat : n + 1 \in 1..Len(stack) =>
                   \A x \in Class : root \in Above(x) /\ x \in Above(stack[n + 1])
                                    => x \in Range(stack)}
<1>6. 0 \in S
  <2> SUFFICES ASSUME NEW x \in Class, x \in Above(stack[1])
               PROVE  x \in Range(stack)
    BY <1>2
  <2>1. x = root
    BY <1>1, <1>2, AboveBaseless
  <2> QED
    BY <1>2, <1>3, <2>1
<1>7. ASSUME NEW n \in 0..Len(stack), n < Len(stack), n \in S
      PROVE  n + 1 \in S
  <2> SUFFICES ASSUME (n + 1) + 1 \in 1..Len(stack), NEW x \in Class,
                      root \in Above(x), x \in Above(stack[(n + 1) + 1])
               PROVE  x \in Range(stack)
    BY <1>7
  <2>1. /\ n + 1 \in 1..(Len(stack) - 1) /\ n + 1 \in 1..Len(stack) /\ 1 \in 1..Len(stack)
        /\ 1 <= n + 1
    BY <1>2
  <2> DEFINE c == stack[(n + 1) + 1]
             t == stack[n + 1]
  <2>2. c \in Class /\ t \in bases(Parents, c) /\ root \in Above(t) /\ c \in Range(stack)
    BY <1>2, <1>3, <1>4, <1>5, <2>1
  <2> HIDE DEF c, t
  <2>3. CASE x = c
    BY <2>2, <2>3
  <2>4. CASE x # c
    <3>1. PICK b \in bases(Parents, c) : x \in Above(b)
      BY <1>1, <2>2, <2>4, Ancestors DEF c, Above
    <3>2. b \in Class /\ root \in Above(b)
      <4>1. b \in Class
        BY <1>1, <2>2, <3>1, Bases
      <4>2. Above(x) \subseteq Above(b)
        BY <1>1, <3>1, <4>1, Ancestors DEF Above
      <4> QED
        BY <4>1, <4>2
    <3>3. b = t
      BY <1>1, <2>2, <3>2, OneWay
    <3> QED
      BY <1>7, <2>1, <3>1, <3>3 DEF t
  <2> QED
    BY <2>3, <2>4
<1> HIDE DEF S
<1>8. 0..Len(stack) \subseteq S
  BY <1>2, <1>6, <1>7, UpTo
<1>9. Len(stack) - 1 \in 0..Len(stack) /\ (Len(stack) - 1) + 1 = Len(stack)
      /\ Len(stack) \in 1..Len(stack)
  BY <1>2
<1> QED
  BY <1>2, <1>8, <1>9 DEF S

(* In a tree are classes below its root, which has no bases; each was come *)
(* to from a class in the tree.  The numbers of the classes below a class  *)
(* are a range: it is open as long as the class is on the stack.           *)
InTrees == \A c, r \in Class : numbered(c, r) => Baseless(r) /\ r \in Above(c)

Started(c, r) ==
  \E t \in Class :
    /\ numbered(t, r)
    /\ \E j \in 1..Len(Children[t]) :
         Children[t][j] = c /\ (j < i[t] \/ (j = i[t] /\ k[t] # 0))

Walked ==
  walking("buildFakeVTables") =>
    /\ Baseless(root)
    /\ \A c \in Range(stack) : numbered(c, root)
    /\ \A c \in Class : numbered(c, root) /\ c # root => Started(c, root)

under(c, r) == {TreeIndices[d][r] : d \in {d \in Class : numbered(d, r) /\ c \in Above(d)}}

open(c, r) == walking("buildFakeVTables") /\ r = root /\ c \in Range(stack)

Intervals ==
  \A c, r \in Class : numbered(c, r) =>
    /\ open(c, r) => under(c, r) = TreeIndices[c][r] .. Index - 1
    /\ \E e \in Nat : under(c, r) = TreeIndices[c][r] .. e

Ranges == noDiamonds => InTrees /\ Walked /\ Intervals

LEMMA UpClosed ==
  ASSUME Typed, ChildLists, noDiamonds, InTrees, NEW r \in Class, Baseless(r),
         \A x \in Class : numbered(x, r) /\ x # r => Started(x, r),
         NEW d \in Class, numbered(d, r), NEW c \in Class, c \in Above(d), r \in Above(c)
  PROVE  numbered(c, r)
<1>1. isHierarchy(Parents)
  BY DEF Typed
<1> DEFINE S == {x \in Class : r \in Above(x) => numbered(x, r)}
<1>2. ASSUME NEW x \in S, NEW b \in bases(Parents, x)
      PROVE  b \in S
  <2>1. b \in Class
    BY <1>1, <1>2, Bases
  <2> SUFFICES ASSUME r \in Above(b)
               PROVE  numbered(b, r)
    BY <2>1
  <2>2. x \in Class /\ numbered(x, r)
    <3>1. b \in Above(x) /\ Above(b) \subseteq Above(x)
      <4>1. x \in Above(x)
        BY <1>1, Ancestors DEF Above
      <4>2. b \in Above(x)
        BY <1>1, <1>2, <4>1, Ancestors DEF Above
      <4> QED
        BY <1>1, <4>2, Ancestors DEF Above
    <3> QED
      BY <3>1
  <2>3. x # r
    BY <1>2 DEF Baseless, bases, Range
  <2>4. PICK t \in Class : numbered(t, r) /\ \E j \in 1..Len(Children[t]) : Children[t][j] = x
    BY <2>2, <2>3 DEF Started
  <2>5. t \in bases(Parents, x) /\ r \in Above(t)
    <3>1. x \in Range(Children[t])
      BY <2>4, Entries
    <3> QED
      BY <2>4, <3>1 DEF ChildLists, InTrees
  <2>6. t = b
    BY <1>2, <2>2, <2>5, OneWay
  <2> QED
    BY <2>4, <2>6
<1>3. \A x \in S \cap Class : bases(Parents, x) \subseteq S
  BY <1>2
<1> HIDE DEF S
<1>4. d \in S
  BY DEF S
<1>5. Above(d) \subseteq S
  BY <1>1, <1>3, <1>4, Ancestors DEF Above
<1> QED
  BY <1>5 DEF S

(* a new number is below the classes above the new class *)
LEMMA NewNumber ==
  ASSUME Typed, NEW c \in Class, NEW r \in Class, ~numbered(c, r), Parents' = Parents,
         \A d, s \in Class :
           TreeIndices'[d][s] = IF d = c /\ s = r THEN Index ELSE TreeIndices[d][s],
         \A d, s \in Class : numbered(d, s)' <=> numbered(d, s) \/ (d = c /\ s = r)
  PROVE  /\ \A d, s \in Class : (s # r \/ d \notin Above(c)) => under(d, s)' = under(d, s)
         /\ \A d \in Class : d \in Above(c) => under(d, r)' = under(d, r) \cup {Index}
         /\ (\A d \in Class : numbered(d, r) => c \notin Above(d)) => under(c, r) = {}
<1>1. \A x : Above(x)' = Above(x)
  BY DEF Above
<1>2. ASSUME NEW d \in Class, NEW s \in Class, s # r \/ d \notin Above(c)
      PROVE  under(d, s)' = under(d, s)
  <2>1. ASSUME NEW x \in Class, d \in Above(x)
        PROVE  /\ numbered(x, s)' <=> numbered(x, s)
               /\ TreeIndices'[x][s] = TreeIndices[x][s]
    BY <1>2, <2>1
  <2>2. {x \in Class : numbered(x, s)' /\ d \in Above(x)} =
        {x \in Class : numbered(x, s) /\ d \in Above(x)}
    BY <2>1
  <2>3. under(d, s)' = {TreeIndices'[x][s] : x \in {x \in Class : numbered(x, s) /\ d \in Above(x)}}
    BY <1>1, <2>2 DEF under
  <2> QED
    BY <2>1, <2>3 DEF under
<1>3. ASSUME NEW d \in Class, d \in Above(c)
      PROVE  under(d, r)' = under(d, r) \cup {Index}
  <2>1. {x \in Class : numbered(x, r)' /\ d \in Above(x)} =
        {x \in Class : numbered(x, r) /\ d \in Above(x)} \cup {c}
    BY <1>3
  <2>2. under(d, r)' = {TreeIndices'[x][r] :
                          x \in {x \in Class : numbered(x, r) /\ d \in Above(x)} \cup {c}}
    BY <1>1, <2>1 DEF under
  <2>3. \A x \in {x \in Class : numbered(x, r) /\ d \in Above(x)} :
          TreeIndices'[x][r] = TreeIndices[x][r]
    OBVIOUS
  <2>4. TreeIndices'[c][r] = Index
    OBVIOUS
  <2> QED
    BY <2>2, <2>3, <2>4 DEF under
<1>4. (\A d \in Class : numbered(d, r) => c \notin Above(d)) => under(c, r) = {}
  BY DEF under
<1> QED
  BY <1>2, <1>3, <1>4

LEMMA IntervalsCall ==
  ASSUME Typed, Intervals, NEW c \in Class, NEW r \in Class, ~numbered(c, r), Parents' = Parents,
         \A d, s \in Class :
           TreeIndices'[d][s] = IF d = c /\ s = r THEN Index ELSE TreeIndices[d][s],
         \A d, s \in Class : numbered(d, s)' <=> numbered(d, s) \/ (d = c /\ s = r),
         Index' = Index + 1, root' = r,
         \A d \in Class : numbered(d, r) => c \notin Above(d),
         \A d \in Class : numbered(d, r) /\ d \in Above(c) => open(d, r),
         \A d \in Range(stack') : d \in Above(c)
  PROVE  Intervals'
<1>1. /\ Index \in Nat /\ TreeIndices \in [Class -> [Class -> Nat \cup {NoIndex}]]
  BY DEF Typed, TypeOK
<1>2. /\ \A d, s \in Class : (s # r \/ d \notin Above(c)) => under(d, s)' = under(d, s)
      /\ \A d \in Class : d \in Above(c) => under(d, r)' = under(d, r) \cup {Index}
      /\ under(c, r) = {}
  BY NewNumber
<1>3. c \in Above(c)
  BY Ancestors DEF Above, Typed
<1>4. ASSUME NEW d \in Class, NEW s \in Class, numbered(d, s)'
      PROVE  /\ open(d, s)' => under(d, s)' = TreeIndices'[d][s] .. Index' - 1
             /\ \E e \in Nat : under(d, s)' = TreeIndices'[d][s] .. e
  <2>1. CASE d = c /\ s = r
    <3>1. under(d, s)' = {Index} /\ TreeIndices'[d][s] = Index
      BY <1>2, <1>3, <2>1
    <3>2. {Index} = Index .. Index' - 1 /\ {Index} = Index .. Index
      BY <1>1
    <3> QED
      BY <1>1, <3>1, <3>2
  <2>2. CASE s = r /\ d # c /\ d \in Above(c)
    <3>1. numbered(d, r) /\ open(d, r) /\ TreeIndices'[d][r] = TreeIndices[d][r]
      BY <1>4, <2>2
    <3>2. under(d, r)' = (TreeIndices[d][r] .. Index - 1) \cup {Index}
      <4>1. under(d, r) = TreeIndices[d][r] .. Index - 1
        BY <3>1 DEF Intervals
      <4>2. under(d, r)' = under(d, r) \cup {Index}
        BY <1>2, <2>2
      <4> QED
        BY <4>1, <4>2
    <3>3. TreeIndices[d][r] \in Nat /\ TreeIndices[d][r] <= Index
      <4>1. TreeIndices[d][r] \in Nat
        BY <1>1, <3>1 DEF numbered
      <4>2. TreeIndices[d][r] \in under(d, r)
        <5>1. d \in Above(d)
          BY Ancestors DEF Above, Typed
        <5> QED
          BY <3>1, <5>1 DEF under
      <4>3. under(d, r) = TreeIndices[d][r] .. Index - 1
        BY <3>1 DEF Intervals
      <4>4. TreeIndices[d][r] \in TreeIndices[d][r] .. Index - 1
        BY <4>2, <4>3
      <4> QED
        BY <1>1, <4>1, <4>4
    <3>4. PICK x \in Nat : x = TreeIndices[d][r] /\ x <= Index
      BY <3>3
    <3>5. (x .. Index - 1) \cup {Index} = x .. Index /\ Index' - 1 = Index
      <4>1. \A n \in Nat : x <= n => (x .. n - 1) \cup {n} = x .. n /\ (n + 1) - 1 = n
        OBVIOUS
      <4> QED
        BY <1>1, <3>4, <4>1
    <3>6. under(d, r)' = TreeIndices'[d][r] .. Index
      BY <3>1, <3>2, <3>4, <3>5
    <3> QED
      BY <1>1, <2>2, <3>5, <3>6
  <2>3. CASE ~(s = r /\ d \in Above(c))
    <3>1. numbered(d, s) /\ TreeIndices'[d][s] = TreeIndices[d][s] /\ under(d, s)' = under(d, s)
      BY <1>2, <1>3, <1>4, <2>3
    <3>2. ~open(d, s)'
      BY <2>3 DEF open
    <3> QED
      BY <3>1, <3>2 DEF Intervals
  <2> QED
    BY <1>3, <2>1, <2>2, <2>3
<1> QED
  BY <1>4 DEF Intervals

(* a step of the walk over the tree of a root *)
LEMMA RangesWalk ==
  ASSUME Traced, noDiamonds, InTrees, Walked, Intervals, buildFakeVTablesRecursive
  PROVE  InTrees' /\ Walked' /\ Intervals'
<1>1. /\ Typed /\ Trees /\ Chain /\ ChildLists /\ isHierarchy(Parents) /\ TypeOK
      /\ i \in [Class -> Nat] /\ k \in [Class -> Nat] /\ stack \in Seq(Class)
      /\ Children \in [Class -> Seq(Class)]
      /\ noDiamonds /\ \A t \in Class : Diamonds[t] = {}
  BY NoMarks DEF Traced, Trees, Typed, TypeOK
<1>2. PICK t, r \in Class :
           /\ t = current /\ r = root /\ t \in Range(stack) /\ stack # <<>>
           /\ pc = "buildFakeVTables" /\ pc' = pc
           /\ UNCHANGED <<Parents, phantom, Children, Roots, Diamonds, type, pos, Descendents>>
           /\ stack' # <<>> => root' = r
           /\ \/ /\ i[t] > Len(Children[t]) /\ return /\ UNCHANGED <<TreeIndices, Index>>
              \/ \E c \in Class :
                   /\ i[t] \in 1..Len(Children[t]) /\ c = Children[t][i[t]]
                   /\ k[t] >= descents(t, c)
                   /\ i' = [i EXCEPT ![t] = @ + 1] /\ k' = [k EXCEPT ![t] = 0]
                   /\ UNCHANGED <<stack, TreeIndices, Index>>
              \/ \E c \in Class, x \in Nat :
                   /\ i[t] \in 1..Len(Children[t]) /\ c = Children[t][i[t]]
                   /\ k[t] < descents(t, c) /\ t \in bases(Parents, c) /\ c # t
                   /\ call(c) /\ (Diamonds[t] = {} => x = Index)
                   /\ Index' = x + 1
                   /\ \A d, s \in Class :
                        TreeIndices'[d][s] = IF d = c /\ s = r THEN x ELSE TreeIndices[d][s]
                   /\ \A d, s \in Class :
                        numbered(d, s)' <=> numbered(d, s) \/ (d = c /\ s = r)
                   /\ \A d \in Class : /\ i'[d] = IF d = c THEN 1 ELSE i[d]
                                       /\ k'[d] = IF d = c THEN 0
                                                  ELSE IF d = t THEN k[t] + 1 ELSE k[d]
  BY <1>1, BuildStep
<1>3. walking("buildFakeVTables") /\ open(t, r)
  BY <1>2 DEF walking, open
<1>4. /\ Baseless(r) /\ numbered(t, r) /\ r \in Above(t)
      /\ \A c \in Range(stack) : numbered(c, r)
      /\ \A c \in Class : numbered(c, r) /\ c # r => Started(c, r)
  BY <1>2, <1>3 DEF Walked, InTrees
<1>5. (\A c : Above(c)' = Above(c)) /\ (\A c : Baseless(c)' <=> Baseless(c))
  BY <1>2 DEF Above, Baseless
<1>6. ASSUME UNCHANGED <<TreeIndices, Index>>, \A c \in Class : open(c, r)' => open(c, r),
             Range(stack') \subseteq Range(stack),
             \A u \in Class : \A j \in 1..Len(Children[u]) :
               (j < i[u] \/ (j = i[u] /\ k[u] # 0)) => (j < i'[u] \/ (j = i'[u] /\ k'[u] # 0))
      PROVE  InTrees' /\ Walked' /\ Intervals'
  <2>1. \A d, s \in Class : (numbered(d, s)' <=> numbered(d, s)) /\ under(d, s)' = under(d, s)
    BY <1>5, <1>6 DEF numbered, under
  <2>2. InTrees'
    BY <1>5, <2>1 DEF InTrees
  <2>3. ASSUME NEW d \in Class, NEW s \in Class, open(d, s)'
        PROVE  open(d, s)
    <3>1. s = r
      BY <1>2, <2>3 DEF open, walking
    <3> QED
      BY <1>6, <2>3, <3>1
  <2>4. Intervals'
    BY <1>6, <2>1, <2>3 DEF Intervals
  <2>5. \A c \in Class : Started(c, r) => Started(c, r)'
    BY <1>2, <1>6, <2>1 DEF Started
  <2>6. \A c \in Range(stack') : numbered(c, r)'
    <3>1. Range(stack) \subseteq Class
      BY <1>1, Members
    <3> QED
      BY <1>4, <1>6, <2>1, <3>1
  <2>7. Walked'
    BY <1>2, <1>4, <1>5, <2>1, <2>5, <2>6 DEF Walked, walking
  <2> QED
    BY <2>2, <2>4, <2>7
<1>7. CASE /\ i[t] > Len(Children[t]) /\ return /\ UNCHANGED <<TreeIndices, Index>>
  <2>1. i' = i /\ k' = k /\ Range(stack') \subseteq Range(stack)
    BY <1>1, <1>2, <1>7, Returned
  <2>2. \A c \in Class : open(c, r)' => open(c, r)
    BY <1>2, <2>1 DEF open, walking
  <2> QED
    BY <1>6, <1>7, <2>1, <2>2
<1>8. ASSUME NEW c \in Class,
             i[t] \in 1..Len(Children[t]), c = Children[t][i[t]],
             k[t] >= descents(t, c),
             i' = [i EXCEPT ![t] = @ + 1], k' = [k EXCEPT ![t] = 0],
             UNCHANGED <<stack, TreeIndices, Index>>
      PROVE  InTrees' /\ Walked' /\ Intervals'
  <2>1. \A u \in Class : i'[u] = IF u = t THEN i[t] + 1 ELSE i[u]
    BY <1>1, <1>8
  <2>2. \A u \in Class : k'[u] = IF u = t THEN 0 ELSE k[u]
    BY <1>1, <1>8
  <2>3. ASSUME NEW u \in Class, NEW j \in 1..Len(Children[u]),
               j < i[u] \/ (j = i[u] /\ k[u] # 0)
        PROVE  j < i'[u] \/ (j = i'[u] /\ k'[u] # 0)
    <3>1. j \in Int /\ i[u] \in Nat
      BY <1>1
    <3>2. CASE u = t
      BY <2>1, <2>3, <3>1, <3>2
    <3>3. CASE u # t
      BY <2>1, <2>2, <2>3, <3>3
    <3> QED
      BY <3>2, <3>3
  <2>4. \A d \in Class : open(d, r)' => open(d, r)
    BY <1>2, <1>8 DEF open, walking
  <2> QED
    BY <1>6, <1>8, <2>3, <2>4
<1>9. ASSUME NEW c \in Class,
             i[t] \in 1..Len(Children[t]), c = Children[t][i[t]],
             k[t] < descents(t, c), t \in bases(Parents, c), c # t,
             call(c), Index' = Index + 1,
             \A d, s \in Class :
               TreeIndices'[d][s] = IF d = c /\ s = r THEN Index ELSE TreeIndices[d][s],
             \A d, s \in Class :
               numbered(d, s)' <=> numbered(d, s) \/ (d = c /\ s = r),
             \A d \in Class : /\ i'[d] = IF d = c THEN 1 ELSE i[d]
                              /\ k'[d] = IF d = c THEN 0
                                         ELSE IF d = t THEN k[t] + 1 ELSE k[d]
      PROVE  InTrees' /\ Walked' /\ Intervals'
  <2>1. /\ Range(stack') = Range(stack) \cup {c} /\ stack' # <<>> /\ root' = r
    BY <1>1, <1>2, <1>9, Called
  <2>2. k[t] = 0
    <3>1. descents(t, c) = 1
      BY <1>1, NoMarks
    <3> QED
      BY <1>1, <1>9, <3>1
  <2>3. t \in Above(c) /\ c \in Above(c) /\ r \in Above(c) /\ Above(t) \subseteq Above(c)
    <3>1. c \in Above(c) /\ t \in Above(c)
      BY <1>1, <1>9, Ancestors DEF Above
    <3> QED
      BY <1>1, <1>4, <3>1, Ancestors DEF Above
  <2>4. c # r
    BY <1>4, <1>9 DEF Baseless, bases, Range
  <2>5. ~numbered(c, r)
    <3> SUFFICES ASSUME numbered(c, r)
                 PROVE  FALSE
      OBVIOUS
    <3>1. PICK u \in Class :
            /\ numbered(u, r)
            /\ \E j \in 1..Len(Children[u]) :
                 Children[u][j] = c /\ (j < i[u] \/ (j = i[u] /\ k[u] # 0))
      BY <1>4, <2>4 DEF Started
    <3>2. PICK j \in 1..Len(Children[u]) :
            Children[u][j] = c /\ (j < i[u] \/ (j = i[u] /\ k[u] # 0))
      BY <3>1
    <3>3. u \in bases(Parents, c) /\ r \in Above(u)
      <4>1. c \in Range(Children[u])
        BY <1>1, <3>1, <3>2, Entries
      <4> QED
        BY <3>1, <4>1, <1>1 DEF ChildLists, InTrees
    <3>4. u = t
      BY <1>1, <1>4, <1>9, <3>3, OneWay
    <3>5. DOMAIN Children[t] = 1..Len(Children[t]) /\ IsInjective(Children[t])
      BY <1>1, Members DEF ChildLists
    <3>6. j = i[t]
      BY <1>9, <3>2, <3>4, <3>5 DEF IsInjective
    <3>7. ~(j < i[t]) /\ k[t] = 0
      BY <1>1, <2>2, <3>6
    <3> QED
      BY <3>2, <3>4, <3>6, <3>7
  <2>6. \A d \in Class : numbered(d, r) => c \notin Above(d)
    BY <1>1, <1>4, <2>3, <2>5, UpClosed
  <2>7. ASSUME NEW d \in Class, numbered(d, r), d \in Above(c)
        PROVE  open(d, r)
    <3>1. d # c
      BY <2>5, <2>7
    <3>2. PICK b \in bases(Parents, c) : d \in Above(b)
      BY <1>1, <2>7, <3>1, Ancestors DEF Above
    <3>3. r \in Above(d) /\ r \in Above(b)
      <4>1. b \in Class /\ r \in Above(d)
        BY <1>1, <2>7, <3>2, Bases DEF InTrees
      <4>2. Above(d) \subseteq Above(b)
        BY <1>1, <3>2, <4>1, Ancestors DEF Above
      <4> QED
        BY <4>1, <4>2
    <3>4. b = t
      BY <1>1, <1>4, <1>9, <3>3, OneWay
    <3>5. d \in Range(stack)
      BY <1>1, <1>2, <1>4, <3>2, <3>3, <3>4, OnStack
    <3> QED
      BY <1>2, <1>3, <3>5 DEF open
  <2>8. \A d \in Range(stack') : d \in Above(c)
    <3>1. \A d \in Range(stack) : d \in Above(t)
      <4>1. \A j \in 1..(Len(stack) - 1) : stack[j] \in bases(Parents, stack[j + 1])
        BY <1>1, <1>2 DEF Chain
      <4>2. \A a, b \in 1..Len(stack) : a <= b => stack[a] \in Above(stack[b])
        BY <1>1, <4>1, Upwards
      <4>3. Len(stack) \in Nat \ {0} /\ t = stack[Len(stack)] /\ Range(stack) = {stack[j] : j \in 1..Len(stack)}
        BY <1>1, <1>2, Popped, Members DEF current
      <4>4. Len(stack) \in 1..Len(stack) /\ \A j \in 1..Len(stack) : j <= Len(stack)
        BY <4>3
      <4> QED
        BY <4>2, <4>3, <4>4
    <3> QED
      BY <2>1, <2>3, <3>1
  <2>9. Intervals'
    <3>1. Parents' = Parents
      BY <1>2
    <3>2. Typed /\ root' = r
      BY <1>1, <2>1
    <3> QED
      BY <1>9, <2>5, <2>6, <2>7, <2>8, <3>1, <3>2, IntervalsCall
  <2>10. InTrees'
    BY <1>4, <1>5, <1>9, <2>3 DEF InTrees
  <2>11. \A d \in Range(stack') : numbered(d, r)'
    <3>1. Range(stack) \subseteq Class
      BY <1>1, Members
    <3> QED
      BY <1>4, <1>9, <2>1, <3>1
  <2>12. ASSUME NEW d \in Class, numbered(d, r)', d # r
         PROVE  Started(d, r)'
    <3>1. CASE d = c
      <4>1. t # c /\ i'[t] = i[t] /\ k'[t] # 0 /\ numbered(t, r)'
        <5>1. t # c /\ i'[t] = i[t] /\ k'[t] = k[t] + 1 /\ numbered(t, r)'
          BY <1>4, <1>9
        <5>2. k[t] \in Nat
          BY <1>1
        <5> QED
          BY <5>1, <5>2
      <4> QED
        BY <1>2, <1>9, <3>1, <4>1 DEF Started
    <3>2. CASE d # c
      <4>1. PICK u \in Class :
            /\ numbered(u, r)
            /\ \E j \in 1..Len(Children[u]) :
                 Children[u][j] = d /\ (j < i[u] \/ (j = i[u] /\ k[u] # 0))
        BY <1>4, <1>9, <2>12, <3>2 DEF Started
      <4>2. u # c /\ i'[u] = i[u] /\ (k[u] # 0 => k'[u] # 0) /\ numbered(u, r)'
        <5>1. u # c /\ i'[u] = i[u] /\ numbered(u, r)'
          BY <1>9, <2>5, <4>1
        <5>2. k'[u] = IF u = t THEN k[t] + 1 ELSE k[u]
          BY <1>9, <5>1
        <5>3. k[u] \in Nat /\ k[t] \in Nat
          BY <1>1
        <5> QED
          BY <5>1, <5>2, <5>3
      <4> QED
        BY <1>2, <4>1, <4>2 DEF Started
    <3> QED
      BY <3>1, <3>2
  <2>13. Walked'
    BY <1>4, <1>5, <2>1, <2>11, <2>12 DEF Walked
  <2> QED
    BY <2>9, <2>10, <2>13
<1>10. CASE \E c \in Class :
                   /\ i[t] \in 1..Len(Children[t]) /\ c = Children[t][i[t]]
                   /\ k[t] >= descents(t, c)
                   /\ i' = [i EXCEPT ![t] = @ + 1] /\ k' = [k EXCEPT ![t] = 0]
                   /\ UNCHANGED <<stack, TreeIndices, Index>>
  BY <1>8, <1>10
<1>11. CASE \E c \in Class, x \in Nat :
                   /\ i[t] \in 1..Len(Children[t]) /\ c = Children[t][i[t]]
                   /\ k[t] < descents(t, c) /\ t \in bases(Parents, c) /\ c # t
                   /\ call(c) /\ (Diamonds[t] = {} => x = Index)
                   /\ Index' = x + 1
                   /\ \A d, s \in Class :
                        TreeIndices'[d][s] = IF d = c /\ s = r THEN x ELSE TreeIndices[d][s]
                   /\ \A d, s \in Class :
                        numbered(d, s)' <=> numbered(d, s) \/ (d = c /\ s = r)
                   /\ \A d \in Class : /\ i'[d] = IF d = c THEN 1 ELSE i[d]
                                       /\ k'[d] = IF d = c THEN 0
                                                  ELSE IF d = t THEN k[t] + 1 ELSE k[d]
  <2>1. PICK c \in Class, x \in Nat :
                   /\ i[t] \in 1..Len(Children[t]) /\ c = Children[t][i[t]]
                   /\ k[t] < descents(t, c) /\ t \in bases(Parents, c) /\ c # t
                   /\ call(c) /\ (Diamonds[t] = {} => x = Index)
                   /\ Index' = x + 1
                   /\ \A d, s \in Class :
                        TreeIndices'[d][s] = IF d = c /\ s = r THEN x ELSE TreeIndices[d][s]
                   /\ \A d, s \in Class :
                        numbered(d, s)' <=> numbered(d, s) \/ (d = c /\ s = r)
                   /\ \A d \in Class : /\ i'[d] = IF d = c THEN 1 ELSE i[d]
                                       /\ k'[d] = IF d = c THEN 0
                                                  ELSE IF d = t THEN k[t] + 1 ELSE k[d]
    BY <1>11
  <2>2. x = Index
    BY <1>1, <2>1
  <2> QED
    BY <1>9, <2>1, <2>2
<1> QED
  BY <1>2, <1>7, <1>10, <1>11

LEMMA RangesStart ==
  ASSUME Traced, noDiamonds, InTrees, Intervals, buildFakeVTables
  PROVE  InTrees' /\ Walked' /\ Intervals'
<1>1. /\ Typed /\ Trees /\ Fresh /\ Roots \in Seq(Class) /\ noDiamonds
      /\ isHierarchy(Parents)
  BY DEF Traced, Trees, Typed, TypeOK
<1>2. /\ pc = "buildFakeVTables" /\ stack = <<>> /\ Range(stack) = {}
      /\ UNCHANGED <<Parents, phantom, Children, Roots, Diamonds, type, Descendents>>
  BY <1>1, BuildStart
<1>3. (\A c : Above(c)' = Above(c)) /\ (\A c : Baseless(c)' <=> Baseless(c))
  BY <1>2 DEF Above, Baseless
<1>4. CASE pc' = "removeDuplicates" /\ UNCHANGED <<TreeIndices, Index>>
  <2>1. \A d, s \in Class : (numbered(d, s)' <=> numbered(d, s)) /\ under(d, s)' = under(d, s)
                            /\ ~open(d, s)'
    BY <1>3, <1>4 DEF numbered, under, open, walking
  <2> QED
    BY <1>3, <1>4, <2>1 DEF InTrees, Walked, walking, Intervals
<1>5. ASSUME NEW r \in Class,
             pos \in 1..Len(Roots), r = Roots[pos], root' = r, Range(stack') = {r},
             Index' = Index + 1,
             \A d, s \in Class :
               TreeIndices'[d][s] = IF d = r /\ s = r THEN Index ELSE TreeIndices[d][s],
             \A d, s \in Class :
               numbered(d, s)' <=> numbered(d, s) \/ (d = r /\ s = r)
      PROVE  InTrees' /\ Walked' /\ Intervals'
  <2>1. /\ r \in Above(r) /\ Baseless(r)
    <3>1. r \in Range(Roots)
      BY <1>1, <1>5, Members
    <3> QED
      BY <1>1, <3>1, NoMarks, Ancestors DEF Above
  <2>2. \A c \in Class : ~numbered(c, r)
    <3>1. pos >= pos
      BY <1>1, RootEntries
    <3> QED
      BY <1>1, <1>2, <1>5, <3>1 DEF Fresh
  <2>3. InTrees'
    BY <1>3, <1>5, <2>1 DEF InTrees
  <2>4. Walked'
    BY <1>3, <1>5, <2>1, <2>2 DEF Walked
  <2>5. Intervals'
    <3>1. Parents' = Parents /\ ~numbered(r, r)
      BY <1>2, <2>2
    <3>2. /\ \A d \in Class : numbered(d, r) => r \notin Above(d)
          /\ \A d \in Class : numbered(d, r) /\ d \in Above(r) => open(d, r)
          /\ \A d \in Range(stack') : d \in Above(r)
      BY <1>5, <2>1, <2>2
    <3> QED
      BY <1>1, <1>5, <3>1, <3>2, IntervalsCall
  <2> QED
    BY <2>3, <2>4, <2>5
<1> QED
  BY <1>1, <1>4, <1>5, BuildStart

LEMMA RangesStep ==
  ASSUME Traced, Ranges, [Next]_vars
  PROVE  Ranges'
<1>1. /\ Typed /\ Trees /\ Fresh /\ RootList /\ isHierarchy(Parents)
  BY DEF Traced, Trees, Typed, TypeOK
<1>2. Parents' = Parents /\ phantom' = phantom
  BY DEF vars, hierarchy, Next, extendTypeMetadata, setParentsChildrenRecursive,
         findDiamonds, findDiamondsRecursive, buildFakeVTables,
         buildFakeVTablesRecursive, removeDuplicates
<1>3. /\ \A c : Above(c)' = Above(c)
      /\ \A c : Baseless(c)' <=> Baseless(c)
      /\ noDiamonds' <=> noDiamonds
  BY <1>2 DEF Above, Baseless, noDiamonds
<1> SUFFICES ASSUME noDiamonds
             PROVE  InTrees' /\ Walked' /\ Intervals'
  BY <1>3 DEF Ranges
<1>4. InTrees /\ Walked /\ Intervals /\ noDiamonds
  BY DEF Ranges
<1>5. ASSUME UNCHANGED <<TreeIndices, Index>>, \A c, r \in Class : open(c, r)' => open(c, r)
      PROVE  InTrees' /\ Intervals'
  <2>1. \A d, s \in Class : (numbered(d, s)' <=> numbered(d, s)) /\ under(d, s)' = under(d, s)
    BY <1>3, <1>5 DEF numbered, under
  <2> QED
    BY <1>3, <1>4, <1>5, <2>1 DEF InTrees, Intervals
<1>6. CASE extendTypeMetadata \/ setParentsChildrenRecursive
           \/ findDiamonds \/ findDiamondsRecursive
  <2>1. /\ UNCHANGED <<TreeIndices, Index>>
        /\ ~walking("buildFakeVTables")'
    BY <1>1, <1>6, ExtendCases, SetCases, FindCases, FindRecursiveCases DEF walking
  <2> QED
    BY <1>5, <2>1 DEF open, Walked
<1>7. CASE buildFakeVTables
  BY <1>4, <1>7, RangesStart
<1>8. CASE buildFakeVTablesRecursive
  BY <1>4, <1>8, RangesWalk
<1>9. CASE removeDuplicates
  <2>1. \A r \in Range(Roots) : Baseless(r)
    BY <1>1, <1>4, NoMarks
  <2>2. /\ pc' \in {"removeDuplicates", "done"} /\ UNCHANGED <<TreeIndices, Index>>
    BY <1>1, <1>9, <2>1, RemoveStep
  <2>3. ~walking("buildFakeVTables")'
    BY <2>2 DEF walking
  <2> QED
    BY <1>5, <2>2, <2>3 DEF open, Walked
<1>10. CASE UNCHANGED vars
  <2>1. /\ UNCHANGED <<pc, TreeIndices, Index, stack, i, k, Children>>
    BY <1>10 DEF vars, walk
  <2>2. Walked'
    BY <1>3, <1>4, <2>1 DEF Walked, Started, walking, root, numbered
  <2> QED
    BY <1>5, <2>1, <2>2 DEF open, walking, root
<1> QED
  BY <1>6, <1>7, <1>8, <1>9, <1>10 DEF Next

LEMMA RangesInit ==
  ASSUME Init
  PROVE  Ranges
<1>1. pc = "extendTypeMetadata" /\ \A c, r \in Class : ~numbered(c, r)
  BY DEF Init, numbered
<1> QED
  BY <1>1 DEF Ranges, InTrees, Walked, walking, Intervals

IInv == Traced /\ Numbers /\ Ranges

LEMMA Invariance == Spec => []IInv
<1>1. Init => IInv
  BY TracedInit, NumbersInit, RangesInit DEF IInv
<1>2. IInv /\ [Next]_vars => IInv'
  BY TracedStep, NumbersStep, RangesStep DEF IInv, Traced, Trees
<1> QED
  BY <1>1, <1>2, PTL DEF Spec

-----------------------------------------------------------------------------
(* The trees when the pass is done.                                        *)

Done == IInv /\ pc = "done" /\ noDiamonds

LEMMA DoneTrees ==
  ASSUME Done
  PROVE  /\ \A c, r \in Class : numbered(c, r) <=> Baseless(r) /\ r \in Above(c)
         /\ \A c, d \in Class : d \in descendants(c) <=> c \in Above(d)
         /\ Typed /\ ChildLists /\ noDiamonds /\ isHierarchy(Parents)
<1>1. /\ Typed /\ ChildLists /\ noDiamonds /\ RootList /\ Complete /\ InTrees
      /\ isHierarchy(Parents)
  BY DEF Done, IInv, Traced, Trees, Ranges, Typed
<1>2. ASSUME NEW c \in Class, NEW r \in Class, Baseless(r), r \in Above(c)
      PROVE  numbered(c, r)
  <2>1. PICK a \in 1..Len(Roots) : r = Roots[a]
    BY <1>1, <1>2, RootEntries DEF RootList
  <2> QED
    BY <1>1, <1>2, <2>1 DEF Complete, finished, Done
<1>3. \A c, d \in Class : d \in descendants(c) <=> c \in Above(d)
  BY <1>1, Below DEF Done
<1> QED
  BY <1>1, <1>2, <1>3 DEF InTrees

LEMMA AboveTrans ==
  ASSUME Typed, NEW x \in Class, NEW y \in Above(x)
  PROVE  Above(y) \subseteq Above(x) /\ y \in Class /\ bases(Parents, y) \subseteq Above(x)
BY Ancestors DEF Typed, Above

(* the numbers below a class are a range as long as the classes are many *)
LEMMA Subtree ==
  ASSUME Done, NEW c \in Class, NEW r \in Class, numbered(c, r)
  PROVE  /\ IsFiniteSet(descendants(c)) /\ Cardinality(descendants(c)) \in Nat
         /\ {TreeIndices[d][r] : d \in descendants(c)} =
              TreeIndices[c][r] .. TreeIndices[c][r] + Cardinality(descendants(c)) - 1
<1>1. /\ \A d, s \in Class : numbered(d, s) <=> Baseless(s) /\ s \in Above(d)
      /\ \A d \in Class : d \in descendants(c) <=> c \in Above(d)
      /\ Typed /\ ChildLists /\ Intervals /\ NumbersDistinct /\ noDiamonds
      /\ TreeIndices[c][r] \in Nat
  <2>1. TreeIndices[c][r] \in Nat \cup {NoIndex}
    BY DEF Done, IInv, Traced, Trees, Typed, TypeOK
  <2> QED
    BY <2>1, DoneTrees DEF Done, IInv, Ranges, Numbers, apart, numbered
<1> DEFINE D == descendants(c)
           V == {TreeIndices[d][r] : d \in D}
           a == TreeIndices[c][r]
<1>2. D \subseteq Class /\ c \in D /\ IsFiniteSet(D) /\ Cardinality(D) \in Nat
  <2>1. D \subseteq Class /\ c \in D
    BY <1>1, Below
  <2> HIDE DEF D
  <2> QED
    BY <2>1, ClassAssumption, FS_Subset, FS_CardinalityType
<1>3. \A d \in D : numbered(d, r)
  <2>1. \A d \in D : d \in Class /\ c \in Above(d) /\ r \in Above(c)
    BY <1>1, <1>2
  <2> QED
    BY <1>1, <2>1, AboveTrans
<1>4. V = under(c, r)
  <2>1. {d \in Class : numbered(d, r) /\ c \in Above(d)} = D
    BY <1>1, <1>2, <1>3
  <2> QED
    BY <2>1 DEF under
<1>5. PICK e \in Nat : V = a .. e
  BY <1>1, <1>4 DEF Intervals
<1>6. a \in V
  BY <1>2
<1>7. Cardinality(V) = Cardinality(D) /\ IsFiniteSet(V)
  <2> DEFINE f == [d \in D |-> TreeIndices[d][r]]
  <2>1. \A x, y \in D : TreeIndices[x][r] = TreeIndices[y][r] => x = y
    BY <1>1, <1>2, <1>3 DEF NumbersDistinct
  <2>2. f \in Bijection(D, V)
    <3>1. f \in [D -> V]
      OBVIOUS
    <3>2. \A x, y \in D : f[x] = f[y] => x = y
      BY <2>1
    <3>3. \A v \in V : \E x \in D : f[x] = v
      OBVIOUS
    <3> HIDE DEF f, V, D
    <3> QED
      BY <3>1, <3>2, <3>3, Fun_IsBij
  <2> HIDE DEF f, V, D
  <2> QED
    BY <1>2, <2>2, FS_Bijection DEF ExistsBijection
<1> HIDE DEF D, V, a
<1>8. a \in Nat /\ a <= e
  BY <1>1, <1>5, <1>6 DEF a
<1>9. Cardinality(a .. e) = e - a + 1
  BY <1>8, FS_Interval
<1>10. a + Cardinality(D) - 1 = e
  BY <1>5, <1>7, <1>8, <1>9
<1> QED
  BY <1>2, <1>5, <1>10 DEF D, V, a

(* The classes below the children of d that are in a tree.                 *)
(* A class is below one child only.                                        *)
LEMMA OneChild ==
  ASSUME Done, NEW d \in Class, NEW a \in Class, NEW e \in Class, a # e,
         d \in bases(Parents, a), d \in bases(Parents, e)
  PROVE  descendants(a) \cap descendants(e) = {}
<1>1. /\ Typed /\ noDiamonds /\ isHierarchy(Parents)
      /\ \A c, x \in Class : x \in descendants(c) <=> c \in Above(x)
      /\ \A c \in Class : descendants(c) \subseteq Class
  BY DoneTrees, Below
<1> DEFINE S == {x \in Class : a \in Above(x) /\ e \in Above(x)}
<1>2. SUFFICES ASSUME S # {}
               PROVE  FALSE
  BY <1>1
<1>3. PICK x \in S : \A p \in S : p \notin bases(Parents, x)
  <2>1. S \in (SUBSET Class) \ {{}}
    BY <1>2
  <2> HIDE DEF S
  <2> QED
    BY <1>1, <2>1 DEF isHierarchy, acyclic
<1>4. /\ d \in Above(a) /\ d \in Above(e)
      /\ a \notin Above(d) /\ e \notin Above(d)
  <2>1. a \in Above(a) /\ e \in Above(e)
    BY <1>1, Ancestors DEF Above
  <2>2. d \in Above(a) /\ d \in Above(e)
    BY <1>1, <2>1, AboveTrans
  <2> QED
    BY <1>1, <2>2, NoCycle DEF Above
<1>5. ASSUME NEW y \in Class, NEW z \in Class, y # z, y \in Above(z),
             d \in bases(Parents, z), d \in Above(y), y \notin Above(d)
      PROVE  FALSE
  <2>1. PICK b \in bases(Parents, z) : y \in Above(b)
    BY <1>1, <1>5, Ancestors DEF Above
  <2>2. b \in Class
    BY <1>1, Bases
  <2>3. d \in Above(b) /\ d \in Above(d)
    BY <1>1, <1>5, <2>1, <2>2, AboveTrans, Ancestors DEF Above
  <2>4. b = d
    BY <1>1, <1>5, <2>3, OneWay
  <2> QED
    BY <1>5, <2>1, <2>4
<1>6. x # a /\ x # e
  BY <1>4, <1>5
<1>7. PICK b \in bases(Parents, x) : a \in Above(b)
  BY <1>1, <1>6, Ancestors DEF Above
<1>8. PICK g \in bases(Parents, x) : e \in Above(g)
  BY <1>1, <1>6, Ancestors DEF Above
<1>9. b \in Class /\ g \in Class
  BY <1>1, Bases
<1>10. d \in Above(b) /\ d \in Above(g)
  BY <1>1, <1>4, <1>7, <1>8, <1>9, AboveTrans
<1> QED
  BY <1>1, <1>3, <1>7, <1>8, <1>9, <1>10, OneWay

(* The classes below c that the width of its range counts: what a phantom  *)
(* adds is taken off again.                                                *)
Counted(c) ==
  {x \in descendants(c) :
     \A p \in bases(Parents, x) : p \in descendants(c) => <<p, x>> \notin phantom}

LEMMA CountedBelow ==
  ASSUME Done, NEW d \in Class, NEW e \in Class, d \in bases(Parents, e)
  PROVE  /\ e \in Counted(e) /\ descendants(e) \cap Counted(d) \subseteq Class
         /\ descendants(e) \cap Counted(d) =
              IF isPhantomChild(d, e) THEN Counted(e) \ {e} ELSE Counted(e)
<1>1. /\ Typed /\ noDiamonds /\ isHierarchy(Parents)
      /\ \A c, x \in Class : x \in descendants(c) <=> c \in Above(x)
      /\ \A c \in Class : descendants(c) \subseteq Class /\ c \in descendants(c)
  BY DoneTrees, Below
<1>2. \A x \in Class : bases(Parents, x) \subseteq Class
  BY <1>1, Bases
<1>3. d \in Above(e) /\ d \in Above(d)
  BY <1>1, Ancestors DEF Above
<1>4. \A x \in descendants(e) : x \in Class /\ x \in descendants(d)
  <2> TAKE x \in descendants(e)
  <2>1. x \in Class /\ e \in Above(x)
    BY <1>1
  <2> QED
    BY <1>1, <1>3, <2>1, AboveTrans
<1>5. e \in Counted(e)
  <2>1. \A p \in bases(Parents, e) : p \notin descendants(e)
    BY <1>1, <1>2, NoCycle DEF Above
  <2> QED
    BY <1>1, <2>1 DEF Counted
<1>6. e \in Counted(d) <=> ~isPhantomChild(d, e)
  <2>1. \A p \in bases(Parents, e) : p \in descendants(d) <=> p = d
    BY <1>1, <1>2, <1>3, OneWay
  <2>2. e \in descendants(d)
    BY <1>1, <1>4
  <2> QED
    BY <2>1, <2>2 DEF Counted, isPhantomChild
<1>7. ASSUME NEW x \in descendants(e), x # e
      PROVE  x \in Counted(d) <=> x \in Counted(e)
  <2>1. x \in Class /\ e \in Above(x) /\ x \in descendants(d)
    BY <1>1, <1>4, <1>7
  <2>2. PICK b \in bases(Parents, x) : e \in Above(b)
    BY <1>1, <1>7, <2>1, Ancestors DEF Above
  <2>3. b \in Class /\ d \in Above(b)
    BY <1>1, <1>2, <1>3, <2>1, <2>2, AboveTrans
  <2>4. \A p \in bases(Parents, x) : p \in descendants(d) <=> p \in descendants(e)
    <3> TAKE p \in bases(Parents, x)
    <3>1. p \in Class
      BY <1>2, <2>1
    <3>2. p \in descendants(d) => p = b
      BY <1>1, <2>1, <2>2, <2>3, <3>1, OneWay
    <3>3. p \in descendants(e) => p \in descendants(d)
      BY <1>4
    <3> QED
      BY <1>1, <2>2, <2>3, <3>1, <3>2, <3>3
  <2> QED
    BY <2>1, <2>4 DEF Counted
<1>8. Counted(e) \subseteq descendants(e) /\ Counted(d) \subseteq Class
  BY <1>1 DEF Counted
<1> QED
  BY <1>5, <1>6, <1>7, <1>8

LEMMA CountedFinite ==
  ASSUME Done, NEW c \in Class
  PROVE  /\ Counted(c) \subseteq Class /\ IsFiniteSet(Counted(c))
         /\ Cardinality(Counted(c)) \in Nat
         /\ Cardinality(Counted(c)) <= Cardinality(descendants(c))
         /\ phantom = {} => Cardinality(Counted(c)) = Cardinality(descendants(c))
<1>1. descendants(c) \subseteq Class
  BY DoneTrees, Below
<1>2. Counted(c) \subseteq descendants(c)
  BY DEF Counted
<1>3. phantom = {} => Counted(c) = descendants(c)
  BY DEF Counted
<1>4. IsFiniteSet(descendants(c))
  BY <1>1, ClassAssumption, FS_Subset
<1> QED
  BY <1>1, <1>2, <1>3, <1>4, FS_Subset, FS_CardinalityType

(* what the loop over the children of d has counted after n iterations     *)
met(d, r, n) ==
  {x \in Counted(d) : \E j \in 1..n : numbered(Children[d][j], r)
                                      /\ x \in descendants(Children[d][j])}

size(d, r, n) == 1 + Cardinality(met(d, r, n))

Sum(w, d, r, s) ==
  s = [n \in 0..Len(Children[d]) |->
         IF n = 0 THEN 1
         ELSE s[n - 1] + (IF numbered(Children[d][n], r)
                          THEN w[Children[d][n]] - phantomWidth(d, Children[d][n]) ELSE 0)]

Width(w, r) == w = [d \in Class |-> (CHOOSE s : Sum(w, d, r, s))[Len(Children[d])]]

counts(w, d, r) ==
  \A e \in Range(Children[d]) : numbered(e, r) => w[e] = Cardinality(Counted(e))

LEMMA MetNext ==
  ASSUME Done, NEW d \in Class, NEW r \in Class, NEW n \in 1..Len(Children[d])
  PROVE  LET e == Children[d][n]
         IN /\ size(d, r, 0) = 1 /\ size(d, r, n - 1) \in Nat
            /\ size(d, r, n) = size(d, r, n - 1)
                 + (IF numbered(e, r) THEN Cardinality(Counted(e)) - phantomWidth(d, e) ELSE 0)
<1>1. /\ Typed /\ ChildLists /\ Counted(d) \subseteq Class
      /\ \A j \in 1..Len(Children[d]) : Children[d][j] \in Class
                                        /\ d \in bases(Parents, Children[d][j])
  BY DoneTrees, CountedFinite, Entries DEF ChildLists
<1>2. Len(Children[d]) \in Nat /\ IsInjective(Children[d]) /\ Children[d] \in Seq(Class)
  BY <1>1 DEF ChildLists, Typed, TypeOK
<1>3. \A j \in 1..Len(Children[d]) : j # n => Children[d][j] # Children[d][n]
  BY <1>2, Members DEF IsInjective
<1> DEFINE e == Children[d][n]
           U == met(d, r, n - 1)
           D == descendants(e) \cap Counted(d)
<1>4. IsFiniteSet(U) /\ IsFiniteSet(D) /\ Cardinality(U) \in Nat /\ Cardinality(D) \in Nat
  <2>1. U \subseteq Class /\ D \subseteq Class
    BY <1>1 DEF met
  <2> HIDE DEF U, D
  <2> QED
    BY <2>1, ClassAssumption, FS_Subset, FS_CardinalityType
<1>5. met(d, r, n) = U \cup (IF numbered(e, r) THEN D ELSE {})
  <2>1. \A j : j \in 1..n <=> j \in 1..(n - 1) \/ j = n
    BY <1>2
  <2> QED
    BY <1>1, <2>1 DEF met
<1>6. numbered(e, r) => U \cap D = {}
  <2>1. \A j \in 1..(n - 1) : j \in 1..Len(Children[d]) /\ j # n
    BY <1>2
  <2>2. \A j \in 1..(n - 1) : descendants(Children[d][j]) \cap D = {}
    BY <1>1, <1>3, <2>1, OneChild
  <2> QED
    BY <2>2 DEF met
<1>7. met(d, r, 0) = {} /\ Cardinality({}) = 0
  BY FS_EmptySet DEF met
<1>8. Cardinality(met(d, r, n)) =
        Cardinality(U) + (IF numbered(e, r) THEN Cardinality(D) ELSE 0)
  <2>1. CASE numbered(e, r)
    <3> HIDE DEF U, D, e
    <3>1. Cardinality(U \cup D) = Cardinality(U) + Cardinality(D) - Cardinality({})
      BY <1>4, <1>6, <2>1, FS_Union
    <3> QED
      BY <1>4, <1>5, <1>7, <2>1, <3>1
  <2>2. CASE ~numbered(e, r)
    <3> HIDE DEF U, D, e
    <3> QED
      BY <1>4, <1>5, <2>2
  <2> QED
    BY <2>1, <2>2
<1> HIDE DEF U, D, e
<1>9. size(d, r, 0) = 1 /\ size(d, r, n - 1) \in Nat
  <2>1. size(d, r, 0) = 1
    BY <1>7 DEF size
  <2>2. size(d, r, n - 1) = 1 + Cardinality(U)
    BY DEF size, U
  <2> QED
    BY <1>4, <2>1, <2>2
<1>10. size(d, r, n) = size(d, r, n - 1) + (IF numbered(e, r) THEN Cardinality(D) ELSE 0)
  <2>1. size(d, r, n - 1) = 1 + Cardinality(U)
    BY DEF size, U
  <2>2. size(d, r, n) = 1 + Cardinality(U) + (IF numbered(e, r) THEN Cardinality(D) ELSE 0)
    BY <1>4, <1>8 DEF size
  <2> QED
    BY <2>1, <2>2
<1>11. Cardinality(D) = Cardinality(Counted(e)) - phantomWidth(d, e)
  <2>1. e \in Class /\ d \in bases(Parents, e)
    BY <1>1, <1>2 DEF e
  <2>2. D = IF isPhantomChild(d, e) THEN Counted(e) \ {e} ELSE Counted(e)
    BY <2>1, CountedBelow DEF D
  <2>3. e \in Counted(e) /\ IsFiniteSet(Counted(e)) /\ Cardinality(Counted(e)) \in Nat
    BY <2>1, CountedBelow, CountedFinite
  <2>4. Cardinality(Counted(e) \ {e}) = Cardinality(Counted(e)) - 1
    BY <2>3, FS_RemoveElement
  <2> QED
    BY <2>2, <2>3, <2>4 DEF phantomWidth
<1> QED
  BY <1>9, <1>10, <1>11 DEF e

LEMMA SumCounts ==
  ASSUME Done, NEW d \in Class, NEW r \in Class, NEW w, counts(w, d, r)
  PROVE  (CHOOSE s : Sum(w, d, r, s))[Len(Children[d])] = size(d, r, Len(Children[d]))
<1> DEFINE L == Len(Children[d])
           s0 == [n \in 0..L |-> size(d, r, n)]
<1>1. L \in Nat /\ Typed
  <2>1. Typed
    BY DoneTrees
  <2>2. Children[d] \in Seq(Class)
    BY <2>1 DEF Typed, TypeOK
  <2> QED
    BY <2>1, <2>2, Members
<1>2. \A n \in 1..L : Children[d][n] \in Range(Children[d])
  BY <1>1, Entries
<1>3. \A n \in 1..L :
        /\ size(d, r, 0) = 1 /\ size(d, r, n - 1) \in Nat
        /\ size(d, r, n) = size(d, r, n - 1)
             + (IF numbered(Children[d][n], r)
                THEN w[Children[d][n]] - phantomWidth(d, Children[d][n]) ELSE 0)
  BY <1>2, MetNext DEF counts
<1>4. size(d, r, 0) = 1
  <2>1. met(d, r, 0) = {}
    BY DEF met
  <2> QED
    BY <2>1, FS_EmptySet DEF size
<1>5. Sum(w, d, r, s0)
  <2>1. \A n \in 0..L : n # 0 => n \in 1..L /\ n - 1 \in 0..L
    BY <1>1
  <2>2. \A n \in 0..L :
          s0[n] = IF n = 0 THEN 1
                  ELSE s0[n - 1] + (IF numbered(Children[d][n], r)
                                    THEN w[Children[d][n]] - phantomWidth(d, Children[d][n])
                                    ELSE 0)
    BY <1>3, <1>4, <2>1
  <2>3. s0 = [n \in 0..L |-> s0[n]]
    OBVIOUS
  <2> HIDE DEF s0
  <2> QED
    BY <2>2, <2>3 DEF Sum
<1>6. ASSUME NEW s, Sum(w, d, r, s)
      PROVE  s[L] = size(d, r, L)
  <2> DEFINE S == {n \in 0..L : s[n] = size(d, r, n)}
  <2>1. \A n \in 0..L :
          s[n] = IF n = 0 THEN 1
                 ELSE s[n - 1] + (IF numbered(Children[d][n], r)
                                  THEN w[Children[d][n]] - phantomWidth(d, Children[d][n])
                                  ELSE 0)
    BY <1>6 DEF Sum
  <2>2. 0 \in S
    BY <1>1, <1>4, <2>1
  <2>3. ASSUME NEW m \in 0..L, m < L, m \in S
        PROVE  m + 1 \in S
    <3>1. m + 1 \in 1..L /\ m + 1 \in 0..L /\ (m + 1) - 1 = m /\ m + 1 # 0
      BY <1>1, <2>3
    <3> QED
      BY <1>3, <2>1, <2>3, <3>1
  <2> HIDE DEF S
  <2>4. 0..L \subseteq S
    BY <1>1, <2>2, <2>3, UpTo
  <2>5. L \in 0..L
    BY <1>1
  <2> QED
    BY <2>4, <2>5 DEF S
<1> HIDE DEF s0
<1>7. Sum(w, d, r, CHOOSE s : Sum(w, d, r, s))
  BY <1>5
<1> QED
  BY <1>6, <1>7

(* A class in a tree has all the classes below it in the tree.             *)
LEMMA Whole ==
  ASSUME Done, NEW c \in Class, NEW r \in Class, numbered(c, r)
  PROVE  size(c, r, Len(Children[c])) = Cardinality(Counted(c))
<1> DEFINE L == Len(Children[c])
           D == Counted(c)
           U == met(c, r, L)
<1>1. /\ Typed /\ ChildLists /\ isHierarchy(Parents)
      /\ \A d, s \in Class : numbered(d, s) <=> Baseless(s) /\ s \in Above(d)
      /\ \A a, d \in Class : d \in descendants(a) <=> a \in Above(d)
      /\ \A a \in Class : descendants(a) \subseteq Class
  BY DoneTrees, Below
<1>2. \A j \in 1..L : Children[c][j] \in Class /\ c \in bases(Parents, Children[c][j])
  BY <1>1, Entries DEF ChildLists
<1>3. c \in D
  <2>1. c \in Above(c) /\ \A p \in bases(Parents, c) : p \notin descendants(c)
    BY <1>1, Ancestors, NoCycle, Bases DEF Above
  <2> QED
    BY <1>1, <2>1 DEF Counted
<1>4. c \notin U
  <2> SUFFICES ASSUME NEW j \in 1..L, c \in descendants(Children[c][j])
               PROVE  FALSE
    BY DEF met
  <2>1. Children[c][j] \in Above(c)
    BY <1>1, <1>2
  <2> QED
    BY <1>1, <1>2, <2>1, NoCycle DEF Above
<1>5. ASSUME NEW x \in D, x # c
      PROVE  x \in U
  <2>1. x \in Class /\ c \in Above(x) /\ x \in Counted(c)
    BY <1>1 DEF Counted
  <2>2. PICK e \in Above(x) : c \in bases(Parents, e)
    BY <1>1, <1>5, <2>1, Ancestors DEF Above
  <2>3. e \in Class /\ e \in Range(Children[c])
    <3>1. e \in Class
      BY <1>1, <2>1, AboveTrans
    <3> QED
      BY <1>1, <2>2, <3>1 DEF ChildLists, Done
  <2>4. PICK j \in 1..L : e = Children[c][j]
    BY <1>1, <2>3, Members DEF Typed, TypeOK
  <2>5. numbered(e, r)
    <3>1. e \in Above(e)
      BY <1>1, <2>3, Ancestors DEF Above
    <3>2. c \in Above(e)
      BY <1>1, <2>2, <2>3, <3>1, AboveTrans
    <3> QED
      BY <1>1, <2>3, <3>2, AboveTrans
  <2>6. x \in descendants(e)
    BY <1>1, <2>1, <2>2, <2>3
  <2> QED
    BY <2>1, <2>4, <2>5, <2>6 DEF met
<1>6. U \subseteq D
  BY DEF met
<1>7. D = U \cup {c} /\ IsFiniteSet(U) /\ Cardinality(U) \in Nat
  <2>1. D = U \cup {c}
    BY <1>3, <1>5, <1>6
  <2>2. U \subseteq Class
    BY <1>6, CountedFinite
  <2> HIDE DEF U, D
  <2> QED
    BY <2>1, <2>2, ClassAssumption, FS_Subset, FS_CardinalityType
<1> HIDE DEF U, D
<1>8. Cardinality(D) = Cardinality(U) + 1
  BY <1>4, <1>7, FS_AddElement
<1> QED
  BY <1>7, <1>8 DEF size, U, D

LEMMA RangeWidth ==
  ASSUME Done, NEW c \in Class, NEW r \in Class, numbered(c, r)
  PROVE  getRangeWidth(c, r) = Cardinality(Counted(c))
<1>1. /\ Typed /\ ChildLists /\ isHierarchy(Parents)
  BY DoneTrees
<1>2. \A d \in Class : \A e \in Range(Children[d]) : e \in Class /\ d \in bases(Parents, e)
  BY <1>1, Members DEF Typed, TypeOK, ChildLists
<1> DEFINE w0 == [d \in Class |-> size(d, r, Len(Children[d]))]
<1>3. \A d \in Class : counts(w0, d, r)
  BY <1>2, Whole DEF counts
<1>4. Width(w0, r)
  <2>1. \A d \in Class : w0[d] = (CHOOSE s : Sum(w0, d, r, s))[Len(Children[d])]
    <3> TAKE d \in Class
    <3>1. w0[d] = size(d, r, Len(Children[d])) /\ counts(w0, d, r)
      BY <1>3
    <3> HIDE DEF w0
    <3> QED
      BY <3>1, SumCounts
  <2>2. w0 = [d \in Class |-> w0[d]]
    OBVIOUS
  <2> HIDE DEF w0
  <2> QED
    BY <2>1, <2>2 DEF Width
<1> HIDE DEF w0
<1>5. ASSUME NEW w, Width(w, r)
      PROVE  w[c] = Cardinality(Counted(c))
  <2> DEFINE B == {d \in Class : numbered(d, r) /\ w[d] # Cardinality(Counted(d))}
  <2> SUFFICES ASSUME B # {}
               PROVE  FALSE
    OBVIOUS
  <2>1. B \in (SUBSET Class) \ {{}}
    OBVIOUS
  <2>2. PICK p \in B : \A d \in B : p \notin bases(Parents, d)
    <3> HIDE DEF B
    <3> QED
      BY <1>1, <2>1 DEF isHierarchy, acyclic
  <2>3. counts(w, p, r)
    BY <1>2, <2>2 DEF counts
  <2>4. w[p] = (CHOOSE s : Sum(w, p, r, s))[Len(Children[p])]
    BY <1>5 DEF Width
  <2>5. w[p] = size(p, r, Len(Children[p]))
    BY <2>3, <2>4, SumCounts
  <2> QED
    BY <2>5, Whole
<1>6. Width(CHOOSE w : Width(w, r), r)
  BY <1>4
<1>7. getRangeWidth(c, r) = (CHOOSE w : Width(w, r))[c]
  BY DEF getRangeWidth, Width, Sum
<1> QED
  BY <1>5, <1>6, <1>7

LEMMA ANumber ==
  ASSUME Typed, NEW c \in Class, NEW r \in Class, numbered(c, r)
  PROVE  TreeIndices[c][r] \in Nat
<1>1. TreeIndices[c] \in [Class -> Nat \cup {NoIndex}]
  BY DEF Typed, TypeOK
<1>2. TreeIndices[c][r] \in Nat \cup {NoIndex}
  BY <1>1
<1> QED
  BY <1>2 DEF numbered

(* The numbers in the range of a class are those of it and the classes     *)
(* below it: all of them without phantoms, and no others in any case.      *)
THEOREM RangesAreSubtrees == Spec => []RangeIsSubtree
<1>1. IInv => RangeIsSubtree
  <2> SUFFICES ASSUME Done, NEW c \in Class, NEW r \in Class, numbered(c, r)
               PROVE  LET range == TreeIndices[c][r]
                                     .. TreeIndices[c][r] + getRangeWidth(c, r) - 1
                          below == {TreeIndices[d][r] : d \in descendants(c)}
                      IN range \subseteq below /\ (phantom = {} => below \subseteq range)
    BY DEF RangeIsSubtree, Done
  <2>1. TreeIndices[c][r] \in Nat
    BY DoneTrees, ANumber
  <2> QED
    BY <2>1, RangeWidth, CountedFinite, Subtree
<1> QED
  BY <1>1, Invariance, PTL

-----------------------------------------------------------------------------
(* Subobjects are paths along base classes.                                *)

Paths(c) ==
  {p \in Seq(Class) : /\ p # <<>> /\ p[1] = c
                      /\ \A j \in 1..(Len(p) - 1) : p[j + 1] \in bases(Parents, p[j])}

Subs(f) ==
  f = [c \in Class |->
         {<<c>>} \cup UNION {{<<c>> \o p : p \in f[b]} : b \in bases(Parents, c)}]

LEMMA Longer ==
  ASSUME isHierarchy(Parents), NEW c \in Class, NEW b \in bases(Parents, c), NEW p \in Paths(b)
  PROVE  <<c>> \o p \in Paths(c)
<1> DEFINE q == <<c>> \o p
<1>1. p \in Seq(Class) /\ <<c>> \in Seq(Class) /\ Len(<<c>>) = 1 /\ <<c>>[1] = c
      /\ p # <<>> /\ p[1] = b
      /\ \A j \in 1..(Len(p) - 1) : p[j + 1] \in bases(Parents, p[j])
  BY DEF Paths
<1>2. Len(p) \in Nat \ {0}
  BY <1>1, Popped
<1>3. /\ q \in Seq(Class) /\ Len(q) = 1 + Len(p)
      /\ \A j \in 1..(1 + Len(p)) : q[j] = IF j <= 1 THEN <<c>>[j] ELSE p[j - 1]
  BY <1>1, ConcatProperties
<1> HIDE DEF q
<1>4. q[1] = c /\ \A j \in 1..Len(p) : q[j + 1] = p[j]
  <2>1. \A j \in 1..Len(p) : j + 1 \in 1..(1 + Len(p)) /\ ~(j + 1 <= 1) /\ (j + 1) - 1 = j
    BY <1>2
  <2>2. 1 \in 1..(1 + Len(p)) /\ 1 <= 1
    BY <1>2
  <2> QED
    BY <1>1, <1>3, <2>1, <2>2
<1>5. ASSUME NEW j \in 1..(Len(q) - 1)
      PROVE  q[j + 1] \in bases(Parents, q[j])
  <2>1. CASE j = 1
    <3>1. 1 \in 1..Len(p)
      BY <1>2
    <3> QED
      BY <1>1, <1>4, <2>1, <3>1
  <2>2. CASE j # 1
    <3>1. /\ j - 1 \in 1..(Len(p) - 1) /\ j - 1 \in 1..Len(p) /\ j \in 1..Len(p)
          /\ (j - 1) + 1 = j
      BY <1>2, <1>3, <2>2
    <3>2. q[j + 1] = p[j] /\ q[j] = p[j - 1] /\ p[j] \in bases(Parents, p[j - 1])
      BY <1>1, <1>4, <3>1
    <3> QED
      BY <3>2
  <2> QED
    BY <2>1, <2>2
<1>6. q # <<>>
  BY <1>2, <1>3, EmptySeq
<1> QED
  BY <1>3, <1>4, <1>5, <1>6 DEF Paths, q

LEMMA Shorter ==
  ASSUME isHierarchy(Parents), NEW c \in Class, NEW q \in Paths(c), q # <<c>>
  PROVE  \E b \in bases(Parents, c) : \E p \in Paths(b) : q = <<c>> \o p
<1> DEFINE p == Tail(q)
<1>1. /\ q \in Seq(Class) /\ q # <<>> /\ q[1] = c
      /\ <<c>> \in Seq(Class) /\ Len(<<c>>) = 1 /\ <<c>>[1] = c
      /\ \A j \in 1..(Len(q) - 1) : q[j + 1] \in bases(Parents, q[j])
  BY DEF Paths
<1>2. /\ p \in Seq(Class) /\ Len(q) \in Nat \ {0} /\ Len(p) = Len(q) - 1
      /\ \A j \in 1..Len(p) : p[j] = q[j + 1]
  BY <1>1, HeadTailProperties, Popped
<1> HIDE DEF p
<1>3. Len(q) # 1
  <2> SUFFICES ASSUME Len(q) = 1
               PROVE  FALSE
    OBVIOUS
  <2>1. \A j \in 1..Len(q) : q[j] = <<c>>[j]
    BY <1>1
  <2> QED
    BY <1>1, <2>1, SeqEqual
<1>4. 1 \in 1..Len(p) /\ 1 \in 1..(Len(q) - 1) /\ p # <<>>
  BY <1>2, <1>3, EmptySeq
<1>5. p[1] \in bases(Parents, c)
  BY <1>1, <1>2, <1>4
<1>6. p \in Paths(p[1])
  <2>1. \A j \in 1..(Len(p) - 1) : p[j + 1] \in bases(Parents, p[j])
    <3> TAKE j \in 1..(Len(p) - 1)
    <3>1. j + 1 \in 1..(Len(q) - 1) /\ j \in 1..Len(p) /\ j + 1 \in 1..Len(p)
      BY <1>2
    <3>2. p[j] = q[j + 1] /\ p[j + 1] = q[(j + 1) + 1]
      BY <1>2, <3>1
    <3> QED
      BY <1>1, <3>1, <3>2
  <2> QED
    BY <1>2, <1>4, <2>1 DEF Paths
<1>7. q = <<c>> \o p
  <2> DEFINE t == <<c>> \o p
  <2>1. /\ t \in Seq(Class) /\ Len(t) = 1 + Len(p)
        /\ \A j \in 1..(1 + Len(p)) : t[j] = IF j <= 1 THEN <<c>>[j] ELSE p[j - 1]
    BY <1>1, <1>2, ConcatProperties
  <2> HIDE DEF t
  <2>2. Len(t) = Len(q)
    BY <1>2, <2>1
  <2>3. \A j \in 1..Len(q) : q[j] = t[j]
    <3> TAKE j \in 1..Len(q)
    <3>1. CASE j = 1
      BY <1>1, <1>2, <2>1, <3>1
    <3>2. CASE j # 1
      <4>1. j - 1 \in 1..Len(p) /\ j \in 1..(1 + Len(p)) /\ ~(j <= 1) /\ (j - 1) + 1 = j
        BY <1>2, <3>2
      <4> QED
        BY <1>2, <2>1, <4>1
    <3> QED
      BY <3>1, <3>2
  <2>4. q = t
    BY <1>1, <2>1, <2>2, <2>3, SeqEqual
  <2> QED
    BY <2>4 DEF t
<1> QED
  BY <1>5, <1>6, <1>7

LEMMA OnePath ==
  ASSUME isHierarchy(Parents), NEW c \in Class
  PROVE  <<c>> \in Paths(c)
<1>1. <<c>> \in Seq(Class) /\ Len(<<c>>) = 1 /\ <<c>>[1] = c /\ <<c>> # <<>>
  OBVIOUS
<1> QED
  BY <1>1 DEF Paths

LEMMA AllPaths ==
  ASSUME isHierarchy(Parents), NEW c \in Class, NEW f,
         \A b \in bases(Parents, c) : f[b] = Paths(b)
  PROVE  Paths(c) = {<<c>>} \cup UNION {{<<c>> \o p : p \in f[b]} : b \in bases(Parents, c)}
<1>1. ASSUME NEW q \in Paths(c), q # <<c>>
      PROVE  q \in UNION {{<<c>> \o p : p \in f[b]} : b \in bases(Parents, c)}
  <2>1. PICK b \in bases(Parents, c) : \E p \in Paths(b) : q = <<c>> \o p
    BY <1>1, Shorter
  <2> QED
    BY <2>1
<1>2. ASSUME NEW b \in bases(Parents, c), NEW p \in f[b]
      PROVE  <<c>> \o p \in Paths(c)
  BY Longer
<1>3. <<c>> \in Paths(c)
  BY OnePath
<1> DEFINE U == UNION {{<<c>> \o p : p \in f[b]} : b \in bases(Parents, c)}
<1>4. ASSUME NEW x \in U
      PROVE  x \in Paths(c)
  <2>1. PICK b \in bases(Parents, c) : x \in {<<c>> \o p : p \in f[b]}
    OBVIOUS
  <2>2. PICK p \in f[b] : x = <<c>> \o p
    BY <2>1
  <2> QED
    BY <1>2, <2>2
<1>5. Paths(c) \subseteq {<<c>>} \cup U
  BY <1>1
<1> HIDE DEF U
<1>6. Paths(c) = {<<c>>} \cup U
  BY <1>3, <1>4, <1>5
<1> QED
  BY <1>6 DEF U

LEMMA Subobjects ==
  ASSUME isHierarchy(Parents), NEW d \in Class
  PROVE  subobjects(d) = Paths(d)
<1>1. \A c \in Class : bases(Parents, c) \subseteq Class
  BY Bases
<1> DEFINE f0 == [c \in Class |-> Paths(c)]
<1>2. Subs(f0)
  <2>1. \A c \in Class :
          f0[c] = {<<c>>} \cup UNION {{<<c>> \o p : p \in f0[b]} : b \in bases(Parents, c)}
    <3> TAKE c \in Class
    <3>1. f0[c] = Paths(c) /\ \A b \in bases(Parents, c) : f0[b] = Paths(b)
      BY <1>1
    <3> HIDE DEF f0
    <3> QED
      BY <3>1, AllPaths
  <2>2. f0 = [c \in Class |-> f0[c]]
    OBVIOUS
  <2> HIDE DEF f0
  <2> QED
    BY <2>1, <2>2 DEF Subs
<1> HIDE DEF f0
<1>3. ASSUME NEW f, Subs(f)
      PROVE  f[d] = Paths(d)
  <2> DEFINE B == {c \in Class : f[c] # Paths(c)}
  <2> SUFFICES ASSUME B # {}
               PROVE  FALSE
    OBVIOUS
  <2>1. B \in (SUBSET Class) \ {{}}
    OBVIOUS
  <2>2. PICK c \in B : \A p \in B : p \notin bases(Parents, c)
    <3> HIDE DEF B
    <3> QED
      BY <2>1 DEF isHierarchy, acyclic
  <2>3. \A b \in bases(Parents, c) : f[b] = Paths(b)
    BY <1>1, <2>2
  <2>4. f[c] = {<<c>>} \cup UNION {{<<c>> \o p : p \in f[b]} : b \in bases(Parents, c)}
    BY <1>3 DEF Subs
  <2>5. f[c] = Paths(c)
    BY <2>3, <2>4, AllPaths
  <2> QED
    BY <2>5
<1>4. Subs(CHOOSE f : Subs(f))
  BY <1>2
<1>5. subobjects(d) = (CHOOSE f : Subs(f))[d]
  BY DEF subobjects, Subs
<1> QED
  BY <1>3, <1>4, <1>5

(* Every class on a path is above those before it, and is not one of them. *)
LEMMA Upward ==
  ASSUME isHierarchy(Parents), NEW d \in Class, NEW p \in Paths(d)
  PROVE  /\ p \in Seq(Class) /\ Len(p) \in Nat \ {0} /\ DOMAIN p = 1..Len(p)
         /\ p[1] = d /\ Last(p) = p[Len(p)]
         /\ \A j \in 1..Len(p) : p[j] \in Class
         /\ \A j \in 1..(Len(p) - 1) : p[j + 1] \in bases(Parents, p[j])
         /\ \A a, b \in 1..Len(p) : a <= b => p[b] \in Above(p[a])
         /\ \A a \in 1..Len(p) : p[a] = d => a = 1
<1>1. /\ p \in Seq(Class) /\ p # <<>> /\ p[1] = d
      /\ \A j \in 1..(Len(p) - 1) : p[j + 1] \in bases(Parents, p[j])
  BY DEF Paths
<1>2. Len(p) \in Nat \ {0} /\ DOMAIN p = 1..Len(p) /\ Last(p) = p[Len(p)]
      /\ \A j \in 1..Len(p) : p[j] \in Class
  BY <1>1, Popped, Members
<1>3. \A a, b \in 1..Len(p) : a <= b => p[b] \in Above(p[a])
  <2> TAKE a \in 1..Len(p)
  <2> DEFINE S == {n \in Nat : n <= Len(p) - a => p[a + n] \in Above(p[a])}
  <2>1. 0 \in S
    <3>1. a + 0 = a /\ p[a] \in Above(p[a])
      BY <1>2, Ancestors DEF Above
    <3> QED
      BY <3>1
  <2>2. ASSUME NEW m \in 0..Len(p), m < Len(p), m \in S
        PROVE  m + 1 \in S
    <3> SUFFICES ASSUME m + 1 <= Len(p) - a
                 PROVE  p[a + (m + 1)] \in Above(p[a])
      BY <1>2
    <3>1. /\ m <= Len(p) - a /\ a + m \in 1..(Len(p) - 1) /\ a + (m + 1) = (a + m) + 1
          /\ a + m \in 1..Len(p)
      BY <1>2
    <3>2. p[a + m] \in Above(p[a])
      BY <2>2, <3>1
    <3>3. p[(a + m) + 1] \in bases(Parents, p[a + m])
      BY <1>1, <3>1
    <3>4. bases(Parents, p[a + m]) \subseteq Above(p[a])
      BY <1>2, <3>2, Ancestors DEF Above
    <3> QED
      BY <3>1, <3>3, <3>4
  <2> HIDE DEF S
  <2>3. 0..Len(p) \subseteq S
    BY <1>2, <2>1, <2>2, UpTo
  <2> TAKE b \in 1..Len(p)
  <2> HAVE a <= b
  <2>4. b - a \in 0..Len(p) /\ b - a <= Len(p) - a /\ a + (b - a) = b
    BY <1>2
  <2> QED
    BY <2>3, <2>4 DEF S
<1>4. ASSUME NEW a \in 1..Len(p), p[a] = d, a # 1
      PROVE  FALSE
  <2>1. 2 \in 1..Len(p) /\ 2 <= a /\ 1 \in 1..(Len(p) - 1) /\ 1 + 1 = 2
    BY <1>2, <1>4
  <2>2. d \in Above(p[2]) /\ p[2] \in bases(Parents, d)
    <3>1. p[a] \in Above(p[2])
      BY <1>3, <1>4, <2>1
    <3>2. p[1 + 1] \in bases(Parents, p[1])
      BY <1>1, <2>1
    <3> QED
      BY <1>1, <1>4, <2>1, <3>1, <3>2
  <2> QED
    BY <2>2, NoCycle DEF Above
<1> QED
  BY <1>1, <1>2, <1>3, <1>4

(* The class traced is on the path, and the path goes on from there along  *)
(* first bases.                                                            *)
LEMMA Traceable ==
  ASSUME isHierarchy(Parents), NEW d \in Class, NEW p \in Paths(d)
  PROVE  \E a \in 1..Len(p) :
           /\ tracedAt(p) = p[a]
           /\ \A b \in a..(Len(p) - 1) : p[b + 1] = Parents[p[b]][1]
<1> DEFINE first(a) == \A b \in a..(Len(p) - 1) : p[b + 1] = Parents[p[b]][1]
           S == {a \in 1..Len(p) : first(a)}
           good(a) == first(a) /\ (a > 1 => ~first(a - 1))
<1>1. Len(p) \in Nat \ {0} /\ DOMAIN p = 1..Len(p)
  BY Upward
<1>2. S \in SUBSET Nat /\ S # {}
  <2>1. Len(p)..(Len(p) - 1) = {} /\ Len(p) \in 1..Len(p)
    BY <1>1
  <2>2. Len(p) \in S
    BY <2>1
  <2> QED
    BY <2>2
<1> HIDE DEF first
<1>3. PICK m \in S : \A n \in S : m <= n
  <2> HIDE DEF S
  <2> QED
    BY <1>2, Least
<1>4. m \in 1..Len(p) /\ good(m)
  <2>1. m > 1 => m - 1 \in 1..Len(p) /\ ~(m <= m - 1)
    BY <1>1
  <2> QED
    BY <1>3, <2>1
<1> DEFINE a == CHOOSE a \in DOMAIN p : good(a)
<1>5. a \in 1..Len(p) /\ good(a)
  <2> HIDE DEF good
  <2> QED
    BY <1>1, <1>4
<1>6. tracedAt(p) = p[a]
  BY DEF tracedAt, first
<1> HIDE DEF a
<1>7. \A b \in a..(Len(p) - 1) : p[b + 1] = Parents[p[b]][1]
  BY <1>5 DEF first
<1> QED
  BY <1>5, <1>6, <1>7

(* A downcast to a class that the object does not derive from: the object  *)
(* is traced by a number of its class, which is in no range of that class. *)
THEOREM BadCastsReported == Spec => []BadTreeCastReported
<1>1. ASSUME Done, NEW d \in Class, NEW c \in Class, c \notin ancestors(Parents, d),
             NEW q \in subobjects(d)
      PROVE  "safe" \notin verdicts(q, c)
  <2>1. /\ Typed /\ isHierarchy(Parents) /\ NumbersDistinct /\ noDiamonds
        /\ \A a, x \in Class : x \in descendants(a) <=> a \in Above(x)
        /\ \A a \in Class : descendants(a) \subseteq Class
        /\ \A x, s \in Class : numbered(x, s) <=> Baseless(s) /\ s \in Above(x)
    BY <1>1, DoneTrees, Below DEF Done, IInv, Numbers, apart
  <2>2. q \in Paths(d)
    BY <2>1, Subobjects
  <2>3. q[1] = d /\ tracedAt(q) \in Class
    BY <2>1, <2>2, Upward, Traceable
  <2> DEFINE v == getFakeVPointer(d, tracedAt(q))
  <2>4. v = NoVPointer
        \/ \E s \in Class : numbered(d, s) /\ v = [root |-> s, index |-> TreeIndices[d][s]]
    <3>1. primaryRoot(d) \in Class
      BY <2>1, PrimaryRoot
    <3> QED
      BY <2>3, <3>1 DEF getFakeVPointer
  <2>5. ASSUME NEW r \in rootsForCast(Last(q), c), verdict(q, c, r) = "safe"
        PROVE  FALSE
    <3>1. r \in Class /\ numbered(c, r)
      BY <2>5 DEF rootsForCast
    <3>2. /\ v.index # NoIndex
          /\ TreeIndices[c][r] <= v.index
          /\ v.index < TreeIndices[c][r] + getRangeWidth(c, r)
      BY <2>3, <2>5 DEF verdict
    <3>3. PICK s \in Class : numbered(d, s) /\ v.index = TreeIndices[d][s]
      BY <2>4, <3>2 DEF NoVPointer
    <3>4. TreeIndices[d][s] \in Nat /\ TreeIndices[c][r] \in Nat
      BY <2>1, <3>1, <3>3, ANumber
    <3>5. /\ getRangeWidth(c, r) \in Nat
          /\ getRangeWidth(c, r) <= Cardinality(descendants(c))
          /\ Cardinality(descendants(c)) \in Nat
          /\ {TreeIndices[x][r] : x \in descendants(c)} =
               TreeIndices[c][r] .. TreeIndices[c][r] + Cardinality(descendants(c)) - 1
      BY <1>1, <3>1, RangeWidth, CountedFinite, Subtree
    <3>6. TreeIndices[d][s] \in
            TreeIndices[c][r] .. TreeIndices[c][r] + Cardinality(descendants(c)) - 1
      BY <3>2, <3>3, <3>4, <3>5
    <3>7. PICK x \in descendants(c) : TreeIndices[d][s] = TreeIndices[x][r]
      BY <3>5, <3>6
    <3>8. x \in Class /\ c \in Above(x)
      BY <2>1
    <3>9. numbered(x, r)
      BY <3>3, <3>7 DEF numbered
    <3>10. x = d
      BY <2>1, <3>1, <3>3, <3>7, <3>8, <3>9 DEF NumbersDistinct
    <3> QED
      BY <1>1, <3>8, <3>10 DEF Above
  <2> QED
    BY <2>5 DEF verdicts
<1>2. IInv => BadTreeCastReported
  BY <1>1 DEF BadTreeCastReported, BadCastReported, Done
<1> QED
  BY <1>2, Invariance, PTL

-----------------------------------------------------------------------------
(* Downcasts that undo an upcast.                                          *)

LEMMA Joined ==
  ASSUME isHierarchy(Parents), NEW d \in Class, NEW c \in Class,
         NEW q \in Paths(d), Last(q) = c, NEW u \in Paths(c)
  PROVE  LET s == q \o Tail(u)
         IN s \in Paths(d) /\ Last(s) = Last(u)
<1> DEFINE t == Tail(u)
           s == q \o t
           m == Len(q)
<1>1. /\ q \in Seq(Class) /\ m \in Nat \ {0} /\ q[1] = d /\ q[m] = c
      /\ \A j \in 1..(m - 1) : q[j + 1] \in bases(Parents, q[j])
  BY Upward
<1>2. /\ u \in Seq(Class) /\ Len(u) \in Nat \ {0} /\ u[1] = c /\ Last(u) = u[Len(u)]
      /\ \A j \in 1..(Len(u) - 1) : u[j + 1] \in bases(Parents, u[j])
      /\ u # <<>>
  BY Upward DEF Paths
<1>3. /\ t \in Seq(Class) /\ Len(t) = Len(u) - 1
      /\ \A j \in 1..Len(t) : t[j] = u[j + 1]
  BY <1>2, HeadTailProperties
<1> HIDE DEF t
<1>4. /\ s \in Seq(Class) /\ Len(s) = m + Len(t)
      /\ \A j \in 1..(m + Len(t)) : s[j] = IF j <= m THEN q[j] ELSE t[j - m]
  BY <1>1, <1>3, ConcatProperties
<1> HIDE DEF s, m
<1>5. \A j \in 1..m : s[j] = q[j]
  <2>1. \A j \in 1..m : j \in 1..(m + Len(t)) /\ j <= m
    BY <1>1, <1>2, <1>3
  <2> QED
    BY <1>4, <2>1
<1>6. \A j \in 1..Len(u) : s[m + j - 1] = u[j]
  <2> TAKE j \in 1..Len(u)
  <2>1. CASE j = 1
    <3>1. m + j - 1 = m /\ m \in 1..m
      BY <1>1, <2>1
    <3> QED
      BY <1>1, <1>2, <1>5, <2>1, <3>1
  <2>2. CASE j # 1
    <3>1. /\ m + j - 1 \in 1..(m + Len(t)) /\ ~(m + j - 1 <= m)
          /\ (m + j - 1) - m = j - 1 /\ j - 1 \in 1..Len(t) /\ (j - 1) + 1 = j
      BY <1>1, <1>2, <1>3, <2>2
    <3> QED
      BY <1>3, <1>4, <3>1
  <2> QED
    BY <2>1, <2>2
<1>7. ASSUME NEW j \in 1..(Len(s) - 1)
      PROVE  s[j + 1] \in bases(Parents, s[j])
  <2>1. CASE j < m
    <3>1. j \in 1..(m - 1) /\ j \in 1..m /\ j + 1 \in 1..m
      BY <1>1, <2>1
    <3> QED
      BY <1>1, <1>5, <3>1
  <2>2. CASE j >= m
    <3> DEFINE n == j - m + 1
    <3>1. /\ n \in 1..(Len(u) - 1) /\ n \in 1..Len(u) /\ n + 1 \in 1..Len(u)
          /\ m + n - 1 = j /\ m + (n + 1) - 1 = j + 1
      BY <1>1, <1>2, <1>3, <1>4, <2>2
    <3> HIDE DEF n
    <3>2. s[j] = u[n] /\ s[j + 1] = u[n + 1]
      BY <1>6, <3>1
    <3> QED
      BY <1>2, <3>1, <3>2
  <2> QED
    BY <1>1, <2>1, <2>2
<1>8. s # <<>> /\ s[1] = d
  <2>1. Len(s) # 0 /\ 1 \in 1..m
    BY <1>1, <1>2, <1>3, <1>4
  <2> QED
    BY <1>1, <1>4, <1>5, <2>1, EmptySeq
<1>9. s \in Paths(d)
  BY <1>4, <1>7, <1>8 DEF Paths
<1>10. Last(s) = Last(u)
  <2>1. Last(s) = s[Len(s)]
    BY <1>9, Upward
  <2>2. Len(s) = m + Len(u) - 1 /\ Len(u) \in 1..Len(u)
    BY <1>1, <1>2, <1>3, <1>4
  <2> QED
    BY <1>2, <1>6, <2>1, <2>2
<1> QED
  BY <1>9, <1>10 DEF s, t

(* firstBases leads upwards, one way only *)
LEMMA FirstBases ==
  ASSUME isHierarchy(Parents), NEW d \in Class, NEW p \in Paths(d),
         \A b \in 1..(Len(p) - 1) : p[b + 1] = Parents[p[b]][1],
         NEW r \in reach(firstBases, d), Baseless(r)
  PROVE  r \in Above(Last(p))
<1>1. /\ Len(p) \in Nat \ {0} /\ p[1] = d /\ Last(p) = p[Len(p)]
      /\ \A j \in 1..Len(p) : p[j] \in Class
      /\ \A j \in 1..(Len(p) - 1) : p[j + 1] \in bases(Parents, p[j])
  BY Upward
<1>2. firstBases \in Edges /\ \A e \in firstBases : e[2] \in bases(Parents, e[1])
                                                    /\ e[2] = Parents[e[1]][1]
  <2>1. \A c \in Class : Parents[c] # <<>> =>
          Parents[c][1] \in bases(Parents, c) /\ Parents[c][1] \in Class
    <3> SUFFICES ASSUME NEW c \in Class, Parents[c] # <<>>
                 PROVE  Parents[c][1] \in bases(Parents, c) /\ Parents[c][1] \in Class
      OBVIOUS
    <3>1. Parents[c] \in Seq(Class)
      BY Bases
    <3>2. Len(Parents[c]) \in Nat \ {0}
      BY <3>1, Popped
    <3>3. 1 \in 1..Len(Parents[c])
      BY <3>2
    <3> QED
      BY <3>3, Bases
  <2> QED
    BY <2>1 DEF firstBases, Edges
<1> DEFINE S == {n \in Nat : n + 1 \in 1..Len(p) => r \in reach(firstBases, p[n + 1])}
<1>3. 0 \in S
  BY <1>1
<1>4. ASSUME NEW m \in 0..Len(p), m < Len(p), m \in S
      PROVE  m + 1 \in S
  <2> SUFFICES ASSUME (m + 1) + 1 \in 1..Len(p)
               PROVE  r \in reach(firstBases, p[(m + 1) + 1])
    BY <1>4
  <2>1. m + 1 \in 1..Len(p) /\ m + 1 \in 1..(Len(p) - 1)
    BY <1>1, <1>4
  <2>2. r \in reach(firstBases, p[m + 1]) /\ p[m + 1] \in Class
    BY <1>1, <1>4, <2>1
  <2>3. r # p[m + 1]
    BY <1>1, <2>1 DEF Baseless, bases, Range
  <2>4. PICK e \in firstBases : e[1] = p[m + 1] /\ r \in reach(firstBases, e[2])
    BY <1>2, <2>2, <2>3, ReachFirst
  <2> QED
    BY <1>2, <2>1, <2>4
<1> HIDE DEF S
<1>5. 0..Len(p) \subseteq S
  BY <1>1, <1>3, <1>4, UpTo
<1>6. Len(p) - 1 \in 0..Len(p) /\ (Len(p) - 1) + 1 = Len(p) /\ Len(p) \in 1..Len(p)
  BY <1>1
<1>7. r \in reach(firstBases, Last(p)) /\ Last(p) \in Class
  BY <1>1, <1>5, <1>6 DEF S
<1>8. reach(firstBases, Last(p)) \subseteq Above(Last(p))
  <2>1. \A e \in firstBases : e[1] \in Above(Last(p)) => e[2] \in Above(Last(p))
    BY <1>2, <1>7, Ancestors DEF Above
  <2>2. Last(p) \in Above(Last(p))
    BY <1>7, Ancestors DEF Above
  <2> QED
    BY <1>2, <1>7, <2>1, <2>2, Reach
<1> QED
  BY <1>7, <1>8

(* A cast from p to c can be checked in every tree that p is in.           *)
LEMMA CastTree ==
  ASSUME Done, NEW c \in Class, NEW u \in Paths(c), Last(u) # c,
         NEW r \in Class, numbered(Last(u), r)
  PROVE  r \in rootsForCast(Last(u), c)
<1>1. /\ Typed /\ isHierarchy(Parents) /\ noDiamonds
      /\ \A x, s \in Class : numbered(x, s) <=> Baseless(s) /\ s \in Above(x)
      /\ \A x \in Class : Diamonds[x] = {}
  BY DoneTrees, NoMarks DEF Done, IInv, Traced
<1>2. /\ Len(u) \in Nat \ {0} /\ u[1] = c /\ Last(u) = u[Len(u)]
      /\ \A j \in 1..Len(u) : u[j] \in Class
      /\ \A j \in 1..(Len(u) - 1) : u[j + 1] \in bases(Parents, u[j])
      /\ \A a, b \in 1..Len(u) : a <= b => u[b] \in Above(u[a])
  BY <1>1, Upward
<1>3. Len(u) > 1 /\ Len(u) \in 1..Len(u) /\ 1 \in 1..Len(u)
  BY <1>2
<1>4. \A j \in 1..Len(u) : numbered(u[j], r)
  <2> TAKE j \in 1..Len(u)
  <2>1. u[Len(u)] \in Above(u[j])
    BY <1>2, <1>3
  <2>2. r \in Above(u[Len(u)]) /\ Baseless(r)
    BY <1>1, <1>2, <1>3
  <2> QED
    BY <1>1, <1>2, <2>1, <2>2, AboveTrans
<1>5. castEdges(r) \in Edges
  BY DEF castEdges, upwards, Edges
<1>6. \A j \in 1..(Len(u) - 1) : <<u[j], u[j + 1]>> \in castEdges(r)
  <2> TAKE j \in 1..(Len(u) - 1)
  <2>1. j \in 1..Len(u) /\ j + 1 \in 1..Len(u)
    BY <1>2
  <2>2. /\ <<u[j], u[j + 1]>> \in upwards(Parents)
        /\ numbered(u[j + 1], r) /\ <<r, u[j]>> \notin Diamonds[u[j + 1]]
    BY <1>1, <1>2, <1>4, <2>1 DEF upwards
  <2> QED
    BY <2>2 DEF castEdges
<1> DEFINE S == {n \in Nat : n + 1 \in 1..Len(u) => u[n + 1] \in reach(castEdges(r), c)}
<1>7. 0 \in S
  BY <1>2, <1>5, Reach
<1>8. ASSUME NEW m \in 0..Len(u), m < Len(u), m \in S
      PROVE  m + 1 \in S
  <2> SUFFICES ASSUME (m + 1) + 1 \in 1..Len(u)
               PROVE  u[(m + 1) + 1] \in reach(castEdges(r), c)
    BY <1>8
  <2>1. m + 1 \in 1..Len(u) /\ m + 1 \in 1..(Len(u) - 1)
    BY <1>2, <1>8
  <2>2. u[m + 1] \in reach(castEdges(r), c) /\ <<u[m + 1], u[(m + 1) + 1]>> \in castEdges(r)
    BY <1>6, <1>8, <2>1
  <2> QED
    BY <1>5, <2>2, Reach
<1> HIDE DEF S
<1>9. 0..Len(u) \subseteq S
  BY <1>2, <1>7, <1>8, UpTo
<1>10. /\ Len(u) - 2 \in 0..Len(u) /\ (Len(u) - 2) + 1 = Len(u) - 1
       /\ Len(u) - 1 \in 1..Len(u) /\ Len(u) - 1 \in 1..(Len(u) - 1) /\ (Len(u) - 1) + 1 = Len(u)
  BY <1>2, <1>3
<1>11. u[Len(u) - 1] \in reach(castEdges(r), c)
  BY <1>9, <1>10 DEF S
<1>12. <<u[Len(u) - 1], Last(u)>> \in castEdges(r)
  BY <1>2, <1>6, <1>10
<1>13. numbered(c, r)
  BY <1>2, <1>3, <1>4
<1> QED
  BY <1>11, <1>12, <1>13 DEF rootsForCast, castIn

(* The tree that a subobject is traced in has the last class of its path.  *)
LEMMA TracedTree ==
  ASSUME Done, NEW d \in Class, NEW s \in Paths(d),
         getFakeVPointer(d, tracedAt(s)) # NoVPointer
  PROVE  \E r \in Class :
           /\ getFakeVPointer(d, tracedAt(s)) = [root |-> r, index |-> TreeIndices[d][r]]
           /\ numbered(d, r) /\ numbered(Last(s), r)
<1>1. /\ Typed /\ isHierarchy(Parents)
      /\ \A x, t \in Class : numbered(x, t) <=> Baseless(t) /\ t \in Above(x)
  BY DoneTrees
<1>2. /\ Len(s) \in Nat \ {0} /\ s[1] = d /\ Last(s) = s[Len(s)]
      /\ \A j \in 1..Len(s) : s[j] \in Class
      /\ \A j \in 1..(Len(s) - 1) : s[j + 1] \in bases(Parents, s[j])
      /\ \A a \in 1..Len(s) : s[a] = d => a = 1
  BY <1>1, Upward
<1>3. PICK a \in 1..Len(s) :
        /\ tracedAt(s) = s[a]
        /\ \A b \in a..(Len(s) - 1) : s[b + 1] = Parents[s[b]][1]
  BY <1>1, Traceable
<1>4. Len(s) \in 1..Len(s) /\ Last(s) \in Class
  BY <1>2
<1> DEFINE e == tracedAt(s)
           r == IF d = e THEN primaryRoot(d) ELSE e
<1>5. e \in Class /\ r \in Class
  BY <1>1, <1>2, <1>3, PrimaryRoot
<1>6. /\ getFakeVPointer(d, e) = [root |-> r, index |-> TreeIndices[d][r]]
      /\ numbered(d, r)
  BY DEF getFakeVPointer
<1>7. Baseless(r)
  BY <1>1, <1>5, <1>6
<1>8. r \in Above(Last(s))
  <2>1. CASE e = d
    <3>1. a = 1
      BY <1>2, <1>3, <2>1
    <3>2. r \in reach(firstBases, d)
      BY <1>1, <2>1, PrimaryRoot
    <3> HIDE DEF r, e
    <3> QED
      BY <1>1, <1>3, <1>7, <3>1, <3>2, FirstBases
  <2>2. CASE e # d
    <3>1. r = s[a]
      BY <1>3, <2>2
    <3>2. a = Len(s)
      <4> SUFFICES ASSUME a # Len(s)
                   PROVE  FALSE
        OBVIOUS
      <4>1. a \in 1..(Len(s) - 1)
        BY <1>2
      <4>2. s[a + 1] \in bases(Parents, r)
        BY <1>2, <3>1, <4>1
      <4> HIDE DEF r
      <4> QED
        BY <1>7, <4>2 DEF Baseless, bases, Range
    <3> HIDE DEF r, e
    <3> QED
      BY <1>1, <1>2, <1>4, <3>1, <3>2, Ancestors DEF Above
  <2> QED
    BY <2>1, <2>2
<1>9. numbered(Last(s), r)
  BY <1>1, <1>4, <1>5, <1>7, <1>8
<1> HIDE DEF r
<1> QED
  BY <1>5, <1>6, <1>9

(* A downcast that undoes an upcast passes in the tree that the object is  *)
(* traced in, which is a tree that the cast can be checked in, in programs *)
(* without diamonds and phantoms.                                          *)
THEOREM SafeCastsPass == Spec => []SafeInOwnTree
<1>1. ASSUME Done, phantom = {},
             NEW d \in Class, NEW c \in Class, NEW p \in Class, downcast(p, c),
             NEW q \in upcasts(d, c),
             getFakeVPointer(d, tracedAt(undone(q, c, p))) # NoVPointer
      PROVE  LET s  == undone(q, c, p)
                 vp == getFakeVPointer(d, tracedAt(s))
             IN vp.root \in rootsForCast(p, c) /\ verdict(s, c, vp.root) = "safe"
  <2>1. /\ Typed /\ isHierarchy(Parents)
        /\ \A a, x \in Class : x \in descendants(a) <=> a \in Above(x)
    BY <1>1, DoneTrees
  <2> DEFINE u == CHOOSE u \in upcasts(c, p) : TRUE
             s == q \o Tail(u)
             vp == getFakeVPointer(d, tracedAt(s))
  <2>2. undone(q, c, p) = s
    BY DEF undone
  <2>3. u \in upcasts(c, p) /\ p # c
    <3>1. upcasts(c, p) # {} /\ p # c
      BY <1>1, FS_EmptySet DEF downcast
    <3> QED
      BY <3>1
  <2> HIDE DEF u
  <2>4. u \in Paths(c) /\ Last(u) = p /\ q \in Paths(d) /\ Last(q) = c
    BY <2>1, <2>3, Subobjects DEF upcasts
  <2>5. s \in Paths(d) /\ Last(s) = p
    BY <2>1, <2>4, Joined
  <2> HIDE DEF s
  <2>6. PICK r \in Class :
          /\ vp = [root |-> r, index |-> TreeIndices[d][r]]
          /\ numbered(d, r) /\ numbered(p, r)
    BY <1>1, <2>2, <2>5, TracedTree
  <2>7. r \in rootsForCast(p, c)
    BY <1>1, <2>3, <2>4, <2>6, CastTree
  <2>8. numbered(c, r)
    BY <2>7 DEF rootsForCast
  <2>9. d \in descendants(c)
    <3>1. q[1] = d /\ Last(q) = q[Len(q)] /\ 1 \in 1..Len(q) /\ Len(q) \in 1..Len(q) /\ 1 <= Len(q)
          /\ \A a, b \in 1..Len(q) : a <= b => q[b] \in Above(q[a])
      BY <2>1, <2>4, Upward
    <3>2. c \in Above(d)
      BY <2>4, <3>1
    <3> QED
      BY <2>1, <3>2
  <2>10. /\ getRangeWidth(c, r) = Cardinality(descendants(c))
         /\ Cardinality(descendants(c)) \in Nat
         /\ {TreeIndices[x][r] : x \in descendants(c)} =
              TreeIndices[c][r] .. TreeIndices[c][r] + Cardinality(descendants(c)) - 1
    BY <1>1, <2>8, RangeWidth, CountedFinite, Subtree
  <2>11. TreeIndices[d][r] \in
           TreeIndices[c][r] .. TreeIndices[c][r] + Cardinality(descendants(c)) - 1
    BY <2>9, <2>10
  <2>12. TreeIndices[d][r] \in Nat /\ TreeIndices[c][r] \in Nat
    BY <2>1, <2>6, <2>8, ANumber
  <2>13. /\ TreeIndices[d][r] # NoIndex /\ TreeIndices[c][r] <= TreeIndices[d][r]
         /\ TreeIndices[d][r] < TreeIndices[c][r] + getRangeWidth(c, r)
    BY <2>10, <2>11, <2>12 DEF NoIndex
  <2>14. s[1] = d
    BY <2>1, <2>5, Upward
  <2>15. vp.root = r /\ vp.index = TreeIndices[d][r]
    BY <2>6
  <2> HIDE DEF vp
  <2>16. verdict(s, c, r) = "safe"
    BY <2>13, <2>14, <2>15 DEF verdict, vp
  <2> QED
    BY <2>2, <2>7, <2>15, <2>16 DEF vp
<1>2. IInv => SafeInOwnTree
  BY <1>1 DEF SafeInOwnTree, Done
<1> QED
  BY <1>2, Invariance, PTL
=============================================================================
