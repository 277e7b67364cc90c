----------------------------- MODULE ClassTree -----------------------------
(***************************************************************************)
(* Fake vtables (llvm/lib/Transforms/Utils/CastSanUtil.cpp): the class     *)
(* hierarchy is read from the metadata, every class is numbered in the     *)
(* trees of the roots it derives from, an object is traced by the number   *)
(* of its class, and a cast is the check of a range of numbers.            *)
(*                                                                         *)
(* A class stands for its hash, so that the order of the classes is the    *)
(* iteration order of the map Types.  Base classes are not virtual and     *)
(* not empty: the first base lies at the start of the object, every other  *)
(* base at an offset of its own.                                           *)
(*                                                                         *)
(* The pass walks over the hierarchy three times, in recursive functions   *)
(* with a loop in each.  An iteration of a loop is a step: it calls the    *)
(* function for another class, goes on to the next one, or returns.        *)
(***************************************************************************)
EXTENDS Integers, FiniteSets, SequencesExt

CONSTANTS
  Class,        \* classes of the program, numbers ordered as their hashes
  Hierarchies,  \* lists of bases for the classes
  Phantoms      \* for each, sets of <<base, derived>> that have the same size

NoIndex == -1   \* the class has no number in a tree

-----------------------------------------------------------------------------
(* Hierarchies, as functions from classes to lists of bases.               *)

(* The classes that are reached from c along edges.                        *)
reach(edges, c) ==
  LET within[n \in 0..Cardinality(Class)] ==
        IF n = 0 THEN {c}
        ELSE LET S == within[n - 1]
             IN S \cup {e[2] : e \in {e \in edges : e[1] \in S}}
  IN within[Cardinality(Class)]

bases(h, c) == Range(h[c])
derivations(h) == {p \in Class \X Class : p[1] \in bases(h, p[2])}
upwards(h) == {e \in Class \X Class : e[2] \in bases(h, e[1])}
ancestors(h, c) == reach(upwards(h), c)

(* Among any classes there is one without a base, and one without a        *)
(* derived class: no class is derived from itself.                         *)
acyclic(h) ==
  \A S \in (SUBSET Class) \ {{}} :
    /\ \E c \in S : \A p \in S : p \notin bases(h, c)
    /\ \E p \in S : \A c \in S : p \notin bases(h, c)

(* a base that is also a base of another base could not be named           *)
accessible(h, c) == \A p, q \in bases(h, c) : p # q => p \notin ancestors(h, q)

diamondFree(h, c) ==
  \A p, q \in bases(h, c) : p # q => ancestors(h, p) \cap ancestors(h, q) = {}

isHierarchy(h) ==
  /\ h \in [Class -> Seq(Class)] /\ \A c \in Class : IsInjective(h[c])
  /\ acyclic(h)
  /\ \A c \in Class : accessible(h, c)

ASSUME ClassAssumption ==
  /\ Class \subseteq Nat \ {0} /\ IsFiniteSet(Class)
  /\ \A h \in Hierarchies : isHierarchy(h)
  /\ \A h \in Hierarchies : Phantoms[h] \subseteq SUBSET derivations(h)

-----------------------------------------------------------------------------
VARIABLES
  pc,           \* the phase of the pass
  Parents,      \* bases of every class, in the order of their declaration
  phantom,      \* pairs <<base, derived>> that have the same size
  Children,     \* derived classes of every class
  Roots,        \* classes with a tree
  Diamonds,     \* DiamondRootInTreeWithChild: <<root, child>> pairs
  TreeIndices,  \* the number of a class in the tree of a root
  type,         \* the last class that a loop over Types has come to
  pos,          \* where a loop over Roots is
  stack,        \* the calls of a recursive function, the innermost last
  i,            \* where the loop of the call for a class is
  k,            \* how often it has called the function for that class
  Descendents,  \* classes met in a walk
  Index         \* the next number

hierarchy == <<Parents, phantom>>
walk == <<stack, i, k>>
vars == <<pc, hierarchy, Children, Roots, Diamonds, TreeIndices, type, pos,
          walk, Descendents, Index>>

Phases == {"extendTypeMetadata", "findDiamonds", "buildFakeVTables",
           "removeDuplicates", "done"}

TypeOK ==
  /\ pc \in Phases
  /\ Parents \in [Class -> Seq(Class)]
  /\ phantom \subseteq Class \X Class
  /\ Children \in [Class -> Seq(Class)]
  /\ Roots \in Seq(Class)
  /\ Diamonds \in [Class -> SUBSET (Class \X Class)]
  /\ TreeIndices \in [Class -> [Class -> Nat \cup {NoIndex}]]
  /\ type \in Class \cup {0} /\ pos \in Nat \ {0}
  /\ stack \in Seq(Class) /\ i \in [Class -> Nat] /\ k \in [Class -> Nat]
  /\ Descendents \subseteq Class /\ Index \in Nat

(* the members of S in the order of their hashes                           *)
inOrder(S) ==
  {s \in [1..Cardinality(S) -> S] :
     Range(s) = S /\ \A a, b \in DOMAIN s : a < b => s[a] < s[b]}

(* getTypeMetadata: the parents are known; classes without one are roots.  *)
Init ==
  /\ pc = "extendTypeMetadata"
  /\ Parents \in Hierarchies
  /\ phantom \in Phantoms[Parents]
  /\ Children = [c \in Class |-> <<>>]
  /\ Roots \in inOrder({c \in Class : Parents[c] = <<>>})
  /\ Diamonds = [c \in Class |-> {}]
  /\ TreeIndices = [c \in Class |-> [r \in Class |-> NoIndex]]
  /\ type = 0 /\ pos = 1
  /\ stack = <<>> /\ i = [c \in Class |-> 0] /\ k = [c \in Class |-> 0]
  /\ Descendents = {} /\ Index = 0

(* The walks.  In a walk over a tree the first call is for the root.       *)
walking(phase) == pc = phase /\ stack # <<>>
current == Last(stack)
root == stack[1]

call(c) == stack' = Append(stack, c)
return == stack' = Front(stack) /\ UNCHANGED <<i, k>>

(* the loop over the roots ends, and another begins                        *)
rootsDone(phase, next) ==
  /\ pc = phase /\ stack = <<>> /\ pos > Len(Roots)
  /\ pc' = next /\ pos' = 1

-----------------------------------------------------------------------------
(* Children lists: from every leaf upwards, each class is appended to the  *)
(* list of its parent when it is first met there.                          *)

isLeaf(c) == \A d \in Class : c \notin bases(Parents, d)

nextType(c) == c > type /\ \A d \in Class : d > type => c <= d

extendTypeMetadata ==
  /\ pc = "extendTypeMetadata" /\ stack = <<>>
  /\ \/ \E c \in Class :
          /\ nextType(c) /\ type' = c
          /\ IF isLeaf(c) THEN call(c) /\ i' = [i EXCEPT ![c] = 1]
             ELSE UNCHANGED <<stack, i>>
          /\ UNCHANGED pc
     \/ /\ \A c \in Class : c <= type
        /\ pc' = "findDiamonds"
        /\ UNCHANGED <<type, stack, i>>
  /\ UNCHANGED <<hierarchy, Children, Roots, Diamonds, TreeIndices, pos, k,
                 Descendents, Index>>

setParentsChildrenRecursive ==
  /\ walking("extendTypeMetadata")
  /\ LET t == current
         p == Parents[t][i[t]]
     IN \/ i[t] > Len(Parents[t]) /\ return /\ UNCHANGED Children
        \/ /\ i[t] <= Len(Parents[t])
           /\ IF t \in Range(Children[p])
              THEN i' = [i EXCEPT ![t] = @ + 1] /\ UNCHANGED <<stack, Children>>
              ELSE /\ Children' = [Children EXCEPT ![p] = Append(@, t)]
                   /\ call(p) /\ i' = [i EXCEPT ![t] = @ + 1, ![p] = 1]
           /\ UNCHANGED k
  /\ UNCHANGED <<pc, hierarchy, Roots, Diamonds, TreeIndices, type, pos,
                 Descendents, Index>>

-----------------------------------------------------------------------------
(* Diamonds: in a walk over the tree of root, the class whose child has    *)
(* been met before becomes a root of its own, and its other children are   *)
(* not visited.  The list of roots grows while it is walked over.          *)

(* Some operators have a wrong variant next to them, which the properties  *)
(* must tell apart from the code: here, no look whether x is in the list.  *)
pushAlways(s, x) == Append(s, x)

pushNew(s, x) == IF x \in Range(s) THEN s ELSE Append(s, x)

diamond(c) == {<<root, c>>}

findDiamonds ==
  /\ \/ rootsDone("findDiamonds", "buildFakeVTables")
        /\ UNCHANGED <<stack, i, Descendents>>
     \/ /\ pc = "findDiamonds" /\ stack = <<>> /\ pos <= Len(Roots)
        /\ Descendents' = {Roots[pos]}
        /\ call(Roots[pos]) /\ i' = [i EXCEPT ![Roots[pos]] = 1]
        /\ pos' = pos + 1
        /\ UNCHANGED pc
  /\ UNCHANGED <<hierarchy, Children, Roots, Diamonds, TreeIndices, type, k,
                 Index>>

findDiamondsRecursive ==
  /\ walking("findDiamonds")
  /\ LET t == current
         c == Children[t][i[t]]
     IN \/ /\ i[t] > Len(Children[t])
           /\ return /\ UNCHANGED <<Roots, Diamonds, Descendents>>
        \/ /\ i[t] <= Len(Children[t]) /\ c \in Descendents
           /\ Roots' = pushNew(Roots, t)
           /\ Diamonds' = [Diamonds EXCEPT ![t] = @ \cup diamond(c)]
           /\ return /\ UNCHANGED Descendents
        \/ /\ i[t] <= Len(Children[t]) /\ c \notin Descendents
           /\ Descendents' = Descendents \cup {c}
           /\ call(c) /\ i' = [i EXCEPT ![t] = @ + 1, ![c] = 1]
           /\ UNCHANGED <<Roots, Diamonds, k>>
  /\ UNCHANGED <<pc, hierarchy, Children, TreeIndices, type, pos, Index>>

-----------------------------------------------------------------------------
(* Numbers.                                                                *)

isPhantomChild(t, c) == <<t, c>> \in phantom

(* wrong: the children of a diamond root are numbered in its own tree only *)
descentsOwnTreeOnly(t, c) ==
  IF Diamonds[t] = {} THEN 1
  ELSE IF t = root THEN Cardinality({d \in Diamonds[t] : d[2] = c})
  ELSE 0

(* how often the walk over root's tree descends from t to its child c      *)
descents(t, c) ==
  IF Diamonds[t] = {} THEN 1
  ELSE IF t = root THEN Cardinality({d \in Diamonds[t] : d[2] = c})
  ELSE IF <<root, c>> \in Diamonds[t] THEN 0 ELSE 1

(* wrong: every phantom shares the last number                             *)
sharesIndexAlways(t, c) == isPhantomChild(t, c)

(* the child of a diamond root shares the last number if it is a phantom   *)
sharesIndex(t, c) == Diamonds[t] # {} /\ isPhantomChild(t, c)

(* wrong: the numbers are counted downwards *)
numberDown(c, r, index) ==
  /\ TreeIndices' = [TreeIndices EXCEPT ![c][r] = index]
  /\ Index' = index - 1
  /\ call(c)

(* a call for c, in the tree of r, with number index                       *)
number(c, r, index) ==
  /\ TreeIndices' = [TreeIndices EXCEPT ![c][r] = index]
  /\ Index' = index + 1
  /\ call(c)

buildFakeVTables ==
  /\ \/ rootsDone("buildFakeVTables", "removeDuplicates")
        /\ UNCHANGED <<TreeIndices, walk, Index>>
     \/ /\ pc = "buildFakeVTables" /\ stack = <<>> /\ pos <= Len(Roots)
        /\ number(Roots[pos], Roots[pos], Index)
        /\ i' = [i EXCEPT ![Roots[pos]] = 1] /\ k' = [k EXCEPT ![Roots[pos]] = 0]
        /\ pos' = pos + 1
        /\ UNCHANGED pc
  /\ UNCHANGED <<hierarchy, Children, Roots, Diamonds, type, Descendents>>

buildFakeVTablesRecursive ==
  /\ walking("buildFakeVTables")
  /\ LET t == current
         c == Children[t][i[t]]
     IN \/ i[t] > Len(Children[t]) /\ return /\ UNCHANGED <<TreeIndices, Index>>
        \/ /\ i[t] <= Len(Children[t]) /\ k[t] >= descents(t, c)
           /\ i' = [i EXCEPT ![t] = @ + 1] /\ k' = [k EXCEPT ![t] = 0]
           /\ UNCHANGED <<stack, TreeIndices, Index>>
        \/ /\ i[t] <= Len(Children[t]) /\ k[t] < descents(t, c)
           /\ number(c, root, IF sharesIndex(t, c) THEN Index - 1 ELSE Index)
           /\ i' = [i EXCEPT ![c] = 1]
           /\ k' = [k EXCEPT ![t] = @ + 1, ![c] = 0]
  /\ UNCHANGED <<pc, hierarchy, Children, Roots, Diamonds, type, pos,
                 Descendents>>

-----------------------------------------------------------------------------
(* A root whose tree is part of another root's tree is dropped.            *)

numbered(c, r) == TreeIndices[c][r] # NoIndex

downwards == {e \in Class \X Class : e[2] \in Range(Children[e[1]])}
descendants(c) == reach(downwards, c)

isSubtreeInTree(sub, tree) ==
  /\ sub # tree
  /\ \E g \in Range(Children[sub]), d \in Diamonds[sub] :
       numbered(g, tree) /\ numbered(g, sub) /\ d # <<tree, g>>
  /\ sub \in descendants(tree)

(* the tree of the root at pos is part of another                          *)
isDuplicate ==
  \E a \in DOMAIN Roots \ {pos} : isSubtreeInTree(Roots[pos], Roots[a])

removeTreeIndicesForRoot(r) ==
  LET below == descendants(r)
  IN [c \in Class |->
        [TreeIndices[c] EXCEPT ![r] = IF c \in below THEN NoIndex ELSE @]]

removeDuplicates ==
  /\ \/ rootsDone("removeDuplicates", "done") /\ UNCHANGED <<Roots, TreeIndices>>
     \/ /\ pc = "removeDuplicates" /\ pos <= Len(Roots)
        /\ IF isDuplicate
           THEN /\ Roots' = RemoveAt(Roots, pos)
                /\ TreeIndices' = removeTreeIndicesForRoot(Roots[pos])
                /\ UNCHANGED pos
           ELSE pos' = pos + 1 /\ UNCHANGED <<Roots, TreeIndices>>
        /\ UNCHANGED pc
  /\ UNCHANGED <<hierarchy, Children, Diamonds, type, walk, Descendents, Index>>

Next == \/ extendTypeMetadata \/ setParentsChildrenRecursive
        \/ findDiamonds \/ findDiamondsRecursive
        \/ buildFakeVTables \/ buildFakeVTablesRecursive
        \/ removeDuplicates

Spec == Init /\ [][Next]_vars

-----------------------------------------------------------------------------
(* What the instrumentation reads from the trees.                          *)

(* wrong: a phantom makes the width greater *)
phantomWidthAdded(d, e) == IF isPhantomChild(d, e) THEN -1 ELSE 0

(* what a phantom takes off the width *)
phantomWidth(d, e) == IF isPhantomChild(d, e) THEN 1 ELSE 0

(* sum[n]: after n iterations of the loop over the children of d           *)
getRangeWidth(c, r) ==
  LET width[d \in Class] ==
        LET sum[n \in 0..Len(Children[d])] ==
              IF n = 0 THEN 1
              ELSE LET e == Children[d][n]
                   IN sum[n - 1]
                      + (IF numbered(e, r) THEN width[e] - phantomWidth(d, e) ELSE 0)
        IN sum[Len(Children[d])]
  IN width[c]

(* p is a base of a class that is reached upwards from c in root's tree,   *)
(* and is in that tree                                                     *)
castEdges(r) ==
  {e \in upwards(Parents) : <<r, e[1]>> \notin Diamonds[e[2]] /\ numbered(e[2], r)}

castIn(p, c, r) == \E q \in reach(castEdges(r), c) : <<q, p>> \in castEdges(r)

(* The trees in which a cast from p to c may be checked: the map of c's    *)
(* indices is ordered by the addresses of the roots, and the first wins.   *)
rootsForCast(p, c) == {r \in Class : numbered(c, r) /\ castIn(p, c, r)}

firstBases == {<<c, Parents[c][1]>> : c \in {c \in Class : Parents[c] # <<>>}}
lastBases == {<<c, Last(Parents[c])>> : c \in {c \in Class : Parents[c] # <<>>}}

(* wrong: the root of the last base                                        *)
lastRoot(c) == CHOOSE r \in reach(lastBases, c) : Parents[r] = <<>>

primaryRoot(c) == CHOOSE r \in reach(firstBases, c) : Parents[r] = <<>>

(* The tree and the number with which an object of class t is traced at    *)
(* its subobject of class e; nothing is traced when there is none.         *)
NoVPointer == [root |-> 0, index |-> NoIndex]

(* e # t is a base of a class that is reached upwards from t in e's tree   *)
tracedIn(t, e) ==
  LET edges == {x \in upwards(Parents) : numbered(x[2], e)}
  IN \E q \in reach(edges, t) : e \in bases(Parents, q)

getFakeVPointer(t, e) ==
  LET r == IF t = e THEN primaryRoot(t) ELSE e
  IN IF (t = e \/ tracedIn(t, e)) /\ numbered(t, r)
     THEN [root |-> r, index |-> TreeIndices[t][r]]
     ELSE NoVPointer

-----------------------------------------------------------------------------
(* Casts.                                                                  *)

(* the subobjects of an object of class d: paths to base classes           *)
subobjects(d) ==
  LET paths[c \in Class] ==
        {<<c>>} \cup UNION {{<<c>> \o p : p \in paths[b]} : b \in bases(Parents, c)}
  IN paths[d]

(* The class traced at the offset of a subobject: first bases share the    *)
(* offset of the class they belong to.                                     *)
tracedAt(p) ==
  LET first(a) == \A b \in a..(Len(p) - 1) : p[b + 1] = Parents[p[b]][1]
  IN p[CHOOSE a \in DOMAIN p : first(a) /\ (a > 1 => ~first(a - 1))]

(* wrong: the end of the range belongs to it *)
verdictInclusive(p, c, r) ==
  LET vp == getFakeVPointer(p[1], tracedAt(p)).index
      start == TreeIndices[c][r]
  IN IF vp = NoIndex THEN "silent"
     ELSE IF start <= vp /\ vp <= start + getRangeWidth(c, r)
     THEN "safe" ELSE "bad"

(* the outcome of a cast to c of a pointer to subobject p of an object,    *)
(* when the range of c is taken from the tree of r                         *)
verdict(p, c, r) ==
  LET vp == getFakeVPointer(p[1], tracedAt(p)).index
      start == TreeIndices[c][r]
  IN IF vp = NoIndex THEN "silent"
     ELSE IF start <= vp /\ vp < start + getRangeWidth(c, r)
     THEN "safe" ELSE "bad"

(* without a tree for the cast the range is empty                          *)
verdicts(p, c) ==
  LET R == rootsForCast(Last(p), c)
  IN IF R # {} THEN {verdict(p, c, r) : r \in R}
     ELSE IF getFakeVPointer(p[1], tracedAt(p)) = NoVPointer THEN {"silent"}
     ELSE {"bad"}

(* the ways up from c to p: a static downcast needs exactly one            *)
upcasts(c, p) == {q \in subobjects(c) : Last(q) = p}

downcast(p, c) == p # c /\ Cardinality(upcasts(c, p)) = 1

-----------------------------------------------------------------------------
(* Properties.                                                             *)

noDiamonds == \A c \in Class : diamondFree(Parents, c)

(* A downcast that undoes an upcast: from p, the last class of a path, to  *)
(* c, which the path goes through.                                         *)
undone(q, c, p) == q \o Tail(CHOOSE u \in upcasts(c, p) : TRUE)

(* The assertions of the pass: no list has duplicates, and a root that is  *)
(* found in the tree of another has children.                              *)
AssertionsHold ==
  /\ \A c \in Class : IsInjective(Children[c])
  /\ IsInjective(Roots)
  /\ pc = "removeDuplicates" =>
       \A r, s \in Range(Roots) :
         r # s /\ Children[r] = <<>> => r \notin descendants(s)

(* Every class keeps its number in the tree that its objects are traced    *)
(* with, diamonds or not: dropping trees makes no object untraceable.      *)
ObjectsTraced ==
  pc = "done" => \A c \in Class : getFakeVPointer(c, c) # NoVPointer

(* All trees share one range of numbers: no two classes, and no class in   *)
(* two trees, have the same one.  In diamonds phantoms do, by intention,   *)
(* but without diamonds the code gives a phantom a number of its own.      *)
NumbersDistinct ==
  phantom = {} \/ noDiamonds =>
    \A c, r \in Class : numbered(c, r) =>
      \A d, s \in Class : numbered(d, s) /\ <<c, r>> # <<d, s>> =>
        TreeIndices[c][r] # TreeIndices[d][s]

(* The range of a class in a tree holds only numbers that have been given  *)
(* to the class and the classes below it, as long as there is no diamond,  *)
(* and without phantoms it holds all of them.                              *)
RangeIsSubtree ==
  pc = "done" /\ noDiamonds =>
    \A c, r \in Class : numbered(c, r) =>
      LET range == TreeIndices[c][r] .. TreeIndices[c][r] + getRangeWidth(c, r) - 1
          below == {TreeIndices[d][r] : d \in descendants(c)}
      IN range \subseteq below /\ (phantom = {} => below \subseteq range)

(* A downcast that undoes an upcast passes when the tree of its range is   *)
(* the one the object is traced in, which is among those the cast can be   *)
(* checked in, as long as there is no diamond and no phantom.              *)
SafeInOwnTree ==
  pc = "done" /\ phantom = {} /\ noDiamonds =>
    \A d, c, p \in Class : downcast(p, c) =>
      \A q \in upcasts(d, c) :
        LET s  == undone(q, c, p)
            vp == getFakeVPointer(d, tracedAt(s))
        IN vp # NoVPointer => /\ vp.root \in rootsForCast(p, c)
                              /\ verdict(s, c, vp.root) = "safe"

(* A downcast of an object to a class it is not derived from never passes. *)
BadCastReported ==
  pc = "done" =>
    \A d, c \in Class : c \notin ancestors(Parents, d) =>
      \A q \in subobjects(d) :
        downcast(Last(q), c) => "safe" \notin verdicts(q, c)

(* Without diamonds this holds: a phantom makes a range shorter, so that   *)
(* the code reports too much, but it lets no bad cast pass.                *)
BadTreeCastReported == pc = "done" /\ noDiamonds => BadCastReported

(* A downcast that undoes an upcast is never reported.                     *)
NoFalseReport ==
  pc = "done" =>
    \A d, c, p \in Class : downcast(p, c) =>
      \A q \in upcasts(d, c) : "bad" \notin verdicts(undone(q, c, p), c)
=============================================================================
