---------------------------- MODULE RBTreeProofs ---------------------------
(***************************************************************************)
(* Proofs that the red-black tree of a slot is well-formed and balanced,   *)
(* that its functions never follow a null pointer or fail an assertion,    *)
(* that searches end at the right node, and that it implements a map, for  *)
(* trees of any size and any sequence of insertions and deletions.         *)
(*                                                                         *)
(* The inductive invariant speaks of two functions that the code does not  *)
(* have: sub[x] are the nodes below x, x included, and bh[x] is the number *)
(* of black nodes on the paths from x down, x not included.  Every action  *)
(* says how it changes them, so that nothing has to be computed by         *)
(* recursion over the tree.                                                *)
(***************************************************************************)
EXTENDS RBTree, FiniteSetTheorems, TLAPS

(* a deletion has chosen the node that it unlinks                          *)
Deleting == pc \in {"delete", "delete_case3", "delete_case6", "replace"}
(* ... and the paths through n are one black node short                    *)
Short == pc \in {"delete", "delete_case3", "delete_case6"}
(* the new node is in the tree, and may have a red parent                  *)
Inserting == pc \in {"insert", "insert_case5"}

(* What the variables of the functions hold in each phase.                 *)
Locals ==
  /\ n \in linked \cup {NULL}
  /\ pc \in {"place", "insert", "insert_case5", "maximum_node", "delete",
             "delete_case3", "delete_case6", "replace"} => n # NULL
  /\ pc \in {"lookup_node", "place"} => sought \in Addr
  /\ pc = "place" =>
       /\ inserted \in Node \ linked
       /\ key[inserted] = sought /\ color[inserted] = "RED"
       /\ value[inserted] \in Entry /\ value[inserted].ObjAddr = sought
       /\ parent[inserted] = NULL
       /\ \A d \in Side : link[inserted][d] = NULL
  /\ IF Deleting THEN /\ doomed \in linked /\ ~hasBoth(doomed)
                      /\ child = childOf(doomed)
     ELSE doomed = NULL
  /\ pc = "maximum_node" => hasBoth(n)

(* The pointers make a tree, and sub are the sets of nodes below: the two  *)
(* children of a node have disjoint sets, the root has all, and a node of  *)
(* a subtree other than its top has its parent there.                      *)
Shape(sub) ==
  /\ sub \in [Pointer -> SUBSET Node]
  /\ sub[NULL] = {}
  /\ sub[root] = linked
  /\ \A x \in linked :
       /\ sub[x] = {x} \cup sub[link[x]["left"]] \cup sub[link[x]["right"]]
       /\ sub[link[x]["left"]] \cap sub[link[x]["right"]] = {}
       /\ \A d \in Side : x \notin sub[link[x][d]]
  /\ \A x, y \in linked : y \in sub[x] => sub[y] \subseteq sub[x]
  /\ \A x, y \in linked : y \in sub[x] /\ y # x => parent[y] \in sub[x]

(* keys as compare() sees them                                             *)
keyAt(x) == toInt(key[x])

(* i comes before j, seen from side d                                      *)
before(d, i, j) == IF d = "left" THEN i < j ELSE j < i

(* A search tree. The node about to be unlinked has given its key away and *)
(* does not count.                                                         *)
Ordered(sub) ==
  \A x \in linked \ {doomed}, d \in Side :
    \A y \in sub[link[x][d]] \ {doomed} : before(d, keyAt(y), keyAt(x))

(* No two nodes have the same key.                                         *)
Distinct ==
  \A x, y \in linked \ {doomed} : keyAt(x) = keyAt(y) => x = y

(* A search is right to look below n and nowhere else; maximum_node has    *)
(* seen smaller keys only.                                                 *)
Searching(sub) ==
  /\ pc \in {"lookup_node", "place"} =>
       \A x \in linked : same(x) => x \in sub[n]
  /\ pc = "place" =>
       \A x \in linked :
         \A d \in Side :
           n \in sub[link[x][d]] => before(d, toInt(sought), keyAt(x))
  /\ pc = "maximum_node" =>
       /\ pred \in sub[link[n]["left"]]
       /\ \A x \in sub[link[n]["left"]] \ sub[pred] : keyAt(x) < keyAt(pred)

(* A black node weighs one. The doomed node weighs nothing from the moment *)
(* it is chosen: if it was black, its paths are short from then on.        *)
weight(x, col, dm) ==
  IF x = NULL \/ x = dm \/ col[x] = "RED" THEN 0 ELSE 1

(* During a deletion the paths through n are one black node short, which   *)
(* is what the rebalancing repairs or passes on to the parent.             *)
shortAt == IF Short THEN n ELSE NULL
deficit(x, at) == IF x # NULL /\ x = at THEN 1 ELSE 0

(* All paths down from a node have as many black nodes.                    *)
Heights(bh) ==
  /\ bh \in [Pointer -> Nat] /\ bh[NULL] = 0
  /\ \A x \in linked, d \in Side :
       bh[x] = bh[link[x][d]] + weight(link[x][d], color, doomed)
               + deficit(link[x][d], shortAt)

(* No red node has a red child, but for the new node while it is being     *)
(* inserted, and the root is black, but for the new or the doomed one.     *)
Colors ==
  /\ \A x \in linked \ {doomed}, d \in Side :
       LET c == link[x][d]
       IN c # doomed /\ color[x] = "RED" =>
            colorOf(c) = "BLACK" \/ (Inserting /\ c = n)
  /\ colorOf(root) = "RED" => (pc = "insert" /\ n = root) \/ doomed = root
  /\ Inserting => color[n] = "RED"
  /\ pc = "insert_case5" =>
       /\ parent[n] # NULL /\ color[parent[n]] = "RED"
       /\ grandparent(n) # NULL /\ sideOf(n) = sideOf(parent[n])
       /\ colorOf(uncle(n)) = "BLACK"

(* What delete_case1 .. delete_case6 know of their neighbourhood: the      *)
(* child can take the place of the doomed node without making two red      *)
(* nodes meet, and the cases before have left a sibling that the case at   *)
(* hand can use.                                                           *)
Deletion(sub) ==
  /\ Deleting => doomed \in sub[n]
  /\ Short /\ n # doomed => color[n] = "BLACK"
  /\ Deleting /\ (pc = "replace" \/ n # doomed) /\ doomed # root
       /\ colorOf(child) = "RED" => color[parent[doomed]] = "BLACK"
  /\ pc = "delete_case3" => parent[n] # NULL /\ sibling(n) # NULL
                            /\ color[sibling(n)] = "BLACK"
  /\ pc = "delete_case6" => /\ parent[n] # NULL /\ sibling(n) # NULL
                            /\ color[sibling(n)] = "BLACK"
                            /\ colorOf(outerNephew) = "RED"

-----------------------------------------------------------------------------
(* compare() looks at whole numbers.                                       *)
LEMMA ToIntIsInt == \A a \in Nat : toInt(a) \in Int
  BY TreeAssumption DEF toInt, compareKey

(* There are two sides.                                                    *)
LEMMA SidesOpposite ==
  ASSUME NEW d \in Side
  PROVE  /\ opposite(d) \in Side /\ opposite(d) # d /\ opposite(opposite(d)) = d
         /\ Side = {d, opposite(d)}
  BY DEF Side, opposite

(* The neighbours of a node, as the tree and its sets of nodes say.        *)
LEMMA Around ==
  ASSUME TypeOK, ParentLinks, NEW sub, Shape(sub), NEW x \in linked
  PROVE  /\ x \in Node /\ root \in linked /\ x # NULL
         /\ x \in sub[x] /\ sub[x] \subseteq linked
         /\ \A d \in Side :
              /\ link[x][d] \in linked \cup {NULL} /\ link[x][d] # x
              /\ x \notin sub[link[x][d]]
              /\ sub[link[x][d]] \subseteq sub[x]
              /\ sub[x] = {x} \cup sub[link[x][d]] \cup sub[link[x][opposite(d)]]
              /\ sub[link[x][d]] \cap sub[link[x][opposite(d)]] = {}
              /\ link[x][d] # NULL =>
                   /\ parent[link[x][d]] = x
                   /\ link[x][d] \in sub[link[x][d]]
                   /\ link[x][d] # link[x][opposite(d)]
         /\ parent[x] = NULL <=> x = root
         /\ x # root => /\ parent[x] \in linked /\ parent[x] # x
                        /\ sideOf(x) \in Side
                        /\ link[parent[x]][sideOf(x)] = x
                        /\ sibling(x) # x
                        /\ parent[x] \notin sub[x]
<1>1. x \in Node /\ root \in linked /\ x # NULL /\ x \in sub[x]
  BY TreeAssumption DEF TypeOK, ParentLinks, Shape, Pointer
<1>2. sub[x] \subseteq linked
  BY <1>1 DEF Shape
<1>3. ASSUME NEW d \in Side
      PROVE  /\ link[x][d] \in linked \cup {NULL} /\ link[x][d] # x
             /\ x \notin sub[link[x][d]]
             /\ sub[link[x][d]] \subseteq sub[x]
             /\ sub[x] = {x} \cup sub[link[x][d]] \cup sub[link[x][opposite(d)]]
             /\ sub[link[x][d]] \cap sub[link[x][opposite(d)]] = {}
             /\ link[x][d] # NULL =>
                  /\ parent[link[x][d]] = x
                  /\ link[x][d] \in sub[link[x][d]]
                  /\ link[x][d] # link[x][opposite(d)]
  <2>1. link[x][d] \in linked \cup {NULL} /\ x \notin sub[link[x][d]]
        /\ (link[x][d] # NULL => parent[link[x][d]] = x)
    BY DEF ParentLinks, Shape
  <2>2. sub[x] = {x} \cup sub[link[x][d]] \cup sub[link[x][opposite(d)]]
        /\ sub[link[x][d]] \cap sub[link[x][opposite(d)]] = {}
    BY DEF Shape, Side, opposite
  <2>3. link[x][d] # NULL => link[x][d] \in sub[link[x][d]]
    BY <2>1 DEF Shape
  <2> QED
    BY <1>1, <2>1, <2>2, <2>3
<1>4. parent[x] = NULL <=> x = root
  BY <1>1, TreeAssumption DEF ParentLinks, TypeOK
<1>5. ASSUME x # root
      PROVE  /\ parent[x] \in linked /\ parent[x] # x
             /\ sideOf(x) \in Side
             /\ link[parent[x]][sideOf(x)] = x
             /\ sibling(x) # x
             /\ parent[x] \notin sub[x]
  <2>1. parent[x] \in linked /\ \E d \in Side : link[parent[x]][d] = x
    BY <1>5 DEF ParentLinks
  <2>2. sideOf(x) \in Side /\ link[parent[x]][sideOf(x)] = x
    BY <2>1 DEF sideOf, Side
  <2>3. parent[x] \notin sub[x] /\ parent[x] # x
    BY <1>1, <2>1, <2>2 DEF Shape
  <2>4. sibling(x) # x
    <3>1. sub[link[parent[x]][sideOf(x)]] \cap sub[sibling(x)] = {}
      BY <2>1, <2>2 DEF Shape, sibling, Side, opposite
    <3> QED
      BY <1>1, <2>2, <3>1
  <2> QED
    BY <2>1, <2>2, <2>3, <2>4
<1> QED
  BY <1>1, <1>2, <1>3, <1>4, <1>5

(* What lies on either side of a node.                                     *)
LEMMA Below ==
  ASSUME TypeOK, ParentLinks, NEW sub, Shape(sub), NEW x \in linked,
         NEW d \in Side
  PROVE  /\ link[x][d] \in linked \cup {NULL} /\ link[x][d] # x
         /\ x \notin sub[link[x][d]]
         /\ sub[link[x][d]] \subseteq sub[x]
         /\ sub[x] = {x} \cup sub[link[x][d]] \cup sub[link[x][opposite(d)]]
         /\ sub[link[x][d]] \cap sub[link[x][opposite(d)]] = {}
         /\ link[x][d] # NULL =>
              /\ parent[link[x][d]] = x
              /\ link[x][d] \in sub[link[x][d]]
              /\ link[x][d] # link[x][opposite(d)]
  BY Around

(* What lies above a node: its parent is not among the nodes below.        *)
LEMMA Above ==
  ASSUME TypeOK, ParentLinks, NEW sub, Shape(sub), NEW x \in linked
  PROVE  /\ x \in Node /\ root \in linked /\ x # NULL /\ x \in sub[x]
         /\ parent[x] = NULL <=> x = root
         /\ x # root => /\ parent[x] \in linked /\ parent[x] # x
                        /\ sideOf(x) \in Side
                        /\ link[parent[x]][sideOf(x)] = x
                        /\ sibling(x) # x
                        /\ parent[x] \notin sub[x]
  BY Around

(* What a rotation does, pointer by pointer.                               *)
LEMMA RotatePointers ==
  ASSUME TypeOK, ParentLinks, NEW sub, Shape(sub), NEW x \in linked,
         NEW d \in Side, NEW r, r = link[x][opposite(d)], r # NULL, rotate(x, d)
  PROVE  /\ root' = IF x = root THEN r ELSE root
         /\ link' \in [Node -> [Side -> Pointer]]
         /\ parent' \in [Node -> Pointer]
         /\ link'[x][opposite(d)] = link[r][d] /\ link'[x][d] = link[x][d]
         /\ link'[r][d] = x /\ link'[r][opposite(d)] = link[r][opposite(d)]
         /\ x # root =>
              /\ link'[parent[x]][sideOf(x)] = r
              /\ link'[parent[x]][opposite(sideOf(x))] = sibling(x)
         /\ \A y \in Node \ {x, r, parent[x]} : link'[y] = link[y]
         /\ parent'[x] = r /\ parent'[r] = parent[x]
         /\ link[r][d] # NULL => parent'[link[r][d]] = x
         /\ \A y \in Node \ {x, r, link[r][d]} : parent'[y] = parent[y]
<1>1. /\ opposite(d) \in Side /\ opposite(d) # d
  BY SidesOpposite
<1>2. /\ x \in Node /\ root \in Node /\ r \in Node /\ r \in linked /\ r # x /\ r # parent[x]
      /\ parent[r] = x /\ link[r][d] \in Pointer /\ link[r][d] # r /\ link[r][d] # x
      /\ x # root => parent[x] \in Node /\ parent[x] # x /\ sideOf(x) \in Side
      /\ parent[x] = NULL <=> x = root
  <2>1. r \in linked /\ r # x /\ parent[r] = x /\ r \in sub[x] /\ x \notin sub[r]
    BY <1>1, Around
  <2>2. x # root => parent[x] \in linked /\ parent[x] # x /\ sideOf(x) \in Side /\ r # parent[x]
    BY <2>1, Around
  <2>3. x = root => parent[x] = NULL
    BY DEF ParentLinks
  <2>4. parent[x] = NULL <=> x = root
    BY Around
  <2>5. link[r][d] \in linked \cup {NULL} /\ link[r][d] # r
    BY <2>1, Around
  <2>6. link[r][d] # x
    <3>1. link[r][d] # NULL => link[r][d] \in sub[r]
      BY <2>1, Around
    <3> QED
      BY <2>1, <3>1, TreeAssumption DEF TypeOK
  <2> QED
    BY <2>1, <2>2, <2>3, <2>4, <2>5, <2>6, TreeAssumption DEF TypeOK, Pointer, ParentLinks
<1>3. root' = IF x = root THEN r ELSE root
  BY <1>2 DEF rotate, replaceRoot
<1> DEFINE R == replaceLink(x, r)
<1>4. /\ R \in [Node -> [Side -> Pointer]]
      /\ x = root => R = link
      /\ x # root => /\ R[parent[x]][sideOf(x)] = r
                     /\ \A e \in Side : e # sideOf(x) => R[parent[x]][e] = link[parent[x]][e]
      /\ \A y \in Node : y # parent[x] => R[y] = link[y]
  BY <1>2 DEF replaceLink, TypeOK, Pointer
<1>5. link' = [R EXCEPT ![x][opposite(d)] = link[r][d], ![r][d] = x]
  BY DEF rotate
<1>6. link' \in [Node -> [Side -> Pointer]]
  <2> DEFINE R1 == [R EXCEPT ![x][opposite(d)] = link[r][d]]
  <2>1. R1 \in [Node -> [Side -> Pointer]]
    BY <1>1, <1>2, <1>4
  <2>2. link' = [R1 EXCEPT ![r][d] = x]
    BY <1>5
  <2> QED
    BY <1>2, <2>1, <2>2 DEF Pointer
<1>7. /\ link'[x][opposite(d)] = link[r][d] /\ link'[x][d] = link[x][d]
      /\ link'[r][d] = x /\ link'[r][opposite(d)] = link[r][opposite(d)]
      /\ x # root =>
           /\ link'[parent[x]][sideOf(x)] = r
           /\ link'[parent[x]][opposite(sideOf(x))] = sibling(x)
      /\ \A y \in Node \ {x, r, parent[x]} : link'[y] = link[y]
  <2> HIDE DEF R
  <2>1. x # root => opposite(sideOf(x)) \in Side /\ opposite(sideOf(x)) # sideOf(x)
    BY <1>2, SidesOpposite
  <2> QED
    BY <1>1, <1>2, <1>4, <1>5, <2>1 DEF sibling
<1>8. /\ parent' \in [Node -> Pointer]
      /\ parent'[x] = r /\ parent'[r] = parent[x]
      /\ link[r][d] # NULL => parent'[link[r][d]] = x
      /\ \A y \in Node \ {x, r, link[r][d]} : parent'[y] = parent[y]
  BY <1>2 DEF rotate, replaceParent, TypeOK, Pointer
<1> QED
  BY <1>3, <1>6, <1>7, <1>8

(* After a rotation parents and children still agree.                      *)
LEMMA RotateLinks ==
  ASSUME TypeOK, ParentLinks, NEW sub, Shape(sub), NEW x \in linked,
         NEW d \in Side, NEW r, r = link[x][opposite(d)], r # NULL, rotate(x, d),
         linked' = linked
  PROVE  ParentLinks'
<1> DEFINE m == link[r][d]
           p == parent[x]
<1>1. /\ opposite(d) \in Side /\ opposite(d) # d /\ Side = {d, opposite(d)}
      /\ x # root => opposite(sideOf(x)) \in Side /\ opposite(sideOf(x)) # sideOf(x)
                     /\ Side = {sideOf(x), opposite(sideOf(x))}
  BY SidesOpposite, Around
<1>2. r \in linked /\ r # x /\ parent[r] = x /\ root \in linked
  BY <1>1, Around
<1>3. m \in linked \cup {NULL} /\ (m # NULL => parent[m] = r) /\ m # r
  BY <1>2, Around
<1>4. x # root => p \in linked /\ p # x /\ p # NULL /\ p # r
  <2>1. x # root => p \in linked /\ p # x /\ p # NULL /\ p \notin sub[x]
    BY Around
  <2>2. r \in sub[x]
    BY <1>1, Around
  <2> QED
    BY <2>1, <2>2
<1>5. NULL \notin linked /\ linked \subseteq Node
  BY TreeAssumption DEF TypeOK
<1>6. root' \in linked' /\ parent'[root'] = NULL
  <2>1. CASE x = root
    BY <2>1, <1>2, RotatePointers, Around
  <2>2. CASE x # root
    <3>1. root \notin {x, r, m}
      BY <1>2, <1>3, <1>5, <2>2 DEF ParentLinks
    <3> QED
      BY <1>2, <1>5, <2>2, <3>1, RotatePointers DEF ParentLinks
  <2> QED
    BY <2>1, <2>2
<1>7. ASSUME NEW y \in linked, NEW e \in Side, link'[y][e] # NULL
      PROVE  link'[y][e] \in linked /\ parent'[link'[y][e]] = y
  <2>1. CASE y = x
    <3>1. CASE e = d
      <4>1. link[x][d] # NULL => /\ link[x][d] \in linked /\ parent[link[x][d]] = x
                                 /\ link[x][d] \notin {x, r, m}
        BY <1>2, <1>3, <1>1, Around
      <4> QED
        BY <1>7, <1>5, <2>1, <3>1, <4>1, RotatePointers
    <3>2. CASE e = opposite(d)
      BY <1>3, <1>7, <2>1, <3>2, RotatePointers
    <3> QED
      BY <1>1, <3>1, <3>2
  <2>2. CASE y = r
    <3>1. CASE e = d
      BY <2>2, <3>1, RotatePointers
    <3>2. CASE e = opposite(d)
      <4>1. link[r][e] # NULL => /\ link[r][e] \in linked /\ parent[link[r][e]] = r
                                 /\ link[r][e] \notin {x, r, m}
        <5>1. link[r][e] # NULL => link[r][e] \in linked /\ parent[link[r][e]] = r
                                   /\ link[r][e] # r
          BY <1>2, Around
        <5>2. link[r][e] # NULL => link[r][e] # m
          BY <1>1, <1>2, <3>2, Around, SidesOpposite
        <5>3. link[r][e] # NULL => parent[x] # r
          BY <1>4, <1>2, <1>5, Around
        <5> QED
          BY <5>1, <5>2, <5>3
      <4> QED
        BY <1>7, <1>5, <2>2, <3>2, <4>1, RotatePointers
    <3> QED
      BY <1>1, <3>1, <3>2
  <2>3. CASE y = p /\ x # root
    <3>1. CASE e = sideOf(x)
      BY <1>2, <2>3, <3>1, RotatePointers
    <3>2. CASE e = opposite(sideOf(x))
      <4>1. link[p][e] = sibling(x)
        BY <3>2 DEF sibling
      <4>2. link[p][e] # NULL => /\ link[p][e] \in linked /\ parent[link[p][e]] = p
                                 /\ link[p][e] \notin {x, r, m}
        BY <1>2, <1>3, <1>4, <2>3, <4>1, Around
      <4> QED
        BY <1>5, <1>7, <2>3, <3>2, <4>1, <4>2, RotatePointers
    <3> QED
      BY <1>1, <2>3, <3>1, <3>2
  <2>4. CASE y \notin {x, r, p}
    <3>1. link'[y] = link[y]
      BY <1>5, <2>4, RotatePointers
    <3>2. link[y][e] \in linked /\ parent[link[y][e]] = y
      BY <1>7, <3>1, Around
    <3>3. link[y][e] \notin {x, r, m}
      BY <1>2, <1>3, <1>5, <2>4, <3>2
    <3> QED
      BY <1>5, <3>1, <3>2, <3>3, RotatePointers
  <2> QED
    BY <1>5, <2>1, <2>2, <2>3, <2>4, Around
<1>8. ASSUME NEW y \in linked, y # root'
      PROVE  parent'[y] \in linked /\ \E e \in Side : link'[parent'[y]][e] = y
  <2>1. CASE y = x
    BY <1>2, <2>1, RotatePointers
  <2>2. CASE y = r
    BY <1>1, <1>4, <1>8, <2>2, RotatePointers, Around
  <2>3. CASE y = m
    BY <1>1, <1>5, <2>3, RotatePointers
  <2>4. CASE y \notin {x, r, m}
    <3>1. parent'[y] = parent[y] /\ y # root
      BY <1>5, <1>8, <2>4, RotatePointers
    <3>2. PICK e \in Side : link[parent[y]][e] = y
      BY <3>1 DEF ParentLinks
    <3>3. parent[y] \in linked
      BY <3>1 DEF ParentLinks
    <3>4. CASE parent[y] = x
      BY <1>1, <2>4, <3>1, <3>2, <3>3, <3>4, RotatePointers
    <3>5. CASE parent[y] = r
      BY <1>1, <2>4, <3>1, <3>2, <3>3, <3>5, RotatePointers
    <3>6. CASE parent[y] = p /\ x # root
      <4>1. e # sideOf(x)
        BY <2>4, <3>2, <3>6, Around
      <4>2. y = sibling(x)
        BY <1>1, <3>2, <3>6, <4>1 DEF sibling
      <4> QED
        BY <1>1, <3>1, <3>3, <3>6, <4>2, RotatePointers
    <3>7. CASE parent[y] \notin {x, r, p}
      BY <1>5, <3>1, <3>2, <3>3, <3>7, RotatePointers
    <3> QED
      BY <1>5, <3>3, <3>4, <3>5, <3>6, <3>7, Around
  <2> QED
    BY <2>1, <2>2, <2>3, <2>4
<1> QED
  BY <1>2, <1>6, <1>7, <1>8 DEF ParentLinks

(* The nodes below x and below the child r that takes its place.           *)
turned(sub, x, d) ==
  LET r == link[x][opposite(d)]
  IN [sub EXCEPT ![r] = sub[x],
                 ![x] = {x} \cup sub[link[x][d]] \cup sub[link[r][d]]]

(* The neighbourhood of a rotation: m moves from r to x.                   *)
LEMMA RotationNodes ==
  ASSUME TypeOK, ParentLinks, NEW sub, Shape(sub), NEW x \in linked,
         NEW d \in Side, NEW r, r = link[x][opposite(d)], r # NULL,
         NEW m, m = link[r][d], NEW a, a = link[x][d],
         NEW b, b = link[r][opposite(d)]
  PROVE  /\ r \in linked /\ r # x /\ parent[r] = x
         /\ a \in linked \cup {NULL} /\ a # x /\ a # r
         /\ b \in linked \cup {NULL} /\ b # x /\ b # r
         /\ m \in linked \cup {NULL} /\ m # x /\ m # r
         /\ a # NULL => parent[a] = x /\ a \in sub[a] /\ a # m /\ a # b
         /\ b # NULL => parent[b] = r /\ b \in sub[b] /\ b # m
         /\ m # NULL => parent[m] = r /\ m \in sub[m]
<1>1. /\ opposite(d) \in Side /\ opposite(d) # d /\ opposite(opposite(d)) = d
  BY SidesOpposite
<1>2. NULL \notin linked
  BY TreeAssumption DEF TypeOK
<1>3. r \in linked /\ r # x /\ parent[r] = x /\ r \in sub[r] /\ x \notin sub[r]
  BY <1>1, Below
<1>4. /\ a \in linked \cup {NULL} /\ a # x /\ (a # NULL => a # r)
      /\ (a # NULL => parent[a] = x /\ a \in sub[a])
  BY <1>1, Below
<1>5. /\ m \in linked \cup {NULL} /\ m # r
      /\ (m # NULL => parent[m] = r /\ m \in sub[m] /\ m # b)
      /\ sub[m] \subseteq sub[r]
  BY <1>3, Below
<1>6. /\ b \in linked \cup {NULL} /\ b # r
      /\ (b # NULL => parent[b] = r /\ b \in sub[b])
      /\ sub[b] \subseteq sub[r]
  BY <1>1, <1>3, Below
<1>7. m # x /\ b # x
  BY <1>2, <1>3, <1>5, <1>6
<1> QED
  BY <1>2, <1>3, <1>4, <1>5, <1>6, <1>7

(* What lies below the nodes that a rotation moves.                        *)
LEMMA RotationSets ==
  ASSUME TypeOK, ParentLinks, NEW sub, Shape(sub), NEW x \in linked,
         NEW d \in Side, NEW r, r = link[x][opposite(d)], r # NULL,
         NEW m, m = link[r][d], NEW a, a = link[x][d],
         NEW b, b = link[r][opposite(d)]
  PROVE  /\ sub[x] = {x} \cup sub[a] \cup sub[r]
         /\ sub[r] = {r} \cup sub[m] \cup sub[b]
         /\ x \notin sub[a] /\ x \notin sub[r]
         /\ x \notin sub[m] /\ x \notin sub[b]
         /\ r \notin sub[a] /\ r \notin sub[m] /\ r \notin sub[b]
         /\ sub[a] \cap sub[r] = {} /\ sub[m] \cap sub[b] = {}
<1>1. /\ opposite(d) \in Side /\ opposite(opposite(d)) = d
  BY SidesOpposite
<1>2. r \in linked
  BY RotationNodes
<1>3. sub[x] = {x} \cup sub[a] \cup sub[r]
  BY Below
<1>4. sub[r] = {r} \cup sub[m] \cup sub[b]
  BY <1>2, Below
<1>5. sub[a] \cap sub[r] = {}
  BY Below
<1>6. sub[m] \cap sub[b] = {}
  BY <1>2, Below
<1>7. x \notin sub[a] /\ x \notin sub[r] /\ r \in sub[r]
  BY <1>1, Below
<1>8. r \notin sub[m] /\ r \notin sub[b]
  BY <1>1, <1>2, Below
<1>9. x \notin sub[m] /\ x \notin sub[b] /\ r \notin sub[a]
  BY <1>4, <1>5, <1>7
<1> QED
  BY <1>3, <1>4, <1>5, <1>6, <1>7, <1>8, <1>9

(* The parent above a rotation is none of the nodes that it moves.         *)
LEMMA RotationAbove ==
  ASSUME TypeOK, ParentLinks, NEW sub, Shape(sub), NEW x \in linked,
         NEW d \in Side, NEW r, r = link[x][opposite(d)], r # NULL,
         NEW m, m = link[r][d], NEW a, a = link[x][d],
         NEW b, b = link[r][opposite(d)], x # root
  PROVE  /\ parent[x] \in linked /\ parent[x] \notin sub[x]
         /\ parent[x] \notin {x, r, a, b, m}
         /\ sideOf(x) \in Side /\ opposite(sideOf(x)) \in Side
         /\ Side = {sideOf(x), opposite(sideOf(x))}
         /\ link[parent[x]][sideOf(x)] = x
         /\ link[parent[x]][opposite(sideOf(x))] = sibling(x)
         /\ sibling(x) \in linked \cup {NULL} /\ sibling(x) \notin {x, r}
<1>1. /\ parent[x] \in linked /\ parent[x] \notin sub[x] /\ parent[x] # x
      /\ sideOf(x) \in Side /\ link[parent[x]][sideOf(x)] = x
      /\ sibling(x) # x /\ x \in sub[x]
  BY Above
<1>2. /\ opposite(sideOf(x)) \in Side /\ Side = {sideOf(x), opposite(sideOf(x))}
  BY <1>1, SidesOpposite
<1>3. link[parent[x]][opposite(sideOf(x))] = sibling(x)
  BY DEF sibling
<1>4. sibling(x) \in linked \cup {NULL}
      /\ (sibling(x) # NULL => parent[sibling(x)] = parent[x])
  BY <1>1, <1>2, <1>3, Below
<1>5. NULL \notin linked
  BY TreeAssumption DEF TypeOK
<1>6. sibling(x) # r
  BY <1>1, <1>4, <1>5, RotationNodes
<1>7. /\ a # NULL => a \in sub[x]
      /\ b # NULL => b \in sub[x]
      /\ m # NULL => m \in sub[x]
      /\ r \in sub[x]
  <2>1. r \in linked /\ (a # NULL => a \in sub[a])
        /\ (b # NULL => b \in sub[b]) /\ (m # NULL => m \in sub[m])
    BY RotationNodes
  <2>2. r \in sub[r]
    BY <2>1, Above
  <2>3. /\ sub[x] = {x} \cup sub[a] \cup sub[r]
        /\ sub[r] = {r} \cup sub[m] \cup sub[b]
    BY RotationSets
  <2> QED
    BY <2>1, <2>2, <2>3
<1> QED
  BY <1>1, <1>2, <1>3, <1>4, <1>5, <1>6, <1>7

(* A rotation makes a tree again.                                          *)
LEMMA RotateShape ==
  ASSUME TypeOK, ParentLinks, NEW sub, Shape(sub), NEW x \in linked,
         NEW d \in Side, NEW r, r = link[x][opposite(d)], r # NULL, rotate(x, d),
         linked' = linked, NEW sub2, sub2 = turned(sub, x, d)
  PROVE  Shape(sub2)'
<1> DEFINE m == link[r][d]
           a == link[x][d]
           b == link[r][opposite(d)]
           p == parent[x]
<1>1. /\ opposite(d) \in Side /\ opposite(d) # d /\ opposite(opposite(d)) = d
      /\ Side = {d, opposite(d)}
  BY SidesOpposite
<1>2. NULL \notin linked /\ linked \subseteq Node /\ sub[NULL] = {}
      /\ sub \in [Pointer -> SUBSET Node] /\ linked \subseteq Pointer
      /\ root \in linked /\ x \in sub[x]
      /\ sub[root] = linked
  BY TreeAssumption DEF TypeOK, Shape, Pointer, ParentLinks
<1>3. /\ r \in linked /\ r # x /\ parent[r] = x
      /\ a \in linked \cup {NULL} /\ a # x /\ a # r
      /\ b \in linked \cup {NULL} /\ b # x /\ b # r
      /\ m \in linked \cup {NULL} /\ m # x /\ m # r
      /\ a # NULL => parent[a] = x /\ a \in sub[a] /\ a # m /\ a # b
      /\ b # NULL => parent[b] = r /\ b \in sub[b] /\ b # m
      /\ m # NULL => parent[m] = r /\ m \in sub[m]
  BY RotationNodes
<1>S. /\ sub[x] = {x} \cup sub[a] \cup sub[r]
      /\ sub[r] = {r} \cup sub[m] \cup sub[b]
      /\ x \notin sub[a] /\ x \notin sub[r]
      /\ x \notin sub[m] /\ x \notin sub[b]
      /\ r \notin sub[a] /\ r \notin sub[m] /\ r \notin sub[b]
      /\ sub[a] \cap sub[r] = {} /\ sub[m] \cap sub[b] = {}
  BY RotationSets
<1>A. ASSUME x # root
      PROVE  /\ p \in linked /\ p \notin sub[x]
             /\ p \notin {x, r, a, b, m}
             /\ sideOf(x) \in Side /\ opposite(sideOf(x)) \in Side
             /\ Side = {sideOf(x), opposite(sideOf(x))}
             /\ link[p][sideOf(x)] = x
             /\ link[p][opposite(sideOf(x))] = sibling(x)
             /\ sibling(x) \in linked \cup {NULL} /\ sibling(x) \notin {x, r}
  BY <1>A, RotationAbove
<1>4. /\ sub2 \in [Pointer -> SUBSET Node]
      /\ sub2[r] = sub[x] /\ sub2[x] = {x} \cup sub[a] \cup sub[m]
      /\ \A y \in Pointer : y \notin {x, r} => sub2[y] = sub[y]
  BY <1>2, <1>3 DEF turned
<1>5. sub2[NULL] = {} /\ NULL \in Pointer
  BY <1>2, <1>3, <1>4 DEF Pointer
<1>R. root' = IF x = root THEN r ELSE root
  BY RotatePointers
<1>6. sub2[root'] = linked
  <2>1. CASE x = root
    BY <1>2, <1>4, <1>R, <2>1
  <2>2. CASE x # root
    <3>1. root # r /\ root \in Pointer
      BY <1>2, <1>3, <2>2 DEF ParentLinks
    <3> QED
      BY <1>2, <1>4, <1>R, <2>2, <3>1
  <2> QED
    BY <2>1, <2>2
<1> DEFINE Right(y) ==
       /\ sub2[y] = {y} \cup sub2[link'[y]["left"]] \cup sub2[link'[y]["right"]]
       /\ sub2[link'[y]["left"]] \cap sub2[link'[y]["right"]] = {}
       /\ \A e \in Side : y \notin sub2[link'[y][e]]
<1>7. ASSUME NEW y \in linked
      PROVE  Right(y)
  <2>0. ASSUME NEW e \in Side,
               sub2[y] = {y} \cup sub2[link'[y][e]] \cup sub2[link'[y][opposite(e)]],
               sub2[link'[y][e]] \cap sub2[link'[y][opposite(e)]] = {},
               y \notin sub2[link'[y][e]], y \notin sub2[link'[y][opposite(e)]]
        PROVE Right(y)
    BY <2>0 DEF Side, opposite
  <2>1. CASE y = x
    <3>1. link'[x][d] = a /\ link'[x][opposite(d)] = m
      BY RotatePointers
    <3>2. sub2[a] = sub[a] /\ sub2[m] = sub[m]
      BY <1>2, <1>3, <1>4, <1>5
    <3>3. sub[a] \cap sub[m] = {}
      BY <1>S
    <3>4. sub2[x] = {x} \cup sub2[a] \cup sub2[m] /\ x \notin sub2[a]
          /\ x \notin sub2[m] /\ sub2[a] \cap sub2[m] = {}
      BY <1>4, <1>S, <3>2, <3>3
    <3> HIDE DEF a, m, Right
    <3> QED
      BY <2>0, <2>1, <3>1, <3>4
  <2>2. CASE y = r
    <3>1. link'[r][d] = x /\ link'[r][opposite(d)] = b
      BY RotatePointers
    <3>2. sub2[b] = sub[b]
      BY <1>2, <1>3, <1>4, <1>5
    <3>3. sub2[x] \cap sub2[b] = {} /\ r \notin sub2[x] /\ r \notin sub2[b]
      <4>1. sub[a] \cap sub[b] = {}
        BY <1>S
      <4>2. ({x} \cup sub[a] \cup sub[m]) \cap sub[b] = {}
        <5> SUFFICES ASSUME NEW z \in sub[b]
                     PROVE  z # x /\ z \notin sub[a] /\ z \notin sub[m]
          OBVIOUS
        <5> QED
          BY <1>S, <4>1
      <4> QED
        BY <1>3, <1>4, <1>S, <3>2, <4>2
    <3>4. sub2[r] = {r} \cup sub2[x] \cup sub2[b]
      BY <1>4, <1>S, <3>2
    <3> HIDE DEF a, m, b, Right
    <3> QED
      BY <1>3, <2>0, <2>2, <3>1, <3>3, <3>4
  <2>3. CASE y = p /\ x # root
    <3>1. link'[p][sideOf(x)] = r /\ link'[p][opposite(sideOf(x))] = sibling(x)
      BY <2>3, RotatePointers
    <3>2. sub2[sibling(x)] = sub[sibling(x)] /\ sub2[p] = sub[p]
      <4>1. sibling(x) \in Pointer /\ sibling(x) \notin {x, r}
        BY <1>2, <1>A, <2>3 DEF Pointer
      <4> QED
        BY <1>2, <1>A, <1>4, <2>3, <4>1
    <3>3. /\ sub[p] = {p} \cup sub[x] \cup sub[sibling(x)] /\ sub[x] \cap sub[sibling(x)] = {}
          /\ p \notin sub[x] /\ p \notin sub[sibling(x)]
      <4>1. p \in linked /\ sideOf(x) \in Side /\ link[p][sideOf(x)] = x
            /\ link[p][opposite(sideOf(x))] = sibling(x) /\ opposite(sideOf(x)) \in Side
            /\ p \notin sub[x]
        BY <1>A, <2>3
      <4>2. /\ sub[p] = {p} \cup sub[x] \cup sub[sibling(x)]
            /\ sub[x] \cap sub[sibling(x)] = {}
        BY <4>1, Below
      <4>3. p \notin sub[sibling(x)]
        BY <4>1, Below
      <4> QED
        BY <4>1, <4>2, <4>3
    <3>4. sub2[r] = sub[x] /\ sideOf(x) \in Side
      BY <1>4, <1>A, <2>3
    <3> HIDE DEF Right
    <3> QED
      BY <2>0, <2>3, <3>1, <3>2, <3>3, <3>4
  <2>4. CASE y \notin {x, r, p}
    <3>1. link'[y] = link[y]
      BY <1>2, <2>4, RotatePointers
    <3>2. \A e \in Side : link[y][e] \in Pointer /\ link[y][e] \notin {x, r}
      <4> SUFFICES ASSUME NEW e \in Side PROVE link[y][e] \in Pointer /\ link[y][e] \notin {x, r}
        OBVIOUS
      <4>1. link[y][e] \in linked \cup {NULL} /\ (link[y][e] # NULL => parent[link[y][e]] = y)
        BY Below
      <4> QED
        BY <1>2, <1>3, <2>4, <4>1 DEF Pointer
    <3>3. \A e \in Side : sub2[link'[y][e]] = sub[link[y][e]]
      BY <1>4, <3>1, <3>2
    <3>4. sub2[y] = sub[y]
      BY <1>2, <1>4, <2>4
    <3> QED
      BY <3>3, <3>4 DEF Shape, Side
  <2> QED
    BY <1>2, <2>1, <2>2, <2>3, <2>4, Around
<1>8. ASSUME NEW w \in linked, NEW u \in linked, u \in sub2[w]
      PROVE  sub2[u] \subseteq sub2[w]
  <2>0. \A v \in linked \cup {NULL} : \A z \in linked : z \in sub[v] => sub[z] \subseteq sub[v]
    BY <1>2 DEF Shape
  <2>1. CASE w = x
    <3>1. CASE u = x
      BY <2>1, <3>1
    <3>2. CASE u # x
      <4>1. u \in sub[a] \/ u \in sub[m]
        BY <1>4, <1>8, <2>1, <3>2
      <4>2. sub2[u] = sub[u]
        BY <1>2, <1>S, <1>4, <4>1
      <4>3. sub[u] \subseteq sub[a] \/ sub[u] \subseteq sub[m]
        BY <1>3, <2>0, <4>1
      <4> QED
        BY <1>4, <2>1, <4>2, <4>3
    <3> QED
      BY <3>1, <3>2
  <2>2. CASE w = r
    <3>1. u \in sub[x]
      BY <1>4, <1>8, <2>2
    <3>2. sub[u] \subseteq sub[x]
      BY <2>0, <3>1
    <3>3. sub2[x] \subseteq sub[x]
      BY <1>S, <1>4
    <3> QED
      BY <1>2, <1>4, <2>2, <3>2, <3>3
  <2>3. CASE w \notin {x, r}
    <3>1. sub2[w] = sub[w]
      BY <1>2, <1>4, <2>3
    <3>2. u \in sub[w] /\ sub[u] \subseteq sub[w]
      BY <1>8, <2>0, <3>1
    <3>3. CASE u = x
      <4>1. sub2[x] \subseteq sub[x]
        BY <1>S, <1>4
      <4> QED
        BY <3>1, <3>2, <3>3, <4>1
    <3>4. CASE u = r
      <4>1. x \in sub[w]
        BY <1>3, <2>3, <3>2, <3>4 DEF Shape
      <4> QED
        BY <1>4, <2>0, <3>1, <3>4, <4>1
    <3>5. CASE u \notin {x, r}
      BY <1>2, <1>4, <3>1, <3>2, <3>5
    <3> QED
      BY <3>3, <3>4, <3>5
  <2> QED
    BY <2>1, <2>2, <2>3
<1>9. ASSUME NEW w \in linked, NEW u \in linked, u \in sub2[w], u # w
      PROVE  parent'[u] \in sub2[w]
  <2>0. \A v \in linked : \A z \in linked : z \in sub[v] /\ z # v => parent[z] \in sub[v]
    BY DEF Shape
  <2>1. CASE w = x
    <3>1. u \in sub[a] \/ u \in sub[m]
      BY <1>4, <1>9, <2>1
    <3>2. u \notin {x, r}
      BY <1>S, <3>1
    <3>3. CASE u = m
      BY <1>2, <1>4, <2>1, <3>3, RotatePointers
    <3>4. CASE u # m
      <4>1. parent'[u] = parent[u]
        BY <1>2, <3>2, <3>4, RotatePointers
      <4>2. CASE u = a
        BY <1>2, <1>3, <1>4, <2>1, <4>1, <4>2
      <4>3. CASE u # a
        <5>1. parent[u] \in sub[a] \/ parent[u] \in sub[m]
          BY <1>2, <1>3, <2>0, <3>1, <3>4, <4>3
        <5> QED
          BY <1>4, <2>1, <4>1, <5>1
      <4> QED
        BY <4>2, <4>3
    <3> QED
      BY <3>3, <3>4
  <2>2. CASE w = r
    <3>1. u \in sub[x] /\ sub2[w] = sub[x] /\ u # r
      BY <1>4, <1>9, <2>2
    <3>2. x \in sub[x] /\ r \in sub[x]
      BY <1>2, <1>3, <1>S, Above
    <3>3. CASE u = x \/ u = m
      BY <1>2, <3>1, <3>2, <3>3, RotatePointers
    <3>4. CASE u \notin {x, m}
      BY <1>2, <2>0, <3>1, <3>4, RotatePointers
    <3> QED
      BY <3>3, <3>4
  <2>3. CASE w \notin {x, r}
    <3>1. u \in sub[w] /\ sub2[w] = sub[w]
      BY <1>2, <1>4, <1>9, <2>3
    <3>2. parent[u] \in sub[w]
      BY <1>9, <2>0, <3>1
    <3>3. CASE u = x
      <4>1. sub[x] \subseteq sub[w] /\ r \in sub[x]
        BY <1>3, <1>S, <3>1, <3>3, Above DEF Shape
      <4> QED
        BY <3>1, <3>3, <4>1, RotatePointers
    <3>4. CASE u = r
      <4>1. x \in sub[w]
        BY <1>3, <3>2, <3>4
      <4>2. parent[x] \in sub[w]
        BY <2>0, <2>3, <4>1
      <4> QED
        BY <3>1, <3>4, <4>2, RotatePointers
    <3>5. CASE u = m
      <4>1. r \in sub[w]
        BY <1>2, <1>3, <3>2, <3>5
      <4>2. x \in sub[w]
        BY <1>3, <2>0, <2>3, <4>1
      <4> QED
        BY <1>2, <3>1, <3>5, <4>2, RotatePointers
    <3>6. CASE u \notin {x, r, m}
      BY <1>2, <3>1, <3>2, <3>6, RotatePointers
    <3> QED
      BY <3>3, <3>4, <3>5, <3>6
  <2> QED
    BY <2>1, <2>2, <2>3
<1> HIDE DEF Right, a, b, m, p
<1> QED
  BY <1>4, <1>5, <1>6, <1>7, <1>8, <1>9 DEF Shape, Right

(* before is an order.                                                     *)
LEMMA BeforeOrder ==
  ASSUME NEW d \in Side, NEW i \in Int, NEW j \in Int, NEW k \in Int
  PROVE  /\ before(d, i, j) <=> before(opposite(d), j, i)
         /\ before(d, i, j) /\ before(d, j, k) => before(d, i, k)
         /\ ~before(d, i, i)
         /\ i = j \/ before(d, i, j) \/ before(opposite(d), i, j)
         /\ ~(before(d, i, j) /\ before(opposite(d), i, j))
  BY DEF before, Side, opposite

(* The keys in the tree are whole numbers.                                 *)
LEMMA KeysAreInts ==
  ASSUME TypeOK
  PROVE  \A x \in Node : keyAt(x) \in Int
  BY ToIntIsInt, TreeAssumption DEF TypeOK, keyAt

(* ... with the keys in the same order.                                    *)
LEMMA RotateOrdered ==
  ASSUME TypeOK, ParentLinks, NEW sub, Shape(sub), Ordered(sub),
         NEW x \in linked \ {doomed}, NEW d \in Side,
         NEW r, r = link[x][opposite(d)], r # NULL, r # doomed, rotate(x, d),
         linked' = linked, key' = key, doomed' = doomed,
         NEW sub2, sub2 = turned(sub, x, d)
  PROVE  Ordered(sub2)'
<1> DEFINE m == link[r][d]
           a == link[x][d]
           b == link[r][opposite(d)]
           p == parent[x]
<1>1. /\ opposite(d) \in Side /\ opposite(d) # d /\ opposite(opposite(d)) = d
      /\ Side = {d, opposite(d)}
  BY SidesOpposite
<1>2. NULL \notin linked /\ linked \subseteq Node /\ sub[NULL] = {}
      /\ sub \in [Pointer -> SUBSET Node] /\ linked \subseteq Pointer /\ NULL \in Pointer
      /\ root \in linked
  BY TreeAssumption DEF TypeOK, Shape, Pointer, ParentLinks
<1>3. /\ r \in linked /\ r # x
      /\ a \in linked \cup {NULL} /\ a # x /\ a # r
      /\ b \in linked \cup {NULL} /\ b # x /\ b # r
      /\ m \in linked \cup {NULL} /\ m # x /\ m # r
  BY RotationNodes
<1>S. /\ sub[x] = {x} \cup sub[a] \cup sub[r]
      /\ sub[r] = {r} \cup sub[m] \cup sub[b]
  BY RotationSets
<1>4. /\ sub2[r] = sub[x] /\ sub2[x] = {x} \cup sub[a] \cup sub[m]
      /\ \A y \in Pointer : y \notin {x, r} => sub2[y] = sub[y]
  BY <1>2, <1>3 DEF turned
<1>5. \A y \in Node : keyAt(y) \in Int
  BY KeysAreInts
<1>6. \A y \in linked : sub[y] \subseteq linked
  BY Around
<1>7. \A y : keyAt(y)' = keyAt(y)
  BY DEF keyAt
<1>8. ASSUME NEW y \in linked \ {doomed}, NEW e \in Side,
             NEW z \in sub2[link'[y][e]] \ {doomed}
      PROVE  before(e, keyAt(z), keyAt(y))
  <2>1. CASE y = x
    <3>1. CASE e = d
      <4>1. z \in sub[a]
        BY <1>2, <1>3, <1>4, <1>8, <2>1, <3>1, RotatePointers DEF Pointer
      <4> QED
        BY <2>1, <3>1, <4>1 DEF Ordered
    <3>2. CASE e = opposite(d)
      <4>1. z \in sub[m]
        BY <1>2, <1>3, <1>4, <1>8, <2>1, <3>2, RotatePointers DEF Pointer
      <4>2. z \in sub[r]
        BY <1>S, <4>1
      <4> QED
        BY <1>1, <2>1, <3>2, <4>2 DEF Ordered
    <3> QED
      BY <1>1, <3>1, <3>2
  <2>2. CASE y = r
    <3>1. CASE e = d
      <4>1. z \in {x} \cup sub[a] \cup sub[m]
        BY <1>4, <1>8, <2>2, <3>1, RotatePointers
      <4>2. before(opposite(d), keyAt(r), keyAt(x))
        BY <1>1, <1>S DEF Ordered
      <4>3. before(d, keyAt(x), keyAt(r))
        BY <1>1, <1>2, <1>3, <1>5, <4>2, BeforeOrder
      <4>4. CASE z = x
        BY <2>2, <3>1, <4>3, <4>4
      <4>5. CASE z \in sub[a]
        <5>1. before(d, keyAt(z), keyAt(x))
          BY <4>5 DEF Ordered
        <5>2. z \in Node
          BY <1>2, <1>3, <1>6, <4>5
        <5> QED
          BY <1>2, <1>3, <1>5, <2>2, <3>1, <4>3, <5>1, <5>2, BeforeOrder
      <4>6. CASE z \in sub[m]
        BY <1>3, <2>2, <3>1, <4>6 DEF Ordered
      <4> QED
        BY <4>1, <4>4, <4>5, <4>6
    <3>2. CASE e = opposite(d)
      <4>1. z \in sub[b]
        BY <1>2, <1>3, <1>4, <1>8, <2>2, <3>2, RotatePointers DEF Pointer
      <4> QED
        BY <1>1, <1>3, <2>2, <3>2, <4>1 DEF Ordered
    <3> QED
      BY <1>1, <3>1, <3>2
  <2>3. CASE y = p /\ x # root
    <3>0. /\ Side = {sideOf(x), opposite(sideOf(x))}
          /\ sideOf(x) \in Side /\ opposite(sideOf(x)) \in Side
          /\ link[p][sideOf(x)] = x
          /\ link[p][opposite(sideOf(x))] = sibling(x)
          /\ sibling(x) \in linked \cup {NULL} /\ sibling(x) \notin {x, r}
      BY <2>3, RotationAbove
    <3>1. CASE e = sideOf(x)
      <4>1. z \in sub[x]
        BY <1>4, <1>8, <2>3, <3>1, RotatePointers
      <4> QED
        BY <2>3, <3>0, <3>1, <4>1 DEF Ordered
    <3>2. CASE e = opposite(sideOf(x))
      <4>1. z \in sub[sibling(x)]
        BY <1>2, <1>4, <1>8, <2>3, <3>0, <3>2, RotatePointers DEF Pointer
      <4> QED
        BY <2>3, <3>0, <3>2, <4>1 DEF Ordered
    <3> QED
      BY <3>0, <3>1, <3>2
  <2>4. CASE y \notin {x, r, p}
    <3>1. link'[y] = link[y]
      BY <1>2, <2>4, RotatePointers
    <3>2. link[y][e] \in linked \cup {NULL} /\ (link[y][e] # NULL => parent[link[y][e]] = y)
      BY Below
    <3>3. parent[r] = x
      BY RotationNodes
    <3>4. z \in sub[link[y][e]]
      BY <1>2, <1>3, <1>4, <1>8, <2>4, <3>1, <3>2, <3>3
    <3> QED
      BY <3>4 DEF Ordered
  <2> QED
    BY <1>2, <2>1, <2>2, <2>3, <2>4, Above
<1> QED
  BY <1>7, <1>8 DEF Ordered

-----------------------------------------------------------------------------
(* Steps that leave parts of the tree alone.                               *)

(* The inductive invariant, for the two functions.                         *)
Inv(sub, bh) ==
  /\ TypeOK /\ ParentLinks /\ Locals
  /\ Shape(sub) /\ Ordered(sub) /\ Distinct
  /\ Searching(sub)
  /\ Heights(bh) /\ Colors /\ Deletion(sub)

(* the pointers of the nodes in the tree stay                              *)
samePointers ==
  /\ root' = root /\ linked' = linked
  /\ \A x \in linked : link'[x] = link[x] /\ parent'[x] = parent[x]

(* their keys stay                                                         *)
sameKeys == doomed' = doomed /\ \A x \in linked : key'[x] = key[x]

(* Unchanged pointers keep the shape.                                      *)
LEMMA KeepShape ==
  ASSUME ParentLinks, NEW sub, Shape(sub), samePointers
  PROVE  ParentLinks' /\ Shape(sub)'
<1>1. ParentLinks'
  BY DEF ParentLinks, samePointers
<1>2. Shape(sub)'
  <2>1. root \in linked \/ linked = {}
    BY DEF ParentLinks
  <2>2. \A x, y \in linked : y \in sub[x] /\ y # x => parent'[y] \in sub[x]
    BY DEF Shape, samePointers
  <2> QED
    BY <2>2 DEF Shape, samePointers
<1> QED
  BY <1>1, <1>2

(* Unchanged keys and pointers keep the order.                             *)
LEMMA KeepOrder ==
  ASSUME TypeOK, ParentLinks, NEW sub, Shape(sub), Ordered(sub), Distinct,
         samePointers, sameKeys
  PROVE  Ordered(sub)' /\ Distinct'
<1>1. \A x \in linked : keyAt(x)' = keyAt(x)
  BY DEF keyAt, sameKeys
<1>2. Distinct'
  BY <1>1 DEF Distinct, samePointers, sameKeys
<1>3. ASSUME NEW x \in linked \ {doomed}, NEW d \in Side,
             NEW y \in sub[link[x][d]] \ {doomed}
      PROVE  before(d, keyAt(y)', keyAt(x)')
  <2>1. y \in linked
    BY Around
  <2>2. before(d, keyAt(y), keyAt(x))
    BY <1>3 DEF Ordered
  <2> QED
    BY <1>1, <2>1, <2>2
<1>4. Ordered(sub)'
  BY <1>3 DEF Ordered, samePointers, sameKeys
<1> QED
  BY <1>2, <1>4

(* Unchanged colors and pointers keep the heights.                         *)
LEMMA KeepHeights ==
  ASSUME TypeOK, ParentLinks, NEW bh, Heights(bh), samePointers, doomed' = doomed,
         \A x \in linked : color'[x] = color[x],
         Short' <=> Short, Short => n' = n
  PROVE  Heights(bh)'
<1>1. \A x \in linked \cup {NULL} :
        weight(x, color', doomed') = weight(x, color, doomed)
  BY DEF weight
<1>2. shortAt' = shortAt
  BY DEF shortAt
<1>3. ASSUME NEW x \in linked, NEW d \in Side
      PROVE  bh[x] = bh[link'[x][d]] + weight(link'[x][d], color', doomed')
                     + deficit(link'[x][d], shortAt')
  <2>1. link'[x][d] = link[x][d] /\ link[x][d] \in linked \cup {NULL}
    BY DEF samePointers, ParentLinks
  <2>2. bh[x] = bh[link[x][d]] + weight(link[x][d], color, doomed)
                + deficit(link[x][d], shortAt)
    BY DEF Heights
  <2> QED
    BY <1>1, <1>2, <2>1, <2>2
<1> QED
  BY <1>3 DEF Heights, samePointers

(* Unchanged colors and pointers keep the rules of colors.                 *)
LEMMA KeepColors ==
  ASSUME TypeOK, ParentLinks, Colors, samePointers, doomed' = doomed,
         \A x \in linked : color'[x] = color[x],
         ~Inserting, ~Inserting'
  PROVE  Colors'
<1>1. \A x \in linked \cup {NULL} : colorOf(x)' = colorOf(x)
  BY TreeAssumption DEF colorOf, TypeOK
<1>2. root \in linked \cup {NULL}
  BY DEF ParentLinks
<1>3. pc # "insert" /\ pc' # "insert" /\ pc' # "insert_case5"
  BY DEF Inserting
<1>4. ASSUME NEW x \in linked \ {doomed}, NEW d \in Side,
             link'[x][d] # doomed, color'[x] = "RED"
      PROVE  colorOf(link[x][d])' = "BLACK"
  <2>1. link'[x][d] = link[x][d] /\ link[x][d] \in linked \cup {NULL}
    BY DEF samePointers, ParentLinks
  <2>2. colorOf(link[x][d]) = "BLACK"
    BY <1>4, <2>1 DEF Colors, Inserting
  <2> QED
    BY <1>1, <2>1, <2>2 DEF colorOf
<1>5. colorOf(root)' = "RED" => doomed' = root'
  BY <1>1, <1>2, <1>3 DEF Colors, samePointers, colorOf
<1> QED
  BY <1>3, <1>4, <1>5 DEF Colors, samePointers, Inserting

(* A step that changes nothing.                                            *)
LEMMA Stutter ==
  ASSUME NEW sub, NEW bh, Inv(sub, bh), UNCHANGED vars
  PROVE  Inv(sub, bh)'
<1>1. TypeOK' /\ ParentLinks' /\ Locals'
  BY DEF Inv, vars, pointers, entries, locals, TypeOK, ParentLinks, Locals,
         Deleting, hasBoth, childOf
<1>2. samePointers /\ sameKeys
  BY DEF vars, pointers, entries, locals, samePointers, sameKeys
<1>3. Shape(sub)' /\ Ordered(sub)' /\ Distinct'
  BY <1>2, KeepShape, KeepOrder DEF Inv
<1>4. Searching(sub)'
  BY DEF Inv, vars, pointers, entries, locals, Searching, same, keyAt
<1>5. Heights(bh)'
  BY <1>2, KeepHeights DEF Inv, vars, pointers, entries, locals, Short
<1>6. Colors'
  BY DEF Inv, vars, pointers, entries, locals, Colors, colorOf, Inserting,
         grandparent, uncle, sibling, sideOf
<1>7. Deletion(sub)'
  BY DEF Inv, vars, pointers, entries, locals, Deletion, colorOf, Deleting,
         Short, sibling, sideOf, outerNephew
<1> QED
  BY <1>1, <1>3, <1>4, <1>5, <1>6, <1>7 DEF Inv

-----------------------------------------------------------------------------
(* The search loops.                                                       *)

(* The comparison of a search goes to the side of its key.                 *)
LEMMA TowardIsBefore ==
  ASSUME TypeOK, sought \in Addr, NEW x \in linked, ~same(x)
  PROVE  toward(x) \in Side /\ before(toward(x), toInt(sought), keyAt(x))
<1>1. x \in Node /\ keyAt(x) \in Int /\ toInt(sought) \in Int
  BY KeysAreInts, ToIntIsInt, TreeAssumption DEF TypeOK
<1> QED
  BY <1>1 DEF toward, before, same, keyAt, Side

(* A lookup starts at the root.                                            *)
LEMMA LookupNode ==
  ASSUME NEW sub, NEW bh, Inv(sub, bh), NEW a \in Addr, lookup_node(a)
  PROVE  Inv(sub, bh)'
<1> USE DEF Inv, lookup_node
<1>1. TypeOK'
  BY DEF TypeOK, pointers, entries
<1>2. samePointers /\ sameKeys
  BY DEF pointers, entries, samePointers, sameKeys
<1>3. ParentLinks' /\ Shape(sub)' /\ Ordered(sub)' /\ Distinct'
  BY <1>2, KeepShape, KeepOrder
<1>4. Locals'
  BY DEF Locals, Deleting, ParentLinks, pointers
<1>5. Searching(sub)'
  BY DEF Searching, Shape, pointers
<1>6. Heights(bh)'
  BY <1>2, KeepHeights DEF Short
<1>7. Colors'
  BY <1>2, KeepColors DEF Inserting
<1>8. Deletion(sub)'
  BY DEF Deletion, Deleting, Short
<1> QED
  BY <1>1, <1>3, <1>4, <1>5, <1>6, <1>7, <1>8

(* The key is below the child that a search goes on with.                  *)
LEMMA DescentFinds ==
  ASSUME TypeOK, ParentLinks, NEW sub, Shape(sub), Ordered(sub),
         doomed = NULL, sought \in Addr, n \in linked, ~same(n),
         NEW x \in sub[n], same(x)
  PROVE  x \in sub[link[n][toward(n)]]
<1> DEFINE d == toward(n)
<1>1. d \in Side /\ opposite(d) \in Side
      /\ before(d, toInt(sought), keyAt(n))
  BY TowardIsBefore, SidesOpposite
<1>2. x \in linked /\ x # n /\ NULL \notin linked
  BY Around, TreeAssumption DEF TypeOK
<1>3. keyAt(x) = toInt(sought)
  BY DEF same, keyAt
<1>4. /\ keyAt(n) \in Int /\ keyAt(x) \in Int
  BY <1>2, KeysAreInts DEF TypeOK
<1>5. x \notin sub[link[n][opposite(d)]]
  <2>1. x \in sub[link[n][opposite(d)]] => before(opposite(d), keyAt(x), keyAt(n))
    BY <1>1, <1>2 DEF Ordered
  <2> QED
    BY <1>1, <1>3, <1>4, <2>1, BeforeOrder
<1>6. sub[n] = {n} \cup sub[link[n][d]] \cup sub[link[n][opposite(d)]]
  BY <1>1, Below
<1> QED
  BY <1>2, <1>5, <1>6

(* A step down in rbtree_insert.                                           *)
LEMMA InsertDescend ==
  ASSUME NEW sub, NEW bh, Inv(sub, bh), insertDescend
  PROVE  Inv(sub, bh)'
<1> USE DEF Inv, insertDescend
<1> DEFINE c == link[n][toward(n)]
<1>0. n \in linked /\ sought \in Addr /\ doomed = NULL /\ NULL \notin linked
      /\ toward(n) \in Side /\ linked \subseteq Node
      /\ before(toward(n), toInt(sought), keyAt(n))
  <2>1. n \in linked /\ sought \in Addr /\ doomed = NULL
    BY DEF Locals, Deleting
  <2> QED
    BY <2>1, TowardIsBefore, TreeAssumption DEF TypeOK
<1>c. c \in linked /\ parent[c] = n /\ c # link[n][opposite(toward(n))]
  BY <1>0, Below
<1>1. TypeOK'
  BY <1>0, <1>c DEF TypeOK, pointers, entries, Pointer
<1>2. samePointers /\ sameKeys
  BY DEF pointers, entries, samePointers, sameKeys
<1>3. ParentLinks' /\ Shape(sub)' /\ Ordered(sub)' /\ Distinct'
  BY <1>2, KeepShape, KeepOrder
<1>4. Locals'
  BY <1>0, <1>c DEF Locals, Deleting, pointers, entries
<1>5. Searching(sub)'
  <2>1. ASSUME NEW x \in linked, same(x)
        PROVE  x \in sub[c]
    <3>1. x \in sub[n]
      BY <2>1 DEF Searching
    <3> QED
      BY <1>0, <2>1, <3>1, DescentFinds
  <2>2. ASSUME NEW x \in linked, NEW d \in Side, c \in sub[link[x][d]]
        PROVE  before(d, toInt(sought), keyAt(x))
    <3>1. link[x][d] \in linked
      <4>1. link[x][d] \in linked \cup {NULL} /\ sub[NULL] = {}
        BY Below DEF Shape
      <4> QED
        BY <2>2, <4>1
    <3>2. CASE c = link[x][d]
      <4>1. x = n
        BY <1>c, <3>1, <3>2, Below, <1>0
      <4>2. d = toward(n)
        BY <1>0, <1>c, <3>2, <4>1 DEF Side, opposite
      <4> QED
        BY <1>0, <4>1, <4>2
    <3>3. CASE c # link[x][d]
      <4>1. n \in sub[link[x][d]]
        BY <1>c, <2>2, <3>1, <3>3 DEF Shape
      <4> QED
        BY <4>1 DEF Searching
    <3> QED
      BY <3>2, <3>3
  <2>3. linked' = linked /\ link' = link /\ sought' = sought /\ key' = key
        /\ pc' = "place" /\ n' = c
    BY DEF pointers, entries
  <2> HIDE DEF c
  <2> QED
    BY <2>1, <2>2, <2>3 DEF Searching, same, keyAt
<1>6. Heights(bh)'
  BY <1>2, KeepHeights DEF Short
<1>7. Colors'
  BY <1>2, KeepColors DEF Inserting
<1>8. Deletion(sub)'
  BY DEF Deletion, Deleting, Short
<1> QED
  BY <1>1, <1>3, <1>4, <1>5, <1>6, <1>7, <1>8

(* A step down in lookup_node.                                             *)
LEMMA LookupDescend ==
  ASSUME NEW sub, NEW bh, Inv(sub, bh), lookupDescend
  PROVE  Inv(sub, bh)'
<1> USE DEF Inv, lookupDescend
<1> DEFINE c == link[n][toward(n)]
<1>0. n \in linked /\ sought \in Addr /\ doomed = NULL /\ NULL \notin linked
      /\ toward(n) \in Side /\ linked \subseteq Node
  <2>1. n \in linked /\ sought \in Addr /\ doomed = NULL
    BY DEF Locals, Deleting
  <2> QED
    BY <2>1, TowardIsBefore, TreeAssumption DEF TypeOK
<1>c. c \in linked \cup {NULL}
  BY <1>0, Below
<1>1. TypeOK'
  BY <1>0, <1>c DEF TypeOK, pointers, entries, Pointer
<1>2. samePointers /\ sameKeys
  BY DEF pointers, entries, samePointers, sameKeys
<1>3. ParentLinks' /\ Shape(sub)' /\ Ordered(sub)' /\ Distinct'
  BY <1>2, KeepShape, KeepOrder
<1>4. Locals'
  BY <1>0, <1>c DEF Locals, Deleting, pointers, entries
<1>5. Searching(sub)'
  <2>1. ASSUME NEW x \in linked, same(x)
        PROVE  x \in sub[c]
    <3>1. x \in sub[n]
      BY <2>1 DEF Searching
    <3> QED
      BY <1>0, <2>1, <3>1, DescentFinds
  <2>3. linked' = linked /\ link' = link /\ sought' = sought /\ key' = key
        /\ pc' = "lookup_node" /\ n' = c
    BY DEF pointers, entries
  <2> HIDE DEF c
  <2> QED
    BY <2>1, <2>3 DEF Searching, same, keyAt
<1>6. Heights(bh)'
  BY <1>2, KeepHeights DEF Short
<1>7. Colors'
  BY <1>2, KeepColors DEF Inserting
<1>8. Deletion(sub)'
  BY DEF Deletion, Deleting, Short
<1> QED
  BY <1>1, <1>3, <1>4, <1>5, <1>6, <1>7, <1>8

(* Between operations the variables are reset.                             *)
LEMMA IdleLocals ==
  ASSUME NEW sub, idle
  PROVE  Locals' /\ Searching(sub)' /\ Deletion(sub)'
  BY DEF idle, Locals, Searching, Deletion, Deleting, Short

(* A lookup ends.                                                          *)
LEMMA RbtreeLookup ==
  ASSUME NEW sub, NEW bh, Inv(sub, bh), rbtree_lookup
  PROVE  Inv(sub, bh)'
<1> USE DEF Inv, rbtree_lookup
<1>0. doomed = NULL /\ pc' = "idle" /\ doomed' = NULL
  BY DEF Locals, Deleting, idle
<1>1. TypeOK'
  BY DEF TypeOK, pointers, entries, idle, Pointer
<1>2. samePointers /\ sameKeys
  BY <1>0 DEF pointers, entries, samePointers, sameKeys
<1>3. ParentLinks' /\ Shape(sub)' /\ Ordered(sub)' /\ Distinct'
  BY <1>2, KeepShape, KeepOrder
<1>6. Heights(bh)'
  BY <1>0, <1>2, KeepHeights DEF Short
<1>7. Colors'
  BY <1>0, <1>2, KeepColors DEF Inserting
<1> QED
  BY <1>1, <1>3, <1>6, <1>7, IdleLocals

(* A value is replaced.                                                    *)
LEMMA InsertKnown ==
  ASSUME NEW sub, NEW bh, Inv(sub, bh), insertKnown
  PROVE  Inv(sub, bh)'
<1> USE DEF Inv, insertKnown
<1>0. doomed = NULL /\ pc' = "idle" /\ doomed' = NULL
  BY DEF Locals, Deleting, idle
<1>1. TypeOK'
  BY DEF TypeOK, pointers, idle, Pointer, Locals
<1>2. samePointers /\ sameKeys
  BY <1>0 DEF pointers, samePointers, sameKeys
<1>3. ParentLinks' /\ Shape(sub)' /\ Ordered(sub)' /\ Distinct'
  BY <1>2, KeepShape, KeepOrder
<1>6. Heights(bh)'
  BY <1>0, <1>2, KeepHeights DEF Short
<1>7. Colors'
  BY <1>0, <1>2, KeepColors DEF Inserting
<1> QED
  BY <1>1, <1>3, <1>6, <1>7, IdleLocals

(* A black parent: nothing to repair.                                      *)
LEMMA InsertCase2 ==
  ASSUME NEW sub, NEW bh, Inv(sub, bh), insert_case2
  PROVE  Inv(sub, bh)'
<1> USE DEF Inv, insert_case2
<1>0. doomed = NULL /\ pc' = "idle" /\ doomed' = NULL /\ n \in linked
  BY DEF Locals, Deleting, idle
<1>1. TypeOK'
  BY DEF TypeOK, pointers, entries, idle, Pointer
<1>2. samePointers /\ sameKeys
  BY <1>0 DEF pointers, entries, samePointers, sameKeys
<1>3. ParentLinks' /\ Shape(sub)' /\ Ordered(sub)' /\ Distinct'
  BY <1>2, KeepShape, KeepOrder
<1>6. Heights(bh)'
  BY <1>0, <1>2, KeepHeights DEF Short
<1>7. Colors'
  <2>1. n # root
    BY <1>0, Above
  <2>2. ASSUME NEW x \in linked, NEW d \in Side, color[x] = "RED"
        PROVE  colorOf(link[x][d]) = "BLACK"
    <3>1. link[x][d] # n
      <4>1. link[x][d] = n => x = parent[n]
        BY <1>0, Below, TreeAssumption DEF TypeOK
      <4> QED
        BY <2>2, <4>1
    <3>2. x # doomed /\ (link[x][d] # NULL => link[x][d] # doomed)
      BY <1>0, TreeAssumption DEF TypeOK
    <3> QED
      BY <2>2, <3>1, <3>2 DEF Colors, colorOf
  <2>3. colorOf(root) # "RED"
    BY <1>0, <2>1, Above DEF Colors
  <2>4. linked' = linked /\ link' = link /\ color' = color /\ root' = root
    BY DEF pointers
  <2> QED
    BY <1>0, <2>2, <2>3, <2>4 DEF Colors, Inserting, colorOf
<1> QED
  BY <1>1, <1>3, <1>6, <1>7, IdleLocals

(* A new root turns black, on all paths.                                   *)
LEMMA InsertCase1 ==
  ASSUME NEW sub, NEW bh, Inv(sub, bh), insert_case1
  PROVE  Inv(sub, bh)'
<1> USE DEF Inv, insert_case1
<1>0. doomed = NULL /\ pc' = "idle" /\ doomed' = NULL /\ n \in linked
  BY DEF Locals, Deleting, idle
<1>n. n = root /\ n \in Node /\ NULL \notin linked
  BY <1>0, Above, TreeAssumption DEF TypeOK
<1>c. /\ color' \in [Node -> {"RED", "BLACK"}]
      /\ color'[n] = "BLACK" /\ \A x \in Node \ {n} : color'[x] = color[x]
  BY <1>n DEF TypeOK
<1>1. TypeOK'
  BY <1>c DEF TypeOK, pointers, entries, idle, Pointer
<1>2. samePointers /\ sameKeys
  BY <1>0 DEF pointers, entries, samePointers, sameKeys
<1>3. ParentLinks' /\ Shape(sub)' /\ Ordered(sub)' /\ Distinct'
  BY <1>2, KeepShape, KeepOrder
<1>4. ASSUME NEW x \in linked, NEW d \in Side
      PROVE  /\ link[x][d] \in linked \cup {NULL} /\ link[x][d] # n
             /\ link[x][d] # NULL => color'[link[x][d]] = color[link[x][d]]
  <2>1. link[x][d] \in linked \cup {NULL} /\ (link[x][d] # NULL => parent[link[x][d]] = x)
    BY Below
  <2>2. link[x][d] # n
    BY <1>0, <1>n, <2>1
  <2>3. link[x][d] # NULL => link[x][d] \in Node
    BY <2>1 DEF TypeOK
  <2> QED
    BY <1>c, <2>1, <2>2, <2>3
<1>5. linked' = linked /\ link' = link /\ root' = root
  BY DEF pointers
<1>6. Heights(bh)'
  <2>1. ASSUME NEW x \in linked, NEW d \in Side
        PROVE  /\ weight(link[x][d], color', doomed') = weight(link[x][d], color, doomed)
               /\ deficit(link[x][d], shortAt') = deficit(link[x][d], shortAt)
    BY <1>0, <1>4 DEF weight, deficit, shortAt, Short
  <2> QED
    BY <1>5, <2>1 DEF Heights
<1>7. Colors'
  <2>1. ASSUME NEW x \in linked, NEW d \in Side, color'[x] = "RED"
        PROVE  colorOf(link[x][d])' = "BLACK"
    <3>1. x # n /\ color[x] = "RED" /\ x # doomed
      BY <1>0, <1>c, <1>n, <2>1 DEF TypeOK
    <3>2. colorOf(link[x][d]) = "BLACK"
      BY <1>0, <1>4, <3>1 DEF Colors, colorOf
    <3> QED
      BY <1>4, <1>5, <3>2 DEF colorOf
  <2>2. colorOf(root)' # "RED"
    BY <1>c, <1>n, <1>5 DEF colorOf
  <2> QED
    BY <1>0, <1>5, <2>1, <2>2 DEF Colors, Inserting, colorOf
<1> QED
  BY <1>1, <1>3, <1>6, <1>7, IdleLocals

(* All paths are short: none is shorter than another.                      *)
LEMMA DeleteCase1 ==
  ASSUME NEW sub, NEW bh, Inv(sub, bh), delete_case1
  PROVE  Inv(sub, bh)'
<1> USE DEF Inv, delete_case1, goOn
<1>0. pc = "delete" /\ pc' = "replace" /\ doomed' = doomed /\ n \in linked /\ n' = n
  BY DEF Locals, Deleting
<1>n. n = root /\ n \in Node /\ NULL \notin linked
  BY <1>0, Above, TreeAssumption DEF TypeOK
<1>1. TypeOK'
  BY DEF TypeOK, pointers, entries, Pointer
<1>2. samePointers /\ sameKeys
  BY <1>0 DEF pointers, entries, samePointers, sameKeys
<1>3. ParentLinks' /\ Shape(sub)' /\ Ordered(sub)' /\ Distinct'
  BY <1>2, KeepShape, KeepOrder
<1>4. Locals'
  BY <1>0 DEF Locals, Deleting, pointers, hasBoth, childOf
<1>5. Searching(sub)'
  BY DEF Searching
<1>6. Heights(bh)'
  <2>1. ASSUME NEW x \in linked, NEW d \in Side
        PROVE  deficit(link[x][d], shortAt') = deficit(link[x][d], shortAt)
    <3>1. link[x][d] # NULL => parent[link[x][d]] = x
      BY Below
    <3>2. link[x][d] # n
      BY <1>0, <1>n, <3>1
    <3> QED
      BY <1>0, <3>2 DEF deficit, shortAt, Short
  <2> QED
    BY <1>0, <2>1 DEF Heights, pointers
<1>7. Colors'
  BY <1>0, <1>2, KeepColors DEF Inserting
<1>8. Deletion(sub)'
  <2>1. doomed # root /\ doomed = n => FALSE
    BY <1>n
  <2> QED
    BY <1>0, <2>1 DEF Deletion, Deleting, Short, pointers, colorOf
<1> QED
  BY <1>1, <1>3, <1>4, <1>5, <1>6, <1>7, <1>8

(* The largest key of a subtree is at the end of its right edge.           *)
LEMMA Rightmost ==
  ASSUME TypeOK, ParentLinks, NEW sub, Shape(sub), Ordered(sub),
         doomed = NULL, NEW x \in linked, NEW y \in sub[x],
         y \notin sub[link[x]["right"]]
  PROVE  y = x \/ keyAt(y) < keyAt(x)
<1>1. sub[x] = {x} \cup sub[link[x]["left"]] \cup sub[link[x]["right"]]
  BY DEF Shape
<1>2. y \in linked /\ NULL \notin linked
  BY Around, TreeAssumption DEF TypeOK
<1>3. y \in sub[link[x]["left"]] => before("left", keyAt(y), keyAt(x))
  BY <1>2 DEF Ordered, Side
<1> QED
  BY <1>1, <1>3 DEF before

(* A step along the right edge.                                            *)
LEMMA MaximumDescend ==
  ASSUME NEW sub, NEW bh, Inv(sub, bh), maximum_node,
         link[pred]["right"] # NULL
  PROVE  Inv(sub, bh)'
<1> USE DEF Inv, maximum_node
<1>0. /\ n \in linked /\ doomed = NULL /\ NULL \notin linked /\ linked \subseteq Node
      /\ pc = "maximum_node" /\ pc' = pc /\ doomed' = NULL /\ n' = n
      /\ pred' = link[pred]["right"] /\ inserted' = inserted /\ child' = child
      /\ sought' = sought
      /\ UNCHANGED <<pointers, color, entries, linked>>
  BY TreeAssumption DEF Locals, Deleting, TypeOK
<1> HIDE DEF maximum_node
<1>p. /\ pred \in sub[link[n]["left"]] /\ link[n]["left"] \in linked
      /\ pred \in linked /\ pred' \in linked
      /\ \A x \in sub[link[n]["left"]] \ sub[pred] : keyAt(x) < keyAt(pred)
  <2>1. /\ pred \in sub[link[n]["left"]]
        /\ \A x \in sub[link[n]["left"]] \ sub[pred] : keyAt(x) < keyAt(pred)
    BY <1>0 DEF Searching
  <2>2. link[n]["left"] \in linked \cup {NULL} /\ sub[NULL] = {}
    BY <1>0, Below DEF Side, Shape
  <2>4. link[n]["left"] \in linked
    BY <2>1, <2>2
  <2>5. pred \in linked
    BY <2>1, <2>4, Around
  <2>3. link[pred]["right"] \in linked
    BY <2>5, Below DEF Side
  <2> QED
    BY <1>0, <2>1, <2>3, <2>4, <2>5
<1>1. TypeOK'
  BY <1>0, <1>p DEF TypeOK, pointers, entries, Pointer
<1>2. samePointers /\ sameKeys
  BY <1>0 DEF pointers, entries, samePointers, sameKeys
<1>3. ParentLinks' /\ Shape(sub)' /\ Ordered(sub)' /\ Distinct'
  BY <1>2, KeepShape, KeepOrder
<1>4. Locals'
  BY <1>0 DEF Locals, Deleting, pointers, entries, hasBoth
<1>5. Searching(sub)'
  <2> DEFINE q == link[pred]["right"]
  <2>1. q \in sub[q] /\ sub[q] \subseteq sub[pred] /\ q \in linked
        /\ sub[pred] \subseteq sub[link[n]["left"]]
    BY <1>p, <1>0, Above, Below DEF Side, Shape
  <2>2. before("right", keyAt(q), keyAt(pred))
    BY <1>0, <1>p, <2>1 DEF Ordered, Side
  <2>3. ASSUME NEW x \in sub[link[n]["left"]] \ sub[q]
        PROVE  keyAt(x) < keyAt(q)
    <3>1. x \in linked
      BY <1>p, Around
    <3>2. keyAt(x) \in Int /\ keyAt(q) \in Int /\ keyAt(pred) \in Int
      BY <1>0, <1>p, <2>1, <3>1, KeysAreInts
    <3>3. x = pred \/ keyAt(x) < keyAt(pred)
      <4>1. CASE x \in sub[pred]
        BY <1>0, <1>p, <2>3, <4>1, Rightmost
      <4>2. CASE x \notin sub[pred]
        BY <1>p, <4>2
      <4> QED
        BY <4>1, <4>2
    <3> QED
      BY <2>2, <3>2, <3>3 DEF before
  <2> HIDE DEF q
  <2>4. link' = link /\ key' = key /\ pred' = q
    BY <1>0 DEF pointers, entries, q
  <2> QED
    BY <1>0, <1>p, <2>1, <2>3, <2>4 DEF Searching, keyAt
<1>6. Heights(bh)'
  BY <1>0, <1>2, KeepHeights DEF Short
<1>7. Colors'
  BY <1>0, <1>2, KeepColors DEF Inserting
<1>8. Deletion(sub)'
  BY <1>0 DEF Deletion, Deleting, Short
<1> QED
  BY <1>1, <1>3, <1>4, <1>5, <1>6, <1>7, <1>8

(* The search for the predecessor begins.                                  *)
LEMMA DeleteDescend ==
  ASSUME NEW sub, NEW bh, Inv(sub, bh), rbtree_delete, hasBoth(n)
  PROVE  Inv(sub, bh)'
<1> USE DEF Inv
<1>0. /\ n \in linked /\ doomed = NULL /\ NULL \notin linked /\ linked \subseteq Node
      /\ pc = "lookup_node" /\ pc' = "maximum_node" /\ doomed' = NULL /\ n' = n
      /\ pred' = link[n]["left"] /\ inserted' = inserted /\ child' = child
      /\ sought' = sought
      /\ UNCHANGED <<pointers, color, entries, linked>>
  BY TreeAssumption DEF Locals, Deleting, TypeOK, rbtree_delete
<1>p. pred' \in linked /\ pred' \in sub[pred']
  BY <1>0, Below DEF Side, hasBoth
<1>1. TypeOK'
  BY <1>0, <1>p DEF TypeOK, pointers, entries, Pointer
<1>2. samePointers /\ sameKeys
  BY <1>0 DEF pointers, entries, samePointers, sameKeys
<1>3. ParentLinks' /\ Shape(sub)' /\ Ordered(sub)' /\ Distinct'
  BY <1>2, KeepShape, KeepOrder
<1>4. Locals'
  BY <1>0 DEF Locals, Deleting, pointers, entries, hasBoth
<1>5. Searching(sub)'
  BY <1>0, <1>p DEF Searching, pointers
<1>6. Heights(bh)'
  BY <1>0, <1>2, KeepHeights DEF Short
<1>7. Colors'
  BY <1>0, <1>2, KeepColors DEF Inserting
<1>8. Deletion(sub)'
  BY <1>0 DEF Deletion, Deleting, Short
<1> QED
  BY <1>1, <1>3, <1>4, <1>5, <1>6, <1>7, <1>8

-----------------------------------------------------------------------------
(* Insertion.                                                              *)

(* new_node                                                                *)
fresh(x, e) ==
  /\ x \in Node \ linked
  /\ link' = [link EXCEPT ![x] = [d \in Side |-> NULL]]
  /\ parent' = [parent EXCEPT ![x] = NULL]
  /\ color' = [color EXCEPT ![x] = "RED"]
  /\ key' = [key EXCEPT ![x] = e.ObjAddr]
  /\ value' = [value EXCEPT ![x] = e]
  /\ UNCHANGED <<pred, doomed, child>>

(* The new node, which is not yet in the tree.                             *)
LEMMA Fresh ==
  ASSUME TypeOK, NEW e \in Entry, NEW x, fresh(x, e)
  PROVE  /\ link' \in [Node -> [Side -> Pointer]] /\ parent' \in [Node -> Pointer]
         /\ color' \in [Node -> {"RED", "BLACK"}]
         /\ key' \in [Node -> Addr \cup {0}] /\ value' \in [Node -> Entry \cup {None}]
         /\ \A d \in Side : link'[x][d] = NULL
         /\ parent'[x] = NULL /\ color'[x] = "RED"
         /\ key'[x] = e.ObjAddr /\ value'[x] = e /\ e.ObjAddr \in Addr
         /\ \A y \in linked : /\ y # x /\ link'[y] = link[y] /\ parent'[y] = parent[y]
                              /\ color'[y] = color[y] /\ key'[y] = key[y]
<1>1. x \in Node /\ x \notin linked /\ e.ObjAddr \in Addr /\ linked \subseteq Node
  BY DEF fresh, Entry, TypeOK
<1>2. [d \in Side |-> NULL] \in [Side -> Pointer]
  BY DEF Pointer
<1>3. /\ link' \in [Node -> [Side -> Pointer]] /\ parent' \in [Node -> Pointer]
      /\ color' \in [Node -> {"RED", "BLACK"}]
      /\ key' \in [Node -> Addr \cup {0}] /\ value' \in [Node -> Entry \cup {None}]
  BY <1>1, <1>2 DEF fresh, TypeOK, Pointer
<1>4. /\ \A d \in Side : link'[x][d] = NULL
      /\ parent'[x] = NULL /\ color'[x] = "RED"
      /\ key'[x] = e.ObjAddr /\ value'[x] = e
  BY <1>1 DEF fresh, TypeOK
<1>5. \A y \in linked : /\ y # x /\ link'[y] = link[y] /\ parent'[y] = parent[y]
                       /\ color'[y] = color[y] /\ key'[y] = key[y]
  BY <1>1 DEF fresh, TypeOK
<1> QED
  BY <1>1, <1>3, <1>4, <1>5

(* The search for its place begins.                                        *)
LEMMA InsertPlace ==
  ASSUME NEW sub, NEW bh, Inv(sub, bh), NEW e \in Entry, NEW x, fresh(x, e),
         pc = "idle", root # NULL,
         sought' = e.ObjAddr, inserted' = x, pc' = "place", n' = root,
         UNCHANGED <<root, linked>>
  PROVE  Inv(sub, bh)'
<1> USE DEF Inv
<1>0. /\ x \in Node \ linked /\ doomed = NULL /\ doomed' = NULL
      /\ root \in linked /\ pred' = pred /\ child' = child
      /\ NULL \notin linked /\ linked \subseteq Node
  BY TreeAssumption DEF fresh, Locals, Deleting, ParentLinks, TypeOK
<1>1. TypeOK'
  BY <1>0, Fresh DEF TypeOK, Pointer
<1>2. samePointers /\ sameKeys
  BY <1>0, Fresh DEF samePointers, sameKeys
<1>3. ParentLinks' /\ Shape(sub)' /\ Ordered(sub)' /\ Distinct'
  BY <1>2, KeepShape, KeepOrder
<1>4. Locals'
  BY <1>0, Fresh DEF Locals, Deleting
<1>5. Searching(sub)'
  <2>1. ASSUME NEW y \in linked, NEW d \in Side
        PROVE  root \notin sub[link'[y][d]]
    <3>1. link[y][d] \in linked \cup {NULL} /\ y \notin sub[link[y][d]] /\ sub[NULL] = {}
      BY Below DEF Shape
    <3>2. root \in sub[link[y][d]] => linked \subseteq sub[link[y][d]]
      BY <1>0, <3>1 DEF Shape
    <3> QED
      BY <1>2, <3>1, <3>2 DEF samePointers
  <2>2. sub[root] = linked
    BY DEF Shape
  <2> QED
    BY <2>1, <2>2 DEF Searching
<1>6. Heights(bh)'
  BY <1>0, <1>2, Fresh, KeepHeights DEF Short
<1>7. Colors'
  BY <1>0, <1>2, Fresh, KeepColors DEF Inserting
<1>8. Deletion(sub)'
  BY <1>0 DEF Deletion, Deleting, Short
<1> QED
  BY <1>1, <1>3, <1>4, <1>5, <1>6, <1>7, <1>8

(* It is the first node.                                                   *)
LEMMA InsertRoot ==
  ASSUME NEW sub, NEW bh, Inv(sub, bh), NEW e \in Entry, NEW x, fresh(x, e),
         pc = "idle", root = NULL, root' = x, linked' = linked \cup {x},
         pc' = "insert", n' = x, UNCHANGED <<sought, inserted>>
  PROVE  \E s, b : Inv(s, b)'
<1> USE DEF Inv
<1>0. /\ x \in Node /\ doomed = NULL /\ doomed' = NULL
      /\ linked = {} /\ linked' = {x} /\ pred' = pred /\ child' = child
      /\ x # NULL /\ x \in Pointer /\ NULL \in Pointer
  BY TreeAssumption DEF fresh, Locals, Deleting, ParentLinks, TypeOK, Pointer
<1>l. link'[x]["left"] = NULL /\ link'[x]["right"] = NULL
      /\ \A d \in Side : link'[x][d] = NULL
  BY Fresh DEF Side
<1> PICK s : s = [sub EXCEPT ![x] = {x}]
  OBVIOUS
<1> PICK b : b = [bh EXCEPT ![x] = 0]
  OBVIOUS
<1>s. s \in [Pointer -> SUBSET Node] /\ s[x] = {x} /\ s[NULL] = {}
  BY <1>0 DEF Shape
<1>b. b \in [Pointer -> Nat] /\ b[x] = 0 /\ b[NULL] = 0
  BY <1>0 DEF Heights
<1>1. TypeOK'
  BY <1>0, Fresh DEF TypeOK, Pointer
<1>2. ParentLinks'
  BY <1>0, <1>l, Fresh DEF ParentLinks
<1>3. Shape(s)'
  BY <1>0, <1>l, <1>s DEF Shape
<1>4. Ordered(s)' /\ Distinct'
  BY <1>0, <1>l, <1>s DEF Ordered, Distinct
<1>5. Locals'
  BY <1>0 DEF Locals, Deleting
<1>6. Searching(s)'
  BY DEF Searching
<1>7. Heights(b)'
  BY <1>0, <1>l, <1>b DEF Heights, weight, deficit
<1>8. Colors'
  BY <1>0, <1>l, Fresh DEF Colors, Inserting, colorOf
<1>9. Deletion(s)'
  BY DEF Deletion, Deleting, Short
<1> QED
  BY <1>1, <1>2, <1>3, <1>4, <1>5, <1>6, <1>7, <1>8, <1>9

(* An insertion begins, or there is no memory.                             *)
LEMMA RbtreeInsert ==
  ASSUME NEW sub, NEW bh, Inv(sub, bh), NEW e \in Entry, rbtree_insert(e)
  PROVE  \E s, b : Inv(s, b)'
<1>1. CASE UNCHANGED vars
  BY <1>1, Stutter
<1>2. ASSUME NEW x \in Node \ linked,
             link' = [link EXCEPT ![x] = [d \in Side |-> NULL]],
             parent' = [parent EXCEPT ![x] = NULL],
             color' = [color EXCEPT ![x] = "RED"],
             key' = [key EXCEPT ![x] = e.ObjAddr],
             value' = [value EXCEPT ![x] = e],
             IF root = NULL
             THEN /\ root' = x /\ linked' = linked \cup {x}
                  /\ pc' = "insert" /\ n' = x
                  /\ UNCHANGED <<sought, inserted>>
             ELSE /\ sought' = e.ObjAddr /\ inserted' = x
                  /\ pc' = "place" /\ n' = root
                  /\ UNCHANGED <<root, linked>>,
             UNCHANGED <<pred, doomed, child>>
      PROVE  \E s, b : Inv(s, b)'
  <2>1. fresh(x, e) /\ pc = "idle"
    BY <1>2 DEF fresh, rbtree_insert
  <2>2. CASE root = NULL
    BY <1>2, <2>1, <2>2, InsertRoot
  <2>3. CASE root # NULL
    BY <1>2, <2>1, <2>3, InsertPlace
  <2> QED
    BY <2>2, <2>3
<1> QED
  BY <1>1, <1>2 DEF rbtree_insert

(* What the leaf that takes the new node looks like.                       *)
LEMMA LeafPointers ==
  ASSUME NEW sub, NEW bh, Inv(sub, bh), insertLeaf,
         NEW i, i = inserted, NEW d, d = toward(n)
  PROVE  /\ n \in linked /\ i \in Node \ linked /\ i # NULL /\ i # n
         /\ NULL \notin linked /\ linked \subseteq Node /\ doomed = NULL
         /\ pc = "place" /\ pc' = "insert" /\ n' = i /\ doomed' = NULL
         /\ linked' = linked \cup {i} /\ root' = root /\ color' = color /\ key' = key
         /\ d \in Side /\ opposite(d) \in Side /\ Side = {d, opposite(d)}
         /\ d # opposite(d)
         /\ before(d, toInt(sought), keyAt(n)) /\ keyAt(i) = toInt(sought)
         /\ color[i] = "RED" /\ sought \in Addr /\ ~same(n)
         /\ link[n][d] = NULL
         /\ link' \in [Node -> [Side -> Pointer]] /\ parent' \in [Node -> Pointer]
         /\ link'[n][d] = i /\ link'[n][opposite(d)] = link[n][opposite(d)]
         /\ \A y \in Node \ {n} : link'[y] = link[y]
         /\ \A e \in Side : link'[i][e] = NULL
         /\ parent'[i] = n /\ \A y \in Node \ {i} : parent'[y] = parent[y]
<1> USE DEF Inv
<1>1. /\ n \in linked /\ i \in Node \ linked /\ doomed = NULL /\ sought \in Addr
      /\ key[i] = sought /\ color[i] = "RED"
      /\ \A e \in Side : link[i][e] = NULL
      /\ pc = "place" /\ ~same(n) /\ link[n][d] = NULL
  BY DEF Locals, Deleting, insertLeaf
<1>2. /\ n \in Node /\ i \in Node /\ i # n /\ i # NULL
      /\ NULL \notin linked /\ linked \subseteq Node
  BY <1>1, TreeAssumption DEF TypeOK
<1>3. d \in Side /\ before(d, toInt(sought), keyAt(n))
  BY <1>1, TowardIsBefore
<1>4. /\ opposite(d) \in Side /\ Side = {d, opposite(d)} /\ opposite(d) # d
  BY <1>3, SidesOpposite
<1>5. /\ link' \in [Node -> [Side -> Pointer]] /\ parent' \in [Node -> Pointer]
      /\ link'[n][d] = i /\ link'[n][opposite(d)] = link[n][opposite(d)]
      /\ \A y \in Node \ {n} : link'[y] = link[y]
      /\ parent'[i] = n /\ \A y \in Node \ {i} : parent'[y] = parent[y]
  <2>1. link \in [Node -> [Side -> Pointer]] /\ parent \in [Node -> Pointer]
        /\ i \in Pointer /\ n \in Pointer
    BY <1>2 DEF TypeOK, Pointer
  <2>2. link' = [link EXCEPT ![n][d] = i] /\ parent' = [parent EXCEPT ![i] = n]
    BY DEF insertLeaf
  <2>3. /\ link' \in [Node -> [Side -> Pointer]]
        /\ link'[n][d] = i /\ link'[n][opposite(d)] = link[n][opposite(d)]
    BY <1>2, <1>3, <1>4, <2>1, <2>2
  <2>4. \A y \in Node \ {n} : link'[y] = link[y]
    BY <1>2, <2>1, <2>2
  <2>5. /\ parent' \in [Node -> Pointer]
        /\ parent'[i] = n /\ \A y \in Node \ {i} : parent'[y] = parent[y]
    BY <1>2, <2>1, <2>2
  <2> QED
    BY <2>3, <2>4, <2>5
<1>6. \A e \in Side : link'[i][e] = NULL
  BY <1>1, <1>2, <1>5
<1>7. /\ pc' = "insert" /\ n' = i /\ doomed' = NULL
      /\ linked' = linked \cup {i} /\ root' = root /\ color' = color /\ key' = key
  BY <1>1 DEF insertLeaf, entries
<1> QED
  BY <1>1, <1>2, <1>3, <1>4, <1>5, <1>6, <1>7 DEF keyAt

(* The nodes below after the new node i has become a child of n.           *)
grown(sub, i) ==
  [z \in Pointer |-> IF z = i THEN {i}
                    ELSE IF n \in sub[z] THEN sub[z] \cup {i} ELSE sub[z]]

(* The tree with the new leaf is a tree, in order.                         *)
LEMMA LeafShape ==
  ASSUME NEW sub, NEW bh, Inv(sub, bh), insertLeaf,
         NEW i, i = inserted, NEW s, s = grown(sub, i)
  PROVE  ParentLinks' /\ Shape(s)'
<1> USE DEF Inv
<1> PICK d : d = toward(n)
  OBVIOUS
<1>L. /\ n \in linked /\ i \in Node \ linked /\ i # NULL /\ i # n
      /\ NULL \notin linked /\ linked \subseteq Node
      /\ linked' = linked \cup {i} /\ root' = root
      /\ d \in Side /\ opposite(d) \in Side /\ Side = {d, opposite(d)}
      /\ d # opposite(d) /\ link[n][d] = NULL
      /\ link'[n][d] = i /\ link'[n][opposite(d)] = link[n][opposite(d)]
      /\ \A y \in Node \ {n} : link'[y] = link[y]
      /\ \A e \in Side : link'[i][e] = NULL
      /\ parent'[i] = n /\ \A y \in Node \ {i} : parent'[y] = parent[y]
  BY LeafPointers
<1> HIDE DEF Inv
<1>T. TypeOK /\ ParentLinks /\ Shape(sub)
  BY DEF Inv
<1>0. /\ root \in linked /\ sub[NULL] = {} /\ sub \in [Pointer -> SUBSET Node]
      /\ sub[root] = linked /\ linked \subseteq Pointer /\ NULL \in Pointer /\ i \in Pointer
      /\ \A y \in linked : sub[y] \subseteq linked
  BY <1>L, <1>T, Around DEF Shape, ParentLinks, Pointer
<1>1. ParentLinks'
  <2>1. root' \in linked' /\ parent'[root'] = NULL
    BY <1>L, <1>T, <1>0 DEF ParentLinks
  <2>2. ASSUME NEW y \in linked', NEW e \in Side, link'[y][e] # NULL
        PROVE  link'[y][e] \in linked' /\ parent'[link'[y][e]] = y
    <3>1. CASE y = i
      BY <1>L, <2>2, <3>1
    <3>2. CASE y = n /\ e = d
      BY <1>L, <3>2
    <3>3. CASE y \in linked /\ ~(y = n /\ e = d)
      <4>1. link'[y][e] = link[y][e]
        BY <1>L, <3>3
      <4>2. link[y][e] \in linked /\ parent[link[y][e]] = y
        BY <1>T, <2>2, <3>3, <4>1 DEF ParentLinks
      <4> QED
        BY <1>L, <4>1, <4>2
    <3> QED
      BY <1>L, <3>1, <3>2, <3>3
  <2>3. ASSUME NEW y \in linked', y # root'
        PROVE  parent'[y] \in linked' /\ \E e \in Side : link'[parent'[y]][e] = y
    <3>1. CASE y = i
      BY <1>L, <3>1
    <3>2. CASE y \in linked
      <4>1. PICK e \in Side : link[parent[y]][e] = y
        BY <1>L, <1>T, <2>3, <3>2 DEF ParentLinks
      <4>2. parent[y] \in linked /\ parent'[y] = parent[y]
        BY <1>L, <1>T, <2>3, <3>2 DEF ParentLinks
      <4>3. link'[parent[y]][e] = y
        BY <1>L, <3>2, <4>1, <4>2
      <4> QED
        BY <1>L, <4>2, <4>3
    <3> QED
      BY <1>L, <3>1, <3>2
  <2> QED
    BY <2>1, <2>2, <2>3 DEF ParentLinks
<1>2. /\ s \in [Pointer -> SUBSET Node] /\ s[NULL] = {} /\ s[i] = {i}
      /\ \A z \in linked \cup {NULL} :
           s[z] = IF n \in sub[z] THEN sub[z] \cup {i} ELSE sub[z]
  <2>1. /\ \A z \in Pointer : s[z] = IF z = i THEN {i}
                                     ELSE IF n \in sub[z] THEN sub[z] \cup {i} ELSE sub[z]
        /\ DOMAIN s = Pointer /\ s = [z \in Pointer |-> s[z]]
    BY DEF grown
  <2>2. ASSUME NEW z \in Pointer
        PROVE  s[z] \in SUBSET Node
    <3>1. sub[z] \subseteq Node /\ {i} \subseteq Node
      BY <1>L, <1>0
    <3> QED
      BY <2>1, <3>1
  <2>3. s \in [Pointer -> SUBSET Node]
    BY <2>1, <2>2
  <2>4. s[i] = {i}
    BY <1>0, <2>1
  <2>5. ASSUME NEW z \in linked \cup {NULL}
        PROVE  s[z] = IF n \in sub[z] THEN sub[z] \cup {i} ELSE sub[z]
    <3>1. z \in Pointer /\ z # i
      BY <1>L, <1>0
    <3> QED
      BY <2>1, <3>1
  <2>6. s[NULL] = {}
    BY <1>0, <2>5
  <2> QED
    BY <2>3, <2>4, <2>5, <2>6
<1>3. s[root'] = linked'
  BY <1>L, <1>0, <1>2
<1>g. \A z \in linked : sub[z] \subseteq s[z] /\ \A y \in s[z] : y \in sub[z] \/ y = i
  BY <1>2
<1> DEFINE Right(y) ==
       /\ s[y] = {y} \cup s[link'[y]["left"]] \cup s[link'[y]["right"]]
       /\ s[link'[y]["left"]] \cap s[link'[y]["right"]] = {}
       /\ \A e \in Side : y \notin s[link'[y][e]]
<1>4. ASSUME NEW y \in linked'
      PROVE  Right(y)
  <2>0. ASSUME NEW e \in Side,
               s[y] = {y} \cup s[link'[y][e]] \cup s[link'[y][opposite(e)]],
               s[link'[y][e]] \cap s[link'[y][opposite(e)]] = {},
               y \notin s[link'[y][e]], y \notin s[link'[y][opposite(e)]]
        PROVE Right(y)
    BY <2>0 DEF Side, opposite
  <2>1. CASE y = i
    BY <1>L, <1>2, <2>0, <2>1
  <2>2. CASE y = n
    <3> PICK o : o = link[n][opposite(d)]
      OBVIOUS
    <3>1. /\ sub[n] = {n} \cup sub[NULL] \cup sub[o] /\ n \notin sub[o]
          /\ o \in linked \cup {NULL}
      BY <1>L, <1>T, Below
    <3>2. s[n] = {n} \cup {i} \cup sub[o] /\ s[o] = sub[o] /\ s[i] = {i}
      BY <1>L, <1>0, <1>2, <3>1
    <3>3. i \notin sub[o]
      BY <1>L, <1>0, <3>1
    <3>4. link'[n][d] = i /\ link'[n][opposite(d)] = o
      BY <1>L
    <3> HIDE DEF Right
    <3> QED
      BY <1>L, <2>0, <2>2, <3>1, <3>2, <3>3, <3>4
  <2>3. CASE y \in linked \ {n}
    <3> PICK l : l = link[y]["left"]
      OBVIOUS
    <3> PICK r : r = link[y]["right"]
      OBVIOUS
    <3>1. /\ sub[y] = {y} \cup sub[l] \cup sub[r] /\ sub[l] \cap sub[r] = {}
          /\ y \notin sub[l] /\ y \notin sub[r]
      BY <1>T, <2>3 DEF Shape, Side
    <3>2. l \in linked \cup {NULL} /\ r \in linked \cup {NULL}
      BY <1>T, <2>3 DEF ParentLinks, Side
    <3>3. i \notin sub[l] /\ i \notin sub[r] /\ i # y
      BY <1>L, <1>0, <2>3, <3>2
    <3>4. link'[y]["left"] = l /\ link'[y]["right"] = r
      BY <1>L, <2>3
    <3>5. /\ s[y] = IF n \in sub[y] THEN sub[y] \cup {i} ELSE sub[y]
          /\ s[l] = IF n \in sub[l] THEN sub[l] \cup {i} ELSE sub[l]
          /\ s[r] = IF n \in sub[r] THEN sub[r] \cup {i} ELSE sub[r]
      BY <1>2, <2>3, <3>2
    <3>6. s[y] = {y} \cup s[l] \cup s[r]
      BY <2>3, <3>1, <3>5
    <3>7. s[l] \cap s[r] = {}
      BY <3>1, <3>3, <3>5
    <3>8. y \notin s[l] /\ y \notin s[r]
      BY <3>1, <3>3, <3>5
    <3> QED
      BY <3>4, <3>6, <3>7, <3>8 DEF Side
  <2> QED
    BY <1>L, <2>1, <2>2, <2>3
<1>5. ASSUME NEW x \in linked', NEW y \in linked', y \in s[x]
      PROVE  s[y] \subseteq s[x]
  <2>1. CASE x = i
    BY <1>2, <1>5, <2>1
  <2>2. CASE x \in linked /\ y = i
    BY <1>2, <1>5, <2>2
  <2>3. CASE x \in linked /\ y \in linked
    <3>1. y \in sub[x]
      BY <1>L, <1>g, <1>5, <2>3
    <3>2. sub[y] \subseteq sub[x]
      BY <1>T, <2>3, <3>1 DEF Shape
    <3> QED
      BY <1>2, <2>3, <3>1, <3>2
  <2> QED
    BY <1>L, <2>1, <2>2, <2>3
<1>6. ASSUME NEW x \in linked', NEW y \in linked', y \in s[x], y # x
      PROVE  parent'[y] \in s[x]
  <2>1. CASE x = i
    BY <1>2, <1>6, <2>1
  <2>2. CASE x \in linked /\ y = i
    <3>1. i \notin sub[x] /\ i \in s[x] /\ parent'[y] = n
      BY <1>L, <1>0, <1>6, <2>2
    <3>2. n \in sub[x]
      BY <1>2, <2>2, <3>1
    <3> QED
      BY <1>g, <2>2, <3>1, <3>2
  <2>3. CASE x \in linked /\ y \in linked
    <3>1. y \in sub[x]
      BY <1>L, <1>g, <1>6, <2>3
    <3>2. parent[y] \in sub[x]
      BY <1>T, <1>6, <2>3, <3>1 DEF Shape
    <3>3. parent'[y] = parent[y]
      BY <1>L, <2>3
    <3> QED
      BY <1>g, <2>3, <3>2, <3>3
  <2> QED
    BY <1>L, <2>1, <2>2, <2>3
<1> HIDE DEF Right
<1>7. Shape(s)'
  BY <1>2, <1>3, <1>4, <1>5, <1>6 DEF Shape, Right
<1> QED
  BY <1>1, <1>7

(* The new node is linked; it is red and no path gets longer.              *)
LEMMA InsertLeaf ==
  ASSUME NEW sub, NEW bh, Inv(sub, bh), insertLeaf
  PROVE  \E s, b : Inv(s, b)'
<1> PICK i : i = inserted
  OBVIOUS
<1> PICK d : d = toward(n)
  OBVIOUS
<1> PICK s : s = grown(sub, i)
  OBVIOUS
<1> PICK b : b = [bh EXCEPT ![i] = 0]
  OBVIOUS
<1>L. /\ n \in linked /\ i \in Node \ linked /\ i # NULL /\ i # n
      /\ NULL \notin linked /\ linked \subseteq Node /\ doomed = NULL
      /\ pc = "place" /\ pc' = "insert" /\ n' = i /\ doomed' = NULL
      /\ linked' = linked \cup {i} /\ root' = root /\ color' = color /\ key' = key
      /\ d \in Side /\ opposite(d) \in Side /\ Side = {d, opposite(d)}
      /\ d # opposite(d)
      /\ before(d, toInt(sought), keyAt(n)) /\ keyAt(i) = toInt(sought)
      /\ color[i] = "RED" /\ sought \in Addr /\ ~same(n)
      /\ link[n][d] = NULL
      /\ link' \in [Node -> [Side -> Pointer]] /\ parent' \in [Node -> Pointer]
      /\ link'[n][d] = i /\ link'[n][opposite(d)] = link[n][opposite(d)]
      /\ \A y \in Node \ {n} : link'[y] = link[y]
      /\ \A e \in Side : link'[i][e] = NULL
  BY LeafPointers
<1>T. /\ TypeOK /\ ParentLinks /\ Shape(sub) /\ Ordered(sub) /\ Distinct
      /\ Heights(bh) /\ Colors /\ Locals /\ Searching(sub)
  BY DEF Inv
<1>0. /\ root \in linked /\ sub[NULL] = {}
      /\ \A y \in linked : sub[y] \subseteq linked
  BY <1>L, <1>T, Around DEF Shape, ParentLinks
<1>s. /\ s[NULL] = {} /\ s[i] = {i}
      /\ \A z \in linked \cup {NULL} :
           s[z] = IF n \in sub[z] THEN sub[z] \cup {i} ELSE sub[z]
  BY <1>L, <1>0 DEF grown, Pointer
<1>b. b \in [Pointer -> Nat] /\ b[i] = 0 /\ b[NULL] = 0
      /\ \A z \in linked \cup {NULL} : b[z] = bh[z]
  BY <1>L, <1>T DEF Heights, Pointer
<1>c. ASSUME NEW y \in linked, NEW e \in Side
      PROVE  /\ link[y][e] \in linked \cup {NULL} /\ link[y][e] # i
             /\ ~(y = n /\ e = d) => link'[y][e] = link[y][e]
  <2>1. link[y][e] \in linked \cup {NULL}
    BY <1>T, Below
  <2> QED
    BY <1>L, <2>1
<1>k. \A y : keyAt(y)' = keyAt(y)
  BY <1>L DEF keyAt
<1>1. TypeOK'
  <2>1. /\ inserted' = NULL /\ sought' = None
        /\ value' = value /\ pred' = pred /\ child' = child
    BY DEF insertLeaf, entries
  <2>2. /\ root' \in Pointer /\ color' \in [Node -> {"RED", "BLACK"}]
        /\ key' \in [Node -> Addr \cup {0}] /\ value' \in [Node -> Entry \cup {None}]
    BY <1>L, <1>T, <2>1 DEF TypeOK
  <2>3. {inserted, n, pred, doomed, child}' \subseteq Pointer
    BY <1>L, <1>T, <2>1 DEF TypeOK, Pointer
  <2>4. linked' \subseteq Node
    BY <1>L
  <2> QED
    BY <1>L, <2>1, <2>2, <2>3, <2>4 DEF TypeOK
<1>2. ParentLinks' /\ Shape(s)'
  BY LeafShape
<1>3. Ordered(s)'
  <2>1. ASSUME NEW y \in linked', NEW e \in Side, NEW z \in s[link'[y][e]]
        PROVE  before(e, keyAt(z), keyAt(y))
    <3>1. CASE y = i
      BY <1>L, <1>s, <2>1, <3>1
    <3>2. CASE y = n /\ e = d
      BY <1>L, <1>s, <2>1, <3>2
    <3>3. CASE y \in linked /\ ~(y = n /\ e = d)
      <4>1. link'[y][e] = link[y][e] /\ link[y][e] \in linked \cup {NULL}
        BY <1>c, <3>3
      <4>2. CASE z \in sub[link[y][e]]
        <5>1. z \in linked
          BY <1>0, <4>1, <4>2
        <5> QED
          BY <1>L, <1>T, <3>3, <4>2, <5>1 DEF Ordered
      <4>3. CASE z \notin sub[link[y][e]]
        <5>1. z = i /\ n \in sub[link[y][e]]
          BY <1>s, <2>1, <4>1, <4>3
        <5>2. before(e, toInt(sought), keyAt(y))
          BY <1>L, <1>T, <3>3, <5>1 DEF Searching
        <5> QED
          BY <1>L, <5>1, <5>2
      <4> QED
        BY <4>2, <4>3
    <3> QED
      BY <1>L, <3>1, <3>2, <3>3
  <2> QED
    BY <1>k, <2>1 DEF Ordered
<1>4. Distinct'
  <2>1. ASSUME NEW y \in linked, keyAt(y) = toInt(sought)
        PROVE  FALSE
    <3>1. same(y) /\ y \in sub[n]
      BY <1>L, <1>T, <2>1 DEF Searching, same, keyAt
    <3>2. y \in sub[link[n][d]]
      BY <1>L, <1>T, <3>1, DescentFinds
    <3> QED
      BY <1>L, <1>0, <3>2
  <2>2. ASSUME NEW x \in linked', NEW y \in linked', keyAt(x) = keyAt(y)
        PROVE  x = y
    BY <1>L, <1>T, <2>1, <2>2 DEF Distinct
  <2> QED
    BY <1>k, <2>2 DEF Distinct
<1>5. Locals'
  BY <1>L DEF Locals, Deleting
<1>6. Searching(s)'
  BY <1>L DEF Searching
<1>7. Heights(b)'
  <2>1. ASSUME NEW y \in linked', NEW e \in Side
        PROVE  b[y] = b[link'[y][e]] + weight(link'[y][e], color', doomed')
                      + deficit(link'[y][e], shortAt')
    <3>0. shortAt = NULL /\ shortAt' = NULL
      BY <1>L DEF shortAt, Short
    <3>1. CASE y = i
      BY <1>L, <1>b, <3>0, <3>1 DEF weight, deficit
    <3>2. CASE y = n /\ e = d
      <4>1. bh[n] = bh[NULL] + weight(NULL, color, doomed) + deficit(NULL, shortAt)
        BY <1>L, <1>T DEF Heights
      <4>2. bh[n] = 0
        BY <1>T, <4>1 DEF Heights, weight, deficit
      <4> QED
        BY <1>L, <1>b, <3>0, <3>2, <4>2 DEF weight, deficit
    <3>3. CASE y \in linked /\ ~(y = n /\ e = d)
      <4>1. link'[y][e] = link[y][e] /\ link[y][e] \in linked \cup {NULL}
        BY <1>c, <3>3
      <4>2. bh[y] = bh[link[y][e]] + weight(link[y][e], color, doomed)
                    + deficit(link[y][e], shortAt)
        BY <1>T, <3>3 DEF Heights
      <4> QED
        BY <1>L, <1>b, <3>0, <3>3, <4>1, <4>2
    <3> QED
      BY <1>L, <3>1, <3>2, <3>3
  <2> QED
    BY <1>b, <2>1 DEF Heights
<1>8. Colors'
  <2>1. ASSUME NEW y \in linked', NEW e \in Side, color[y] = "RED"
        PROVE  /\ link'[y][e] = i \/ link'[y][e] = NULL
                  \/ color[link'[y][e]] = "BLACK"
    <3>1. CASE y = i
      BY <1>L, <3>1
    <3>2. CASE y = n /\ e = d
      BY <1>L, <3>2
    <3>3. CASE y \in linked /\ ~(y = n /\ e = d)
      <4>1. link'[y][e] = link[y][e] /\ link[y][e] \in linked \cup {NULL}
        BY <1>c, <3>3
      <4> QED
        BY <1>L, <1>T, <2>1, <3>3, <4>1 DEF Colors, colorOf, Inserting
    <3> QED
      BY <1>L, <3>1, <3>2, <3>3
  <2>2. colorOf(root) # "RED"
    BY <1>L, <1>0, <1>T DEF Colors
  <2> QED
    BY <1>L, <2>1, <2>2 DEF Colors, colorOf, Inserting
<1>9. Deletion(s)'
  BY <1>L DEF Deletion, Deleting, Short
<1> QED
  BY <1>1, <1>2, <1>3, <1>4, <1>5, <1>6, <1>7, <1>8, <1>9 DEF Inv

(* A red node with a red parent has a black grandparent.                   *)
LEMMA Family ==
  ASSUME NEW sub, NEW bh, Inv(sub, bh), Inserting, parent[n] # NULL,
         color[parent[n]] = "RED",
         NEW p, p = parent[n], NEW g, g = grandparent(n), NEW u, u = uncle(n)
  PROVE  /\ n \in linked /\ p \in linked /\ g \in linked /\ g # p /\ p # n /\ g # n
         /\ NULL \notin linked /\ linked \subseteq Node
         /\ n # root /\ p # root /\ g = parent[p]
         /\ color[n] = "RED" /\ color[p] = "RED" /\ color[g] = "BLACK"
         /\ colorOf(root) # "RED"
         /\ sideOf(n) \in Side /\ sideOf(p) \in Side
         /\ link[p][sideOf(n)] = n
         /\ link[g][sideOf(p)] = p /\ link[g][opposite(sideOf(p))] = u
         /\ u \in linked \cup {NULL} /\ u \notin {n, p, g}
         /\ (u # NULL => parent[u] = g)
         /\ doomed = NULL /\ doomed # n /\ doomed # p /\ doomed # g
         /\ ~Short /\ ~Deleting /\ shortAt = NULL
<1> USE DEF Inv
<1>1. /\ n \in linked /\ NULL \notin linked /\ linked \subseteq Node /\ doomed = NULL
      /\ ~Short /\ ~Deleting /\ shortAt = NULL /\ color[n] = "RED"
  BY TreeAssumption
     DEF Locals, Inserting, Deleting, Short, TypeOK, shortAt, Colors
<1>2. n # root /\ p \in linked /\ p # n /\ sideOf(n) \in Side /\ link[p][sideOf(n)] = n
      /\ p \notin sub[n] /\ root \in linked
  BY <1>1, Above
<1>3. colorOf(root) # "RED"
  BY <1>1, <1>2 DEF Colors
<1>4. p # root
  BY <1>1, <1>2, <1>3 DEF colorOf
<1>5. /\ parent[p] \in linked /\ parent[p] # p /\ sideOf(p) \in Side
      /\ link[parent[p]][sideOf(p)] = p /\ sibling(p) # p /\ parent[p] \notin sub[p]
  BY <1>2, <1>4, Above
<1>6. g = parent[p] /\ u = link[g][opposite(sideOf(p))] /\ u # p
  BY <1>5 DEF grandparent, uncle, sibling
<1>7. g # n
  <2>1. n \in sub[n]
    BY <1>1, Above
  <2>2. sub[n] \subseteq sub[p]
    BY <1>2, Below
  <2> QED
    BY <1>5, <1>6, <2>1, <2>2
<1>8. color[g] = "BLACK"
  <2>1. color[g] \in {"RED", "BLACK"}
    BY <1>1, <1>5, <1>6 DEF TypeOK
  <2>2. color[g] = "RED" => colorOf(p) = "BLACK" \/ p = n
    BY <1>1, <1>2, <1>5, <1>6 DEF Colors
  <2> QED
    BY <1>1, <1>2, <2>1, <2>2 DEF colorOf
<1>9. u \in linked \cup {NULL} /\ u \notin {n, g} /\ (u # NULL => parent[u] = g)
  <2>1. opposite(sideOf(p)) \in Side
    BY <1>5, SidesOpposite
  <2>2. u \in linked \cup {NULL} /\ u # g /\ (u # NULL => parent[u] = g)
    BY <1>5, <1>6, <2>1, Below
  <2> QED
    BY <1>1, <1>5, <1>6, <2>2
<1> QED
  BY <1>1, <1>2, <1>3, <1>4, <1>5, <1>6, <1>7, <1>8, <1>9

(* The red of the uncle and the parent moves to the grandparent.           *)
LEMMA InsertCase3 ==
  ASSUME NEW sub, NEW bh, Inv(sub, bh), insert_case3
  PROVE  \E s, b : Inv(s, b)'
<1> PICK p : p = parent[n]
  OBVIOUS
<1> PICK g : g = grandparent(n)
  OBVIOUS
<1> PICK u : u = uncle(n)
  OBVIOUS
<1> PICK b : b = [bh EXCEPT ![g] = bh[g] + 1]
  OBVIOUS
<1>F. /\ n \in linked /\ p \in linked /\ g \in linked /\ g # p /\ p # n /\ g # n
      /\ NULL \notin linked /\ linked \subseteq Node
      /\ color[n] = "RED" /\ color[p] = "RED" /\ color[g] = "BLACK"
      /\ colorOf(root) # "RED"
      /\ parent[p] = g /\ link[p][sideOf(n)] = n
      /\ link[g][sideOf(p)] = p /\ link[g][opposite(sideOf(p))] = u
      /\ sideOf(p) \in Side /\ u \notin {n, p, g}
      /\ u \in linked \cup {NULL} /\ (u # NULL => parent[u] = g)
      /\ doomed = NULL /\ ~Short /\ shortAt = NULL
  BY Family DEF insert_case3, redPair, Inserting
<1>T. /\ TypeOK /\ ParentLinks /\ Shape(sub) /\ Ordered(sub) /\ Distinct
      /\ Heights(bh) /\ Colors /\ Locals /\ Searching(sub)
  BY DEF Inv
<1>a. /\ pc = "insert" /\ pc' = "insert" /\ n' = g /\ doomed' = doomed
      /\ UNCHANGED <<root, link, parent, key, value, linked, sought, inserted, pred, child>>
      /\ color[u] = "RED" /\ u \in linked
  BY <1>F DEF insert_case3, goOn, redPair, pointers, entries, colorOf
<1>c. /\ color' \in [Node -> {"RED", "BLACK"}]
      /\ color'[p] = "BLACK" /\ color'[u] = "BLACK" /\ color'[g] = "RED"
      /\ \A y \in linked \ {p, u, g} : color'[y] = color[y]
  <2>1. color' = [color EXCEPT ![p] = "BLACK", ![u] = "BLACK", ![g] = "RED"]
    BY DEF insert_case3
  <2> QED
    BY <1>F, <1>T, <1>a, <2>1 DEF TypeOK
<1>b. b \in [Pointer -> Nat] /\ b[NULL] = 0 /\ b[g] = bh[g] + 1
      /\ \A y \in linked \cup {NULL} : y # g => b[y] = bh[y]
  BY <1>F, <1>T DEF Heights, Pointer
<1>1. TypeOK'
  BY <1>F, <1>T, <1>a, <1>c DEF TypeOK, Pointer
<1>2. samePointers /\ sameKeys
  BY <1>a DEF samePointers, sameKeys
<1>3. ParentLinks' /\ Shape(sub)' /\ Ordered(sub)' /\ Distinct'
  BY <1>2, <1>T, KeepShape, KeepOrder
<1>4. Locals'
  BY <1>F, <1>a DEF Locals, Deleting
<1>5. Searching(sub)'
  BY <1>a DEF Searching
<1>6. ASSUME NEW y \in linked, NEW e \in Side, NEW c, c = link[y][e]
      PROVE  /\ c \in linked \cup {NULL} /\ c # y /\ (c # NULL => parent[c] = y)
             /\ (y = g => c = p \/ c = u)
  <2>1. /\ c \in linked \cup {NULL} /\ c # y /\ (c # NULL => parent[c] = y)
    BY <1>6, <1>T, Below
  <2>2. Side = {sideOf(p), opposite(sideOf(p))}
    BY <1>F, SidesOpposite
  <2> QED
    BY <1>6, <1>F, <2>1, <2>2
<1>7. Heights(b)'
  <2>1. ASSUME NEW y \in linked, NEW e \in Side
        PROVE  b[y] = b[link'[y][e]] + weight(link'[y][e], color', doomed')
                      + deficit(link'[y][e], shortAt')
    <3> PICK c : c = link[y][e]
      OBVIOUS
    <3>0. /\ shortAt' = NULL /\ link'[y][e] = c /\ doomed' = NULL
      BY <1>F, <1>a DEF shortAt, Short
    <3>1. /\ c \in linked \cup {NULL} /\ c # y /\ (c # NULL => parent[c] = y)
          /\ (y = g => c = p \/ c = u)
      BY <1>6
    <3>2. bh[y] = bh[c] + weight(c, color, NULL)
      <4>1. bh[y] = bh[c] + weight(c, color, NULL) + deficit(c, NULL)
        BY <1>T, <1>F DEF Heights
      <4>2. bh[c] \in Nat /\ weight(c, color, NULL) \in Nat
        BY <1>T, <1>F, <3>1 DEF Heights, weight, Pointer
      <4> QED
        BY <4>1, <4>2 DEF deficit
    <3>3. b[y] = b[c] + weight(c, color', NULL)
      <4>1. CASE y = g
        <5>1. c # NULL /\ c # g /\ color[c] = "RED" /\ color'[c] = "BLACK"
          BY <1>F, <1>a, <1>c, <3>1, <4>1
        <5>2. weight(c, color, NULL) = 0 /\ weight(c, color', NULL) = 1
          BY <5>1 DEF weight
        <5>3. b[c] = bh[c] /\ b[y] = bh[y] + 1 /\ bh[c] \in Nat
          BY <1>F, <1>T, <1>b, <3>1, <4>1, <5>1 DEF Heights, Pointer
        <5> QED
          BY <3>2, <5>2, <5>3
      <4>2. CASE y # g /\ c = g
        BY <1>F, <1>T, <1>b, <1>c, <3>1, <3>2, <4>2 DEF weight
      <4>3. CASE y # g /\ c # g
        <5>1. c \notin {p, u, g}
          BY <1>F, <1>a, <3>1, <4>3
        <5>2. weight(c, color', NULL) = weight(c, color, NULL)
          BY <1>c, <3>1, <5>1 DEF weight
        <5> QED
          BY <1>b, <3>1, <3>2, <4>3, <5>2
      <4> QED
        BY <4>1, <4>2, <4>3
    <3>4. b[y] \in Nat /\ b[c] \in Nat /\ weight(c, color', NULL) \in Nat
      BY <1>F, <1>b, <3>1 DEF weight, Pointer
    <3> QED
      BY <3>0, <3>3, <3>4 DEF deficit
  <2> QED
    BY <1>a, <1>b, <2>1 DEF Heights
<1>8. Colors'
  <2>1. ASSUME NEW y \in linked, NEW e \in Side, NEW c, c = link[y][e],
               color'[y] = "RED"
        PROVE  c = NULL \/ color'[c] = "BLACK" \/ c = g
    <3>1. /\ c \in linked \cup {NULL} /\ c # y /\ (c # NULL => parent[c] = y)
          /\ (y = g => c = p \/ c = u)
      BY <1>6, <2>1
    <3>2. CASE y = g
      BY <1>c, <3>1, <3>2
    <3>3. CASE y # g /\ c # NULL /\ c # g
      <4>1. y \notin {p, u, g} /\ color[y] = "RED"
        BY <1>c, <2>1, <3>3
      <4>2. c # n /\ c \notin {p, u, g}
        BY <1>F, <1>a, <3>1, <3>3, <4>1
      <4>3. color[c] = "BLACK"
        BY <1>F, <1>T, <2>1, <3>1, <3>3, <4>1, <4>2 DEF Colors, colorOf
      <4> QED
        BY <1>c, <3>1, <3>3, <4>2, <4>3
    <3> QED
      BY <3>2, <3>3
  <2>2. colorOf(root)' = "RED" => root = g
    <3>1. root \in linked
      BY <1>F, <1>T, Above
    <3> QED
      BY <1>F, <1>a, <1>c, <3>1 DEF colorOf
  <2> QED
    BY <1>F, <1>a, <1>c, <2>1, <2>2 DEF Colors, colorOf, Inserting
<1>9. Deletion(sub)'
  BY <1>a DEF Deletion, Deleting, Short
<1> QED
  BY <1>1, <1>3, <1>4, <1>5, <1>7, <1>8, <1>9 DEF Inv

(* Every link after a rotation is one of the four below x and r, the one   *)
(* above them, or an old one elsewhere in the tree.                        *)
LEMMA RotatedLinks ==
  ASSUME TypeOK, ParentLinks, NEW sub, Shape(sub), NEW x \in linked,
         NEW d \in Side, NEW r, r = link[x][opposite(d)], r # NULL, rotate(x, d),
         NEW m, m = link[r][d], NEW a, a = link[x][d],
         NEW b, b = link[r][opposite(d)],
         NEW y \in linked, NEW e \in Side, NEW c, c = link'[y][e]
  PROVE  \/ y = x /\ (c = a \/ c = m)
         \/ y = r /\ (c = x \/ c = b)
         \/ x # root /\ y = parent[x] /\ e = sideOf(x) /\ c = r /\ link[y][e] = x
         \/ /\ y \notin {x, r} /\ c = link[y][e] /\ c \in linked \cup {NULL}
            /\ c \notin {x, r} /\ (c # NULL => c \notin {a, m, b} /\ parent[c] = y)
<1>1. /\ r \in linked /\ r # x /\ parent[r] = x
      /\ a # NULL => parent[a] = x
      /\ b # NULL => parent[b] = r
      /\ m # NULL => parent[m] = r
  BY RotationNodes
<1>2. Side = {d, opposite(d)} /\ linked \subseteq Node /\ NULL \notin linked
  BY SidesOpposite, TreeAssumption DEF TypeOK
<1>3. link[y][e] \in linked \cup {NULL} /\ (link[y][e] # NULL => parent[link[y][e]] = y)
  BY Below
<1>4. CASE y = x
  BY <1>2, <1>4, RotatePointers
<1>5. CASE y = r
  BY <1>2, <1>5, RotatePointers
<1>6. CASE y \notin {x, r} /\ x # root /\ y = parent[x] /\ e = sideOf(x)
  <2>1. link[y][e] = x
    BY <1>6, Above
  <2> QED
    BY <1>6, <2>1, RotatePointers
<1>7. CASE y \notin {x, r} /\ ~(x # root /\ y = parent[x] /\ e = sideOf(x))
  <2>1. c = link[y][e]
    <3>1. CASE x # root /\ y = parent[x]
      <4>1. e = opposite(sideOf(x))
        BY <1>7, <3>1, Above, SidesOpposite
      <4> QED
        BY <3>1, <4>1, RotatePointers DEF sibling
    <3>2. CASE ~(x # root /\ y = parent[x])
      <4>1. y # parent[x]
        BY <1>2, <3>2, Above
      <4> QED
        BY <1>2, <1>7, <4>1, RotatePointers
    <3> QED
      BY <3>1, <3>2
  <2>2. c # x
    <3>1. c = x => x # root /\ y = parent[x]
      BY <1>2, <1>3, <2>1, Above
    <3>2. c = x /\ x # root => e = sideOf(x)
      <4>1. x # root /\ y = parent[x] => link[y][sideOf(x)] = x /\ sideOf(x) \in Side
                                          /\ link[y][opposite(sideOf(x))] # x
        BY Above DEF sibling
      <4>2. x # root /\ y = parent[x] => e = sideOf(x) \/ e = opposite(sideOf(x))
        BY <4>1, SidesOpposite
      <4> QED
        BY <2>1, <3>1, <4>1, <4>2
    <3> QED
      BY <1>7, <3>1, <3>2
  <2> QED
    BY <1>1, <1>3, <1>7, <2>1, <2>2
<1> QED
  BY <1>4, <1>5, <1>6, <1>7

(* Unchanged keys stay distinct.                                           *)
LEMMA KeepDistinct ==
  ASSUME Distinct, linked' = linked, key' = key, doomed' = doomed
  PROVE  Distinct'
  BY DEF Distinct, keyAt

(* The inner grandchild is turned outwards.                                *)
LEMMA InsertCase4Turn ==
  ASSUME NEW sub, NEW bh, Inv(sub, bh), insert_case4,
         sideOf(n) # sideOf(parent[n])
  PROVE  \E s, b : Inv(s, b)'
<1>p0. PICK p : p = parent[n]
  OBVIOUS
<1>g0. PICK g : g = grandparent(n)
  OBVIOUS
<1>u0. PICK u : u = uncle(n)
  OBVIOUS
<1>d0. PICK d : d = sideOf(p)
  OBVIOUS
<1>s0. PICK s : s = turned(sub, p, d)
  OBVIOUS
<1>F. /\ n \in linked /\ p \in linked /\ g \in linked /\ g # p /\ p # n /\ g # n
      /\ NULL \notin linked /\ linked \subseteq Node /\ p # root
      /\ color[n] = "RED" /\ color[p] = "RED" /\ color[g] = "BLACK"
      /\ colorOf(root) # "RED" /\ parent[p] = g
      /\ sideOf(n) \in Side /\ d \in Side /\ link[p][sideOf(n)] = n
      /\ link[g][d] = p /\ link[g][opposite(d)] = u
      /\ u \notin {n, p, g} /\ u \in linked \cup {NULL}
      /\ doomed = NULL /\ ~Short /\ shortAt = NULL
  BY <1>p0, <1>g0, <1>u0, <1>d0, Family DEF insert_case4, redPair, Inserting
<1>T. /\ TypeOK /\ ParentLinks /\ Shape(sub) /\ Ordered(sub) /\ Distinct
      /\ Heights(bh) /\ Colors /\ Locals /\ Searching(sub)
  BY DEF Inv
<1>a. /\ pc = "insert" /\ pc' = "insert_case5" /\ n' = p /\ doomed' = doomed
      /\ UNCHANGED <<color, key, value, linked, sought, inserted, pred, child>>
      /\ rotate(p, d) /\ colorOf(u) = "BLACK"
  BY <1>p0, <1>u0, <1>d0 DEF insert_case4, goOn, redPair, entries
<1>d. /\ opposite(d) \in Side /\ opposite(d) # d /\ opposite(opposite(d)) = d
      /\ Side = {d, opposite(d)} /\ n = link[p][opposite(d)] /\ n # NULL
  BY <1>F, <1>p0, <1>d0, SidesOpposite DEF insert_case4
<1>r. /\ TypeOK /\ ParentLinks /\ Shape(sub) /\ p \in linked /\ d \in Side
      /\ n = link[p][opposite(d)] /\ n # NULL /\ rotate(p, d)
  BY <1>F, <1>T, <1>a, <1>d
<1>m0. PICK m : m = link[n][d]
  OBVIOUS
<1>a0. PICK a : a = link[p][d]
  OBVIOUS
<1>b0. PICK b : b = link[n][opposite(d)]
  OBVIOUS
<1>N. /\ a \in linked \cup {NULL} /\ a # p /\ a # n
      /\ b \in linked \cup {NULL} /\ b # p /\ b # n
      /\ m \in linked \cup {NULL} /\ m # p /\ m # n
  BY <1>r, <1>m0, <1>a0, <1>b0, RotationNodes
<1>P. /\ root' = root /\ link' \in [Node -> [Side -> Pointer]]
      /\ parent' \in [Node -> Pointer]
      /\ link'[n][d] = p /\ link'[n][opposite(d)] = b
      /\ link'[g][d] = n /\ link'[g][opposite(d)] = u
      /\ parent'[p] = n /\ parent'[n] = g
  <2>1. /\ root' = root /\ link' \in [Node -> [Side -> Pointer]]
        /\ parent' \in [Node -> Pointer]
        /\ link'[n][d] = p /\ link'[n][opposite(d)] = b
        /\ parent'[p] = n /\ parent'[n] = g
    BY <1>r, <1>F, <1>b0, RotatePointers
  <2>2. link'[g][d] = n /\ link'[g][opposite(d)] = sibling(p)
    <3>1. link'[parent[p]][sideOf(p)] = n /\ link'[parent[p]][opposite(sideOf(p))] = sibling(p)
      BY <1>r, <1>F, RotatePointers
    <3> QED
      BY <3>1, <1>F, <1>d0
  <2>3. sibling(p) = u
    BY <1>F, <1>d0 DEF sibling
  <2> QED
    BY <2>1, <2>2, <2>3
<1>L. ASSUME NEW y \in linked, NEW e \in Side, NEW c, c = link'[y][e]
      PROVE  \/ y = p /\ (c = a \/ c = m)
             \/ y = n /\ (c = p \/ c = b)
             \/ y = g /\ c = n
             \/ /\ y \notin {p, n} /\ c = link[y][e] /\ c \in linked \cup {NULL}
                /\ c \notin {p, n}
  <2>1. \/ y = p /\ (c = a \/ c = m)
        \/ y = n /\ (c = p \/ c = b)
        \/ p # root /\ y = parent[p] /\ e = sideOf(p) /\ c = n /\ link[y][e] = p
        \/ /\ y \notin {p, n} /\ c = link[y][e] /\ c \in linked \cup {NULL}
           /\ c \notin {p, n} /\ (c # NULL => c \notin {a, m, b} /\ parent[c] = y)
    BY <1>L, <1>r, <1>m0, <1>a0, <1>b0, RotatedLinks
  <2> QED
    BY <1>F, <2>1
<1>1. TypeOK'
  BY <1>F, <1>T, <1>a, <1>P DEF TypeOK, Pointer
<1>2. ParentLinks'
  BY <1>r, <1>a, RotateLinks
<1>3. Shape(s)'
  BY <1>r, <1>a, <1>s0, RotateShape
<1>4. Ordered(s)'
  BY <1>F, <1>T, <1>r, <1>a, <1>s0, RotateOrdered
<1>5. Distinct'
  BY <1>T, <1>a, KeepDistinct
<1>6. Locals'
  BY <1>F, <1>a DEF Locals, Deleting
<1>7. Searching(s)'
  BY <1>a DEF Searching
<1>8. Heights(bh)'
  <2>0. bh \in [Pointer -> Nat] /\ bh[NULL] = 0
    BY <1>T DEF Heights
  <2>1. shortAt' = NULL /\ doomed' = NULL /\ color' = color
    BY <1>F, <1>a DEF shortAt, Short
  <2> DEFINE w(c) == weight(c, color, NULL)
  <2>2. \A c \in linked \cup {NULL} : bh[c] \in Nat /\ w(c) \in Nat
    BY <1>F, <2>0 DEF weight, Pointer
  <2>3. \A y \in linked, e \in Side : bh[y] = bh[link[y][e]] + w(link[y][e])
    <3>1. \A y \in linked, e \in Side :
            link[y][e] \in linked \cup {NULL}
            /\ bh[y] = bh[link[y][e]] + w(link[y][e]) + deficit(link[y][e], NULL)
      BY <1>T, <1>F, Below DEF Heights
    <3> QED
      BY <2>2, <3>1 DEF deficit
  <2>4. w(n) = 0 /\ w(p) = 0
    BY <1>F DEF weight
  <2>5. /\ bh[p] = bh[a] + w(a) /\ bh[p] = bh[n] + w(n) /\ bh[n] = bh[m] + w(m)
        /\ bh[n] = bh[b] + w(b) /\ bh[g] = bh[p] + w(p)
    BY <1>F, <1>d, <1>m0, <1>a0, <1>b0, <2>3
  <2> HIDE DEF w
  <2>6. ASSUME NEW y \in linked, NEW e \in Side, NEW c, c = link'[y][e]
        PROVE  bh[y] = bh[c] + w(c) /\ c \in linked \cup {NULL}
    <3>1. \/ y = p /\ (c = a \/ c = m)
          \/ y = n /\ (c = p \/ c = b)
          \/ y = g /\ c = n
          \/ /\ y \notin {p, n} /\ c = link[y][e] /\ c \in linked \cup {NULL}
             /\ c \notin {p, n}
      BY <2>6, <1>L
    <3>2. bh[p] = bh[n]
      BY <1>F, <2>2, <2>4, <2>5
    <3> QED
      BY <1>F, <1>N, <2>2, <2>3, <2>4, <2>5, <3>1, <3>2
  <2>7. ASSUME NEW y \in linked, NEW e \in Side
        PROVE  bh[y] = bh[link'[y][e]] + weight(link'[y][e], color, NULL)
                       + deficit(link'[y][e], NULL)
    <3> PICK c : c = link'[y][e]
      OBVIOUS
    <3>1. bh[y] = bh[c] + w(c) /\ bh[c] \in Nat /\ w(c) \in Nat
      BY <2>2, <2>6
    <3> QED
      BY <3>1 DEF w, deficit
  <2> QED
    BY <1>a, <2>0, <2>1, <2>7 DEF Heights
<1>9. Colors'
  <2>1. ASSUME NEW y \in linked, NEW e \in Side, color[y] = "RED",
               NEW c, c = link'[y][e]
        PROVE  colorOf(c) = "BLACK" \/ c = p
    <3>1. \/ y = p /\ (c = a \/ c = m)
          \/ y = n /\ (c = p \/ c = b)
          \/ y = g /\ c = n
          \/ /\ y \notin {p, n} /\ c = link[y][e] /\ c \in linked \cup {NULL}
             /\ c \notin {p, n}
      BY <2>1, <1>L
    <3>2. \A z \in linked, f \in Side :
            color[z] = "RED" => colorOf(link[z][f]) = "BLACK" \/ link[z][f] = n
      <4>1. ASSUME NEW z \in linked, NEW f \in Side, color[z] = "RED"
            PROVE  colorOf(link[z][f]) = "BLACK" \/ link[z][f] = n
        BY <1>F, <1>T, <4>1 DEF Colors, colorOf
      <4> QED
        BY <4>1
    <3>3. /\ colorOf(a) = "BLACK" /\ colorOf(m) = "BLACK" /\ colorOf(b) = "BLACK"
      BY <1>F, <1>N, <1>d, <1>m0, <1>a0, <1>b0, <3>2
    <3> QED
      BY <1>F, <2>1, <3>1, <3>2, <3>3
  <2>2. sideOf(n)' = d
    BY <1>F, <1>N, <1>P, <1>a, <1>d DEF sideOf, Side
  <2>3. sideOf(parent[n])' = d
    BY <1>F, <1>N, <1>P, <1>a, <1>d DEF sideOf, Side
  <2>4. uncle(n)' = u
    <3>1. uncle(n)' = link'[g][opposite(sideOf(parent[n])')]
      BY <1>P, <1>a DEF uncle, sibling, opposite
    <3> QED
      BY <1>P, <2>3, <3>1
  <2>5. parent[n]' = n /\ grandparent(n)' = g
    BY <1>P, <1>a DEF grandparent
  <2>6. /\ colorOf(uncle(n))' = "BLACK" /\ color'[parent[n]'] = "RED"
        /\ color'[n'] = "RED" /\ colorOf(root)' # "RED"
    BY <1>F, <1>P, <1>a, <2>4, <2>5 DEF colorOf
  <2>7. Inserting'
    BY <1>a DEF Inserting
  <2>8. \A y \in linked', e \in Side :
          color'[y] = "RED" => colorOf(link[y][e])' = "BLACK" \/ link'[y][e] = n'
    BY <1>a, <2>1 DEF colorOf
  <2> QED
    BY <1>F, <1>a, <2>2, <2>3, <2>5, <2>6, <2>7, <2>8 DEF Colors
<1>10. Deletion(s)'
  BY <1>a DEF Deletion, Deleting, Short
<1> QED
  BY <1>1, <1>2, <1>3, <1>4, <1>5, <1>6, <1>7, <1>8, <1>9, <1>10 DEF Inv

(* It is an outer one already.                                             *)
LEMMA InsertCase4Stay ==
  ASSUME NEW sub, NEW bh, Inv(sub, bh), insert_case4,
         sideOf(n) = sideOf(parent[n])
  PROVE  Inv(sub, bh)'
<1>F. /\ n \in linked /\ grandparent(n) # NULL /\ parent[n] # NULL
      /\ color[n] = "RED" /\ color[parent[n]] = "RED"
      /\ colorOf(root) # "RED" /\ doomed = NULL /\ ~Short
      /\ colorOf(uncle(n)) = "BLACK"
  BY Family DEF insert_case4, redPair, Inserting
<1>T. /\ TypeOK /\ ParentLinks /\ Shape(sub) /\ Ordered(sub) /\ Distinct
      /\ Heights(bh) /\ Colors /\ Locals /\ Searching(sub)
  BY DEF Inv
<1>a. /\ pc = "insert" /\ pc' = "insert_case5" /\ n' = n /\ doomed' = doomed
      /\ UNCHANGED <<root, link, parent, color, key, value, linked, sought,
                     inserted, pred, child>>
  BY DEF insert_case4, goOn, redPair, entries, pointers
<1>1. TypeOK'
  BY <1>T, <1>a DEF TypeOK
<1>2. samePointers /\ sameKeys
  BY <1>a DEF samePointers, sameKeys
<1>3. ParentLinks' /\ Shape(sub)' /\ Ordered(sub)' /\ Distinct'
  BY <1>T, <1>2, KeepShape, KeepOrder
<1>4. Locals'
  <2>1. n # NULL
    BY <1>F, <1>T, TreeAssumption DEF TypeOK
  <2> QED
    BY <1>F, <1>a, <2>1 DEF Locals, Deleting
<1>5. Searching(sub)'
  BY <1>a DEF Searching
<1>6. Heights(bh)'
  BY <1>T, <1>a, <1>2, KeepHeights DEF Short
<1>7. Colors'
  <2>1. sideOf(n)' = sideOf(n) /\ sideOf(parent[n])' = sideOf(parent[n])
    BY <1>a DEF sideOf
  <2>2. uncle(n)' = uncle(n) /\ grandparent(n)' = grandparent(n)
    BY <1>a DEF uncle, grandparent, sibling, sideOf
  <2>3. colorOf(uncle(n))' = colorOf(uncle(n))
    BY <1>a, <2>2 DEF colorOf
  <2>4. \A y \in linked, e \in Side :
          color[y] = "RED" => colorOf(link[y][e]) = "BLACK" \/ link[y][e] = n
    <3>1. ASSUME NEW y \in linked, NEW e \in Side, color[y] = "RED"
          PROVE  colorOf(link[y][e]) = "BLACK" \/ link[y][e] = n
      <4>1. y # doomed
        BY <1>F, TreeAssumption, <1>T DEF TypeOK
      <4> QED
        BY <1>F, <1>T, <3>1, <4>1 DEF Colors, colorOf
    <3> QED
      BY <3>1
  <2>5. Inserting'
    BY <1>a DEF Inserting
  <2>6. colorOf(root)' # "RED"
    BY <1>F, <1>a DEF colorOf
  <2>7. \A y \in linked', e \in Side :
          color'[y] = "RED" => colorOf(link[y][e])' = "BLACK" \/ link'[y][e] = n'
    BY <1>a, <2>4 DEF colorOf
  <2>8. parent'[n'] # NULL /\ color'[parent'[n']] = "RED" /\ color'[n'] = "RED"
        /\ grandparent(n)' # NULL /\ sideOf(n)' = sideOf(parent[n])'
        /\ colorOf(uncle(n))' = "BLACK"
    BY <1>F, <1>a, <2>1, <2>2, <2>3
  <2> QED
    BY <1>a, <2>5, <2>6, <2>7, <2>8 DEF Colors
<1>8. Deletion(sub)'
  BY <1>a DEF Deletion, Deleting, Short
<1> QED
  BY <1>1, <1>3, <1>4, <1>5, <1>6, <1>7, <1>8 DEF Inv

(* The rotation that ends an insertion.                                    *)
LEMMA InsertCase5 ==
  ASSUME NEW sub, NEW bh, Inv(sub, bh), insert_case5
  PROVE  \E s, b : Inv(s, b)'
<1>p0. PICK p : p = parent[n]
  OBVIOUS
<1>g0. PICK g : g = grandparent(n)
  OBVIOUS
<1>u0. PICK u : u = uncle(n)
  OBVIOUS
<1>d0. PICK d : d = opposite(sideOf(n))
  OBVIOUS
<1>s0. PICK s : s = turned(sub, g, d)
  OBVIOUS
<1>b0. PICK b : b = n
  OBVIOUS
<1>m0. PICK m : m = link[p][d]
  OBVIOUS
<1>T. /\ TypeOK /\ ParentLinks /\ Shape(sub) /\ Ordered(sub) /\ Distinct
      /\ Heights(bh) /\ Colors /\ Locals /\ Searching(sub)
  BY DEF Inv
<1>c. /\ parent[n] # NULL /\ color[parent[n]] = "RED"
      /\ sideOf(n) = sideOf(parent[n]) /\ colorOf(uncle(n)) = "BLACK"
      /\ Inserting
  BY <1>T DEF Colors, insert_case5, Inserting
<1>F. /\ b \in linked /\ p \in linked /\ g \in linked /\ g # p /\ p # b /\ g # b
      /\ NULL \notin linked /\ linked \subseteq Node
      /\ color[b] = "RED" /\ color[p] = "RED" /\ color[g] = "BLACK"
      /\ colorOf(root) # "RED"
      /\ sideOf(n) \in Side
      /\ link[p][sideOf(n)] = b
      /\ link[g][sideOf(n)] = p /\ link[g][opposite(sideOf(n))] = u
      /\ u \in linked \cup {NULL} /\ u \notin {b, p, g}
      /\ doomed = NULL /\ ~Short /\ shortAt = NULL
  BY <1>c, <1>p0, <1>g0, <1>u0, <1>b0, Family
<1>a. /\ pc = "insert_case5" /\ pc' = "idle" /\ doomed' = NULL
      /\ UNCHANGED <<key, value, linked>> /\ idle
      /\ color' = [color EXCEPT ![p] = "BLACK", ![g] = "RED"]
      /\ rotate(g, d) /\ colorOf(u) = "BLACK"
  BY <1>c, <1>p0, <1>g0, <1>u0, <1>d0 DEF insert_case5, idle, entries
<1>d. /\ d \in Side /\ opposite(d) \in Side /\ opposite(d) # d
      /\ opposite(opposite(d)) = d /\ Side = {d, opposite(d)}
      /\ opposite(d) = sideOf(n)
  BY <1>F, <1>d0, SidesOpposite
<1>r. /\ TypeOK /\ ParentLinks /\ Shape(sub) /\ g \in linked /\ d \in Side
      /\ p = link[g][opposite(d)] /\ p # NULL /\ rotate(g, d)
      /\ u = link[g][d] /\ b = link[p][opposite(d)]
  BY <1>F, <1>T, <1>a, <1>d, <1>d0
<1>N. /\ m \in linked \cup {NULL} /\ m # p /\ m # g /\ m # b
  <2>1. m \in linked \cup {NULL} /\ m # p /\ m # g /\ (b # NULL => b # m)
    BY <1>r, <1>m0, RotationNodes
  <2> QED
    BY <2>1, <1>F
<1>P. /\ root' = IF g = root THEN p ELSE root
      /\ link' \in [Node -> [Side -> Pointer]] /\ parent' \in [Node -> Pointer]
  BY <1>r, RotatePointers
<1>L. ASSUME NEW y \in linked, NEW e \in Side, NEW c, c = link'[y][e]
      PROVE  \/ y = g /\ (c = u \/ c = m)
             \/ y = p /\ (c = g \/ c = b)
             \/ y \in linked \ {p, g} /\ link[y][e] = g /\ c = p
             \/ /\ y \notin {p, g} /\ c = link[y][e] /\ c \in linked \cup {NULL}
                /\ c \notin {p, g, b}
  <2>1. \/ y = g /\ (c = u \/ c = m)
        \/ y = p /\ (c = g \/ c = b)
        \/ g # root /\ y = parent[g] /\ e = sideOf(g) /\ c = p /\ link[y][e] = g
        \/ /\ y \notin {g, p} /\ c = link[y][e] /\ c \in linked \cup {NULL}
           /\ c \notin {g, p} /\ (c # NULL => c \notin {u, m, b} /\ parent[c] = y)
    BY <1>L, <1>r, <1>m0, RotatedLinks
  <2>2. link[y][e] = g => y \notin {g, p}
    <3>1. link[y][e] = g => y = parent[g]
      BY <1>F, <1>T, Below
    <3>2. link[g][opposite(d)] = p => parent[p] = g
      BY <1>F, <1>T, <1>d, Below
    <3>3. parent[g] # p
      BY <1>r, RotationAbove, Above, <1>F
    <3>4. parent[g] # g
      BY <1>F, <1>T, Above, TreeAssumption
    <3> QED
      BY <3>1, <3>3, <3>4
  <2> QED
    BY <1>F, <2>1, <2>2
<1>C. /\ color' \in [Node -> {"RED", "BLACK"}]
      /\ color'[p] = "BLACK" /\ color'[g] = "RED"
      /\ \A y \in linked \ {p, g} : color'[y] = color[y]
  BY <1>F, <1>T, <1>a DEF TypeOK
<1>1. TypeOK'
  BY <1>F, <1>T, <1>a, <1>P, <1>C DEF TypeOK, Pointer, idle
<1>2. ParentLinks'
  BY <1>r, <1>a, RotateLinks
<1>3. Shape(s)'
  BY <1>r, <1>a, <1>s0, RotateShape
<1>4. Ordered(s)'
  BY <1>F, <1>T, <1>r, <1>a, <1>s0, RotateOrdered
<1>5. Distinct'
  BY <1>F, <1>T, <1>a, KeepDistinct
<1>6. Locals' /\ Searching(s)' /\ Deletion(s)'
  BY <1>a, IdleLocals
<1>8. Heights(bh)'
  <2>0. bh \in [Pointer -> Nat] /\ bh[NULL] = 0
    BY <1>T DEF Heights
  <2>1. shortAt' = NULL /\ doomed' = NULL
    BY <1>a DEF shortAt, Short
  <2> DEFINE w(c) == weight(c, color, NULL)
             v(c) == weight(c, color', NULL)
  <2>2. \A c \in linked \cup {NULL} : bh[c] \in Nat /\ w(c) \in Nat /\ v(c) \in Nat
    BY <1>F, <2>0 DEF weight, Pointer
  <2>3. \A y \in linked, e \in Side : bh[y] = bh[link[y][e]] + w(link[y][e])
    <3>1. \A y \in linked, e \in Side :
            link[y][e] \in linked \cup {NULL}
            /\ bh[y] = bh[link[y][e]] + w(link[y][e]) + deficit(link[y][e], NULL)
      BY <1>T, <1>F, Below DEF Heights
    <3> QED
      BY <2>2, <3>1 DEF deficit
  <2>4. w(b) = 0 /\ w(p) = 0 /\ w(g) = 1 /\ v(p) = 1 /\ v(g) = 0
        /\ \A c \in linked \cup {NULL} : c \notin {p, g} => v(c) = w(c)
    BY <1>F, <1>C DEF weight
  <2>5. /\ bh[g] = bh[p] + w(p) /\ bh[g] = bh[u] + w(u)
        /\ bh[p] = bh[b] + w(b) /\ bh[p] = bh[m] + w(m)
    BY <1>F, <1>d, <1>r, <1>m0, <2>3
  <2> HIDE DEF w, v
  <2>6. ASSUME NEW y \in linked, NEW e \in Side, NEW c, c = link'[y][e]
        PROVE  bh[y] = bh[c] + v(c) /\ c \in linked \cup {NULL}
    <3>1. \/ y = g /\ (c = u \/ c = m)
          \/ y = p /\ (c = g \/ c = b)
          \/ y \in linked \ {p, g} /\ link[y][e] = g /\ c = p
          \/ /\ y \notin {p, g} /\ c = link[y][e] /\ c \in linked \cup {NULL}
             /\ c \notin {p, g, b}
      BY <2>6, <1>L
    <3>2. bh[p] = bh[g] /\ v(u) = w(u) /\ v(m) = w(m) /\ v(b) = w(b)
      BY <1>F, <1>N, <2>2, <2>4, <2>5
    <3> QED
      BY <1>F, <1>N, <2>2, <2>3, <2>4, <2>5, <3>1, <3>2
  <2>7. ASSUME NEW y \in linked, NEW e \in Side
        PROVE  bh[y] = bh[link'[y][e]] + weight(link'[y][e], color', NULL)
                       + deficit(link'[y][e], NULL)
    <3> PICK c : c = link'[y][e]
      OBVIOUS
    <3>1. bh[y] = bh[c] + v(c) /\ bh[c] \in Nat /\ v(c) \in Nat
      BY <2>2, <2>6
    <3> QED
      BY <3>1 DEF v, deficit
  <2> QED
    BY <1>a, <2>0, <2>1, <2>7 DEF Heights
<1>9. Colors'
  <2>0. \A z \in linked, f \in Side :
          color[z] = "RED" => colorOf(link[z][f]) = "BLACK" \/ link[z][f] = b
    <3>1. ASSUME NEW z \in linked, NEW f \in Side, color[z] = "RED"
          PROVE  colorOf(link[z][f]) = "BLACK" \/ link[z][f] = b
      BY <1>F, <1>T, <1>b0, <3>1 DEF Colors, colorOf
    <3> QED
      BY <3>1
  <2>1. ASSUME NEW y \in linked, NEW e \in Side, color'[y] = "RED",
               NEW c, c = link'[y][e]
        PROVE  c = NULL \/ color'[c] = "BLACK"
    <3>1. \/ y = g /\ (c = u \/ c = m)
          \/ y = p /\ (c = g \/ c = b)
          \/ y \in linked \ {p, g} /\ link[y][e] = g /\ c = p
          \/ /\ y \notin {p, g} /\ c = link[y][e] /\ c \in linked \cup {NULL}
             /\ c \notin {p, g, b}
      BY <2>1, <1>L
    <3>3. colorOf(m) = "BLACK"
      BY <1>F, <1>N, <1>d, <1>m0, <2>0
    <3>4. u \in (linked \ {p, g}) \cup {NULL} /\ m \in (linked \ {p, g}) \cup {NULL}
      BY <1>F, <1>N
    <3>5. /\ u = NULL \/ color'[u] = "BLACK"
          /\ m = NULL \/ color'[m] = "BLACK"
      BY <1>a, <1>C, <3>3, <3>4 DEF colorOf
    <3>6. CASE y \notin {p, g} /\ c = link[y][e] /\ c \in linked \cup {NULL}
               /\ c \notin {p, g, b}
      <4>1. color[y] = "RED"
        BY <1>C, <2>1, <3>6
      <4>2. colorOf(c) = "BLACK"
        BY <2>0, <3>6, <4>1
      <4> QED
        BY <1>C, <3>6, <4>2 DEF colorOf
    <3> QED
      BY <1>C, <2>1, <3>1, <3>5, <3>6
  <2>2. colorOf(root)' # "RED"
    <3>1. root \in linked
      BY <1>r, Above
    <3> QED
      BY <1>F, <1>P, <1>C, <3>1 DEF colorOf
  <2>3. ~Inserting' /\ pc' # "insert_case5"
    BY <1>a DEF Inserting
  <2>4. \A y \in linked', e \in Side :
          color'[y] = "RED" => colorOf(link[y][e])' = "BLACK"
    BY <1>a, <2>1 DEF colorOf
  <2> QED
    BY <2>2, <2>3, <2>4 DEF Colors
<1> QED
  BY <1>1, <1>2, <1>3, <1>4, <1>5, <1>6, <1>8, <1>9 DEF Inv

-----------------------------------------------------------------------------
(* Deletion.                                                               *)

(* what a child adds to the black nodes of the paths                       *)
load(x, col, dm, at) == weight(x, col, dm) + deficit(x, at)

(* Nothing weighs less than nothing.                                       *)
LEMMA LoadIsNat ==
  \A x, col, dm, at :
    load(x, col, dm, at) \in Nat /\ load(NULL, col, dm, at) = 0
  BY DEF load, weight, deficit

(* Heights in terms of load.                                               *)
LEMMA HeightsByLoad ==
  ASSUME NULL \notin linked, linked \subseteq Node, ParentLinks, NEW bh
  PROVE  Heights(bh) <=>
           /\ bh \in [Pointer -> Nat] /\ bh[NULL] = 0
           /\ \A x \in linked, d \in Side :
                bh[x] = bh[link[x][d]] + load(link[x][d], color, doomed, shortAt)
<1>1. ASSUME bh \in [Pointer -> Nat],
             NEW x \in linked, NEW d \in Side
      PROVE  bh[link[x][d]] + load(link[x][d], color, doomed, shortAt)
             = bh[link[x][d]] + weight(link[x][d], color, doomed)
               + deficit(link[x][d], shortAt)
  <2> PICK c : c = link[x][d]
    OBVIOUS
  <2>1. c \in Pointer
    BY DEF ParentLinks, Pointer
  <2>2. bh[c] \in Nat /\ weight(c, color, doomed) \in Nat /\ deficit(c, shortAt) \in Nat
    BY <1>1, <2>1 DEF weight, deficit
  <2>3. bh[c] + load(c, color, doomed, shortAt)
        = bh[c] + weight(c, color, doomed) + deficit(c, shortAt)
    BY <2>2 DEF load
  <2> QED
    BY <2>3
<1> QED
  BY <1>1 DEF Heights

(* The same in the next state.                                             *)
LEMMA NextHeights ==
  ASSUME linked' \subseteq Node, ParentLinks', NEW b \in [Pointer -> Nat], b[NULL] = 0,
         \A x \in linked', d \in Side :
           b[x] = b[link'[x][d]] + load(link'[x][d], color', doomed', shortAt')
  PROVE  Heights(b)'
<1>1. ASSUME NEW x \in linked', NEW d \in Side
      PROVE  b[x] = b[link'[x][d]] + weight(link'[x][d], color', doomed')
                    + deficit(link'[x][d], shortAt')
  <2> PICK c : c = link'[x][d]
    OBVIOUS
  <2>1. c \in Pointer
    BY DEF ParentLinks, Pointer
  <2>2. b[c] \in Nat /\ weight(c, color', doomed') \in Nat /\ deficit(c, shortAt') \in Nat
    BY <2>1 DEF weight, deficit
  <2>3. b[c] + load(c, color', doomed', shortAt')
        = b[c] + weight(c, color', doomed') + deficit(c, shortAt')
    BY <2>2 DEF load
  <2> QED
    BY <2>3
<1> QED
  BY <1>1 DEF Heights

(* The node to be unlinked is chosen, and its key moved: paths through it  *)
(* are short if it was black.                                              *)
LEMMA TakeOut ==
  ASSUME NEW sub, NEW bh, Inv(sub, bh), pc \in {"lookup_node", "maximum_node"},
         NEW y \in linked, n \in linked, ~hasBoth(y), takeOut(y),
         y # n => /\ y \in sub[link[n]["left"]]
                  /\ \A x \in sub[link[n]["left"]] \ {y} : keyAt(x) < keyAt(y)
  PROVE  Inv(sub, bh)'
<1>t0. PICK t : t = n
  OBVIOUS
<1>c0. PICK c : c = childOf(y)
  OBVIOUS
<1>T. /\ TypeOK /\ ParentLinks /\ Shape(sub) /\ Ordered(sub) /\ Distinct
      /\ Heights(bh) /\ Colors /\ Locals
  BY DEF Inv
<1>0. /\ NULL \notin linked /\ linked \subseteq Node /\ t \in linked /\ y \in Node
      /\ t \in Node /\ y # NULL /\ y \in sub[y]
      /\ doomed = NULL /\ ~Short /\ ~Deleting /\ ~Inserting /\ shortAt = NULL
  BY <1>T, <1>t0, Above, TreeAssumption
     DEF TypeOK, Locals, Deleting, Short, Inserting, shortAt
<1>c. c \in linked \cup {NULL} /\ c # y /\ (c # NULL => \E d \in Side : c = link[y][d])
  <2>1. PICK d \in Side : c = link[y][d]
    BY <1>c0 DEF childOf, Side
  <2>2. c \in linked \cup {NULL} /\ c # y
    BY <1>T, <2>1, Below
  <2> QED
    BY <2>1, <2>2
<1>a. /\ key' = [key EXCEPT ![t] = key[y]] /\ value' = [value EXCEPT ![t] = value[y]]
      /\ color' = IF color[y] = "BLACK" THEN [color EXCEPT ![y] = colorOf(c)] ELSE color
      /\ pc' = IF color[y] = "BLACK" THEN "delete" ELSE "replace"
      /\ n' = y /\ doomed' = y /\ child' = c /\ pred' = NULL /\ sought' = None
      /\ UNCHANGED <<root, link, parent, linked, inserted>>
  BY <1>t0, <1>c0 DEF takeOut, pointers
<1>C. /\ color' \in [Node -> {"RED", "BLACK"}]
      /\ \A x \in Node \ {y} : color'[x] = color[x]
      /\ color[y] \in {"RED", "BLACK"}
  <2>1. colorOf(c) \in {"RED", "BLACK"}
    BY <1>0, <1>c, <1>T DEF colorOf, TypeOK
  <2> QED
    BY <1>0, <1>T, <1>a, <2>1 DEF TypeOK
<1>k. /\ key' \in [Node -> Addr \cup {0}] /\ value' \in [Node -> Entry \cup {None}]
      /\ key'[t] = key[y] /\ \A x \in Node \ {t} : key'[x] = key[x]
  BY <1>0, <1>T, <1>a DEF TypeOK
<1>1. TypeOK'
  <2>1. {inserted, n, pred, doomed, child}' \subseteq Pointer
    BY <1>0, <1>T, <1>a, <1>c DEF TypeOK, Pointer
  <2>2. pc' \in {"delete", "replace"}
    BY <1>a
  <2> QED
    BY <1>T, <1>a, <1>C, <1>k, <2>1, <2>2 DEF TypeOK
<1>2. samePointers
  BY <1>a DEF samePointers
<1>3. ParentLinks' /\ Shape(sub)'
  BY <1>T, <1>2, KeepShape
<1>4. Ordered(sub)'
  <2>0. \A x \in Node : keyAt(x) \in Int
    BY <1>T, KeysAreInts
  <2>1. /\ keyAt(t)' = keyAt(y)
        /\ \A x \in Node \ {t} : keyAt(x)' = keyAt(x)
    BY <1>k DEF keyAt
  <2>2. ASSUME NEW x \in linked \ {y}, NEW e \in Side, NEW z \in sub[link[x][e]] \ {y}
        PROVE  before(e, keyAt(z)', keyAt(x)')
    <3>1. z \in linked /\ z # x
      BY <1>T, Around
    <3>2. before(e, keyAt(z), keyAt(x))
      BY <1>0, <1>T, <3>1 DEF Ordered
    <3>3. CASE y = t
      <4>1. \A w \in Node : keyAt(w)' = keyAt(w)
        BY <2>1, <3>3
      <4> QED
        BY <1>0, <3>1, <3>2, <4>1
    <3>4. CASE y # t /\ x = t
      <4>0. /\ y \in sub[link[t]["left"]]
            /\ \A w \in sub[link[t]["left"]] \ {y} : keyAt(w) < keyAt(y)
        BY <1>t0, <3>4
      <4>1. keyAt(z)' = keyAt(z) /\ keyAt(x)' = keyAt(y)
        BY <1>0, <2>1, <3>1, <3>4
      <4>2. CASE e = "left"
        BY <2>2, <3>4, <4>0, <4>1, <4>2 DEF before
      <4>3. CASE e = "right"
        <5>1. before("left", keyAt(y), keyAt(t))
          BY <1>0, <1>T, <4>0 DEF Ordered, Side
        <5>2. keyAt(y) < keyAt(t) /\ keyAt(t) < keyAt(z)
          BY <3>2, <3>4, <4>3, <5>1 DEF before
        <5>3. keyAt(y) < keyAt(z)
          BY <1>0, <2>0, <3>1, <5>2
        <5> QED
          BY <4>1, <4>3, <5>3 DEF before
      <4> QED
        BY <4>2, <4>3 DEF Side
    <3>5. CASE y # t /\ z = t
      <4>1. y \in sub[link[t]["left"]]
        BY <1>t0, <3>5
      <4>2. sub[link[t]["left"]] \subseteq sub[t]
        BY <1>0, <1>T, Below DEF Side
      <4>3. link[x][e] \in linked
        <5>1. link[x][e] \in linked \cup {NULL}
          BY <1>T, Below
        <5>2. sub[NULL] = {}
          BY <1>T DEF Shape
        <5> QED
          BY <5>1, <5>2
      <4>4. sub[t] \subseteq sub[link[x][e]]
        BY <1>0, <1>T, <3>5, <4>3 DEF Shape
      <4>5. before(e, keyAt(y), keyAt(x))
        BY <1>0, <1>T, <4>1, <4>2, <4>4 DEF Ordered
      <4> QED
        BY <1>0, <2>1, <3>1, <3>5, <4>5
    <3>6. CASE x # t /\ z # t
      BY <1>0, <2>1, <3>1, <3>2, <3>6
    <3> QED
      BY <3>3, <3>4, <3>5, <3>6
  <2> QED
    BY <1>a, <2>2 DEF Ordered
<1>5. Distinct'
  <2>1. /\ keyAt(t)' = keyAt(y)
        /\ \A x \in Node \ {t} : keyAt(x)' = keyAt(x)
    BY <1>k DEF keyAt
  <2>2. ASSUME NEW x \in linked \ {y}, NEW z \in linked \ {y}, keyAt(x)' = keyAt(z)'
        PROVE  x = z
    <3>1. \A w1, w2 \in linked : keyAt(w1) = keyAt(w2) => w1 = w2
      BY <1>0, <1>T DEF Distinct
    <3> QED
      BY <1>0, <2>1, <2>2, <3>1
  <2> QED
    BY <1>a, <2>2 DEF Distinct
<1>6. Locals'
  <2>1. ~hasBoth(y)' /\ c = childOf(y)'
    BY <1>a, <1>c0 DEF hasBoth, childOf
  <2> QED
    BY <1>0, <1>a, <2>1 DEF Locals, Deleting, hasBoth, childOf
<1>7. Searching(sub)'
  BY <1>a DEF Searching
<1>8. Heights(bh)'
  <2>1. ASSUME NEW x \in linked \cup {NULL}
        PROVE  load(x, color', doomed', shortAt') = load(x, color, doomed, shortAt)
    <3>1. CASE x = y
      <4>1. shortAt' = IF color[y] = "BLACK" THEN y ELSE NULL
        BY <1>a DEF shortAt, Short
      <4> QED
        BY <1>0, <1>a, <1>C, <3>1, <4>1 DEF load, weight, deficit
    <3>2. CASE x # y
      <4>1. shortAt' \in {y, NULL}
        BY <1>a DEF shortAt
      <4> QED
        BY <1>0, <1>a, <1>C, <3>2, <4>1 DEF load, weight, deficit
    <3> QED
      BY <3>1, <3>2
  <2>2. /\ bh \in [Pointer -> Nat] /\ bh[NULL] = 0
        /\ \A x \in linked, d \in Side :
             bh[x] = bh[link[x][d]] + load(link[x][d], color, doomed, shortAt)
    BY <1>0, <1>T, HeightsByLoad
  <2>3. ASSUME NEW x \in linked', NEW d \in Side
        PROVE  bh[x] = bh[link'[x][d]] + load(link'[x][d], color', doomed', shortAt')
    <3>1. x \in linked /\ link'[x][d] = link[x][d] /\ link[x][d] \in linked \cup {NULL}
      BY <1>T, <1>a, Below
    <3> QED
      BY <2>1, <2>2, <3>1
  <2>4. NULL \notin linked' /\ linked' \subseteq Node
    BY <1>0, <1>a
  <2> QED
    BY <1>3, <2>2, <2>3, <2>4, NextHeights
<1>9. Colors'
  <2>1. ASSUME NEW x \in linked \ {y}, NEW e \in Side, NEW z, z = link[x][e], z # y,
               color'[x] = "RED"
        PROVE  z = NULL \/ color'[z] = "BLACK"
    <3>1. z \in linked \cup {NULL}
      BY <1>T, <2>1, Below
    <3>2. color[x] = "RED" /\ x # doomed
      BY <1>0, <1>C, <2>1
    <3>3. z # NULL => z # doomed /\ colorOf(z) = "BLACK"
      BY <1>0, <1>T, <2>1, <3>2 DEF Colors, Inserting
    <3> QED
      BY <1>0, <1>C, <2>1, <3>1, <3>3 DEF colorOf
  <2>2. root # y /\ root # NULL => color'[root] # "RED"
    <3>1. root \in linked \cup {NULL}
      BY <1>T DEF ParentLinks
    <3>2. root # NULL => colorOf(root) # "RED"
      BY <1>0, <1>T DEF Colors, Inserting
    <3> QED
      BY <1>0, <1>C, <3>1, <3>2 DEF colorOf
  <2>3. ~Inserting' /\ pc' # "insert_case5" /\ pc' # "insert"
    BY <1>a DEF Inserting
  <2>4. \A x \in linked' \ {doomed'}, e \in Side :
          link'[x][e] # doomed' /\ color'[x] = "RED" =>
            link'[x][e] = NULL \/ color'[link'[x][e]] = "BLACK"
    BY <1>a, <2>1
  <2>5. root' # doomed' /\ root' # NULL => color'[root'] # "RED"
    BY <1>a, <2>2
  <2> QED
    BY <2>3, <2>4, <2>5 DEF Colors, colorOf
<1>10. Deletion(sub)'
  <2>1. color[y] = "RED" => colorOf(c) = "BLACK"
    BY <1>0, <1>T, <1>c DEF Colors, colorOf, Inserting
  <2>2. pc' = "replace" => color[y] = "RED" /\ color' = color
    BY <1>a, <1>C
  <2>3. pc' = "replace" => colorOf(child)' # "RED"
    BY <1>a, <2>1, <2>2 DEF colorOf
  <2>4. pc' = "delete" \/ pc' = "replace"
    BY <1>a
  <2>5. doomed' \in sub[n'] /\ n' = doomed'
    BY <1>0, <1>a
  <2> QED
    BY <2>3, <2>4, <2>5 DEF Deletion, Deleting, Short
<1> QED
  BY <1>1, <1>3, <1>4, <1>5, <1>6, <1>7, <1>8, <1>9, <1>10 DEF Inv

(* The node found is unlinked itself, or its predecessor.                  *)
LEMMA RbtreeDelete ==
  ASSUME NEW sub, NEW bh, Inv(sub, bh), rbtree_delete
  PROVE  Inv(sub, bh)'
<1>1. CASE hasBoth(n)
  BY <1>1, DeleteDescend
<1>2. CASE ~hasBoth(n)
  <2>1. n \in linked /\ takeOut(n) /\ pc = "lookup_node"
    BY <1>2 DEF rbtree_delete, Inv, Locals
  <2> QED
    BY <1>2, <2>1, TakeOut
<1> QED
  BY <1>1, <1>2

(* The predecessor is found, or a step nearer.                             *)
LEMMA MaximumNode ==
  ASSUME NEW sub, NEW bh, Inv(sub, bh), maximum_node
  PROVE  Inv(sub, bh)'
<1>1. CASE link[pred]["right"] # NULL
  BY <1>1, MaximumDescend
<1>2. CASE link[pred]["right"] = NULL
  <2>0. /\ TypeOK /\ ParentLinks /\ Shape(sub) /\ Ordered(sub) /\ Searching(sub)
        /\ n \in linked /\ doomed = NULL /\ NULL \notin linked /\ linked \subseteq Node
        /\ pc = "maximum_node" /\ takeOut(pred)
    BY <1>2, TreeAssumption DEF maximum_node, Inv, Locals, Deleting, TypeOK
  <2>1. /\ pred \in sub[link[n]["left"]]
        /\ \A x \in sub[link[n]["left"]] \ sub[pred] : keyAt(x) < keyAt(pred)
    BY <2>0 DEF Searching
  <2>2. link[n]["left"] \in linked
    <3>1. link[n]["left"] \in linked \cup {NULL}
      BY <2>0, Below DEF Side
    <3>2. sub[NULL] = {}
      BY <2>0 DEF Shape
    <3> QED
      BY <2>1, <3>1, <3>2
  <2>3. pred \in linked
    BY <2>0, <2>1, <2>2, Around
  <2>4. ASSUME NEW x \in sub[link[n]["left"]] \ {pred}
        PROVE  keyAt(x) < keyAt(pred)
    <3>1. sub[NULL] = {}
      BY <2>0 DEF Shape
    <3>2. CASE x \in sub[pred]
      BY <1>2, <2>0, <2>3, <2>4, <3>1, <3>2, Rightmost
    <3>3. CASE x \notin sub[pred]
      BY <2>1, <3>3
    <3> QED
      BY <3>2, <3>3
  <2>5. ~hasBoth(pred)
    BY <1>2 DEF hasBoth
  <2> QED
    BY <2>0, <2>1, <2>3, <2>4, <2>5, TakeOut
<1> QED
  BY <1>1, <1>2

(* What is around the node that is one black node short.                   *)
LEMMA Siblings ==
  ASSUME NEW sub, NEW bh, Inv(sub, bh), Short, parent[n] # NULL,
         NEW b, b = n, NEW p, p = parent[n], NEW s, s = sibling(n),
         NEW d, d = sideOf(n)
  PROVE  /\ b \in linked /\ p \in linked /\ s \in linked
         /\ NULL \notin linked /\ linked \subseteq Node /\ root \in linked
         /\ p # b /\ s # b /\ s # p /\ b # root /\ s # root
         /\ parent[b] = p /\ parent[s] = p
         /\ d \in Side /\ opposite(d) \in Side /\ opposite(d) # d
         /\ opposite(opposite(d)) = d /\ Side = {d, opposite(d)}
         /\ link[p][d] = b /\ link[p][opposite(d)] = s
         /\ p \notin sub[b] /\ sub[b] \cap sub[s] = {} /\ b \in sub[b] /\ s \in sub[s]
         /\ sub[b] \subseteq sub[p]
         /\ doomed \in sub[b] /\ doomed \in linked /\ doomed # p /\ doomed # s
         /\ doomed \notin sub[s] /\ doomed # root
         /\ (b # doomed => color[b] = "BLACK")
         /\ color[p] \in {"RED", "BLACK"} /\ color[s] \in {"RED", "BLACK"}
         /\ (color[p] = "RED" => color[s] = "BLACK")
         /\ colorOf(root) # "RED"
         /\ ~Inserting /\ shortAt = b
         /\ child \in sub[b] \cup {NULL}
         /\ (b # doomed => parent[doomed] \in sub[b])
<1>T. /\ TypeOK /\ ParentLinks /\ Shape(sub) /\ Heights(bh) /\ Colors /\ Locals
      /\ Deletion(sub)
  BY DEF Inv
<1>1. /\ b \in linked /\ NULL \notin linked /\ linked \subseteq Node
      /\ doomed \in linked /\ child = childOf(doomed) /\ shortAt = b
      /\ doomed \in sub[b] /\ ~Inserting
      /\ (b # doomed => color[b] = "BLACK")
  BY <1>T, TreeAssumption
     DEF TypeOK, Locals, Short, Deleting, shortAt, Deletion, Inserting
<1>2. /\ b # root /\ p \in linked /\ p # b /\ d \in Side /\ link[p][d] = b
      /\ s # b /\ p \notin sub[b] /\ root \in linked /\ b \in sub[b] /\ parent[b] = p
  BY <1>1, <1>T, Above
<1>3. /\ opposite(d) \in Side /\ opposite(d) # d
      /\ opposite(opposite(d)) = d /\ Side = {d, opposite(d)}
  BY <1>2, SidesOpposite
<1>4. link[p][opposite(d)] = s
  BY DEF sibling
<1>5. /\ s \in linked \cup {NULL} /\ s # p
      /\ s # NULL => parent[s] = p /\ s \in sub[s]
      /\ sub[b] \cap sub[s] = {} /\ sub[b] \subseteq sub[p]
  <2>1. /\ s \in linked \cup {NULL} /\ s # p
        /\ s # NULL => parent[s] = p /\ s \in sub[s]
    BY <1>2, <1>3, <1>4, <1>T, Below
  <2>2. /\ sub[link[p][d]] \cap sub[link[p][opposite(d)]] = {}
        /\ sub[link[p][d]] \subseteq sub[p]
    BY <1>2, <1>T, Below
  <2> QED
    BY <1>2, <1>4, <2>1, <2>2
<1>6. s # NULL
  <2>1. /\ bh \in [Pointer -> Nat] /\ bh[NULL] = 0
        /\ bh[p] = bh[b] + load(b, color, doomed, shortAt)
        /\ bh[p] = bh[s] + load(s, color, doomed, shortAt)
    BY <1>1, <1>2, <1>3, <1>4, <1>T, HeightsByLoad
  <2>2. load(b, color, doomed, shortAt) \in Nat \ {0}
    BY <1>1 DEF load, weight, deficit
  <2>3. bh[b] \in Nat
    BY <1>1, <2>1 DEF Pointer
  <2>4. s = NULL => load(s, color, doomed, shortAt) = 0
    BY LoadIsNat
  <2> QED
    BY <2>1, <2>2, <2>3, <2>4
<1>7. doomed # p /\ doomed # s /\ doomed \notin sub[s]
  BY <1>1, <1>2, <1>5, <1>6
<1>8. s # root /\ doomed # root
  <2>1. sub[root] = linked
    BY <1>T DEF Shape
  <2>2. parent[root] = NULL
    BY <1>2, <1>T, Above
  <2>3. doomed = root => sub[root] \subseteq sub[b]
    BY <1>1, <1>T DEF Shape
  <2> QED
    BY <1>1, <1>2, <1>5, <1>6, <2>1, <2>2, <2>3
<1>9. /\ color[p] \in {"RED", "BLACK"} /\ color[s] \in {"RED", "BLACK"}
  BY <1>1, <1>2, <1>5, <1>6, <1>T DEF TypeOK
<1>10. color[p] = "RED" => color[s] = "BLACK"
  BY <1>1, <1>2, <1>3, <1>4, <1>6, <1>7, <1>T DEF Colors, colorOf
<1>11. colorOf(root) # "RED"
  BY <1>1, <1>8, <1>T DEF Colors, Inserting
<1>12. child \in sub[b] \cup {NULL}
  <2>1. PICK e \in Side : child = link[doomed][e]
    BY <1>1 DEF childOf, Side
  <2>2. child # NULL => child \in sub[doomed]
    <3>1. child # NULL => child \in sub[child] /\ sub[child] \subseteq sub[doomed]
      BY <1>1, <1>T, <2>1, Below
    <3> QED
      BY <3>1
  <2>3. sub[doomed] \subseteq sub[b]
    BY <1>1, <1>T DEF Shape
  <2> QED
    BY <2>2, <2>3
<1>13. b # doomed => parent[doomed] \in sub[b]
  BY <1>1, <1>T DEF Shape
<1> QED
  BY <1>1, <1>2, <1>3, <1>4, <1>5, <1>6, <1>7, <1>8, <1>9, <1>10, <1>11, <1>12, <1>13

(* Below the short node a rotation around its parent or its sibling        *)
(* changes nothing.                                                        *)
LEMMA RotationSpares ==
  ASSUME TypeOK, ParentLinks, NEW sub, Shape(sub), NEW x \in linked,
         NEW d \in Side, NEW r, r = link[x][opposite(d)], r # NULL, rotate(x, d),
         NEW t \in linked,
         x \notin sub[t], r \notin sub[t], parent[x] \notin sub[t],
         link[r][d] \notin sub[t]
  PROVE  \A z \in sub[t] : link'[z] = link[z] /\ parent'[z] = parent[z]
<1>1. sub[t] \subseteq Node
  BY Around DEF TypeOK
<1> QED
  BY <1>1, RotatePointers

(* What the end of a deletion needs, as long as that part stays as it is.  *)
LEMMA KeepCorner ==
  ASSUME NEW sub, NEW bh, Inv(sub, bh), Short, parent[n] # NULL,
         doomed' = doomed, child' = child, linked' = linked,
         \A z \in sub[n] : /\ link'[z] = link[z] /\ parent'[z] = parent[z]
                           /\ color'[z] = color[z]
  PROVE  /\ doomed' \in linked' /\ ~hasBoth(doomed)' /\ child' = childOf(doomed)'
         /\ n # doomed /\ colorOf(child)' = "RED" => color'[parent'[doomed']] = "BLACK"
         /\ (n # doomed => color'[n] = "BLACK")
<1>b. PICK b : b = n
  OBVIOUS
<1>1. /\ doomed \in sub[b] /\ doomed \in linked /\ b \in sub[b]
      /\ (b # doomed => color[b] = "BLACK") /\ doomed # root
      /\ child \in sub[b] \cup {NULL}
      /\ (b # doomed => parent[doomed] \in sub[b])
  BY <1>b, Siblings
<1>2. /\ ~hasBoth(doomed) /\ child = childOf(doomed)
      /\ (n # doomed /\ colorOf(child) = "RED" => color[parent[doomed]] = "BLACK")
  BY <1>1 DEF Inv, Locals, Deletion, Short, Deleting
<1>3. /\ link'[doomed] = link[doomed] /\ parent'[doomed] = parent[doomed]
  BY <1>1, <1>b
<1>4. ~hasBoth(doomed)' /\ child' = childOf(doomed)'
  BY <1>2, <1>3 DEF hasBoth, childOf
<1>5. colorOf(child)' = colorOf(child)
  BY <1>1, <1>b DEF colorOf
<1>6. b # doomed => color'[parent'[doomed']] = color[parent[doomed]]
  BY <1>1, <1>3, <1>b
<1> QED
  BY <1>1, <1>2, <1>4, <1>5, <1>6, <1>b

(* A rotation leaves what lies below other nodes alone.                    *)
LEMMA TurnedElsewhere ==
  ASSUME NEW sub, Shape(sub), NEW x, NEW d, NEW y \in linked,
         linked \subseteq Node, y # x, y # link[x][opposite(d)]
  PROVE  turned(sub, x, d)[y] = sub[y]
<1>1. y \in Pointer /\ sub \in [Pointer -> SUBSET Node]
  BY DEF Shape, Pointer
<1> QED
  BY <1>1 DEF turned

(* The types after a rotation and a change of colors.                      *)
LEMMA TurnTypes ==
  ASSUME TypeOK, linked' = linked, root' \in Pointer, n' \in Pointer,
         link' \in [Node -> [Side -> Pointer]], parent' \in [Node -> Pointer],
         color' \in [Node -> {"RED", "BLACK"}],
         pc' \in {"delete", "delete_case3", "delete_case6", "replace"},
         UNCHANGED <<key, value, sought, inserted, pred, doomed, child>>
  PROVE  TypeOK'
<1>1. {inserted, n, pred, doomed, child}' \subseteq Pointer
  BY DEF TypeOK
<1> QED
  BY <1>1 DEF TypeOK

(* A red sibling is rotated away.                                          *)
LEMMA DeleteCase2Turn ==
  ASSUME NEW sub, NEW bh, Inv(sub, bh), delete_case2,
         colorOf(sibling(n)) = "RED"
  PROVE  \E s2, b2 : Inv(s2, b2)'
<1>b0. PICK b : b = n
  OBVIOUS
<1>p0. PICK p : p = parent[n]
  OBVIOUS
<1>s0. PICK s : s = sibling(n)
  OBVIOUS
<1>d0. PICK d : d = sideOf(n)
  OBVIOUS
<1>m0. PICK m : m = link[s][d]
  OBVIOUS
<1>o0. PICK o : o = link[s][opposite(d)]
  OBVIOUS
<1>u0. PICK sub2 : sub2 = turned(sub, p, d)
  OBVIOUS
<1>T. /\ TypeOK /\ ParentLinks /\ Shape(sub) /\ Ordered(sub) /\ Distinct
      /\ Heights(bh) /\ Colors /\ Locals
  BY DEF Inv
<1>a. /\ pc = "delete" /\ pc' = "delete_case3" /\ n' = b /\ doomed' = doomed
      /\ child' = child /\ parent[n] # NULL /\ Short
      /\ UNCHANGED <<key, value, linked, sought, inserted, pred>>
      /\ color' = [color EXCEPT ![p] = "RED", ![s] = "BLACK"]
      /\ rotate(p, d) /\ colorOf(s) = "RED"
  BY <1>b0, <1>p0, <1>s0, <1>d0 DEF delete_case2, goOn, entries, Short
<1>F. /\ b \in linked /\ p \in linked /\ s \in linked
      /\ NULL \notin linked /\ linked \subseteq Node /\ root \in linked
      /\ p # b /\ s # b /\ s # p /\ b # root /\ s # root
      /\ parent[b] = p /\ parent[s] = p
      /\ d \in Side /\ opposite(d) \in Side /\ opposite(d) # d
      /\ opposite(opposite(d)) = d /\ Side = {d, opposite(d)}
      /\ link[p][d] = b /\ link[p][opposite(d)] = s
      /\ p \notin sub[b] /\ sub[b] \cap sub[s] = {} /\ b \in sub[b] /\ s \in sub[s]
      /\ doomed \in sub[b] /\ doomed \in linked /\ doomed # p /\ doomed # s
      /\ doomed \notin sub[s] /\ doomed # root
      /\ (b # doomed => color[b] = "BLACK")
      /\ color[p] \in {"RED", "BLACK"}
      /\ (color[p] = "RED" => color[s] = "BLACK")
      /\ colorOf(root) # "RED"
      /\ ~Inserting /\ shortAt = b
      /\ sub[b] \subseteq sub[p]
  BY <1>a, <1>b0, <1>p0, <1>s0, <1>d0, Siblings
<1>r. /\ TypeOK /\ ParentLinks /\ Shape(sub) /\ p \in linked /\ d \in Side
      /\ s = link[p][opposite(d)] /\ s # NULL /\ rotate(p, d)
      /\ b = link[p][d]
  BY <1>F, <1>T, <1>a
<1>c. color[s] = "RED" /\ color[p] = "BLACK"
  BY <1>F, <1>a DEF colorOf
<1>N. /\ m \in linked \cup {NULL} /\ m \notin {p, s, b}
      /\ o \in linked \cup {NULL} /\ o \notin {p, s, b}
      /\ m \notin sub[b] /\ m # doomed /\ o # doomed
  <2>1. /\ m \in linked \cup {NULL} /\ m # p /\ m # s
        /\ o \in linked \cup {NULL} /\ o # p /\ o # s
        /\ b # NULL => b # m /\ b # o
        /\ o # NULL => o \in sub[o]
        /\ m # NULL => m \in sub[m]
    BY <1>r, <1>m0, <1>o0, RotationNodes
  <2>2. sub[s] = {s} \cup sub[m] \cup sub[o] /\ sub[b] \cap sub[s] = {}
    BY <1>r, <1>m0, <1>o0, RotationSets
  <2>3. sub[b] \subseteq linked
    BY <1>F, <1>T, Around
  <2> QED
    BY <1>F, <2>1, <2>2, <2>3
<1>P. /\ root' = IF p = root THEN s ELSE root
      /\ link' \in [Node -> [Side -> Pointer]] /\ parent' \in [Node -> Pointer]
      /\ link'[p][d] = b /\ link'[p][opposite(d)] = m
  BY <1>r, <1>m0, RotatePointers
<1>K. \A z \in sub[b] : /\ link'[z] = link[z] /\ parent'[z] = parent[z]
                       /\ color'[z] = color[z] /\ z \notin {p, s}
  <2>1. parent[p] \notin sub[b]
    <3>1. p # root => parent[p] \notin sub[p]
      BY <1>F, <1>T, Above
    <3>2. p = root => parent[p] = NULL
      BY <1>F, <1>T, Above
    <3>3. sub[b] \subseteq linked
      BY <1>F, <1>T, Around
    <3> QED
      BY <1>F, <3>1, <3>2, <3>3
  <2>2. s \notin sub[b]
    BY <1>F
  <2>3. \A z \in sub[b] : link'[z] = link[z] /\ parent'[z] = parent[z]
    BY <1>F, <1>N, <1>r, <1>m0, <2>1, <2>2, RotationSpares
  <2>4. \A z \in sub[b] : z \in Node /\ z \notin {p, s}
    BY <1>F, <1>T, <2>2, Around
  <2> QED
    BY <1>T, <1>a, <2>3, <2>4 DEF TypeOK
<1>L. ASSUME NEW y \in linked, NEW e \in Side, NEW c, c = link'[y][e]
      PROVE  \/ y = p /\ (c = b \/ c = m)
             \/ y = s /\ (c = p \/ c = o)
             \/ y \in linked \ {p, s} /\ link[y][e] = p /\ c = s
             \/ /\ y \notin {p, s} /\ c = link[y][e] /\ c \in linked \cup {NULL}
                /\ c \notin {p, s, b}
  <2>1. \/ y = p /\ (c = b \/ c = m)
        \/ y = s /\ (c = p \/ c = o)
        \/ p # root /\ y = parent[p] /\ e = sideOf(p) /\ c = s /\ link[y][e] = p
        \/ /\ y \notin {p, s} /\ c = link[y][e] /\ c \in linked \cup {NULL}
           /\ c \notin {p, s} /\ (c # NULL => c \notin {b, m, o} /\ parent[c] = y)
    BY <1>L, <1>r, <1>m0, <1>o0, RotatedLinks
  <2>2. p # root => parent[p] \notin {p, s}
    BY <1>r, <1>m0, <1>o0, RotationAbove
  <2> QED
    BY <1>F, <2>1, <2>2
<1>C. /\ color' \in [Node -> {"RED", "BLACK"}]
      /\ color'[p] = "RED" /\ color'[s] = "BLACK"
      /\ \A y \in linked \ {p, s} : color'[y] = color[y]
  BY <1>F, <1>T, <1>a DEF TypeOK
<1>1. TypeOK'
  <2>1. root' \in Pointer /\ n' \in Pointer
    BY <1>F, <1>a, <1>P DEF Pointer
  <2> QED
    BY <1>T, <1>a, <1>P, <1>C, <2>1, TurnTypes
<1>2. ParentLinks'
  BY <1>r, <1>a, RotateLinks
<1>3. Shape(sub2)'
  BY <1>r, <1>a, <1>u0, RotateShape
<1>4. Ordered(sub2)'
  BY <1>F, <1>T, <1>r, <1>a, <1>u0, RotateOrdered
<1>5. Distinct'
  BY <1>T, <1>a, KeepDistinct
<1>k. /\ doomed' \in linked' /\ ~hasBoth(doomed)' /\ child' = childOf(doomed)'
      /\ (b # doomed /\ colorOf(child)' = "RED" => color'[parent'[doomed']] = "BLACK")
      /\ (b # doomed => color'[b] = "BLACK")
  <2>1. \A z \in sub[n] : /\ link'[z] = link[z] /\ parent'[z] = parent[z]
                         /\ color'[z] = color[z]
    BY <1>K, <1>b0
  <2>2. linked' = linked
    BY <1>a
  <2> QED
    BY <1>a, <2>1, <2>2, <1>b0, KeepCorner
<1>6. Locals'
  BY <1>F, <1>a, <1>k DEF Locals, Deleting
<1>7. Searching(sub2)'
  BY <1>a DEF Searching
<1> DEFINE v(c) == load(c, color, doomed, shortAt)
           w(c) == load(c, color', doomed', shortAt')
<1>H. /\ bh \in [Pointer -> Nat] /\ bh[NULL] = 0
      /\ \A y \in linked, e \in Side : bh[y] = bh[link[y][e]] + v(link[y][e])
      /\ \A c \in linked \cup {NULL} : bh[c] \in Nat /\ v(c) \in Nat /\ w(c) \in Nat
      /\ v(NULL) = 0 /\ w(NULL) = 0
      /\ v(p) = 1 /\ w(p) = 0 /\ v(s) = 0 /\ w(s) = 1
      /\ v(b) # 0
      /\ \A c \in linked \cup {NULL} : c \notin {p, s} => w(c) = v(c)
  <2>1. /\ bh \in [Pointer -> Nat] /\ bh[NULL] = 0
        /\ \A y \in linked, e \in Side : bh[y] = bh[link[y][e]] + v(link[y][e])
    BY <1>F, <1>T, HeightsByLoad
  <2>2. \A c \in linked \cup {NULL} : bh[c] \in Nat /\ v(c) \in Nat /\ w(c) \in Nat
    BY <1>F, <2>1, LoadIsNat DEF Pointer
  <2>3. v(NULL) = 0 /\ w(NULL) = 0
    BY LoadIsNat
  <2>4. shortAt' = b
    BY <1>a DEF shortAt, Short
  <2>5. v(p) = 1 /\ w(p) = 0 /\ v(s) = 0 /\ w(s) = 1
    BY <1>F, <1>a, <1>c, <1>C, <2>4 DEF load, weight, deficit
  <2>6. v(b) # 0
    BY <1>F DEF load, weight, deficit
  <2>7. \A c \in linked \cup {NULL} : c \notin {p, s} => w(c) = v(c)
    BY <1>F, <1>a, <1>C, <2>4 DEF load, weight, deficit
  <2> QED
    BY <2>1, <2>2, <2>3, <2>5, <2>6, <2>7
<1> HIDE DEF v, w
<1>h. /\ bh[p] = bh[b] + v(b) /\ bh[p] = bh[s] + v(s)
      /\ bh[s] = bh[m] + v(m) /\ bh[s] = bh[o] + v(o)
  BY <1>F, <1>H, <1>m0, <1>o0
<1>8. Heights(bh)'
  <2>1. ASSUME NEW y \in linked', NEW e \in Side
        PROVE  bh[y] = bh[link'[y][e]] + w(link'[y][e])
    <3> PICK c : c = link'[y][e]
      OBVIOUS
    <3>0. y \in linked
      BY <1>a
    <3>1. \/ y = p /\ (c = b \/ c = m)
          \/ y = s /\ (c = p \/ c = o)
          \/ y \in linked \ {p, s} /\ link[y][e] = p /\ c = s
          \/ /\ y \notin {p, s} /\ c = link[y][e] /\ c \in linked \cup {NULL}
             /\ c \notin {p, s, b}
      BY <3>0, <1>L
    <3>2. bh[y] = bh[link[y][e]] + v(link[y][e])
      BY <3>0, <1>H
    <3> QED
      BY <1>F, <1>N, <1>H, <1>h, <3>1, <3>2
  <2> QED
    BY <1>F, <1>H, <1>a, <1>2, <2>1, NextHeights DEF w
<1>M. m # NULL /\ m \in linked /\ color[m] = "BLACK" /\ color'[m] = "BLACK"
  <2>1. m # NULL
    BY <1>F, <1>H, <1>h, <1>N
  <2>2. m \in linked
    BY <1>N, <2>1
  <2>3. color[m] = "BLACK"
    BY <1>F, <1>T, <1>N, <1>c, <1>m0, <2>1, <2>2 DEF Colors, colorOf
  <2> QED
    BY <1>C, <1>N, <2>1, <2>2, <2>3
<1>9. Colors'
  <2>1. ASSUME NEW y \in linked \ {doomed}, NEW e \in Side, NEW c, c = link'[y][e],
               c # doomed, color'[y] = "RED"
        PROVE  c = NULL \/ color'[c] = "BLACK"
    <3>1. \/ y = p /\ (c = b \/ c = m)
          \/ y = s /\ (c = p \/ c = o)
          \/ y \in linked \ {p, s} /\ link[y][e] = p /\ c = s
          \/ /\ y \notin {p, s} /\ c = link[y][e] /\ c \in linked \cup {NULL}
             /\ c \notin {p, s, b}
      BY <2>1, <1>L
    <3>2. c = b => color'[c] = "BLACK"
      BY <1>k, <2>1
    <3>3. CASE y \notin {p, s} /\ c = link[y][e] /\ c \in linked \cup {NULL}
               /\ c \notin {p, s, b}
      <4>1. color[y] = "RED"
        BY <1>C, <2>1, <3>3
      <4>2. colorOf(c) = "BLACK"
        BY <1>F, <1>T, <2>1, <3>3, <4>1 DEF Colors
      <4> QED
        BY <1>C, <3>3, <4>2 DEF colorOf
    <3> QED
      BY <1>C, <1>M, <2>1, <3>1, <3>2, <3>3
  <2>2. colorOf(root)' # "RED"
    BY <1>F, <1>P, <1>C DEF colorOf
  <2>3. ~Inserting' /\ pc' # "insert_case5" /\ pc' # "insert"
    BY <1>a DEF Inserting
  <2>4. \A y \in linked' \ {doomed'}, e \in Side :
          link'[y][e] # doomed' /\ color'[y] = "RED" =>
            link'[y][e] = NULL \/ color'[link'[y][e]] = "BLACK"
    BY <1>a, <2>1
  <2> QED
    BY <2>2, <2>3, <2>4 DEF Colors, colorOf
<1>10. Deletion(sub2)'
  <2>1. doomed' \in sub2[n']
    <3>1. sub2[b] = sub[b]
      BY <1>F, <1>r, <1>u0, TurnedElsewhere
    <3> QED
      BY <1>F, <1>a, <3>1
  <2>2. parent'[b] = p
    BY <1>F, <1>K
  <2>3. sideOf(n)' = d
    BY <1>F, <1>N, <1>P, <1>a, <2>2 DEF sideOf, Side
  <2>4. sibling(n)' = m
    <3>1. sibling(n)' = link'[p][opposite(sideOf(n)')]
      BY <1>a, <2>2 DEF sibling, opposite
    <3> QED
      BY <1>P, <2>3, <3>1
  <2>5. /\ pc' = "delete_case3" /\ Short' /\ Deleting'
    BY <1>a DEF Short, Deleting
  <2>6. p # NULL
    BY <1>F
  <2>7. parent'[n'] # NULL /\ sibling(n)' # NULL /\ color'[sibling(n)'] = "BLACK"
    BY <1>a, <1>M, <2>2, <2>4, <2>6
  <2> QED
    BY <1>a, <1>k, <2>1, <2>5, <2>7 DEF Deletion
<1> QED
  BY <1>1, <1>2, <1>3, <1>4, <1>5, <1>6, <1>7, <1>8, <1>9, <1>10 DEF Inv

(* A black sibling stays.                                                  *)
LEMMA DeleteCase2Stay ==
  ASSUME NEW sub, NEW bh, Inv(sub, bh), delete_case2,
         colorOf(sibling(n)) # "RED"
  PROVE  Inv(sub, bh)'
<1>T. /\ TypeOK /\ ParentLinks /\ Shape(sub) /\ Ordered(sub) /\ Distinct
      /\ Heights(bh) /\ Colors /\ Locals /\ Deletion(sub)
  BY DEF Inv
<1>a. /\ pc = "delete" /\ pc' = "delete_case3" /\ parent[n] # NULL /\ Short
      /\ UNCHANGED <<root, link, parent, color, key, value, linked, sought,
                     inserted, n, pred, doomed, child>>
  BY DEF delete_case2, goOn, entries, pointers, Short
<1>s. sibling(n) \in linked /\ NULL \notin linked /\ color[sibling(n)] = "BLACK" /\ n # NULL
  <2>1. sibling(n) \in linked /\ NULL \notin linked /\ color[sibling(n)] \in {"RED", "BLACK"}
        /\ n \in linked
    BY <1>a, Siblings
  <2> QED
    BY <2>1 DEF delete_case2, colorOf
<1>1. TypeOK'
  BY <1>T, <1>a DEF TypeOK
<1>2. samePointers /\ sameKeys
  BY <1>a DEF samePointers, sameKeys
<1>3. ParentLinks' /\ Shape(sub)' /\ Ordered(sub)' /\ Distinct'
  BY <1>T, <1>2, KeepShape, KeepOrder
<1>4. Locals'
  BY <1>T, <1>a DEF Locals, Deleting, hasBoth, childOf
<1>5. Searching(sub)'
  BY <1>a DEF Searching
<1>6. Heights(bh)'
  BY <1>T, <1>a, <1>2, KeepHeights DEF Short
<1>7. Colors'
  BY <1>T, <1>a, <1>2, KeepColors DEF Inserting
<1>8. Deletion(sub)'
  <2>1. sibling(n)' = sibling(n)
    BY <1>a DEF sibling, sideOf
  <2>2. colorOf(child)' = colorOf(child)
    BY <1>a DEF colorOf
  <2>3. /\ doomed \in sub[n] /\ (n # doomed => color[n] = "BLACK")
        /\ (n # doomed /\ doomed # root /\ colorOf(child) = "RED"
              => color[parent[doomed]] = "BLACK")
    BY <1>T, <1>a DEF Deletion, Deleting, Short
  <2>4. color'[sibling(n)'] = "BLACK" /\ sibling(n)' # NULL /\ parent'[n'] # NULL
    BY <1>a, <1>s, <2>1
  <2> QED
    BY <1>a, <2>2, <2>3, <2>4 DEF Deletion
<1> QED
  BY <1>1, <1>3, <1>4, <1>5, <1>6, <1>7, <1>8 DEF Inv

(* A black sibling with black children turns red.                          *)
LEMMA DeleteCase34 ==
  ASSUME NEW sub, NEW bh, Inv(sub, bh), delete_case3 \/ delete_case4
  PROVE  \E s2, b2 : Inv(s2, b2)'
<1>b0. PICK b : b = n
  OBVIOUS
<1>p0. PICK p : p = parent[n]
  OBVIOUS
<1>s0. PICK s : s = sibling(n)
  OBVIOUS
<1>d0. PICK d : d = sideOf(n)
  OBVIOUS
<1>h0. PICK bh2 : bh2 = [bh EXCEPT ![p] = bh[p] - 1]
  OBVIOUS
<1>T. /\ TypeOK /\ ParentLinks /\ Shape(sub) /\ Ordered(sub) /\ Distinct
      /\ Heights(bh) /\ Colors /\ Locals
  BY DEF Inv
<1>a. /\ pc = "delete_case3" /\ doomed' = doomed
      /\ \/ color[p] = "BLACK" /\ pc' = "delete" /\ n' = p
         \/ color[p] = "RED" /\ pc' = "replace" /\ n' = b
      /\ child' = child /\ Short /\ parent[n] # NULL
      /\ UNCHANGED <<root, link, parent, key, value, linked, sought, inserted, pred>>
      /\ color' = IF color[p] = "RED"
                  THEN [color EXCEPT ![s] = "RED", ![p] = "BLACK"]
                  ELSE [color EXCEPT ![s] = "RED"]
      /\ colorOf(s) = "BLACK" /\ \A e \in Side : colorOf(link[s][e]) = "BLACK"
  <2>1. Short /\ parent[n] # NULL
    BY DEF delete_case3, delete_case4, Inv, Deletion, Short
  <2>2. /\ pc = "delete_case3" /\ doomed' = doomed /\ child' = child
        /\ UNCHANGED <<root, link, parent, key, value, linked, sought, inserted, pred>>
        /\ colorOf(s) = "BLACK" /\ \A e \in Side : colorOf(link[s][e]) = "BLACK"
    BY <1>s0 DEF delete_case3, delete_case4, goOn, pointers, entries, blackSibling
  <2>3. \/ /\ color[p] = "BLACK" /\ pc' = "delete" /\ n' = p
           /\ color' = [color EXCEPT ![s] = "RED"]
        \/ /\ color[p] = "RED" /\ pc' = "replace" /\ n' = b
           /\ color' = [color EXCEPT ![s] = "RED", ![p] = "BLACK"]
    BY <1>b0, <1>p0, <1>s0 DEF delete_case3, delete_case4, goOn
  <2> QED
    BY <2>1, <2>2, <2>3
<1>F. /\ b \in linked /\ p \in linked /\ s \in linked
      /\ NULL \notin linked /\ linked \subseteq Node /\ root \in linked
      /\ p # b /\ s # b /\ s # p /\ b # root /\ s # root
      /\ parent[b] = p /\ parent[s] = p
      /\ d \in Side /\ opposite(d) \in Side /\ opposite(d) # d
      /\ opposite(opposite(d)) = d /\ Side = {d, opposite(d)}
      /\ link[p][d] = b /\ link[p][opposite(d)] = s
      /\ p \notin sub[b] /\ sub[b] \cap sub[s] = {} /\ b \in sub[b] /\ s \in sub[s]
      /\ doomed \in sub[b] /\ doomed \in linked /\ doomed # p /\ doomed # s
      /\ doomed \notin sub[s] /\ doomed # root
      /\ (b # doomed => color[b] = "BLACK")
      /\ color[p] \in {"RED", "BLACK"}
      /\ (color[p] = "RED" => color[s] = "BLACK")
      /\ colorOf(root) # "RED"
      /\ ~Inserting /\ shortAt = b
      /\ sub[b] \subseteq sub[p]
  BY <1>a, <1>b0, <1>p0, <1>s0, <1>d0, Siblings
<1>C. /\ color' \in [Node -> {"RED", "BLACK"}]
      /\ color'[p] = "BLACK" /\ color'[s] = "RED"
      /\ \A y \in linked \ {p, s} : color'[y] = color[y]
      /\ color[s] = "BLACK"
  <2>1. color[s] = "BLACK"
    BY <1>F, <1>a DEF colorOf
  <2>2. CASE color[p] = "BLACK"
    BY <1>F, <1>T, <1>a, <2>1, <2>2 DEF TypeOK
  <2>3. CASE color[p] = "RED"
    BY <1>F, <1>T, <1>a, <2>1, <2>3 DEF TypeOK
  <2> QED
    BY <1>F, <2>2, <2>3
<1>K. \A z \in sub[b] : color'[z] = color[z] /\ z \notin {p, s}
  BY <1>F, <1>T, <1>C, Around
<1>1. TypeOK'
  <2>1. root' \in Pointer /\ n' \in Pointer /\ link' \in [Node -> [Side -> Pointer]]
        /\ parent' \in [Node -> Pointer]
    BY <1>F, <1>T, <1>a DEF TypeOK, Pointer
  <2> QED
    BY <1>T, <1>a, <1>C, <2>1, TurnTypes
<1>2. samePointers /\ sameKeys
  BY <1>a DEF samePointers, sameKeys
<1>3. ParentLinks' /\ Shape(sub)' /\ Ordered(sub)' /\ Distinct'
  BY <1>T, <1>2, KeepShape, KeepOrder
<1>k. /\ doomed' \in linked' /\ ~hasBoth(doomed)' /\ child' = childOf(doomed)'
      /\ (b # doomed /\ colorOf(child)' = "RED" => color'[parent'[doomed']] = "BLACK")
      /\ (b # doomed => color'[b] = "BLACK")
  <2>1. \A z \in sub[n] : /\ link'[z] = link[z] /\ parent'[z] = parent[z]
                         /\ color'[z] = color[z]
    BY <1>K, <1>b0, <1>a
  <2> QED
    BY <1>a, <2>1, <1>b0, KeepCorner
<1>4. Locals'
  BY <1>F, <1>a, <1>k DEF Locals, Deleting
<1>5. Searching(sub)'
  BY <1>a DEF Searching
<1> DEFINE v(c) == load(c, color, doomed, shortAt)
           w(c) == load(c, color', doomed', shortAt')
<1>H. /\ bh \in [Pointer -> Nat] /\ bh[NULL] = 0
      /\ \A y \in linked, e \in Side : bh[y] = bh[link[y][e]] + v(link[y][e])
      /\ \A c \in linked \cup {NULL} : bh[c] \in Nat /\ v(c) \in Nat /\ w(c) \in Nat
      /\ w(p) = v(p) + 1 /\ v(s) = 1 /\ w(s) = 0
      /\ v(b) = w(b) + 1
      /\ \A c \in linked \cup {NULL} : c \notin {p, s, b} => w(c) = v(c)
  <2>1. /\ bh \in [Pointer -> Nat] /\ bh[NULL] = 0
        /\ \A y \in linked, e \in Side : bh[y] = bh[link[y][e]] + v(link[y][e])
    BY <1>F, <1>T, HeightsByLoad
  <2>2. \A c \in linked \cup {NULL} : bh[c] \in Nat /\ v(c) \in Nat /\ w(c) \in Nat
    BY <1>F, <2>1, LoadIsNat DEF Pointer
  <2>4. shortAt' = IF color[p] = "BLACK" THEN p ELSE NULL
    BY <1>a DEF shortAt, Short
  <2>5. v(s) = 1 /\ w(s) = 0
    BY <1>F, <1>a, <1>C, <2>4 DEF load, weight, deficit
  <2>6. w(p) = v(p) + 1
    <3>1. CASE color[p] = "BLACK"
      <4>1. v(p) = 1 /\ w(p) = 2
        BY <1>F, <1>a, <1>C, <2>4, <3>1 DEF load, weight, deficit
      <4> QED
        BY <4>1
    <3>2. CASE color[p] = "RED"
      <4>1. v(p) = 0 /\ w(p) = 1
        BY <1>F, <1>a, <1>C, <2>4, <3>2 DEF load, weight, deficit
      <4> QED
        BY <4>1
    <3> QED
      BY <1>F, <3>1, <3>2
  <2>7. v(b) = w(b) + 1
    <3>1. CASE b = doomed
      <4>1. v(b) = 1 /\ w(b) = 0
        BY <1>F, <1>a, <2>4, <3>1 DEF load, weight, deficit
      <4> QED
        BY <4>1
    <3>2. CASE b # doomed
      <4>1. v(b) = 2 /\ w(b) = 1
        BY <1>F, <1>a, <1>C, <2>4, <3>2 DEF load, weight, deficit
      <4> QED
        BY <4>1
    <3> QED
      BY <3>1, <3>2
  <2>8. \A c \in linked \cup {NULL} : c \notin {p, s, b} => w(c) = v(c)
    BY <1>F, <1>a, <1>C, <2>4 DEF load, weight, deficit
  <2> QED
    BY <2>1, <2>2, <2>5, <2>6, <2>7, <2>8
<1> HIDE DEF v, w
<1>h. /\ bh[p] = bh[b] + v(b) /\ bh[p] = bh[s] + v(s)
  BY <1>F, <1>H
<1>g. /\ bh2 \in [Pointer -> Nat] /\ bh2[NULL] = 0 /\ bh2[p] = bh[p] - 1
      /\ \A c \in linked \cup {NULL} : c # p => bh2[c] = bh[c]
      /\ bh2[p] \in Nat
  <2>1. bh[p] - 1 \in Nat
    BY <1>F, <1>H, <1>h
  <2> QED
    BY <1>F, <1>H, <1>h0, <2>1 DEF Pointer
<1>6. Heights(bh2)'
  <2>1. ASSUME NEW y \in linked', NEW e \in Side
        PROVE  bh2[y] = bh2[link'[y][e]] + w(link'[y][e])
    <3> PICK c : c = link[y][e]
      OBVIOUS
    <3>0. y \in linked /\ link'[y][e] = c /\ c \in linked \cup {NULL}
          /\ (c # NULL => parent[c] = y) /\ c # y
      BY <1>T, <1>a, Below
    <3>1. bh[y] = bh[c] + v(c)
      BY <3>0, <1>H
    <3>2. CASE y = p
      <4>1. c = b \/ c = s
        BY <1>F, <3>2
      <4> QED
        BY <1>F, <1>H, <1>h, <1>g, <3>0, <3>2, <4>1
    <3>3. CASE y # p
      <4>1. c # b /\ c # s
        BY <1>F, <3>0, <3>3
      <4>2. CASE c = p
        BY <1>F, <1>H, <1>g, <3>0, <3>1, <3>3, <4>2
      <4>3. CASE c # p
        BY <1>H, <1>g, <3>0, <3>1, <3>3, <4>1, <4>3
      <4> QED
        BY <4>2, <4>3
    <3> QED
      BY <3>2, <3>3
  <2> QED
    BY <1>F, <1>a, <1>g, <1>3, <2>1, NextHeights DEF w
<1>7. Colors'
  <2>1. ASSUME NEW y \in linked \ {doomed}, NEW e \in Side, NEW c, c = link[y][e],
               c # doomed, color'[y] = "RED"
        PROVE  c = NULL \/ color'[c] = "BLACK"
    <3>0. c \in linked \cup {NULL} /\ (c # NULL => parent[c] = y) /\ c # y
      BY <1>T, <2>1, Below
    <3>1. y # p
      BY <1>C, <2>1
    <3>2. c # s /\ (c # NULL => c # b)
      BY <1>F, <3>0, <3>1
    <3>3. colorOf(c) = "BLACK"
      <4>1. CASE y = s
        BY <1>a, <2>1, <4>1
      <4>2. CASE y # s
        <5>1. color[y] = "RED"
          BY <1>C, <2>1, <3>1, <4>2
        <5> QED
          BY <1>F, <1>T, <2>1, <5>1 DEF Colors
      <4> QED
        BY <4>1, <4>2
    <3> QED
      BY <1>C, <3>0, <3>2, <3>3 DEF colorOf
  <2>2. colorOf(root)' # "RED"
    BY <1>F, <1>a, <1>C DEF colorOf
  <2>3. ~Inserting' /\ pc' # "insert_case5" /\ pc' # "insert"
    BY <1>a DEF Inserting
  <2>4. \A y \in linked' \ {doomed'}, e \in Side :
          link'[y][e] # doomed' /\ color'[y] = "RED" =>
            link'[y][e] = NULL \/ color'[link'[y][e]] = "BLACK"
    BY <1>a, <2>1
  <2> QED
    BY <2>2, <2>3, <2>4 DEF Colors, colorOf
<1>8. Deletion(sub)'
  <2>1. doomed' \in sub[n']
    BY <1>F, <1>a
  <2>2. b = doomed => parent'[doomed'] = p
    BY <1>F, <1>a
  <2>3. colorOf(child)' = "RED" => color'[parent'[doomed']] = "BLACK"
    BY <1>k, <1>C, <2>2
  <2>4. Short' => n' = p
    BY <1>a DEF Short
  <2>5. pc' # "delete_case3" /\ pc' # "delete_case6"
    BY <1>a
  <2> QED
    BY <1>C, <2>1, <2>3, <2>4, <2>5 DEF Deletion
<1> QED
  BY <1>1, <1>3, <1>4, <1>5, <1>6, <1>7, <1>8 DEF Inv

(* The sibling's inner red child is turned outwards.                       *)
LEMMA DeleteCase5Turn ==
  ASSUME NEW sub, NEW bh, Inv(sub, bh), delete_case5,
         NEW s, s = sibling(n), NEW d, d = sideOf(n),
         colorOf(s) = "BLACK", colorOf(link[s][d]) = "RED",
         colorOf(link[s][opposite(d)]) = "BLACK"
  PROVE  \E s2, b2 : Inv(s2, b2)'
<1>b0. PICK b : b = n
  OBVIOUS
<1>p0. PICK p : p = parent[n]
  OBVIOUS
<1>s0. s = sibling(n)
  OBVIOUS
<1>d0. d = sideOf(n)
  OBVIOUS
<1>k0. PICK k : k = link[s][d]
  OBVIOUS
<1>f0. PICK f : f = link[s][opposite(d)]
  OBVIOUS
<1>m0. PICK m : m = link[k][opposite(d)]
  OBVIOUS
<1>o0. PICK o : o = link[k][d]
  OBVIOUS
<1>u0. PICK sub2 : sub2 = turned(sub, s, opposite(d))
  OBVIOUS
<1>T. /\ TypeOK /\ ParentLinks /\ Shape(sub) /\ Ordered(sub) /\ Distinct
      /\ Heights(bh) /\ Colors /\ Locals
  BY DEF Inv
<1>a. /\ pc = "delete_case3" /\ pc' = "delete_case6" /\ n' = b /\ doomed' = doomed
      /\ child' = child /\ parent[n] # NULL /\ Short
      /\ UNCHANGED <<key, value, linked, sought, inserted, pred>>
      /\ color' = [color EXCEPT ![s] = "RED", ![k] = "BLACK"]
      /\ rotate(s, opposite(d))
      /\ colorOf(s) = "BLACK" /\ colorOf(k) = "RED" /\ colorOf(f) = "BLACK"
  <2>1. Short /\ parent[n] # NULL
    BY DEF delete_case5, Inv, Deletion, Short
  <2>2. /\ color' = [color EXCEPT ![s] = "RED", ![k] = "BLACK"]
        /\ rotate(s, opposite(d))
    BY <1>k0 DEF delete_case5
  <2> QED
    BY <2>1, <2>2, <1>b0, <1>k0, <1>f0 DEF delete_case5, goOn, entries
<1>F. /\ b \in linked /\ p \in linked /\ s \in linked
      /\ NULL \notin linked /\ linked \subseteq Node /\ root \in linked
      /\ p # b /\ s # b /\ s # p /\ b # root /\ s # root
      /\ parent[b] = p /\ parent[s] = p
      /\ d \in Side /\ opposite(d) \in Side /\ opposite(d) # d
      /\ opposite(opposite(d)) = d /\ Side = {d, opposite(d)}
      /\ link[p][d] = b /\ link[p][opposite(d)] = s
      /\ p \notin sub[b] /\ sub[b] \cap sub[s] = {} /\ b \in sub[b] /\ s \in sub[s]
      /\ doomed \in sub[b] /\ doomed \in linked /\ doomed # p /\ doomed # s
      /\ doomed \notin sub[s] /\ doomed # root
      /\ (b # doomed => color[b] = "BLACK")
      /\ color[p] \in {"RED", "BLACK"}
      /\ (color[p] = "RED" => color[s] = "BLACK")
      /\ colorOf(root) # "RED"
      /\ ~Inserting /\ shortAt = b
      /\ sub[b] \subseteq sub[p]
  BY <1>a, <1>b0, <1>p0, <1>s0, <1>d0, Siblings
<1>r. /\ TypeOK /\ ParentLinks /\ Shape(sub) /\ s \in linked /\ opposite(d) \in Side
      /\ k = link[s][opposite(opposite(d))] /\ k # NULL /\ rotate(s, opposite(d))
      /\ f = link[s][opposite(d)] /\ m = link[k][opposite(d)]
      /\ o = link[k][opposite(opposite(d))]
  BY <1>F, <1>T, <1>a, <1>k0, <1>f0, <1>m0, <1>o0 DEF colorOf
<1>N. /\ k \in linked /\ k # s
      /\ m \in linked \cup {NULL} /\ m \notin {s, k}
      /\ o \in linked \cup {NULL} /\ o \notin {s, k}
      /\ f \in linked \cup {NULL} /\ f \notin {s, k}
      /\ k \in sub[s] /\ (m # NULL => m \in sub[s])
      /\ (o # NULL => o \in sub[s]) /\ (f # NULL => f \in sub[s])
  <2>1. /\ k \in linked /\ k # s
        /\ m \in linked \cup {NULL} /\ m \notin {s, k}
        /\ o \in linked \cup {NULL} /\ o \notin {s, k}
        /\ f \in linked \cup {NULL} /\ f \notin {s, k}
        /\ f # NULL => f \in sub[f]
        /\ o # NULL => o \in sub[o]
        /\ m # NULL => m \in sub[m]
    BY <1>r, RotationNodes
  <2>2. /\ sub[s] = {s} \cup sub[f] \cup sub[k]
        /\ sub[k] = {k} \cup sub[m] \cup sub[o]
    BY <1>r, RotationSets
  <2> QED
    BY <2>1, <2>2
<1>n. /\ k \notin sub[b] /\ m \notin sub[b] /\ s \notin sub[b]
      /\ k # doomed /\ m # doomed /\ o # doomed /\ f # doomed
      /\ k # b /\ m # b /\ o # b /\ f # b /\ k # p /\ k # root
  <2>1. sub[b] \subseteq linked
    BY <1>F, <1>T, Around
  <2>2. parent[k] = s
    BY <1>r, RotationNodes
  <2>3. p # s /\ parent[s] = p /\ p \notin sub[s]
    BY <1>F, <1>T, Above
  <2>4. parent[root] = NULL
    BY <1>F, <1>T, Above
  <2> QED
    BY <1>F, <1>N, <2>1, <2>2, <2>3, <2>4
<1>c. color[s] = "BLACK" /\ color[k] = "RED"
  BY <1>F, <1>N, <1>a DEF colorOf
<1>P. /\ root' = root
      /\ link' \in [Node -> [Side -> Pointer]] /\ parent' \in [Node -> Pointer]
      /\ link'[p][d] = b /\ link'[p][opposite(d)] = k
      /\ link'[k][opposite(d)] = s
  <2>1. /\ root' = root
        /\ link' \in [Node -> [Side -> Pointer]] /\ parent' \in [Node -> Pointer]
        /\ link'[k][opposite(d)] = s
    <3>1. s # root
      BY <1>F
    <3> QED
      BY <3>1, <1>r, RotatePointers
  <2>4. /\ link'[parent[s]][sideOf(s)] = k
        /\ link'[parent[s]][opposite(sideOf(s))] = sibling(s)
    <3>1. s # root
      BY <1>F
    <3> QED
      BY <3>1, <1>r, RotatePointers
  <2>2. sideOf(s) = opposite(d)
    BY <1>F DEF sideOf, Side, opposite
  <2>3. sibling(s) = b
    BY <1>F, <2>2 DEF sibling
  <2> QED
    BY <1>F, <2>1, <2>2, <2>3, <2>4
<1>K. \A z \in sub[b] : /\ link'[z] = link[z] /\ parent'[z] = parent[z]
                       /\ color'[z] = color[z] /\ z \notin {p, s, k}
  <2>3. \A z \in sub[b] : link'[z] = link[z] /\ parent'[z] = parent[z]
    BY <1>F, <1>n, <1>r, RotationSpares
  <2>4. \A z \in sub[b] : z \in Node /\ z \notin {p, s, k}
    BY <1>F, <1>T, <1>n, Around
  <2> QED
    BY <1>T, <1>a, <2>3, <2>4 DEF TypeOK
<1>L. ASSUME NEW y \in linked, NEW e \in Side, NEW c, c = link'[y][e]
      PROVE  \/ y = s /\ (c = f \/ c = m)
             \/ y = k /\ (c = s \/ c = o)
             \/ y = p /\ link[y][e] = s /\ c = k
             \/ /\ y \notin {s, k} /\ c = link[y][e] /\ c \in linked \cup {NULL}
                /\ c \notin {s, k}
  <2>1. \/ y = s /\ (c = f \/ c = m)
        \/ y = k /\ (c = s \/ c = o)
        \/ s # root /\ y = parent[s] /\ e = sideOf(s) /\ c = k /\ link[y][e] = s
        \/ /\ y \notin {s, k} /\ c = link[y][e] /\ c \in linked \cup {NULL}
           /\ c \notin {s, k} /\ (c # NULL => c \notin {f, m, o} /\ parent[c] = y)
    BY <1>L, <1>r, RotatedLinks
  <2> QED
    BY <1>F, <2>1
<1>C. /\ color' \in [Node -> {"RED", "BLACK"}]
      /\ color'[s] = "RED" /\ color'[k] = "BLACK"
      /\ \A y \in linked \ {s, k} : color'[y] = color[y]
  BY <1>F, <1>N, <1>T, <1>a DEF TypeOK
<1>1. TypeOK'
  <2>1. root' \in Pointer /\ n' \in Pointer
    BY <1>F, <1>a, <1>P DEF Pointer
  <2> QED
    BY <1>T, <1>a, <1>P, <1>C, <2>1, TurnTypes
<1>2. ParentLinks'
  BY <1>r, <1>a, RotateLinks
<1>3. Shape(sub2)'
  BY <1>r, <1>a, <1>u0, RotateShape
<1>4. Ordered(sub2)'
  BY <1>F, <1>T, <1>r, <1>n, <1>a, <1>u0, RotateOrdered
<1>5. Distinct'
  BY <1>T, <1>a, KeepDistinct
<1>k. /\ doomed' \in linked' /\ ~hasBoth(doomed)' /\ child' = childOf(doomed)'
      /\ (b # doomed /\ colorOf(child)' = "RED" => color'[parent'[doomed']] = "BLACK")
      /\ (b # doomed => color'[b] = "BLACK")
  <2>1. \A z \in sub[n] : /\ link'[z] = link[z] /\ parent'[z] = parent[z]
                         /\ color'[z] = color[z]
    BY <1>K, <1>b0
  <2>2. linked' = linked
    BY <1>a
  <2> QED
    BY <1>a, <2>1, <2>2, <1>b0, KeepCorner
<1>6. Locals'
  BY <1>F, <1>a, <1>k DEF Locals, Deleting
<1>7. Searching(sub2)'
  BY <1>a DEF Searching
<1> DEFINE v(c) == load(c, color, doomed, shortAt)
           w(c) == load(c, color', doomed', shortAt')
<1>H. /\ bh \in [Pointer -> Nat] /\ bh[NULL] = 0
      /\ \A y \in linked, e \in Side : bh[y] = bh[link[y][e]] + v(link[y][e])
      /\ \A c \in linked \cup {NULL} : bh[c] \in Nat /\ v(c) \in Nat /\ w(c) \in Nat
      /\ v(s) = 1 /\ w(s) = 0 /\ v(k) = 0 /\ w(k) = 1
      /\ \A c \in linked \cup {NULL} : c \notin {s, k} => w(c) = v(c)
  <2>1. /\ bh \in [Pointer -> Nat] /\ bh[NULL] = 0
        /\ \A y \in linked, e \in Side : bh[y] = bh[link[y][e]] + v(link[y][e])
    BY <1>F, <1>T, HeightsByLoad
  <2>2. \A c \in linked \cup {NULL} : bh[c] \in Nat /\ v(c) \in Nat /\ w(c) \in Nat
    BY <1>F, <2>1, LoadIsNat DEF Pointer
  <2>4. shortAt' = b
    BY <1>a DEF shortAt, Short
  <2>5. v(s) = 1 /\ w(s) = 0
    BY <1>F, <1>a, <1>c, <1>C, <2>4 DEF load, weight, deficit
  <2>6. v(k) = 0 /\ w(k) = 1
    BY <1>F, <1>r, <1>n, <1>a, <1>c, <1>C, <2>4 DEF load, weight, deficit
  <2>7. \A c \in linked \cup {NULL} : c \notin {s, k} => w(c) = v(c)
    BY <1>F, <1>a, <1>C, <2>4 DEF load, weight, deficit
  <2> QED
    BY <2>1, <2>2, <2>5, <2>6, <2>7
<1> HIDE DEF v, w
<1>h. /\ bh[s] = bh[k] + v(k) /\ bh[s] = bh[f] + v(f)
      /\ bh[k] = bh[m] + v(m) /\ bh[k] = bh[o] + v(o)
  BY <1>F, <1>H, <1>N, <1>k0, <1>f0, <1>m0, <1>o0
<1>8. Heights(bh)'
  <2>1. ASSUME NEW y \in linked', NEW e \in Side
        PROVE  bh[y] = bh[link'[y][e]] + w(link'[y][e])
    <3> PICK c : c = link'[y][e]
      OBVIOUS
    <3>0. y \in linked
      BY <1>a
    <3>1. \/ y = s /\ (c = f \/ c = m)
          \/ y = k /\ (c = s \/ c = o)
          \/ y = p /\ link[y][e] = s /\ c = k
          \/ /\ y \notin {s, k} /\ c = link[y][e] /\ c \in linked \cup {NULL}
             /\ c \notin {s, k}
      BY <3>0, <1>L
    <3>2. bh[y] = bh[link[y][e]] + v(link[y][e])
      BY <3>0, <1>H
    <3>3. bh[s] = bh[k]
      BY <1>F, <1>N, <1>H, <1>h
    <3> QED
      BY <1>F, <1>N, <1>H, <1>h, <3>1, <3>2, <3>3
  <2> QED
    BY <1>F, <1>H, <1>a, <1>2, <2>1, NextHeights DEF w
<1>9. Colors'
  <2>1. ASSUME NEW y \in linked \ {doomed}, NEW e \in Side, NEW c, c = link'[y][e],
               c # doomed, color'[y] = "RED"
        PROVE  c = NULL \/ color'[c] = "BLACK"
    <3>1. \/ y = s /\ (c = f \/ c = m)
          \/ y = k /\ (c = s \/ c = o)
          \/ y = p /\ link[y][e] = s /\ c = k
          \/ /\ y \notin {s, k} /\ c = link[y][e] /\ c \in linked \cup {NULL}
             /\ c \notin {s, k}
      BY <2>1, <1>L
    <3>2. f = NULL \/ color'[f] = "BLACK"
      BY <1>N, <1>C, <1>a DEF colorOf
    <3>3. m = NULL \/ color'[m] = "BLACK"
      <4>1. colorOf(m) = "BLACK"
        BY <1>F, <1>T, <1>N, <1>n, <1>c, <1>m0 DEF Colors
      <4> QED
        BY <1>N, <1>C, <4>1 DEF colorOf
    <3>4. CASE y \notin {s, k} /\ c = link[y][e] /\ c \in linked \cup {NULL}
               /\ c \notin {s, k}
      <4>1. color[y] = "RED"
        BY <1>C, <2>1, <3>4
      <4>2. colorOf(c) = "BLACK"
        BY <1>F, <1>T, <2>1, <3>4, <4>1 DEF Colors
      <4> QED
        BY <1>C, <3>4, <4>2 DEF colorOf
    <3> QED
      BY <1>C, <2>1, <3>1, <3>2, <3>3, <3>4
  <2>2. colorOf(root)' # "RED"
    BY <1>F, <1>n, <1>P, <1>C DEF colorOf
  <2>3. ~Inserting' /\ pc' # "insert_case5" /\ pc' # "insert"
    BY <1>a DEF Inserting
  <2>4. \A y \in linked' \ {doomed'}, e \in Side :
          link'[y][e] # doomed' /\ color'[y] = "RED" =>
            link'[y][e] = NULL \/ color'[link'[y][e]] = "BLACK"
    BY <1>a, <2>1
  <2> QED
    BY <2>2, <2>3, <2>4 DEF Colors, colorOf
<1>10. Deletion(sub2)'
  <2>1. doomed' \in sub2[n']
    <3>1. sub2[b] = sub[b]
      BY <1>F, <1>r, <1>n, <1>u0, TurnedElsewhere
    <3> QED
      BY <1>F, <1>a, <3>1
  <2>2. parent'[b] = p
    BY <1>F, <1>K
  <2>3. sideOf(n)' = d
    BY <1>F, <1>n, <1>P, <1>a, <2>2 DEF sideOf, Side
  <2>4. sibling(n)' = k
    <3>1. sibling(n)' = link'[p][opposite(sideOf(n)')]
      BY <1>a, <2>2 DEF sibling, opposite
    <3> QED
      BY <1>P, <2>3, <3>1
  <2>5. outerNephew' = s
    <3>1. outerNephew' = link'[sibling(n)'][opposite(sideOf(n)')]
      BY DEF outerNephew, opposite
    <3> QED
      BY <1>P, <2>3, <2>4, <3>1
  <2>6. /\ pc' = "delete_case6" /\ Short' /\ Deleting'
    BY <1>a DEF Short, Deleting
  <2>7. /\ parent'[n'] # NULL /\ sibling(n)' # NULL /\ color'[sibling(n)'] = "BLACK"
        /\ colorOf(outerNephew)' = "RED"
    BY <1>F, <1>a, <1>C, <1>r, <2>2, <2>4, <2>5 DEF colorOf
  <2> QED
    BY <1>a, <1>k, <2>1, <2>6, <2>7 DEF Deletion
<1> QED
  BY <1>1, <1>2, <1>3, <1>4, <1>5, <1>6, <1>7, <1>8, <1>9, <1>10 DEF Inv

(* The outer child is red already.                                         *)
LEMMA DeleteCase5Stay ==
  ASSUME NEW sub, NEW bh, Inv(sub, bh), delete_case5,
         ~(/\ colorOf(sibling(n)) = "BLACK"
           /\ colorOf(link[sibling(n)][sideOf(n)]) = "RED"
           /\ colorOf(outerNephew) = "BLACK")
  PROVE  Inv(sub, bh)'
<1>T. /\ TypeOK /\ ParentLinks /\ Shape(sub) /\ Ordered(sub) /\ Distinct
      /\ Heights(bh) /\ Colors /\ Locals /\ Deletion(sub)
  BY DEF Inv
<1>a. /\ pc = "delete_case3" /\ pc' = "delete_case6" /\ parent[n] # NULL /\ Short
      /\ UNCHANGED <<root, link, parent, color, key, value, linked, sought,
                     inserted, n, pred, doomed, child>>
  BY <1>T DEF delete_case5, goOn, entries, pointers, Short, Deletion, outerNephew
<1>s. /\ sibling(n) \in linked /\ NULL \notin linked /\ linked \subseteq Node
      /\ n \in linked /\ sideOf(n) \in Side
      /\ Side = {sideOf(n), opposite(sideOf(n))}
  BY <1>a, Siblings
<1>o. sibling(n) # NULL /\ color[sibling(n)] = "BLACK" /\ colorOf(outerNephew) = "RED"
  <2>1. sibling(n) # NULL /\ color[sibling(n)] = "BLACK"
    BY <1>T, <1>a DEF Deletion
  <2>2. \A e \in Side : colorOf(link[sibling(n)][e]) \in {"RED", "BLACK"}
    BY <1>s, <1>T DEF TypeOK, Pointer, colorOf
  <2>3. ~blackSibling
    BY DEF delete_case5
  <2>4. outerNephew = link[sibling(n)][opposite(sideOf(n))]
    BY DEF outerNephew
  <2>5. opposite(sideOf(n)) \in Side
    BY <1>s, SidesOpposite
  <2> QED
    BY <1>s, <2>1, <2>2, <2>3, <2>4, <2>5 DEF blackSibling, colorOf
<1>1. TypeOK'
  BY <1>T, <1>a DEF TypeOK
<1>2. samePointers /\ sameKeys
  BY <1>a DEF samePointers, sameKeys
<1>3. ParentLinks' /\ Shape(sub)' /\ Ordered(sub)' /\ Distinct'
  BY <1>T, <1>2, KeepShape, KeepOrder
<1>4. Locals'
  BY <1>T, <1>a DEF Locals, Deleting, hasBoth, childOf
<1>5. Searching(sub)'
  BY <1>a DEF Searching
<1>6. Heights(bh)'
  BY <1>T, <1>a, <1>2, KeepHeights DEF Short
<1>7. Colors'
  BY <1>T, <1>a, <1>2, KeepColors DEF Inserting
<1>8. Deletion(sub)'
  <2>1. sibling(n)' = sibling(n) /\ outerNephew' = outerNephew
    BY <1>a DEF sibling, sideOf, outerNephew
  <2>2. colorOf(child)' = colorOf(child) /\ colorOf(outerNephew)' = colorOf(outerNephew)
    BY <1>a, <2>1 DEF colorOf
  <2>3. /\ doomed \in sub[n] /\ (n # doomed => color[n] = "BLACK")
        /\ (n # doomed /\ doomed # root /\ colorOf(child) = "RED"
              => color[parent[doomed]] = "BLACK")
    BY <1>T, <1>a DEF Deletion, Deleting, Short
  <2>4. /\ color'[sibling(n)'] = "BLACK" /\ sibling(n)' # NULL /\ parent'[n'] # NULL
        /\ colorOf(outerNephew)' = "RED"
    BY <1>a, <1>o, <2>1, <2>2
  <2> QED
    BY <1>a, <2>2, <2>3, <2>4 DEF Deletion
<1> QED
  BY <1>1, <1>3, <1>4, <1>5, <1>6, <1>7, <1>8 DEF Inv

(* The rotation that repairs the short paths.                              *)
LEMMA DeleteCase6 ==
  ASSUME NEW sub, NEW bh, Inv(sub, bh), delete_case6
  PROVE  \E s2, b2 : Inv(s2, b2)'
<1>b0. PICK b : b = n
  OBVIOUS
<1>p0. PICK p : p = parent[n]
  OBVIOUS
<1>s0. PICK s : s = sibling(n)
  OBVIOUS
<1>d0. PICK d : d = sideOf(n)
  OBVIOUS
<1>m0. PICK m : m = link[s][d]
  OBVIOUS
<1>o0. PICK o : o = link[s][opposite(d)]
  OBVIOUS
<1>u0. PICK sub2 : sub2 = turned(sub, p, d)
  OBVIOUS
<1>h0. PICK bh2 : bh2 = [bh EXCEPT ![p] = bh[p] - 1, ![s] = bh[p]]
  OBVIOUS
<1>T. /\ TypeOK /\ ParentLinks /\ Shape(sub) /\ Ordered(sub) /\ Distinct
      /\ Heights(bh) /\ Colors /\ Locals /\ Deletion(sub)
  BY DEF Inv
<1>a. /\ pc = "delete_case6" /\ pc' = "replace" /\ n' = b /\ doomed' = doomed
      /\ child' = child /\ parent[n] # NULL /\ Short
      /\ UNCHANGED <<key, value, linked, sought, inserted, pred>>
      /\ color' = [color EXCEPT ![s] = color[p], ![p] = "BLACK", ![o] = "BLACK"]
      /\ rotate(p, d) /\ color[s] = "BLACK" /\ colorOf(o) = "RED"
  <2>1. o = outerNephew
    BY <1>s0, <1>d0, <1>o0 DEF outerNephew
  <2>2. pc = "delete_case6" /\ Short
    BY DEF delete_case6, Short
  <2>3. parent[n] # NULL /\ color[s] = "BLACK" /\ colorOf(o) = "RED"
    BY <1>T, <1>s0, <2>1, <2>2 DEF Deletion
  <2> QED
    BY <2>1, <2>2, <2>3, <1>b0, <1>p0, <1>s0, <1>d0 DEF delete_case6, goOn, entries
<1>F. /\ b \in linked /\ p \in linked /\ s \in linked
      /\ NULL \notin linked /\ linked \subseteq Node /\ root \in linked
      /\ p # b /\ s # b /\ s # p /\ b # root /\ s # root
      /\ parent[b] = p /\ parent[s] = p
      /\ d \in Side /\ opposite(d) \in Side /\ opposite(d) # d
      /\ opposite(opposite(d)) = d /\ Side = {d, opposite(d)}
      /\ link[p][d] = b /\ link[p][opposite(d)] = s
      /\ p \notin sub[b] /\ sub[b] \cap sub[s] = {} /\ b \in sub[b] /\ s \in sub[s]
      /\ doomed \in sub[b] /\ doomed \in linked /\ doomed # p /\ doomed # s
      /\ doomed \notin sub[s] /\ doomed # root
      /\ (b # doomed => color[b] = "BLACK")
      /\ color[p] \in {"RED", "BLACK"}
      /\ (color[p] = "RED" => color[s] = "BLACK")
      /\ colorOf(root) # "RED"
      /\ ~Inserting /\ shortAt = b
      /\ sub[b] \subseteq sub[p]
  BY <1>a, <1>b0, <1>p0, <1>s0, <1>d0, Siblings
<1>r. /\ TypeOK /\ ParentLinks /\ Shape(sub) /\ p \in linked /\ d \in Side
      /\ s = link[p][opposite(d)] /\ s # NULL /\ rotate(p, d)
      /\ b = link[p][d]
  BY <1>F, <1>T, <1>a
<1>N. /\ m \in linked \cup {NULL} /\ m \notin {p, s, b}
      /\ o \in linked /\ o \notin {p, s, b}
      /\ m \notin sub[b] /\ m # doomed /\ o # doomed /\ m # o
      /\ o \in sub[s] /\ color[o] = "RED" /\ parent[o] = s
  <2>0. o # NULL /\ color[o] = "RED"
    BY <1>a DEF colorOf
  <2>1. /\ m \in linked \cup {NULL} /\ m # p /\ m # s
        /\ o \in linked \cup {NULL} /\ o # p /\ o # s
        /\ b # NULL => b # m /\ b # o
        /\ o # NULL => o \in sub[o] /\ parent[o] = s /\ o # m
        /\ m # NULL => m \in sub[m]
    BY <1>r, <1>m0, <1>o0, RotationNodes
  <2>2. sub[s] = {s} \cup sub[m] \cup sub[o] /\ sub[b] \cap sub[s] = {}
    BY <1>r, <1>m0, <1>o0, RotationSets
  <2>3. sub[b] \subseteq linked
    BY <1>F, <1>T, Around
  <2> QED
    BY <1>F, <2>0, <2>1, <2>2, <2>3
<1>P. /\ root' = IF p = root THEN s ELSE root
      /\ link' \in [Node -> [Side -> Pointer]] /\ parent' \in [Node -> Pointer]
      /\ link'[p][d] = b /\ link'[p][opposite(d)] = m
  BY <1>r, <1>m0, RotatePointers
<1>K. \A z \in sub[b] : /\ link'[z] = link[z] /\ parent'[z] = parent[z]
                       /\ color'[z] = color[z] /\ z \notin {p, s, o}
  <2>1. parent[p] \notin sub[b]
    <3>1. p # root => parent[p] \notin sub[p]
      BY <1>F, <1>T, Above
    <3>2. p = root => parent[p] = NULL
      BY <1>F, <1>T, Above
    <3>3. sub[b] \subseteq linked
      BY <1>F, <1>T, Around
    <3> QED
      BY <1>F, <3>1, <3>2, <3>3
  <2>2. s \notin sub[b]
    BY <1>F
  <2>3. \A z \in sub[b] : link'[z] = link[z] /\ parent'[z] = parent[z]
    BY <1>F, <1>N, <1>r, <1>m0, <2>1, <2>2, RotationSpares
  <2>4. \A z \in sub[b] : z \in Node /\ z \notin {p, s, o}
    BY <1>F, <1>T, <1>N, <2>2, Around
  <2> QED
    BY <1>T, <1>a, <2>3, <2>4 DEF TypeOK
<1>L. ASSUME NEW y \in linked, NEW e \in Side, NEW c, c = link'[y][e]
      PROVE  \/ y = p /\ (c = b \/ c = m)
             \/ y = s /\ (c = p \/ c = o)
             \/ y \in linked \ {p, s} /\ link[y][e] = p /\ c = s
             \/ /\ y \notin {p, s} /\ c = link[y][e] /\ c \in linked \cup {NULL}
                /\ c \notin {p, s, b, o}
  <2>1. \/ y = p /\ (c = b \/ c = m)
        \/ y = s /\ (c = p \/ c = o)
        \/ p # root /\ y = parent[p] /\ e = sideOf(p) /\ c = s /\ link[y][e] = p
        \/ /\ y \notin {p, s} /\ c = link[y][e] /\ c \in linked \cup {NULL}
           /\ c \notin {p, s} /\ (c # NULL => c \notin {b, m, o} /\ parent[c] = y)
    BY <1>L, <1>r, <1>m0, <1>o0, RotatedLinks
  <2>2. p # root => parent[p] \notin {p, s}
    BY <1>r, <1>m0, <1>o0, RotationAbove
  <2> QED
    BY <1>F, <1>N, <2>1, <2>2
<1>C. /\ color' \in [Node -> {"RED", "BLACK"}]
      /\ color'[p] = "BLACK" /\ color'[s] = color[p] /\ color'[o] = "BLACK"
      /\ \A y \in linked \ {p, s, o} : color'[y] = color[y]
  BY <1>F, <1>N, <1>T, <1>a DEF TypeOK
<1>1. TypeOK'
  <2>1. root' \in Pointer /\ n' \in Pointer
    BY <1>F, <1>a, <1>P DEF Pointer
  <2> QED
    BY <1>T, <1>a, <1>P, <1>C, <2>1, TurnTypes
<1>2. ParentLinks'
  BY <1>r, <1>a, RotateLinks
<1>3. Shape(sub2)'
  BY <1>r, <1>a, <1>u0, RotateShape
<1>4. Ordered(sub2)'
  BY <1>F, <1>T, <1>r, <1>a, <1>u0, RotateOrdered
<1>5. Distinct'
  BY <1>T, <1>a, KeepDistinct
<1>k. /\ doomed' \in linked' /\ ~hasBoth(doomed)' /\ child' = childOf(doomed)'
      /\ (b # doomed /\ colorOf(child)' = "RED" => color'[parent'[doomed']] = "BLACK")
      /\ (b # doomed => color'[b] = "BLACK")
  <2>1. \A z \in sub[n] : /\ link'[z] = link[z] /\ parent'[z] = parent[z]
                         /\ color'[z] = color[z]
    BY <1>K, <1>b0
  <2>2. linked' = linked
    BY <1>a
  <2> QED
    BY <1>a, <2>1, <2>2, <1>b0, KeepCorner
<1>6. Locals'
  BY <1>F, <1>a, <1>k DEF Locals, Deleting
<1>7. Searching(sub2)'
  BY <1>a DEF Searching
<1> DEFINE v(c) == load(c, color, doomed, shortAt)
           w(c) == load(c, color', doomed', shortAt')
<1>H. /\ bh \in [Pointer -> Nat] /\ bh[NULL] = 0
      /\ \A y \in linked, e \in Side : bh[y] = bh[link[y][e]] + v(link[y][e])
      /\ \A c \in linked \cup {NULL} : bh[c] \in Nat /\ v(c) \in Nat /\ w(c) \in Nat
      /\ w(p) = 1 /\ v(s) = 1 /\ w(s) = v(p) /\ v(o) = 0 /\ w(o) = 1
      /\ v(b) = w(b) + 1
      /\ \A c \in linked \cup {NULL} : c \notin {p, s, b, o} => w(c) = v(c)
  <2>1. /\ bh \in [Pointer -> Nat] /\ bh[NULL] = 0
        /\ \A y \in linked, e \in Side : bh[y] = bh[link[y][e]] + v(link[y][e])
    BY <1>F, <1>T, HeightsByLoad
  <2>2. \A c \in linked \cup {NULL} : bh[c] \in Nat /\ v(c) \in Nat /\ w(c) \in Nat
    BY <1>F, <2>1, LoadIsNat DEF Pointer
  <2>4. shortAt' = NULL
    BY <1>a DEF shortAt, Short
  <2>5. w(p) = 1 /\ v(s) = 1 /\ w(s) = v(p)
    BY <1>F, <1>a, <1>C, <2>4 DEF load, weight, deficit
  <2>6. v(o) = 0 /\ w(o) = 1
    BY <1>F, <1>N, <1>a, <1>C, <2>4 DEF load, weight, deficit
  <2>7. v(b) = w(b) + 1
    <3>1. CASE b = doomed
      <4>1. v(b) = 1 /\ w(b) = 0
        BY <1>F, <1>a, <2>4, <3>1 DEF load, weight, deficit
      <4> QED
        BY <4>1
    <3>2. CASE b # doomed
      <4>1. v(b) = 2 /\ w(b) = 1
        BY <1>F, <1>N, <1>a, <1>C, <2>4, <3>2 DEF load, weight, deficit
      <4> QED
        BY <4>1
    <3> QED
      BY <3>1, <3>2
  <2>8. \A c \in linked \cup {NULL} : c \notin {p, s, b, o} => w(c) = v(c)
    BY <1>F, <1>a, <1>C, <2>4 DEF load, weight, deficit
  <2> QED
    BY <2>1, <2>2, <2>5, <2>6, <2>7, <2>8
<1> HIDE DEF v, w
<1>h. /\ bh[p] = bh[b] + v(b) /\ bh[p] = bh[s] + v(s)
      /\ bh[s] = bh[m] + v(m) /\ bh[s] = bh[o] + v(o)
  BY <1>F, <1>H, <1>m0, <1>o0
<1>g. /\ bh2 \in [Pointer -> Nat] /\ bh2[NULL] = 0 /\ bh2[p] = bh[p] - 1
      /\ bh2[s] = bh[p] /\ bh2[p] \in Nat
      /\ \A c \in linked \cup {NULL} : c # p /\ c # s => bh2[c] = bh[c]
  <2>1. bh[p] - 1 \in Nat
    BY <1>F, <1>H, <1>h
  <2> QED
    BY <1>F, <1>H, <1>h0, <2>1 DEF Pointer
<1>8. Heights(bh2)'
  <2>1. ASSUME NEW y \in linked', NEW e \in Side
        PROVE  bh2[y] = bh2[link'[y][e]] + w(link'[y][e])
    <3> PICK c : c = link'[y][e]
      OBVIOUS
    <3>0. y \in linked
      BY <1>a
    <3>1. \/ y = p /\ (c = b \/ c = m)
          \/ y = s /\ (c = p \/ c = o)
          \/ y \in linked \ {p, s} /\ link[y][e] = p /\ c = s
          \/ /\ y \notin {p, s} /\ c = link[y][e] /\ c \in linked \cup {NULL}
             /\ c \notin {p, s, b, o}
      BY <3>0, <1>L
    <3>2. bh[y] = bh[link[y][e]] + v(link[y][e])
      BY <3>0, <1>H
    <3>3. CASE y = p
      BY <1>F, <1>N, <1>H, <1>h, <1>g, <3>1, <3>3
    <3>4. CASE y = s
      BY <1>F, <1>N, <1>H, <1>h, <1>g, <3>1, <3>4
    <3>5. CASE y \notin {p, s}
      BY <1>F, <1>N, <1>H, <1>h, <1>g, <3>0, <3>1, <3>2, <3>5
    <3> QED
      BY <3>3, <3>4, <3>5
  <2> QED
    BY <1>F, <1>g, <1>a, <1>2, <2>1, NextHeights DEF w
<1>9. Colors'
  <2>1. ASSUME NEW y \in linked \ {doomed}, NEW e \in Side, NEW c, c = link'[y][e],
               c # doomed, color'[y] = "RED"
        PROVE  c = NULL \/ color'[c] = "BLACK"
    <3>1. \/ y = p /\ (c = b \/ c = m)
          \/ y = s /\ (c = p \/ c = o)
          \/ y \in linked \ {p, s} /\ link[y][e] = p /\ c = s
          \/ /\ y \notin {p, s} /\ c = link[y][e] /\ c \in linked \cup {NULL}
             /\ c \notin {p, s, b, o}
      BY <2>1, <1>L
    <3>2. y # p /\ y # o
      BY <1>C, <2>1
    <3>3. CASE y \notin {p, s}
      <4>1. color[y] = "RED"
        BY <1>C, <2>1, <3>2, <3>3
      <4>2. link[y][e] # doomed => colorOf(link[y][e]) = "BLACK"
        BY <1>F, <1>T, <2>1, <4>1 DEF Colors
      <4>3. CASE link[y][e] = p /\ c = s
        BY <1>F, <1>C, <4>2, <4>3 DEF colorOf
      <4>4. CASE c = link[y][e] /\ c \in linked \cup {NULL} /\ c \notin {p, s, b, o}
        BY <1>C, <2>1, <4>2, <4>4 DEF colorOf
      <4> QED
        BY <3>1, <3>3, <4>3, <4>4
    <3> QED
      BY <1>C, <3>1, <3>2, <3>3
  <2>2. colorOf(root)' # "RED"
    <3>1. CASE p = root
      BY <1>F, <1>P, <1>C, <3>1 DEF colorOf
    <3>2. CASE p # root
      <4>1. root # o
        BY <1>F, <1>N, <1>T, Above
      <4> QED
        BY <1>F, <1>P, <1>C, <3>2, <4>1 DEF colorOf
    <3> QED
      BY <3>1, <3>2
  <2>3. ~Inserting' /\ pc' # "insert_case5" /\ pc' # "insert"
    BY <1>a DEF Inserting
  <2>4. \A y \in linked' \ {doomed'}, e \in Side :
          link'[y][e] # doomed' /\ color'[y] = "RED" =>
            link'[y][e] = NULL \/ color'[link'[y][e]] = "BLACK"
    BY <1>a, <2>1
  <2> QED
    BY <2>2, <2>3, <2>4 DEF Colors, colorOf
<1>10. Deletion(sub2)'
  <2>1. doomed' \in sub2[n']
    <3>1. sub2[b] = sub[b]
      BY <1>F, <1>r, <1>u0, TurnedElsewhere
    <3> QED
      BY <1>F, <1>a, <3>1
  <2>2. parent'[b] = p
    BY <1>F, <1>K
  <2>3. colorOf(child)' = "RED" => color'[parent'[doomed']] = "BLACK"
    BY <1>a, <1>k, <1>C, <2>2
  <2>6. ~Short' /\ pc' = "replace"
    BY <1>a DEF Short
  <2> QED
    BY <2>1, <2>3, <2>6 DEF Deletion
<1> QED
  BY <1>1, <1>2, <1>3, <1>4, <1>5, <1>6, <1>7, <1>8, <1>9, <1>10 DEF Inv

(* What the child that takes the doomed node's place looks like.           *)
LEMMA UnlinkPointers ==
  ASSUME NEW sub, NEW bh, Inv(sub, bh), unlink,
         NEW x, x = doomed, NEW c, c = child, NEW q, q = parent[doomed]
  PROVE  /\ x \in linked /\ x \in Node /\ NULL \notin linked /\ linked \subseteq Node
         /\ root \in linked
         /\ c \in linked \cup {NULL} /\ c # x
         /\ c # NULL => parent[c] = x /\ c \in sub[c]
         /\ sub[x] = {x} \cup sub[c] /\ x \notin sub[c]
         /\ \E d \in Side : link[x][d] = c /\ link[x][opposite(d)] = NULL
         /\ q = NULL <=> x = root
         /\ x # root => /\ q \in linked /\ q # x /\ q # c /\ sideOf(x) \in Side
                        /\ link[q][sideOf(x)] = x /\ q \notin sub[x]
                        /\ sibling(x) # x
         /\ root' = IF x = root THEN c ELSE root
         /\ link' \in [Node -> [Side -> Pointer]] /\ parent' \in [Node -> Pointer]
         /\ x = root => link' = link
         /\ x # root => /\ link'[q][sideOf(x)] = c
                        /\ link'[q][opposite(sideOf(x))] = sibling(x)
                        /\ \A y \in Node \ {q} : link'[y] = link[y]
         /\ c # NULL => parent'[c] = q
         /\ \A y \in Node \ {c} : parent'[y] = parent[y]
<1>T. TypeOK /\ ParentLinks /\ Shape(sub) /\ Locals
  BY DEF Inv
<1>1. /\ x \in linked /\ x \in Node /\ NULL \notin linked /\ linked \subseteq Node
      /\ ~hasBoth(x) /\ c = childOf(x) /\ root \in linked
  BY <1>T, TreeAssumption DEF Locals, Deleting, unlink, TypeOK, ParentLinks
<1>2. PICK d \in Side : link[x][d] = c /\ link[x][opposite(d)] = NULL
  BY <1>1 DEF hasBoth, childOf, Side, opposite
<1>3. /\ c \in linked \cup {NULL} /\ c # x
      /\ c # NULL => parent[c] = x /\ c \in sub[c]
      /\ sub[x] = {x} \cup sub[c] /\ x \notin sub[c]
  <2>1. sub[NULL] = {}
    BY <1>T DEF Shape
  <2> QED
    BY <1>T, <1>1, <1>2, <2>1, Below
<1>4. /\ q = NULL <=> x = root
      /\ x # root => /\ q \in linked /\ q # x /\ sideOf(x) \in Side
                     /\ link[q][sideOf(x)] = x /\ q \notin sub[x] /\ sibling(x) # x
  BY <1>T, <1>1, Above
<1>5. x # root => q # c
  BY <1>1, <1>3, <1>4
<1>6. root' = IF x = root THEN c ELSE root
  BY <1>4 DEF unlink, replace_node, replaceRoot
<1>7. /\ link' \in [Node -> [Side -> Pointer]]
      /\ x = root => link' = link
      /\ x # root => /\ link'[q][sideOf(x)] = c
                     /\ link'[q][opposite(sideOf(x))] = sibling(x)
                     /\ \A y \in Node \ {q} : link'[y] = link[y]
  <2>1. link' = replaceLink(x, c) /\ c \in Pointer
    BY <1>1, <1>3 DEF unlink, replace_node, Pointer
  <2>2. CASE x = root
    BY <1>T, <1>4, <2>1, <2>2 DEF replaceLink, TypeOK
  <2>3. CASE x # root
    <3>1. link' = [link EXCEPT ![q][sideOf(x)] = c]
      BY <1>4, <2>1, <2>3 DEF replaceLink
    <3>2. opposite(sideOf(x)) \in Side /\ opposite(sideOf(x)) # sideOf(x)
      BY <1>4, <2>3, SidesOpposite
    <3>3. q \in Node /\ link \in [Node -> [Side -> Pointer]]
      BY <1>T, <1>1, <1>4, <2>3 DEF TypeOK
    <3>4. link[q][opposite(sideOf(x))] = sibling(x)
      BY DEF sibling
    <3> QED
      BY <1>4, <2>1, <2>3, <3>1, <3>2, <3>3, <3>4
  <2> QED
    BY <2>2, <2>3
<1>8. /\ parent' \in [Node -> Pointer]
      /\ c # NULL => parent'[c] = q
      /\ \A y \in Node \ {c} : parent'[y] = parent[y]
  <2>1. parent' = replaceParent(x, c)
    BY DEF unlink, replace_node
  <2>2. q \in Pointer /\ parent \in [Node -> Pointer] /\ (c # NULL => c \in Node)
    BY <1>T, <1>1, <1>3 DEF TypeOK
  <2> QED
    BY <2>1, <2>2 DEF replaceParent
<1> QED
  BY <1>1, <1>2, <1>3, <1>4, <1>5, <1>6, <1>7, <1>8

(* Parents and children agree without the doomed node.                     *)
LEMMA UnlinkedLinks ==
  ASSUME NEW sub, NEW bh, Inv(sub, bh), unlink,
         NEW x, x = doomed, NEW c, c = child, NEW q, q = parent[doomed],
         NEW y \in linked \ {x}, NEW e \in Side, NEW z, z = link'[y][e]
  PROVE  \/ x # root /\ y = q /\ link[y][e] = x /\ z = c
         \/ /\ z = link[y][e] /\ z \in linked \cup {NULL} /\ z # x
            /\ (z # NULL => parent[z] = y /\ z # c)
<1>T. TypeOK /\ ParentLinks /\ Shape(sub)
  BY DEF Inv
<1>U. /\ x \in linked /\ NULL \notin linked /\ linked \subseteq Node
      /\ c # NULL => parent[c] = x
      /\ q = NULL <=> x = root
      /\ x # root => /\ q \in linked /\ q # x /\ sideOf(x) \in Side
                     /\ link[q][sideOf(x)] = x /\ sibling(x) # x
      /\ x = root => link' = link
      /\ x # root => /\ link'[q][sideOf(x)] = c
                     /\ link'[q][opposite(sideOf(x))] = sibling(x)
                     /\ \A w \in Node \ {q} : link'[w] = link[w]
  BY UnlinkPointers
<1>1. link[y][e] \in linked \cup {NULL} /\ (link[y][e] # NULL => parent[link[y][e]] = y)
  BY <1>T, Below
<1>2. CASE x # root /\ y = q /\ e = sideOf(x)
  BY <1>U, <1>2
<1>3. CASE ~(x # root /\ y = q /\ e = sideOf(x))
  <2>1. z = link[y][e] /\ z # x
    <3>1. CASE x # root /\ y = q
      <4>1. e = opposite(sideOf(x))
        BY <1>3, <1>U, <3>1, SidesOpposite
      <4> QED
        BY <1>U, <3>1, <4>1 DEF sibling
    <3>2. CASE x # root /\ y # q
      BY <1>U, <1>1, <3>2
    <3>3. CASE x = root
      BY <1>U, <1>1, <3>3
    <3> QED
      BY <3>1, <3>2, <3>3
  <2> QED
    BY <1>U, <1>1, <2>1
<1> QED
  BY <1>2, <1>3

(* What is left is a tree.                                                 *)
LEMMA UnlinkShape ==
  ASSUME NEW sub, NEW bh, Inv(sub, bh), unlink, NEW x, x = doomed,
         NEW s, s = [z \in Pointer |-> sub[z] \ {x}]
  PROVE  ParentLinks' /\ Shape(s)'
<1>c0. PICK c : c = child
  OBVIOUS
<1>q0. PICK q : q = parent[doomed]
  OBVIOUS
<1>T. TypeOK /\ ParentLinks /\ Shape(sub)
  BY DEF Inv
<1>U. /\ x \in linked /\ NULL \notin linked /\ linked \subseteq Node /\ root \in linked
      /\ c \in linked \cup {NULL} /\ c # x
      /\ c # NULL => parent[c] = x /\ c \in sub[c]
      /\ sub[x] = {x} \cup sub[c] /\ x \notin sub[c]
      /\ \E d \in Side : link[x][d] = c /\ link[x][opposite(d)] = NULL
      /\ q = NULL <=> x = root
      /\ x # root => /\ q \in linked /\ q # x /\ sideOf(x) \in Side
                     /\ link[q][sideOf(x)] = x /\ sibling(x) # x
      /\ root' = IF x = root THEN c ELSE root
      /\ x = root => link' = link
      /\ x # root => /\ link'[q][sideOf(x)] = c
                     /\ link'[q][opposite(sideOf(x))] = sibling(x)
                     /\ \A w \in Node \ {q} : link'[w] = link[w]
      /\ c # NULL => parent'[c] = q
      /\ \A y \in Node \ {c} : parent'[y] = parent[y]
  BY <1>c0, <1>q0, UnlinkPointers
<1>l. linked' = linked \ {x}
  BY DEF unlink
<1>L. ASSUME NEW y \in linked \ {x}, NEW e \in Side, NEW z, z = link'[y][e]
      PROVE  \/ x # root /\ y = q /\ link[y][e] = x /\ z = c
             \/ /\ z = link[y][e] /\ z \in linked \cup {NULL} /\ z # x
                /\ (z # NULL => parent[z] = y /\ z # c)
  BY <1>c0, <1>q0, <1>L, UnlinkedLinks
<1>0. /\ sub[NULL] = {} /\ sub \in [Pointer -> SUBSET Node]
      /\ sub[root] = linked /\ linked \subseteq Pointer /\ NULL \in Pointer
      /\ \A y \in linked : sub[y] \subseteq linked
  BY <1>U, <1>T, Around DEF Shape, Pointer
<1>o. ASSUME NEW y \in linked, y # c, y # root
      PROVE  parent[y] \in linked /\ parent[y] # x
  <2>1. PICK e \in Side : link[parent[y]][e] = y
    BY <1>T, <1>o DEF ParentLinks
  <2>2. parent[y] = x => y \in {c, NULL}
    BY <1>U, <2>1, SidesOpposite
  <2> QED
    BY <1>U, <1>T, <1>o, <2>2 DEF ParentLinks
<1>s. /\ s \in [Pointer -> SUBSET Node] /\ s[NULL] = {}
      /\ \A z \in linked \cup {NULL} : s[z] = sub[z] \ {x}
  BY <1>0
<1>1. ParentLinks'
  <2>1. IF linked' = {} THEN root' = NULL
        ELSE root' \in linked' /\ parent'[root'] = NULL
    <3>1. CASE x = root
      <4>1. linked' # {} => c # NULL
        BY <1>U, <1>l, <1>0, <3>1
      <4> QED
        BY <1>U, <1>l, <3>1, <4>1
    <3>2. CASE x # root
      <4>1. root # c /\ parent[root] = NULL
        BY <1>U, <1>T DEF ParentLinks
      <4> QED
        BY <1>U, <1>l, <3>2, <4>1
    <3> QED
      BY <3>1, <3>2
  <2>2. ASSUME NEW y \in linked', NEW e \in Side, link'[y][e] # NULL
        PROVE  link'[y][e] \in linked' /\ parent'[link'[y][e]] = y
    <3> PICK z : z = link'[y][e]
      OBVIOUS
    <3>1. \/ x # root /\ y = q /\ link[y][e] = x /\ z = c
          \/ /\ z = link[y][e] /\ z \in linked \cup {NULL} /\ z # x
             /\ (z # NULL => parent[z] = y /\ z # c)
      BY <1>L, <1>l
    <3> QED
      BY <1>U, <1>l, <2>2, <3>1
  <2>3. ASSUME NEW y \in linked', y # root'
        PROVE  parent'[y] \in linked' /\ \E e \in Side : link'[parent'[y]][e] = y
    <3>1. CASE y = c
      BY <1>U, <1>l, <2>3, <3>1
    <3>2. CASE y # c
      <4>0. y \in linked /\ y # root /\ y # x
        BY <1>U, <1>l, <2>3
      <4>1. parent[y] \in linked /\ parent[y] # x /\ parent'[y] = parent[y]
        BY <1>U, <1>o, <3>2, <4>0
      <4>2. PICK e \in Side : link[parent[y]][e] = y
        BY <1>T, <4>0 DEF ParentLinks
      <4>3. link'[parent[y]][e] = y
        BY <1>L, <4>0, <4>1, <4>2
      <4> QED
        BY <1>l, <4>1, <4>3
    <3> QED
      BY <3>1, <3>2
  <2> QED
    BY <2>1, <2>2, <2>3 DEF ParentLinks
<1>2. s[root'] = linked'
  BY <1>U, <1>l, <1>0, <1>s
<1> DEFINE Right(y) ==
       /\ s[y] = {y} \cup s[link'[y]["left"]] \cup s[link'[y]["right"]]
       /\ s[link'[y]["left"]] \cap s[link'[y]["right"]] = {}
       /\ \A e \in Side : y \notin s[link'[y][e]]
<1>3. ASSUME NEW y \in linked'
      PROVE  Right(y)
  <2>0. y \in linked /\ y # x
    BY <1>l
  <2>1. \A e \in Side : s[link'[y][e]] = sub[link[y][e]] \ {x}
    <3> SUFFICES ASSUME NEW e \in Side
                 PROVE  s[link'[y][e]] = sub[link[y][e]] \ {x}
      OBVIOUS
    <3> PICK z : z = link'[y][e]
      OBVIOUS
    <3>1. \/ x # root /\ y = q /\ link[y][e] = x /\ z = c
          \/ /\ z = link[y][e] /\ z \in linked \cup {NULL} /\ z # x
             /\ (z # NULL => parent[z] = y /\ z # c)
      BY <1>L, <2>0
    <3> QED
      BY <1>U, <1>s, <3>1
  <2>2. s[y] = sub[y] \ {x}
    BY <1>s, <2>0
  <2>3. /\ sub[y] = {y} \cup sub[link[y]["left"]] \cup sub[link[y]["right"]]
        /\ sub[link[y]["left"]] \cap sub[link[y]["right"]] = {}
        /\ \A e \in Side : y \notin sub[link[y][e]]
    BY <1>T, <2>0 DEF Shape
  <2>4. "left" \in Side /\ "right" \in Side
    BY DEF Side
  <2>5. /\ s[link'[y]["left"]] = sub[link[y]["left"]] \ {x}
        /\ s[link'[y]["right"]] = sub[link[y]["right"]] \ {x}
    BY <2>1, <2>4
  <2>6. s[y] = {y} \cup s[link'[y]["left"]] \cup s[link'[y]["right"]]
    BY <2>0, <2>2, <2>3, <2>5
  <2>7. s[link'[y]["left"]] \cap s[link'[y]["right"]] = {}
    BY <2>3, <2>5
  <2>8. \A e \in Side : y \notin s[link'[y][e]]
    BY <2>1, <2>3
  <2> QED
    BY <2>6, <2>7, <2>8
<1>4. ASSUME NEW w \in linked', NEW y \in linked', y \in s[w]
      PROVE  s[y] \subseteq s[w]
  <2>1. y \in linked /\ w \in linked /\ y \in sub[w]
    BY <1>l, <1>s, <1>4
  <2>2. sub[y] \subseteq sub[w]
    BY <1>T, <2>1 DEF Shape
  <2> QED
    BY <1>s, <2>1, <2>2
<1>5. ASSUME NEW w \in linked', NEW y \in linked', y \in s[w], y # w
      PROVE  parent'[y] \in s[w]
  <2>1. y \in linked /\ w \in linked /\ y \in sub[w] /\ w # x
    BY <1>l, <1>s, <1>5
  <2>2. parent[y] \in sub[w]
    BY <1>T, <1>5, <2>1 DEF Shape
  <2>3. CASE y = c
    <3>1. x \in sub[w] /\ parent'[y] = q
      BY <1>U, <2>1, <2>2, <2>3
    <3>2. q \in sub[w]
      BY <1>T, <1>U, <1>q0, <2>1, <3>1 DEF Shape
    <3>3. q # x
      BY <1>U
    <3> QED
      BY <1>s, <2>1, <3>1, <3>2, <3>3
  <2>4. CASE y # c
    <3>1. y # root
      BY <1>0, <1>U, <1>T, <2>1, <2>2 DEF ParentLinks
    <3>2. parent[y] # x /\ parent'[y] = parent[y]
      BY <1>U, <1>o, <2>1, <2>4, <3>1
    <3> QED
      BY <1>s, <2>1, <2>2, <3>2
  <2> QED
    BY <2>3, <2>4
<1> HIDE DEF Right
<1>6. \A y \in linked' : Right(y)
  BY <1>3
<1>7. \A w, y \in linked' : y \in s[w] => s[y] \subseteq s[w]
  BY <1>4
<1>8. \A w, y \in linked' : y \in s[w] /\ y # w => parent'[y] \in s[w]
  BY <1>5
<1>9. s \in [Pointer -> SUBSET Node] /\ s[NULL] = {}
  BY <1>s
<1>10. Shape(s)'
  BY <1>2, <1>6, <1>7, <1>8, <1>9 DEF Shape, Right
<1> QED
  BY <1>1, <1>10

(* The deletion ends, and the tree is as it should be between operations.  *)
LEMMA Unlink ==
  ASSUME NEW sub, NEW bh, Inv(sub, bh), unlink
  PROVE  \E s, b : Inv(s, b)'
<1>x0. PICK x : x = doomed
  OBVIOUS
<1>c0. PICK c : c = child
  OBVIOUS
<1>q0. PICK q : q = parent[doomed]
  OBVIOUS
<1>s0. PICK s : s = [z \in Pointer |-> sub[z] \ {x}]
  OBVIOUS
<1>T. /\ TypeOK /\ ParentLinks /\ Shape(sub) /\ Ordered(sub) /\ Distinct
      /\ Heights(bh) /\ Colors /\ Locals /\ Deletion(sub)
  BY DEF Inv
<1>U. /\ x \in linked /\ x \in Node /\ NULL \notin linked /\ linked \subseteq Node
      /\ root \in linked
      /\ c \in linked \cup {NULL} /\ c # x
      /\ sub[x] = {x} \cup sub[c]
      /\ \E d \in Side : link[x][d] = c /\ link[x][opposite(d)] = NULL
      /\ q = NULL <=> x = root
      /\ x # root => q \in linked /\ q # c
      /\ root' = IF x = root THEN c ELSE root
      /\ link' \in [Node -> [Side -> Pointer]] /\ parent' \in [Node -> Pointer]
  BY <1>x0, <1>c0, <1>q0, UnlinkPointers
<1>a. /\ pc = "replace" /\ idle /\ pc' = "idle" /\ doomed' = NULL
      /\ linked' = linked \ {x} /\ key' = key /\ value' = value
      /\ color' = IF q = NULL /\ c # NULL THEN [color EXCEPT ![c] = "BLACK"] ELSE color
      /\ ~Short /\ ~Inserting /\ shortAt = NULL /\ shortAt' = NULL /\ ~Inserting'
  BY <1>x0, <1>c0, <1>q0 DEF unlink, idle, entries, Short, Inserting, shortAt
<1>L. ASSUME NEW y \in linked \ {x}, NEW e \in Side, NEW z, z = link'[y][e]
      PROVE  \/ x # root /\ y = q /\ link[y][e] = x /\ z = c
             \/ /\ z = link[y][e] /\ z \in linked \cup {NULL} /\ z # x
                /\ (z # NULL => parent[z] = y /\ z # c)
  BY <1>x0, <1>c0, <1>q0, <1>L, UnlinkedLinks
<1>C. /\ color' \in [Node -> {"RED", "BLACK"}]
      /\ \A z \in linked \ {c} : color'[z] = color[z]
      /\ x # root => color' = color
      /\ x = root /\ c # NULL => color'[c] = "BLACK"
      /\ \A z \in linked : color'[z] = "RED" => color[z] = "RED"
  <2>1. color \in [Node -> {"RED", "BLACK"}]
    BY <1>T DEF TypeOK
  <2> QED
    BY <1>U, <1>a, <2>1
<1>s. /\ sub[NULL] = {} /\ \A y \in linked : sub[y] \subseteq linked
      /\ \A z \in linked \cup {NULL} : s[z] = sub[z] \ {x}
  BY <1>T, <1>U, <1>s0, Around DEF Shape, Pointer
<1>1. TypeOK'
  <2>1. root' \in Pointer /\ linked' \subseteq Node
    BY <1>U, <1>a DEF Pointer
  <2>2. {inserted', n', pred', doomed', child'} \subseteq Pointer /\ sought' = None
    BY <1>a DEF idle, Pointer
  <2> QED
    BY <1>T, <1>U, <1>a, <1>C, <2>1, <2>2 DEF TypeOK
<1>2. ParentLinks' /\ Shape(s)'
  BY <1>x0, <1>s0, UnlinkShape
<1>3. Locals' /\ Searching(s)' /\ Deletion(s)'
  BY <1>a, IdleLocals
<1>k. \A y : keyAt(y)' = keyAt(y)
  BY <1>a DEF keyAt
<1>4. Ordered(s)'
  <2>1. ASSUME NEW y \in linked \ {x}, NEW e \in Side, NEW w \in s[link'[y][e]]
        PROVE  before(e, keyAt(w), keyAt(y))
    <3> PICK z : z = link'[y][e]
      OBVIOUS
    <3>1. \/ x # root /\ y = q /\ link[y][e] = x /\ z = c
          \/ /\ z = link[y][e] /\ z \in linked \cup {NULL} /\ z # x
             /\ (z # NULL => parent[z] = y /\ z # c)
      BY <1>L, <2>1
    <3>2. w \in sub[link[y][e]] \ {x}
      BY <1>U, <1>s, <2>1, <3>1
    <3> QED
      BY <1>T, <1>x0, <2>1, <3>2 DEF Ordered
  <2>2. \A y \in linked' \ {doomed'} : y \in linked \ {x}
    BY <1>a
  <2> QED
    BY <1>k, <2>1, <2>2 DEF Ordered
<1>5. Distinct'
  BY <1>T, <1>x0, <1>a, <1>k DEF Distinct
<1> DEFINE v(z) == load(z, color, doomed, shortAt)
           w(z) == load(z, color', doomed', shortAt')
<1>H. /\ bh \in [Pointer -> Nat] /\ bh[NULL] = 0
      /\ \A y \in linked, e \in Side : bh[y] = bh[link[y][e]] + v(link[y][e])
      /\ \A z \in linked \cup {NULL} : bh[z] \in Nat /\ v(z) \in Nat /\ w(z) \in Nat
      /\ v(x) = 0 /\ \A z \in linked \cup {NULL} : z \notin {x, c} => w(z) = v(z)
      /\ x # root \/ c = NULL => w(c) = v(c)
  <2>1. /\ bh \in [Pointer -> Nat] /\ bh[NULL] = 0
        /\ \A y \in linked, e \in Side : bh[y] = bh[link[y][e]] + v(link[y][e])
    BY <1>U, <1>T, HeightsByLoad
  <2>2. \A z \in linked \cup {NULL} : bh[z] \in Nat /\ v(z) \in Nat /\ w(z) \in Nat
    BY <1>U, <2>1, LoadIsNat DEF Pointer
  <2>3. v(x) = 0 /\ v(NULL) = w(NULL)
    BY <1>x0, <1>a DEF load, weight, deficit
  <2>4. \A z \in linked \cup {NULL} : z \notin {x, c} => w(z) = v(z)
    BY <1>U, <1>x0, <1>a, <1>C DEF load, weight, deficit
  <2>5. x # root => w(c) = v(c)
    BY <1>U, <1>x0, <1>a, <1>C DEF load, weight, deficit
  <2> QED
    BY <2>1, <2>2, <2>3, <2>4, <2>5
<1> HIDE DEF v, w
<1>6. Heights(bh)'
  <2>1. ASSUME NEW y \in linked', NEW e \in Side
        PROVE  bh[y] = bh[link'[y][e]] + w(link'[y][e])
    <3> PICK z : z = link'[y][e]
      OBVIOUS
    <3>0. y \in linked \ {x}
      BY <1>a
    <3>1. \/ x # root /\ y = q /\ link[y][e] = x /\ z = c
          \/ /\ z = link[y][e] /\ z \in linked \cup {NULL} /\ z # x
             /\ (z # NULL => parent[z] = y /\ z # c)
      BY <1>L, <3>0
    <3>2. bh[y] = bh[link[y][e]] + v(link[y][e])
      BY <1>H, <3>0
    <3>3. bh[x] = bh[c] + v(c)
      BY <1>H, <1>U
    <3>4. CASE x # root /\ y = q /\ link[y][e] = x /\ z = c
      BY <1>H, <1>U, <3>2, <3>3, <3>4
    <3>5. CASE z = link[y][e] /\ z \in linked /\ z \notin {x, c}
      BY <1>H, <3>2, <3>5
    <3>6. CASE z = link[y][e] /\ z = NULL
      <4>1. v(NULL) = 0 /\ w(NULL) = 0
        BY LoadIsNat DEF v, w
      <4> QED
        BY <3>2, <3>6, <4>1
    <3> QED
      BY <1>U, <3>1, <3>4, <3>5, <3>6
  <2>2. linked' \subseteq Node
    BY <1>U, <1>a
  <2> QED
    BY <1>H, <1>2, <2>1, <2>2, NextHeights DEF w
<1>7. Colors'
  <2>1. ASSUME NEW y \in linked \ {x}, NEW e \in Side, NEW z, z = link'[y][e],
               color'[y] = "RED"
        PROVE  z = NULL \/ color'[z] = "BLACK"
    <3>1. \/ x # root /\ y = q /\ link[y][e] = x /\ z = c
          \/ /\ z = link[y][e] /\ z \in linked \cup {NULL} /\ z # x
             /\ (z # NULL => parent[z] = y /\ z # c)
      BY <1>L, <2>1
    <3>2. color[y] = "RED"
      BY <1>C, <2>1
    <3>3. CASE x # root /\ y = q /\ z = c
      <4>1. colorOf(c) # "RED"
        BY <1>T, <1>x0, <1>c0, <1>q0, <1>a, <3>2, <3>3 DEF Deletion, Deleting
      <4>2. c # NULL => color[c] \in {"RED", "BLACK"}
        BY <1>T, <1>U DEF TypeOK
      <4> QED
        BY <1>C, <3>3, <4>1, <4>2 DEF colorOf
    <3>4. CASE z = link[y][e] /\ z \in linked /\ z \notin {x, c}
      <4>1. colorOf(z) = "BLACK"
        BY <1>T, <1>x0, <1>a, <2>1, <3>2, <3>4 DEF Colors
      <4> QED
        BY <1>U, <1>C, <3>4, <4>1 DEF colorOf
    <3> QED
      BY <1>U, <3>1, <3>3, <3>4
  <2>2. colorOf(root)' # "RED"
    <3>1. CASE x = root
      BY <1>U, <1>C, <3>1 DEF colorOf
    <3>2. CASE x # root
      <4>1. colorOf(root) # "RED"
        BY <1>T, <1>x0, <1>a, <3>2 DEF Colors
      <4> QED
        BY <1>U, <1>C, <3>2, <4>1 DEF colorOf
    <3> QED
      BY <3>1, <3>2
  <2>3. pc' # "insert_case5"
    BY <1>a
  <2>4. \A y \in linked' \ {doomed'}, e \in Side :
          link'[y][e] # doomed' /\ color'[y] = "RED" =>
            link'[y][e] = NULL \/ color'[link'[y][e]] = "BLACK"
    BY <1>a, <2>1
  <2> QED
    BY <1>a, <2>2, <2>3, <2>4 DEF Colors, colorOf
<1> QED
  BY <1>1, <1>2, <1>3, <1>4, <1>5, <1>6, <1>7 DEF Inv

-----------------------------------------------------------------------------
(* The inductive invariant.                                                *)

(* Some such functions exist.                                              *)
IInv == \E sub, bh : Inv(sub, bh)

(* The empty tree.                                                         *)
LEMMA InitInv == Init => IInv
<1> SUFFICES ASSUME Init PROVE IInv
  OBVIOUS
<1>s. PICK sub : sub = [x \in Pointer |-> {}]
  OBVIOUS
<1>b. PICK bh : bh = [x \in Pointer |-> 0]
  OBVIOUS
<1>0. /\ root = NULL /\ linked = {} /\ pc = "idle" /\ n = NULL /\ doomed = NULL
      /\ sub[NULL] = {} /\ bh[NULL] = 0
      /\ sub \in [Pointer -> SUBSET Node] /\ bh \in [Pointer -> Nat]
  BY <1>s, <1>b DEF Init, Pointer
<1>1. TypeOK
  BY DEF Init, TypeOK, Pointer
<1>2. ParentLinks /\ Locals /\ Distinct
  BY <1>0 DEF ParentLinks, Locals, Distinct, Deleting
<1>3. Shape(sub) /\ Ordered(sub) /\ Searching(sub) /\ Heights(bh)
  BY <1>0 DEF Shape, Ordered, Searching, Heights
<1>4. Colors /\ Deletion(sub)
  BY <1>0 DEF Colors, Deletion, colorOf, Inserting, Deleting, Short
<1> QED
  BY <1>1, <1>2, <1>3, <1>4 DEF IInv, Inv

(* The loops.                                                              *)
LEMMA LoopInv == IInv /\ Loops => IInv'
<1> SUFFICES ASSUME NEW sub, NEW bh, Inv(sub, bh), Loops
             PROVE  \E s, b : Inv(s, b)'
  BY DEF IInv
<1>1. CASE insertDescend
  BY <1>1, InsertDescend
<1>2. CASE lookupDescend
  BY <1>2, LookupDescend
<1>3. CASE maximum_node
  BY <1>3, MaximumNode
<1> QED
  BY <1>1, <1>2, <1>3 DEF Loops

(* The rebalancing functions.                                              *)
LEMMA RebalanceInv == IInv /\ Rebalance => IInv'
<1> SUFFICES ASSUME NEW sub, NEW bh, Inv(sub, bh), Rebalance
             PROVE  \E s, b : Inv(s, b)'
  BY DEF IInv
<1>1. CASE insert_case1
  BY <1>1, InsertCase1
<1>2. CASE insert_case2
  BY <1>2, InsertCase2
<1>3. CASE insert_case3
  BY <1>3, InsertCase3
<1>4. CASE insert_case4 /\ sideOf(n) # sideOf(parent[n])
  BY <1>4, InsertCase4Turn
<1>5. CASE insert_case4 /\ sideOf(n) = sideOf(parent[n])
  BY <1>5, InsertCase4Stay
<1>6. CASE insert_case5
  BY <1>6, InsertCase5
<1>7. CASE delete_case1
  BY <1>7, DeleteCase1
<1>8. CASE delete_case2 /\ colorOf(sibling(n)) = "RED"
  BY <1>8, DeleteCase2Turn
<1>9. CASE delete_case2 /\ colorOf(sibling(n)) # "RED"
  BY <1>9, DeleteCase2Stay
<1>10. CASE delete_case3 \/ delete_case4
  BY <1>10, DeleteCase34
<1>11. CASE delete_case5
  <2>1. PICK s : s = sibling(n)
    OBVIOUS
  <2>2. PICK d : d = sideOf(n)
    OBVIOUS
  <2>3. CASE /\ colorOf(s) = "BLACK" /\ colorOf(link[s][d]) = "RED"
             /\ colorOf(link[s][opposite(d)]) = "BLACK"
    BY <1>11, <2>1, <2>2, <2>3, DeleteCase5Turn
  <2>4. CASE ~(/\ colorOf(s) = "BLACK" /\ colorOf(link[s][d]) = "RED"
               /\ colorOf(link[s][opposite(d)]) = "BLACK")
    BY <1>11, <2>1, <2>2, <2>4, DeleteCase5Stay DEF outerNephew
  <2> QED
    BY <2>3, <2>4
<1>12. CASE delete_case6
  BY <1>12, DeleteCase6
<1> QED
  BY <1>1, <1>2, <1>3, <1>4, <1>5, <1>6, <1>7, <1>8, <1>9, <1>10, <1>11, <1>12
     DEF Rebalance

(* Every step.                                                             *)
LEMMA NextInv == IInv /\ [Next]_vars => IInv'
<1> SUFFICES ASSUME NEW sub, NEW bh, Inv(sub, bh), [Next]_vars
             PROVE  \E s, b : Inv(s, b)'
  BY DEF IInv
<1>1. CASE UNCHANGED vars
  BY <1>1, Stutter
<1>2. ASSUME NEW e \in Entry, rbtree_insert(e)
      PROVE  \E s, b : Inv(s, b)'
  BY <1>2, RbtreeInsert
<1>3. ASSUME NEW a \in Addr, lookup_node(a)
      PROVE  \E s, b : Inv(s, b)'
  BY <1>3, LookupNode
<1>4. CASE insertKnown
  BY <1>4, InsertKnown
<1>5. CASE insertLeaf
  BY <1>5, InsertLeaf
<1>6. CASE rbtree_lookup
  BY <1>6, RbtreeLookup
<1>7. CASE rbtree_delete
  BY <1>7, RbtreeDelete
<1>8. CASE unlink
  BY <1>8, Unlink
<1>9. CASE Loops
  BY <1>9, LoopInv DEF IInv
<1>10. CASE Rebalance
  BY <1>10, RebalanceInv DEF IInv
<1> QED
  BY <1>1, <1>2, <1>3, <1>4, <1>5, <1>6, <1>7, <1>8, <1>9, <1>10 DEF Next

(* In every reachable state there are a function that gives each node the  *)
(* nodes below it and one that gives its black height, with which all      *)
(* parts of Inv hold.                                                      *)
THEOREM TreeInvariant == Spec => []IInv
<1>1. Init => IInv
  BY InitInv
<1>2. IInv /\ [Next]_vars => IInv'
  BY NextInv
<1> QED
  BY <1>1, <1>2, PTL DEF Spec

(* No pointer variable leaves the memory for nodes, whatever is rotated,   *)
(* linked and unlinked.                                                    *)
THEOREM TreeTypes == Spec => []TypeOK
<1>1. IInv => TypeOK
  BY DEF IInv, Inv
<1> QED
  BY <1>1, TreeInvariant, PTL

(* replace_node, rotate_left and rotate_right keep parent and child        *)
(* pointers in agreement at every step, and no pointer to a freed node is  *)
(* left.                                                                   *)
THEOREM LinksAgree == Spec => []ParentLinks
<1>1. IInv => ParentLinks
  BY DEF IInv, Inv
<1> QED
  BY <1>1, TreeInvariant, PTL

(* The invariant says what the assertions say.                             *)
LEMMA InvAssertions ==
  ASSUME NEW sub, NEW bh, Inv(sub, bh)
  PROVE  AssertionsHold
<1>T. /\ TypeOK /\ ParentLinks /\ Shape(sub) /\ Searching(sub) /\ Colors /\ Locals
      /\ Deletion(sub)
  BY DEF Inv
<1>0. NULL \notin linked /\ NULL \notin Node
  BY <1>T, TreeAssumption DEF TypeOK
<1>1. pc \in {"place", "insert", "insert_case5", "delete", "delete_case3",
              "delete_case6", "replace"} => n # NULL
  BY <1>T DEF Locals
<1>2. redPair => grandparent(n) # NULL
  <2>1. SUFFICES ASSUME redPair PROVE grandparent(n) # NULL
    OBVIOUS
  <2>2. Inserting /\ parent[n] # NULL /\ color[parent[n]] = "RED"
    BY <2>1 DEF redPair, Inserting
  <2>3. grandparent(n) \in linked
    BY <2>2, Family
  <2> QED
    BY <1>0, <2>3
<1>3. pc = "insert_case5" =>
        /\ parent[n] # NULL /\ grandparent(n) # NULL
        /\ sideOf(n) = sideOf(parent[n])
  BY <1>T DEF Colors
<1>4. pc = "maximum_node" => n # NULL /\ pred # NULL
  <2>1. SUFFICES ASSUME pc = "maximum_node" PROVE n # NULL /\ pred # NULL
    OBVIOUS
  <2>2. n \in linked
    BY <1>T, <2>1 DEF Locals
  <2>3. link[n]["left"] \in Pointer
    BY <1>T, <2>2 DEF TypeOK, Side
  <2>4. pred \in sub[link[n]["left"]] /\ sub[link[n]["left"]] \subseteq Node
    BY <1>T, <2>1, <2>3 DEF Searching, Shape
  <2> QED
    BY <1>0, <2>2, <2>4
<1>5. pc = "delete" /\ parent[n] # NULL => sibling(n) # NULL
  <2>1. pc = "delete" /\ parent[n] # NULL => sibling(n) \in linked
    BY Siblings DEF Short
  <2> QED
    BY <1>0, <2>1
<1>6. pc = "delete_case3" => parent[n] # NULL /\ sibling(n) # NULL
  BY <1>T DEF Deletion
<1>7. pc = "delete_case6" =>
        /\ parent[n] # NULL /\ sibling(n) # NULL
        /\ colorOf(outerNephew) = "RED"
  BY <1>T DEF Deletion
<1>8. pc = "replace" => doomed # NULL /\ ~hasBoth(doomed)
  BY <1>0, <1>T DEF Locals, Deleting
<1> QED
  BY <1>1, <1>2, <1>3, <1>4, <1>5, <1>6, <1>7, <1>8 DEF AssertionsHold

(* The rebalancing functions follow no null pointer, and the case          *)
(* distinctions of insert_case1 .. insert_case5 and delete_case1 ..        *)
(* delete_case6 leave to the last of them what its assertions say.         *)
THEOREM NoFailedAssertion == Spec => []AssertionsHold
<1>1. IInv => AssertionsHold
  BY InvAssertions DEF IInv
<1> QED
  BY <1>1, TreeInvariant, PTL

-----------------------------------------------------------------------------
(* The map that the tree holds.                                            *)

(* The entry of key k among the nodes of S.                                *)
entryOf(S, ky, vl, k) ==
  LET with == {x \in S : compareKey(ky[x]) = k}
  IN IF with = {} THEN None ELSE vl[CHOOSE x \in with : TRUE]

(* x is the only node of S with key k                                      *)
sole(S, ky, k, x) == {y \in S : compareKey(ky[y]) = k} = {x}

(* The entry of the only node of a key.                                    *)
LEMMA EntryFound ==
  ASSUME NEW S, NEW ky, NEW vl, NEW k, NEW x, sole(S, ky, k, x)
  PROVE  entryOf(S, ky, vl, k) = vl[x]
<1>1. (CHOOSE y \in {x} : TRUE) = x
  OBVIOUS
<1> QED
  BY <1>1 DEF entryOf, sole

(* A key without a node.                                                   *)
LEMMA EntryMissing ==
  ASSUME NEW S, NEW ky, NEW vl, NEW k, \A y \in S : compareKey(ky[y]) # k
  PROVE  entryOf(S, ky, vl, k) = None
<1>1. {y \in S : compareKey(ky[y]) = k} = {}
  OBVIOUS
<1> QED
  BY <1>1 DEF entryOf

(* The same nodes and entries for a key give the same result.              *)
LEMMA EntryKept ==
  ASSUME NEW S, NEW ky, NEW vl, NEW S2, NEW ky2, NEW vl2, NEW k,
         \A y : y \in S2 /\ compareKey(ky2[y]) = k <=> y \in S /\ compareKey(ky[y]) = k,
         \A y \in S : compareKey(ky[y]) = k => vl2[y] = vl[y]
  PROVE  entryOf(S2, ky2, vl2, k) = entryOf(S, ky, vl, k)
<1> DEFINE with == {y \in S : compareKey(ky[y]) = k}
           with2 == {y \in S2 : compareKey(ky2[y]) = k}
<1>1. with2 = with
  OBVIOUS
<1>2. with # {} => (CHOOSE y \in with : TRUE) \in with
  <2> HIDE DEF with
  <2> QED
    OBVIOUS
<1>3. \A y \in with : vl2[y] = vl[y]
  OBVIOUS
<1>4. /\ entryOf(S, ky, vl, k) = IF with = {} THEN None ELSE vl[CHOOSE y \in with : TRUE]
      /\ entryOf(S2, ky2, vl2, k) =
           IF with2 = {} THEN None ELSE vl2[CHOOSE y \in with2 : TRUE]
  BY DEF entryOf
<1> HIDE DEF with, with2
<1> QED
  BY <1>1, <1>2, <1>3, <1>4

(* found in terms of entryOf.                                              *)
LEMMA FoundEntries ==
  /\ found = [k \in Key |-> entryOf(linked \ {doomed}, key, value, k)]
  /\ found' = [k \in Key |-> entryOf(linked' \ {doomed'}, key', value', k)]
  BY DEF found, entryOf

(* The signed numbers that compare() looks at tell the same keys apart.    *)
LEMMA SameKeys ==
  \A a, b \in Nat : toInt(a) = toInt(b) <=> compareKey(a) = compareKey(b)
<1>1. ASSUME NEW a \in Nat
      PROVE  compareKey(a) \in Int /\ 0 <= compareKey(a) /\ compareKey(a) < Word32
  BY TreeAssumption DEF compareKey
<1>2. ASSUME NEW a \in Nat, NEW b \in Nat
      PROVE  toInt(a) = toInt(b) <=> compareKey(a) = compareKey(b)
  <2>1. PICK i \in Int : i = compareKey(a) /\ 0 <= i /\ i < Word32
    BY <1>1
  <2>2. PICK j \in Int : j = compareKey(b) /\ 0 <= j /\ j < Word32
    BY <1>1
  <2>3. PICK h \in Int : h = Word32 \div 2
    BY TreeAssumption
  <2>4. /\ toInt(a) = IF i < h THEN i ELSE i - Word32
        /\ toInt(b) = IF j < h THEN j ELSE j - Word32
    BY <2>1, <2>2, <2>3 DEF toInt
  <2>5. (IF i < h THEN i ELSE i - Word32) = (IF j < h THEN j ELSE j - Word32) <=> i = j
    BY <2>1, <2>2, <2>3, TreeAssumption
  <2> QED
    BY <2>1, <2>2, <2>4, <2>5
<1> QED
  BY <1>2

(* Keys of objects are numbers.                                            *)
LEMMA KeysNat ==
  ASSUME TypeOK
  PROVE  \A x \in Node : key[x] \in Nat
<1>1. key \in [Node -> Addr \cup {0}]
  BY DEF TypeOK
<1>2. \A a \in Addr \cup {0} : a \in Nat
  BY TreeAssumption
<1> QED
  BY <1>1, <1>2

(* What a search sees in the map.                                          *)
LEMMA FoundSame ==
  ASSUME TypeOK, Distinct, doomed = NULL, sought \in Addr,
         NEW k, k = compareKey(sought)
  PROVE  /\ k \in Key
         /\ \A x \in linked : same(x) <=> compareKey(key[x]) = k
         /\ \A x \in linked : same(x) => found[k] = value[x]
         /\ (\A x \in linked : ~same(x)) => found[k] = None
<1>0. linked \ {doomed} = linked /\ linked \subseteq Node
  BY TreeAssumption DEF TypeOK
<1>1. k \in Key
  BY DEF Key
<1>2. \A x \in linked : same(x) <=> compareKey(key[x]) = k
  BY <1>0, KeysNat, SameKeys, TreeAssumption DEF same
<1>3. found[k] = entryOf(linked, key, value, k)
  BY <1>0, <1>1, FoundEntries
<1>4. ASSUME NEW x \in linked, same(x)
      PROVE  found[k] = value[x]
  <2>1. \A y \in linked : same(y) => y = x
    BY <1>0, <1>4 DEF Distinct, same, keyAt
  <2>2. sole(linked, key, k, x)
    BY <1>2, <1>4, <2>1 DEF sole
  <2>3. entryOf(linked, key, value, k) = value[x]
    BY <2>2, EntryFound
  <2> QED
    BY <1>3, <2>3
<1>5. ASSUME \A x \in linked : ~same(x)
      PROVE  found[k] = None
  BY <1>2, <1>3, <1>5, EntryMissing
<1> QED
  BY <1>1, <1>2, <1>4, <1>5

(* The invariant says what a search finds.                                 *)
LEMMA InvSearch ==
  ASSUME NEW sub, NEW bh, Inv(sub, bh)
  PROVE  SearchFinds
<1>T. /\ TypeOK /\ ParentLinks /\ Shape(sub) /\ Ordered(sub) /\ Distinct
      /\ Searching(sub) /\ Locals
  BY DEF Inv
<1>k. PICK k : k = compareKey(sought)
  OBVIOUS
<1>s. ASSUME pc \in {"lookup_node", "place"}
      PROVE  /\ doomed = NULL /\ sought \in Addr /\ sub[NULL] = {}
             /\ \A x \in linked : same(x) => found[k] = value[x]
             /\ (\A x \in linked : ~same(x)) => found[k] = None
             /\ \A x \in linked : same(x) => x \in sub[n]
  <2>1. doomed = NULL /\ sought \in Addr
    BY <1>T, <1>s DEF Locals, Deleting
  <2>2. /\ \A x \in linked : same(x) => found[k] = value[x]
        /\ (\A x \in linked : ~same(x)) => found[k] = None
    BY <1>T, <1>k, <2>1, FoundSame
  <2> QED
    BY <1>T, <1>s, <2>1, <2>2 DEF Searching, Shape
<1>1. ASSUME pc = "lookup_node"
      PROVE  /\ n = NULL => found[k] = None
             /\ n # NULL /\ same(n) => found[k] = value[n]
  <2>1. n # NULL => n \in linked
    BY <1>T DEF Locals
  <2> QED
    BY <1>s, <1>1, <2>1
<1>2. ASSUME pc = "place"
      PROVE  /\ same(n) => found[k] = value[n]
             /\ ~same(n) /\ link[n][toward(n)] = NULL => found[k] = None
  <2>1. n \in linked
    BY <1>T, <1>2 DEF Locals
  <2>2. ASSUME ~same(n), link[n][toward(n)] = NULL, NEW x \in linked, same(x)
        PROVE  FALSE
    <3>1. x \in sub[n]
      BY <1>s, <1>2, <2>2
    <3>2. x \in sub[link[n][toward(n)]]
      BY <1>T, <1>s, <1>2, <2>1, <2>2, <3>1, DescentFinds
    <3> QED
      BY <1>s, <1>2, <2>2, <3>2
  <2> QED
    BY <1>s, <1>2, <2>1, <2>2
<1> QED
  BY <1>k, <1>1, <1>2 DEF SearchFinds

(* lookup_node ends at the entry of the key, or at a null pointer when     *)
(* there is none; rbtree_insert overwrites an entry of its key where there *)
(* is one and hangs the new node in only where there is none.  The search  *)
(* never leaves the half in which the key is, whatever rotations and       *)
(* deletions came before.                                                  *)
THEOREM SearchesFind == Spec => []SearchFinds
<1>1. IInv => SearchFinds
  BY InvSearch DEF IInv
<1> QED
  BY <1>1, TreeInvariant, PTL

-----------------------------------------------------------------------------
(* The steps that change the map.                                          *)

(* y gives its entry to n                                                  *)
taken(y) ==
  /\ y \in linked /\ n \in linked /\ doomed = NULL
  /\ linked' = linked /\ doomed' = y
  /\ key' = [key EXCEPT ![n] = key[y]] /\ value' = [value EXCEPT ![n] = value[y]]

(* The other steps leave keys, values and nodes alone.                     *)
LEMMA MapSteps ==
  ASSUME NEW sub, NEW bh, Inv(sub, bh), [Next]_vars
  PROVE  \/ \E e \in Entry : rbtree_insert(e)
         \/ insertKnown \/ insertLeaf \/ unlink
         \/ \E y \in linked : taken(y)
         \/ UNCHANGED <<key, value, linked, doomed>>
<1>L. TypeOK /\ ParentLinks /\ Shape(sub) /\ Locals /\ Searching(sub)
  BY DEF Inv
<1>0. NULL \notin linked
  BY <1>L, TreeAssumption DEF TypeOK
<1>1. CASE UNCHANGED vars
  BY <1>1 DEF vars, entries, locals
<1>2. ASSUME NEW a \in Addr, lookup_node(a)
      PROVE  UNCHANGED <<key, value, linked, doomed>>
  BY <1>2 DEF lookup_node, entries
<1>3. CASE rbtree_lookup
  BY <1>3, <1>L DEF rbtree_lookup, idle, entries, Locals, Deleting
<1>4. CASE rbtree_delete
  <2>1. n \in linked /\ doomed = NULL
    BY <1>4, <1>L DEF rbtree_delete, Locals, Deleting
  <2>2. CASE takeOut(n)
    <3>1. taken(n)
      BY <2>1, <2>2 DEF takeOut, taken
    <3> QED
      BY <2>1, <3>1
  <2>3. CASE hasBoth(n)
    BY <1>4, <2>3 DEF rbtree_delete, entries
  <2> QED
    BY <1>4, <2>2, <2>3 DEF rbtree_delete
<1>5. CASE Loops
  <2>1. CASE insertDescend \/ lookupDescend
    BY <2>1 DEF insertDescend, lookupDescend, entries
  <2>2. CASE maximum_node
    <3>1. CASE takeOut(pred)
      <4>1. pc = "maximum_node" /\ n \in linked /\ doomed = NULL
        BY <2>2, <1>L DEF maximum_node, Locals, Deleting
      <4>2. pred \in sub[link[n]["left"]]
        BY <4>1, <1>L DEF Searching
      <4>3. sub[link[n]["left"]] \subseteq sub[n] /\ sub[n] \subseteq linked
        BY <4>1, <1>L, Around DEF Side
      <4>4. pred \in linked
        BY <4>2, <4>3
      <4>5. taken(pred)
        BY <3>1, <4>1, <4>4 DEF takeOut, taken
      <4> QED
        BY <4>4, <4>5
    <3>2. CASE ~takeOut(pred)
      BY <2>2, <3>2 DEF maximum_node, entries
    <3> QED
      BY <3>1, <3>2
  <2> QED
    BY <1>5, <2>1, <2>2 DEF Loops
<1>6. CASE Rebalance
  <2>1. CASE insert_case1 \/ insert_case2 \/ insert_case5
    <3>1. doomed = NULL /\ doomed' = NULL
      BY <2>1, <1>L
         DEF insert_case1, insert_case2, insert_case5, idle, Locals, Deleting
    <3> QED
      BY <2>1, <3>1 DEF insert_case1, insert_case2, insert_case5, entries
  <2>2. CASE insert_case3 \/ insert_case4
    BY <2>2 DEF insert_case3, insert_case4, goOn, entries
  <2>3. CASE delete_case1 \/ delete_case2 \/ delete_case3
    BY <2>3 DEF delete_case1, delete_case2, delete_case3, goOn, entries
  <2>4. CASE delete_case4 \/ delete_case5 \/ delete_case6
    BY <2>4 DEF delete_case4, delete_case5, delete_case6, goOn, entries
  <2> QED
    BY <1>6, <2>1, <2>2, <2>3, <2>4 DEF Rebalance
<1> QED
  BY <1>1, <1>2, <1>3, <1>4, <1>5, <1>6 DEF Next

(* What rbtree_insert does to them.                                        *)
LEMMA InsertSteps ==
  ASSUME NEW e \in Entry, rbtree_insert(e)
  PROVE  \/ UNCHANGED <<key, value, linked, doomed>>
         \/ \E x \in Node \ linked :
              /\ key' = [key EXCEPT ![x] = e.ObjAddr] /\ value' = [value EXCEPT ![x] = e]
              /\ doomed' = doomed
              /\ \/ root # NULL /\ linked' = linked
                 \/ root = NULL /\ linked' = linked \cup {x}
<1>1. CASE UNCHANGED vars
  BY <1>1 DEF vars, entries, locals
<1>2. ASSUME NEW x \in Node \ linked,
             key' = [key EXCEPT ![x] = e.ObjAddr],
             value' = [value EXCEPT ![x] = e],
             IF root = NULL
             THEN /\ root' = x /\ linked' = linked \cup {x}
                  /\ pc' = "insert" /\ n' = x
                  /\ UNCHANGED <<sought, inserted>>
             ELSE /\ sought' = e.ObjAddr /\ inserted' = x
                  /\ pc' = "place" /\ n' = root
                  /\ UNCHANGED <<root, linked>>,
             UNCHANGED <<pred, doomed, child>>
      PROVE  \E z \in Node \ linked :
               /\ key' = [key EXCEPT ![z] = e.ObjAddr] /\ value' = [value EXCEPT ![z] = e]
               /\ doomed' = doomed
               /\ \/ root # NULL /\ linked' = linked
                  \/ root = NULL /\ linked' = linked \cup {z}
  BY <1>2
<1> QED
  BY <1>1, <1>2 DEF rbtree_insert

(* What is in the tree are the keys of objects, and finitely many.         *)
Stored == IsFiniteSet(linked) /\ \A x \in linked : key[x] \in Addr

(* Every step files keys of objects, one node at a time.                   *)
LEMMA NextStored == IInv /\ Stored /\ [Next]_vars => Stored'
<1> SUFFICES ASSUME NEW sub, NEW bh, Inv(sub, bh), Stored, [Next]_vars
             PROVE  Stored'
  BY DEF IInv
<1>T. /\ TypeOK /\ Locals /\ linked \subseteq Node
      /\ key \in [Node -> Addr \cup {0}] /\ \A x \in linked : key[x] \in Addr
  BY DEF Inv, TypeOK, Stored
<1>1. ASSUME NEW e \in Entry, rbtree_insert(e)
      PROVE  Stored'
  <2>1. e.ObjAddr \in Addr
    BY DEF Entry
  <2>2. CASE UNCHANGED <<key, value, linked, doomed>>
    BY <2>2 DEF Stored
  <2>3. ASSUME NEW x \in Node \ linked, key' = [key EXCEPT ![x] = e.ObjAddr],
               linked' = linked \/ linked' = linked \cup {x}
        PROVE  Stored'
    <3>1. IsFiniteSet(linked')
      BY <2>3, FS_AddElement DEF Stored
    <3>2. \A y \in linked \cup {x} : key'[y] \in Addr
      BY <1>T, <2>1, <2>3
    <3> QED
      BY <2>3, <3>1, <3>2 DEF Stored
  <2> QED
    BY <1>T, <1>1, <2>2, <2>3, InsertSteps
<1>2. CASE insertKnown
  BY <1>2 DEF insertKnown, Stored
<1>3. CASE insertLeaf
  <2>1. key' = key /\ linked' = linked \cup {inserted} /\ key[inserted] \in Addr
    BY <1>3, <1>T DEF insertLeaf, entries, Locals
  <2>2. IsFiniteSet(linked')
    BY <2>1, FS_AddElement DEF Stored
  <2> QED
    BY <1>T, <2>1, <2>2 DEF Stored
<1>4. CASE unlink
  <2>1. key' = key /\ linked' = linked \ {doomed}
    BY <1>4 DEF unlink, entries
  <2>2. IsFiniteSet(linked')
    BY <2>1, FS_RemoveElement DEF Stored
  <2> QED
    BY <1>T, <2>1, <2>2 DEF Stored
<1>5. ASSUME NEW y \in linked, taken(y)
      PROVE  Stored'
  <2>1. linked' = linked /\ key' = [key EXCEPT ![n] = key[y]] /\ n \in linked
    BY <1>5 DEF taken
  <2>2. \A x \in linked : key'[x] \in Addr
    BY <1>T, <2>1
  <2> QED
    BY <2>1, <2>2 DEF Stored
<1>6. CASE UNCHANGED <<key, value, linked, doomed>>
  BY <1>6 DEF Stored
<1> QED
  BY <1>1, <1>2, <1>3, <1>4, <1>5, <1>6, MapSteps

(* So this always holds.                                                   *)
LEMMA StoredAlways == Spec => []Stored
<1>1. Init => Stored
  BY FS_EmptySet DEF Init, Stored
<1>2. IInv /\ Stored /\ [Next]_vars => Stored'
  BY NextStored
<1> QED
  BY <1>1, <1>2, TreeInvariant, PTL DEF Spec

-----------------------------------------------------------------------------
(* The tree implements the map of EntryTree.                               *)

(* In terms of the nodes that hold the entries before and after a step.    *)
LEMMA SetEntry ==
  ASSUME NEW k0 \in Key, NEW e,
         entryOf(linked' \ {doomed'}, key', value', k0) = e,
         \A k \in Key \ {k0} :
           entryOf(linked' \ {doomed'}, key', value', k)
           = entryOf(linked \ {doomed}, key, value, k)
  PROVE  Entries!Set(k0, e)
<1>1. found'[k0] = e
  BY FoundEntries
<1>2. \A k \in Key \ {k0} : found'[k] = found[k]
  BY FoundEntries
<1> QED
  BY <1>1, <1>2 DEF Entries!Set

(* No change of keys, values and nodes, no change of the map.              *)
LEMMA SameMap ==
  ASSUME \A k \in Key : entryOf(linked' \ {doomed'}, key', value', k)
                        = entryOf(linked \ {doomed}, key, value, k)
  PROVE  found' = found
  BY FoundEntries

(* Keys of different nodes are different in the next state too.            *)
LEMMA NextDistinct ==
  ASSUME TypeOK', Distinct', NEW x \in linked' \ {doomed'}
  PROVE  sole(linked' \ {doomed'}, key', compareKey(key'[x]), x)
<1>1. \A y \in linked' : key'[y] \in Nat
  <2>1. key' \in [Node -> Addr \cup {0}] /\ linked' \subseteq Node
    BY DEF TypeOK
  <2>2. \A a \in Addr \cup {0} : a \in Nat
    BY TreeAssumption
  <2> QED
    BY <2>1, <2>2
<1>2. ASSUME NEW y \in linked' \ {doomed'}, compareKey(key'[y]) = compareKey(key'[x])
      PROVE  y = x
  <2>1. toInt(key'[y]) = toInt(key'[x])
    BY <1>1, <1>2, SameKeys
  <2> QED
    BY <2>1 DEF Distinct, keyAt
<1> QED
  BY <1>2 DEF sole

(* insertLeaf and the insertion into the empty tree                        *)
LEMMA AddEntry ==
  ASSUME TypeOK', Distinct', NULL \notin linked', doomed = NULL, doomed' = NULL,
         NEW x, x \notin linked, linked' = linked \cup {x},
         \A y \in linked : key'[y] = key[y] /\ value'[y] = value[y],
         key'[x] \in Addr
  PROVE  Entries!Set(compareKey(key'[x]), value'[x])
<1>k. PICK k0 : k0 = compareKey(key'[x])
  OBVIOUS
<1>0. linked \ {doomed} = linked /\ linked' \ {doomed'} = linked \cup {x} /\ k0 \in Key
  BY <1>k DEF Key
<1>1. sole(linked \cup {x}, key', k0, x)
  <2>1. x \in linked' \ {doomed'}
    BY <1>0
  <2>2. sole(linked' \ {doomed'}, key', compareKey(key'[x]), x)
    BY <2>1, NextDistinct
  <2> QED
    BY <1>0, <1>k, <2>2
<1>2. entryOf(linked \cup {x}, key', value', k0) = value'[x]
  BY <1>1, EntryFound
<1>3. ASSUME NEW k \in Key \ {k0}
      PROVE  entryOf(linked \cup {x}, key', value', k) = entryOf(linked, key, value, k)
  <2>1. \A y : y \in linked \cup {x} /\ compareKey(key'[y]) = k
               <=> y \in linked /\ compareKey(key[y]) = k
    BY <1>k, <1>3
  <2>2. \A y \in linked : compareKey(key[y]) = k => value'[y] = value[y]
    OBVIOUS
  <2> QED
    BY <2>1, <2>2, EntryKept
<1> QED
  BY <1>0, <1>k, <1>2, <1>3, SetEntry

(* The insertion of the first entry.                                       *)
LEMMA PutNew ==
  ASSUME NEW sub, NEW bh, Inv(sub, bh), TypeOK', Distinct',
         NEW e \in Entry, rbtree_insert(e)
  PROVE  Entries!Put(e) \/ found' = found
<1>0. /\ doomed = NULL /\ e.ObjAddr \in Addr /\ linked \subseteq Node
      /\ key \in [Node -> Addr \cup {0}] /\ value \in [Node -> Entry \cup {None}]
      /\ (root = NULL => linked = {}) /\ NULL \notin Node /\ linked' \subseteq Node
  BY TreeAssumption DEF Inv, TypeOK, Locals, Deleting, rbtree_insert, Entry, ParentLinks
<1>1. CASE UNCHANGED <<key, value, linked, doomed>>
  BY <1>1 DEF found
<1>2. ASSUME NEW x \in Node \ linked, key' = [key EXCEPT ![x] = e.ObjAddr],
             value' = [value EXCEPT ![x] = e], doomed' = doomed
      PROVE  /\ key'[x] = e.ObjAddr /\ value'[x] = e /\ doomed' = NULL
             /\ \A y \in linked : key'[y] = key[y] /\ value'[y] = value[y]
  BY <1>0, <1>2
<1>3. ASSUME NEW x \in Node \ linked, key' = [key EXCEPT ![x] = e.ObjAddr],
             value' = [value EXCEPT ![x] = e], doomed' = doomed,
             root # NULL, linked' = linked
      PROVE  found' = found
  <2>1. /\ doomed' = doomed
        /\ \A y \in linked : key'[y] = key[y] /\ value'[y] = value[y]
    BY <1>2, <1>3
  <2>2. ASSUME NEW k \in Key
        PROVE  entryOf(linked' \ {doomed'}, key', value', k)
               = entryOf(linked \ {doomed}, key, value, k)
    <3>1. \A y : y \in linked' \ {doomed'} /\ compareKey(key'[y]) = k
                 <=> y \in linked \ {doomed} /\ compareKey(key[y]) = k
      BY <1>3, <2>1
    <3>2. \A y \in linked \ {doomed} : compareKey(key[y]) = k => value'[y] = value[y]
      BY <2>1
    <3> QED
      BY <3>1, <3>2, EntryKept
  <2> QED
    BY <2>2, SameMap
<1>4. ASSUME NEW x \in Node \ linked, key' = [key EXCEPT ![x] = e.ObjAddr],
             value' = [value EXCEPT ![x] = e], doomed' = doomed,
             linked' = linked \cup {x}
      PROVE  Entries!Put(e)
  <2>1. /\ key'[x] = e.ObjAddr /\ value'[x] = e /\ doomed' = NULL
        /\ \A y \in linked : key'[y] = key[y] /\ value'[y] = value[y]
    BY <1>2, <1>4
  <2>2. Entries!Set(compareKey(key'[x]), value'[x])
    BY <1>0, <1>4, <2>1, AddEntry
  <2> QED
    BY <2>1, <2>2 DEF Entries!Put
<1> QED
  BY <1>1, <1>3, <1>4, InsertSteps

(* The insertion of an entry for a key in the tree.                        *)
LEMMA PutKnown ==
  ASSUME NEW sub, NEW bh, Inv(sub, bh), TypeOK', Distinct', insertKnown
  PROVE  \E e \in Entry : Entries!Put(e)
<1>e. PICK e : e = value[inserted]
  OBVIOUS
<1>k. PICK k0 : k0 = compareKey(sought)
  OBVIOUS
<1>T. TypeOK /\ Distinct /\ Locals
  BY DEF Inv
<1>0. /\ doomed = NULL /\ doomed' = NULL /\ n \in linked /\ sought \in Addr
      /\ e \in Entry /\ e.ObjAddr = sought /\ same(n)
      /\ linked' = linked /\ key' = key /\ value' = [value EXCEPT ![n] = e]
      /\ linked \subseteq Node /\ value \in [Node -> Entry \cup {None}]
      /\ NULL \notin linked
  BY <1>T, <1>e, TreeAssumption DEF TypeOK, Locals, Deleting, insertKnown, idle
<1>1. value'[n] = e /\ \A y \in linked \ {n} : value'[y] = value[y]
  BY <1>0
<1>2. k0 \in Key /\ compareKey(key[n]) = k0
  BY <1>T, <1>0, <1>k, FoundSame
<1>3. sole(linked, key', k0, n)
  <2>1. linked' \ {doomed'} = linked /\ n \in linked' \ {doomed'}
    BY <1>0
  <2>2. compareKey(key'[n]) = k0
    BY <1>0, <1>2
  <2>3. sole(linked' \ {doomed'}, key', compareKey(key'[n]), n)
    BY <2>1, NextDistinct
  <2> QED
    BY <2>1, <2>2, <2>3
<1>4. linked \ {doomed} = linked /\ linked' \ {doomed'} = linked
  BY <1>0
<1>5. entryOf(linked, key', value', k0) = e
  BY <1>1, <1>3, EntryFound
<1>6. ASSUME NEW k \in Key \ {k0}
      PROVE  entryOf(linked, key', value', k) = entryOf(linked, key, value, k)
  <2>1. \A y : y \in linked /\ compareKey(key'[y]) = k
               <=> y \in linked /\ compareKey(key[y]) = k
    BY <1>0
  <2>2. \A y \in linked : compareKey(key[y]) = k => value'[y] = value[y]
    BY <1>1, <1>2, <1>6
  <2> QED
    BY <2>1, <2>2, EntryKept
<1>7. Entries!Set(k0, e)
  BY <1>2, <1>4, <1>5, <1>6, SetEntry
<1> QED
  BY <1>0, <1>k, <1>7 DEF Entries!Put

(* The insertion of an entry for a new key.                                *)
LEMMA PutLeaf ==
  ASSUME NEW sub, NEW bh, Inv(sub, bh), TypeOK', Distinct', insertLeaf
  PROVE  \E e \in Entry : Entries!Put(e)
<1>i. PICK i : i = inserted
  OBVIOUS
<1>T. TypeOK /\ Locals
  BY DEF Inv
<1>0. /\ doomed = NULL /\ doomed' = NULL /\ sought \in Addr
      /\ i \in Node \ linked /\ key[i] = sought /\ value[i] \in Entry
      /\ value[i].ObjAddr = sought
      /\ linked' = linked \cup {i} /\ key' = key /\ value' = value
      /\ linked \subseteq Node /\ NULL \notin Node
  BY <1>T, <1>i, TreeAssumption DEF TypeOK, Locals, Deleting, insertLeaf, entries
<1>1. Entries!Set(compareKey(key'[i]), value'[i])
  <2>1. NULL \notin linked' /\ i \notin linked /\ key'[i] \in Addr
    BY <1>0
  <2>2. \A y \in linked : key'[y] = key[y] /\ value'[y] = value[y]
    BY <1>0
  <2> QED
    BY <1>0, <2>1, <2>2, AddEntry
<1>2. Entries!Put(value[i])
  BY <1>0, <1>1 DEF Entries!Put
<1> QED
  BY <1>0, <1>2

(* A deletion takes one entry away when the node is chosen.                *)
LEMMA DropTaken ==
  ASSUME NEW sub, NEW bh, Inv(sub, bh), Stored, NEW y \in linked, taken(y)
  PROVE  \E a \in Addr : Entries!Drop(a)
<1>t. PICK t : t = n
  OBVIOUS
<1>a. PICK a : a = key[t]
  OBVIOUS
<1>k. PICK k0 : k0 = compareKey(a)
  OBVIOUS
<1>T. TypeOK /\ Distinct
  BY DEF Inv
<1>0. /\ t \in linked /\ doomed = NULL /\ a \in Addr /\ k0 \in Key /\ k0 = compareKey(key[t])
      /\ linked \ {doomed} = linked /\ linked' \ {doomed'} = linked \ {y}
      /\ linked \subseteq Node
      /\ key' = [key EXCEPT ![t] = key[y]] /\ value' = [value EXCEPT ![t] = value[y]]
      /\ key \in [Node -> Addr \cup {0}] /\ value \in [Node -> Entry \cup {None}]
  BY <1>T, <1>t, <1>a, <1>k, TreeAssumption DEF taken, TypeOK, Stored, Key
<1>1. /\ key'[t] = key[y] /\ value'[t] = value[y]
      /\ \A z \in linked \ {t} : key'[z] = key[z] /\ value'[z] = value[z]
  BY <1>0
<1>2. \A u, v \in linked : compareKey(key[u]) = compareKey(key[v]) => u = v
  BY <1>T, <1>0, KeysNat, SameKeys DEF Distinct, keyAt
<1>3. entryOf(linked \ {y}, key', value', k0) = None
  <2>1. ASSUME NEW z \in linked \ {y}
        PROVE  compareKey(key'[z]) # k0
    BY <1>0, <1>1, <1>2
  <2> QED
    BY <2>1, EntryMissing
<1>4. ASSUME NEW k \in Key \ {k0}
      PROVE  entryOf(linked \ {y}, key', value', k) = entryOf(linked, key, value, k)
  <2>1. CASE k = compareKey(key[y])
    <3>1. y # t
      BY <1>0, <1>4, <2>1
    <3>2. sole(linked, key, k, y)
      BY <1>2, <2>1 DEF sole
    <3>3. {z \in linked \ {y} : compareKey(key'[z]) = k} = {t}
      BY <1>0, <1>1, <1>2, <2>1, <3>1
    <3>4. sole(linked \ {y}, key', k, t)
      BY <3>3 DEF sole
    <3>5. entryOf(linked \ {y}, key', value', k) = value'[t]
      BY <3>4, EntryFound
    <3>6. entryOf(linked, key, value, k) = value[y]
      BY <3>2, EntryFound
    <3> QED
      BY <1>1, <3>5, <3>6
  <2>2. CASE k # compareKey(key[y])
    <3>1. \A z : z \in linked \ {y} /\ compareKey(key'[z]) = k
                 <=> z \in linked /\ compareKey(key[z]) = k
      BY <1>0, <1>1, <1>4, <2>2
    <3>2. \A z \in linked : compareKey(key[z]) = k => value'[z] = value[z]
      BY <1>0, <1>1, <1>4
    <3> QED
      BY <3>1, <3>2, EntryKept
  <2> QED
    BY <2>1, <2>2
<1>5. Entries!Set(k0, None)
  BY <1>0, <1>3, <1>4, SetEntry
<1> QED
  BY <1>0, <1>k, <1>5 DEF Entries!Drop

(* Every step is one of the map, or leaves it alone.                       *)
LEMMA NextEntries ==
  IInv /\ IInv' /\ Stored /\ [Next]_vars => [Entries!MapNext]_found
<1> SUFFICES ASSUME NEW sub, NEW bh, Inv(sub, bh), IInv', Stored, [Next]_vars
             PROVE  Entries!MapNext \/ found' = found
  BY DEF IInv
<1>0. TypeOK' /\ Distinct'
  BY DEF IInv, Inv
<1>1. ASSUME NEW e \in Entry, rbtree_insert(e)
      PROVE  Entries!MapNext \/ found' = found
  BY <1>0, <1>1, PutNew DEF Entries!MapNext
<1>2. CASE insertKnown
  BY <1>0, <1>2, PutKnown DEF Entries!MapNext
<1>3. CASE insertLeaf
  BY <1>0, <1>3, PutLeaf DEF Entries!MapNext
<1>4. CASE unlink
  <2>1. /\ key' = key /\ value' = value /\ linked' = linked \ {doomed}
        /\ doomed' = NULL
    BY <1>4 DEF unlink, entries, idle
  <2>2. linked' \ {doomed'} = linked \ {doomed}
    BY <2>1, TreeAssumption DEF Inv, TypeOK
  <2>3. ASSUME NEW k \in Key
        PROVE  entryOf(linked' \ {doomed'}, key', value', k)
               = entryOf(linked \ {doomed}, key, value, k)
    BY <2>1, <2>2
  <2> QED
    BY <2>3, SameMap
<1>5. ASSUME NEW y \in linked, taken(y)
      PROVE  Entries!MapNext
  BY <1>5, DropTaken DEF Entries!MapNext
<1>6. CASE UNCHANGED <<key, value, linked, doomed>>
  BY <1>6 DEF found
<1> QED
  BY <1>1, <1>2, <1>3, <1>4, <1>5, <1>6, MapSteps

(* An empty tree is an empty map.                                          *)
LEMMA InitEntries == Init => Entries!MapInit
<1> SUFFICES ASSUME Init PROVE found = [k \in Key |-> None]
  BY DEF Entries!MapInit
<1>1. linked = {}
  BY DEF Init
<1>2. \A k \in Key : entryOf(linked \ {doomed}, key, value, k) = None
  BY <1>1, EntryMissing
<1> QED
  BY <1>2, FoundEntries

(* Whatever it rotates and recolors, the tree behaves as a map: an         *)
(* insertion sets the entry of one key, a deletion removes one key, also   *)
(* when it moves the predecessor's entry into the deleted node, and no     *)
(* other step changes what can be found.                                   *)
THEOREM TreeIsMap == Spec => ImplementsEntryTree
<1>1. Init => Entries!MapInit
  BY InitEntries
<1>2. IInv /\ IInv' /\ Stored /\ [Next]_vars => [Entries!MapNext]_found
  BY NextEntries
<1> QED
  BY <1>1, <1>2, TreeInvariant, StoredAlways, PTL
     DEF Spec, ImplementsEntryTree, Entries!MapSpec

-----------------------------------------------------------------------------
(* Balance.  below and blacks are recursive functions: that they are       *)
(* solutions of their equations follows from the existence of sub and bh,  *)
(* and that they agree with these from a node without a counterexample     *)
(* below it, which every nonempty set of nodes has.                        *)

(* Every nonempty set of nodes has a lowest one.                           *)
LEMMA LowestNode ==
  ASSUME TypeOK, ParentLinks, NEW sub, Shape(sub), IsFiniteSet(linked),
         NEW B, B \subseteq linked, B # {}
  PROVE  \E x \in B : \A d \in Side : link[x][d] \notin B
<1>t. PICK T : T = {sub[x] : x \in B}
  OBVIOUS
<1>r. PICK R : R = StrictSubsetOrdering(linked)
  OBVIOUS
<1>f. PICK F : F = SUBSET linked
  OBVIOUS
<1>1. \A x \in linked : sub[x] \subseteq linked /\ x \in sub[x]
  BY Around
<1>2. T \subseteq F /\ T # {}
  BY <1>t, <1>f, <1>1
<1>3. IsWellFoundedOn(R, F)
  BY <1>r, <1>f, FS_StrictSubsetOrderingWellFounded, FS_FiniteSubsetsOfFinite
<1>4. PICK m \in T : \A v \in T : <<v, m>> \notin R
  BY <1>2, <1>3, WFMin
<1>5. PICK x \in B : m = sub[x]
  BY <1>t
<1>6. ASSUME NEW d \in Side, link[x][d] \in B
      PROVE  FALSE
  <2>1. sub[link[x][d]] \subseteq sub[x] /\ x \notin sub[link[x][d]] /\ x \in sub[x]
    BY <1>1, <1>5, Below
  <2>2. sub[link[x][d]] \subseteq linked /\ sub[x] \subseteq linked
    BY <1>1, <1>5, <1>6
  <2>3. <<sub[link[x][d]], sub[x]>> \in R
    BY <1>r, <2>1, <2>2 DEF StrictSubsetOrdering
  <2>4. sub[link[x][d]] \in T
    BY <1>t, <1>6
  <2> QED
    BY <1>4, <1>5, <2>3, <2>4
<1> QED
  BY <1>6

(* below satisfies its recursive definition, as sub does.                  *)
LEMMA BelowDefined ==
  ASSUME TypeOK, ParentLinks, NEW sub, Shape(sub)
  PROVE  below = [y \in linked \cup {NULL} |->
                   IF y = NULL THEN {}
                   ELSE {y} \cup below[link[y]["left"]] \cup below[link[y]["right"]]]
<1> DEFINE next(f) == [y \in linked \cup {NULL} |->
                        IF y = NULL THEN {}
                        ELSE {y} \cup f[link[y]["left"]] \cup f[link[y]["right"]]]
<1>g. PICK g : g = [y \in linked \cup {NULL} |-> sub[y]]
  OBVIOUS
<1>1. ASSUME NEW y \in linked \cup {NULL}
      PROVE  g[y] = IF y = NULL THEN {}
                    ELSE {y} \cup g[link[y]["left"]] \cup g[link[y]["right"]]
  <2>1. CASE y = NULL
    BY <1>g, <2>1 DEF Shape
  <2>2. CASE y # NULL
    <3>1. link[y]["left"] \in linked \cup {NULL} /\ link[y]["right"] \in linked \cup {NULL}
      BY <2>2 DEF ParentLinks, Side
    <3>2. sub[y] = {y} \cup sub[link[y]["left"]] \cup sub[link[y]["right"]]
      BY <2>2 DEF Shape
    <3> QED
      BY <1>g, <2>2, <3>1, <3>2
  <2> QED
    BY <2>1, <2>2
<1>2. g = next(g)
  BY <1>g, <1>1
<1>3. below = CHOOSE f : f = next(f)
  BY DEF below
<1> HIDE DEF next
<1>4. below = next(below)
  BY <1>2, <1>3
<1> QED
  BY <1>4 DEF next

(* ... and is sub, since no lowest node can differ.                        *)
LEMMA BelowIsSub ==
  ASSUME TypeOK, ParentLinks, NEW sub, Shape(sub), IsFiniteSet(linked)
  PROVE  \A x \in linked \cup {NULL} : below[x] = sub[x]
<1>B. PICK B : B = {x \in linked : below[x] # sub[x]}
  OBVIOUS
<1>0. NULL \notin linked
  BY TreeAssumption DEF TypeOK
<1>1. below[NULL] = {} /\ sub[NULL] = {}
  BY BelowDefined DEF Shape
<1>2. ASSUME NEW x \in B, \A d \in Side : link[x][d] \notin B
      PROVE  FALSE
  <2>1. x \in linked /\ below[x] # sub[x]
    BY <1>B
  <2>2. \A d \in Side : link[x][d] \in linked \cup {NULL}
    BY <2>1 DEF ParentLinks
  <2>3. \A d \in Side : below[link[x][d]] = sub[link[x][d]]
    BY <1>B, <1>1, <1>2, <2>2
  <2>4. below[x] = {x} \cup below[link[x]["left"]] \cup below[link[x]["right"]]
    BY <1>0, <2>1, BelowDefined
  <2>5. sub[x] = {x} \cup sub[link[x]["left"]] \cup sub[link[x]["right"]]
    BY <2>1 DEF Shape
  <2> QED
    BY <2>1, <2>3, <2>4, <2>5 DEF Side
<1>3. B = {}
  BY <1>B, <1>2, LowestNode
<1> QED
  BY <1>B, <1>1, <1>3

(* black nodes from y down, y included                                     *)
blackHeight(bh, y) == bh[y] + (IF colorOf(y) = "BLACK" /\ y # NULL THEN 1 ELSE 0)

(* The black nodes of a node from those of its children.                   *)
LEMMA HeightStep ==
  ASSUME TypeOK, ParentLinks, NEW bh, Heights(bh), doomed = NULL, ~Short,
         NEW x \in linked
  PROVE  /\ bh[x] \in Nat
         /\ \A d \in Side : bh[x] = blackHeight(bh, link[x][d])
<1>1. x \in Pointer /\ x # NULL /\ NULL \notin linked /\ linked \subseteq Node
  BY TreeAssumption DEF TypeOK, Pointer
<1>2. bh[x] \in Nat
  BY <1>1 DEF Heights
<1>3. ASSUME NEW d \in Side
      PROVE  bh[x] = blackHeight(bh, link[x][d])
  <2>c. PICK c : c = link[x][d]
    OBVIOUS
  <2>1. c \in linked \cup {NULL} /\ bh[c] \in Nat
    BY <1>1, <2>c DEF ParentLinks, Heights, Pointer
  <2>2. bh[x] = bh[c] + weight(c, color, doomed) + deficit(c, shortAt)
    BY <2>c DEF Heights
  <2>3. deficit(c, shortAt) = 0
    BY DEF deficit, shortAt
  <2>4. weight(c, color, doomed) = IF colorOf(c) = "BLACK" /\ c # NULL THEN 1 ELSE 0
    BY <1>1, <2>1 DEF weight, colorOf, TypeOK
  <2>5. bh[x] = bh[c] + (IF colorOf(c) = "BLACK" /\ c # NULL THEN 1 ELSE 0)
    BY <2>1, <2>2, <2>3, <2>4
  <2> QED
    BY <2>c, <2>5 DEF blackHeight
<1> QED
  BY <1>2, <1>3

(* blacks satisfies its recursive definition, as bh does.                  *)
LEMMA BlacksDefined ==
  ASSUME TypeOK, ParentLinks, NEW bh, Heights(bh), doomed = NULL, ~Short
  PROVE  blacks = [y \in linked \cup {NULL} |->
                    IF y = NULL THEN {0}
                    ELSE {b + (IF color[y] = "BLACK" THEN 1 ELSE 0) :
                            b \in blacks[link[y]["left"]] \cup blacks[link[y]["right"]]}]
<1> DEFINE next(f) == [y \in linked \cup {NULL} |->
                        IF y = NULL THEN {0}
                        ELSE {b + (IF color[y] = "BLACK" THEN 1 ELSE 0) :
                                b \in f[link[y]["left"]] \cup f[link[y]["right"]]}]
<1>g. PICK g : g = [y \in linked \cup {NULL} |-> {blackHeight(bh, y)}]
  OBVIOUS
<1>1. ASSUME NEW y \in linked \cup {NULL}
      PROVE  g[y] = IF y = NULL THEN {0}
                    ELSE {b + (IF color[y] = "BLACK" THEN 1 ELSE 0) :
                            b \in g[link[y]["left"]] \cup g[link[y]["right"]]}
  <2>1. CASE y = NULL
    <3>1. blackHeight(bh, NULL) = 0
      BY DEF blackHeight, Heights
    <3> QED
      BY <1>g, <2>1, <3>1
  <2>2. CASE y # NULL
    <3>1. link[y]["left"] \in linked \cup {NULL} /\ link[y]["right"] \in linked \cup {NULL}
      BY <2>2 DEF ParentLinks, Side
    <3>2. /\ blackHeight(bh, link[y]["left"]) = bh[y]
          /\ blackHeight(bh, link[y]["right"]) = bh[y]
      BY <2>2, HeightStep DEF Side
    <3>3. g[link[y]["left"]] \cup g[link[y]["right"]] = {bh[y]}
      BY <1>g, <3>1, <3>2
    <3>4. blackHeight(bh, y) = bh[y] + (IF color[y] = "BLACK" THEN 1 ELSE 0)
      BY <2>2 DEF blackHeight, colorOf
    <3>5. g[y] = {bh[y] + (IF color[y] = "BLACK" THEN 1 ELSE 0)}
      BY <1>g, <3>4
    <3> QED
      BY <2>2, <3>3, <3>5
  <2> QED
    BY <2>1, <2>2
<1>2. g = next(g)
  BY <1>g, <1>1
<1>3. blacks = CHOOSE f : f = next(f)
  BY DEF blacks
<1> HIDE DEF next
<1>4. blacks = next(blacks)
  BY <1>2, <1>3
<1> QED
  BY <1>4 DEF next

(* ... and counts what bh counts.                                          *)
LEMMA BlacksIsHeight ==
  ASSUME TypeOK, ParentLinks, NEW sub, Shape(sub), NEW bh, Heights(bh),
         IsFiniteSet(linked), doomed = NULL, ~Short
  PROVE  \A x \in linked \cup {NULL} : blacks[x] = {blackHeight(bh, x)}
<1>B. PICK B : B = {x \in linked : blacks[x] # {blackHeight(bh, x)}}
  OBVIOUS
<1>0. NULL \notin linked
  BY TreeAssumption DEF TypeOK
<1>1. blacks[NULL] = {blackHeight(bh, NULL)}
  <2>1. blackHeight(bh, NULL) = 0
    BY DEF blackHeight, Heights
  <2>2. blacks[NULL] = {0}
    BY BlacksDefined
  <2> QED
    BY <2>1, <2>2
<1>2. ASSUME NEW x \in B, \A d \in Side : link[x][d] \notin B
      PROVE  FALSE
  <2>1. x \in linked /\ blacks[x] # {blackHeight(bh, x)}
    BY <1>B
  <2>2. \A d \in Side : link[x][d] \in linked \cup {NULL}
    BY <2>1 DEF ParentLinks
  <2>3. \A d \in Side : blacks[link[x][d]] = {bh[x]}
    <3>1. \A d \in Side : blacks[link[x][d]] = {blackHeight(bh, link[x][d])}
      BY <1>B, <1>1, <1>2, <2>2
    <3>2. \A d \in Side : blackHeight(bh, link[x][d]) = bh[x]
      BY <2>1, HeightStep
    <3> QED
      BY <3>1, <3>2
  <2>4. blacks[x] = {b + (IF color[x] = "BLACK" THEN 1 ELSE 0) :
                       b \in blacks[link[x]["left"]] \cup blacks[link[x]["right"]]}
    BY <1>0, <2>1, BlacksDefined
  <2>5. blacks[link[x]["left"]] \cup blacks[link[x]["right"]] = {bh[x]}
    BY <2>3 DEF Side
  <2>6. blackHeight(bh, x) = bh[x] + (IF color[x] = "BLACK" THEN 1 ELSE 0)
    BY <1>0, <2>1 DEF blackHeight, colorOf
  <2>7. blacks[x] = {bh[x] + (IF color[x] = "BLACK" THEN 1 ELSE 0)}
    BY <2>4, <2>5
  <2> QED
    BY <2>1, <2>6, <2>7
<1>3. B = {}
  BY <1>B, <1>2, LowestNode
<1> QED
  BY <1>B, <1>1, <1>3

(* The invariant says what Balanced says.                                  *)
LEMMA InvBalanced ==
  ASSUME NEW sub, NEW bh, Inv(sub, bh), IsFiniteSet(linked)
  PROVE  Balanced
<1> SUFFICES ASSUME pc = "idle"
             PROVE  /\ colorOf(root) = "BLACK"
                    /\ \A x \in linked, d \in Side :
                         color[x] = "RED" => colorOf(link[x][d]) = "BLACK"
                    /\ Cardinality(blacks[root]) = 1
                    /\ below[root] = linked
  BY DEF Balanced
<1>T. TypeOK /\ ParentLinks /\ Shape(sub) /\ Heights(bh) /\ Colors /\ Locals
  BY DEF Inv
<1>0. /\ doomed = NULL /\ ~Short /\ ~Inserting /\ NULL \notin linked
      /\ root \in linked \cup {NULL} /\ linked \subseteq Node
  BY <1>T, TreeAssumption DEF Locals, Deleting, Short, Inserting, ParentLinks, TypeOK
<1>1. colorOf(root) = "BLACK"
  <2>1. root # NULL => colorOf(root) # "RED"
    BY <1>T, <1>0 DEF Colors
  <2> QED
    BY <1>T, <1>0, <2>1 DEF colorOf, TypeOK
<1>2. ASSUME NEW x \in linked, NEW d \in Side, color[x] = "RED"
      PROVE  colorOf(link[x][d]) = "BLACK"
  <2>1. link[x][d] # NULL => colorOf(link[x][d]) = "BLACK"
    BY <1>T, <1>0, <1>2 DEF Colors, colorOf
  <2> QED
    BY <2>1 DEF colorOf
<1>3. Cardinality(blacks[root]) = 1
  <2>1. blacks[root] = {blackHeight(bh, root)}
    BY <1>T, <1>0, BlacksIsHeight
  <2> QED
    BY <2>1, FS_Singleton
<1>4. below[root] = linked
  BY <1>T, <1>0, BelowIsSub DEF Shape
<1> QED
  BY <1>1, <1>2, <1>3, <1>4

(* Whenever an operation is over, the root is black, no red node has a red *)
(* child, every path from the root down has as many black nodes, and the   *)
(* tree reaches exactly the nodes that are not free: the cases of          *)
(* insert_case1 .. insert_case5 and delete_case1 .. delete_case6 leave     *)
(* nothing to repair, for trees of any size.                               *)
THEOREM TreeBalanced == Spec => []Balanced
<1>1. IInv /\ Stored => Balanced
  BY InvBalanced DEF IInv, Stored
<1> QED
  BY <1>1, TreeInvariant, StoredAlways, PTL

=============================================================================
