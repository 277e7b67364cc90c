------------------------------- MODULE RBTree ------------------------------
(***************************************************************************)
(* The red-black tree behind a slot of the object type map                 *)
(* (compiler-rt/lib/hextype/hextype_rbtree.cc), pointer by pointer.        *)
(*                                                                         *)
(* A field of the nodes is a function on Node; link[x].left and            *)
(* link[x].right are the children of x.  An iteration of a search loop is  *)
(* a step.  The rebalancing functions insert_case1 .. insert_case5 and     *)
(* delete_case1 .. delete_case6 call each other in tail position.  Each is *)
(* an action, enabled when the functions before it pass the call on; left  *)
(* and right are merged where the code has two mirrored branches.          *)
(***************************************************************************)
EXTENDS Integers, FiniteSets

CONSTANTS
  Node,        \* memory for nodes
  NULL,        \* the null pointer
  Addr,        \* addresses of objects, the keys of the tree
  FakeVPtr,    \* fake vpointers
  Word32,      \* size of a 32-bit word (2^32 in the code)
  None         \* no entry, no address

ASSUME TreeAssumption ==
  /\ Addr \subseteq Nat
  /\ Word32 \in Nat \ {0, 1} /\ Word32 % 2 = 0
  /\ NULL \notin Node

VARIABLES
  root,        \* t->root
  link,        \* left and right of every node
  parent,      \* parent of every node
  color,       \* color of every node
  key,         \* key of every node
  value,       \* value of every node
  linked,      \* nodes that were put into the tree and have not been freed
  pc,          \* the operation in progress
  sought,      \* the key a search loop looks for
  inserted,    \* inserted_node while its place is searched for
  n,           \* the loop variable n, and the node of the rebalancing
  pred,        \* how far maximum_node has come
  doomed,      \* the node that rbtree_delete unlinks and frees
  child        \* what takes its place

pointers == <<root, link, parent>>
entries == <<key, value>>
locals == <<sought, inserted, n, pred, doomed, child>>
vars == <<pointers, color, entries, linked, pc, locals>>

-----------------------------------------------------------------------------
(* Keys and entries.                                                       *)

compareKey(a) == a % Word32

Key == {compareKey(a) : a \in Addr}

(* (int)(size_t)key: the low word, read as a signed number                 *)
toInt(a) ==
  LET k == compareKey(a) IN IF k < Word32 \div 2 THEN k ELSE k - Word32

Entry == [ObjAddr : Addr, FakeVPointer : FakeVPtr]

(* compare(sought, key[x])                                                 *)
same(x) == toInt(sought) = toInt(key[x])
toward(x) == IF toInt(sought) < toInt(key[x]) THEN "left" ELSE "right"

-----------------------------------------------------------------------------
(* The neighbours of a node, and the changes of pointers.                  *)

Side == {"left", "right"}
opposite(d) == IF d = "left" THEN "right" ELSE "left"

colorOf(x) == IF x = NULL THEN "BLACK" ELSE color[x]

sideOf(x) == IF link[parent[x]]["left"] = x THEN "left" ELSE "right"
sibling(x) == link[parent[x]][opposite(sideOf(x))]
grandparent(x) == parent[parent[x]]
uncle(x) == sibling(parent[x])

(* replace_node: what the three kinds of pointers are when new has taken   *)
(* the place of old.                                                       *)
replaceRoot(old, new) == IF parent[old] = NULL THEN new ELSE root

replaceLink(old, new) ==
  IF parent[old] = NULL THEN link
  ELSE [link EXCEPT ![parent[old]][sideOf(old)] = new]

replaceParent(old, new) ==
  IF new = NULL THEN parent ELSE [parent EXCEPT ![new] = parent[old]]

replace_node(old, new) ==
  /\ root' = replaceRoot(old, new)
  /\ link' = replaceLink(old, new)
  /\ parent' = replaceParent(old, new)

(* A rotation that leaves the moved subtree's parent pointer behind.       *)
rotateStale(x, d) ==
  LET r == link[x][opposite(d)]
  IN /\ root' = replaceRoot(x, r)
     /\ link' = [replaceLink(x, r) EXCEPT ![x][opposite(d)] = link[r][d],
                                          ![r][d] = x]
     /\ parent' = [replaceParent(x, r) EXCEPT ![x] = r]

(* rotate_left is rotate(x, "left"), rotate_right the other                *)
rotate(x, d) ==
  LET r == link[x][opposite(d)]
      m == link[r][d]
      moved == IF m = NULL THEN replaceParent(x, r)
               ELSE [replaceParent(x, r) EXCEPT ![m] = x]
  IN /\ root' = replaceRoot(x, r)
     /\ link' = [replaceLink(x, r) EXCEPT ![x][opposite(d)] = m, ![r][d] = x]
     /\ parent' = [moved EXCEPT ![x] = r]

-----------------------------------------------------------------------------
(* State.                                                                  *)

Pointer == Node \cup {NULL}

TypeOK ==
  /\ root \in Pointer
  /\ link \in [Node -> [Side -> Pointer]] /\ parent \in [Node -> Pointer]
  /\ color \in [Node -> {"RED", "BLACK"}]
  /\ key \in [Node -> Addr \cup {0}] /\ value \in [Node -> Entry \cup {None}]
  /\ linked \subseteq Node
  /\ pc \in {"idle", "place", "insert", "insert_case5", "lookup_node",
             "maximum_node", "delete", "delete_case3", "delete_case6",
             "replace"}
  /\ sought \in Addr \cup {None}
  /\ {inserted, n, pred, doomed, child} \subseteq Pointer

Init ==
  /\ root = NULL
  /\ link = [x \in Node |-> [d \in Side |-> NULL]]
  /\ parent = [x \in Node |-> NULL]
  /\ color = [x \in Node |-> "RED"]
  /\ key = [x \in Node |-> 0] /\ value = [x \in Node |-> None]
  /\ linked = {}
  /\ pc = "idle"
  /\ sought = None
  /\ inserted = NULL /\ n = NULL /\ pred = NULL /\ doomed = NULL /\ child = NULL

idle ==
  /\ pc' = "idle" /\ sought' = None
  /\ inserted' = NULL /\ n' = NULL /\ pred' = NULL
  /\ doomed' = NULL /\ child' = NULL

(* the rebalancing goes on at x, as step                                   *)
goOn(step, x) ==
  /\ pc' = step /\ n' = x
  /\ UNCHANGED <<sought, inserted, pred, doomed, child>>

-----------------------------------------------------------------------------
(* Insertion.                                                              *)

(* new_node and the case of the empty tree.  Without memory nothing        *)
(* happens.                                                                *)
rbtree_insert(e) ==
  /\ pc = "idle"
  /\ \/ UNCHANGED vars
     \/ \E x \in Node \ linked :
          /\ link' = [link EXCEPT ![x] = [d \in Side |-> NULL]]
          /\ parent' = [parent EXCEPT ![x] = NULL]
          /\ color' = [color EXCEPT ![x] = "RED"]
          /\ key' = [key EXCEPT ![x] = e.ObjAddr]
          /\ value' = [value EXCEPT ![x] = e]
          /\ IF root = NULL
             THEN /\ root' = x /\ linked' = linked \cup {x}
                  /\ pc' = "insert" /\ n' = x
                  /\ UNCHANGED <<sought, inserted>>
             ELSE /\ sought' = e.ObjAddr /\ inserted' = x
                  /\ pc' = "place" /\ n' = root
                  /\ UNCHANGED <<root, linked>>
          /\ UNCHANGED <<pred, doomed, child>>

(* For a key in the tree only the value is replaced: the new node is lost. *)
insertKnown ==
  /\ pc = "place" /\ same(n)
  /\ value' = [value EXCEPT ![n] = value[inserted]]
  /\ idle
  /\ UNCHANGED <<pointers, color, key, linked>>

insertDescend ==
  /\ pc = "place" /\ ~same(n) /\ link[n][toward(n)] # NULL
  /\ n' = link[n][toward(n)]
  /\ UNCHANGED <<pointers, color, entries, linked, pc, sought, inserted, pred,
                 doomed, child>>

insertLeaf ==
  /\ pc = "place" /\ ~same(n) /\ link[n][toward(n)] = NULL
  /\ link' = [link EXCEPT ![n][toward(n)] = inserted]
  /\ parent' = [parent EXCEPT ![inserted] = n]
  /\ linked' = linked \cup {inserted}
  /\ pc' = "insert" /\ n' = inserted
  /\ sought' = None /\ inserted' = NULL
  /\ UNCHANGED <<root, color, entries, pred, doomed, child>>

insert_case1 ==
  /\ pc = "insert" /\ parent[n] = NULL
  /\ color' = [color EXCEPT ![n] = "BLACK"]
  /\ idle
  /\ UNCHANGED <<pointers, entries, linked>>

insert_case2 ==
  /\ pc = "insert" /\ parent[n] # NULL /\ color[parent[n]] = "BLACK"
  /\ idle
  /\ UNCHANGED <<pointers, color, entries, linked>>

(* what insert_case2 passes on: n and its parent are red                   *)
redPair == pc = "insert" /\ parent[n] # NULL /\ color[parent[n]] = "RED"

insert_case3 ==
  /\ redPair /\ colorOf(uncle(n)) = "RED"
  /\ color' = [color EXCEPT ![parent[n]] = "BLACK", ![uncle(n)] = "BLACK",
                            ![grandparent(n)] = "RED"]
  /\ goOn("insert", grandparent(n))
  /\ UNCHANGED <<pointers, entries, linked>>

(* An inner grandchild is first turned into an outer one.                  *)
insert_case4 ==
  /\ redPair /\ colorOf(uncle(n)) = "BLACK"
  /\ IF sideOf(n) # sideOf(parent[n])
     THEN /\ rotate(parent[n], sideOf(parent[n]))
          /\ goOn("insert_case5", parent[n])
     ELSE /\ goOn("insert_case5", n)
          /\ UNCHANGED pointers
  /\ UNCHANGED <<color, entries, linked>>

insert_case5 ==
  /\ pc = "insert_case5"
  /\ color' = [color EXCEPT ![parent[n]] = "BLACK", ![grandparent(n)] = "RED"]
  /\ rotate(grandparent(n), opposite(sideOf(n)))
  /\ idle
  /\ UNCHANGED <<entries, linked>>

-----------------------------------------------------------------------------
(* The search of rbtree_lookup and rbtree_delete.                          *)

(* The key is passed as the int that it is compared as.                    *)
lookup_nodeInt(a) ==
  /\ pc = "idle"
  /\ pc' = "lookup_node" /\ sought' = toInt(a) /\ n' = root
  /\ UNCHANGED <<pointers, color, entries, linked, inserted, pred, doomed,
                 child>>

lookup_node(a) ==
  /\ pc = "idle"
  /\ pc' = "lookup_node" /\ sought' = a /\ n' = root
  /\ UNCHANGED <<pointers, color, entries, linked, inserted, pred, doomed,
                 child>>

(* The search compares unsigned words, but insertions compare signed ones. *)
lookupDescendUnsigned ==
  /\ pc = "lookup_node" /\ n # NULL /\ ~same(n)
  /\ n' = link[n][IF compareKey(sought) < compareKey(key[n])
                  THEN "left" ELSE "right"]
  /\ UNCHANGED <<pointers, color, entries, linked, pc, sought, inserted, pred,
                 doomed, child>>

lookupDescend ==
  /\ pc = "lookup_node" /\ n # NULL /\ ~same(n)
  /\ n' = link[n][toward(n)]
  /\ UNCHANGED <<pointers, color, entries, linked, pc, sought, inserted, pred,
                 doomed, child>>

(* The value of n is returned; rbtree_delete finds no such key.            *)
rbtree_lookup ==
  /\ pc = "lookup_node" /\ (n # NULL => same(n))
  /\ idle
  /\ UNCHANGED <<pointers, color, entries, linked>>

-----------------------------------------------------------------------------
(* Deletion.                                                               *)

hasBoth(x) == link[x]["left"] # NULL /\ link[x]["right"] # NULL

childOf(x) ==
  IF link[x]["right"] = NULL THEN link[x]["left"] ELSE link[x]["right"]

(* The predecessor's node is unlinked in place of a node with two          *)
(* children, but its value is not copied.                                  *)
takeOutKeyOnly(y) ==
  /\ key' = [key EXCEPT ![n] = key[y]]
  /\ color' = IF color[y] = "BLACK"
              THEN [color EXCEPT ![y] = colorOf(childOf(y))] ELSE color
  /\ pc' = IF color[y] = "BLACK" THEN "delete" ELSE "replace"
  /\ n' = y /\ doomed' = y /\ child' = childOf(y)
  /\ pred' = NULL /\ sought' = None
  /\ UNCHANGED <<pointers, value, linked, inserted>>

(* The key to be deleted is that of n; y is n, or its predecessor whose    *)
(* key and value n takes over.  y is unlinked and has one child at most.   *)
takeOut(y) ==
  /\ key' = [key EXCEPT ![n] = key[y]]
  /\ value' = [value EXCEPT ![n] = value[y]]
  /\ color' = IF color[y] = "BLACK"
              THEN [color EXCEPT ![y] = colorOf(childOf(y))] ELSE color
  /\ pc' = IF color[y] = "BLACK" THEN "delete" ELSE "replace"
  /\ n' = y /\ doomed' = y /\ child' = childOf(y)
  /\ pred' = NULL /\ sought' = None
  /\ UNCHANGED <<pointers, linked, inserted>>

rbtree_delete ==
  /\ pc = "lookup_node" /\ n # NULL /\ same(n)
  /\ \/ ~hasBoth(n) /\ takeOut(n)
     \/ /\ hasBoth(n)
        /\ pc' = "maximum_node" /\ pred' = link[n]["left"]
        /\ UNCHANGED <<pointers, color, entries, linked, sought, inserted, n,
                       doomed, child>>

maximum_node ==
  /\ pc = "maximum_node"
  /\ \/ link[pred]["right"] = NULL /\ takeOut(pred)
     \/ /\ link[pred]["right"] # NULL
        /\ pred' = link[pred]["right"]
        /\ UNCHANGED <<pointers, color, entries, linked, pc, sought, inserted,
                       n, doomed, child>>

delete_case1 ==
  /\ pc = "delete" /\ parent[n] = NULL
  /\ goOn("replace", n)
  /\ UNCHANGED <<pointers, color, entries, linked>>

delete_case2 ==
  /\ pc = "delete" /\ parent[n] # NULL
  /\ IF colorOf(sibling(n)) = "RED"
     THEN /\ color' = [color EXCEPT ![parent[n]] = "RED",
                                    ![sibling(n)] = "BLACK"]
          /\ rotate(parent[n], sideOf(n))
     ELSE UNCHANGED <<pointers, color>>
  /\ goOn("delete_case3", n)
  /\ UNCHANGED <<entries, linked>>

(* the sibling and both its children are black                             *)
blackSibling ==
  /\ colorOf(sibling(n)) = "BLACK"
  /\ \A d \in Side : colorOf(link[sibling(n)][d]) = "BLACK"

delete_case3 ==
  /\ pc = "delete_case3" /\ color[parent[n]] = "BLACK" /\ blackSibling
  /\ color' = [color EXCEPT ![sibling(n)] = "RED"]
  /\ goOn("delete", parent[n])
  /\ UNCHANGED <<pointers, entries, linked>>

delete_case4 ==
  /\ pc = "delete_case3" /\ color[parent[n]] = "RED" /\ blackSibling
  /\ color' = [color EXCEPT ![sibling(n)] = "RED", ![parent[n]] = "BLACK"]
  /\ goOn("replace", n)
  /\ UNCHANGED <<pointers, entries, linked>>

(* The red nephew is not moved to the outside.                             *)
delete_case5NoTurn ==
  /\ pc = "delete_case3" /\ ~blackSibling
  /\ goOn("delete_case6", n)
  /\ UNCHANGED <<pointers, color, entries, linked>>

(* The sibling's red child is moved to the outside.                        *)
delete_case5 ==
  /\ pc = "delete_case3" /\ ~blackSibling
  /\ LET s == sibling(n)
         d == sideOf(n)
     IN IF /\ colorOf(s) = "BLACK"
           /\ colorOf(link[s][d]) = "RED"
           /\ colorOf(link[s][opposite(d)]) = "BLACK"
        THEN /\ color' = [color EXCEPT ![s] = "RED", ![link[s][d]] = "BLACK"]
             /\ rotate(s, opposite(d))
        ELSE UNCHANGED <<pointers, color>>
  /\ goOn("delete_case6", n)
  /\ UNCHANGED <<entries, linked>>

(* the sibling's child on the far side from n                              *)
outerNephew == link[sibling(n)][opposite(sideOf(n))]

(* The red nephew is left red.                                             *)
delete_case6RedNephew ==
  /\ pc = "delete_case6"
  /\ color' = [color EXCEPT ![sibling(n)] = color[parent[n]],
                            ![parent[n]] = "BLACK"]
  /\ rotate(parent[n], sideOf(n))
  /\ goOn("replace", n)
  /\ UNCHANGED <<entries, linked>>

delete_case6 ==
  /\ pc = "delete_case6"
  /\ color' = [color EXCEPT ![sibling(n)] = color[parent[n]],
                            ![parent[n]] = "BLACK", ![outerNephew] = "BLACK"]
  /\ rotate(parent[n], sideOf(n))
  /\ goOn("replace", n)
  /\ UNCHANGED <<entries, linked>>

(* The end of rbtree_delete, after the rebalancing: the child takes the    *)
(* doomed node's place, and is black if that is the root.                  *)
unlink ==
  /\ pc = "replace"
  /\ replace_node(doomed, child)
  /\ color' = IF parent[doomed] = NULL /\ child # NULL
              THEN [color EXCEPT ![child] = "BLACK"] ELSE color
  /\ linked' = linked \ {doomed}
  /\ idle
  /\ UNCHANGED entries

-----------------------------------------------------------------------------
Loops == insertDescend \/ lookupDescend \/ maximum_node

Rebalance ==
  \/ insert_case1 \/ insert_case2 \/ insert_case3 \/ insert_case4
  \/ insert_case5
  \/ delete_case1 \/ delete_case2 \/ delete_case3 \/ delete_case4
  \/ delete_case5 \/ delete_case6

Next ==
  \/ \E e \in Entry : rbtree_insert(e)
  \/ \E a \in Addr : lookup_node(a)
  \/ insertKnown \/ insertLeaf \/ rbtree_lookup \/ rbtree_delete \/ unlink
  \/ Loops \/ Rebalance

Spec == Init /\ [][Next]_vars

-----------------------------------------------------------------------------
(* Properties.                                                             *)

(* Parent pointers agree with child pointers in the middle of an operation *)
(* too, whatever has been rotated: the rebalancing walks up by them.  No   *)
(* pointer leads to a node that has been freed.                            *)
ParentLinks ==
  /\ IF linked = {} THEN root = NULL ELSE root \in linked /\ parent[root] = NULL
  /\ \A x \in linked, d \in Side :
       link[x][d] # NULL => link[x][d] \in linked /\ parent[link[x][d]] = x
  /\ \A x \in linked \ {root} :
       parent[x] \in linked /\ \E d \in Side : link[parent[x]][d] = x

(* the nodes below y                                                       *)
below[y \in linked \cup {NULL}] ==
  IF y = NULL THEN {}
  ELSE {y} \cup below[link[y]["left"]] \cup below[link[y]["right"]]

(* number of black nodes from y down to a leaf, along any path             *)
blacks[y \in linked \cup {NULL}] ==
  IF y = NULL THEN {0}
  ELSE {b + (IF color[y] = "BLACK" THEN 1 ELSE 0) :
          b \in blacks[link[y]["left"]] \cup blacks[link[y]["right"]]}

(* Between operations the tree is balanced: no red node has a red child    *)
(* and every path has as many black nodes, so lookups stay logarithmic.    *)
(* Every node that has not been freed is in the tree.                      *)
Balanced ==
  pc = "idle" =>
    /\ colorOf(root) = "BLACK"
    /\ \A x \in linked, d \in Side :
         color[x] = "RED" => colorOf(link[x][d]) = "BLACK"
    /\ Cardinality(blacks[root]) = 1
    /\ below[root] = linked

(* No function follows a null pointer or fails an assertion: the cases     *)
(* that delete_case1 .. delete_case5 leave to delete_case6 are those in    *)
(* which the sibling exists and its outer child is red.                    *)
AssertionsHold ==
  /\ pc \in {"place", "insert", "insert_case5", "delete", "delete_case3",
             "delete_case6", "replace"} => n # NULL
  /\ redPair => grandparent(n) # NULL
  /\ pc = "insert_case5" =>
       /\ parent[n] # NULL /\ grandparent(n) # NULL
       /\ sideOf(n) = sideOf(parent[n])
  /\ pc = "maximum_node" => n # NULL /\ pred # NULL
  /\ pc = "delete" /\ parent[n] # NULL => sibling(n) # NULL
  /\ pc = "delete_case3" => parent[n] # NULL /\ sibling(n) # NULL
  /\ pc = "delete_case6" =>
       /\ parent[n] # NULL /\ sibling(n) # NULL
       /\ colorOf(outerNephew) = "RED"
  /\ pc = "replace" => doomed # NULL /\ ~hasBoth(doomed)

(* The map that the tree holds: its nodes, without the one being deleted.  *)
found ==
  [k \in Key |->
     LET with == {x \in linked \ {doomed} : compareKey(key[x]) = k}
     IN IF with = {} THEN None ELSE value[CHOOSE x \in with : TRUE]]

(* A search ends with the entry of the key, or where there is none; an     *)
(* insertion overwrites the entry of the key or adds one where there is    *)
(* none.                                                                   *)
SearchFinds ==
  /\ pc = "lookup_node" =>
       /\ n = NULL => found[compareKey(sought)] = None
       /\ n # NULL /\ same(n) => found[compareKey(sought)] = value[n]
  /\ pc = "place" =>
       /\ same(n) => found[compareKey(sought)] = value[n]
       /\ ~same(n) /\ link[n][toward(n)] = NULL =>
            found[compareKey(sought)] = None

(* The tree implements a map from keys to entries: a rotation changes no   *)
(* entry, and a deletion takes away one key only, even when it moves       *)
(* another's entry to its node.                                            *)
Entries == INSTANCE EntryTree WITH keyOf <- compareKey, map <- found

ImplementsEntryTree == Entries!MapSpec
=============================================================================
