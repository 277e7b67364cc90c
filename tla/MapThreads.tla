----------------------------- MODULE MapThreads -----------------------------
(***************************************************************************)
(* Threads that use the object type map of the CastSan runtime             *)
(* (compiler-rt/lib/hextype/hextype.cc), which takes no lock: every read   *)
(* or write of a slot that another thread can see is a step of its own.    *)
(*                                                                         *)
(* A slot's tree is a map from addresses to what the map records of them   *)
(* (ObjTypeMap and RBTree show that one thread may see it so).  A walk     *)
(* through a tree begins in one step and takes effect in a later one; two  *)
(* walks that overlap, one of them writing, leave a tree of which nothing  *)
(* is known any more.  Addresses count granules of the hash.               *)
(***************************************************************************)
EXTENDS Integers

CONSTANTS
  Thread,
  Addr,        \* addresses at which the program creates objects
  Heap,        \* those of the heap; the others are on stacks
  NumSlots,    \* slots addressed by getHash
  Word32,      \* size of a 32-bit word
  FakeVPtr,    \* fake vpointers
  TypesAt,     \* the types that objects may have at an address
  UseRaced,    \* bound: creations and casts begin in raced slots, too
  ArraySizes,  \* numbers of objects that are created together
  None

ASSUME SizeAssumption ==
  /\ Addr \subseteq Nat \ {0} /\ Heap \subseteq Addr
  /\ NumSlots \in Nat \ {0} /\ Word32 \in Nat \ {0, 1}
  /\ ArraySizes \subseteq Nat \ {0}
  /\ TypesAt \in [Addr -> SUBSET FakeVPtr] /\ UseRaced \in BOOLEAN

NullPtr == 0
Slot == 0 .. NumSlots - 1

Key == Addr \cup {NullPtr}
Info == [HeapArraySize : ArraySizes \cup {1}, FakeVPointer : FakeVPtr \cup {None}]

(* None is no fake vpointer, size, entry or tree                           *)
ASSUME NoneAssumption ==
  None \notin FakeVPtr \cup ArraySizes \cup Info \cup [Key -> Info \cup {None}]

VARIABLES
  ObjAddr,   \* the address that holds each slot
  info,      \* the other fields of each slot
  HexTree,   \* the tree of each slot, None before rbtree_create
  wrecked,   \* trees in which walks have overlapped
  call,      \* the runtime call in progress of each thread
  block,     \* ground truth: the arrays, at their first element
  live,      \* ground truth: the type of every object that may be used
  raced,     \* slots in which calls have got into each other's way
  reused     \* addresses given out again before the removal that a release owed

mapVars == <<ObjAddr, info, HexTree, wrecked>>
truth   == <<block, live, reused>>
vars    == <<ObjAddr, info, HexTree, wrecked, call, block, live, raced, reused>>

getHash(a) == a % NumSlots

(* element i of an array at a: i is a uint32_t                             *)
elem(a, i) == a + (i % Word32)
elems(a, n) == {elem(a, i) : i \in 0 .. n - 1}

NoInfo == [HeapArraySize |-> 1, FakeVPointer |-> None]

EmptyTree == [k \in Key |-> None]

(* The steps of a call: what it does next.  A walk through the tree is in  *)
(* progress at "walk" and "walkSize".                                      *)
Steps == {"idle", "size", "readSize", "sizeInTree", "walkSize",
          "test", "noTree", "create", "copy", "walk", "write", "fill",
          "vacate", "inTree", "read", "return"}

(* n: objects the loop treats; made: those that were created together;     *)
(* type: of a registration, or found by a cast; copy and key: what is      *)
(* going to the tree                                                       *)
Call == [op : {"none", "update", "remove", "cast"}, at : Steps, addr : Key,
         n : Nat, made : Nat, i : Nat, type : FakeVPtr \cup {None},
         copy : Info, key : Key]

NoCall == [op |-> "none", at |-> "idle", addr |-> NullPtr, n |-> 0, made |-> 0,
           i |-> 0, type |-> None, copy |-> NoInfo, key |-> NullPtr]

TypeOK ==
  /\ ObjAddr \in [Slot -> Key]
  /\ info \in [Slot -> Info]
  /\ HexTree \in [Slot -> [Key -> Info \cup {None}] \cup {None}]
  /\ call \in [Thread -> Call]
  /\ block \in [Addr -> ArraySizes \cup {None}]
  /\ live \in [Addr -> FakeVPtr \cup {None}]
  /\ wrecked \subseteq Slot /\ raced \subseteq Slot /\ reused \subseteq Addr

Init ==
  /\ ObjAddr = [s \in Slot |-> NullPtr]
  /\ info = [s \in Slot |-> NoInfo]
  /\ HexTree = [s \in Slot |-> None]
  /\ wrecked = {}
  /\ call = [t \in Thread |-> NoCall]
  /\ block = [a \in Addr |-> None]
  /\ live = [a \in Addr |-> None]
  /\ raced = {} /\ reused = {}

-----------------------------------------------------------------------------
(* The program.                                                            *)

callElems(t) == elems(call[t].addr, call[t].made)
blockElems(b) == elems(b, block[b])
InBlock(a) == \E b \in Addr : block[b] # None /\ a \in blockElems(b)

(* Stack storage is free again when its removal has returned, storage of   *)
(* the heap as soon as it is released: the removal comes after free().     *)
owesRemoval(a) == \E t \in Thread : call[t].op = "remove" /\ a \in callElems(t)
inUse(a) == InBlock(a) \/ (a \notin Heap /\ owesRemoval(a))

begin(t, c) == call' = [call EXCEPT ![t] = c]
mayUse(E) == UseRaced \/ \A e \in E : getHash(e) \notin raced

(* malloc, new or a variable on the stack: n objects at a                  *)
Create(t, a, n, f) ==
  /\ call[t].op = "none"
  /\ f \in TypesAt[a]
  /\ LET E == elems(a, n)
     IN /\ mayUse(E)
        /\ E \subseteq Heap \/ E \subseteq Addr \ Heap
        /\ \A e \in E : ~inUse(e)
        /\ reused' = reused \cup {e \in E : owesRemoval(e)}
  /\ block' = [block EXCEPT ![a] = n]
  /\ begin(t, [NoCall EXCEPT !.op = "update", !.at = "test", !.addr = a,
                             !.n = n, !.made = n, !.type = f])
  /\ UNCHANGED <<mapVars, live, raced>>

(* free or delete, or the end of a stack variable.  Objects that another   *)
(* thread is casting are not released.                                     *)
Release(t, a) ==
  /\ call[t].op = "none"
  /\ block[a] # None /\ live[a] # None
  /\ \A u \in Thread : ~(call[u].op = "cast" /\ call[u].addr \in blockElems(a))
  /\ begin(t, [NoCall EXCEPT !.op = "remove", !.addr = a, !.made = block[a],
                             !.at = IF a \in Heap THEN "size" ELSE "test",
                             !.n = IF a \in Heap THEN 1 ELSE block[a]])
  /\ live' = [e \in Addr |-> IF e \in blockElems(a) THEN None ELSE live[e]]
  /\ block' = [block EXCEPT ![a] = None]
  /\ UNCHANGED <<mapVars, raced, reused>>

(* a cast of an object that lives, in whatever thread                      *)
CastObject(t, a) ==
  /\ call[t].op = "none"
  /\ live[a] # None
  /\ mayUse({a})
  /\ begin(t, [NoCall EXCEPT !.op = "cast", !.at = "test", !.addr = a,
                             !.n = 1, !.made = 1])
  /\ UNCHANGED <<mapVars, truth, raced>>

-----------------------------------------------------------------------------
(* Steps of a call.                                                        *)

at(t, step) == call[t].at = step
go(t, step) == call' = [call EXCEPT ![t].at = step]

obj(t)  == elem(call[t].addr, call[t].i)
slot(t) == getHash(obj(t))
tree(t) == HexTree[slot(t)]

(* between the first and the last access to the slot of an element         *)
Working(t) == call[t].at \notin {"idle", "size", "test", "return"}

(* A call comes in another's way in a slot if one of them registers.       *)
meets(t) ==
  \E u \in Thread \ {t} :
    Working(u) /\ slot(u) = slot(t) /\ "update" \in {call[t].op, call[u].op}

enter(t) == raced' = IF meets(t) THEN raced \cup {slot(t)} ELSE raced

(* Wrong variants, which the properties must tell apart from the code,     *)
(* stand before the operators: the loop runs once too often; its counter   *)
(* is narrower.                                                            *)
advanceOnceMore(t) ==
  LET i == (call[t].i + 1) % Word32
  IN call' = [call EXCEPT ![t].i = i, ![t].copy = NoInfo, ![t].key = NullPtr,
                          ![t].at = IF i <= call[t].n THEN "test" ELSE "return"]

advanceNarrow(t) ==
  LET i == (call[t].i + 1) % (Word32 - 1)
  IN call' = [call EXCEPT ![t].i = i, ![t].copy = NoInfo, ![t].key = NullPtr,
                          ![t].at = IF i < call[t].n THEN "test" ELSE "return"]

(* The loop counter is compared with a 64-bit number.                      *)
advance(t) ==
  LET i == (call[t].i + 1) % Word32
  IN call' = [call EXCEPT ![t].i = i, ![t].copy = NoInfo, ![t].key = NullPtr,
                          ![t].at = IF i < call[t].n THEN "test" ELSE "return"]

(* Walks.  Two of them are at odds if one of them writes.                  *)
Walking(t) == call[t].at \in {"walk", "walkSize"}
writes(t, step) ==
  \/ call[t].op = "update"
  \/ call[t].op = "remove" /\ step = "walk"

atOdds(t, step) ==
  \E u \in Thread \ {t} :
    Walking(u) /\ slot(u) = slot(t) /\ (writes(t, step) \/ writes(u, call[u].at))

beginWalk(t, step) ==
  IF atOdds(t, step)
  THEN wrecked' = wrecked \cup {slot(t)} /\ raced' = raced \cup {slot(t)}
  ELSE UNCHANGED <<wrecked, raced>>

treeEmpty(t) == tree(t) = None \/ tree(t) = EmptyTree

(* What a search finds: anything at all in a wrecked tree.                 *)
foundInTree(t) ==
  IF slot(t) \in wrecked
  THEN {None} \cup [HeapArraySize : ArraySizes, FakeVPointer : FakeVPtr]
  ELSE {tree(t)[obj(t)]}

(* A size that is not the array's is taken to the other slots as well.     *)
takeSize(t, n) ==
  /\ call' = [call EXCEPT ![t].n = n, ![t].at = "test"]
  /\ raced' = IF n = call[t].made THEN raced ELSE Slot

(* __remove_oinfo looks for the length of an array of the heap             *)
Size(t) ==
  /\ at(t, "size")
  /\ enter(t)
  /\ go(t, IF ObjAddr[slot(t)] = obj(t) THEN "readSize" ELSE "sizeInTree")
  /\ UNCHANGED <<mapVars, truth>>

ReadSize(t) ==
  /\ at(t, "readSize")
  /\ takeSize(t, info[slot(t)].HeapArraySize)
  /\ UNCHANGED <<mapVars, truth>>

SizeInTree(t) ==
  /\ at(t, "sizeInTree")
  /\ IF treeEmpty(t) THEN takeSize(t, 1) /\ UNCHANGED wrecked
     ELSE go(t, "walkSize") /\ beginWalk(t, "walkSize")
  /\ UNCHANGED <<ObjAddr, info, HexTree, truth>>

WalkSize(t) ==
  /\ at(t, "walkSize")
  /\ \E entry \in foundInTree(t) :
       takeSize(t, IF entry = None THEN call[t].n ELSE entry.HeapArraySize)
  /\ UNCHANGED <<mapVars, truth>>

(* wrong: a removal vacates the slot whoever holds it                      *)
TestUnchecked(t) ==
  /\ at(t, "test")
  /\ enter(t)
  /\ LET held == ObjAddr[slot(t)]
     IN go(t, CASE call[t].op = "update" ->
                     IF held \in {NullPtr, obj(t)} THEN "write" ELSE "noTree"
                [] call[t].op = "remove" -> "vacate"
                [] call[t].op = "cast" ->
                     IF held = obj(t) THEN "read" ELSE "inTree")
  /\ UNCHANGED <<mapVars, truth>>

(* Every operation first looks whose the slot is.                          *)
Test(t) ==
  /\ at(t, "test")
  /\ enter(t)
  /\ LET held == ObjAddr[slot(t)]
     IN go(t, CASE call[t].op = "update" ->
                     IF held \in {NullPtr, obj(t)} THEN "write" ELSE "noTree"
                [] call[t].op = "remove" ->
                     IF held = obj(t) THEN "vacate" ELSE "inTree"
                [] call[t].op = "cast" ->
                     IF held = obj(t) THEN "read" ELSE "inTree")
  /\ UNCHANGED <<mapVars, truth>>

(* A registration creates the tree if there is none, copies the slot's     *)
(* entry and inserts the copy under the address then in the slot.          *)
NoTree(t) ==
  /\ at(t, "noTree")
  /\ go(t, IF tree(t) = None THEN "create" ELSE "copy")
  /\ UNCHANGED <<mapVars, truth, raced>>

CreateTree(t) ==
  /\ at(t, "create")
  /\ HexTree' = [HexTree EXCEPT ![slot(t)] = EmptyTree]
  /\ go(t, "copy")
  /\ UNCHANGED <<ObjAddr, info, wrecked, truth, raced>>

CopyEntry(t) ==
  /\ at(t, "copy")
  /\ call' = [call EXCEPT ![t].copy = info[slot(t)],
                          ![t].key = ObjAddr[slot(t)], ![t].at = "walk"]
  /\ beginWalk(t, "walk")
  /\ UNCHANGED <<ObjAddr, info, HexTree, truth>>

(* and then overwrites the slot, the address before the rest               *)
Write(t) ==
  /\ at(t, "write")
  /\ ObjAddr' = [ObjAddr EXCEPT ![slot(t)] = obj(t)]
  /\ go(t, "fill")
  /\ UNCHANGED <<info, HexTree, wrecked, truth, raced>>

Fill(t) ==
  /\ at(t, "fill")
  /\ info' = [info EXCEPT ![slot(t)] = [HeapArraySize |-> call[t].n,
                                        FakeVPointer |-> call[t].type]]
  /\ advance(t)
  /\ UNCHANGED <<ObjAddr, HexTree, wrecked, truth, raced>>

(* wrong: the slot is refilled from the tree                               *)
VacateRefill(t) ==
  /\ at(t, "vacate")
  /\ IF treeEmpty(t)
     THEN /\ ObjAddr' = [ObjAddr EXCEPT ![slot(t)] = NullPtr]
          /\ UNCHANGED <<info, HexTree>>
     ELSE \E k \in Key :
            /\ tree(t)[k] # None
            /\ ObjAddr' = [ObjAddr EXCEPT ![slot(t)] = k]
            /\ info' = [info EXCEPT ![slot(t)] = tree(t)[k]]
            /\ HexTree' = [HexTree EXCEPT ![slot(t)][k] = None]
  /\ advance(t)
  /\ UNCHANGED <<wrecked, truth, raced>>

Vacate(t) ==
  /\ at(t, "vacate")
  /\ ObjAddr' = [ObjAddr EXCEPT ![slot(t)] = NullPtr]
  /\ advance(t)
  /\ UNCHANGED <<info, HexTree, wrecked, truth, raced>>

(* wrong: a removal does not look into the tree                            *)
InTreeCastOnly(t) ==
  /\ at(t, "inTree")
  /\ IF treeEmpty(t) \/ call[t].op = "remove"
     THEN advance(t) /\ UNCHANGED <<wrecked, raced>>
     ELSE go(t, "walk") /\ beginWalk(t, "walk")
  /\ UNCHANGED <<ObjAddr, info, HexTree, truth>>

(* findObjInfo and the removals                                            *)
InTree(t) ==
  /\ at(t, "inTree")
  /\ IF treeEmpty(t) THEN advance(t) /\ UNCHANGED <<wrecked, raced>>
     ELSE go(t, "walk") /\ beginWalk(t, "walk")
  /\ UNCHANGED <<ObjAddr, info, HexTree, truth>>

(* The walk of a registration inserts, that of a removal deletes, that of  *)
(* a cast finds an entry, whose type is what it reads.                     *)
Walk(t) ==
  /\ at(t, "walk")
  /\ \/ /\ call[t].op = "update"
        /\ HexTree' = [HexTree EXCEPT ![slot(t)][call[t].key] = call[t].copy]
        /\ go(t, "write")
     \/ /\ call[t].op = "remove"
        /\ HexTree' = [HexTree EXCEPT ![slot(t)][obj(t)] = None]
        /\ advance(t)
     \/ /\ call[t].op = "cast"
        /\ \E entry \in foundInTree(t) :
             call' = [call EXCEPT ![t].at = "return",
                        ![t].type = IF entry = None THEN None
                                    ELSE entry.FakeVPointer]
        /\ UNCHANGED HexTree
  /\ UNCHANGED <<ObjAddr, info, wrecked, truth, raced>>

ReadType(t) ==
  /\ at(t, "read")
  /\ call' = [call EXCEPT ![t].type = info[slot(t)].FakeVPointer,
                          ![t].at = "return"]
  /\ UNCHANGED <<mapVars, truth, raced>>

(* The program uses new objects once they are registered.                  *)
Return(t) ==
  /\ at(t, "return")
  /\ live' = IF call[t].op = "update"
             THEN [e \in Addr |-> IF e \in callElems(t) THEN call[t].type
                                  ELSE live[e]]
             ELSE live
  /\ begin(t, NoCall)
  /\ UNCHANGED <<mapVars, block, raced, reused>>

Step(t) ==
  \/ Size(t) \/ ReadSize(t) \/ SizeInTree(t) \/ WalkSize(t)
  \/ Test(t) \/ NoTree(t) \/ CreateTree(t) \/ CopyEntry(t)
  \/ Write(t) \/ Fill(t) \/ Vacate(t) \/ InTree(t) \/ Walk(t) \/ ReadType(t)
  \/ Return(t)

Program(t) ==
  \/ \E a \in Addr, n \in ArraySizes, f \in FakeVPtr : Create(t, a, n, f)
  \/ \E a \in Addr : Release(t, a)
  \/ \E a \in Addr : CastObject(t, a)

Next == \E t \in Thread : Program(t) \/ Step(t)

Spec == Init /\ [][Next]_vars

(* A walk through a wrecked tree may go round in circles.                  *)
lost(t) == Walking(t) /\ slot(t) \in wrecked

(* A thread in the runtime waits for no other: it keeps being scheduled,   *)
(* and gets on unless it is lost in a tree.                                *)
FairSpec == Spec /\ \A t \in Thread : WF_vars(~lost(t) /\ Step(t))

-----------------------------------------------------------------------------
(* Properties.                                                             *)

Found(a) ==
  LET s == getHash(a)
  IN ObjAddr[s] = a \/ (HexTree[s] # None /\ HexTree[s][a] # None)

findObjInfo(a) ==
  LET s == getHash(a) IN IF ObjAddr[s] = a THEN info[s] ELSE HexTree[s][a]

registering(s) ==
  \E t \in Thread : call[t].op = "update" /\ Working(t) /\ slot(t) = s

(* However the calls of the threads interleave, and whatever goes wrong in *)
(* other slots: as long as no registration has overlapped with another     *)
(* call in a slot, nor a deletion with another walk through its tree, the  *)
(* slot knows its live objects with the types they were given, except      *)
(* those whose address was given out again before the old removal.         *)
LiveFound ==
  \A a \in Addr :
    live[a] # None /\ getHash(a) \notin raced /\ ~registering(getHash(a))
      /\ a \notin reused
    => Found(a) /\ findObjInfo(a).FakeVPointer = live[a]

(* A cast that runs into casts and removals of other objects in its slot   *)
(* still finds the type of its object.                                     *)
CastFinds ==
  \A t \in Thread :
    LET c == call[t]
    IN c.op = "cast" /\ at(t, "return") /\ getHash(c.addr) \notin raced
         /\ c.addr \notin reused
       => c.type = live[c.addr]

(* No slot keeps anything of an address that is neither in use nor waits   *)
(* for its removal, but where calls have raced and but for addresses given *)
(* out before the removal of an earlier object there.                      *)
DeadForgotten ==
  \A a \in Addr :
    ~inUse(a) /\ ~owesRemoval(a)
      /\ getHash(a) \notin raced /\ a \notin reused
    => ~Found(a)

(* Every call returns, whatever the others do to the slots it looks at,    *)
(* and whichever entries and lengths they have lost or mixed up: unless it *)
(* is itself in a tree that overlapping walks have wrecked, or its loop    *)
(* runs over more elements than its counter counts.                        *)
CallsReturn ==
  \A t \in Thread :
    call[t].op # "none" ~>
      (call[t].op = "none" \/ lost(t) \/ call[t].n >= Word32)
=============================================================================
