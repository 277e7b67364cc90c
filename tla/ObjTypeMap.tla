---------------------------- MODULE ObjTypeMap -----------------------------
(***************************************************************************)
(* The object type map of the CastSan runtime                              *)
(* (compiler-rt/lib/hextype/hextype.cc) and the instrumented program that  *)
(* calls it.                                                               *)
(*                                                                         *)
(* Every traced object has an entry in a direct-mapped table of slots.     *)
(* When two objects hash to one slot, the later one takes the slot and the *)
(* earlier one is moved to the slot's red-black tree.  The tree is         *)
(* abstracted to a map from keys to entries: RBTree shows that the code's  *)
(* tree is one.  The key is what compare() looks at, the low 32 bits of    *)
(* the address.                                                            *)
(*                                                                         *)
(* The array operations of the runtime are loops over elements; each       *)
(* iteration is a step, and nothing else is enabled until the call         *)
(* returns: one thread runs the program and the runtime.                   *)
(***************************************************************************)
EXTENDS RangeChecks

CONSTANTS
  Align,       \* bytes per hash granule             (8 in the code)
  NumSlots,    \* slots addressed by getHash         (2^28 in the code)
  Word32,      \* size of a 32-bit word              (2^32 in the code)
  Addr,        \* addresses at which the program creates objects
  FakeVPtr,    \* fake vpointers
  Ranges,      \* <<start, width>> pairs of the casts
  TypeSizes,   \* strides of the arrays
  ArraySizes,  \* numbers of elements of the arrays
  MayRealias,  \* the program gives a live object a new type in place
  MayUnwind,   \* exceptions end stack objects with no instrumented return
  None         \* no entry

ASSUME WordAssumption ==
  /\ Align \in Nat \ {0} /\ NumSlots \in Nat \ {0}
  /\ Word32 \in Nat \ {0, 1}

ASSUME ProgramAssumption ==
  /\ Addr \subseteq Nat \ {0}
  /\ FakeVPtr \subseteq 0 .. Word32 - 1
  /\ TypeSizes \subseteq Nat \ {0}
  /\ ArraySizes \subseteq 0 .. Word32 - 1
  /\ MayRealias \in BOOLEAN /\ MayUnwind \in BOOLEAN

(* fake vpointers are 32-bit, range bounds 64-bit, and no range wraps      *)
ASSUME RangeAssumption ==
  /\ Word32 <= Word64
  /\ Ranges \subseteq Nat \X Nat
  /\ \A r \in Ranges : r[1] + r[2] <= Word64

NullPtr == 0
VARIABLES
  mapReady,    \* the global pointer ObjTypeMap has been set
  ObjTypeMap,  \* the slots, without their trees
  hexTree,     \* the tree of each slot, as a map from keys to entries
  call,        \* the array operation in progress
  verdict,     \* the last cast that was checked, and its outcome
  live,        \* ground truth: the type of every live object
  alloc        \* ground truth: the live arrays, at their first element

mapVars  == <<mapReady, ObjTypeMap, hexTree>>
truth    == <<live, alloc>>
vars     == <<mapReady, ObjTypeMap, hexTree, call, verdict, live, alloc>>

-----------------------------------------------------------------------------
(* Addresses.                                                              *)

getHash(a) == (a \div Align) % NumSlots

(* what compare() reads of an address: (int)(size_t)key                    *)
compareKey(a) == a % Word32

(* address of element i: TypeSize*i is a product of two uint32_t           *)
elemAddr(a, TypeSize, i) == a + ((TypeSize * i) % Word32)

Slot == 0 .. NumSlots - 1
Key  == 0 .. Word32 - 1

elems(a, TypeSize, ArraySize) ==
  {elemAddr(a, TypeSize, i) : i \in 0 .. ArraySize - 1}

-----------------------------------------------------------------------------
(* State.                                                                  *)

Entry == [ObjAddr : Addr \cup {NullPtr},
          HeapArraySize : 0 .. Word32 - 1,
          FakeVPointer : Nat]

AllocType == {"HEAPALLOC", "STACKALLOC"}

Alloc == [TypeSize : TypeSizes, ArraySize : ArraySizes, kind : AllocType]

(* an array operation: element i of ArraySize is next; after a removal on  *)
(* behalf of realloc, newAddr is registered with newSize elements          *)
Call == [op : {"idle", "update", "remove"}, addr : Nat, TypeSize : Nat,
         ArraySize : Nat, i : Nat, fvp : Nat, newAddr : Nat, newSize : Nat]

Idle == [op |-> "idle", addr |-> 0, TypeSize |-> 0, ArraySize |-> 0, i |-> 0,
         fvp |-> 0, newAddr |-> 0, newSize |-> 0]

(* a cast that was checked, and what the check said of it                  *)
Verdict == [addr : Addr \cup {NullPtr}, start : Nat, width : Nat,
            outcome : {"silent", "safe", "bad"}]

(* None is no fake vpointer, entry or array                                *)
ASSUME NoneAssumption == None \notin Nat \cup Entry \cup Alloc

(* Every handler below is also well-typed, whatever the program calls.     *)
TypeOK ==
  /\ mapReady \in BOOLEAN
  /\ ObjTypeMap \in [Slot -> Entry]
  /\ hexTree \in [Slot -> [Key -> Entry \cup {None}]]
  /\ call \in Call
  /\ verdict \in Verdict \cup {None}
  /\ live \in [Addr -> FakeVPtr \cup {None}]
  /\ alloc \in [Addr -> Alloc \cup {None}]

EmptySlot == [ObjAddr |-> NullPtr, HeapArraySize |-> 0, FakeVPointer |-> 0]

Init ==
  /\ mapReady = FALSE
  /\ ObjTypeMap = [s \in Slot |-> EmptySlot]
  /\ hexTree = [s \in Slot |-> [k \in Key |-> None]]
  /\ call = Idle
  /\ verdict = None
  /\ live = [a \in Addr |-> None]
  /\ alloc = [a \in Addr |-> None]

-----------------------------------------------------------------------------
(* Operations on one entry.                                                *)

treeEmpty(s) == \A k \in Key : hexTree[s][k] = None

InSlot(a) == ObjTypeMap[getHash(a)].ObjAddr = a
InTree(a) == hexTree[getHash(a)][compareKey(a)] # None
Found(a)  == InSlot(a) \/ InTree(a)

(* the entry that the program sees for a, when Found(a)                    *)
findObjInfo(a) ==
  IF InSlot(a) THEN ObjTypeMap[getHash(a)]
  ELSE hexTree[getHash(a)][compareKey(a)]

(* Wrong variants of the operations, which the properties must tell apart  *)
(* from the code: the displaced entry is dropped; it is filed under the    *)
(* key of the new object; a slot is vacated for any address that hashes to *)
(* it; the recorded array size is ignored; a loop runs once too often.     *)

updateOneDropping(a, ArraySize, fvp) ==
  /\ ObjTypeMap' = [ObjTypeMap EXCEPT ![getHash(a)] =
        [ObjAddr |-> a, HeapArraySize |-> ArraySize, FakeVPointer |-> fvp]]
  /\ UNCHANGED hexTree

updateOneMisfiled(a, ArraySize, fvp) ==
  LET s   == getHash(a)
      old == ObjTypeMap[s]
  IN /\ ObjTypeMap' = [ObjTypeMap EXCEPT ![s] =
            [ObjAddr |-> a, HeapArraySize |-> ArraySize, FakeVPointer |-> fvp]]
     /\ hexTree' = IF old.ObjAddr \in {NullPtr, a} THEN hexTree
                   ELSE [hexTree EXCEPT ![s][compareKey(a)] = old]

removeOneUnchecked(a) ==
  /\ ObjTypeMap' = [ObjTypeMap EXCEPT ![getHash(a)].ObjAddr = NullPtr]
  /\ UNCHANGED hexTree

removedSizePassed(a, ArraySize, kind) == ArraySize

(* A free slot, or the slot of a itself, is overwritten; otherwise the     *)
(* entry in the slot moves to the tree, replacing the one with its key.    *)
updateOne(a, ArraySize, fvp) ==
  LET s   == getHash(a)
      old == ObjTypeMap[s]
  IN /\ ObjTypeMap' = [ObjTypeMap EXCEPT ![s] =
            [ObjAddr |-> a, HeapArraySize |-> ArraySize, FakeVPointer |-> fvp]]
     /\ hexTree' = IF old.ObjAddr \in {NullPtr, a} THEN hexTree
                   ELSE [hexTree EXCEPT ![s][compareKey(old.ObjAddr)] = old]

(* The slot is vacated if a holds it, its other fields kept; otherwise the *)
(* tree's entry for a's key is deleted, if there is one.                   *)
removeOne(a) ==
  LET s == getHash(a)
  IN \/ /\ InSlot(a)
        /\ ObjTypeMap' = [ObjTypeMap EXCEPT ![s].ObjAddr = NullPtr]
        /\ UNCHANGED hexTree
     \/ /\ ~InSlot(a)
        /\ hexTree' = [hexTree EXCEPT ![s][compareKey(a)] = None]
        /\ UNCHANGED ObjTypeMap

(* The number of elements __remove_oinfo removes.                          *)
removedSize(a, ArraySize, kind) ==
  IF kind = "STACKALLOC" THEN ArraySize
  ELSE IF Found(a) THEN findObjInfo(a).HeapArraySize
  ELSE IF treeEmpty(getHash(a)) THEN 1 ELSE ArraySize

-----------------------------------------------------------------------------
(* The program and its instrumentation.                                    *)

ready == mapReady /\ call = Idle

(* a holds an object, or is the start of an array                          *)
Occupied(a) == live[a] # None \/ alloc[a] # None

arrayElems(b) == elems(b, alloc[b].TypeSize, alloc[b].ArraySize)

InArray(a) == \E b \in Addr : alloc[b] # None /\ a \in arrayElems(b)

killed(S) == [a \in Addr |-> IF a \in S THEN None ELSE live[a]]

(* The module constructors each call __init_obj_type_map; only the first   *)
(* call allocates the table, which the kernel hands out zeroed.            *)
InitObjTypeMap ==
  /\ call = Idle
  /\ mapReady' = TRUE
  /\ IF mapReady
     THEN UNCHANGED <<ObjTypeMap, hexTree>>
     ELSE /\ ObjTypeMap' = [s \in Slot |-> EmptySlot]
          /\ hexTree' = [s \in Slot |-> [k \in Key |-> None]]
  /\ UNCHANGED <<call, verdict, live, alloc>>

(* A stack or global object, or an object placed in raw storage.           *)
UpdateDirectOinfo(a, f) ==
  /\ ready
  /\ ~Occupied(a) /\ ~InArray(a)
  /\ updateOne(a, 1, f)
  /\ live' = [live EXCEPT ![a] = f]
  /\ UNCHANGED <<mapReady, call, verdict, alloc>>

(* reinterpret_cast, polymorphic upcast, or placement new over a live      *)
(* object: its address is registered again.                                *)
HandleReinterpretCast(a, f) ==
  /\ MayRealias
  /\ ready
  /\ live[a] # None
  /\ updateOne(a, 1, f)
  /\ live' = [live EXCEPT ![a] = f]
  /\ UNCHANGED <<mapReady, call, verdict, alloc>>

(* The end of a stack object's lifetime, at a return or lifetime marker.   *)
RemoveDirectOinfo(a) ==
  /\ ready
  /\ live[a] # None /\ ~InArray(a)
  /\ removeOne(a)
  /\ live' = killed({a})
  /\ UNCHANGED <<mapReady, call, verdict, alloc>>

(* The end of an object that no removal is called for: one on a stack that *)
(* unwinding leaves or in raw storage, as only return instructions,        *)
(* lifetime markers and the releases of the heap are instrumented; and     *)
(* what the elements of an array contain at other offsets than the first,  *)
(* when realloc takes the array away.                                      *)
Unwind(a) ==
  /\ MayUnwind
  /\ ready
  /\ \/ /\ live[a] # None /\ ~InArray(a)
        /\ live' = killed({a})
        /\ UNCHANGED alloc
     \/ /\ alloc[a] # None
        /\ live' = killed(arrayElems(a))
        /\ alloc' = [alloc EXCEPT ![a] = None]
  /\ UNCHANGED <<mapReady, ObjTypeMap, hexTree, call, verdict>>

(* The storage of an array is none that a live object or array occupies.   *)
FreshArray(a, ts, n) ==
  LET E == elems(a, ts, n) \cup {a}
  IN /\ E \subseteq Addr
     /\ \A b \in E : ~Occupied(b) /\ ~InArray(b)

(* malloc, new and new[], and stack arrays of variable length.             *)
UpdateOinfo(a, ts, n, f, kind) ==
  /\ ready
  /\ FreshArray(a, ts, n)
  /\ call' = [Idle EXCEPT !.op = "update", !.addr = a, !.TypeSize = ts,
                          !.ArraySize = n, !.fvp = f]
  /\ alloc' = [alloc EXCEPT ![a] = [TypeSize |-> ts, ArraySize |-> n,
                                    kind |-> kind]]
  /\ UNCHANGED <<mapReady, ObjTypeMap, hexTree, verdict, live>>

(* free, delete and delete[] pass ArraySize 1; the end of a stack array    *)
(* passes its length.                                                      *)
RemoveOinfo(a) ==
  /\ ready
  /\ alloc[a] # None
  /\ LET passed == IF alloc[a].kind = "STACKALLOC" THEN alloc[a].ArraySize
                   ELSE 1
     IN call' = [Idle EXCEPT !.op = "remove", !.addr = a,
                   !.TypeSize = alloc[a].TypeSize,
                   !.ArraySize = removedSize(a, passed, alloc[a].kind)]
  /\ live' = killed(arrayElems(a))
  /\ alloc' = [alloc EXCEPT ![a] = None]
  /\ UNCHANGED <<mapReady, ObjTypeMap, hexTree, verdict>>

(* realloc moves the array at a to b, perhaps in place, with n elements:   *)
(* the old array is removed, then the new one registered.                  *)
ReallocOinfo(a, b, n, f) ==
  /\ ready
  /\ alloc[a] # None /\ alloc[a].kind = "HEAPALLOC"
  /\ LET ts == alloc[a].TypeSize
         E  == elems(b, ts, n) \cup {b}
     IN /\ E \subseteq Addr
        /\ \A c \in E \ (arrayElems(a) \cup {a}) : ~Occupied(c) /\ ~InArray(c)
        /\ call' = [Idle EXCEPT !.op = "remove", !.addr = a, !.TypeSize = ts,
                      !.ArraySize = removedSize(a, n, "REALLOC"),
                      !.fvp = f, !.newAddr = b, !.newSize = n]
        /\ live' = killed(arrayElems(a))
        /\ alloc' = [alloc EXCEPT ![a] = None,
                       ![b] = [TypeSize |-> ts, ArraySize |-> n,
                               kind |-> "HEAPALLOC"]]
  /\ UNCHANGED <<mapReady, ObjTypeMap, hexTree, verdict>>

current == elemAddr(call.addr, call.TypeSize, call.i)

UpdateElemOnceMore ==
  /\ call.op = "update" /\ call.i <= call.ArraySize
  /\ updateOne(current, call.ArraySize, call.fvp)
  /\ live' = [live EXCEPT ![current] = call.fvp]
  /\ call' = [call EXCEPT !.i = @ + 1]
  /\ UNCHANGED <<mapReady, verdict, alloc>>

(* One iteration of the loop of __update_oinfo.                            *)
UpdateElem ==
  /\ call.op = "update" /\ call.i < call.ArraySize
  /\ updateOne(current, call.ArraySize, call.fvp)
  /\ live' = [live EXCEPT ![current] = call.fvp]
  /\ call' = [call EXCEPT !.i = @ + 1]
  /\ UNCHANGED <<mapReady, verdict, alloc>>

(* One iteration of the loop of __remove_oinfo.                            *)
RemoveElem ==
  /\ call.op = "remove" /\ call.i < call.ArraySize
  /\ removeOne(current)
  /\ call' = [call EXCEPT !.i = @ + 1]
  /\ UNCHANGED <<mapReady, verdict, live, alloc>>

(* The loop ends; after the removal of realloc the update follows.         *)
Return ==
  /\ call.op # "idle" /\ call.i >= call.ArraySize
  /\ call' = IF call.newAddr = NullPtr THEN Idle
             ELSE [Idle EXCEPT !.op = "update", !.addr = call.newAddr,
                     !.TypeSize = call.TypeSize, !.ArraySize = call.newSize,
                     !.fvp = call.fvp]
  /\ UNCHANGED <<mapReady, ObjTypeMap, hexTree, verdict, live, alloc>>

(* A cast of the object at a to a type whose fake vpointers are            *)
(* start .. start + width - 1.  Nothing is said of an unknown object.      *)
castOutcome(a, start, width) ==
  IF a = NullPtr \/ ~Found(a) THEN "silent"
  ELSE IF minus64(findObjInfo(a).FakeVPointer, start) >= width THEN "bad"
  ELSE "safe"

VerifyTypeCasting(a, start, width) ==
  /\ ready
  /\ verdict' = [addr |-> a, start |-> start, width |-> width,
                 outcome |-> castOutcome(a, start, width)]
  /\ UNCHANGED <<mapReady, ObjTypeMap, hexTree, call, live, alloc>>

Next ==
  \/ InitObjTypeMap
  \/ \E a \in Addr, f \in FakeVPtr : UpdateDirectOinfo(a, f)
  \/ \E a \in Addr, f \in FakeVPtr : HandleReinterpretCast(a, f)
  \/ \E a \in Addr : RemoveDirectOinfo(a)
  \/ \E a \in Addr : Unwind(a)
  \/ \E a \in Addr, ts \in TypeSizes, n \in ArraySizes, f \in FakeVPtr,
        kind \in AllocType : UpdateOinfo(a, ts, n, f, kind)
  \/ \E a \in Addr : RemoveOinfo(a)
  \/ \E a, b \in Addr, n \in ArraySizes, f \in FakeVPtr :
        ReallocOinfo(a, b, n, f)
  \/ UpdateElem
  \/ RemoveElem
  \/ Return
  \/ \E a \in Addr \cup {NullPtr}, r \in Ranges :
        VerifyTypeCasting(a, r[1], r[2])

Spec == Init /\ [][Next]_vars

-----------------------------------------------------------------------------
(* Properties.                                                             *)

(* A lookup of a live object, in the middle of an array call too, finds    *)
(* the type it was last given, however many objects share its slot.        *)
LiveLookup ==
  \A a \in Addr :
    live[a] # None => Found(a) /\ findObjInfo(a).FakeVPointer = live[a]

(* The entry findObjInfo returns for an address is that address's own:     *)
(* entries never answer for another object of the slot.                    *)
OwnEntry ==
  \A a \in Addr : Found(a) => findObjInfo(a).ObjAddr = a

(* Once the removal calls have returned, nothing is known of an address    *)
(* whose object is dead: every element of a freed array is forgotten.      *)
RemovedForgotten ==
  call = Idle => \A a \in Addr : live[a] = None => ~Found(a)

(* The runtime implements the abstract registry: every step changes what a *)
(* lookup returns for one address at most, and each cast is judged by the  *)
(* membership of what is registered at its address in its range.           *)
registered ==
  [a \in Addr |-> IF Found(a) THEN findObjInfo(a).FakeVPointer ELSE None]

Registry == INSTANCE ObjRegistry WITH reg <- registered

ImplementsRegistry == Registry!RegSpec

(* Every slot uses its tree as EntryTree promises it to behave: displaced  *)
(* entries are filed under their own addresses, and one key at a time      *)
(* changes.  Searches and deletions look at the low word of an address,    *)
(* so that the low words stand for all addresses of it.                    *)
ObjectEntry ==
  [ObjAddr : Addr, HeapArraySize : 0 .. Word32 - 1, FakeVPointer : FakeVPtr]

Tree(s) == INSTANCE EntryTree WITH keyOf <- compareKey, Entry <- ObjectEntry,
                                   Addr <- Key, map <- hexTree[s]

UsesTrees ==
  /\ \A s \in Slot : Tree(s)!MapInit
  /\ [][\A s \in Slot : [Tree(s)!MapNext]_(hexTree[s])]_hexTree
=============================================================================
