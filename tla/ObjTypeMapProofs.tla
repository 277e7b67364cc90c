-------------------------- MODULE ObjTypeMapProofs -------------------------
(***************************************************************************)
(* Proofs about ObjTypeMap, for every size of the table, every set of      *)
(* addresses and types and any number of operations: types, that lookups   *)
(* are right, and that dead objects are forgotten.                         *)
(***************************************************************************)
EXTENDS ObjTypeMap, TLAPS

-----------------------------------------------------------------------------
(* Arithmetic of addresses.                                                *)

(* Every address has a slot of the table.                                  *)
LEMMA HashInSlot == \A a \in Nat : getHash(a) \in Slot
  BY WordAssumption, SMT DEF getHash, Slot

(* Every address has a key of the trees.                                   *)
LEMMA KeyInRange == \A a \in Nat : compareKey(a) \in Key
  BY WordAssumption, SMT DEF compareKey, Key

(* An element's address is one, though TypeSize*i wraps at a word.         *)
LEMMA ElemNat == \A a, ts, i \in Nat : elemAddr(a, ts, i) \in Nat
  BY WordAssumption, SMT DEF elemAddr

(* What the program passes to the runtime are numbers.                     *)
LEMMA ParametersNat ==
  /\ Addr \subseteq Nat /\ FakeVPtr \subseteq Nat
  /\ TypeSizes \subseteq Nat /\ ArraySizes \subseteq Nat
  BY ProgramAssumption, WordAssumption

(* The first element of an array is at the array's address.                *)
LEMMA ElemZero == \A a, ts \in Nat : elemAddr(a, ts, 0) = a
  BY WordAssumption, SMT DEF elemAddr

-----------------------------------------------------------------------------
(* Type correctness.  An array call writes its elements into the table one *)
(* by one, so TypeOK needs what the program knows when it starts the call: *)
(* the array of the call, or the one realloc is about to register, is an   *)
(* allocated array, and arrays lie within the program's addresses.         *)

ArraysInAddr ==
  \A b \in Addr : alloc[b] # None => arrayElems(b) \subseteq Addr

UpdateCall ==
  call.op = "update" =>
    /\ call.addr \in Addr /\ call.fvp \in FakeVPtr /\ call.newAddr = NullPtr
    /\ alloc[call.addr] # None
    /\ alloc[call.addr].TypeSize = call.TypeSize
    /\ alloc[call.addr].ArraySize = call.ArraySize

ReallocCall ==
  call.op # "update" /\ call.newAddr # NullPtr =>
    /\ call.newAddr \in Addr /\ call.fvp \in FakeVPtr
    /\ alloc[call.newAddr] # None
    /\ alloc[call.newAddr].TypeSize = call.TypeSize
    /\ alloc[call.newAddr].ArraySize = call.newSize

TypeInv == TypeOK /\ ArraysInAddr /\ UpdateCall /\ ReallocCall

(* Registering keeps slots and trees well-typed.                           *)
LEMMA UpdateOneType ==
  ASSUME TypeOK, NEW a \in Addr, NEW n \in 0 .. Word32 - 1, NEW f \in FakeVPtr,
         updateOne(a, n, f)
  PROVE  /\ ObjTypeMap' \in [Slot -> Entry]
         /\ hexTree' \in [Slot -> [Key -> Entry \cup {None}]]
<1> USE ProgramAssumption
<1>1. getHash(a) \in Slot
  BY HashInSlot
<1>2. [ObjAddr |-> a, HeapArraySize |-> n, FakeVPointer |-> f] \in Entry
  BY DEF Entry
<1>3. ObjTypeMap' \in [Slot -> Entry]
  BY <1>1, <1>2 DEF updateOne, TypeOK
<1>4. ObjTypeMap[getHash(a)] \in Entry
  BY <1>1 DEF TypeOK
<1>5. ObjTypeMap[getHash(a)].ObjAddr \in Nat
  BY <1>4 DEF Entry, NullPtr
<1>6. compareKey(ObjTypeMap[getHash(a)].ObjAddr) \in Key
  BY <1>5, KeyInRange
<1>7. hexTree' \in [Slot -> [Key -> Entry \cup {None}]]
  BY <1>1, <1>4, <1>6 DEF updateOne, TypeOK
<1>8. QED
  BY <1>3, <1>7

(* So does a removal, of any address at all.                               *)
LEMMA RemoveOneType ==
  ASSUME TypeOK, NEW a \in Nat, removeOne(a)
  PROVE  /\ ObjTypeMap' \in [Slot -> Entry]
         /\ hexTree' \in [Slot -> [Key -> Entry \cup {None}]]
<1>1. getHash(a) \in Slot /\ compareKey(a) \in Key
  BY HashInSlot, KeyInRange
<1>2. CASE ObjTypeMap' = [ObjTypeMap EXCEPT ![getHash(a)].ObjAddr = NullPtr]
           /\ UNCHANGED hexTree
  <2>1. ObjTypeMap[getHash(a)] \in Entry
    BY <1>1 DEF TypeOK
  <2>2. [ObjTypeMap[getHash(a)] EXCEPT !.ObjAddr = NullPtr] \in Entry
    BY <2>1 DEF Entry
  <2>3. QED
    BY <1>1, <1>2, <2>2 DEF TypeOK
<1>3. CASE hexTree' = [hexTree EXCEPT ![getHash(a)][compareKey(a)] = None]
           /\ UNCHANGED ObjTypeMap
  BY <1>1, <1>3 DEF TypeOK
<1>4. QED
  BY <1>2, <1>3 DEF removeOne

(* The element an update is about to register is an object address.        *)
LEMMA CurrentInAddr ==
  ASSUME TypeOK, ArraysInAddr, UpdateCall,
         call.op = "update", call.i < call.ArraySize
  PROVE  /\ current \in Addr
         /\ current \in arrayElems(call.addr)
         /\ call.ArraySize \in 0 .. Word32 - 1
<1>1. /\ call.i \in Nat /\ call.ArraySize \in Nat
      /\ call.i \in 0 .. call.ArraySize - 1
  BY DEF TypeOK, Call
<1>2. current \in arrayElems(call.addr)
  BY <1>1 DEF UpdateCall, arrayElems, elems, current
<1>3. current \in Addr
  BY <1>2 DEF UpdateCall, ArraysInAddr
<1>4. alloc[call.addr] \in Alloc
  BY DEF UpdateCall, TypeOK
<1>5. call.ArraySize \in ArraySizes
  BY <1>4 DEF UpdateCall, Alloc
<1>6. QED
  BY <1>2, <1>3, <1>5, ProgramAssumption

(* The element an array call is at has an address.                         *)
LEMMA CurrentNat == TypeOK => current \in Nat
  BY ElemNat DEF TypeOK, Call, current

(* A release removes a number of elements, recorded or passed.             *)
LEMMA RemovedSizeNat ==
  ASSUME TypeOK, NEW a \in Addr, NEW n \in Nat, NEW kind
  PROVE  removedSize(a, n, kind) \in Nat
<1>1. getHash(a) \in Slot /\ compareKey(a) \in Key
  BY HashInSlot, KeyInRange, ProgramAssumption
<1>2. Found(a) => findObjInfo(a) \in Entry
  BY <1>1 DEF TypeOK, Found, InSlot, InTree, findObjInfo
<1>3. Found(a) => findObjInfo(a).HeapArraySize \in Nat
  BY <1>2 DEF Entry
<1>4. QED
  BY <1>3 DEF removedSize

(* The initial state is well-typed.                                        *)
LEMMA InitTypeInv == Init => TypeInv
<1> SUFFICES ASSUME Init PROVE TypeInv
  OBVIOUS
<1>1. EmptySlot \in Entry
  BY WordAssumption DEF EmptySlot, Entry, NullPtr
<1>2. Idle \in Call
  BY DEF Idle, Call
<1>3. TypeOK
  BY <1>1, <1>2 DEF Init, TypeOK
<1>4. ArraysInAddr /\ UpdateCall /\ ReallocCall
  BY DEF Init, ArraysInAddr, UpdateCall, ReallocCall, Idle, NullPtr
<1>5. QED
  BY <1>3, <1>4 DEF TypeInv

(* A step that leaves the call and the arrays alone keeps what TypeInv     *)
(* says of them.                                                           *)
LEMMA CallPartsUnchanged ==
  ASSUME TypeInv, UNCHANGED <<call, alloc>>
  PROVE  ArraysInAddr' /\ UpdateCall' /\ ReallocCall'
  BY DEF TypeInv, ArraysInAddr, UpdateCall, ReallocCall, arrayElems

(* Every operation, and every iteration of an array call, keeps TypeInv.   *)
LEMMA NextTypeInv == TypeInv /\ [Next]_vars => TypeInv'
<1> SUFFICES ASSUME TypeInv, [Next]_vars PROVE TypeInv'
  OBVIOUS
<1> USE ProgramAssumption, WordAssumption
<1>0. TypeOK /\ ArraysInAddr /\ UpdateCall /\ ReallocCall
  BY DEF TypeInv
<1>1. CASE InitObjTypeMap
  <2>1. EmptySlot \in Entry
    BY DEF EmptySlot, Entry, NullPtr
  <2>2. TypeOK'
    BY <1>0, <1>1, <2>1 DEF InitObjTypeMap, TypeOK
  <2>3. QED
    BY <1>1, <2>2, CallPartsUnchanged DEF InitObjTypeMap, TypeInv
<1>2. ASSUME NEW a \in Addr, NEW f \in FakeVPtr,
             UpdateDirectOinfo(a, f) \/ HandleReinterpretCast(a, f)
      PROVE  TypeInv'
  <2>1. /\ updateOne(a, 1, f)
        /\ live' = [live EXCEPT ![a] = f]
        /\ UNCHANGED <<mapReady, call, verdict, alloc>>
    BY <1>2 DEF UpdateDirectOinfo, HandleReinterpretCast
  <2>2. /\ ObjTypeMap' \in [Slot -> Entry]
        /\ hexTree' \in [Slot -> [Key -> Entry \cup {None}]]
    BY <1>0, <2>1, UpdateOneType
  <2>3. TypeOK'
    BY <1>0, <2>1, <2>2 DEF TypeOK
  <2>4. QED
    BY <2>1, <2>3, CallPartsUnchanged DEF TypeInv
<1>3. ASSUME NEW a \in Addr, RemoveDirectOinfo(a)
      PROVE  TypeInv'
  <2>1. /\ ObjTypeMap' \in [Slot -> Entry]
        /\ hexTree' \in [Slot -> [Key -> Entry \cup {None}]]
    BY <1>0, <1>3, RemoveOneType DEF RemoveDirectOinfo
  <2>2. TypeOK'
    BY <1>0, <1>3, <2>1 DEF RemoveDirectOinfo, TypeOK, killed
  <2>3. QED
    BY <1>3, <2>2, CallPartsUnchanged DEF RemoveDirectOinfo, TypeInv
<1>4. ASSUME NEW a \in Addr, Unwind(a)
      PROVE  TypeInv'
  <2>1. TypeOK'
    BY <1>0, <1>4 DEF Unwind, TypeOK, killed
  <2>2. ArraysInAddr'
    BY <1>0, <1>4 DEF Unwind, TypeOK, ArraysInAddr, arrayElems
  <2>3. UpdateCall' /\ ReallocCall'
    BY <1>4 DEF Unwind, ready, Idle, UpdateCall, ReallocCall, NullPtr
  <2>4. QED
    BY <2>1, <2>2, <2>3 DEF TypeInv
<1>5. ASSUME NEW a \in Addr, NEW ts \in TypeSizes, NEW n \in ArraySizes,
             NEW f \in FakeVPtr, NEW kind \in AllocType,
             UpdateOinfo(a, ts, n, f, kind)
      PROVE  TypeInv'
  <2> DEFINE new == [TypeSize |-> ts, ArraySize |-> n, kind |-> kind]
  <2>1. new \in Alloc /\ new # None
    BY NoneAssumption DEF Alloc
  <2>2. alloc' = [alloc EXCEPT ![a] = new]
    BY <1>5 DEF UpdateOinfo
  <2>3. call' = [Idle EXCEPT !.op = "update", !.addr = a, !.TypeSize = ts,
                             !.ArraySize = n, !.fvp = f]
    BY <1>5 DEF UpdateOinfo
  <2>4. call' \in Call
    BY <2>3, ParametersNat DEF Idle, Call
  <2>5. TypeOK'
    BY <1>0, <1>5, <2>1, <2>2, <2>4 DEF UpdateOinfo, TypeOK
  <2>6. ArraysInAddr'
    BY <1>0, <1>5, <2>2 DEF UpdateOinfo, FreshArray, TypeOK, ArraysInAddr,
       arrayElems
  <2>7. UpdateCall' /\ ReallocCall'
    BY <1>0, <2>1, <2>2, <2>3 DEF TypeOK, Idle, UpdateCall, ReallocCall,
       NullPtr
  <2>8. QED
    BY <2>5, <2>6, <2>7 DEF TypeInv
<1>6. ASSUME NEW a \in Addr, RemoveOinfo(a)
      PROVE  TypeInv'
  <2>1. PICK passed \in Nat :
          call' = [Idle EXCEPT !.op = "remove", !.addr = a,
                     !.TypeSize = alloc[a].TypeSize,
                     !.ArraySize = removedSize(a, passed, alloc[a].kind)]
    <3>1. alloc[a] \in Alloc
      BY <1>0, <1>6 DEF RemoveOinfo, TypeOK
    <3>2. alloc[a].ArraySize \in Nat
      BY <3>1, ParametersNat DEF Alloc
    <3>3. QED
      BY <1>6, <3>2 DEF RemoveOinfo
  <2>2. removedSize(a, passed, alloc[a].kind) \in Nat
    BY <1>0, RemovedSizeNat
  <2>3. alloc[a].TypeSize \in Nat
    BY <1>0, <1>6, ParametersNat DEF RemoveOinfo, TypeOK, Alloc
  <2>4. call' \in Call
    BY <2>1, <2>2, <2>3 DEF Idle, Call
  <2>5. TypeOK'
    BY <1>0, <1>6, <2>4 DEF RemoveOinfo, TypeOK, killed
  <2>6. ArraysInAddr'
    BY <1>0, <1>6 DEF RemoveOinfo, TypeOK, ArraysInAddr, arrayElems
  <2>7. UpdateCall' /\ ReallocCall'
    BY <2>1 DEF Idle, UpdateCall, ReallocCall, NullPtr
  <2>8. QED
    BY <2>5, <2>6, <2>7 DEF TypeInv
<1>7. ASSUME NEW a \in Addr, NEW b \in Addr, NEW n \in ArraySizes,
             NEW f \in FakeVPtr, ReallocOinfo(a, b, n, f)
      PROVE  TypeInv'
  <2> DEFINE ts  == alloc[a].TypeSize
             new == [TypeSize |-> ts, ArraySize |-> n, kind |-> "HEAPALLOC"]
  <2>1. ts \in TypeSizes
    BY <1>0, <1>7 DEF ReallocOinfo, TypeOK, Alloc
  <2>2. new \in Alloc /\ new # None
    BY <2>1, NoneAssumption DEF Alloc, AllocType
  <2>3. alloc' = [alloc EXCEPT ![a] = None, ![b] = new]
    BY <1>7 DEF ReallocOinfo
  <2>4. call' = [Idle EXCEPT !.op = "remove", !.addr = a, !.TypeSize = ts,
                   !.ArraySize = removedSize(a, n, "REALLOC"),
                   !.fvp = f, !.newAddr = b, !.newSize = n]
    BY <1>7 DEF ReallocOinfo
  <2>5. removedSize(a, n, "REALLOC") \in Nat
    BY <1>0, RemovedSizeNat
  <2>6. call' \in Call
    BY <2>1, <2>4, <2>5, ParametersNat DEF Idle, Call
  <2>7. TypeOK'
    BY <1>0, <1>7, <2>2, <2>3, <2>6 DEF ReallocOinfo, TypeOK, killed
  <2>8. elems(b, ts, n) \subseteq Addr
    BY <1>7 DEF ReallocOinfo
  <2>9. ArraysInAddr'
    BY <1>0, <2>3, <2>8 DEF TypeOK, ArraysInAddr, arrayElems
  <2>10. UpdateCall' /\ ReallocCall'
    BY <1>0, <2>2, <2>3, <2>4 DEF TypeOK, Idle, UpdateCall, ReallocCall
  <2>11. QED
    BY <2>7, <2>9, <2>10 DEF TypeInv
<1>8. CASE UpdateElem
  <2>1. current \in Addr /\ call.ArraySize \in 0 .. Word32 - 1
    BY <1>0, <1>8, CurrentInAddr DEF UpdateElem
  <2>2. call.fvp \in FakeVPtr
    BY <1>0, <1>8 DEF UpdateElem, UpdateCall
  <2>3. /\ ObjTypeMap' \in [Slot -> Entry]
        /\ hexTree' \in [Slot -> [Key -> Entry \cup {None}]]
    BY <1>0, <1>8, <2>1, <2>2, UpdateOneType DEF UpdateElem
  <2>4. call' \in Call
    BY <1>0, <1>8 DEF UpdateElem, TypeOK, Call
  <2>5. TypeOK'
    BY <1>0, <1>8, <2>1, <2>2, <2>3, <2>4 DEF UpdateElem, TypeOK
  <2>6. ArraysInAddr' /\ UpdateCall' /\ ReallocCall'
    BY <1>0, <1>8 DEF UpdateElem, TypeOK, Call, ArraysInAddr, arrayElems,
       UpdateCall, ReallocCall
  <2>7. QED
    BY <2>5, <2>6 DEF TypeInv
<1>9. CASE RemoveElem
  <2>1. /\ ObjTypeMap' \in [Slot -> Entry]
        /\ hexTree' \in [Slot -> [Key -> Entry \cup {None}]]
    BY <1>0, <1>9, CurrentNat, RemoveOneType DEF RemoveElem
  <2>2. call' \in Call
    BY <1>0, <1>9 DEF RemoveElem, TypeOK, Call
  <2>3. TypeOK'
    BY <1>0, <1>9, <2>1, <2>2 DEF RemoveElem, TypeOK
  <2>4. ArraysInAddr' /\ UpdateCall' /\ ReallocCall'
    BY <1>0, <1>9 DEF RemoveElem, TypeOK, Call, ArraysInAddr, arrayElems,
       UpdateCall, ReallocCall
  <2>5. QED
    BY <2>3, <2>4 DEF TypeInv
<1>10. CASE Return
  <2>1. call' \in Call
    BY <1>0, <1>10 DEF Return, TypeOK, Call, Idle
  <2>2. TypeOK'
    BY <1>0, <1>10, <2>1 DEF Return, TypeOK
  <2>3. ArraysInAddr'
    BY <1>0, <1>10 DEF Return, ArraysInAddr, arrayElems
  <2>4. UpdateCall' /\ ReallocCall'
    BY <1>0, <1>10 DEF Return, TypeOK, Call, Idle, UpdateCall, ReallocCall,
       NullPtr
  <2>5. QED
    BY <2>2, <2>3, <2>4 DEF TypeInv
<1>11. ASSUME NEW a \in Addr \cup {NullPtr}, NEW r \in Ranges,
              VerifyTypeCasting(a, r[1], r[2])
       PROVE  TypeInv'
  <2>1. TypeOK'
    <3>1. r[1] \in Nat /\ r[2] \in Nat
      BY RangeAssumption
    <3>2. castOutcome(a, r[1], r[2]) \in {"silent", "safe", "bad"}
      BY DEF castOutcome
    <3>3. verdict' \in Verdict
      BY <1>11, <3>1, <3>2 DEF VerifyTypeCasting, Verdict
    <3>4. QED
      BY <1>0, <1>11, <3>3 DEF VerifyTypeCasting, TypeOK
  <2>2. QED
    BY <1>11, <2>1, CallPartsUnchanged DEF VerifyTypeCasting, TypeInv
<1>12. CASE UNCHANGED vars
  <2>1. TypeOK'
    BY <1>0, <1>12 DEF vars, TypeOK
  <2>2. QED
    BY <1>12, <2>1, CallPartsUnchanged DEF vars, TypeInv
<1>13. QED
  BY <1>1, <1>2, <1>3, <1>4, <1>5, <1>6, <1>7, <1>8, <1>9, <1>10, <1>11,
     <1>12 DEF Next

(* Whatever the program does, the table, its trees and the array call in   *)
(* progress keep their types: no entry is ever written for an address      *)
(* outside the arrays and objects of the program.                          *)
THEOREM TypeCorrect == Spec => []TypeOK
<1>1. TypeInv => TypeOK
  BY DEF TypeInv
<1>2. QED
  BY <1>1, InitTypeInv, NextTypeInv, PTL DEF Spec

-----------------------------------------------------------------------------
(* Lookups are right, for addresses that the keys of a slot's tree tell    *)
(* apart, whatever the program does with them.                             *)

(* No two addresses of a slot agree in their low 32 bits.                  *)
KeyDistinct ==
  \A a, b \in Addr :
    getHash(a) = getHash(b) /\ compareKey(a) = compareKey(b) => a = b

-----------------------------------------------------------------------------
(* Entries are where their addresses hash to.                              *)

SlotHash ==
  \A s \in Slot :
    ObjTypeMap[s].ObjAddr # NullPtr => getHash(ObjTypeMap[s].ObjAddr) = s

TreeFiled ==
  \A s \in Slot, k \in Key :
    hexTree[s][k] # None =>
      /\ hexTree[s][k].ObjAddr \in Addr
      /\ getHash(hexTree[s][k].ObjAddr) = s
      /\ compareKey(hexTree[s][k].ObjAddr) = k

Filed == SlotHash /\ TreeFiled

(* An object address has a slot and a key, and is not the null pointer.    *)
LEMMA AddrHash ==
  \A a \in Addr : getHash(a) \in Slot /\ compareKey(a) \in Key /\ a # NullPtr
  BY HashInSlot, KeyInRange, ProgramAssumption DEF NullPtr

(* An entry is never mistaken for a missing one.                           *)
LEMMA EntryNotNone == None \notin Entry
  BY NoneAssumption

(* The occupant of a slot, if any, is an object address of the slot.       *)
LEMMA Occupant ==
  ASSUME TypeOK, SlotHash, NEW s \in Slot, ObjTypeMap[s].ObjAddr # NullPtr
  PROVE  /\ ObjTypeMap[s].ObjAddr \in Addr
         /\ getHash(ObjTypeMap[s].ObjAddr) = s
         /\ compareKey(ObjTypeMap[s].ObjAddr) \in Key
<1>1. ObjTypeMap[s].ObjAddr \in Addr
  BY DEF TypeOK, Entry
<1>2. QED
  BY <1>1, AddrHash DEF SlotHash

(* Registering files the new entry in its slot and the displaced one under *)
(* its own key.                                                            *)
LEMMA UpdateOneFiled ==
  ASSUME TypeOK, Filed, NEW a \in Addr, NEW n, NEW f, updateOne(a, n, f)
  PROVE  Filed'
<1> DEFINE s   == getHash(a)
           old == ObjTypeMap[s]
           new == [ObjAddr |-> a, HeapArraySize |-> n, FakeVPointer |-> f]
<1>1. s \in Slot /\ a # NullPtr
  BY AddrHash
<1>2. ObjTypeMap' = [ObjTypeMap EXCEPT ![s] = new]
  BY DEF updateOne
<1>3. SlotHash'
  <2>1. SUFFICES ASSUME NEW t \in Slot, ObjTypeMap'[t].ObjAddr # NullPtr
                 PROVE  getHash(ObjTypeMap'[t].ObjAddr) = t
    BY DEF SlotHash
  <2>2. CASE t = s
    BY <1>1, <1>2, <2>2 DEF TypeOK
  <2>3. CASE t # s
    BY <1>2, <2>1, <2>3 DEF Filed, SlotHash, TypeOK
  <2>4. QED
    BY <2>2, <2>3
<1>4. CASE old.ObjAddr \in {NullPtr, a}
  <2>1. hexTree' = hexTree
    BY <1>4 DEF updateOne
  <2>2. QED
    BY <1>3, <2>1 DEF Filed, TreeFiled
<1>5. CASE old.ObjAddr \notin {NullPtr, a}
  <2>1. hexTree' = [hexTree EXCEPT ![s][compareKey(old.ObjAddr)] = old]
    BY <1>5 DEF updateOne
  <2>2. /\ old.ObjAddr \in Addr /\ getHash(old.ObjAddr) = s
        /\ compareKey(old.ObjAddr) \in Key
    BY <1>1, <1>5, Occupant DEF Filed
  <2>3. SUFFICES ASSUME NEW t \in Slot, NEW k \in Key, hexTree'[t][k] # None
                 PROVE  /\ hexTree'[t][k].ObjAddr \in Addr
                        /\ getHash(hexTree'[t][k].ObjAddr) = t
                        /\ compareKey(hexTree'[t][k].ObjAddr) = k
    BY <1>3 DEF Filed, TreeFiled
  <2>4. CASE t = s /\ k = compareKey(old.ObjAddr)
    <3>1. hexTree'[t][k] = old
      BY <1>1, <2>1, <2>2, <2>4 DEF TypeOK
    <3>2. QED
      BY <2>2, <2>4, <3>1
  <2>5. CASE ~(t = s /\ k = compareKey(old.ObjAddr))
    <3>1. hexTree'[t][k] = hexTree[t][k]
      BY <1>1, <2>1, <2>2, <2>5 DEF TypeOK
    <3>2. QED
      BY <2>3, <3>1 DEF Filed, TreeFiled
  <2>6. QED
    BY <2>4, <2>5
<1>6. QED
  BY <1>4, <1>5

(* A removal only takes entries away.                                      *)
LEMMA RemoveOneFiled ==
  ASSUME TypeOK, Filed, NEW a \in Nat, removeOne(a)
  PROVE  Filed'
<1> DEFINE s == getHash(a)
<1>1. s \in Slot /\ compareKey(a) \in Key
  BY HashInSlot, KeyInRange
<1>2. CASE ObjTypeMap' = [ObjTypeMap EXCEPT ![s].ObjAddr = NullPtr]
           /\ UNCHANGED hexTree
  <2>1. \A t \in Slot : ObjTypeMap'[t].ObjAddr \in
                          {NullPtr, ObjTypeMap[t].ObjAddr}
    <3>1. ObjTypeMap[s] \in Entry
      BY <1>1 DEF TypeOK
    <3>2. ObjTypeMap'[s].ObjAddr = NullPtr
      BY <1>1, <1>2, <3>1 DEF TypeOK, Entry
    <3>3. QED
      BY <1>2, <3>2 DEF TypeOK
  <2>2. QED
    BY <1>2, <2>1 DEF Filed, SlotHash, TreeFiled
<1>3. CASE hexTree' = [hexTree EXCEPT ![s][compareKey(a)] = None]
           /\ UNCHANGED ObjTypeMap
  <2>1. \A t \in Slot, k \in Key : hexTree'[t][k] \in {None, hexTree[t][k]}
    BY <1>1, <1>3 DEF TypeOK
  <2>2. TreeFiled'
    BY <2>1 DEF Filed, TreeFiled
  <2>3. QED
    BY <1>3, <2>2 DEF Filed, SlotHash
<1>4. QED
  BY <1>2, <1>3 DEF removeOne

(* Every step, an iteration on dead storage too, leaves each entry where a *)
(* search for its address looks.                                           *)
LEMMA NextFiled == TypeInv /\ Filed /\ [Next]_vars => Filed'
<1> SUFFICES ASSUME TypeInv, Filed, [Next]_vars PROVE Filed'
  OBVIOUS
<1>0. TypeOK /\ ArraysInAddr /\ UpdateCall
  BY DEF TypeInv
<1>1. ASSUME UNCHANGED <<ObjTypeMap, hexTree>> PROVE Filed'
  BY <1>1 DEF Filed, SlotHash, TreeFiled
<1>2. CASE InitObjTypeMap
  <2>1. CASE ~mapReady
    BY <1>2, <2>1 DEF InitObjTypeMap, EmptySlot, Filed, SlotHash, TreeFiled
  <2>2. QED
    BY <1>1, <1>2, <2>1 DEF InitObjTypeMap
<1>3. ASSUME NEW a \in Addr, NEW f \in FakeVPtr,
             UpdateDirectOinfo(a, f) \/ HandleReinterpretCast(a, f)
      PROVE  Filed'
  BY <1>0, <1>3, UpdateOneFiled DEF UpdateDirectOinfo, HandleReinterpretCast
<1>4. ASSUME NEW a \in Addr, RemoveDirectOinfo(a) PROVE Filed'
  BY <1>0, <1>4, RemoveOneFiled, ProgramAssumption DEF RemoveDirectOinfo
<1>5. CASE UpdateElem
  BY <1>0, <1>5, CurrentInAddr, UpdateOneFiled DEF UpdateElem
<1>6. CASE RemoveElem
  BY <1>0, <1>6, CurrentNat, RemoveOneFiled DEF RemoveElem
<1>7. QED
  BY <1>1, <1>2, <1>3, <1>4, <1>5, <1>6 DEF Next, Unwind, UpdateOinfo,
     RemoveOinfo, ReallocOinfo, Return, VerifyTypeCasting, vars

(* No entry is misfiled before the first call.                             *)
LEMMA InitFiled == Init => Filed
  BY DEF Init, EmptySlot, Filed, SlotHash, TreeFiled

(* A filed entry answers for its own address only, if keys are distinct.   *)
LEMMA FiledOwn ==
  ASSUME KeyDistinct, TypeOK, Filed
  PROVE  OwnEntry
<1>1. SUFFICES ASSUME NEW a \in Addr, Found(a)
               PROVE  findObjInfo(a).ObjAddr = a
  BY DEF OwnEntry
<1>2. CASE InSlot(a)
  BY <1>2 DEF InSlot, findObjInfo
<1>3. CASE ~InSlot(a)
  <2> DEFINE e == hexTree[getHash(a)][compareKey(a)]
  <2>1. e # None /\ findObjInfo(a) = e
    BY <1>1, <1>3 DEF Found, InTree, findObjInfo
  <2>2. /\ e.ObjAddr \in Addr /\ getHash(e.ObjAddr) = getHash(a)
        /\ compareKey(e.ObjAddr) = compareKey(a)
    BY <2>1, AddrHash DEF Filed, TreeFiled
  <2>3. QED
    BY <2>1, <2>2 DEF KeyDistinct
<1>4. QED
  BY <1>2, <1>3

(* As long as the low words tell the addresses of a slot apart, the entry  *)
(* that a lookup returns is the one of the address looked up.              *)
THEOREM EntryOwned == KeyDistinct /\ Spec => []OwnEntry
<1> DEFINE OwnInv == KeyDistinct /\ TypeInv /\ Filed
<1>1. KeyDistinct /\ Init => OwnInv
  BY InitTypeInv, InitFiled
<1>2. OwnInv /\ [Next]_vars => OwnInv'
  BY NextTypeInv, NextFiled DEF KeyDistinct
<1>3. OwnInv => OwnEntry
  BY FiledOwn DEF TypeInv
<1>4. QED
  BY <1>1, <1>2, <1>3, PTL DEF Spec

-----------------------------------------------------------------------------
(* What an operation on one address does to lookups of the others.         *)

(* Registering a makes a lookup of a return the new entry, and changes no  *)
(* other lookup: the displaced occupant is found again in the tree.        *)
LEMMA UpdateOneLookup ==
  ASSUME KeyDistinct, TypeOK, Filed, NEW a \in Addr, NEW n, NEW f,
         updateOne(a, n, f)
  PROVE  /\ Found(a)'
         /\ findObjInfo(a)' = [ObjAddr |-> a, HeapArraySize |-> n,
                               FakeVPointer |-> f]
         /\ \A b \in Addr \ {a} :
              /\ Found(b)' <=> Found(b)
              /\ Found(b) => findObjInfo(b)' = findObjInfo(b)
<1> DEFINE s   == getHash(a)
           old == ObjTypeMap[s]
           new == [ObjAddr |-> a, HeapArraySize |-> n, FakeVPointer |-> f]
<1>1. s \in Slot /\ a # NullPtr
  BY AddrHash
<1>2. ObjTypeMap' = [ObjTypeMap EXCEPT ![s] = new]
  BY DEF updateOne
<1>3. ObjTypeMap'[s] = new
  BY <1>1, <1>2 DEF TypeOK
<1>4. Found(a)' /\ findObjInfo(a)' = new
  BY <1>3 DEF Found, InSlot, findObjInfo
<1>5. ASSUME NEW b \in Addr \ {a}
      PROVE  /\ Found(b)' <=> Found(b)
             /\ Found(b) => findObjInfo(b)' = findObjInfo(b)
  <2> DEFINE t == getHash(b)
             k == compareKey(b)
  <2>1. t \in Slot /\ k \in Key /\ b # NullPtr
    BY AddrHash
  <2>2. CASE t # s
    <3>1. ObjTypeMap'[t] = ObjTypeMap[t]
      BY <1>2, <2>1, <2>2 DEF TypeOK
    <3>2. hexTree'[t] = hexTree[t]
      BY <1>1, <2>1, <2>2 DEF updateOne, TypeOK
    <3>3. QED
      BY <3>1, <3>2 DEF Found, InSlot, InTree, findObjInfo
  <2>3. CASE t = s
    <3>1. ~InSlot(b)'
      BY <1>3, <1>5, <2>3 DEF InSlot
    <3>2. CASE old.ObjAddr \in {NullPtr, a}
      <4>1. hexTree' = hexTree /\ ~InSlot(b)
        BY <1>5, <2>1, <2>3, <3>2 DEF updateOne, InSlot
      <4>2. QED
        BY <3>1, <4>1 DEF Found, InTree, findObjInfo
    <3>3. CASE old.ObjAddr \notin {NullPtr, a}
      <4>1. hexTree' = [hexTree EXCEPT ![s][compareKey(old.ObjAddr)] = old]
        BY <3>3 DEF updateOne
      <4>2. /\ old.ObjAddr \in Addr /\ getHash(old.ObjAddr) = s
            /\ compareKey(old.ObjAddr) \in Key
        BY <1>1, <3>3, Occupant DEF Filed
      <4>3. CASE b = old.ObjAddr
        <5>1. hexTree'[t][k] = old
          BY <1>1, <2>1, <2>3, <4>1, <4>2, <4>3 DEF TypeOK
        <5>2. old # None
          BY <1>1, EntryNotNone DEF TypeOK
        <5>3. InSlot(b)
          BY <2>3, <4>3 DEF InSlot
        <5>4. InTree(b)' /\ findObjInfo(b)' = old
          BY <3>1, <5>1, <5>2 DEF InTree, findObjInfo
        <5>5. QED
          BY <2>3, <5>3, <5>4 DEF Found, findObjInfo
      <4>4. CASE b # old.ObjAddr
        <5>1. k # compareKey(old.ObjAddr)
          BY <2>3, <4>2, <4>4 DEF KeyDistinct
        <5>2. hexTree'[t][k] = hexTree[t][k]
          BY <1>1, <2>1, <2>3, <4>1, <4>2, <5>1 DEF TypeOK
        <5>3. ~InSlot(b)
          BY <2>3, <4>4 DEF InSlot
        <5>4. QED
          BY <3>1, <5>2, <5>3 DEF Found, InTree, findObjInfo
      <4>5. QED
        BY <4>3, <4>4
    <3>4. QED
      BY <3>2, <3>3
  <2>4. QED
    BY <2>2, <2>3
<1>6. QED
  BY <1>4, <1>5

(* Removing a changes no lookup of another address.                        *)
LEMMA RemoveOneLookup ==
  ASSUME KeyDistinct, TypeOK, NEW a \in Addr, removeOne(a)
  PROVE  \A b \in Addr \ {a} :
           /\ Found(b)' <=> Found(b)
           /\ Found(b) => findObjInfo(b)' = findObjInfo(b)
<1> DEFINE s == getHash(a)
<1>1. s \in Slot /\ compareKey(a) \in Key
  BY AddrHash
<1> SUFFICES ASSUME NEW b \in Addr \ {a}
             PROVE  /\ Found(b)' <=> Found(b)
                    /\ Found(b) => findObjInfo(b)' = findObjInfo(b)
  OBVIOUS
<1> DEFINE t == getHash(b)
           k == compareKey(b)
<1>2. t \in Slot /\ k \in Key /\ b # NullPtr
  BY AddrHash
<1>3. CASE /\ InSlot(a)
           /\ ObjTypeMap' = [ObjTypeMap EXCEPT ![s].ObjAddr = NullPtr]
           /\ UNCHANGED hexTree
  <2>1. CASE t = s
    <3>1. ObjTypeMap[s] \in Entry
      BY <1>1 DEF TypeOK
    <3>2. ObjTypeMap'[s].ObjAddr = NullPtr
      BY <1>1, <1>3, <3>1 DEF TypeOK, Entry
    <3>3. ~InSlot(b) /\ ~InSlot(b)'
      BY <1>2, <1>3, <2>1, <3>2 DEF InSlot
    <3>4. QED
      BY <1>3, <3>3 DEF Found, InTree, findObjInfo
  <2>2. CASE t # s
    <3>1. ObjTypeMap'[t] = ObjTypeMap[t]
      BY <1>2, <1>3, <2>2 DEF TypeOK
    <3>2. QED
      BY <1>3, <3>1 DEF Found, InSlot, InTree, findObjInfo
  <2>3. QED
    BY <2>1, <2>2
<1>4. CASE hexTree' = [hexTree EXCEPT ![s][compareKey(a)] = None]
           /\ UNCHANGED ObjTypeMap
  <2>1. t # s \/ k # compareKey(a)
    BY DEF KeyDistinct
  <2>2. hexTree'[t][k] = hexTree[t][k]
    BY <1>1, <1>2, <1>4, <2>1 DEF TypeOK
  <2>3. QED
    BY <1>4, <2>2 DEF Found, InSlot, InTree, findObjInfo
<1>5. QED
  BY <1>3, <1>4 DEF removeOne

-----------------------------------------------------------------------------
(* What the program guarantees about its arrays, none of which is empty,   *)
(* and what the runtime has recorded of them.                              *)

NoEmptyArrays == 0 \notin ArraySizes

BeforeInit == ~mapReady => call = Idle /\ \A a \in Addr : live[a] = None

ArraysDisjoint ==
  \A b, c \in Addr :
    alloc[b] # None /\ alloc[c] # None /\ b # c =>
      arrayElems(b) \cap arrayElems(c) = {}

(* The first element of an array is registered, or is about to be.         *)
BaseLive ==
  \A b \in Addr : alloc[b] # None =>
    \/ live[b] # None
    \/ call.op = "update" /\ call.addr = b /\ call.i = 0
    \/ call.op = "remove" /\ call.newAddr = b

(* The length recorded for an array on the heap, which its release relies  *)
(* on, is never too large.                                                 *)
HeapSize ==
  \A b \in Addr :
    alloc[b] # None /\ alloc[b].kind = "HEAPALLOC" /\ live[b] # None =>
      findObjInfo(b).HeapArraySize <= alloc[b].ArraySize

(* A removal in progress only touches addresses of dead objects.           *)
DeadElems ==
  call.op = "remove" =>
    \A i \in 0 .. call.ArraySize - 1 :
      LET e == elemAddr(call.addr, call.TypeSize, i)
      IN e \in Addr /\ live[e] = None

LiveInv ==
  /\ KeyDistinct /\ NoEmptyArrays
  /\ TypeInv /\ Filed
  /\ LiveLookup /\ BeforeInit /\ ArraysDisjoint /\ BaseLive
  /\ HeapSize /\ DeadElems

(* An array that is not empty starts with an element.                      *)
LEMMA ArrayBase ==
  ASSUME TypeOK, NoEmptyArrays, NEW b \in Addr, alloc[b] # None
  PROVE  /\ alloc[b] \in Alloc
         /\ alloc[b].ArraySize \in Nat \ {0}
         /\ alloc[b].TypeSize \in Nat
         /\ b \in arrayElems(b)
<1>1. alloc[b] \in Alloc
  BY DEF TypeOK
<1>2. alloc[b].ArraySize \in Nat \ {0} /\ alloc[b].TypeSize \in Nat
  BY <1>1, ParametersNat DEF Alloc, NoEmptyArrays
<1>3. 0 \in 0 .. alloc[b].ArraySize - 1
  BY <1>2
<1>4. b = elemAddr(b, alloc[b].TypeSize, 0)
  BY <1>2, ElemZero, ParametersNat
<1>5. b \in arrayElems(b)
  BY <1>3, <1>4 DEF arrayElems, elems
<1>6. QED
  BY <1>1, <1>2, <1>5

(* A live object is never mistaken for a dead one.                         *)
LEMMA FvpNotNone == \A f \in FakeVPtr : f # None
  BY ParametersNat, NoneAssumption

(* The objects of a storage die, the others stay as they are.              *)
LEMMA KilledLive ==
  ASSUME NEW S, NEW b \in Addr
  PROVE  killed(S)[b] = IF b \in S THEN None ELSE live[b]
  BY DEF killed

(* The elements that a release removes belong to the array.                *)
LEMMA RemovedSizeBound ==
  ASSUME LiveInv, call.op = "idle", NEW a \in Addr, alloc[a] # None,
         NEW n \in Nat, NEW kind \in {"STACKALLOC", "HEAPALLOC", "REALLOC"},
         IF kind = "STACKALLOC" THEN n = alloc[a].ArraySize
         ELSE alloc[a].kind = "HEAPALLOC"
  PROVE  /\ removedSize(a, n, kind) \in Nat
         /\ removedSize(a, n, kind) <= alloc[a].ArraySize
<1>1. TypeOK /\ NoEmptyArrays
  BY DEF LiveInv, TypeInv
<1>2. removedSize(a, n, kind) \in Nat
  BY <1>1, RemovedSizeNat
<1>3. alloc[a].ArraySize \in Nat
  BY <1>1, ArrayBase
<1>4. CASE kind = "STACKALLOC"
  BY <1>2, <1>3, <1>4 DEF removedSize
<1>5. CASE kind # "STACKALLOC"
  <2>1. live[a] # None
    BY DEF LiveInv, BaseLive
  <2>2. Found(a)
    BY <2>1 DEF LiveInv, LiveLookup
  <2>3. findObjInfo(a).HeapArraySize <= alloc[a].ArraySize
    BY <1>5, <2>1 DEF LiveInv, HeapSize
  <2>4. QED
    BY <1>2, <1>5, <2>2, <2>3 DEF removedSize
<1>6. QED
  BY <1>4, <1>5

(* The program only runs between the calls.                                *)
LEMMA ReadyIdle == ready => call.op = "idle" /\ mapReady
  BY DEF ready, Idle

-----------------------------------------------------------------------------
(* Preservation, one lemma for each part of the invariant.                 *)

(* The program creates no object before the first module constructor.      *)
LEMMA NextBeforeInit == LiveInv /\ [Next]_vars => BeforeInit'
<1> SUFFICES ASSUME LiveInv, [Next]_vars, ~mapReady'
             PROVE  call' = Idle /\ \A a \in Addr : live'[a] = None
  BY DEF BeforeInit
<1>1. BeforeInit
  BY DEF LiveInv
<1>2. CASE UNCHANGED vars
  BY <1>1, <1>2 DEF BeforeInit, vars
<1>3. ~InitObjTypeMap
  BY DEF InitObjTypeMap
<1>4. ASSUME ready, mapReady' = mapReady PROVE FALSE
  BY <1>4 DEF ready
<1>5. ASSUME call.op # "idle", mapReady' = mapReady PROVE FALSE
  BY <1>1, <1>5 DEF BeforeInit, Idle
<1>6. QED
  BY <1>2, <1>3, <1>4, <1>5 DEF Next, UpdateDirectOinfo,
     HandleReinterpretCast, RemoveDirectOinfo, Unwind, UpdateOinfo,
     RemoveOinfo, ReallocOinfo, UpdateElem, RemoveElem, Return,
     VerifyTypeCasting

(* Live arrays never share an element: realloc may only reuse the storage  *)
(* of the array it moves.                                                  *)
LEMMA NextArraysDisjoint == LiveInv /\ [Next]_vars => ArraysDisjoint'
<1> SUFFICES ASSUME LiveInv, [Next]_vars PROVE ArraysDisjoint'
  OBVIOUS
<1>0. TypeOK /\ NoEmptyArrays /\ ArraysDisjoint
  BY DEF LiveInv, TypeInv
<1>1. ASSUME \A b \in Addr : alloc'[b] \in {None, alloc[b]}
      PROVE  ArraysDisjoint'
  BY <1>0, <1>1 DEF ArraysDisjoint, arrayElems
<1>2. ASSUME NEW a \in Addr, NEW ts \in TypeSizes, NEW n \in ArraySizes,
             NEW f \in FakeVPtr, NEW kind \in AllocType,
             UpdateOinfo(a, ts, n, f, kind)
      PROVE  ArraysDisjoint'
  <2> DEFINE new == [TypeSize |-> ts, ArraySize |-> n, kind |-> kind]
  <2>1. alloc' = [alloc EXCEPT ![a] = new]
    BY <1>2 DEF UpdateOinfo
  <2>2. ASSUME NEW c \in Addr \ {a}, alloc[c] # None
        PROVE  elems(a, ts, n) \cap arrayElems(c) = {}
    BY <1>2, <2>2 DEF UpdateOinfo, FreshArray, InArray
  <2>3. arrayElems(a)' = elems(a, ts, n)
    BY <1>0, <2>1 DEF arrayElems, TypeOK
  <2>4. \A c \in Addr \ {a} : alloc'[c] = alloc[c]
                              /\ arrayElems(c)' = arrayElems(c)
    BY <1>0, <2>1 DEF arrayElems, TypeOK
  <2>5. QED
    BY <1>0, <2>2, <2>3, <2>4 DEF ArraysDisjoint
<1>3. ASSUME NEW a \in Addr, NEW b \in Addr, NEW n \in ArraySizes,
             NEW f \in FakeVPtr, ReallocOinfo(a, b, n, f)
      PROVE  ArraysDisjoint'
  <2> DEFINE ts  == alloc[a].TypeSize
             new == [TypeSize |-> ts, ArraySize |-> n, kind |-> "HEAPALLOC"]
  <2>1. alloc' = [alloc EXCEPT ![a] = None, ![b] = new]
    BY <1>3 DEF ReallocOinfo
  <2>2. alloc[a] # None /\ a \in arrayElems(a)
    BY <1>0, <1>3, ArrayBase DEF ReallocOinfo
  <2>3. ASSUME NEW c \in Addr \ {a}, alloc[c] # None
        PROVE  elems(b, ts, n) \cap arrayElems(c) = {}
    <3>1. arrayElems(a) \cap arrayElems(c) = {}
      BY <1>0, <2>2, <2>3 DEF ArraysDisjoint
    <3>2. \A e \in elems(b, ts, n) \ (arrayElems(a) \cup {a}) : ~InArray(e)
      BY <1>3 DEF ReallocOinfo
    <3>3. QED
      BY <2>2, <2>3, <3>1, <3>2 DEF InArray
  <2>4. arrayElems(b)' = elems(b, ts, n)
    BY <1>0, <2>1 DEF arrayElems, TypeOK
  <2>5. \A c \in Addr \ {b} : alloc'[c] # None =>
          c # a /\ alloc[c] # None /\ arrayElems(c)' = arrayElems(c)
    BY <1>0, <2>1 DEF arrayElems, TypeOK
  <2>6. QED
    BY <1>0, <2>3, <2>4, <2>5 DEF ArraysDisjoint
<1>4. ASSUME UNCHANGED alloc
      PROVE  ArraysDisjoint'
  BY <1>1, <1>4
<1>5. ASSUME NEW a \in Addr, Unwind(a) \/ RemoveOinfo(a)
      PROVE  ArraysDisjoint'
  <2>1. alloc' \in {alloc, [alloc EXCEPT ![a] = None]}
    BY <1>5 DEF Unwind, RemoveOinfo
  <2>2. QED
    BY <1>0, <1>1, <2>1 DEF TypeOK
<1>6. QED
  BY <1>2, <1>3, <1>4, <1>5 DEF Next, InitObjTypeMap, UpdateDirectOinfo,
     HandleReinterpretCast, RemoveDirectOinfo, UpdateElem, RemoveElem, Return,
     VerifyTypeCasting, vars

(* Between calls, the first element of every live array is live.           *)
LEMMA NextBaseLive == LiveInv /\ [Next]_vars => BaseLive'
<1> SUFFICES ASSUME LiveInv, [Next]_vars PROVE BaseLive'
  OBVIOUS
<1>0. /\ TypeOK /\ NoEmptyArrays /\ ArraysDisjoint /\ BaseLive
      /\ UpdateCall /\ ReallocCall
  BY DEF LiveInv, TypeInv
<1>1. ASSUME UNCHANGED <<call, live, alloc>> PROVE BaseLive'
  BY <1>0, <1>1 DEF BaseLive
<1>2. ASSUME NEW a \in Addr, NEW f \in FakeVPtr,
             live' = [live EXCEPT ![a] = f], UNCHANGED <<call, alloc>>
      PROVE  BaseLive'
  <2>1. \A b \in Addr : live[b] # None => live'[b] # None
    BY <1>0, <1>2, FvpNotNone DEF TypeOK
  <2>2. QED
    BY <1>0, <1>2, <2>1 DEF BaseLive
<1>3. ASSUME NEW a \in Addr, ready, ~InArray(a),
             live' = killed({a}), UNCHANGED <<call, alloc>>
      PROVE  BaseLive'
  <2>1. \A b \in Addr : alloc[b] # None => b # a
    BY <1>0, <1>3, ArrayBase DEF InArray
  <2>2. \A b \in Addr : alloc[b] # None => live'[b] # None
    BY <1>0, <1>3, <2>1, KilledLive, ReadyIdle DEF BaseLive
  <2>3. QED
    BY <1>3, <2>2 DEF BaseLive
(* the storage of one array dies, and nothing else *)
<1>4. ASSUME NEW a \in Addr, ready, alloc[a] # None,
             live' = killed(arrayElems(a)),
             \A b \in Addr : alloc'[b] # None =>
               \/ b # a /\ alloc[b] # None
               \/ call'.op = "remove" /\ call'.newAddr = b
      PROVE  BaseLive'
  <2>1. \A b \in Addr : b # a /\ alloc[b] # None => b \notin arrayElems(a)
    BY <1>0, <1>4, ArrayBase DEF ArraysDisjoint
  <2>2. \A b \in Addr : b # a /\ alloc[b] # None => live'[b] # None
    BY <1>0, <1>4, <2>1, KilledLive, ReadyIdle DEF BaseLive
  <2>3. QED
    BY <1>4, <2>2 DEF BaseLive
<1>5. ASSUME NEW a \in Addr, Unwind(a) PROVE BaseLive'
  <2>1. CASE ~InArray(a) /\ live' = killed({a}) /\ UNCHANGED alloc
    BY <1>3, <1>5, <2>1 DEF Unwind
  <2>2. CASE /\ alloc[a] # None
             /\ live' = killed(arrayElems(a))
             /\ alloc' = [alloc EXCEPT ![a] = None]
    BY <1>0, <1>4, <1>5, <2>2 DEF Unwind, TypeOK
  <2>3. QED
    BY <1>5, <2>1, <2>2 DEF Unwind
<1>6. ASSUME NEW a \in Addr, NEW ts \in TypeSizes, NEW n \in ArraySizes,
             NEW f \in FakeVPtr, NEW kind \in AllocType,
             UpdateOinfo(a, ts, n, f, kind)
      PROVE  BaseLive'
  <2>1. call'.op = "update" /\ call'.addr = a /\ call'.i = 0
    BY <1>6 DEF UpdateOinfo, Idle
  <2>2. \A b \in Addr \ {a} : alloc'[b] # None => live'[b] # None
    BY <1>0, <1>6, ReadyIdle DEF UpdateOinfo, TypeOK, BaseLive
  <2>3. QED
    BY <2>1, <2>2 DEF BaseLive
<1>7. ASSUME NEW a \in Addr, RemoveOinfo(a) PROVE BaseLive'
  BY <1>0, <1>4, <1>7 DEF RemoveOinfo, TypeOK
<1>8. ASSUME NEW a \in Addr, NEW b \in Addr, NEW n \in ArraySizes,
             NEW f \in FakeVPtr, ReallocOinfo(a, b, n, f)
      PROVE  BaseLive'
  <2>1. call'.op = "remove" /\ call'.newAddr = b
    BY <1>8 DEF ReallocOinfo, Idle
  <2>2. \A c \in Addr : alloc'[c] # None => c = b \/ (c # a /\ alloc[c] # None)
    BY <1>0, <1>8 DEF ReallocOinfo, TypeOK
  <2>3. QED
    BY <1>4, <1>8, <2>1, <2>2 DEF ReallocOinfo
<1>9. CASE UpdateElem
  <2>1. current \in Addr /\ call.fvp \in FakeVPtr
    BY <1>0, <1>9, CurrentInAddr DEF UpdateElem, UpdateCall, LiveInv, TypeInv
  <2>2. \A b \in Addr : live[b] # None => live'[b] # None
    BY <1>0, <1>9, <2>1, FvpNotNone DEF UpdateElem, TypeOK
  <2>3. live'[current] # None
    BY <1>0, <1>9, <2>1, FvpNotNone DEF UpdateElem, TypeOK
  <2>4. call.i = 0 => current = call.addr
    BY <1>0, ElemZero DEF TypeOK, Call, current
  <2>5. QED
    BY <1>0, <1>9, <2>2, <2>3, <2>4 DEF UpdateElem, BaseLive
<1>10. CASE RemoveElem
  <2>1. /\ call'.op = call.op /\ call'.newAddr = call.newAddr
        /\ call.op = "remove"
    BY <1>0, <1>10 DEF RemoveElem, TypeOK, Call
  <2>2. QED
    BY <1>0, <1>10, <2>1 DEF RemoveElem, BaseLive
<1>11. CASE Return
  <2>1. /\ UNCHANGED <<live, alloc>>
        /\ call.op # "idle" /\ call.i >= call.ArraySize
    BY <1>11 DEF Return
  <2>2. call.op = "update" => call.i # 0
    BY <1>0, <2>1, ArrayBase DEF UpdateCall, TypeOK, Call
  <2>3. CASE call.newAddr = NullPtr
    <3>1. \A b \in Addr : alloc[b] # None => live[b] # None
      BY <1>0, <2>2, <2>3, AddrHash DEF BaseLive
    <3>2. QED
      BY <2>1, <3>1 DEF BaseLive
  <2>4. CASE call.newAddr # NullPtr
    <3>1. call'.op = "update" /\ call'.addr = call.newAddr /\ call'.i = 0
      BY <1>11, <2>4 DEF Return, Idle
    <3>2. QED
      BY <1>0, <2>1, <2>2, <3>1 DEF BaseLive
  <2>5. QED
    BY <2>3, <2>4
<1>12. QED
  BY <1>1, <1>2, <1>3, <1>5, <1>6, <1>7, <1>8, <1>9, <1>10, <1>11
     DEF Next, InitObjTypeMap, UpdateDirectOinfo, HandleReinterpretCast,
     RemoveDirectOinfo, VerifyTypeCasting, vars

(* What a removal takes from the map was killed when the release began,    *)
(* so that no removal, by a recorded length or by that of a stack array,   *)
(* reaches a live neighbour.                                               *)
LEMMA NextDeadElems == LiveInv /\ [Next]_vars => DeadElems'
<1> SUFFICES ASSUME LiveInv, [Next]_vars PROVE DeadElems'
  OBVIOUS
<1>0. TypeOK /\ NoEmptyArrays /\ ArraysInAddr /\ DeadElems
  BY DEF LiveInv, TypeInv
<1>1. ASSUME call'.op # "remove" PROVE DeadElems'
  BY <1>1 DEF DeadElems
<1>2. ASSUME UNCHANGED <<call, live>> PROVE DeadElems'
  BY <1>0, <1>2 DEF DeadElems
<1>3. ASSUME ready, UNCHANGED call PROVE DeadElems'
  BY <1>1, <1>3, ReadyIdle
(* a release: the array's elements die, and no others are removed *)
<1>4. ASSUME NEW a \in Addr, alloc[a] # None, live' = killed(arrayElems(a)),
             call'.addr = a, call'.TypeSize = alloc[a].TypeSize,
             call'.ArraySize \in Nat, call'.ArraySize <= alloc[a].ArraySize
      PROVE  DeadElems'
  <2>1. alloc[a].ArraySize \in Nat
    BY <1>0, <1>4, ArrayBase
  <2> SUFFICES ASSUME NEW i \in 0 .. call'.ArraySize - 1
               PROVE  LET e == elemAddr(a, alloc[a].TypeSize, i)
                      IN e \in Addr /\ live'[e] = None
    BY <1>4 DEF DeadElems
  <2> DEFINE e == elemAddr(a, alloc[a].TypeSize, i)
  <2>2. i \in 0 .. alloc[a].ArraySize - 1
    BY <1>4, <2>1
  <2>3. e \in arrayElems(a)
    BY <2>2 DEF arrayElems, elems
  <2>4. e \in Addr
    BY <1>0, <1>4, <2>3 DEF ArraysInAddr
  <2>5. live'[e] = None
    BY <1>4, <2>3, <2>4, KilledLive
  <2>6. QED
    BY <2>4, <2>5
<1>5. ASSUME NEW a \in Addr, RemoveOinfo(a) PROVE DeadElems'
  <2> DEFINE passed == IF alloc[a].kind = "STACKALLOC" THEN alloc[a].ArraySize
                       ELSE 1
             size   == removedSize(a, passed, alloc[a].kind)
  <2>1. alloc[a] # None /\ ready /\ live' = killed(arrayElems(a))
    BY <1>5 DEF RemoveOinfo
  <2>2. /\ alloc[a].kind \in {"STACKALLOC", "HEAPALLOC"}
        /\ passed \in Nat
    BY <1>0, <2>1, ArrayBase DEF Alloc, AllocType
  <2>3. size \in Nat /\ size <= alloc[a].ArraySize
    BY <2>1, <2>2, RemovedSizeBound, ReadyIdle
  <2>4. call' = [Idle EXCEPT !.op = "remove", !.addr = a,
                   !.TypeSize = alloc[a].TypeSize, !.ArraySize = size]
    BY <1>5 DEF RemoveOinfo
  <2>5. /\ call'.addr = a /\ call'.TypeSize = alloc[a].TypeSize
        /\ call'.ArraySize = size
    BY <2>4 DEF Idle
  <2>6. QED
    BY <1>4, <2>1, <2>3, <2>5
<1>6. ASSUME NEW a \in Addr, NEW b \in Addr, NEW n \in ArraySizes,
             NEW f \in FakeVPtr, ReallocOinfo(a, b, n, f)
      PROVE  DeadElems'
  <2> DEFINE size == removedSize(a, n, "REALLOC")
  <2>1. /\ alloc[a] # None /\ ready /\ live' = killed(arrayElems(a))
        /\ alloc[a].kind = "HEAPALLOC"
    BY <1>6 DEF ReallocOinfo
  <2>2. n \in Nat
    BY ParametersNat
  <2>3. size \in Nat /\ size <= alloc[a].ArraySize
    BY <2>1, <2>2, RemovedSizeBound, ReadyIdle
  <2>4. call' = [Idle EXCEPT !.op = "remove", !.addr = a,
                   !.TypeSize = alloc[a].TypeSize, !.ArraySize = size,
                   !.fvp = f, !.newAddr = b, !.newSize = n]
    BY <1>6 DEF ReallocOinfo
  <2>5. /\ call'.addr = a /\ call'.TypeSize = alloc[a].TypeSize
        /\ call'.ArraySize = size
    BY <2>4 DEF Idle
  <2>6. QED
    BY <1>4, <2>1, <2>3, <2>5
<1>7. CASE RemoveElem
  <2>1. /\ call'.op = call.op /\ call'.addr = call.addr
        /\ call'.TypeSize = call.TypeSize /\ call'.ArraySize = call.ArraySize
        /\ live' = live
    BY <1>0, <1>7 DEF RemoveElem, TypeOK, Call
  <2>2. QED
    BY <1>0, <2>1 DEF DeadElems
<1>8. CASE UpdateElem
  <2>1. call'.op = "update"
    BY <1>0, <1>8 DEF UpdateElem, TypeOK, Call
  <2>2. QED
    BY <1>1, <2>1
<1>9. CASE Return
  <2>1. call'.op # "remove"
    BY <1>9 DEF Return, Idle
  <2>2. QED
    BY <1>1, <2>1
<1>10. ASSUME NEW a \in Addr, NEW ts \in TypeSizes, NEW n \in ArraySizes,
             NEW f \in FakeVPtr, NEW kind \in AllocType,
             UpdateOinfo(a, ts, n, f, kind)
      PROVE  DeadElems'
  <2>1. call'.op = "update"
    BY <1>10 DEF UpdateOinfo, Idle
  <2>2. QED
    BY <1>1, <2>1
<1>11. QED
  BY <1>2, <1>3, <1>5, <1>6, <1>7, <1>8, <1>9, <1>10
     DEF Next, InitObjTypeMap, UpdateDirectOinfo, HandleReinterpretCast,
     RemoveDirectOinfo, Unwind, VerifyTypeCasting, vars

(* A step that leaves the map alone, gives no object a type and starts no  *)
(* array at a live object.                                                 *)
LEMMA LookupsKept ==
  ASSUME LiveInv, UNCHANGED <<ObjTypeMap, hexTree>>,
         \A b \in Addr : live'[b] \in {None, live[b]},
         \A b \in Addr : alloc'[b] # None /\ live'[b] # None =>
           alloc'[b] = alloc[b]
  PROVE  LiveLookup' /\ HeapSize'
<1>1. \A b \in Addr : (Found(b)' <=> Found(b))
                      /\ findObjInfo(b)' = findObjInfo(b)
  BY DEF Found, InSlot, InTree, findObjInfo
<1>2. LiveLookup'
  BY <1>1 DEF LiveInv, LiveLookup
<1>3. HeapSize'
  BY <1>1 DEF LiveInv, HeapSize
<1>4. QED
  BY <1>2, <1>3

(* A step that registers a for a new type, with a length that is not too   *)
(* large if a is the start of an array.                                    *)
LEMMA LookupsUpdated ==
  ASSUME LiveInv, NEW a \in Addr, NEW n, NEW f \in FakeVPtr,
         updateOne(a, n, f), live' = [live EXCEPT ![a] = f], UNCHANGED alloc,
         alloc[a] # None => n <= alloc[a].ArraySize
  PROVE  LiveLookup' /\ HeapSize'
<1>0. KeyDistinct /\ TypeOK /\ Filed /\ LiveLookup /\ HeapSize
  BY DEF LiveInv, TypeInv
<1>1. /\ Found(a)'
      /\ findObjInfo(a)' = [ObjAddr |-> a, HeapArraySize |-> n,
                            FakeVPointer |-> f]
      /\ \A b \in Addr \ {a} :
           /\ Found(b)' <=> Found(b)
           /\ Found(b) => findObjInfo(b)' = findObjInfo(b)
  BY <1>0, UpdateOneLookup
<1>2. live'[a] = f /\ \A b \in Addr \ {a} : live'[b] = live[b]
  BY <1>0 DEF TypeOK
<1>3. \A b \in Addr \ {a} : live[b] # None => Found(b)
  BY <1>0 DEF LiveLookup
<1>4. LiveLookup'
  <2>1. SUFFICES ASSUME NEW b \in Addr, live'[b] # None
                 PROVE  Found(b)' /\ findObjInfo(b)'.FakeVPointer = live'[b]
    BY DEF LiveLookup
  <2>2. CASE b = a
    BY <1>1, <1>2, <2>2
  <2>3. CASE b # a
    BY <1>0, <1>1, <1>2, <2>1, <2>3 DEF LiveLookup
  <2>4. QED
    BY <2>2, <2>3
<1>5. HeapSize'
  <2>1. SUFFICES ASSUME NEW b \in Addr, alloc[b] # None,
                        alloc[b].kind = "HEAPALLOC", live'[b] # None
                 PROVE  findObjInfo(b)'.HeapArraySize <= alloc[b].ArraySize
    BY DEF HeapSize
  <2>2. CASE b = a
    BY <1>1, <2>1, <2>2
  <2>3. CASE b # a
    BY <1>0, <1>1, <1>2, <1>3, <2>1, <2>3 DEF HeapSize
  <2>4. QED
    BY <2>2, <2>3
<1>6. QED
  BY <1>4, <1>5

(* A step that removes the entry of a dead object.                         *)
LEMMA LookupsRemoved ==
  ASSUME LiveInv, NEW a \in Addr, removeOne(a), live'[a] = None,
         \A b \in Addr : live'[b] \in {None, live[b]}, UNCHANGED alloc
  PROVE  LiveLookup' /\ HeapSize'
<1>0. KeyDistinct /\ TypeOK /\ LiveLookup /\ HeapSize
  BY DEF LiveInv, TypeInv
<1>1. \A b \in Addr \ {a} :
        /\ Found(b)' <=> Found(b)
        /\ Found(b) => findObjInfo(b)' = findObjInfo(b)
  BY <1>0, RemoveOneLookup
<1>2. \A b \in Addr : live'[b] # None =>
        /\ b # a /\ live'[b] = live[b]
        /\ Found(b)' /\ findObjInfo(b)' = findObjInfo(b)
  BY <1>0, <1>1 DEF LiveLookup
<1>3. LiveLookup'
  BY <1>0, <1>2 DEF LiveLookup
<1>4. HeapSize'
  BY <1>0, <1>2 DEF HeapSize
<1>5. QED
  BY <1>3, <1>4

(* Every step keeps lookups of live objects right, and the lengths that    *)
(* releases on the heap rely on.                                           *)
LEMMA NextLookups == LiveInv /\ [Next]_vars => LiveLookup' /\ HeapSize'
<1> SUFFICES ASSUME LiveInv, [Next]_vars PROVE LiveLookup' /\ HeapSize'
  OBVIOUS
<1>0. /\ TypeOK /\ NoEmptyArrays /\ ArraysInAddr /\ UpdateCall
      /\ ArraysDisjoint /\ DeadElems
  BY DEF LiveInv, TypeInv
<1>1. ASSUME UNCHANGED <<ObjTypeMap, hexTree, live, alloc>>
      PROVE  LiveLookup' /\ HeapSize'
  BY <1>1, LookupsKept
<1>2. CASE InitObjTypeMap
  <2>1. CASE mapReady
    BY <1>1, <1>2, <2>1 DEF InitObjTypeMap
  <2>2. CASE ~mapReady
    <3>1. \A b \in Addr : live'[b] = None
      BY <1>2, <2>2 DEF InitObjTypeMap, LiveInv, BeforeInit
    <3>2. QED
      BY <3>1 DEF LiveLookup, HeapSize
  <2>3. QED
    BY <2>1, <2>2
<1>3. ASSUME NEW a \in Addr, NEW f \in FakeVPtr, UpdateDirectOinfo(a, f)
      PROVE  LiveLookup' /\ HeapSize'
  <2>1. alloc[a] = None
    BY <1>3 DEF UpdateDirectOinfo, Occupied
  <2>2. QED
    BY <1>3, <2>1, LookupsUpdated DEF UpdateDirectOinfo
<1>4. ASSUME NEW a \in Addr, NEW f \in FakeVPtr, HandleReinterpretCast(a, f)
      PROVE  LiveLookup' /\ HeapSize'
  <2>1. alloc[a] # None => 1 <= alloc[a].ArraySize
    BY <1>0, ArrayBase
  <2>2. QED
    BY <1>4, <2>1, LookupsUpdated DEF HandleReinterpretCast
<1>5. ASSUME NEW a \in Addr, RemoveDirectOinfo(a)
      PROVE  LiveLookup' /\ HeapSize'
  <2>1. live'[a] = None /\ \A b \in Addr : live'[b] \in {None, live[b]}
    BY <1>5, KilledLive DEF RemoveDirectOinfo
  <2>2. QED
    BY <1>5, <2>1, LookupsRemoved DEF RemoveDirectOinfo
<1>6. ASSUME NEW a \in Addr, Unwind(a) \/ RemoveOinfo(a)
      PROVE  LiveLookup' /\ HeapSize'
  <2>1. PICK S : live' = killed(S)
    BY <1>6 DEF Unwind, RemoveOinfo
  <2>2. alloc' \in {alloc, [alloc EXCEPT ![a] = None]}
        /\ UNCHANGED <<ObjTypeMap, hexTree>>
    BY <1>6 DEF Unwind, RemoveOinfo
  <2>3. \A b \in Addr : live'[b] \in {None, live[b]}
    BY <2>1, KilledLive
  <2>4. \A b \in Addr : alloc'[b] # None => alloc'[b] = alloc[b]
    BY <1>0, <2>2 DEF TypeOK
  <2>5. QED
    BY <2>2, <2>3, <2>4, LookupsKept
<1>7. ASSUME NEW a \in Addr, NEW ts \in TypeSizes, NEW n \in ArraySizes,
             NEW f \in FakeVPtr, NEW kind \in AllocType,
             UpdateOinfo(a, ts, n, f, kind)
      PROVE  LiveLookup' /\ HeapSize'
  <2>1. live'[a] = None
    BY <1>7 DEF UpdateOinfo, FreshArray, Occupied
  <2>2. \A b \in Addr \ {a} : alloc'[b] = alloc[b]
    BY <1>0, <1>7 DEF UpdateOinfo, TypeOK
  <2>3. UNCHANGED <<ObjTypeMap, hexTree, live>>
    BY <1>7 DEF UpdateOinfo
  <2>4. QED
    BY <2>1, <2>2, <2>3, LookupsKept
<1>8. ASSUME NEW a \in Addr, NEW b \in Addr, NEW n \in ArraySizes,
             NEW f \in FakeVPtr, ReallocOinfo(a, b, n, f)
      PROVE  LiveLookup' /\ HeapSize'
  <2>1. UNCHANGED <<ObjTypeMap, hexTree>> /\ live' = killed(arrayElems(a))
    BY <1>8 DEF ReallocOinfo
  <2>2. \A c \in Addr : live'[c] \in {None, live[c]}
    BY <2>1, KilledLive
  <2>3. live'[b] = None
    <3>1. a \in arrayElems(a)
      BY <1>0, <1>8, ArrayBase DEF ReallocOinfo
    <3>2. b \in arrayElems(a) \/ live[b] = None
      BY <1>8, <3>1 DEF ReallocOinfo, Occupied
    <3>3. QED
      BY <2>1, <3>2, KilledLive
  <2>4. \A c \in Addr \ {b} : alloc'[c] # None => alloc'[c] = alloc[c]
    BY <1>0, <1>8 DEF ReallocOinfo, TypeOK
  <2>5. QED
    BY <2>1, <2>2, <2>3, <2>4, LookupsKept
<1>9. CASE UpdateElem
  <2>1. /\ current \in Addr /\ current \in arrayElems(call.addr)
        /\ call.ArraySize \in Nat /\ call.op = "update"
    BY <1>0, <1>9, CurrentInAddr DEF UpdateElem
  <2>2. /\ call.addr \in Addr /\ call.fvp \in FakeVPtr
        /\ alloc[call.addr] # None
        /\ alloc[call.addr].ArraySize = call.ArraySize
    BY <1>0, <2>1 DEF UpdateCall
  <2>3. ASSUME alloc[current] # None
        PROVE  call.ArraySize <= alloc[current].ArraySize
    <3>1. current \in arrayElems(current)
      BY <1>0, <2>1, <2>3, ArrayBase
    <3>2. current = call.addr
      BY <1>0, <2>1, <2>2, <2>3, <3>1 DEF ArraysDisjoint
    <3>3. QED
      BY <2>1, <2>2, <3>2
  <2>4. QED
    BY <1>9, <2>1, <2>2, <2>3, LookupsUpdated DEF UpdateElem
<1>10. CASE RemoveElem
  <2>1. call.i \in 0 .. call.ArraySize - 1
    BY <1>0, <1>10 DEF RemoveElem, TypeOK, Call
  <2>2. current \in Addr /\ live[current] = None
    BY <1>0, <1>10, <2>1 DEF RemoveElem, DeadElems, current
  <2>3. QED
    BY <1>10, <2>2, LookupsRemoved DEF RemoveElem
<1>11. QED
  BY <1>1, <1>2, <1>3, <1>4, <1>5, <1>6, <1>7, <1>8, <1>9, <1>10
     DEF Next, Return, VerifyTypeCasting, vars

(* The invariant holds before the first module constructor.                *)
LEMMA InitLiveInv == KeyDistinct /\ NoEmptyArrays /\ Init => LiveInv
<1> SUFFICES ASSUME KeyDistinct, NoEmptyArrays, Init PROVE LiveInv
  OBVIOUS
<1>1. TypeInv /\ Filed
  BY InitTypeInv, InitFiled
<1>2. /\ \A b \in Addr : live[b] = None /\ alloc[b] = None
      /\ call = Idle
  BY DEF Init
<1>3. LiveLookup /\ BeforeInit /\ ArraysDisjoint /\ BaseLive /\ HeapSize
  BY <1>2 DEF LiveLookup, BeforeInit, ArraysDisjoint, BaseLive, HeapSize
<1>4. DeadElems
  BY <1>2 DEF DeadElems, Idle
<1>5. QED
  BY <1>1, <1>3, <1>4 DEF LiveInv

(* Every step keeps the invariant.                                         *)
LEMMA NextLiveInv == LiveInv /\ [Next]_vars => LiveInv'
<1> SUFFICES ASSUME LiveInv, [Next]_vars PROVE LiveInv'
  OBVIOUS
<1>1. KeyDistinct /\ NoEmptyArrays /\ TypeInv /\ Filed
  BY DEF LiveInv
<1>2. KeyDistinct' /\ NoEmptyArrays'
  BY <1>1 DEF KeyDistinct, NoEmptyArrays
<1>3. TypeInv' /\ Filed'
  BY <1>1, NextTypeInv, NextFiled
<1>4. LiveLookup' /\ HeapSize'
  BY NextLookups
<1>5. BeforeInit' /\ ArraysDisjoint' /\ BaseLive' /\ DeadElems'
  BY NextBeforeInit, NextArraysDisjoint, NextBaseLive, NextDeadElems
<1>6. QED
  BY <1>2, <1>3, <1>4, <1>5 DEF LiveInv

(* Programs with no empty arrays, and addresses that the low words tell    *)
(* apart: a lookup of a live object finds the type it was last given, in   *)
(* the middle of an array call too, even if the program changes types in   *)
(* place and unwinds past live objects.                                    *)
THEOREM LiveCorrect == KeyDistinct /\ NoEmptyArrays /\ Spec => []LiveLookup
<1>1. LiveInv => LiveLookup
  BY DEF LiveInv
<1>2. QED
  BY <1>1, InitLiveInv, NextLiveInv, PTL DEF Spec

-----------------------------------------------------------------------------
(* Nothing is known of dead objects, if the program is disciplined.        *)

(* the number of elements of the array at b that have been registered      *)
noted(b) ==
  IF call.op = "update" /\ call.addr = b THEN call.i
  ELSE IF call.op = "remove" /\ call.newAddr = b THEN 0
  ELSE alloc[b].ArraySize

(* the iterations that registered a as an element of the array at b: there *)
(* are several if the product TypeSize*i has wrapped                       *)
notedAt(b, a) ==
  {i \in 0 .. noted(b) - 1 : elemAddr(b, alloc[b].TypeSize, i) = a}

(* the iterations of the removal in progress that will remove a            *)
awaiting(a) ==
  {i \in call.i .. call.ArraySize - 1 :
     call.op = "remove" /\ elemAddr(call.addr, call.TypeSize, i) = a}

Several(S) == \E i, j \in S : i # j

(* Exactly the elements registered so far are live.                        *)
Registered ==
  \A b \in Addr : alloc[b] # None =>
    \A a \in arrayElems(b) : live[a] # None <=> notedAt(b, a) # {}

(* What has an entry is live, or is about to be removed.                   *)
Entries ==
  \A a \in Addr : Found(a) => live[a] # None \/ awaiting(a) # {}

(* An address has one entry for each time it was registered, so that one   *)
(* removal is enough.                                                      *)
Once ==
  \A a \in Addr : InSlot(a) /\ InTree(a) =>
    \/ \E b \in Addr : alloc[b] # None /\ Several(notedAt(b, a))
    \/ Several(awaiting(a))

(* The length recorded for an array on the heap is its length.             *)
HeapExact ==
  \A b \in Addr :
    alloc[b] # None /\ alloc[b].kind = "HEAPALLOC" /\ live[b] # None =>
      findObjInfo(b).HeapArraySize = alloc[b].ArraySize

LoopBound == call.i <= call.ArraySize

ForgetInv ==
  /\ LiveInv /\ ~MayRealias /\ ~MayUnwind
  /\ Registered /\ Entries /\ Once /\ HeapExact /\ LoopBound

-----------------------------------------------------------------------------
(* Lemmas.                                                                 *)

(* Between calls, all of an array is registered and nothing is to remove.  *)
LEMMA IdleCounts ==
  ASSUME call = Idle
  PROVE  /\ \A b \in Addr : noted(b) = alloc[b].ArraySize
         /\ \A a : awaiting(a) = {}
  BY DEF Idle, noted, awaiting

(* What was registered as an element of an array is one.                   *)
LEMMA NotedElem ==
  ASSUME ForgetInv, NEW b \in Addr, alloc[b] # None, NEW a,
         notedAt(b, a) # {}
  PROVE  a \in arrayElems(b)
<1>1. /\ TypeOK /\ NoEmptyArrays /\ UpdateCall /\ LoopBound
  BY DEF ForgetInv, LiveInv, TypeInv
<1>2. PICK i \in 0 .. noted(b) - 1 : elemAddr(b, alloc[b].TypeSize, i) = a
  BY DEF notedAt
<1>3. alloc[b].ArraySize \in Nat /\ call.i \in Nat /\ call.ArraySize \in Nat
  BY <1>1, ArrayBase DEF TypeOK, Call
<1>4. noted(b) <= alloc[b].ArraySize /\ noted(b) \in Nat
  BY <1>1, <1>3 DEF noted, UpdateCall, LoopBound
<1>5. i \in 0 .. alloc[b].ArraySize - 1
  BY <1>2, <1>3, <1>4
<1>6. QED
  BY <1>2, <1>5 DEF arrayElems, elems

(* Registering a fills its slot; it has no entry in the tree that it did   *)
(* not have before, and no other address has two entries more than before. *)
LEMMA CopiesUpdated ==
  ASSUME KeyDistinct, TypeOK, Filed, NEW a \in Addr, NEW n, NEW f,
         updateOne(a, n, f)
  PROVE  /\ InTree(a)' => InTree(a)
         /\ \A b \in Addr \ {a} :
              (InSlot(b) /\ InTree(b))' => InSlot(b) /\ InTree(b)
<1> DEFINE s   == getHash(a)
           old == ObjTypeMap[s]
           new == [ObjAddr |-> a, HeapArraySize |-> n, FakeVPointer |-> f]
<1>1. s \in Slot /\ compareKey(a) \in Key
  BY AddrHash
<1>2. ObjTypeMap' = [ObjTypeMap EXCEPT ![s] = new]
  BY DEF updateOne
<1>3. CASE old.ObjAddr \in {NullPtr, a}
  <2>1. hexTree' = hexTree
    BY <1>3 DEF updateOne
  <2>2. ASSUME NEW b \in Addr \ {a}, InSlot(b)' PROVE InSlot(b)
    <3>1. getHash(b) \in Slot
      BY AddrHash
    <3>2. getHash(b) # s
      BY <1>1, <1>2, <2>2 DEF InSlot, TypeOK
    <3>3. QED
      BY <1>2, <2>2, <3>1, <3>2 DEF InSlot, TypeOK
  <2>3. QED
    BY <2>1, <2>2 DEF InTree
<1>4. CASE old.ObjAddr \notin {NullPtr, a}
  <2>1. hexTree' = [hexTree EXCEPT ![s][compareKey(old.ObjAddr)] = old]
    BY <1>4 DEF updateOne
  <2>2. /\ old.ObjAddr \in Addr /\ getHash(old.ObjAddr) = s
        /\ compareKey(old.ObjAddr) \in Key
    BY <1>1, <1>4, Occupant DEF Filed
  <2>3. compareKey(old.ObjAddr) # compareKey(a)
    BY <1>4, <2>2 DEF KeyDistinct
  <2>4. hexTree'[s][compareKey(a)] = hexTree[s][compareKey(a)]
    BY <1>1, <2>1, <2>2, <2>3 DEF TypeOK
  <2>5. ASSUME NEW b \in Addr \ {a}, InSlot(b)', InTree(b)'
        PROVE  InSlot(b) /\ InTree(b)
    <3>1. getHash(b) \in Slot
      BY AddrHash
    <3>2. getHash(b) # s
      BY <1>1, <1>2, <2>5 DEF InSlot, TypeOK
    <3>3. /\ ObjTypeMap'[getHash(b)] = ObjTypeMap[getHash(b)]
          /\ hexTree'[getHash(b)] = hexTree[getHash(b)]
      BY <1>1, <1>2, <2>1, <3>1, <3>2 DEF TypeOK
    <3>4. QED
      BY <2>5, <3>3 DEF InSlot, InTree
  <2>6. QED
    BY <2>4, <2>5 DEF InTree
<1>5. QED
  BY <1>3, <1>4

(* Removing a takes one entry of its own away, and none of the others.     *)
LEMMA CopiesRemoved ==
  ASSUME KeyDistinct, TypeOK, NEW a \in Addr, removeOne(a)
  PROVE  /\ Found(a)' => InSlot(a) /\ InTree(a)
         /\ ~(InSlot(a) /\ InTree(a))'
         /\ \A b \in Addr \ {a} :
              (InSlot(b) /\ InTree(b))' => InSlot(b) /\ InTree(b)
<1> DEFINE s == getHash(a)
<1>1. s \in Slot /\ compareKey(a) \in Key /\ a # NullPtr
  BY AddrHash
<1>2. CASE /\ InSlot(a)
           /\ ObjTypeMap' = [ObjTypeMap EXCEPT ![s].ObjAddr = NullPtr]
           /\ UNCHANGED hexTree
  <2>1. ObjTypeMap[s] \in Entry
    BY <1>1 DEF TypeOK
  <2>2. ObjTypeMap'[s].ObjAddr = NullPtr
    BY <1>1, <1>2, <2>1 DEF TypeOK, Entry
  <2>3. ~InSlot(a)' /\ (InTree(a)' => InTree(a))
    BY <1>1, <1>2, <2>2 DEF InSlot, InTree
  <2>4. ASSUME NEW b \in Addr \ {a}, InSlot(b)' PROVE InSlot(b)
    <3>1. getHash(b) \in Slot /\ b # NullPtr
      BY AddrHash
    <3>2. getHash(b) # s
      BY <2>2, <2>4, <3>1 DEF InSlot
    <3>3. QED
      BY <1>2, <2>4, <3>1, <3>2 DEF InSlot, TypeOK
  <2>5. QED
    BY <1>2, <2>3, <2>4 DEF Found, InTree
<1>3. CASE /\ ~InSlot(a)
           /\ hexTree' = [hexTree EXCEPT ![s][compareKey(a)] = None]
           /\ UNCHANGED ObjTypeMap
  <2>1. hexTree'[s][compareKey(a)] = None
    BY <1>1, <1>3 DEF TypeOK
  <2>2. ~Found(a)'
    BY <1>3, <2>1 DEF Found, InSlot, InTree
  <2>3. ASSUME NEW b \in Addr \ {a}, InTree(b)' PROVE InTree(b)
    <3>1. getHash(b) \in Slot /\ compareKey(b) \in Key
      BY AddrHash
    <3>2. hexTree'[getHash(b)][compareKey(b)] # None
      BY <2>3 DEF InTree
    <3>3. hexTree[getHash(b)][compareKey(b)] # None
      BY <1>1, <1>3, <3>1, <3>2 DEF TypeOK
    <3>4. QED
      BY <3>3 DEF InTree
  <2>4. QED
    BY <1>3, <2>2, <2>3 DEF Found, InSlot
<1>4. QED
  BY <1>2, <1>3 DEF removeOne

(* A release takes as many elements as the array has.                      *)
LEMMA RemovedSizeExact ==
  ASSUME ForgetInv, call.op = "idle", NEW a \in Addr, alloc[a] # None,
         NEW n, NEW kind,
         IF kind = "STACKALLOC" THEN n = alloc[a].ArraySize
         ELSE alloc[a].kind = "HEAPALLOC"
  PROVE  removedSize(a, n, kind) = alloc[a].ArraySize
<1>1. live[a] # None
  BY DEF ForgetInv, LiveInv, BaseLive
<1>2. Found(a)
  BY <1>1 DEF ForgetInv, LiveInv, LiveLookup
<1>3. alloc[a].kind = "HEAPALLOC" =>
        findObjInfo(a).HeapArraySize = alloc[a].ArraySize
  BY <1>1 DEF ForgetInv, HeapExact
<1>4. QED
  BY <1>2, <1>3 DEF removedSize

(* The parts of the invariant that are not about the recorded lengths.     *)
Counts == Registered /\ Entries /\ Once

-----------------------------------------------------------------------------
(* Preservation, one lemma for each kind of step.                          *)

(* A step that changes neither the map nor what the program and the call   *)
(* know keeps the counts.                                                  *)
LEMMA CountsKept ==
  ASSUME Counts, UNCHANGED <<ObjTypeMap, hexTree, call, live, alloc>>
  PROVE  Counts'
BY DEF Counts, Registered, Entries, Once, notedAt, noted, awaiting, Found,
   InSlot, InTree, arrayElems

(* The first constructor empties a map of which nothing is live.           *)
LEMMA ConstructorCounts ==
  ASSUME ForgetInv, InitObjTypeMap
  PROVE  Counts'
<1>1. CASE mapReady
  <2>1. Counts
    BY DEF ForgetInv, Counts
  <2>2. QED
    BY <1>1, <2>1, CountsKept DEF InitObjTypeMap
<1>2. CASE ~mapReady
  <2>1. /\ ObjTypeMap' = [s \in Slot |-> EmptySlot]
        /\ hexTree' = [s \in Slot |-> [k \in Key |-> None]]
        /\ UNCHANGED <<call, live, alloc>>
    BY <1>2 DEF InitObjTypeMap
  <2>2. \A a \in Addr : ~Found(a)'
    BY <2>1, AddrHash DEF Found, InSlot, InTree, EmptySlot
  <2>3. Entries' /\ Once'
    BY <2>2 DEF Entries, Once, Found
  <2>4. Registered'
    BY <2>1 DEF ForgetInv, Registered, notedAt, noted, arrayElems
  <2>5. QED
    BY <2>3, <2>4 DEF Counts
<1>3. QED
  BY <1>1, <1>2

(* A single object is registered where nothing had an entry.               *)
LEMMA UpdateDirectCounts ==
  ASSUME ForgetInv, NEW a \in Addr, NEW f \in FakeVPtr,
         UpdateDirectOinfo(a, f)
  PROVE  Counts'
<1>0. /\ KeyDistinct /\ TypeOK /\ ArraysInAddr /\ Filed
      /\ Registered /\ Entries /\ Once
  BY DEF ForgetInv, LiveInv, TypeInv
<1>1. /\ call = Idle /\ live[a] = None /\ ~InArray(a)
      /\ updateOne(a, 1, f) /\ live' = [live EXCEPT ![a] = f]
      /\ UNCHANGED <<call, alloc>>
  BY DEF UpdateDirectOinfo, ready, Occupied
<1>2. ~Found(a)
  BY <1>0, <1>1, IdleCounts DEF Entries
<1>3. /\ ~InTree(a)'
      /\ \A b \in Addr \ {a} :
           /\ Found(b)' <=> Found(b)
           /\ (InSlot(b) /\ InTree(b))' => InSlot(b) /\ InTree(b)
  BY <1>0, <1>1, <1>2, CopiesUpdated, UpdateOneLookup DEF Found
<1>4. live'[a] # None /\ \A b \in Addr \ {a} : live'[b] = live[b]
  BY <1>0, <1>1, FvpNotNone DEF TypeOK
<1>5. \A b, c : notedAt(b, c)' = notedAt(b, c) /\ awaiting(c)' = awaiting(c)
  BY <1>1 DEF notedAt, noted, awaiting
<1>6. Registered'
  <2> SUFFICES ASSUME NEW b \in Addr, alloc[b] # None, NEW c \in arrayElems(b)
               PROVE  live'[c] # None <=> notedAt(b, c)' # {}
    BY <1>1 DEF Registered, arrayElems
  <2>1. c \in Addr /\ c # a
    BY <1>0, <1>1 DEF ArraysInAddr, InArray
  <2>2. QED
    BY <1>0, <1>4, <1>5, <2>1 DEF Registered
<1>7. Entries'
  BY <1>0, <1>3, <1>4, <1>5 DEF Entries
<1>8. Once'
  <2> SUFFICES ASSUME NEW b \in Addr, InSlot(b)', InTree(b)'
               PROVE  \/ \E c \in Addr : alloc[c] # None
                                         /\ Several(notedAt(c, b))
                      \/ Several(awaiting(b))
    BY <1>1, <1>5 DEF Once
  <2>1. InSlot(b) /\ InTree(b)
    BY <1>3
  <2>2. QED
    BY <1>0, <2>1 DEF Once
<1>9. QED
  BY <1>6, <1>7, <1>8 DEF Counts

(* A single object has one entry, which goes with it.                      *)
LEMMA RemoveDirectCounts ==
  ASSUME ForgetInv, NEW a \in Addr, RemoveDirectOinfo(a)
  PROVE  Counts'
<1>0. /\ KeyDistinct /\ TypeOK /\ ArraysInAddr
      /\ Registered /\ Entries /\ Once
  BY DEF ForgetInv, LiveInv, TypeInv
<1>1. /\ call = Idle /\ ~InArray(a)
      /\ removeOne(a) /\ live' = killed({a})
      /\ UNCHANGED <<call, alloc>>
  BY DEF RemoveDirectOinfo, ready
<1>2. ~(InSlot(a) /\ InTree(a))
  <2> SUFFICES ASSUME InSlot(a), InTree(a) PROVE FALSE
    OBVIOUS
  <2>1. PICK b \in Addr : alloc[b] # None /\ Several(notedAt(b, a))
    BY <1>0, <1>1, IdleCounts DEF Once, Several
  <2>2. a \in arrayElems(b)
    BY <2>1, NotedElem DEF Several
  <2>3. QED
    BY <1>1, <2>1, <2>2 DEF InArray
<1>3. /\ ~Found(a)'
      /\ \A b \in Addr \ {a} :
           /\ Found(b)' <=> Found(b)
           /\ (InSlot(b) /\ InTree(b))' => InSlot(b) /\ InTree(b)
  BY <1>0, <1>1, <1>2, CopiesRemoved, RemoveOneLookup
<1>4. \A b \in Addr \ {a} : live'[b] = live[b]
  BY <1>1, KilledLive
<1>5. \A b, c : notedAt(b, c)' = notedAt(b, c) /\ awaiting(c)' = awaiting(c)
  BY <1>1 DEF notedAt, noted, awaiting
<1>6. Registered'
  <2> SUFFICES ASSUME NEW b \in Addr, alloc[b] # None, NEW c \in arrayElems(b)
               PROVE  live'[c] # None <=> notedAt(b, c)' # {}
    BY <1>1 DEF Registered, arrayElems
  <2>1. c \in Addr /\ c # a
    BY <1>0, <1>1 DEF ArraysInAddr, InArray
  <2>2. QED
    BY <1>0, <1>4, <1>5, <2>1 DEF Registered
<1>7. Entries'
  BY <1>0, <1>3, <1>4, <1>5 DEF Entries
<1>8. Once'
  <2> SUFFICES ASSUME NEW b \in Addr, InSlot(b)', InTree(b)'
               PROVE  \/ \E c \in Addr : alloc[c] # None
                                         /\ Several(notedAt(c, b))
                      \/ Several(awaiting(b))
    BY <1>1, <1>5 DEF Once
  <2>1. InSlot(b) /\ InTree(b)
    BY <1>3 DEF Found
  <2>2. QED
    BY <1>0, <2>1 DEF Once
<1>9. QED
  BY <1>6, <1>7, <1>8 DEF Counts

(* An array is allocated, and none of its elements registered yet.         *)
LEMMA UpdateCounts ==
  ASSUME ForgetInv, NEW a \in Addr, NEW ts \in TypeSizes,
         NEW n \in ArraySizes, NEW f \in FakeVPtr, NEW kind \in AllocType,
         UpdateOinfo(a, ts, n, f, kind)
  PROVE  Counts'
<1> DEFINE new == [TypeSize |-> ts, ArraySize |-> n, kind |-> kind]
<1>0. TypeOK /\ Registered /\ Entries /\ Once
  BY DEF ForgetInv, LiveInv, TypeInv
<1>1. /\ call = Idle /\ FreshArray(a, ts, n)
      /\ alloc' = [alloc EXCEPT ![a] = new]
      /\ UNCHANGED <<ObjTypeMap, hexTree, live>>
  BY DEF UpdateOinfo, ready
<1>2. call'.op = "update" /\ call'.addr = a /\ call'.i = 0
  BY DEF UpdateOinfo, Idle
<1>3. alloc[a] = None /\ alloc'[a] = new
      /\ \A b \in Addr \ {a} : alloc'[b] = alloc[b]
  BY <1>0, <1>1 DEF FreshArray, Occupied, TypeOK
<1>4. \A c : notedAt(a, c)' = {} /\ awaiting(c)' = {} /\ awaiting(c) = {}
  BY <1>1, <1>2, IdleCounts DEF notedAt, noted, awaiting
<1>5. \A b \in Addr \ {a} : /\ arrayElems(b)' = arrayElems(b)
                            /\ \A c : notedAt(b, c)' = notedAt(b, c)
  BY <1>1, <1>2, <1>3, IdleCounts DEF notedAt, noted, arrayElems
<1>6. Registered'
  <2> SUFFICES ASSUME NEW b \in Addr, alloc'[b] # None,
                      NEW c \in arrayElems(b)'
               PROVE  live'[c] # None <=> notedAt(b, c)' # {}
    BY DEF Registered
  <2>1. CASE b = a
    <3>1. arrayElems(a)' = elems(a, ts, n)
      BY <1>3 DEF arrayElems
    <3>2. live[c] = None
      BY <1>1, <2>1, <3>1 DEF FreshArray, Occupied
    <3>3. QED
      BY <1>1, <1>4, <2>1, <3>2
  <2>2. CASE b # a
    BY <1>0, <1>1, <1>3, <1>5, <2>2 DEF Registered
  <2>3. QED
    BY <2>1, <2>2
<1>7. Entries'
  BY <1>0, <1>1, <1>4 DEF Entries, Found, InSlot, InTree
<1>8. Once'
  <2> SUFFICES ASSUME NEW c \in Addr, InSlot(c)', InTree(c)'
               PROVE  \E b \in Addr : alloc'[b] # None
                                      /\ Several(notedAt(b, c)')
    BY DEF Once, Several
  <2>1. InSlot(c) /\ InTree(c)
    BY <1>1 DEF InSlot, InTree
  <2>2. PICK b \in Addr : alloc[b] # None /\ Several(notedAt(b, c))
    BY <1>0, <1>4, <2>1 DEF Once, Several
  <2>3. b # a
    BY <1>3, <2>2
  <2>4. QED
    BY <1>3, <1>5, <2>2, <2>3
<1>9. QED
  BY <1>6, <1>7, <1>8 DEF Counts

(* A release: all elements of an array die and are yet to be removed; the  *)
(* array that realloc creates instead has none registered.                 *)
LEMMA ReleaseCounts ==
  ASSUME ForgetInv, NEW a \in Addr, call = Idle, alloc[a] # None,
         UNCHANGED <<ObjTypeMap, hexTree>>, live' = killed(arrayElems(a)),
         call'.op = "remove", call'.addr = a, call'.i = 0,
         call'.TypeSize = alloc[a].TypeSize,
         call'.ArraySize = alloc[a].ArraySize,
         \A b \in Addr : /\ alloc[b] # None /\ b # a =>
                              alloc'[b] = alloc[b] /\ b # call'.newAddr
                         /\ alloc'[b] # None =>
                              \/ b # a /\ alloc[b] # None
                              \/ b = call'.newAddr,
         \A b \in Addr : b = call'.newAddr =>
           \A c \in arrayElems(b)' : live'[c] = None
  PROVE  Counts'
<1>0. /\ TypeOK /\ ArraysInAddr /\ ArraysDisjoint
      /\ Registered /\ Entries /\ Once
  BY DEF ForgetInv, LiveInv, TypeInv
<1>1. \A b \in Addr : alloc[b] # None /\ b # a =>
        /\ arrayElems(b)' = arrayElems(b)
        /\ \A c : notedAt(b, c)' = notedAt(b, c)
  BY IdleCounts DEF notedAt, noted, arrayElems
<1>2. \A c : awaiting(c)' = notedAt(a, c) /\ awaiting(c) = {}
  BY IdleCounts DEF notedAt, awaiting
<1>3. Registered'
  <2> SUFFICES ASSUME NEW b \in Addr, alloc'[b] # None,
                      NEW c \in arrayElems(b)'
               PROVE  live'[c] # None <=> notedAt(b, c)' # {}
    BY DEF Registered
  <2>1. CASE b = call'.newAddr
    BY <2>1 DEF notedAt, noted
  <2>2. CASE b # call'.newAddr
    <3>1. b # a /\ alloc[b] # None /\ c \in arrayElems(b)
      BY <1>1, <2>2
    <3>2. c \in Addr /\ c \notin arrayElems(a)
      BY <1>0, <3>1 DEF ArraysInAddr, ArraysDisjoint
    <3>3. live'[c] = live[c]
      BY <3>2, KilledLive
    <3>4. QED
      BY <1>0, <1>1, <3>1, <3>3 DEF Registered
  <2>3. QED
    BY <2>1, <2>2
<1>4. Entries'
  <2> SUFFICES ASSUME NEW c \in Addr, Found(c)', live'[c] = None
               PROVE  awaiting(c)' # {}
    BY DEF Entries
  <2>1. Found(c)
    BY DEF Found, InSlot, InTree
  <2>2. live[c] # None
    BY <1>0, <1>2, <2>1 DEF Entries
  <2>3. c \in arrayElems(a)
    BY <2>2, KilledLive
  <2>4. QED
    BY <1>0, <1>2, <2>2, <2>3 DEF Registered
<1>5. Once'
  <2> SUFFICES ASSUME NEW c \in Addr, InSlot(c)', InTree(c)'
               PROVE  \/ \E b \in Addr : alloc'[b] # None
                                         /\ Several(notedAt(b, c)')
                      \/ Several(awaiting(c)')
    BY DEF Once, Several
  <2>1. InSlot(c) /\ InTree(c)
    BY DEF InSlot, InTree
  <2>2. PICK b \in Addr : alloc[b] # None /\ Several(notedAt(b, c))
    BY <1>0, <1>2, <2>1 DEF Once, Several
  <2>3. CASE b = a
    BY <1>2, <2>2, <2>3
  <2>4. CASE b # a
    BY <1>1, <2>2, <2>4
  <2>5. QED
    BY <2>3, <2>4
<1>6. QED
  BY <1>3, <1>4, <1>5 DEF Counts

(* free, delete and the end of a stack array.                              *)
LEMMA RemoveCounts ==
  ASSUME ForgetInv, NEW a \in Addr, RemoveOinfo(a)
  PROVE  Counts'
<1> DEFINE passed == IF alloc[a].kind = "STACKALLOC" THEN alloc[a].ArraySize
                     ELSE 1
           size   == removedSize(a, passed, alloc[a].kind)
<1>0. TypeOK /\ NoEmptyArrays
  BY DEF ForgetInv, LiveInv, TypeInv
<1>1. /\ call = Idle /\ alloc[a] # None
      /\ live' = killed(arrayElems(a))
      /\ alloc' = [alloc EXCEPT ![a] = None]
      /\ UNCHANGED <<ObjTypeMap, hexTree>>
      /\ call' = [Idle EXCEPT !.op = "remove", !.addr = a,
                    !.TypeSize = alloc[a].TypeSize, !.ArraySize = size]
  BY DEF RemoveOinfo, ready
<1>2. alloc[a].kind \in {"STACKALLOC", "HEAPALLOC"}
  BY <1>0, <1>1, ArrayBase DEF Alloc, AllocType
<1>3. size = alloc[a].ArraySize
  BY <1>1, <1>2, RemovedSizeExact DEF Idle
<1>4. /\ call'.op = "remove" /\ call'.addr = a /\ call'.i = 0
      /\ call'.TypeSize = alloc[a].TypeSize
      /\ call'.ArraySize = alloc[a].ArraySize
      /\ call'.newAddr = 0
  BY <1>1, <1>3 DEF Idle
<1>5. \A b \in Addr : b # call'.newAddr
  BY <1>4, AddrHash DEF NullPtr
<1>6. \A b \in Addr : /\ b # a => alloc'[b] = alloc[b]
                      /\ alloc'[b] # None => b # a /\ alloc[b] # None
  BY <1>0, <1>1 DEF TypeOK
<1>7. QED
  BY <1>1, <1>4, <1>5, <1>6, ReleaseCounts

(* realloc, which reuses no storage but that of the array it moves.        *)
LEMMA ReallocCounts ==
  ASSUME ForgetInv, NEW a \in Addr, NEW b \in Addr, NEW n \in ArraySizes,
         NEW f \in FakeVPtr, ReallocOinfo(a, b, n, f)
  PROVE  Counts'
<1> DEFINE ts   == alloc[a].TypeSize
           new  == [TypeSize |-> ts, ArraySize |-> n, kind |-> "HEAPALLOC"]
           size == removedSize(a, n, "REALLOC")
           E    == elems(b, ts, n) \cup {b}
<1>0. TypeOK /\ NoEmptyArrays /\ ArraysDisjoint
  BY DEF ForgetInv, LiveInv, TypeInv
<1>1. /\ call = Idle /\ alloc[a] # None /\ alloc[a].kind = "HEAPALLOC"
      /\ live' = killed(arrayElems(a))
      /\ alloc' = [alloc EXCEPT ![a] = None, ![b] = new]
      /\ UNCHANGED <<ObjTypeMap, hexTree>>
      /\ call' = [Idle EXCEPT !.op = "remove", !.addr = a, !.TypeSize = ts,
                    !.ArraySize = size,
                    !.fvp = f, !.newAddr = b, !.newSize = n]
  BY DEF ReallocOinfo, ready
<1>2. E \subseteq Addr
      /\ \A c \in E \ (arrayElems(a) \cup {a}) : ~Occupied(c) /\ ~InArray(c)
  BY DEF ReallocOinfo
<1>3. size = alloc[a].ArraySize
  BY <1>1, RemovedSizeExact DEF Idle
<1>4. /\ call'.op = "remove" /\ call'.addr = a /\ call'.i = 0
      /\ call'.TypeSize = alloc[a].TypeSize
      /\ call'.ArraySize = alloc[a].ArraySize
      /\ call'.newAddr = b
  BY <1>1, <1>3 DEF Idle
<1>5. a \in arrayElems(a)
  BY <1>0, <1>1, ArrayBase
<1>6. ASSUME NEW c \in Addr, alloc[c] # None, c # a
      PROVE  c # b
  <2>1. c \in arrayElems(c) /\ c \notin arrayElems(a)
    BY <1>0, <1>1, <1>6, ArrayBase DEF ArraysDisjoint
  <2>2. QED
    BY <1>2, <1>6, <2>1 DEF Occupied
<1>7. \A c \in Addr : /\ alloc[c] # None /\ c # a =>
                           alloc'[c] = alloc[c] /\ c # call'.newAddr
                      /\ alloc'[c] # None =>
                           \/ c # a /\ alloc[c] # None
                           \/ c = call'.newAddr
  BY <1>0, <1>1, <1>4, <1>6 DEF TypeOK
<1>8. ASSUME NEW c \in arrayElems(b)' PROVE live'[c] = None
  <2>1. c \in E
    BY <1>0, <1>1, <1>8 DEF arrayElems, TypeOK
  <2>2. c \in Addr /\ (c \in arrayElems(a) \/ live[c] = None)
    BY <1>2, <1>5, <2>1 DEF Occupied
  <2>3. QED
    BY <1>1, <2>2, KilledLive
<1>9. \A c \in Addr : c = call'.newAddr =>
        \A e \in arrayElems(c)' : live'[e] = None
  <2> SUFFICES ASSUME NEW c \in Addr, c = b
               PROVE  \A e \in arrayElems(c)' : live'[e] = None
    BY <1>4
  <2>1. arrayElems(c)' = arrayElems(b)'
    BY DEF arrayElems
  <2>2. QED
    BY <1>8, <2>1
<1>10. QED
  BY <1>1, <1>4, <1>7, <1>9, ReleaseCounts

(* One element is registered.  If it had an entry already, it was          *)
(* registered by an earlier iteration.                                     *)
LEMMA UpdateElemCounts ==
  ASSUME ForgetInv, UpdateElem
  PROVE  Counts'
<1>0. /\ KeyDistinct /\ TypeOK /\ ArraysInAddr /\ UpdateCall /\ Filed
      /\ ArraysDisjoint /\ Registered /\ Entries /\ Once
  BY DEF ForgetInv, LiveInv, TypeInv
<1>1. PICK A, x, i : A = call.addr /\ x = current /\ i = call.i
  OBVIOUS
<1>2. /\ call.op = "update" /\ call.i < call.ArraySize
      /\ updateOne(x, call.ArraySize, call.fvp)
      /\ live' = [live EXCEPT ![x] = call.fvp]
      /\ call' = [call EXCEPT !.i = @ + 1]
      /\ UNCHANGED alloc
  BY <1>1 DEF UpdateElem
<1>3. /\ A \in Addr /\ alloc[A] # None /\ call.fvp # None
      /\ x \in Addr /\ x \in arrayElems(A)
      /\ x = elemAddr(A, alloc[A].TypeSize, i) /\ i \in Nat
  BY <1>0, <1>1, <1>2, CurrentInAddr, FvpNotNone
     DEF UpdateCall, current, TypeOK, Call
<1>4. call'.op = "update" /\ call'.addr = A /\ call'.i = i + 1
  BY <1>0, <1>1, <1>2 DEF TypeOK, Call
<1>5. /\ \A c \in Addr \ {x} : Found(c)' <=> Found(c)
      /\ InTree(x)' => InTree(x)
      /\ \A c \in Addr \ {x} :
           (InSlot(c) /\ InTree(c))' => InSlot(c) /\ InTree(c)
  BY <1>0, <1>2, <1>3, CopiesUpdated, UpdateOneLookup
<1>6. live'[x] # None /\ \A c \in Addr \ {x} : live'[c] = live[c]
  BY <1>0, <1>2, <1>3 DEF TypeOK
<1>7. \A c : awaiting(c) = {} /\ awaiting(c)' = {}
  BY <1>2, <1>4 DEF awaiting
<1>8. noted(A) = i /\ noted(A)' = i + 1
  BY <1>1, <1>2, <1>4 DEF noted
<1>9. \A b, c : b # A => notedAt(b, c)' = notedAt(b, c)
  BY <1>1, <1>2, <1>4 DEF notedAt, noted
<1>10. ASSUME NEW c
       PROVE  /\ notedAt(A, c) \subseteq notedAt(A, c)'
              /\ c = x => i \in notedAt(A, c)' /\ i \notin notedAt(A, c)
              /\ c # x => notedAt(A, c)' = notedAt(A, c)
  <2>1. notedAt(A, c) = {j \in 0 .. i - 1 : elemAddr(A, alloc[A].TypeSize, j) = c}
    BY <1>8 DEF notedAt
  <2>2. notedAt(A, c)' = {j \in 0 .. i : elemAddr(A, alloc[A].TypeSize, j) = c}
    BY <1>2, <1>3, <1>8 DEF notedAt
  <2>3. 0 .. i = (0 .. i - 1) \cup {i} /\ i \notin 0 .. i - 1
    BY <1>3
  <2>4. QED
    BY <1>3, <2>1, <2>2, <2>3
<1>11. Registered'
  <2> SUFFICES ASSUME NEW b \in Addr, alloc[b] # None, NEW c \in arrayElems(b)
               PROVE  live'[c] # None <=> notedAt(b, c)' # {}
    BY <1>2 DEF Registered, arrayElems
  <2>1. c \in Addr
    BY <1>0 DEF ArraysInAddr
  <2>2. CASE b = A /\ c = x
    BY <1>6, <1>10, <2>2
  <2>3. CASE b = A /\ c # x
    BY <1>0, <1>6, <1>10, <2>1, <2>3 DEF Registered
  <2>4. CASE b # A
    <3>1. c # x
      BY <1>0, <1>3, <2>4 DEF ArraysDisjoint
    <3>2. QED
      BY <1>0, <1>6, <1>9, <2>1, <2>4, <3>1 DEF Registered
  <2>5. QED
    BY <2>2, <2>3, <2>4
<1>12. Entries'
  BY <1>0, <1>5, <1>6, <1>7 DEF Entries
<1>13. Once'
  <2> SUFFICES ASSUME NEW c \in Addr, InSlot(c)', InTree(c)'
               PROVE  \E b \in Addr : alloc[b] # None /\ Several(notedAt(b, c)')
    BY <1>2 DEF Once, Several
  <2>1. CASE c = x
    <3>1. live[x] # None
      BY <1>0, <1>3, <1>5, <1>7, <2>1 DEF Entries, Found
    <3>2. PICK j : j \in notedAt(A, c)
      BY <1>0, <1>3, <2>1, <3>1 DEF Registered
    <3>3. j # i /\ j \in notedAt(A, c)' /\ i \in notedAt(A, c)'
      BY <1>10, <2>1, <3>2
    <3>4. Several(notedAt(A, c)')
      BY <3>3 DEF Several
    <3>5. QED
      BY <1>3, <3>4
  <2>2. CASE c # x
    <3>1. InSlot(c) /\ InTree(c)
      BY <1>5, <2>2
    <3>2. PICK b \in Addr : alloc[b] # None /\ Several(notedAt(b, c))
      BY <1>0, <1>7, <3>1 DEF Once, Several
    <3>3. notedAt(b, c)' = notedAt(b, c)
      BY <1>9, <1>10, <2>2
    <3>4. QED
      BY <3>2, <3>3
  <2>3. QED
    BY <2>1, <2>2
<1>14. QED
  BY <1>11, <1>12, <1>13 DEF Counts

(* One element is removed.  If it still has an entry, it was registered by *)
(* several iterations, and is removed by as many.                          *)
LEMMA RemoveElemCounts ==
  ASSUME ForgetInv, RemoveElem
  PROVE  Counts'
<1>0. /\ KeyDistinct /\ TypeOK /\ DeadElems
      /\ Registered /\ Entries /\ Once
  BY DEF ForgetInv, LiveInv, TypeInv
<1>1. PICK x, i : x = current /\ i = call.i
  OBVIOUS
<1>2. /\ call.op = "remove" /\ call.i < call.ArraySize
      /\ removeOne(x)
      /\ call' = [call EXCEPT !.i = @ + 1]
      /\ UNCHANGED <<live, alloc>>
  BY <1>1 DEF RemoveElem
<1>3. /\ i \in Nat /\ call.ArraySize \in Nat
      /\ x = elemAddr(call.addr, call.TypeSize, i)
  BY <1>0, <1>1 DEF TypeOK, Call, current
<1>4. x \in Addr /\ live[x] = None
  BY <1>0, <1>1, <1>2, <1>3 DEF DeadElems
<1>5. /\ call'.op = "remove" /\ call'.addr = call.addr /\ call'.i = i + 1
      /\ call'.TypeSize = call.TypeSize /\ call'.ArraySize = call.ArraySize
      /\ call'.newAddr = call.newAddr
  BY <1>0, <1>1, <1>2 DEF TypeOK, Call
<1>6. /\ Found(x)' => InSlot(x) /\ InTree(x)
      /\ ~(InSlot(x) /\ InTree(x))'
      /\ \A c \in Addr \ {x} :
           /\ Found(c)' <=> Found(c)
           /\ (InSlot(c) /\ InTree(c))' => InSlot(c) /\ InTree(c)
  BY <1>0, <1>2, <1>4, CopiesRemoved, RemoveOneLookup
<1>7. \A b, c : notedAt(b, c)' = notedAt(b, c)
  BY <1>2, <1>5 DEF notedAt, noted
<1>8. ASSUME NEW c
      PROVE  /\ awaiting(c)' = awaiting(c) \ {i}
             /\ c # x => awaiting(c)' = awaiting(c)
  <2>1. awaiting(c) = {j \in i .. call.ArraySize - 1 :
                         elemAddr(call.addr, call.TypeSize, j) = c}
    BY <1>1, <1>2 DEF awaiting
  <2>2. awaiting(c)' = {j \in i + 1 .. call.ArraySize - 1 :
                          elemAddr(call.addr, call.TypeSize, j) = c}
    BY <1>5 DEF awaiting
  <2>3. i + 1 .. call.ArraySize - 1 = (i .. call.ArraySize - 1) \ {i}
    BY <1>3
  <2>4. QED
    BY <1>3, <2>1, <2>2, <2>3
<1>9. Registered'
  BY <1>0, <1>2, <1>7 DEF Registered, arrayElems
<1>10. Entries'
  <2> SUFFICES ASSUME NEW c \in Addr, Found(c)'
               PROVE  live[c] # None \/ awaiting(c)' # {}
    BY <1>2 DEF Entries
  <2>1. CASE c = x
    <3>1. InSlot(x) /\ InTree(x)
      BY <1>6, <2>1
    <3>2. ASSUME NEW b \in Addr, alloc[b] # None, Several(notedAt(b, x))
          PROVE  FALSE
      <4>1. x \in arrayElems(b) /\ notedAt(b, x) # {}
        BY <3>2, NotedElem DEF Several
      <4>2. QED
        BY <1>0, <1>4, <3>2, <4>1 DEF Registered
    <3>3. Several(awaiting(x))
      BY <1>0, <1>4, <3>1, <3>2 DEF Once
    <3>4. PICK j \in awaiting(x) : j # i
      BY <3>3 DEF Several
    <3>5. QED
      BY <1>8, <2>1, <3>4
  <2>2. CASE c # x
    BY <1>0, <1>6, <1>8, <2>2 DEF Entries
  <2>3. QED
    BY <2>1, <2>2
<1>11. Once'
  <2> SUFFICES ASSUME NEW c \in Addr, InSlot(c)', InTree(c)'
               PROVE  \/ \E b \in Addr : alloc[b] # None
                                         /\ Several(notedAt(b, c))
                      \/ Several(awaiting(c)')
    BY <1>2, <1>7 DEF Once, Several
  <2>1. c # x /\ InSlot(c) /\ InTree(c)
    BY <1>6
  <2>2. awaiting(c)' = awaiting(c)
    BY <1>8, <2>1
  <2>3. QED
    BY <1>0, <2>1, <2>2 DEF Once
<1>12. QED
  BY <1>9, <1>10, <1>11 DEF Counts

(* A loop that ends has registered, or removed, all it had to.             *)
LEMMA ReturnCounts ==
  ASSUME ForgetInv, Return
  PROVE  Counts'
<1>0. /\ TypeOK /\ UpdateCall /\ LoopBound
      /\ Registered /\ Entries /\ Once
  BY DEF ForgetInv, LiveInv, TypeInv
<1>1. /\ call.op \in {"update", "remove"}
      /\ call.i = call.ArraySize /\ call.ArraySize \in Nat
      /\ UNCHANGED <<ObjTypeMap, hexTree, live, alloc>>
      /\ call' = IF call.newAddr = NullPtr THEN Idle
                 ELSE [Idle EXCEPT !.op = "update", !.addr = call.newAddr,
                         !.TypeSize = call.TypeSize,
                         !.ArraySize = call.newSize, !.fvp = call.fvp]
  <2>1. /\ call.op \in {"idle", "update", "remove"}
        /\ call.i \in Nat /\ call.ArraySize \in Nat
    BY <1>0 DEF TypeOK, Call
  <2>2. call.i = call.ArraySize
    BY <1>0, <2>1 DEF Return, LoopBound
  <2>3. QED
    BY <2>1, <2>2 DEF Return
<1>2. \A c : awaiting(c) = {} /\ awaiting(c)' = {}
  BY <1>1 DEF awaiting, Idle
<1>3. ASSUME NEW b \in Addr, alloc[b] # None PROVE noted(b)' = noted(b)
  <2>1. b # NullPtr
    BY AddrHash
  <2>2. CASE call.op = "update"
    <3>1. call' = Idle
      BY <1>0, <1>1, <2>2 DEF UpdateCall
    <3>2. call'.op = "idle"
      BY <3>1 DEF Idle
    <3>3. noted(b)' = alloc[b].ArraySize
      BY <1>1, <3>2 DEF noted
    <3>4. noted(b) = alloc[b].ArraySize
      BY <1>0, <1>1, <2>2 DEF noted, UpdateCall
    <3>5. QED
      BY <3>3, <3>4
  <2>3. CASE call.op = "remove" /\ call.newAddr = NullPtr
    BY <1>1, <2>1, <2>3 DEF noted, Idle
  <2>4. CASE call.op = "remove" /\ call.newAddr # NullPtr
    <3>1. call'.op = "update" /\ call'.addr = call.newAddr /\ call'.i = 0
      BY <1>1, <2>4 DEF Idle
    <3>2. QED
      BY <1>1, <2>4, <3>1 DEF noted
  <2>5. QED
    BY <1>1, <2>2, <2>3, <2>4
<1>4. \A b \in Addr : alloc[b] # None =>
        \A c : notedAt(b, c)' = notedAt(b, c)
  BY <1>1, <1>3 DEF notedAt
<1>5. Registered'
  BY <1>0, <1>1, <1>4 DEF Registered, arrayElems
<1>6. Entries'
  BY <1>0, <1>1, <1>2 DEF Entries, Found, InSlot, InTree
<1>7. Once'
  <2> SUFFICES ASSUME NEW c \in Addr, InSlot(c), InTree(c)
               PROVE  \E b \in Addr : alloc[b] # None
                                      /\ Several(notedAt(b, c)')
    BY <1>1 DEF Once, Several, InSlot, InTree
  <2>1. PICK b \in Addr : alloc[b] # None /\ Several(notedAt(b, c))
    BY <1>0, <1>2 DEF Once, Several
  <2>2. QED
    BY <1>4, <2>1
<1>8. QED
  BY <1>5, <1>6, <1>7 DEF Counts

(* Every step keeps the counts.                                            *)
LEMMA NextCounts == ForgetInv /\ [Next]_vars => Counts'
<1> SUFFICES ASSUME ForgetInv, [Next]_vars PROVE Counts'
  OBVIOUS
<1>1. Counts /\ ~MayRealias /\ ~MayUnwind
  BY DEF ForgetInv, Counts
<1>2. ASSUME UNCHANGED <<ObjTypeMap, hexTree, call, live, alloc>>
      PROVE  Counts'
  BY <1>1, <1>2, CountsKept
<1>3. QED
  BY <1>1, <1>2, ConstructorCounts, UpdateDirectCounts, RemoveDirectCounts,
     UpdateCounts, RemoveCounts, ReallocCounts, UpdateElemCounts,
     RemoveElemCounts, ReturnCounts
     DEF Next, HandleReinterpretCast, Unwind, VerifyTypeCasting, vars

(* A loop never runs past its end.                                         *)
LEMMA NextLoopBound == ForgetInv /\ [Next]_vars => LoopBound'
<1> SUFFICES ASSUME ForgetInv, [Next]_vars PROVE LoopBound'
  OBVIOUS
<1>0. TypeOK /\ NoEmptyArrays /\ LoopBound
  BY DEF ForgetInv, LiveInv, TypeInv
<1>1. ASSUME UNCHANGED call PROVE LoopBound'
  BY <1>0, <1>1 DEF LoopBound
<1>2. ASSUME call'.i = 0, call'.ArraySize \in Nat PROVE LoopBound'
  BY <1>2 DEF LoopBound
<1>3. ASSUME NEW a \in Addr, NEW ts \in TypeSizes, NEW n \in ArraySizes,
             NEW f \in FakeVPtr, NEW kind \in AllocType,
             UpdateOinfo(a, ts, n, f, kind)
      PROVE  LoopBound'
  <2>1. call'.i = 0 /\ call'.ArraySize = n
    BY <1>3 DEF UpdateOinfo, Idle
  <2>2. QED
    BY <1>2, <2>1, ParametersNat
<1>4. ASSUME NEW a \in Addr, RemoveOinfo(a) PROVE LoopBound'
  <2>1. call'.i = 0
    BY <1>4 DEF RemoveOinfo, Idle
  <2>2. call'.ArraySize \in Nat
    BY NextTypeInv DEF ForgetInv, LiveInv, TypeInv, TypeOK, Call
  <2>3. QED
    BY <1>2, <2>1, <2>2
<1>5. ASSUME NEW a \in Addr, NEW b \in Addr, NEW n \in ArraySizes,
             NEW f \in FakeVPtr, ReallocOinfo(a, b, n, f)
      PROVE  LoopBound'
  <2>1. call'.i = 0
    BY <1>5 DEF ReallocOinfo, Idle
  <2>2. call'.ArraySize \in Nat
    BY NextTypeInv DEF ForgetInv, LiveInv, TypeInv, TypeOK, Call
  <2>3. QED
    BY <1>2, <2>1, <2>2
<1>6. ASSUME UpdateElem \/ RemoveElem PROVE LoopBound'
  <2>1. /\ call.i \in Nat /\ call.ArraySize \in Nat /\ call.i < call.ArraySize
        /\ call'.i = call.i + 1 /\ call'.ArraySize = call.ArraySize
    BY <1>0, <1>6 DEF UpdateElem, RemoveElem, TypeOK, Call
  <2>2. QED
    BY <2>1 DEF LoopBound
<1>7. CASE Return
  <2>1. call'.i = 0
    BY <1>7 DEF Return, Idle
  <2>2. call'.ArraySize \in Nat
    BY NextTypeInv DEF ForgetInv, LiveInv, TypeInv, TypeOK, Call
  <2>3. QED
    BY <1>2, <2>1, <2>2
<1>8. QED
  BY <1>1, <1>3, <1>4, <1>5, <1>6, <1>7 DEF Next, InitObjTypeMap,
     UpdateDirectOinfo, HandleReinterpretCast, RemoveDirectOinfo, Unwind,
     VerifyTypeCasting, vars

-----------------------------------------------------------------------------
(* The recorded lengths.                                                   *)

(* A step that leaves the map alone, gives no object a type and starts no  *)
(* array at a live object.                                                 *)
LEMMA LengthsKept ==
  ASSUME HeapExact, UNCHANGED <<ObjTypeMap, hexTree>>,
         \A b \in Addr : live'[b] \in {None, live[b]},
         \A b \in Addr : alloc'[b] # None /\ live'[b] # None =>
           alloc'[b] = alloc[b]
  PROVE  HeapExact'
BY DEF HeapExact, Found, InSlot, InTree, findObjInfo

(* A step that changes lookups of x only, where no array on the heap       *)
(* starts unless its length is recorded or it dies.                        *)
LEMMA LengthsMoved ==
  ASSUME ForgetInv, NEW x \in Addr, UNCHANGED alloc,
         \A b \in Addr \ {x} :
           /\ live'[b] \in {None, live[b]}
           /\ Found(b) => findObjInfo(b)' = findObjInfo(b),
         \/ live'[x] = None
         \/ alloc[x] = None
         \/ findObjInfo(x)'.HeapArraySize = alloc[x].ArraySize
  PROVE  HeapExact'
<1>1. LiveLookup /\ HeapExact
  BY DEF ForgetInv, LiveInv
<1> SUFFICES ASSUME NEW b \in Addr, alloc[b] # None,
                    alloc[b].kind = "HEAPALLOC", live'[b] # None
             PROVE  findObjInfo(b)'.HeapArraySize = alloc[b].ArraySize
  BY DEF HeapExact
<1>2. CASE b = x
  BY <1>2
<1>3. CASE b # x
  BY <1>1, <1>3 DEF LiveLookup, HeapExact
<1>4. QED
  BY <1>2, <1>3

(* The length recorded for the start of an array is only written by the    *)
(* array's own registration.                                               *)
LEMMA NextHeapExact == ForgetInv /\ [Next]_vars => HeapExact'
<1> SUFFICES ASSUME ForgetInv, [Next]_vars PROVE HeapExact'
  OBVIOUS
<1>0. /\ KeyDistinct /\ TypeOK /\ NoEmptyArrays /\ ArraysInAddr /\ UpdateCall
      /\ Filed /\ BeforeInit /\ ArraysDisjoint /\ DeadElems /\ HeapExact
      /\ ~MayRealias /\ ~MayUnwind
  BY DEF ForgetInv, LiveInv, TypeInv
<1>1. ASSUME UNCHANGED <<ObjTypeMap, hexTree, live, alloc>>
      PROVE  HeapExact'
  BY <1>0, <1>1, LengthsKept
<1>2. CASE InitObjTypeMap
  <2>1. CASE mapReady
    BY <1>1, <1>2, <2>1 DEF InitObjTypeMap
  <2>2. CASE ~mapReady
    BY <1>0, <1>2, <2>2 DEF InitObjTypeMap, BeforeInit, HeapExact
  <2>3. QED
    BY <2>1, <2>2
<1>3. ASSUME NEW a \in Addr, NEW f \in FakeVPtr, UpdateDirectOinfo(a, f)
      PROVE  HeapExact'
  <2>1. /\ alloc[a] = None /\ updateOne(a, 1, f) /\ UNCHANGED alloc
        /\ live' = [live EXCEPT ![a] = f]
    BY <1>3 DEF UpdateDirectOinfo, Occupied
  <2>2. \A b \in Addr \ {a} : /\ live'[b] = live[b]
                              /\ Found(b) => findObjInfo(b)' = findObjInfo(b)
    BY <1>0, <2>1, UpdateOneLookup DEF TypeOK
  <2>3. QED
    BY <2>1, <2>2, LengthsMoved
<1>4. ASSUME NEW a \in Addr, RemoveDirectOinfo(a)
      PROVE  HeapExact'
  <2>1. removeOne(a) /\ live' = killed({a}) /\ UNCHANGED alloc
    BY <1>4 DEF RemoveDirectOinfo
  <2>2. live'[a] = None /\ \A b \in Addr \ {a} : live'[b] = live[b]
    BY <2>1, KilledLive
  <2>3. \A b \in Addr \ {a} : Found(b) => findObjInfo(b)' = findObjInfo(b)
    BY <1>0, <2>1, RemoveOneLookup
  <2>4. QED
    BY <2>1, <2>2, <2>3, LengthsMoved
<1>5. ASSUME NEW a \in Addr, NEW ts \in TypeSizes, NEW n \in ArraySizes,
             NEW f \in FakeVPtr, NEW kind \in AllocType,
             UpdateOinfo(a, ts, n, f, kind)
      PROVE  HeapExact'
  <2>1. live'[a] = None
    BY <1>5 DEF UpdateOinfo, FreshArray, Occupied
  <2>2. \A b \in Addr \ {a} : alloc'[b] = alloc[b]
    BY <1>0, <1>5 DEF UpdateOinfo, TypeOK
  <2>3. UNCHANGED <<ObjTypeMap, hexTree, live>>
    BY <1>5 DEF UpdateOinfo
  <2>4. QED
    BY <1>0, <2>1, <2>2, <2>3, LengthsKept
<1>6. ASSUME NEW a \in Addr, RemoveOinfo(a)
      PROVE  HeapExact'
  <2>1. /\ live' = killed(arrayElems(a)) /\ UNCHANGED <<ObjTypeMap, hexTree>>
        /\ alloc' = [alloc EXCEPT ![a] = None]
    BY <1>6 DEF RemoveOinfo
  <2>2. \A b \in Addr : live'[b] \in {None, live[b]}
    BY <2>1, KilledLive
  <2>3. \A b \in Addr : alloc'[b] # None => alloc'[b] = alloc[b]
    BY <1>0, <2>1 DEF TypeOK
  <2>4. QED
    BY <1>0, <2>1, <2>2, <2>3, LengthsKept
<1>7. ASSUME NEW a \in Addr, NEW b \in Addr, NEW n \in ArraySizes,
             NEW f \in FakeVPtr, ReallocOinfo(a, b, n, f)
      PROVE  HeapExact'
  <2>1. UNCHANGED <<ObjTypeMap, hexTree>> /\ live' = killed(arrayElems(a))
    BY <1>7 DEF ReallocOinfo
  <2>2. \A c \in Addr : live'[c] \in {None, live[c]}
    BY <2>1, KilledLive
  <2>3. live'[b] = None
    <3>1. a \in arrayElems(a)
      BY <1>0, <1>7, ArrayBase DEF ReallocOinfo
    <3>2. b \in arrayElems(a) \/ live[b] = None
      BY <1>7, <3>1 DEF ReallocOinfo, Occupied
    <3>3. QED
      BY <2>1, <3>2, KilledLive
  <2>4. \A c \in Addr \ {b} : alloc'[c] # None => alloc'[c] = alloc[c]
    BY <1>0, <1>7 DEF ReallocOinfo, TypeOK
  <2>5. QED
    BY <1>0, <2>1, <2>2, <2>3, <2>4, LengthsKept
<1>8. CASE UpdateElem
  <2>1. PICK x : x = current
    OBVIOUS
  <2>2. /\ x \in Addr /\ x \in arrayElems(call.addr)
        /\ updateOne(x, call.ArraySize, call.fvp)
        /\ live' = [live EXCEPT ![x] = call.fvp]
        /\ UNCHANGED alloc
    BY <1>0, <1>8, <2>1, CurrentInAddr DEF UpdateElem
  <2>3. /\ call.addr \in Addr /\ alloc[call.addr] # None
        /\ alloc[call.addr].ArraySize = call.ArraySize
    BY <1>0, <1>8 DEF UpdateCall, UpdateElem
  <2>4. /\ findObjInfo(x)' = [ObjAddr |-> x, HeapArraySize |-> call.ArraySize,
                              FakeVPointer |-> call.fvp]
        /\ \A b \in Addr \ {x} :
             /\ live'[b] = live[b]
             /\ Found(b) => findObjInfo(b)' = findObjInfo(b)
    BY <1>0, <2>2, UpdateOneLookup DEF TypeOK
  <2>5. ASSUME alloc[x] # None PROVE call.ArraySize = alloc[x].ArraySize
    <3>1. x \in arrayElems(x)
      BY <1>0, <2>2, <2>5, ArrayBase
    <3>2. x = call.addr
      BY <1>0, <2>2, <2>3, <2>5, <3>1 DEF ArraysDisjoint
    <3>3. QED
      BY <2>3, <3>2
  <2>6. QED
    BY <2>2, <2>4, <2>5, LengthsMoved
<1>9. CASE RemoveElem
  <2>1. PICK x : x = current
    OBVIOUS
  <2>2. call.i \in 0 .. call.ArraySize - 1
    BY <1>0, <1>9 DEF RemoveElem, TypeOK, Call
  <2>3. x \in Addr /\ live[x] = None
    BY <1>0, <1>9, <2>1, <2>2 DEF RemoveElem, DeadElems, current
  <2>4. removeOne(x) /\ UNCHANGED <<live, alloc>>
    BY <1>9, <2>1 DEF RemoveElem
  <2>5. \A b \in Addr \ {x} : Found(b) => findObjInfo(b)' = findObjInfo(b)
    BY <1>0, <2>3, <2>4, RemoveOneLookup
  <2>6. QED
    BY <2>3, <2>4, <2>5, LengthsMoved
<1>10. QED
  BY <1>0, <1>1, <1>2, <1>3, <1>4, <1>5, <1>6, <1>7, <1>8, <1>9
     DEF Next, HandleReinterpretCast, Unwind, Return, VerifyTypeCasting, vars

-----------------------------------------------------------------------------

(* The invariant holds before the first module constructor.                *)
LEMMA InitForgetInv ==
  ASSUME KeyDistinct, NoEmptyArrays, ~MayRealias, ~MayUnwind, Init
  PROVE  ForgetInv
<1>1. LiveInv
  BY InitLiveInv
<1>2. /\ \A a \in Addr : live[a] = None /\ alloc[a] = None
      /\ call = Idle
      /\ ObjTypeMap = [s \in Slot |-> EmptySlot]
      /\ hexTree = [s \in Slot |-> [k \in Key |-> None]]
  BY DEF Init
<1>3. \A a \in Addr : ~Found(a)
  BY <1>2, AddrHash DEF Found, InSlot, InTree, EmptySlot
<1>4. QED
  BY <1>1, <1>2, <1>3 DEF ForgetInv, Registered, Entries, Once, HeapExact,
     LoopBound, Idle, Found

(* A program that never registers a live address again and removes every   *)
(* object when it dies leaves no entry of a dead object behind: after each *)
(* call, of an array too, what is known is live.                           *)
THEOREM ForgetsCorrect ==
  KeyDistinct /\ NoEmptyArrays /\ ~MayRealias /\ ~MayUnwind /\ Spec
    => []RemovedForgotten
<1>1. ForgetInv /\ [Next]_vars => ForgetInv'
  BY NextLiveInv, NextCounts, NextLoopBound, NextHeapExact
     DEF ForgetInv, Counts
<1>2. ForgetInv => RemovedForgotten
  BY IdleCounts DEF ForgetInv, Entries, RemovedForgotten
<1>3. KeyDistinct /\ NoEmptyArrays /\ ~MayRealias /\ ~MayUnwind /\ Init
        => ForgetInv
  BY InitForgetInv
<1>4. QED
  BY <1>1, <1>2, <1>3, PTL DEF Spec
=============================================================================
