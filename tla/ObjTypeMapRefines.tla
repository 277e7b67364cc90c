-------------------------- MODULE ObjTypeMapRefines -------------------------
(***************************************************************************)
(* Proof that the object type map implements the abstract registry: every  *)
(* step of the runtime, an iteration of an array call too, registers or    *)
(* unregisters one address at most, and a cast is judged by what is        *)
(* registered.                                                             *)
(***************************************************************************)
EXTENDS ObjTypeMapProofs, RangeChecksProofs

-----------------------------------------------------------------------------
(* What the refinement needs of the table.                                 *)

(* An entry, also one that is in nobody's way any more, has the type of    *)
(* some object: it may be found again when the entry before it goes.       *)
EntryTypes ==
  /\ \A s \in Slot :
       ObjTypeMap[s].ObjAddr # NullPtr => ObjTypeMap[s].FakeVPointer \in FakeVPtr
  /\ \A s \in Slot, k \in Key :
       hexTree[s][k] # None => hexTree[s][k].FakeVPointer \in FakeVPtr

(* The first module constructor finds nothing to erase.                    *)
NothingBefore ==
  ~mapReady => /\ call = Idle
               /\ \A s \in Slot : ObjTypeMap[s] = EmptySlot
               /\ \A s \in Slot, k \in Key : hexTree[s][k] = None

TableInv == TypeInv /\ Filed /\ EntryTypes /\ NothingBefore

-----------------------------------------------------------------------------
(* Operations on one entry, seen through lookups.                          *)

(* Fake vpointers are 64-bit numbers too.                                  *)
LEMMA FakeVPtrBound == FakeVPtr \subseteq Word
<1>1. FakeVPtr \subseteq 0 .. Word32 - 1
  BY ProgramAssumption
<1>2. Word32 \in Nat /\ Word64 \in Nat /\ Word32 <= Word64
  BY WordAssumption, Word64Assumption, RangeAssumption
<1>3. QED
  BY <1>1, <1>2 DEF Word

(* What is found has the type of an object and is not None.                *)
LEMMA FoundType ==
  ASSUME TableInv, NEW a \in Addr
  PROVE  /\ Found(a) => /\ findObjInfo(a).FakeVPointer \in FakeVPtr
                        /\ registered[a] = findObjInfo(a).FakeVPointer
                        /\ registered[a] # None
         /\ ~Found(a) => registered[a] = None
<1>1. getHash(a) \in Slot /\ compareKey(a) \in Key /\ a # NullPtr
  BY AddrHash
<1>2. Found(a) => findObjInfo(a).FakeVPointer \in FakeVPtr
  BY <1>1 DEF TableInv, EntryTypes, Found, InSlot, InTree, findObjInfo
<1>3. QED
  BY <1>2, FvpNotNone DEF registered

(* What lookups return tells what is registered.                           *)
LEMMA SameLookup ==
  ASSUME NEW a \in Addr,
         Found(a)' <=> Found(a),
         Found(a) => findObjInfo(a)' = findObjInfo(a)
  PROVE  registered'[a] = registered[a]
  BY DEF registered

(* updateOne registers its address.                                        *)
LEMMA UpdateRegisters ==
  ASSUME KeyDistinct, TableInv, NEW a \in Addr, NEW n, NEW f \in FakeVPtr, updateOne(a, n, f)
  PROVE  registered' = [registered EXCEPT ![a] = f]
<1>1. /\ Found(a)'
      /\ findObjInfo(a)' = [ObjAddr |-> a, HeapArraySize |-> n,
                            FakeVPointer |-> f]
      /\ \A b \in Addr \ {a} :
           /\ Found(b)' <=> Found(b)
           /\ Found(b) => findObjInfo(b)' = findObjInfo(b)
  BY UpdateOneLookup DEF TableInv, TypeInv
<1>2. registered'[a] = f
  BY <1>1 DEF registered
<1>3. \A b \in Addr \ {a} : registered'[b] = registered[b]
  BY <1>1, SameLookup
<1>4. /\ registered = [b \in Addr |-> registered[b]]
      /\ registered' = [b \in Addr |-> registered'[b]]
  BY DEF registered
<1>5. QED
  BY <1>2, <1>3, <1>4

(* removeOne changes the lookup of one address at most, whatever address   *)
(* it is called with: none at all, or one is forgotten, or an older entry  *)
(* of the address turns up in the tree.                                    *)
LEMMA RemoveRegisters ==
  ASSUME KeyDistinct, TableInv, NEW x \in Nat, removeOne(x)
  PROVE  \/ registered' = registered
         \/ \E a \in Addr : registered' = [registered EXCEPT ![a] = None]
         \/ \E a \in Addr, f \in FakeVPtr :
              registered' = [registered EXCEPT ![a] = f]
<1> DEFINE s == getHash(x)
           k == compareKey(x)
<1>0. TypeOK /\ Filed
  BY DEF TableInv, TypeInv
<1>1. s \in Slot /\ k \in Key
  BY HashInSlot, KeyInRange
<1>2. ASSUME NEW a \in Addr,
             \A b \in Addr \ {a} : registered'[b] = registered[b],
             registered'[a] \in FakeVPtr \cup {None}
      PROVE  \/ registered' = [registered EXCEPT ![a] = None]
             \/ \E f \in FakeVPtr : registered' = [registered EXCEPT ![a] = f]
  <2>1. /\ registered = [b \in Addr |-> registered[b]]
        /\ registered' = [b \in Addr |-> registered'[b]]
    BY DEF registered
  <2>2. registered' = [registered EXCEPT ![a] = registered'[a]]
    BY <1>2, <2>1
  <2>3. QED
    BY <1>2, <2>2
<1>3. ASSUME \A b \in Addr : registered'[b] = registered[b]
      PROVE  registered' = registered
  BY <1>3 DEF registered
(* the address has the slot *)
<1>4. CASE /\ InSlot(x)
           /\ ObjTypeMap' = [ObjTypeMap EXCEPT ![s].ObjAddr = NullPtr]
           /\ UNCHANGED hexTree
  <2>1. ObjTypeMap[s] \in Entry /\ ObjTypeMap[s].ObjAddr = x
    BY <1>0, <1>1, <1>4 DEF TypeOK, InSlot
  <2>2. /\ ObjTypeMap'[s].ObjAddr = NullPtr
        /\ \A t \in Slot \ {s} : ObjTypeMap'[t] = ObjTypeMap[t]
    BY <1>0, <1>1, <1>4, <2>1 DEF TypeOK, Entry
  <2>3. ASSUME NEW b \in Addr, b # x PROVE registered'[b] = registered[b]
    <3>1. getHash(b) \in Slot /\ b # NullPtr
      BY AddrHash
    <3>2. CASE getHash(b) = s
      <4>1. ~InSlot(b) /\ ~InSlot(b)'
        BY <2>1, <2>2, <2>3, <3>1, <3>2 DEF InSlot
      <4>2. QED
        BY <1>4, <4>1, SameLookup DEF Found, InTree, findObjInfo
    <3>3. CASE getHash(b) # s
      <4>1. ObjTypeMap'[getHash(b)] = ObjTypeMap[getHash(b)]
        BY <2>2, <3>1, <3>3
      <4>2. QED
        BY <1>4, <4>1, SameLookup DEF Found, InSlot, InTree, findObjInfo
    <3>4. QED
      BY <3>2, <3>3
  <2>4. CASE x \notin Addr
    BY <1>3, <2>3, <2>4
  <2>5. CASE x \in Addr
    <3>1. x # NullPtr /\ ~InSlot(x)'
      BY <2>2, <2>5, AddrHash DEF InSlot
    <3>2. InTree(x)' <=> InTree(x)
      BY <1>4 DEF InTree
    <3>3. InTree(x) => findObjInfo(x)' = hexTree[s][k]
      BY <1>4, <3>1 DEF findObjInfo
    <3>4. InTree(x) => hexTree[s][k].FakeVPointer \in FakeVPtr
      BY <1>1 DEF InTree, TableInv, EntryTypes
    <3>5. registered'[x] \in FakeVPtr \cup {None}
      BY <2>5, <3>1, <3>2, <3>3, <3>4 DEF registered, Found
    <3>6. QED
      BY <1>2, <2>3, <2>5, <3>5
  <2>6. QED
    BY <2>4, <2>5
(* the entry with the key of the address is deleted, be it its own or not  *)
<1>5. CASE /\ hexTree' = [hexTree EXCEPT ![s][k] = None]
           /\ UNCHANGED ObjTypeMap
  <2>1. ASSUME NEW b \in Addr, getHash(b) # s \/ compareKey(b) # k
        PROVE  registered'[b] = registered[b]
    <3>1. getHash(b) \in Slot /\ compareKey(b) \in Key
      BY AddrHash
    <3>2. hexTree'[getHash(b)][compareKey(b)] =
            hexTree[getHash(b)][compareKey(b)]
      BY <1>0, <1>1, <1>5, <2>1, <3>1 DEF TypeOK
    <3>3. QED
      BY <1>5, <3>2, SameLookup DEF Found, InSlot, InTree, findObjInfo
  <2>2. CASE \A b \in Addr : getHash(b) # s \/ compareKey(b) # k
    BY <1>3, <2>1, <2>2
  <2>3. ASSUME NEW a \in Addr, getHash(a) = s, compareKey(a) = k
        PROVE  \/ registered' = [registered EXCEPT ![a] = None]
               \/ \E f \in FakeVPtr :
                    registered' = [registered EXCEPT ![a] = f]
    <3>1. \A b \in Addr \ {a} : getHash(b) # s \/ compareKey(b) # k
      BY <2>3 DEF KeyDistinct
    <3>2. hexTree'[s][k] = None
      BY <1>0, <1>1, <1>5 DEF TypeOK
    <3>3. ~InTree(a)'
      BY <2>3, <3>2 DEF InTree
    <3>4. InSlot(a)' <=> InSlot(a)
      BY <1>5 DEF InSlot
    <3>5. InSlot(a) => /\ Found(a)
                       /\ findObjInfo(a)' = findObjInfo(a)
      BY <1>5, <3>4 DEF Found, InSlot, findObjInfo
    <3>6. registered'[a] \in FakeVPtr \cup {None}
      BY <3>3, <3>4, <3>5, FoundType DEF registered, Found
    <3>7. QED
      BY <1>2, <2>1, <3>1, <3>6
  <2>4. QED
    BY <2>2, <2>3
<1>6. QED
  BY <1>4, <1>5 DEF removeOne

-----------------------------------------------------------------------------
(* The invariant.                                                          *)

(* Registering writes the type of an object.                               *)
LEMMA UpdateEntryTypes ==
  ASSUME TypeOK, Filed, EntryTypes,
         NEW a \in Addr, NEW n, NEW f \in FakeVPtr, updateOne(a, n, f)
  PROVE  EntryTypes'
<1> DEFINE s   == getHash(a)
           old == ObjTypeMap[s]
           new == [ObjAddr |-> a, HeapArraySize |-> n, FakeVPointer |-> f]
<1>1. s \in Slot
  BY AddrHash
<1>2. ObjTypeMap' = [ObjTypeMap EXCEPT ![s] = new]
  BY DEF updateOne
<1>3. \A t \in Slot : ObjTypeMap'[t].ObjAddr # NullPtr =>
                        ObjTypeMap'[t].FakeVPointer \in FakeVPtr
  BY <1>1, <1>2 DEF TypeOK, EntryTypes
<1>4. CASE hexTree' = hexTree
  BY <1>3, <1>4 DEF EntryTypes
<1>5. CASE old.ObjAddr \notin {NullPtr, a}
  <2>1. hexTree' = [hexTree EXCEPT ![s][compareKey(old.ObjAddr)] = old]
    BY <1>5 DEF updateOne
  <2>2. compareKey(old.ObjAddr) \in Key /\ old.FakeVPointer \in FakeVPtr
    BY <1>1, <1>5, Occupant DEF Filed, EntryTypes
  <2>3. \A t \in Slot, k \in Key : hexTree'[t][k] \in {old, hexTree[t][k]}
    BY <1>1, <2>1, <2>2 DEF TypeOK
  <2>4. QED
    BY <1>3, <2>2, <2>3 DEF EntryTypes
<1>6. QED
  BY <1>4, <1>5 DEF updateOne

(* A removal writes none.                                                  *)
LEMMA RemoveEntryTypes ==
  ASSUME TypeOK, EntryTypes, NEW x \in Nat, removeOne(x)
  PROVE  EntryTypes'
<1> DEFINE s == getHash(x)
           k == compareKey(x)
<1>1. s \in Slot /\ k \in Key
  BY HashInSlot, KeyInRange
<1>2. CASE /\ ObjTypeMap' = [ObjTypeMap EXCEPT ![s].ObjAddr = NullPtr]
           /\ UNCHANGED hexTree
  <2>1. ObjTypeMap[s] \in Entry
    BY <1>1 DEF TypeOK
  <2>2. /\ ObjTypeMap'[s].ObjAddr = NullPtr
        /\ \A t \in Slot \ {s} : ObjTypeMap'[t] = ObjTypeMap[t]
    BY <1>1, <1>2, <2>1 DEF TypeOK, Entry
  <2>3. QED
    BY <1>2, <2>2 DEF EntryTypes
<1>3. CASE /\ hexTree' = [hexTree EXCEPT ![s][k] = None]
           /\ UNCHANGED ObjTypeMap
  <2>1. \A t \in Slot, j \in Key : hexTree'[t][j] \in {None, hexTree[t][j]}
    BY <1>1, <1>3 DEF TypeOK
  <2>2. QED
    BY <1>3, <2>1 DEF EntryTypes
<1>4. QED
  BY <1>2, <1>3 DEF removeOne

(* Every step keeps the types of the entries.                              *)
LEMMA NextEntryTypes == TableInv /\ [Next]_vars => EntryTypes'
<1> SUFFICES ASSUME TableInv, [Next]_vars PROVE EntryTypes'
  OBVIOUS
<1>0. /\ TypeOK /\ ArraysInAddr /\ UpdateCall
      /\ Filed /\ EntryTypes /\ NothingBefore
  BY DEF TableInv, TypeInv
<1>1. ASSUME UNCHANGED <<ObjTypeMap, hexTree>> PROVE EntryTypes'
  BY <1>0, <1>1 DEF EntryTypes
<1>2. CASE InitObjTypeMap
  <2>1. CASE ~mapReady
    BY <1>2, <2>1 DEF InitObjTypeMap, EmptySlot, EntryTypes
  <2>2. QED
    BY <1>1, <1>2, <2>1 DEF InitObjTypeMap
<1>3. ASSUME NEW a \in Addr, NEW f \in FakeVPtr,
             UpdateDirectOinfo(a, f) \/ HandleReinterpretCast(a, f)
      PROVE  EntryTypes'
  BY <1>0, <1>3, UpdateEntryTypes DEF UpdateDirectOinfo, HandleReinterpretCast
<1>4. ASSUME NEW a \in Addr, RemoveDirectOinfo(a) PROVE EntryTypes'
  BY <1>0, <1>4, RemoveEntryTypes, ProgramAssumption DEF RemoveDirectOinfo
<1>5. CASE UpdateElem
  <2>1. current \in Addr /\ call.fvp \in FakeVPtr
    BY <1>0, <1>5, CurrentInAddr DEF UpdateElem, UpdateCall
  <2>2. QED
    BY <1>0, <1>5, <2>1, UpdateEntryTypes DEF UpdateElem
<1>6. CASE RemoveElem
  BY <1>0, <1>6, CurrentNat, RemoveEntryTypes DEF RemoveElem
<1>7. QED
  BY <1>1, <1>2, <1>3, <1>4, <1>5, <1>6 DEF Next, Unwind, UpdateOinfo,
     RemoveOinfo, ReallocOinfo, Return, VerifyTypeCasting, vars

(* Before the first constructor, nothing but it can happen.                *)
LEMMA NextNothingBefore == TableInv /\ [Next]_vars => NothingBefore'
<1> SUFFICES ASSUME TableInv, [Next]_vars, ~mapReady' PROVE NothingBefore'
  BY DEF NothingBefore
<1>1. NothingBefore
  BY DEF TableInv
<1>2. CASE UNCHANGED vars
  BY <1>1, <1>2 DEF NothingBefore, vars
<1>3. ~InitObjTypeMap
  BY DEF InitObjTypeMap
<1>4. ASSUME ready, mapReady' = mapReady PROVE FALSE
  BY <1>4 DEF ready
<1>5. ASSUME call.op # "idle", mapReady' = mapReady PROVE FALSE
  BY <1>1, <1>5 DEF NothingBefore, Idle
<1>6. QED
  BY <1>2, <1>3, <1>4, <1>5 DEF Next, UpdateDirectOinfo,
     HandleReinterpretCast, RemoveDirectOinfo, Unwind, UpdateOinfo,
     RemoveOinfo, ReallocOinfo, UpdateElem, RemoveElem, Return,
     VerifyTypeCasting

(* An empty table has no entries, and is there before the constructor.     *)
LEMMA InitTableInv == Init => TableInv
<1>1. Init => EntryTypes /\ NothingBefore
  BY DEF Init, EmptySlot, EntryTypes, NothingBefore
<1>2. QED
  BY <1>1, InitTypeInv, InitFiled DEF TableInv

(* The invariant is inductive.                                             *)
LEMMA NextTableInv == TableInv /\ [Next]_vars => TableInv'
  BY NextTypeInv, NextFiled, NextEntryTypes, NextNothingBefore
     DEF TableInv

-----------------------------------------------------------------------------
(* The refinement.                                                         *)

(* Nothing is registered at the start.                                     *)
LEMMA InitRegistry == Init => Registry!RegInit
<1> SUFFICES ASSUME Init PROVE Registry!RegInit
  OBVIOUS
<1>1. \A a \in Addr : ~Found(a)
  BY AddrHash DEF Init, EmptySlot, Found, InSlot, InTree
<1>2. registered = [a \in Addr |-> None]
  BY <1>1 DEF registered
<1>3. QED
  BY <1>2 DEF Init, Registry!RegInit

(* A cast is judged by membership of the registered type in the range.     *)
LEMMA OutcomeJudged ==
  ASSUME TableInv, NEW a \in Addr \cup {NullPtr}, NEW r \in Ranges
  PROVE  castOutcome(a, r[1], r[2]) = Registry!Judge(a, r[1], r[2])
<1>1. CASE a = NullPtr
  BY <1>1 DEF castOutcome, Registry!Judge
<1>2. CASE a # NullPtr
  <2>1. a \in Addr
    BY <1>2
  <2>2. r[1] \in Nat /\ r[2] \in Nat /\ r[1] + r[2] <= Word64
    BY RangeAssumption
  <2>3. CASE ~Found(a)
    <3>1. registered[a] = None
      BY <2>1, <2>3, FoundType
    <3>2. QED
      BY <2>3, <3>1 DEF castOutcome, Registry!Judge
  <2>4. CASE Found(a)
    <3> DEFINE f == findObjInfo(a).FakeVPointer
    <3>1. f \in FakeVPtr /\ registered[a] = f /\ registered[a] # None
      BY <2>1, <2>4, FoundType
    <3>2. f \in Word
      BY <3>1, FakeVPtrBound
    <3>3. castOutcome(a, r[1], r[2]) =
            IF minus64(f, r[1]) >= r[2] THEN "bad" ELSE "safe"
      BY <1>2, <2>4 DEF castOutcome
    <3>4. Registry!Judge(a, r[1], r[2]) =
            IF r[1] <= f /\ f < r[1] + r[2] THEN "safe" ELSE "bad"
      BY <1>2, <3>1 DEF Registry!Judge
    <3> HIDE DEF f
    <3>5. minus64(f, r[1]) >= r[2] <=> ~(r[1] <= f /\ f < r[1] + r[2])
      BY <2>2, <3>2, MinusIsMembership
    <3>6. QED
      BY <3>3, <3>4, <3>5
  <2>5. QED
    BY <2>3, <2>4
<1>3. QED
  BY <1>1, <1>2

(* So the check of a cast is the cast of the registry at the same address  *)
(* to the same range.                                                      *)
LEMMA CastRefines ==
  ASSUME TableInv, NEW a \in Addr \cup {NullPtr}, NEW r \in Ranges,
         VerifyTypeCasting(a, r[1], r[2])
  PROVE  Registry!Cast(a, r[1], r[2])
<1>1. registered' = registered
  BY DEF VerifyTypeCasting, registered, Found, InSlot, InTree, findObjInfo
<1>2. verdict' = [addr |-> a, start |-> r[1], width |-> r[2],
                  outcome |-> Registry!Judge(a, r[1], r[2])]
  BY OutcomeJudged DEF VerifyTypeCasting
<1>3. QED
  BY <1>1, <1>2 DEF Registry!Cast

(* Every step is a step of the registry, or leaves it as it is.            *)
LEMMA NextRegistry ==
  KeyDistinct /\ TableInv /\ [Next]_vars => [Registry!RegNext]_(Registry!regVars)
<1> SUFFICES ASSUME KeyDistinct, TableInv, [Next]_vars
             PROVE  Registry!RegNext \/ UNCHANGED <<registered, verdict>>
  BY DEF Registry!regVars
<1>0. TypeOK /\ ArraysInAddr /\ UpdateCall /\ NothingBefore
  BY DEF TableInv, TypeInv
<1>1. ASSUME UNCHANGED <<ObjTypeMap, hexTree>> PROVE registered' = registered
  BY <1>1 DEF registered, Found, InSlot, InTree, findObjInfo
<1>2. ASSUME NEW a \in Addr, NEW n, NEW f \in FakeVPtr,
             updateOne(a, n, f), UNCHANGED verdict
      PROVE  Registry!RegNext
  <2>1. Registry!Register(a, f)
    BY <1>2, UpdateRegisters DEF Registry!Register
  <2>2. QED
    BY <2>1 DEF Registry!RegNext
<1>3. ASSUME NEW x \in Nat, removeOne(x), UNCHANGED verdict
      PROVE  Registry!RegNext \/ UNCHANGED <<registered, verdict>>
  BY <1>3, RemoveRegisters
     DEF Registry!RegNext, Registry!Register, Registry!Unregister
<1>4. CASE InitObjTypeMap
  <2>1. CASE ~mapReady
    <3>1. \A a \in Addr : ~Found(a)
      BY <1>0, <2>1, AddrHash
         DEF NothingBefore, EmptySlot, Found, InSlot, InTree
    <3>2. \A a \in Addr : ~Found(a)'
      BY <1>4, <2>1, AddrHash
         DEF InitObjTypeMap, EmptySlot, Found, InSlot, InTree
    <3>3. registered' = registered
      BY <3>1, <3>2 DEF registered
    <3>4. QED
      BY <1>4, <3>3 DEF InitObjTypeMap
  <2>2. QED
    BY <1>1, <1>4, <2>1 DEF InitObjTypeMap
<1>5. ASSUME NEW a \in Addr, NEW f \in FakeVPtr,
             UpdateDirectOinfo(a, f) \/ HandleReinterpretCast(a, f)
      PROVE  Registry!RegNext
  BY <1>2, <1>5 DEF UpdateDirectOinfo, HandleReinterpretCast
<1>6. ASSUME NEW a \in Addr, RemoveDirectOinfo(a)
      PROVE  Registry!RegNext \/ UNCHANGED <<registered, verdict>>
  BY <1>3, <1>6, ProgramAssumption DEF RemoveDirectOinfo
<1>7. CASE UpdateElem
  <2>1. current \in Addr /\ call.fvp \in FakeVPtr
    BY <1>0, <1>7, CurrentInAddr DEF UpdateElem, UpdateCall
  <2>2. QED
    BY <1>2, <1>7, <2>1 DEF UpdateElem
<1>8. CASE RemoveElem
  BY <1>0, <1>3, <1>8, CurrentNat DEF RemoveElem
<1>9. ASSUME NEW a \in Addr \cup {NullPtr}, NEW r \in Ranges,
             VerifyTypeCasting(a, r[1], r[2])
      PROVE  Registry!RegNext
  BY <1>9, CastRefines DEF Registry!RegNext
<1>10. QED
  BY <1>1, <1>4, <1>5, <1>6, <1>7, <1>8, <1>9 DEF Next, Unwind, UpdateOinfo,
     RemoveOinfo, ReallocOinfo, Return, vars

(* The runtime, with its slots, its displaced entries and its loops,       *)
(* behaves as a partial map from addresses to types: each cast is judged   *)
(* by the membership of the type at its address in its range, and passed   *)
(* over in silence only where nothing is registered, whatever the program  *)
(* does, as long as the low words of the addresses of a slot differ.       *)
THEOREM RegistryImplemented == KeyDistinct /\ Spec => ImplementsRegistry
<1> DEFINE RefInv == KeyDistinct /\ TableInv
<1>1. KeyDistinct /\ Init => RefInv
  BY InitTableInv
<1>2. RefInv /\ [Next]_vars => RefInv'
  BY NextTableInv DEF KeyDistinct
<1>3. RefInv /\ [Next]_vars => [Registry!RegNext]_(Registry!regVars)
  BY NextRegistry
<1> HIDE DEF RefInv
<1>4. QED
  BY <1>1, <1>2, <1>3, InitRegistry, PTL
     DEF Spec, ImplementsRegistry, Registry!RegSpec

-----------------------------------------------------------------------------
(* The trees.                                                              *)

(* A displaced entry is one that a tree takes.                             *)
LEMMA OccupantEntry ==
  ASSUME TableInv, NEW s \in Slot, ObjTypeMap[s].ObjAddr # NullPtr
  PROVE  ObjTypeMap[s] \in ObjectEntry
<1>1. ObjTypeMap[s] \in Entry
  BY DEF TableInv, TypeInv, TypeOK
<1>2. ObjTypeMap[s].ObjAddr \in Addr
  BY <1>1 DEF Entry
<1>3. ObjTypeMap[s].FakeVPointer \in FakeVPtr
  BY DEF TableInv, EntryTypes
<1>4. QED
  BY <1>1, <1>2, <1>3 DEF Entry, ObjectEntry

(* Registering an address adds the displaced entry to its slot's tree,     *)
(* under the displaced address.                                            *)
LEMMA UpdateUsesTrees ==
  ASSUME TableInv, NEW a \in Addr, NEW n, NEW f, updateOne(a, n, f),
         NEW t \in Slot
  PROVE  [Tree(t)!MapNext]_(hexTree[t])
<1> DEFINE s   == getHash(a)
           old == ObjTypeMap[s]
           k   == compareKey(old.ObjAddr)
<1>0. TypeOK /\ Filed
  BY DEF TableInv, TypeInv
<1>1. s \in Slot
  BY AddrHash
<1>2. CASE old.ObjAddr \in {NullPtr, a}
  BY <1>2 DEF updateOne
<1>3. CASE old.ObjAddr \notin {NullPtr, a}
  <2>1. hexTree' = [hexTree EXCEPT ![s][k] = old]
    BY <1>3 DEF updateOne
  <2>2. k \in Key /\ old \in ObjectEntry
    BY <1>0, <1>1, <1>3, Occupant, OccupantEntry DEF Filed
  <2>3. CASE t # s
    BY <1>0, <1>1, <2>1, <2>3 DEF TypeOK
  <2>4. CASE t = s
    <3>1. /\ hexTree'[t][k] = old
          /\ \A j \in Key \ {k} : hexTree'[t][j] = hexTree[t][j]
      BY <1>0, <1>1, <2>1, <2>2, <2>4 DEF TypeOK
    <3>2. PICK e \in ObjectEntry : e = old
      BY <2>2
    <3>3. Tree(t)!Put(e)
      BY <3>1, <3>2 DEF Tree!Put, Tree!Set
    <3>4. QED
      BY <3>3 DEF Tree!MapNext
  <2>5. QED
    BY <2>3, <2>4
<1>4. QED
  BY <1>2, <1>3

(* A removal deletes one key of one tree at most.                          *)
LEMMA RemoveUsesTrees ==
  ASSUME TableInv, NEW x \in Nat, removeOne(x), NEW t \in Slot
  PROVE  [Tree(t)!MapNext]_(hexTree[t])
<1> DEFINE s == getHash(x)
           k == compareKey(x)
<1>0. TypeOK
  BY DEF TableInv, TypeInv
<1>1. s \in Slot /\ k \in Key /\ compareKey(k) = k
  BY HashInSlot, KeyInRange, WordAssumption DEF compareKey, Key
<1>2. CASE UNCHANGED hexTree
  BY <1>2
<1>3. CASE hexTree' = [hexTree EXCEPT ![s][k] = None]
  <2>1. CASE t # s
    BY <1>0, <1>1, <1>3, <2>1 DEF TypeOK
  <2>2. CASE t = s
    <3>1. /\ hexTree'[t][k] = None
          /\ \A j \in Key \ {k} : hexTree'[t][j] = hexTree[t][j]
      BY <1>0, <1>1, <1>3, <2>2 DEF TypeOK
    <3>2. Tree(t)!Drop(k)
      BY <1>1, <3>1 DEF Tree!Drop, Tree!Set
    <3>3. QED
      BY <1>1, <3>2 DEF Tree!MapNext
  <2>3. QED
    BY <2>1, <2>2
<1>4. QED
  BY <1>2, <1>3 DEF removeOne

(* No step of the program uses a tree in any other way.                    *)
LEMMA NextUsesTrees ==
  TableInv /\ [Next]_vars =>
    [\A s \in Slot : [Tree(s)!MapNext]_(hexTree[s])]_hexTree
<1> SUFFICES ASSUME TableInv, [Next]_vars, NEW t \in Slot,
                    hexTree' # hexTree
             PROVE  [Tree(t)!MapNext]_(hexTree[t])
  OBVIOUS
<1>0. /\ TypeOK /\ ArraysInAddr /\ UpdateCall /\ NothingBefore
  BY DEF TableInv, TypeInv
<1>1. CASE InitObjTypeMap
  <2>1. ~mapReady
    BY <1>1 DEF InitObjTypeMap
  <2>2. hexTree[t] = [k \in Key |-> None]
    BY <1>0, <2>1 DEF TypeOK, NothingBefore
  <2>3. hexTree'[t] = [k \in Key |-> None]
    BY <1>1, <2>1 DEF InitObjTypeMap
  <2>4. QED
    BY <2>2, <2>3
<1>2. ASSUME NEW a \in Addr, NEW f \in FakeVPtr,
             UpdateDirectOinfo(a, f) \/ HandleReinterpretCast(a, f)
      PROVE  [Tree(t)!MapNext]_(hexTree[t])
  BY <1>2, UpdateUsesTrees DEF UpdateDirectOinfo, HandleReinterpretCast
<1>3. ASSUME NEW a \in Addr, RemoveDirectOinfo(a)
      PROVE  [Tree(t)!MapNext]_(hexTree[t])
  BY <1>3, RemoveUsesTrees, ProgramAssumption DEF RemoveDirectOinfo
<1>4. CASE UpdateElem
  BY <1>0, <1>4, CurrentInAddr, UpdateUsesTrees DEF UpdateElem
<1>5. CASE RemoveElem
  BY <1>0, <1>5, CurrentNat, RemoveUsesTrees DEF RemoveElem
<1>6. QED
  BY <1>1, <1>2, <1>3, <1>4, <1>5 DEF Next, Unwind, UpdateOinfo,
     RemoveOinfo, ReallocOinfo, Return, VerifyTypeCasting, vars

(* The table uses its trees within what EntryTree specifies, which is what *)
(* RBTree implements: only entries of objects are filed, under their own   *)
(* low words, and no step changes more than one key.                       *)
THEOREM TreesUsed == Spec => UsesTrees
<1>1. Init => \A s \in Slot : Tree(s)!MapInit
  BY DEF Init, Tree!MapInit
<1>2. TableInv /\ [Next]_vars =>
        [\A s \in Slot : [Tree(s)!MapNext]_(hexTree[s])]_hexTree
  BY NextUsesTrees
<1>3. QED
  BY <1>1, <1>2, InitTableInv, NextTableInv, PTL DEF Spec, UsesTrees
=============================================================================
