-------------------------- MODULE MapThreadsProofs --------------------------
(***************************************************************************)
(* Proofs that the lookups of MapThreads are right, and that it keeps      *)
(* nothing of dead objects, in the slots in which no calls have raced, for *)
(* any number of threads, addresses and slots.                             *)
(***************************************************************************)
EXTENDS MapThreads, TLAPS

Sizing(t) == call[t].at \in {"size", "readSize", "sizeInTree", "walkSize"}

Registering(t) == call[t].at \in {"noTree", "create", "copy", "write", "fill"}

Looping(t) ==
  call[t].at \in {"test", "noTree", "create", "copy", "walk", "write", "fill",
                  "vacate", "inTree", "read"}

(* Which steps belong to which operation, and how far its loop is.         *)
Shape(t) ==
  LET c == call[t]
  IN /\ c.op = "none" <=> c.at = "idle"
     /\ c.op # "none" => c.addr \in Addr /\ c.made > 0 /\ c.i < Word32
     /\ c.op \in {"update", "remove"} => callElems(t) \subseteq Addr
     /\ c.op \in {"update", "cast"} => c.n = c.made
     /\ c.op = "update" => c.type \in FakeVPtr /\ c.made \in ArraySizes
     /\ c.op = "cast" => c.made = 1
     /\ Sizing(t) => c.op = "remove" /\ c.i = 0 /\ c.n = 1
     /\ Registering(t) => c.op = "update"
     /\ c.at = "vacate" => c.op = "remove"
     /\ c.at = "read" => c.op = "cast"
     /\ c.at = "inTree" => c.op \in {"remove", "cast"}
     /\ Looping(t) => c.i < c.n
     /\ c.op = "update" /\ c.at = "return" => c.i = c.n

CallShape == \A t \in Thread : Shape(t)

(* A walk is in a tree that exists.                                        *)
TreeThere ==
  \A t \in Thread :
    call[t].at \in {"copy", "walk", "walkSize"} => HexTree[slot(t)] # None

(* The arrays lie apart, and hold the live objects.                        *)
Blocks ==
  /\ \A a \in Addr : block[a] # None => blockElems(a) \subseteq Addr
  /\ \A a, b \in Addr : a # b /\ block[a] # None /\ block[b] # None
                        => blockElems(a) \cap blockElems(b) = {}
  /\ \A e \in Addr : live[e] # None => InBlock(e)

(* What the calls work on.                                                 *)
Owned(t) ==
  /\ call[t].op = "update" =>
       /\ block[call[t].addr] = call[t].made
       /\ \A e \in callElems(t) : live[e] = None
  /\ call[t].op = "remove" => \A e \in callElems(t) \ reused : ~InBlock(e)
  /\ call[t].op = "cast" => live[call[t].addr] # None

Owners ==
  /\ \A t \in Thread : Owned(t)
  /\ \A t, u \in Thread :
       t # u /\ call[t].op = "update" /\ call[u].op = "update"
       => callElems(t) \cap callElems(u) = {}

(* A removal takes as many elements as the array has.                      *)
Sized ==
  \A t \in Thread :
    call[t].op = "remove" /\ ~Sizing(t) /\ raced # Slot => call[t].n = call[t].made

(* In a slot without a race, a registration is alone.                      *)
Alone ==
  \A t, u \in Thread :
    t # u /\ Working(t) /\ Working(u) /\ slot(t) = slot(u) /\ slot(t) \notin raced
    => call[t].op # "update"

(* Only the owner of a slot vacates it.                                    *)
Vacating ==
  \A t \in Thread :
    at(t, "vacate") /\ slot(t) \notin raced => ObjAddr[slot(t)] \in {obj(t), NullPtr}

(* A registration overwrites a slot when its entry is in the tree.         *)
Displaced(t) ==
  LET s == slot(t)
      c == call[t]
  IN c.op = "update" /\ s \notin raced =>
       /\ c.at \in {"noTree", "create", "copy", "walk"}
            => ObjAddr[s] \notin {NullPtr, obj(t)}
       /\ c.at = "create" => HexTree[s] = None
       /\ c.at = "walk" => c.key = ObjAddr[s] /\ c.copy = info[s]
       /\ c.at = "write" =>
            \/ ObjAddr[s] \in {NullPtr, obj(t)}
            \/ HexTree[s] # None /\ HexTree[s][ObjAddr[s]] = info[s]
       /\ c.at = "fill" => ObjAddr[s] = obj(t)

Displacing == \A t \in Thread : Displaced(t)

(* The type that a lookup of a must find.                                  *)
Registered(a, f) ==
  \/ live[a] = f
  \/ \E t \in Thread : /\ call[t].op = "update" /\ call[t].type = f
                       /\ a \in elems(call[t].addr, call[t].i)

InTreeAs(a, f) ==
  LET T == HexTree[getHash(a)]
  IN T # None /\ T[a] # None /\ T[a].FakeVPointer = f

filling(s) == \E t \in Thread : at(t, "fill") /\ slot(t) = s

Lookups ==
  \A a \in Addr \ reused, f \in FakeVPtr :
    LET s == getHash(a)
    IN Registered(a, f) /\ s \notin raced =>
         IF ObjAddr[s] = a /\ ~filling(s) THEN info[s].FakeVPointer = f
         ELSE InTreeAs(a, f)

(* A cast reads where its object is.                                       *)
Cast(t) ==
  LET a == call[t].addr
      s == getHash(a)
  IN call[t].op = "cast" /\ s \notin raced /\ a \notin reused =>
       /\ at(t, "read") => ObjAddr[s] = a
       /\ call[t].at \in {"inTree", "walk"} => ObjAddr[s] # a
       /\ at(t, "return") => call[t].type = live[a]

Casting == \A t \in Thread : Cast(t)

Wrecks == wrecked \subseteq raced

IInv ==
  /\ TypeOK /\ CallShape /\ TreeThere /\ Blocks /\ Owners /\ Sized /\ Alone
  /\ Vacating /\ Displacing /\ Lookups /\ Casting /\ Wrecks
-----------------------------------------------------------------------------
(* Arithmetic of hashes and elements.                                      *)

(* Hashes are slots.                                                       *)
LEMMA HashSlot == ASSUME NEW a \in Nat PROVE getHash(a) \in Slot
  BY SizeAssumption, Z3 DEF getHash, Slot

(* Elements are addresses; the one that comes next is not among those      *)
(* before it.                                                              *)
LEMMA Elements ==
  ASSUME NEW a \in Nat, NEW i \in Nat
  PROVE  /\ elem(a, i) \in Nat /\ elem(a, 0) = a
         /\ \A n \in Nat : i < n => elem(a, i) \in elems(a, n)
         /\ i < Word32 => elem(a, i) \notin elems(a, i)
         /\ elems(a, i + 1) = elems(a, i) \cup {elem(a, i)}
         /\ elems(a, 0) = {}
         /\ \A n \in Nat : i <= n => elems(a, i) \subseteq elems(a, n)
  <1>1. \A j \in Nat : j % Word32 \in Nat /\ (j < Word32 => j % Word32 = j)
    BY SizeAssumption, Z3
  <1>2. \A j \in Nat : elem(a, j) \in Nat
    BY <1>1 DEF elem
  <1>3. elem(a, 0) = a
    BY <1>1, SizeAssumption DEF elem
  <1>4. ASSUME i < Word32 PROVE elem(a, i) \notin elems(a, i)
    <2>1. SUFFICES ASSUME NEW j \in 0 .. i - 1, elem(a, j) = elem(a, i) PROVE FALSE
      BY DEF elems
    <2>2. j \in Nat /\ j < Word32 /\ i # j
      BY <1>4, SizeAssumption
    <2>3. QED  BY <1>1, <1>4, <2>1, <2>2 DEF elem
  <1>5. elems(a, i + 1) = elems(a, i) \cup {elem(a, i)}
    <2>1. 0 .. i + 1 - 1 = (0 .. i - 1) \cup {i}
      OBVIOUS
    <2>2. QED  BY <2>1 DEF elems
  <1>6. elems(a, 0) = {}
    BY DEF elems
  <1>7. \A n \in Nat : i < n => elem(a, i) \in elems(a, n)
    BY DEF elems
  <1>8. \A n \in Nat : i <= n => elems(a, i) \subseteq elems(a, n)
    BY DEF elems
  <1>9. QED  BY <1>2, <1>3, <1>4, <1>5, <1>6, <1>7, <1>8

(* A counter that has moved on has one more element behind it, or none.    *)
LEMMA NextElement ==
  ASSUME NEW a \in Nat, NEW i \in Nat, NEW j \in {0, i + 1}
  PROVE  elems(a, j) \subseteq elems(a, i) \cup {elem(a, i)}
  <1>1. CASE j = 0
    BY <1>1, Elements
  <1>2. CASE j = i + 1
    BY <1>2, Elements
  <1>3. QED  BY <1>1, <1>2

(* There are no empty arrays.                                              *)
LEMMA Sizes == \A n \in ArraySizes : n \in Nat /\ n > 0
  <1>1. TAKE n \in ArraySizes
  <1>2. n \in Nat \ {0}
    BY SizeAssumption
  <1>3. QED  BY <1>2

(* Nor do entries record one.                                              *)
LEMMA InfoSizes ==
  \A e \in Info : e.HeapArraySize \in Nat /\ e.HeapArraySize > 0
  <1>1. \A e \in Info : e.HeapArraySize \in ArraySizes \cup {1}
    BY DEF Info
  <1>2. \A n \in ArraySizes \cup {1} : n \in Nat /\ n > 0
    BY Sizes
  <1>3. QED  BY <1>1, <1>2

(* The next value of a loop counter.                                       *)
LEMMA Counter ==
  ASSUME NEW i \in Nat, i < Word32
  PROVE  LET j == (i + 1) % Word32
         IN j \in Nat /\ j < Word32 /\ j \in {0, i + 1}
  BY SizeAssumption, Z3

-----------------------------------------------------------------------------
(* What the parts of a step do to the call.                                *)

(* Everything but the step and the type of a call.                         *)
SameCall(t) ==
  /\ call'[t].op = call[t].op /\ call'[t].addr = call[t].addr
  /\ call'[t].made = call[t].made

OtherCalls(t) == \A u \in Thread \ {t} : call'[u] = call[u]

(* A call that goes on changes nothing but its step.                       *)
LEMMA GoFacts ==
  ASSUME TypeOK, NEW t \in Thread, NEW step \in Steps, go(t, step)
  PROVE  /\ call' \in [Thread -> Call] /\ OtherCalls(t) /\ SameCall(t)
         /\ call'[t].at = step
         /\ call'[t].n = call[t].n /\ call'[t].i = call[t].i
         /\ call'[t].type = call[t].type
         /\ call'[t].copy = call[t].copy /\ call'[t].key = call[t].key
  BY DEF TypeOK, go, Call, SameCall, OtherCalls

(* The step that a call goes on to.                                        *)
LEMMA NextAt ==
  ASSUME TypeOK, NEW t \in Thread
  PROVE  /\ \A step : go(t, step) => call'[t].at = step /\ call'[t].n = call[t].n
         /\ \A n : takeSize(t, n) => call'[t].at = "test" /\ call'[t].n = n
         /\ ReadType(t) => call'[t].at = "return" /\ call'[t].n = call[t].n
                           /\ call'[t].type = info[slot(t)].FakeVPointer
  <1>1. call[t] \in Call /\ t \in DOMAIN call
    BY DEF TypeOK
  <1>2. ASSUME NEW step, go(t, step)
        PROVE  call'[t].at = step /\ call'[t].n = call[t].n
    BY <1>1, <1>2 DEF go, Call
  <1>3. ASSUME NEW n, takeSize(t, n)
        PROVE  call'[t].at = "test" /\ call'[t].n = n
    BY <1>1, <1>3 DEF takeSize, Call
  <1>4. ASSUME ReadType(t)
        PROVE  call'[t].at = "return" /\ call'[t].n = call[t].n
               /\ call'[t].type = info[slot(t)].FakeVPointer
    BY <1>1, <1>4 DEF ReadType, Call
  <1>5. QED  BY <1>2, <1>3, <1>4

(* The loop goes on to another element, or ends behind the last one.       *)
LEMMA AdvanceFacts ==
  ASSUME TypeOK, NEW t \in Thread, advance(t), call[t].i < Word32
  PROVE  /\ call' \in [Thread -> Call] /\ OtherCalls(t) /\ SameCall(t)
         /\ call'[t].n = call[t].n /\ call'[t].type = call[t].type
         /\ call'[t].i < Word32 /\ call'[t].i \in {0, call[t].i + 1}
         /\ \/ call'[t].at = "test" /\ call'[t].i < call[t].n
            \/ call'[t].at = "return" /\ call'[t].i >= call[t].n
  <1> DEFINE j == (call[t].i + 1) % Word32
  <1>1. call[t].i \in Nat
    BY DEF TypeOK, Call
  <1>2. j \in Nat /\ j < Word32 /\ j \in {0, call[t].i + 1}
    BY <1>1, Counter
  <1>3. call' = [call EXCEPT ![t].i = j, ![t].copy = NoInfo, ![t].key = NullPtr,
                   ![t].at = IF j < call[t].n THEN "test" ELSE "return"]
    BY DEF advance
  <1>4. NoInfo \in Info /\ NullPtr \in Key
    BY DEF NoInfo, Info, Key
  <1> DEFINE step == IF j < call[t].n THEN "test" ELSE "return"
  <1> HIDE DEF j
  <1>a. step \in Steps
    BY DEF Steps
  <1> HIDE DEF step
  <1>b. [call[t] EXCEPT !.i = j, !.copy = NoInfo, !.key = NullPtr, !.at = step] \in Call
    BY <1>2, <1>4, <1>a DEF TypeOK, Call
  <1>c. call' = [call EXCEPT ![t] = [call[t] EXCEPT !.i = j, !.copy = NoInfo,
                                       !.key = NullPtr, !.at = step]]
    BY <1>3 DEF step
  <1>5. call' \in [Thread -> Call]
    BY <1>b, <1>c DEF TypeOK
  <1> USE DEF step
  <1>6. QED  BY <1>1, <1>2, <1>3, <1>5 DEF TypeOK, Call, SameCall, OtherCalls

(* A removal takes a length; a wrong one spoils all slots.                 *)
LEMMA TakeSizeFacts ==
  ASSUME TypeOK, NEW t \in Thread, NEW n \in Nat, takeSize(t, n)
  PROVE  /\ call' \in [Thread -> Call] /\ OtherCalls(t) /\ SameCall(t)
         /\ call'[t].at = "test" /\ call'[t].n = n
         /\ call'[t].i = call[t].i /\ call'[t].type = call[t].type
         /\ raced' = IF n = call[t].made THEN raced ELSE Slot
  <1>0. "test" \in Steps /\ call[t] \in Call
    BY DEF TypeOK, Steps
  <1>1. [call[t] EXCEPT !.n = n, !.at = "test"] \in Call
    BY <1>0 DEF Call
  <1>2. call' = [call EXCEPT ![t] = [call[t] EXCEPT !.n = n, !.at = "test"]]
    BY DEF takeSize
  <1>3. raced' = IF n = call[t].made THEN raced ELSE Slot
    BY DEF takeSize
  <1>4. call' \in [Thread -> Call]
    BY <1>1, <1>2 DEF TypeOK
  <1>5. OtherCalls(t) /\ SameCall(t) /\ call'[t].at = "test" /\ call'[t].n = n
        /\ call'[t].i = call[t].i /\ call'[t].type = call[t].type
    BY <1>2 DEF TypeOK, SameCall, OtherCalls, Call
  <1>6. QED  BY <1>3, <1>4, <1>5

-----------------------------------------------------------------------------
(* What a step within a call leaves alone.                                 *)

Frame(t) ==
  /\ call' \in [Thread -> Call] /\ OtherCalls(t) /\ SameCall(t)
  /\ raced \subseteq raced' /\ raced' \subseteq Slot
  /\ UNCHANGED truth
  /\ call[t].op # "cast" => call'[t].type = call[t].type
  /\ Shape(t)'

(* The loop stays where it is while the step works on a slot, and a step   *)
(* that begins to work looks for calls that are in its way.                *)
Entry(t) ==
  Working(t)' => /\ call'[t].i = call[t].i
                 /\ ~Working(t) => enter(t)

(* A call that is in progress has a slot.                                  *)
LEMMA SlotOf ==
  ASSUME TypeOK, CallShape, NEW t \in Thread
  PROVE  obj(t) \in Nat /\ slot(t) \in Slot /\ call[t].i \in Nat /\ call[t].n \in Nat
         /\ call[t].addr \in Nat /\ call[t].made \in Nat
  <1>1. call[t].i \in Nat /\ call[t].n \in Nat /\ call[t].addr \in Key /\ call[t].made \in Nat
    BY DEF TypeOK, Call
  <1>2. call[t].addr \in Nat
    BY <1>1, SizeAssumption DEF Key, NullPtr
  <1>3. QED  BY <1>1, <1>2, Elements, HashSlot DEF obj, slot

(* A call that begins to work in a slot only adds to the races.            *)
LEMMA EnterGrows ==
  ASSUME TypeOK, CallShape, NEW t \in Thread, enter(t)
  PROVE  raced \subseteq raced' /\ raced' \subseteq Slot
  BY SlotOf DEF enter, TypeOK

(* So does a walk that begins, and a wrecked tree is in a slot with a      *)
(* race.                                                                   *)
LEMMA BeginWalkGrows ==
  ASSUME TypeOK, CallShape, NEW t \in Thread, NEW step, beginWalk(t, step)
  PROVE  raced \subseteq raced' /\ raced' \subseteq Slot
         /\ wrecked' \subseteq Slot /\ (Wrecks => Wrecks')
  BY SlotOf DEF beginWalk, TypeOK, Wrecks

(* Steps that only go on to the next one.                                  *)
LEMMA GoFrame ==
  ASSUME TypeOK, CallShape, NEW t \in Thread, NEW step \in Steps, go(t, step),
         call[t].op # "none", step # "idle",
         raced \subseteq raced', raced' \subseteq Slot, UNCHANGED truth,
         step \in {"size", "readSize", "sizeInTree", "walkSize"} => Sizing(t),
         step \in {"noTree", "create", "copy", "write", "fill"} => call[t].op = "update",
         step = "vacate" => call[t].op = "remove",
         step = "read" => call[t].op = "cast",
         step = "inTree" => call[t].op \in {"remove", "cast"},
         step # "return", ~Sizing(t) => Looping(t), Sizing(t) =>
           step \in {"size", "readSize", "sizeInTree", "walkSize"}
  PROVE  Frame(t) /\ call'[t].at = step /\ call'[t].i = call[t].i /\ call'[t].n = call[t].n
  <1>1. /\ call' \in [Thread -> Call] /\ OtherCalls(t) /\ SameCall(t)
        /\ call'[t].at = step
        /\ call'[t].n = call[t].n /\ call'[t].i = call[t].i
        /\ call'[t].type = call[t].type
    BY GoFacts
  <1>2. Shape(t)
    BY DEF CallShape
  <1>3. Shape(t)'
    BY <1>1, <1>2 DEF Shape, SameCall, Sizing, Registering, Looping, callElems
  <1>4. QED  BY <1>1, <1>3 DEF Frame

(* Steps that end the treatment of an element.                             *)
LEMMA AdvanceFrame ==
  ASSUME TypeOK, CallShape, NEW t \in Thread, advance(t), Looping(t),
         raced \subseteq raced', raced' \subseteq Slot, UNCHANGED truth
  PROVE  /\ Frame(t) /\ ~Working(t)' /\ call'[t].n = call[t].n
         /\ call'[t].i \in {0, call[t].i + 1}
         /\ call'[t].at \in {"test", "return"}
  <1>1. Shape(t) /\ call[t].op # "none" /\ call[t].i < Word32 /\ call[t].i < call[t].n
    BY DEF CallShape, Shape, Looping
  <1>2. /\ call' \in [Thread -> Call] /\ OtherCalls(t) /\ SameCall(t)
        /\ call'[t].n = call[t].n /\ call'[t].type = call[t].type
        /\ call'[t].i < Word32 /\ call'[t].i \in {0, call[t].i + 1}
        /\ \/ call'[t].at = "test" /\ call'[t].i < call[t].n
           \/ call'[t].at = "return" /\ call'[t].i >= call[t].n
    BY <1>1, AdvanceFacts
  <1>3. call[t].i \in Nat /\ call[t].n \in Nat
    BY SlotOf
  <1>4. Shape(t)'
    BY <1>1, <1>2, <1>3 DEF Shape, SameCall, Sizing, Registering, Looping, callElems
  <1>5. QED  BY <1>2, <1>4 DEF Frame, Working


(* Steps that take a size.                                                 *)
LEMMA TakeFrame ==
  ASSUME TypeOK, CallShape, NEW t \in Thread, NEW n \in Nat, takeSize(t, n), n > 0,
         Sizing(t), UNCHANGED truth
  PROVE  Frame(t) /\ Entry(t) /\ ~Working(t)' /\ call'[t].i = call[t].i
         /\ call'[t].at = "test" /\ call'[t].n = n
  <1>1. Shape(t) /\ ~Looping(t) /\ raced \subseteq Slot
    BY DEF CallShape, Sizing, Looping, TypeOK
  <1>2. /\ call' \in [Thread -> Call] /\ OtherCalls(t) /\ SameCall(t)
        /\ call'[t].at = "test" /\ call'[t].n = n
        /\ call'[t].i = call[t].i /\ call'[t].type = call[t].type
        /\ raced' = IF n = call[t].made THEN raced ELSE Slot
    BY TakeSizeFacts
  <1>3. call[t].op = "remove" /\ call[t].i = 0
    BY <1>1 DEF Shape
  <1>4. Shape(t)'
    BY <1>1, <1>2, <1>3 DEF Shape, SameCall, Sizing, Registering, Looping, callElems
  <1>5. raced \subseteq raced' /\ raced' \subseteq Slot
    BY <1>1, <1>2
  <1>6. QED  BY <1>2, <1>4, <1>5 DEF Frame, Entry, Working

(* The element of a size or a cast is the first one.                       *)
LEMMA FirstElement ==
  ASSUME TypeOK, CallShape, NEW t \in Thread, call[t].op # "none",
         Sizing(t) \/ (call[t].op = "cast" /\ Looping(t))
  PROVE  call[t].i = 0 /\ obj(t) = call[t].addr /\ obj(t) \in Addr /\ obj(t) \in Key
  <1>1. Shape(t) /\ call[t].i \in Nat /\ call[t].addr \in Nat
    BY SlotOf DEF CallShape
  <1>2. call[t].i = 0 /\ call[t].addr \in Addr
    BY <1>1 DEF Shape
  <1>3. QED  BY <1>1, <1>2, Elements DEF obj, Key

(* What the walks return.                                                  *)
LEMMA FoundEntries ==
  ASSUME TypeOK, CallShape, NEW t \in Thread, obj(t) \in Key,
         HexTree[slot(t)] # None, NEW entry \in foundInTree(t)
  PROVE  entry = None \/ entry \in Info
  <1>1. slot(t) \in Slot /\ HexTree[slot(t)] \in [Key -> Info \cup {None}]
    BY SlotOf DEF TypeOK
  <1>2. HexTree[slot(t)][obj(t)] \in Info \cup {None}
    BY <1>1
  <1>3. QED  BY <1>2 DEF foundInTree, tree, Info

(* An entry that is copied for the tree.                                   *)
LEMMA CopyFacts ==
  ASSUME TypeOK, CallShape, NEW t \in Thread, CopyEntry(t)
  PROVE  /\ call' \in [Thread -> Call] /\ OtherCalls(t) /\ SameCall(t)
         /\ call'[t].at = "walk" /\ call'[t].n = call[t].n /\ call'[t].i = call[t].i
         /\ call'[t].type = call[t].type
         /\ call'[t].copy = info[slot(t)] /\ call'[t].key = ObjAddr[slot(t)]
  <1> DEFINE c == [call[t] EXCEPT !.copy = info[slot(t)], !.key = ObjAddr[slot(t)],
                                  !.at = "walk"]
  <1>1. "walk" \in Steps /\ call[t] \in Call /\ info[slot(t)] \in Info
        /\ ObjAddr[slot(t)] \in Key
    BY SlotOf DEF TypeOK, Steps
  <1>2. c \in Call
    BY <1>1 DEF Call
  <1>3. call' = [call EXCEPT ![t] = c]
    BY DEF CopyEntry
  <1>4. call' \in [Thread -> Call]
    BY <1>2, <1>3 DEF TypeOK
  <1>5. QED  BY <1>3, <1>4, <1>1 DEF TypeOK, SameCall, OtherCalls, Call

(* Steps that answer a cast.                                               *)
LEMMA AnswerFrame ==
  ASSUME TypeOK, CallShape, NEW t \in Thread, call[t].op = "cast", Looping(t),
         NEW f \in FakeVPtr \cup {None}, UNCHANGED <<truth, raced>>,
         call' = [call EXCEPT ![t].type = f, ![t].at = "return"]
  PROVE  Frame(t) /\ Entry(t) /\ ~Working(t)' /\ call'[t].type = f
         /\ call'[t].at = "return"
  <1> DEFINE c == [call[t] EXCEPT !.type = f, !.at = "return"]
  <1>1. "return" \in Steps /\ call[t] \in Call /\ Shape(t)
    BY DEF TypeOK, Steps, CallShape
  <1>2. c \in Call
    BY <1>1 DEF Call
  <1>3. call' = [call EXCEPT ![t] = c]
    OBVIOUS
  <1>4. call' \in [Thread -> Call]
    BY <1>2, <1>3 DEF TypeOK
  <1>5. /\ OtherCalls(t) /\ SameCall(t) /\ call'[t].at = "return"
        /\ call'[t].type = f /\ call'[t].n = call[t].n /\ call'[t].i = call[t].i
    BY <1>3, <1>1 DEF TypeOK, SameCall, OtherCalls, Call
  <1>6. Shape(t)'
    BY <1>1, <1>5 DEF Shape, SameCall, Sizing, Registering, Looping, callElems
  <1>7. raced \subseteq raced' /\ raced' \subseteq Slot /\ UNCHANGED truth
    BY DEF TypeOK, truth
  <1>8. QED  BY <1>4, <1>5, <1>6, <1>7 DEF Frame, Entry, Working

(* Every step of a call but its return keeps the frame.                    *)
LEMMA StepFrame ==
  ASSUME TypeOK, CallShape, TreeThere, NEW t \in Thread, Step(t), call[t].at # "return"
  PROVE  Frame(t) /\ Entry(t)
  <1>1. Shape(t) /\ raced \subseteq Slot /\ call[t].op \in {"none", "update", "remove", "cast"}
    BY DEF CallShape, TypeOK, Call
  <1>2. CASE Size(t)
    <2>1. call[t].op = "remove" /\ Sizing(t) /\ enter(t) /\ UNCHANGED truth
      BY <1>1, <1>2 DEF Size, at, Shape, Sizing, truth
    <2>2. PICK step \in {"readSize", "sizeInTree"} : go(t, step)
      BY <1>2 DEF Size
    <2>3. Frame(t) /\ call'[t].i = call[t].i
      BY <2>1, <2>2, EnterGrows, GoFrame DEF Steps
    <2>4. QED  BY <2>1, <2>3 DEF Entry
  <1>3. CASE ReadSize(t)
    <2>1. /\ call[t].op = "remove" /\ Sizing(t) /\ ~Looping(t) /\ UNCHANGED truth
          /\ takeSize(t, info[slot(t)].HeapArraySize) /\ call[t].i = 0
      BY <1>1, <1>3 DEF ReadSize, at, Shape, Sizing, Looping, truth
    <2>a. info[slot(t)] \in Info
      BY SlotOf DEF TypeOK
    <2>2. info[slot(t)].HeapArraySize \in Nat /\ info[slot(t)].HeapArraySize > 0
      BY <2>a, InfoSizes
    <2>3. QED  BY <2>1, <2>2, TakeFrame
  <1>4. CASE SizeInTree(t)
    <2>1. call[t].op = "remove" /\ Sizing(t) /\ UNCHANGED truth /\ Working(t) /\ call[t].i = 0
      BY <1>1, <1>4 DEF SizeInTree, at, Shape, Sizing, truth, Working
    <2>2. CASE takeSize(t, 1)
      BY <2>1, <2>2, TakeFrame
    <2>3. CASE go(t, "walkSize") /\ beginWalk(t, "walkSize")
      <3>1. Frame(t) /\ call'[t].i = call[t].i
        BY <2>1, <2>3, BeginWalkGrows, GoFrame DEF Steps
      <3>2. QED  BY <2>1, <3>1 DEF Entry
    <2>4. QED  BY <1>4, <2>2, <2>3 DEF SizeInTree
  <1>5. CASE WalkSize(t)
    <2>1. call[t].op = "remove" /\ Sizing(t) /\ UNCHANGED truth /\ call[t].i = 0
      BY <1>1, <1>5 DEF WalkSize, at, Shape, Sizing, truth
    <2>2. PICK entry \in foundInTree(t) :
            takeSize(t, IF entry = None THEN call[t].n ELSE entry.HeapArraySize)
      BY <1>5 DEF WalkSize
    <2>3. HexTree[slot(t)] # None /\ obj(t) \in Key /\ call[t].n = 1
      BY <1>1, <1>5, <2>1, FirstElement DEF TreeThere, WalkSize, at, Shape
    <2>4. entry = None \/ entry \in Info
      BY <2>3, <2>2, FoundEntries
    <2>5. (entry # None => entry.HeapArraySize \in Nat /\ entry.HeapArraySize > 0)
      BY <2>4, InfoSizes
    <2>6. QED  BY <2>1, <2>2, <2>3, <2>5, TakeFrame
  <1>6. CASE Test(t)
    <2>1. /\ Looping(t) /\ ~Sizing(t) /\ ~Working(t) /\ enter(t) /\ UNCHANGED truth
          /\ call[t].op \in {"update", "remove", "cast"}
      BY <1>1, <1>6 DEF Test, at, Shape, Sizing, Looping, truth, Working
    <2>2. PICK step :
            /\ go(t, step) /\ step \in Steps \ {"idle", "return"}
            /\ step \in {"noTree", "write"} => call[t].op = "update"
            /\ step = "vacate" => call[t].op = "remove"
            /\ step = "read" => call[t].op = "cast"
            /\ step = "inTree" => call[t].op \in {"remove", "cast"}
            /\ step \in {"noTree", "write", "vacate", "read", "inTree"}
      <3>1. CASE call[t].op = "update"  BY <1>6, <3>1 DEF Test, Steps
      <3>2. CASE call[t].op = "remove"  BY <1>6, <3>2 DEF Test, Steps
      <3>3. CASE call[t].op = "cast"    BY <1>6, <3>3 DEF Test, Steps
      <3>4. QED  BY <2>1, <3>1, <3>2, <3>3
    <2>3. Frame(t) /\ call'[t].i = call[t].i
      BY <2>1, <2>2, EnterGrows, GoFrame
    <2>4. QED  BY <2>1, <2>3 DEF Entry
  <1>7. CASE NoTree(t)
    <2>1. /\ Looping(t) /\ ~Sizing(t) /\ Working(t) /\ UNCHANGED <<truth, raced>>
          /\ call[t].op = "update"
      BY <1>1, <1>7 DEF NoTree, at, Shape, Sizing, Looping, Registering, truth, Working
    <2>2. PICK step \in {"create", "copy"} : go(t, step)
      BY <1>7 DEF NoTree
    <2>3. Frame(t) /\ call'[t].i = call[t].i
      BY <1>1, <2>1, <2>2, GoFrame DEF Steps, truth
    <2>4. QED  BY <2>1, <2>3 DEF Entry
  <1>8. CASE CreateTree(t)
    <2>1. /\ Looping(t) /\ ~Sizing(t) /\ Working(t) /\ UNCHANGED <<truth, raced>>
          /\ call[t].op = "update" /\ go(t, "copy")
      BY <1>1, <1>8 DEF CreateTree, at, Shape, Sizing, Looping, Registering, truth, Working
    <2>2. Frame(t) /\ call'[t].i = call[t].i
      BY <1>1, <2>1, GoFrame DEF Steps, truth
    <2>3. QED  BY <2>1, <2>2 DEF Entry
  <1>9. CASE CopyEntry(t)
    <2>1. /\ Looping(t) /\ ~Sizing(t) /\ Working(t) /\ UNCHANGED truth
          /\ call[t].op = "update" /\ beginWalk(t, "walk")
      BY <1>1, <1>9 DEF CopyEntry, at, Shape, Sizing, Looping, Registering, truth, Working
    <2>2. /\ call' \in [Thread -> Call] /\ OtherCalls(t) /\ SameCall(t)
          /\ call'[t].at = "walk" /\ call'[t].n = call[t].n /\ call'[t].i = call[t].i
          /\ call'[t].type = call[t].type
      BY <1>9, CopyFacts
    <2>3. Shape(t)'
      BY <1>1, <2>1, <2>2
      DEF Shape, SameCall, Sizing, Registering, Looping, callElems
    <2>4. QED  BY <2>1, <2>2, <2>3, BeginWalkGrows DEF Frame, Entry
  <1>10. CASE Write(t)
    <2>1. /\ Looping(t) /\ ~Sizing(t) /\ Working(t) /\ UNCHANGED <<truth, raced>>
          /\ call[t].op = "update" /\ go(t, "fill")
      BY <1>1, <1>10 DEF Write, at, Shape, Sizing, Looping, Registering, truth, Working
    <2>2. Frame(t) /\ call'[t].i = call[t].i
      BY <1>1, <2>1, GoFrame DEF Steps, truth
    <2>3. QED  BY <2>1, <2>2 DEF Entry
  <1>11. CASE Fill(t)
    <2>1. Looping(t) /\ UNCHANGED <<truth, raced>> /\ advance(t)
      BY <1>11 DEF Fill, at, Looping, truth
    <2>2. QED  BY <1>1, <2>1, AdvanceFrame DEF Entry, truth
  <1>12. CASE Vacate(t)
    <2>1. Looping(t) /\ UNCHANGED <<truth, raced>> /\ advance(t)
      BY <1>12 DEF Vacate, at, Looping, truth
    <2>2. QED  BY <1>1, <2>1, AdvanceFrame DEF Entry, truth
  <1>13. CASE InTree(t)
    <2>1. /\ Looping(t) /\ ~Sizing(t) /\ Working(t) /\ UNCHANGED truth
          /\ call[t].op \in {"remove", "cast"}
      BY <1>1, <1>13 DEF InTree, at, Shape, Sizing, Looping, truth, Working
    <2>2. CASE advance(t) /\ UNCHANGED <<wrecked, raced>>
      BY <1>1, <2>1, <2>2, AdvanceFrame DEF Entry
    <2>3. CASE go(t, "walk") /\ beginWalk(t, "walk")
      <3>1. Frame(t) /\ call'[t].i = call[t].i
        BY <2>1, <2>3, BeginWalkGrows, GoFrame DEF Steps
      <3>2. QED  BY <2>1, <3>1 DEF Entry
    <2>4. QED  BY <1>13, <2>2, <2>3 DEF InTree
  <1>14. CASE Walk(t)
    <2>1. Looping(t) /\ ~Sizing(t) /\ Working(t) /\ UNCHANGED <<truth, raced>>
      BY <1>14 DEF Walk, at, Sizing, Looping, truth, Working
    <2>2. CASE call[t].op = "update" /\ go(t, "write")
      <3>1. Frame(t) /\ call'[t].i = call[t].i
        BY <1>1, <2>1, <2>2, GoFrame DEF Steps, truth
      <3>2. QED  BY <2>1, <3>1 DEF Entry
    <2>3. CASE call[t].op = "remove" /\ advance(t)
      BY <1>1, <2>1, <2>3, AdvanceFrame DEF Entry, truth
    <2>4. CASE call[t].op = "cast"
      <3>1. PICK entry \in foundInTree(t) :
              call' = [call EXCEPT ![t].at = "return",
                         ![t].type = IF entry = None THEN None ELSE entry.FakeVPointer]
        BY <1>14, <2>4 DEF Walk
      <3>2. obj(t) \in Key /\ HexTree[slot(t)] # None
        BY <2>1, <2>4, FirstElement, <1>14 DEF TreeThere, Walk, at
      <3>a. entry = None \/ entry \in Info
        BY <3>1, <3>2, FoundEntries
      <3> DEFINE f == IF entry = None THEN None ELSE entry.FakeVPointer
      <3>3. f \in FakeVPtr \cup {None}
        BY <3>a DEF Info
      <3>b. call' = [call EXCEPT ![t].type = f, ![t].at = "return"]
        BY <3>1
      <3> HIDE DEF f
      <3>4. QED  BY <2>1, <2>4, <3>3, <3>b, AnswerFrame
    <2>5. QED  BY <1>14, <2>2, <2>3, <2>4 DEF Walk
  <1>15. CASE ReadType(t)
    <2>1. Looping(t) /\ UNCHANGED <<truth, raced>> /\ call[t].op = "cast" /\ ~Sizing(t)
      BY <1>1, <1>15 DEF ReadType, at, Looping, Sizing, Shape, truth
    <2>2. info[slot(t)].FakeVPointer \in FakeVPtr \cup {None}
      BY SlotOf DEF TypeOK, Info
    <2>3. call' = [call EXCEPT ![t].type = info[slot(t)].FakeVPointer, ![t].at = "return"]
      BY <1>15 DEF ReadType
    <2>4. QED  BY <1>1, <2>1, <2>2, <2>3, AnswerFrame DEF truth
  <1>16. QED
    BY <1>2, <1>3, <1>4, <1>5, <1>6, <1>7, <1>8, <1>9, <1>10, <1>11, <1>12,
       <1>13, <1>14, <1>15 DEF Step, Return, at

-----------------------------------------------------------------------------
(* What a step within a call does to the map.                              *)

(* Nothing of another thread's call changes.                               *)
LEMMA OthersSame ==
  ASSUME NEW t \in Thread, OtherCalls(t), NEW u \in Thread, u # t
  PROVE  /\ call'[u] = call[u] /\ obj(u)' = obj(u) /\ slot(u)' = slot(u)
         /\ Working(u)' = Working(u) /\ callElems(u)' = callElems(u)
         /\ Shape(u)' = Shape(u) /\ Sizing(u)' = Sizing(u)
  <1>1. call'[u] = call[u]
    BY DEF OtherCalls
  <1>2. obj(u)' = obj(u) /\ slot(u)' = slot(u) /\ callElems(u)' = callElems(u)
    BY <1>1 DEF obj, slot, callElems
  <1>3. Working(u)' = Working(u) /\ Sizing(u)' = Sizing(u)
    BY <1>1 DEF Working, Sizing
  <1>4. Shape(u)' = Shape(u)
    BY <1>1 DEF Shape, callElems, Sizing, Looping, Registering
  <1>5. QED  BY <1>1, <1>2, <1>3, <1>4

(* A step that goes on working stays in its slot.                          *)
LEMMA SlotSame ==
  ASSUME NEW t \in Thread, Frame(t), Entry(t), Working(t)'
  PROVE  obj(t)' = obj(t) /\ slot(t)' = slot(t) /\ call'[t].i = call[t].i
  BY DEF Frame, Entry, SameCall, obj, slot

(* A registration, or a removal that knows its size, treats its own.       *)
LEMMA OwnElement ==
  ASSUME TypeOK, CallShape, NEW t \in Thread, Looping(t),
         call[t].op \in {"update", "remove"}, call[t].n = call[t].made
  PROVE  obj(t) \in callElems(t) /\ obj(t) \in Addr /\ obj(t) \in Key
  <1>1. Shape(t) /\ call[t].i \in Nat /\ call[t].addr \in Nat /\ call[t].made \in Nat
    BY SlotOf DEF CallShape
  <1>2. call[t].i < call[t].made /\ callElems(t) \subseteq Addr
    BY <1>1 DEF Shape
  <1>3. QED  BY <1>1, <1>2, Elements DEF obj, callElems, Key

(* Steps only write the slot they work on.                                 *)
LEMMA Untouched ==
  ASSUME TypeOK, CallShape, NEW t \in Thread, Step(t), NEW s \in Slot,
         s # slot(t) \/ ~Working(t)
  PROVE  ObjAddr'[s] = ObjAddr[s] /\ info'[s] = info[s] /\ HexTree'[s] = HexTree[s]
  <1>1. slot(t) \in Slot
    BY SlotOf
  <1>2. CASE Size(t) \/ ReadSize(t) \/ WalkSize(t) \/ Test(t) \/ NoTree(t)
             \/ ReadType(t) \/ Return(t)
    BY <1>2 DEF Size, ReadSize, WalkSize, Test, NoTree, ReadType, Return, mapVars
  <1>3. CASE SizeInTree(t) \/ CopyEntry(t) \/ InTree(t)
    BY <1>3 DEF SizeInTree, CopyEntry, InTree
  <1>4. CASE CreateTree(t)
    BY <1>1, <1>4 DEF CreateTree, TypeOK, at, Working
  <1>5. CASE Write(t)
    BY <1>1, <1>5 DEF Write, TypeOK, at, Working
  <1>6. CASE Fill(t)
    BY <1>1, <1>6 DEF Fill, TypeOK, at, Working
  <1>7. CASE Vacate(t)
    BY <1>1, <1>7 DEF Vacate, TypeOK, at, Working
  <1>8. CASE Walk(t)
    BY <1>1, <1>8 DEF Walk, TypeOK, at, Working
  <1>9. QED
    BY <1>2, <1>3, <1>4, <1>5, <1>6, <1>7, <1>8 DEF Step

(* The map stays well-typed, and no tree is lost.                          *)
MapType ==
  /\ ObjAddr \in [Slot -> Key]
  /\ info \in [Slot -> Info]
  /\ HexTree \in [Slot -> [Key -> Info \cup {None}] \cup {None}]
  /\ wrecked \subseteq Slot

TreesStay == \A s \in Slot : HexTree[s] # None => HexTree'[s] # None

(* None is nothing else.                                                   *)
LEMMA NoneFresh ==
  None \notin FakeVPtr /\ None \notin ArraySizes /\ None \notin Info
  /\ None \notin [Key -> Info \cup {None}]
  BY NoneAssumption

(* Writing an entry leaves a tree.                                         *)
LEMMA TreeWritten ==
  ASSUME TypeOK, NEW s \in Slot, HexTree[s] # None, NEW k, NEW v \in Info \cup {None},
         HexTree' = [HexTree EXCEPT ![s][k] = v]
  PROVE  HexTree' \in [Slot -> [Key -> Info \cup {None}] \cup {None}] /\ TreesStay
  <1>1. HexTree[s] \in [Key -> Info \cup {None}]
    BY DEF TypeOK
  <1>2. [HexTree[s] EXCEPT ![k] = v] \in [Key -> Info \cup {None}]
    BY <1>1
  <1>3. HexTree' = [HexTree EXCEPT ![s] = [HexTree[s] EXCEPT ![k] = v]]
    OBVIOUS
  <1>4. QED  BY <1>2, <1>3, NoneFresh DEF TypeOK, TreesStay

(* Every step keeps the types of the map and its trees.                    *)
LEMMA StepMap ==
  ASSUME TypeOK, CallShape, TreeThere, NEW t \in Thread, Step(t)
  PROVE  MapType' /\ TreesStay /\ (Wrecks => Wrecks')
  <1>1. slot(t) \in Slot /\ Shape(t)
    BY SlotOf DEF CallShape
  <1> USE DEF MapType, TreesStay
  <1>2. CASE Size(t) \/ ReadSize(t) \/ WalkSize(t) \/ Test(t) \/ NoTree(t)
             \/ ReadType(t) \/ Return(t)
    <2>1. UNCHANGED mapVars
      BY <1>2 DEF Size, ReadSize, WalkSize, Test, NoTree, ReadType, Return
    <2>2. raced \subseteq raced' \/ call[t].at = "return"
      BY StepFrame DEF Frame
    <2>3. call[t].at = "return" => raced' = raced
      BY <1>2 DEF Size, ReadSize, WalkSize, Test, NoTree, ReadType, Return, at
    <2>4. QED  BY <2>1, <2>2, <2>3 DEF mapVars, TypeOK, Wrecks
  <1>3. CASE SizeInTree(t) \/ CopyEntry(t) \/ InTree(t)
    <2>1. UNCHANGED <<ObjAddr, info, HexTree>>
      BY <1>3 DEF SizeInTree, CopyEntry, InTree
    <2>2. wrecked' \subseteq Slot /\ wrecked' \subseteq wrecked \cup raced'
      <3>1. ASSUME NEW step, beginWalk(t, step)
            PROVE  wrecked' \subseteq Slot /\ wrecked' \subseteq wrecked \cup raced'
        BY <1>1, <3>1 DEF beginWalk, TypeOK
      <3>2. CASE UNCHANGED wrecked
        BY <3>2 DEF TypeOK
      <3>3. QED  BY <1>3, <3>1, <3>2 DEF SizeInTree, CopyEntry, InTree
    <2>3. raced \subseteq raced'
      BY <1>3, StepFrame DEF Frame, SizeInTree, CopyEntry, InTree, at
    <2>4. QED  BY <2>1, <2>2, <2>3 DEF TypeOK, Wrecks
  <1>4. CASE CreateTree(t)
    <2>1. EmptyTree \in [Key -> Info \cup {None}]
      BY DEF EmptyTree
    <2>2. UNCHANGED <<ObjAddr, info, wrecked, raced>>
          /\ HexTree' = [HexTree EXCEPT ![slot(t)] = EmptyTree]
      BY <1>4 DEF CreateTree
    <2>3. QED  BY <1>1, <2>1, <2>2, NoneFresh DEF TypeOK, Wrecks
  <1>5. CASE Write(t)
    <2>1. obj(t) \in Key
      BY <1>1, <1>5, OwnElement DEF Write, at, Shape, Registering, Looping
    <2>2. UNCHANGED <<info, HexTree, wrecked, raced>>
          /\ ObjAddr' = [ObjAddr EXCEPT ![slot(t)] = obj(t)]
      BY <1>5 DEF Write
    <2>3. QED  BY <1>1, <2>1, <2>2 DEF TypeOK, Wrecks
  <1>6. CASE Fill(t)
    <2>1. [HeapArraySize |-> call[t].n, FakeVPointer |-> call[t].type] \in Info
      BY <1>1, <1>6 DEF Fill, at, Shape, Registering, Info
    <2>2. UNCHANGED <<ObjAddr, HexTree, wrecked, raced>>
          /\ info' = [info EXCEPT ![slot(t)] = [HeapArraySize |-> call[t].n,
                                                FakeVPointer |-> call[t].type]]
      BY <1>6 DEF Fill
    <2>3. QED  BY <1>1, <2>1, <2>2 DEF TypeOK, Wrecks
  <1>7. CASE Vacate(t)
    <2>1. UNCHANGED <<info, HexTree, wrecked, raced>>
          /\ ObjAddr' = [ObjAddr EXCEPT ![slot(t)] = NullPtr]
      BY <1>7 DEF Vacate
    <2>2. QED  BY <1>1, <2>1 DEF TypeOK, Wrecks, Key
  <1>8. CASE Walk(t)
    <2>1. UNCHANGED <<ObjAddr, info, wrecked, raced>> /\ HexTree[slot(t)] # None
          /\ call[t].copy \in Info
      BY <1>8 DEF Walk, at, TreeThere, TypeOK, Call
    <2>2. CASE HexTree' = [HexTree EXCEPT ![slot(t)][call[t].key] = call[t].copy]
      BY <1>1, <2>1, <2>2, TreeWritten DEF TypeOK, Wrecks
    <2>3. CASE HexTree' = [HexTree EXCEPT ![slot(t)][obj(t)] = None]
      BY <1>1, <2>1, <2>3, TreeWritten DEF TypeOK, Wrecks
    <2>4. CASE UNCHANGED HexTree
      BY <2>1, <2>4 DEF TypeOK, Wrecks
    <2>5. QED  BY <1>8, <2>2, <2>3, <2>4 DEF Walk
  <1>9. QED
    BY <1>2, <1>3, <1>4, <1>5, <1>6, <1>7, <1>8 DEF Step

-----------------------------------------------------------------------------
(* What the program and the return of a call do.                           *)

(* The records that calls begin with are calls.                            *)
LEMMA NoCallType == NoCall \in Call /\ NoInfo \in Info
  BY DEF NoCall, Call, Steps, Key, NoInfo, Info

(* A thread that begins a call changes only its own.                       *)
LEMMA BeginFacts ==
  ASSUME TypeOK, NEW t \in Thread, NEW c \in Call, begin(t, c)
  PROVE  call' \in [Thread -> Call] /\ OtherCalls(t) /\ call'[t] = c
  BY DEF TypeOK, begin, OtherCalls

(* What the creation of objects does.                                      *)
LEMMA CreateFacts ==
  ASSUME TypeOK, NEW t \in Thread, NEW a \in Addr, NEW n \in ArraySizes,
         NEW f \in FakeVPtr, Create(t, a, n, f)
  PROVE  /\ call' \in [Thread -> Call] /\ OtherCalls(t)
         /\ call[t].op = "none"
         /\ call'[t].op = "update" /\ call'[t].at = "test" /\ call'[t].addr = a
         /\ call'[t].n = n /\ call'[t].made = n /\ call'[t].i = 0
         /\ call'[t].type = f /\ callElems(t)' = elems(a, n)
         /\ UNCHANGED <<mapVars, live, raced>>
         /\ elems(a, n) \subseteq Addr /\ \A e \in elems(a, n) : ~inUse(e)
         /\ reused' = reused \cup {e \in elems(a, n) : owesRemoval(e)}
         /\ block' = [block EXCEPT ![a] = n]
         /\ a \in elems(a, n)
  <1> DEFINE c == [NoCall EXCEPT !.op = "update", !.at = "test", !.addr = a,
                                 !.n = n, !.made = n, !.type = f]
  <1>1. a \in Nat /\ n \in Nat /\ n > 0 /\ a \in Key
    BY SizeAssumption DEF Key
  <1>2. "test" \in Steps
    BY DEF Steps
  <1>3. c \in Call /\ c.op = "update" /\ c.at = "test" /\ c.addr = a /\ c.n = n
        /\ c.made = n /\ c.i = 0 /\ c.type = f
    BY <1>1, <1>2, NoCallType DEF NoCall, Call
  <1>4. begin(t, c)
    BY DEF Create
  <1> HIDE DEF c
  <1>5. call' \in [Thread -> Call] /\ OtherCalls(t) /\ call'[t] = c
    BY <1>3, <1>4, BeginFacts
  <1>6. callElems(t)' = elems(a, n)
    BY <1>3, <1>5 DEF callElems
  <1>7. a \in elems(a, n)
    BY <1>1, Elements
  <1>8. /\ call[t].op = "none" /\ UNCHANGED <<mapVars, live, raced>>
        /\ elems(a, n) \subseteq Addr /\ \A e \in elems(a, n) : ~inUse(e)
        /\ reused' = reused \cup {e \in elems(a, n) : owesRemoval(e)}
        /\ block' = [block EXCEPT ![a] = n]
    <2>1. Heap \subseteq Addr
      BY SizeAssumption
    <2>2. QED  BY <2>1 DEF Create
  <1>9. /\ call'[t].op = "update" /\ call'[t].at = "test" /\ call'[t].addr = a
        /\ call'[t].n = n /\ call'[t].made = n /\ call'[t].i = 0 /\ call'[t].type = f
    BY <1>3, <1>5
  <1>10. QED  BY <1>5, <1>6, <1>7, <1>8, <1>9

(* What a release does.                                                    *)
LEMMA ReleaseFacts ==
  ASSUME TypeOK, Blocks, NEW t \in Thread, NEW a \in Addr, Release(t, a)
  PROVE  /\ call' \in [Thread -> Call] /\ OtherCalls(t)
         /\ call[t].op = "none"
         /\ call'[t].op = "remove" /\ call'[t].at \in {"size", "test"}
         /\ call'[t].addr = a /\ call'[t].made = block[a] /\ call'[t].i = 0
         /\ block[a] \in ArraySizes
         /\ call'[t].at = "size" => call'[t].n = 1
         /\ call'[t].at = "test" => call'[t].n = block[a]
         /\ callElems(t)' = blockElems(a) /\ blockElems(a) \subseteq Addr
         /\ UNCHANGED <<mapVars, raced, reused>>
         /\ block[a] # None /\ live[a] # None
         /\ live' = [e \in Addr |-> IF e \in blockElems(a) THEN None ELSE live[e]]
         /\ block' = [block EXCEPT ![a] = None]
         /\ \A u \in Thread : ~(call[u].op = "cast" /\ call[u].addr \in blockElems(a))
  <1> DEFINE c == [NoCall EXCEPT !.op = "remove", !.addr = a, !.made = block[a],
                     !.at = IF a \in Heap THEN "size" ELSE "test",
                     !.n = IF a \in Heap THEN 1 ELSE block[a]]
  <1>1. block[a] \in ArraySizes /\ block[a] \in Nat /\ a \in Key
    BY SizeAssumption DEF Key, Release, TypeOK
  <1>2. {"test", "size"} \subseteq Steps
    BY DEF Steps
  <1>3. c \in Call /\ c.op = "remove" /\ c.at \in {"size", "test"} /\ c.addr = a
        /\ c.made = block[a] /\ c.i = 0 /\ (c.at = "size" => c.n = 1)
        /\ (c.at = "test" => c.n = block[a])
    BY <1>1, <1>2, NoCallType DEF NoCall, Call
  <1>4. begin(t, c)
    BY DEF Release
  <1> HIDE DEF c
  <1>5. call' \in [Thread -> Call] /\ OtherCalls(t) /\ call'[t] = c
    BY <1>3, <1>4, BeginFacts
  <1>6. callElems(t)' = blockElems(a)
    BY <1>3, <1>5 DEF callElems, blockElems
  <1>7. QED  BY <1>1, <1>3, <1>5, <1>6 DEF Release, Blocks

(* What the beginning of a cast does.                                      *)
LEMMA CastFacts ==
  ASSUME TypeOK, NEW t \in Thread, NEW a \in Addr, CastObject(t, a)
  PROVE  /\ call' \in [Thread -> Call] /\ OtherCalls(t)
         /\ call[t].op = "none"
         /\ call'[t].op = "cast" /\ call'[t].at = "test" /\ call'[t].addr = a
         /\ call'[t].n = 1 /\ call'[t].made = 1 /\ call'[t].i = 0
         /\ UNCHANGED <<mapVars, truth, raced>> /\ live[a] # None
  <1> DEFINE c == [NoCall EXCEPT !.op = "cast", !.at = "test", !.addr = a,
                                 !.n = 1, !.made = 1]
  <1>1. a \in Key /\ "test" \in Steps
    BY DEF Key, Steps
  <1>2. c \in Call /\ c.op = "cast" /\ c.at = "test" /\ c.addr = a /\ c.n = 1
        /\ c.made = 1 /\ c.i = 0
    BY <1>1, NoCallType DEF NoCall, Call
  <1>3. begin(t, c)
    BY DEF CastObject
  <1> HIDE DEF c
  <1>4. QED  BY <1>2, <1>3, BeginFacts DEF CastObject

(* What a return does.                                                     *)
LEMMA ReturnFacts ==
  ASSUME TypeOK, NEW t \in Thread, Return(t)
  PROVE  /\ call' \in [Thread -> Call] /\ OtherCalls(t) /\ call'[t] = NoCall
         /\ UNCHANGED <<mapVars, block, raced, reused>>
         /\ call[t].op = "update" =>
              live' = [e \in Addr |-> IF e \in callElems(t) THEN call[t].type ELSE live[e]]
         /\ call[t].op # "update" => live' = live
  BY NoCallType, BeginFacts DEF Return

(* Only a return is a step from "return".                                  *)
LEMMA ReturnOnly ==
  ASSUME NEW t \in Thread, Step(t), call[t].at = "return"
  PROVE  Return(t)
  BY DEF Step, at, Size, ReadSize, SizeInTree, WalkSize, Test, NoTree, CreateTree,
     CopyEntry, Write, Fill, Vacate, InTree, Walk, ReadType

(* A walk begins in a tree that is there.                                  *)
LEMMA NewWalk ==
  ASSUME TypeOK, CallShape, TreeThere, NEW t \in Thread, Step(t), call[t].at # "return",
         call'[t].at \in {"copy", "walk", "walkSize"}
  PROVE  HexTree[slot(t)] # None \/ HexTree'[slot(t)] # None
  <1>1. slot(t) \in Slot /\ Shape(t) /\ call \in [Thread -> Call]
    BY SlotOf DEF CallShape, TypeOK
  <1>2. CASE call[t].at \in {"copy", "walk", "walkSize"}
    BY <1>2 DEF TreeThere
  <1>3. CASE NoTree(t)
    BY <1>1, <1>3 DEF NoTree, go, tree
  <1>4. CASE CreateTree(t)
    <2>1. EmptyTree \in [Key -> Info \cup {None}] /\ EmptyTree # None
      BY NoneFresh DEF EmptyTree
    <2>2. HexTree'[slot(t)] = EmptyTree
      BY <1>1, <1>4 DEF CreateTree, TypeOK
    <2>3. QED  BY <2>1, <2>2
  <1>5. CASE SizeInTree(t)
    <2>1. CASE treeEmpty(t)
      BY <1>5, <2>1, NextAt DEF SizeInTree
    <2>2. QED  BY <2>1 DEF treeEmpty, tree
  <1>6. CASE InTree(t)
    <2>1. CASE treeEmpty(t)
      <3>1. advance(t) /\ call[t].i < Word32
        BY <1>1, <1>6, <2>1 DEF InTree, at, Shape
      <3>2. call'[t].at \in {"test", "return"}
        BY <3>1, AdvanceFacts
      <3>3. QED  BY <3>2
    <2>2. QED  BY <2>1 DEF treeEmpty, tree
  <1>7. CASE Size(t) \/ Write(t)
    BY <1>7, NextAt DEF Size, Write
  <1>8. CASE ReadSize(t) \/ ReadType(t)
    BY <1>8, NextAt DEF ReadSize
  <1>9. CASE Fill(t) \/ Vacate(t)
    <2>1. advance(t) /\ call[t].i < Word32
      BY <1>1, <1>9 DEF Fill, Vacate, at, Shape
    <2>2. call'[t].at \in {"test", "return"}
      BY <2>1, AdvanceFacts
    <2>3. QED  BY <2>2
  <1>10. CASE Test(t)
    <2>1. call[t].op \in {"update", "remove", "cast"}
      BY <1>1, <1>10 DEF Test, at, Shape, TypeOK, Call
    <2>2. PICK step \in {"write", "noTree", "vacate", "inTree", "read"} : go(t, step)
      <3>1. CASE call[t].op = "update"  BY <1>10, <3>1 DEF Test
      <3>2. CASE call[t].op = "remove"  BY <1>10, <3>2 DEF Test
      <3>3. CASE call[t].op = "cast"    BY <1>10, <3>3 DEF Test
      <3>4. QED  BY <2>1, <3>1, <3>2, <3>3
    <2>3. QED  BY <2>2, NextAt
  <1>11. QED
    BY <1>2, <1>3, <1>4, <1>5, <1>6, <1>7, <1>8, <1>9, <1>10
    DEF Step, WalkSize, CopyEntry, Walk, Return, at

-----------------------------------------------------------------------------
(* Types and shapes are preserved.                                         *)

(* The types, the shapes of the calls and the trees of their walks.        *)
LEMMA TypeNext ==
  ASSUME TypeOK, CallShape, TreeThere, Blocks, [Next]_vars
  PROVE  TypeOK' /\ CallShape' /\ TreeThere' /\ (Wrecks => Wrecks')
  <1>1. ASSUME NEW t \in Thread, NEW a \in Addr, NEW n \in ArraySizes, NEW f \in FakeVPtr,
               Create(t, a, n, f)
        PROVE  TypeOK' /\ CallShape' /\ TreeThere' /\ (Wrecks => Wrecks')
    <2>1. OtherCalls(t) /\ call' \in [Thread -> Call]
      BY <1>1, CreateFacts
    <2>2. block' \in [Addr -> ArraySizes \cup {None}] /\ reused' \subseteq Addr
      BY <1>1, CreateFacts DEF TypeOK
    <2>3. TypeOK'
      BY <1>1, <2>1, <2>2, CreateFacts DEF TypeOK, mapVars
    <2>4. Shape(t)'
      BY <1>1, CreateFacts, SizeAssumption
      DEF Shape, Sizing, Registering, Looping, callElems
    <2>5. CallShape'
      BY <2>1, <2>4, OthersSame DEF CallShape
    <2>6. TreeThere'
      BY <1>1, <2>1, CreateFacts, OthersSame DEF TreeThere, mapVars
    <2>7. QED  BY <1>1, <2>3, <2>5, <2>6, CreateFacts DEF Wrecks, mapVars
  <1>2. ASSUME NEW t \in Thread, NEW a \in Addr, Release(t, a)
        PROVE  TypeOK' /\ CallShape' /\ TreeThere' /\ (Wrecks => Wrecks')
    <2>1. OtherCalls(t) /\ call' \in [Thread -> Call]
      BY <1>2, ReleaseFacts
    <2>2. /\ block' \in [Addr -> ArraySizes \cup {None}]
          /\ live' \in [Addr -> FakeVPtr \cup {None}]
      BY <1>2, ReleaseFacts DEF TypeOK
    <2>3. TypeOK'
      BY <1>2, <2>1, <2>2, ReleaseFacts DEF TypeOK, mapVars
    <2>4. Shape(t)'
      <3>1. block[a] > 0
        BY <1>2, ReleaseFacts, Sizes
      <3>2. QED
        BY <1>2, <3>1, ReleaseFacts, SizeAssumption
        DEF Shape, Sizing, Registering, Looping, callElems
    <2>5. CallShape'
      BY <2>1, <2>4, OthersSame DEF CallShape
    <2>6. TreeThere'
      BY <1>2, <2>1, ReleaseFacts, OthersSame DEF TreeThere, mapVars
    <2>7. QED  BY <1>2, <2>3, <2>5, <2>6, ReleaseFacts DEF Wrecks, mapVars
  <1>3. ASSUME NEW t \in Thread, NEW a \in Addr, CastObject(t, a)
        PROVE  TypeOK' /\ CallShape' /\ TreeThere' /\ (Wrecks => Wrecks')
    <2>1. OtherCalls(t) /\ call' \in [Thread -> Call]
      BY <1>3, CastFacts
    <2>3. TypeOK'
      BY <1>3, <2>1, CastFacts DEF TypeOK, mapVars, truth
    <2>4. Shape(t)'
      BY <1>3, CastFacts, SizeAssumption
      DEF Shape, Sizing, Registering, Looping, callElems
    <2>5. CallShape'
      BY <2>1, <2>4, OthersSame DEF CallShape
    <2>6. TreeThere'
      BY <1>3, <2>1, CastFacts, OthersSame DEF TreeThere, mapVars
    <2>7. QED  BY <1>3, <2>3, <2>5, <2>6, CastFacts DEF Wrecks, mapVars
  <1>4. ASSUME NEW t \in Thread, Return(t)
        PROVE  TypeOK' /\ CallShape' /\ TreeThere' /\ (Wrecks => Wrecks')
    <2>1. OtherCalls(t) /\ call' \in [Thread -> Call] /\ call'[t] = NoCall
      BY <1>4, ReturnFacts
    <2>2. live' \in [Addr -> FakeVPtr \cup {None}]
      <3>1. call[t].type \in FakeVPtr \cup {None}
        BY DEF TypeOK, Call
      <3>2. QED  BY <1>4, <3>1, ReturnFacts DEF TypeOK
    <2>3. TypeOK'
      BY <1>4, <2>1, <2>2, ReturnFacts DEF TypeOK, mapVars
    <2>4. Shape(t)'
      BY <2>1 DEF Shape, Sizing, Registering, Looping, callElems, NoCall
    <2>5. CallShape'
      BY <2>1, <2>4, OthersSame DEF CallShape
    <2>6. TreeThere'
      BY <1>4, <2>1, ReturnFacts, OthersSame DEF TreeThere, mapVars, NoCall
    <2>7. QED  BY <1>4, <2>3, <2>5, <2>6, ReturnFacts DEF Wrecks, mapVars
  <1>5. ASSUME NEW t \in Thread, Step(t), call[t].at # "return"
        PROVE  TypeOK' /\ CallShape' /\ TreeThere' /\ (Wrecks => Wrecks')
    <2>1. Frame(t) /\ Entry(t)
      BY <1>5, StepFrame
    <2>2. MapType' /\ TreesStay /\ (Wrecks => Wrecks')
      BY <1>5, StepMap
    <2>3. OtherCalls(t) /\ Shape(t)'
      BY <2>1 DEF Frame
    <2>4. TypeOK'
      BY <2>1, <2>2 DEF TypeOK, MapType, Frame, truth
    <2>5. CallShape'
      BY <2>3, OthersSame DEF CallShape
    <2>6. ASSUME NEW u \in Thread, call'[u].at \in {"copy", "walk", "walkSize"}
          PROVE  HexTree'[slot(u)'] # None
      <3>1. CASE u # t
        <4>1. slot(u)' = slot(u) /\ call'[u] = call[u] /\ slot(u) \in Slot
          BY <2>3, <3>1, OthersSame, SlotOf
        <4>2. HexTree[slot(u)] # None
          BY <2>6, <4>1 DEF TreeThere
        <4>3. QED  BY <2>2, <4>1, <4>2 DEF TreesStay
      <3>2. CASE u = t
        <4>1. slot(t)' = slot(t) /\ slot(t) \in Slot
          BY <2>1, <2>6, <3>2, SlotSame, SlotOf DEF Working
        <4>2. HexTree[slot(t)] # None \/ HexTree'[slot(t)] # None
          BY <1>5, <2>6, <3>2, NewWalk
        <4>3. QED  BY <2>2, <3>2, <4>1, <4>2 DEF TreesStay
      <3>3. QED  BY <3>1, <3>2
    <2>7. TreeThere'
      BY <2>6 DEF TreeThere
    <2>8. QED  BY <2>2, <2>4, <2>5, <2>7
  <1>6. CASE UNCHANGED vars
    BY <1>6 DEF vars, mapVars, truth, TypeOK, CallShape, Shape, TreeThere, Wrecks, callElems,
       slot, obj, Sizing, Registering, Looping
  <1>7. ASSUME NEW t \in Thread, Step(t)
        PROVE  TypeOK' /\ CallShape' /\ TreeThere' /\ (Wrecks => Wrecks')
    <2>1. CASE call[t].at = "return"
      <3>1. Return(t)
        BY <1>7, <2>1, ReturnOnly
      <3>2. QED  BY <1>4, <3>1
    <2>2. QED  BY <1>5, <1>7, <2>1
  <1>8. QED
    BY <1>1, <1>2, <1>3, <1>6, <1>7 DEF Next, Program

-----------------------------------------------------------------------------
(* The ground truth: arrays stay apart, and every call keeps what it owns. *)

(* An array holds its first element, and a registration its whole array.   *)
LEMMA OwnBlock ==
  ASSUME TypeOK, CallShape, Owners
  PROVE  /\ \A b \in Addr : block[b] # None => b \in blockElems(b) /\ InBlock(b)
         /\ \A u \in Thread : call[u].op = "update" =>
              /\ call[u].addr \in Addr /\ call[u].addr \in callElems(u)
              /\ block[call[u].addr] # None
              /\ callElems(u) = blockElems(call[u].addr)
              /\ \A e \in callElems(u) : InBlock(e) /\ live[e] = None
  <1>1. ASSUME NEW b \in Addr, block[b] # None
        PROVE  b \in blockElems(b)
    <2>1. block[b] \in ArraySizes /\ b \in Nat
      BY <1>1, SizeAssumption DEF TypeOK
    <2>2. block[b] \in Nat /\ 0 < block[b]
      BY <2>1, Sizes
    <2>3. elem(b, 0) = b /\ elem(b, 0) \in elems(b, block[b])
      BY <2>1, <2>2, Elements
    <2>4. QED  BY <2>3 DEF blockElems
  <1>2. ASSUME NEW u \in Thread, call[u].op = "update"
        PROVE  /\ call[u].addr \in Addr /\ block[call[u].addr] # None
               /\ callElems(u) = blockElems(call[u].addr)
               /\ \A e \in callElems(u) : live[e] = None
    <2>1. Shape(u) /\ Owned(u)
      BY DEF CallShape, Owners
    <2>2. call[u].addr \in Addr /\ call[u].made \in ArraySizes
          /\ block[call[u].addr] = call[u].made
      BY <1>2, <2>1 DEF Shape, Owned
    <2>3. QED  BY <1>2, <2>1, <2>2, NoneFresh DEF Owned, callElems, blockElems
  <1>3. QED  BY <1>1, <1>2 DEF InBlock

(* New storage touches nothing of the arrays and calls that are there.     *)
LEMMA CreateTruth ==
  ASSUME TypeOK, CallShape, Blocks, Owners, NEW t \in Thread, NEW a \in Addr,
         NEW n \in ArraySizes, NEW f \in FakeVPtr, Create(t, a, n, f)
  PROVE  Blocks' /\ Owners' /\ block[a] = None
         /\ \A e \in elems(a, n) : ~InBlock(e) /\ live[e] = None
  <1> DEFINE E == elems(a, n)
  <1>1. /\ OtherCalls(t) /\ live' = live /\ E \subseteq Addr /\ a \in E
        /\ call'[t].op = "update" /\ call'[t].addr = a /\ call'[t].made = n
        /\ callElems(t)' = E /\ block' = [block EXCEPT ![a] = n]
        /\ reused' = reused \cup {e \in E : owesRemoval(e)}
    BY CreateFacts
  <1>2. \A e \in E : ~InBlock(e) /\ live[e] = None
    BY <1>1, CreateFacts DEF inUse, Blocks
  <1>3. block[a] = None
    BY <1>1, <1>2, OwnBlock
  <1> HIDE DEF E
  <1>4. n # None /\ block'[a] = n /\ \A b \in Addr : b # a => block'[b] = block[b]
    BY <1>1, NoneFresh DEF TypeOK
  <1>5. blockElems(a)' = E /\ \A b \in Addr : b # a => blockElems(b)' = blockElems(b)
    BY <1>4 DEF blockElems, E
  <1>6. \A e : InBlock(e) => InBlock(e)'
    BY <1>3, <1>4, <1>5 DEF InBlock
  <1>7. \A e : InBlock(e)' => InBlock(e) \/ e \in E
    BY <1>4, <1>5 DEF InBlock
  <1>8. Blocks'
    <2>1. \A b \in Addr : block'[b] # None => blockElems(b)' \subseteq Addr
      BY <1>1, <1>4, <1>5 DEF Blocks
    <2>2. \A b \in Addr \ {a} : block'[b] # None => E \cap blockElems(b)' = {}
      BY <1>2, <1>4, <1>5 DEF InBlock
    <2>3. \A b, c \in Addr : b # c /\ block'[b] # None /\ block'[c] # None
                             => blockElems(b)' \cap blockElems(c)' = {}
      BY <2>2, <1>4, <1>5 DEF Blocks
    <2>4. \A e \in Addr : live'[e] # None => InBlock(e)'
      BY <1>1, <1>6 DEF Blocks
    <2>5. QED  BY <2>1, <2>3, <2>4 DEF Blocks
  <1>9. Owned(t)'
    BY <1>1, <1>2, <1>4 DEF Owned
  <1>10. ASSUME NEW u \in Thread, u # t PROVE Owned(u)'
    <2>1. call'[u] = call[u] /\ callElems(u)' = callElems(u) /\ Owned(u)
      BY <1>1, <1>10, OthersSame DEF Owners
    <2>2. CASE call[u].op = "update"
      <3>1. call[u].addr \in Addr \ {a}
        BY <1>3, <2>2, OwnBlock
      <3>2. QED  BY <1>1, <1>4, <2>1, <2>2, <3>1 DEF Owned
    <2>3. CASE call[u].op = "remove"
      <3>1. ASSUME NEW e \in callElems(u), e \notin reused', InBlock(e)' PROVE FALSE
        <4>1. ~InBlock(e) /\ e \in E
          BY <1>1, <1>7, <2>1, <2>3, <3>1 DEF Owned
        <4>2. owesRemoval(e)
          BY <2>3, <3>1 DEF owesRemoval
        <4>3. QED  BY <1>1, <3>1, <4>1, <4>2
      <3>2. QED  BY <2>1, <2>3, <3>1 DEF Owned
    <2>4. CASE call[u].op \notin {"update", "remove"}
      BY <1>1, <2>1, <2>4 DEF Owned
    <2>5. QED  BY <2>2, <2>3, <2>4
  <1>11. ASSUME NEW u \in Thread, NEW v \in Thread, u # v,
                call'[u].op = "update", call'[v].op = "update"
         PROVE  callElems(u)' \cap callElems(v)' = {}
    <2>1. \A w \in Thread \ {t} :
            /\ call'[w] = call[w] /\ callElems(w)' = callElems(w)
            /\ call'[w].op = "update" => callElems(w)' \cap E = {}
      BY <1>1, <1>2, OthersSame, OwnBlock
    <2>2. CASE u = t \/ v = t
      BY <1>1, <1>11, <2>1, <2>2
    <2>3. CASE u # t /\ v # t
      BY <1>11, <2>1, <2>3 DEF Owners
    <2>4. QED  BY <2>2, <2>3
  <1>12. Owners'
    BY <1>9, <1>10, <1>11 DEF Owners
  <1>13. QED  BY <1>2, <1>3, <1>8, <1>12 DEF E

(* A release takes its array from nobody else.                             *)
LEMMA ReleaseTruth ==
  ASSUME TypeOK, CallShape, Blocks, Owners, NEW t \in Thread, NEW a \in Addr,
         Release(t, a)
  PROVE  Blocks' /\ Owners'
         /\ \A u \in Thread : call[u].op = "update" => callElems(u) \cap blockElems(a) = {}
  <1> DEFINE E == blockElems(a)
  <1>1. /\ OtherCalls(t) /\ reused' = reused /\ E \subseteq Addr
        /\ call'[t].op = "remove" /\ callElems(t)' = E
        /\ block[a] # None /\ live[a] # None
        /\ live' = [e \in Addr |-> IF e \in E THEN None ELSE live[e]]
        /\ block' = [block EXCEPT ![a] = None]
        /\ \A u \in Thread : ~(call[u].op = "cast" /\ call[u].addr \in E)
    BY ReleaseFacts
  <1> HIDE DEF E
  <1>2. block'[a] = None /\ \A b \in Addr : b # a => block'[b] = block[b]
    BY <1>1 DEF TypeOK
  <1>3. \A b \in Addr : b # a => blockElems(b)' = blockElems(b)
    BY <1>2 DEF blockElems
  <1>4. \A b \in Addr : b # a /\ block[b] # None => E \cap blockElems(b) = {}
    BY <1>1 DEF Blocks, E
  <1>5. \A e : InBlock(e)' <=> InBlock(e) /\ e \notin E
    BY <1>1, <1>2, <1>3, <1>4 DEF InBlock, E
  <1>6. Blocks'
    <2>1. \A b \in Addr : block'[b] # None => blockElems(b)' \subseteq Addr
      BY <1>2, <1>3 DEF Blocks
    <2>2. \A b, c \in Addr : b # c /\ block'[b] # None /\ block'[c] # None
                             => blockElems(b)' \cap blockElems(c)' = {}
      BY <1>2, <1>3 DEF Blocks
    <2>3. \A e \in Addr : live'[e] # None => InBlock(e)'
      BY <1>1, <1>5 DEF Blocks
    <2>4. QED  BY <2>1, <2>2, <2>3 DEF Blocks
  <1>7. ASSUME NEW u \in Thread, call[u].op = "update"
        PROVE  call[u].addr \in Addr \ {a} /\ callElems(u) \cap E = {}
    BY <1>1, <1>4, <1>7, OwnBlock
  <1>8. Owned(t)'
    BY <1>1, <1>5 DEF Owned
  <1>9. ASSUME NEW u \in Thread, u # t PROVE Owned(u)'
    <2>1. call'[u] = call[u] /\ callElems(u)' = callElems(u) /\ Owned(u) /\ Shape(u)
      BY <1>1, <1>9, OthersSame DEF Owners, CallShape
    <2>2. CASE call[u].op = "update"
      <3>1. \A e \in callElems(u) : live'[e] = None
        BY <1>1, <2>1, <2>2 DEF Owned, Shape
      <3>2. QED  BY <1>2, <1>7, <2>1, <2>2, <3>1 DEF Owned
    <2>3. CASE call[u].op = "remove"
      BY <1>1, <1>5, <2>1, <2>3 DEF Owned
    <2>4. CASE call[u].op = "cast"
      BY <1>1, <2>1, <2>4 DEF Owned, Shape
    <2>5. CASE call[u].op \notin {"update", "remove", "cast"}
      BY <2>1, <2>5 DEF Owned
    <2>6. QED  BY <2>2, <2>3, <2>4, <2>5
  <1>10. ASSUME NEW u \in Thread, NEW v \in Thread, u # v,
                call'[u].op = "update", call'[v].op = "update"
         PROVE  callElems(u)' \cap callElems(v)' = {}
    BY <1>1, <1>10, OthersSame DEF Owners
  <1>11. Owners'
    BY <1>8, <1>9, <1>10 DEF Owners
  <1>12. QED  BY <1>6, <1>7, <1>11 DEF E

(* Once registered, objects live, and nobody else has them.                *)
LEMMA ReturnTruth ==
  ASSUME TypeOK, CallShape, Blocks, Owners, NEW t \in Thread, Return(t)
  PROVE  Blocks' /\ Owners'
  <1>1. /\ OtherCalls(t) /\ call'[t] = NoCall /\ block' = block /\ reused' = reused
        /\ call[t].op = "update" =>
             live' = [e \in Addr |-> IF e \in callElems(t) THEN call[t].type ELSE live[e]]
        /\ call[t].op # "update" => live' = live
    BY ReturnFacts
  <1>2. Shape(t)
    BY DEF CallShape
  <1>3. \A e \in Addr :
          \/ live'[e] = live[e]
          \/ call[t].op = "update" /\ e \in callElems(t) /\ live'[e] \in FakeVPtr
    BY <1>1, <1>2 DEF Shape
  <1>4. \A e : InBlock(e)' = InBlock(e)
    BY <1>1 DEF InBlock, blockElems
  <1>5. Blocks'
    <2>1. \A e \in Addr : live'[e] # None => InBlock(e)'
      BY <1>3, <1>4, OwnBlock DEF Blocks
    <2>2. QED  BY <1>1, <2>1 DEF Blocks, blockElems
  <1>6. Owned(t)'
    BY <1>1 DEF Owned, NoCall
  <1>7. ASSUME NEW u \in Thread, u # t PROVE Owned(u)'
    <2>1. call'[u] = call[u] /\ callElems(u)' = callElems(u) /\ Owned(u) /\ Shape(u)
      BY <1>1, <1>7, OthersSame DEF Owners, CallShape
    <2>2. CASE call[u].op = "update"
      <3>1. \A e \in callElems(u) : e \in Addr /\ live[e] = None
        BY <2>1, <2>2 DEF Owned, Shape
      <3>2. call[t].op = "update" => callElems(u) \cap callElems(t) = {}
        BY <1>7, <2>2 DEF Owners
      <3>3. \A e \in callElems(u) : live'[e] = None
        BY <1>3, <3>1, <3>2
      <3>4. QED  BY <1>1, <2>1, <2>2, <3>3 DEF Owned
    <2>3. CASE call[u].op = "remove"
      BY <1>1, <1>4, <2>1, <2>3 DEF Owned
    <2>4. CASE call[u].op = "cast"
      BY <1>3, <2>1, <2>4, NoneFresh DEF Owned, Shape
    <2>5. CASE call[u].op \notin {"update", "remove", "cast"}
      BY <2>1, <2>5 DEF Owned
    <2>6. QED  BY <2>2, <2>3, <2>4, <2>5
  <1>8. ASSUME NEW u \in Thread, NEW v \in Thread, u # v,
               call'[u].op = "update", call'[v].op = "update"
        PROVE  callElems(u)' \cap callElems(v)' = {}
    BY <1>1, <1>8, OthersSame DEF Owners, NoCall
  <1>9. QED  BY <1>5, <1>6, <1>7, <1>8 DEF Owners

(* Ground truth is right after every step.                                 *)
LEMMA TruthNext ==
  ASSUME TypeOK, CallShape, TreeThere, Blocks, Owners, [Next]_vars
  PROVE  Blocks' /\ Owners'
  <1>1. ASSUME NEW t \in Thread, OtherCalls(t), UNCHANGED truth, Owned(t)',
               callElems(t)' = callElems(t) \/ call'[t].op # "update",
               call'[t].op = "update" => call[t].op = "update"
        PROVE  Blocks' /\ Owners'
    <2>1. Blocks'
      BY <1>1 DEF Blocks, blockElems, InBlock, truth
    <2>2. ASSUME NEW u \in Thread, u # t PROVE Owned(u)'
      <3>1. call'[u] = call[u] /\ callElems(u)' = callElems(u) /\ Owned(u)
        BY <1>1, <2>2, OthersSame DEF Owners
      <3>2. \A e : InBlock(e)' = InBlock(e)
        BY <1>1 DEF InBlock, blockElems, truth
      <3>3. QED  BY <1>1, <3>1, <3>2 DEF Owned, truth
    <2>3. ASSUME NEW u \in Thread, NEW v \in Thread, u # v,
                 call'[u].op = "update", call'[v].op = "update"
          PROVE  callElems(u)' \cap callElems(v)' = {}
      BY <1>1, <2>3, OthersSame DEF Owners
    <2>4. QED  BY <1>1, <2>1, <2>2, <2>3 DEF Owners
  <1>2. ASSUME NEW t \in Thread, NEW a \in Addr, CastObject(t, a)
        PROVE  Blocks' /\ Owners'
    <2>1. Owned(t)'
      BY <1>2, CastFacts DEF Owned, truth
    <2>2. QED  BY <1>1, <1>2, <2>1, CastFacts
  <1>3. ASSUME NEW t \in Thread, Step(t), call[t].at # "return"
        PROVE  Blocks' /\ Owners'
    <2>1. OtherCalls(t) /\ SameCall(t) /\ UNCHANGED truth
      BY <1>3, StepFrame DEF Frame
    <2>2. callElems(t)' = callElems(t) /\ \A e : InBlock(e)' = InBlock(e)
      BY <2>1 DEF SameCall, callElems, InBlock, blockElems, truth
    <2>3. Owned(t)'
      BY <2>1, <2>2 DEF Owned, Owners, SameCall, truth
    <2>4. QED  BY <1>1, <2>1, <2>2, <2>3 DEF SameCall
  <1>4. CASE UNCHANGED vars
    <2>1. \A t \in Thread : Owned(t)' = Owned(t)
      BY <1>4 DEF vars, truth, Owned, callElems, InBlock, blockElems
    <2>2. QED
      BY <1>4, <2>1 DEF vars, truth, Blocks, Owners, callElems, InBlock, blockElems
  <1>5. ASSUME NEW t \in Thread, Step(t)
        PROVE  Blocks' /\ Owners'
    BY <1>3, <1>5, ReturnOnly, ReturnTruth
  <1>6. QED
    BY <1>2, <1>4, <1>5, CreateTruth, ReleaseTruth DEF Next, Program

-----------------------------------------------------------------------------
(* Where the steps of a call come from.                                    *)

(* The program, and the return to it, leave the map and the slots alone.   *)
LEMMA ProgramFacts ==
  ASSUME TypeOK, CallShape, Blocks, NEW t \in Thread, Program(t) \/ Return(t)
  PROVE  /\ OtherCalls(t) /\ UNCHANGED <<mapVars, raced>> /\ reused \subseteq reused'
         /\ call'[t].at \in {"idle", "test", "size"} /\ ~Working(t)'
         /\ call[t].at \in {"idle", "return"} /\ ~Working(t)
         /\ call'[t].op = "remove" => Sizing(t)' \/ call'[t].n = call'[t].made
  <1>1. Shape(t)
    BY DEF CallShape
  <1>2. ASSUME NEW a \in Addr, NEW n \in ArraySizes, NEW f \in FakeVPtr,
               Create(t, a, n, f)
        PROVE  /\ OtherCalls(t) /\ UNCHANGED <<mapVars, raced>> /\ reused \subseteq reused'
               /\ call'[t].at \in {"idle", "test", "size"}
               /\ call[t].at \in {"idle", "return"}
               /\ call'[t].op = "remove" => Sizing(t)' \/ call'[t].n = call'[t].made
    BY <1>1, <1>2, CreateFacts DEF Shape
  <1>3. ASSUME NEW a \in Addr, Release(t, a)
        PROVE  /\ OtherCalls(t) /\ UNCHANGED <<mapVars, raced>> /\ reused \subseteq reused'
               /\ call'[t].at \in {"idle", "test", "size"}
               /\ call[t].at \in {"idle", "return"}
               /\ call'[t].op = "remove" => Sizing(t)' \/ call'[t].n = call'[t].made
    BY <1>1, <1>3, ReleaseFacts DEF Shape, Sizing
  <1>4. ASSUME NEW a \in Addr, CastObject(t, a)
        PROVE  /\ OtherCalls(t) /\ UNCHANGED <<mapVars, raced>> /\ reused \subseteq reused'
               /\ call'[t].at \in {"idle", "test", "size"}
               /\ call[t].at \in {"idle", "return"}
               /\ call'[t].op = "remove" => Sizing(t)' \/ call'[t].n = call'[t].made
    BY <1>1, <1>4, CastFacts DEF Shape, truth
  <1>5. ASSUME Return(t)
        PROVE  /\ OtherCalls(t) /\ UNCHANGED <<mapVars, raced>> /\ reused \subseteq reused'
               /\ call'[t].at \in {"idle", "test", "size"}
               /\ call[t].at \in {"idle", "return"}
               /\ call'[t].op = "remove" => Sizing(t)' \/ call'[t].n = call'[t].made
    <2>1. call[t].at = "return"
      BY <1>5 DEF Return, at
    <2>2. QED  BY <1>5, <2>1, ReturnFacts DEF NoCall
  <1>6. QED  BY <1>2, <1>3, <1>4, <1>5 DEF Program, Working

(* The steps that lead to a step, and what they saw.                       *)
Arrivals(t) ==
  LET held == ObjAddr[slot(t)]
      next == call'[t].at
  IN /\ next = "vacate" => Test(t) /\ held = obj(t)
     /\ next = "read" => Test(t) /\ held = obj(t)
     /\ next = "inTree" => Test(t) /\ held # obj(t)
     /\ next = "noTree" => Test(t) /\ held \notin {NullPtr, obj(t)}
     /\ next = "create" => NoTree(t) /\ tree(t) = None
     /\ next = "copy" => NoTree(t) \/ CreateTree(t)
     /\ next = "walk" => CopyEntry(t) \/ (InTree(t) /\ ~treeEmpty(t))
     /\ next = "write" => \/ Test(t) /\ held \in {NullPtr, obj(t)}
                          \/ Walk(t) /\ call[t].op = "update"
     /\ next = "fill" => Write(t)
     /\ next = "return" /\ call[t].op = "cast" =>
          (InTree(t) /\ treeEmpty(t)) \/ Walk(t) \/ ReadType(t)

(* Every step but a return arrives where Arrivals says.                    *)
LEMMA StepArrivals ==
  ASSUME TypeOK, CallShape, NEW t \in Thread, Step(t), call[t].at # "return"
  PROVE  Arrivals(t)
  <1>1. Shape(t) /\ call[t].op \in {"none", "update", "remove", "cast"}
    BY DEF CallShape, TypeOK, Call
  <1>2. advance(t) /\ call[t].i < Word32 => call'[t].at \in {"test", "return"}
    BY AdvanceFacts
  <1>3. CASE Size(t)
    BY <1>3, NextAt DEF Size, Arrivals
  <1>4. CASE ReadSize(t) \/ WalkSize(t)
    BY <1>1, <1>4, NextAt DEF ReadSize, WalkSize, Arrivals, at, Shape, Sizing
  <1>5. CASE SizeInTree(t)
    BY <1>1, <1>5, NextAt DEF SizeInTree, Arrivals, at, Shape, Sizing
  <1>6. CASE Test(t)
    <2>1. call[t].op \in {"update", "remove", "cast"}
      BY <1>1, <1>6 DEF Test, at, Shape
    <2>2. CASE call[t].op = "update"
      <3>1. go(t, IF ObjAddr[slot(t)] \in {NullPtr, obj(t)} THEN "write" ELSE "noTree")
        BY <1>6, <2>2 DEF Test
      <3>2. QED  BY <1>6, <2>2, <3>1, NextAt DEF Arrivals
    <2>3. CASE call[t].op = "remove"
      <3>1. go(t, IF ObjAddr[slot(t)] = obj(t) THEN "vacate" ELSE "inTree")
        BY <1>6, <2>3 DEF Test
      <3>2. QED  BY <1>6, <2>3, <3>1, NextAt DEF Arrivals
    <2>4. CASE call[t].op = "cast"
      <3>1. go(t, IF ObjAddr[slot(t)] = obj(t) THEN "read" ELSE "inTree")
        BY <1>6, <2>4 DEF Test
      <3>2. QED  BY <1>6, <2>4, <3>1, NextAt DEF Arrivals
    <2>5. QED  BY <2>1, <2>2, <2>3, <2>4
  <1>7. CASE NoTree(t)
    BY <1>7, NextAt DEF NoTree, Arrivals
  <1>8. CASE CreateTree(t) \/ Write(t)
    BY <1>8, NextAt DEF CreateTree, Write, Arrivals
  <1>9. CASE CopyEntry(t)
    <2>1. call'[t].at = "walk"
      BY <1>9, CopyFacts
    <2>2. QED  BY <1>9, <2>1 DEF Arrivals
  <1>10. CASE Fill(t) \/ Vacate(t)
    <2>1. advance(t) /\ call[t].i < Word32 /\ call[t].op # "cast"
      BY <1>1, <1>10 DEF Fill, Vacate, at, Shape, Registering
    <2>2. QED  BY <1>2, <2>1 DEF Arrivals
  <1>11. CASE InTree(t)
    <2>1. call[t].i < Word32
      BY <1>1, <1>11 DEF InTree, at, Shape
    <2>2. CASE treeEmpty(t)
      BY <1>2, <1>11, <2>1, <2>2 DEF InTree, Arrivals
    <2>3. CASE ~treeEmpty(t)
      BY <1>11, <2>3, NextAt DEF InTree, Arrivals
    <2>4. QED  BY <2>2, <2>3
  <1>12. CASE Walk(t)
    <2>1. call[t].i < Word32 /\ call[t] \in Call
      BY <1>1, <1>12 DEF Walk, at, Shape, TypeOK
    <2>2. CASE call[t].op = "update"
      BY <1>12, <2>2, NextAt DEF Walk, Arrivals
    <2>3. CASE call[t].op = "remove"
      BY <1>2, <1>12, <2>1, <2>3 DEF Walk, Arrivals
    <2>4. CASE call[t].op = "cast"
      <3>1. call'[t].at = "return"
        BY <1>12, <2>1, <2>4 DEF Walk, TypeOK, Call
      <3>2. QED  BY <1>12, <2>4, <3>1 DEF Arrivals
    <2>5. QED  BY <1>12, <2>2, <2>3, <2>4 DEF Walk
  <1>13. CASE ReadType(t)
    BY <1>13, NextAt DEF Arrivals
  <1>14. QED
    BY <1>3, <1>4, <1>5, <1>6, <1>7, <1>8, <1>9, <1>10, <1>11, <1>12, <1>13
    DEF Step, Return, at

-----------------------------------------------------------------------------
(* Lengths, and who is alone in a slot.                                    *)

(* A removal keeps its length, or takes one; a wrong one spoils all slots. *)
LEMMA StepSize ==
  ASSUME TypeOK, CallShape, TreeThere, NEW t \in Thread, Step(t), call[t].at # "return",
         call'[t].op = "remove", ~Sizing(t)'
  PROVE  \/ ~Sizing(t) /\ call'[t].n = call[t].n
         \/ call'[t].n = call[t].made
         \/ raced' = Slot
  <1>1. Shape(t) /\ call[t].op = "remove"
    BY StepFrame DEF CallShape, Frame, SameCall
  <1>2. ASSUME NEW n, takeSize(t, n)
        PROVE  call'[t].n = call[t].made \/ raced' = Slot
    BY <1>2, NextAt DEF takeSize
  <1>3. ASSUME advance(t), call[t].i < Word32
        PROVE  call'[t].n = call[t].n
    BY <1>3, AdvanceFacts
  <1>4. CASE Size(t)
    <2>1. call'[t].at \in {"readSize", "sizeInTree"}
      BY <1>4, NextAt DEF Size
    <2>2. QED  BY <2>1 DEF Sizing
  <1>5. CASE ReadSize(t) \/ WalkSize(t)
    BY <1>2, <1>5 DEF ReadSize, WalkSize
  <1>6. CASE SizeInTree(t)
    <2>1. CASE treeEmpty(t)
      BY <1>2, <1>6, <2>1 DEF SizeInTree
    <2>2. CASE ~treeEmpty(t)
      BY <1>6, <2>2, NextAt DEF SizeInTree, Sizing
    <2>3. QED  BY <2>1, <2>2
  <1>7. CASE Test(t)
    <2>1. go(t, IF ObjAddr[slot(t)] = obj(t) THEN "vacate" ELSE "inTree")
      BY <1>1, <1>7 DEF Test
    <2>2. QED  BY <1>7, <2>1, NextAt DEF Test, at, Sizing
  <1>8. CASE NoTree(t) \/ CreateTree(t) \/ CopyEntry(t) \/ Write(t) \/ Fill(t)
    BY <1>1, <1>8 DEF NoTree, CreateTree, CopyEntry, Write, Fill, at, Shape, Registering
  <1>9. CASE Vacate(t)
    BY <1>1, <1>3, <1>9 DEF Vacate, at, Shape, Sizing
  <1>10. CASE InTree(t)
    <2>1. call[t].i < Word32 /\ ~Sizing(t)
      BY <1>1, <1>10 DEF InTree, at, Shape, Sizing
    <2>2. CASE treeEmpty(t)
      BY <1>3, <1>10, <2>1, <2>2 DEF InTree
    <2>3. CASE ~treeEmpty(t)
      BY <1>10, <2>1, <2>3, NextAt DEF InTree
    <2>4. QED  BY <2>2, <2>3
  <1>11. CASE Walk(t)
    BY <1>1, <1>3, <1>11 DEF Walk, at, Shape, Sizing
  <1>12. CASE ReadType(t)
    BY <1>1, <1>12 DEF ReadType, at, Shape
  <1>13. QED
    BY <1>4, <1>5, <1>6, <1>7, <1>8, <1>9, <1>10, <1>11, <1>12 DEF Step, Return, at

(* Lengths stay right until all slots are spoilt.                          *)
LEMMA SizedNext ==
  ASSUME TypeOK, CallShape, TreeThere, Blocks, Sized, [Next]_vars
  PROVE  Sized'
  <1>1. ASSUME NEW t \in Thread, Program(t) \/ Return(t), NEW u \in Thread,
               call'[u].op = "remove", ~Sizing(u)', raced' # Slot
        PROVE  call'[u].n = call'[u].made
    <2>1. CASE u = t
      BY <1>1, <2>1, ProgramFacts
    <2>2. CASE u # t
      BY <1>1, <2>2, ProgramFacts, OthersSame DEF Sized
    <2>3. QED  BY <2>1, <2>2
  <1>2. ASSUME NEW t \in Thread, Step(t), call[t].at # "return", NEW u \in Thread,
               call'[u].op = "remove", ~Sizing(u)', raced' # Slot
        PROVE  call'[u].n = call'[u].made
    <2>1. OtherCalls(t) /\ SameCall(t) /\ raced # Slot
      BY <1>2, StepFrame DEF Frame
    <2>2. CASE u = t
      BY <1>2, <2>1, <2>2, StepSize DEF Sized, SameCall
    <2>3. CASE u # t
      BY <1>2, <2>1, <2>3, OthersSame DEF Sized
    <2>4. QED  BY <2>2, <2>3
  <1>3. CASE UNCHANGED vars
    BY <1>3 DEF vars, Sized, Sizing
  <1>4. QED
    BY <1>1, <1>2, <1>3, ReturnOnly DEF Next, Sized

(* A call that begins to work in a slot looks for those that do.           *)
LEMMA AloneNext ==
  ASSUME TypeOK, CallShape, TreeThere, Blocks, Alone, [Next]_vars
  PROVE  Alone'
  <1>1. ASSUME NEW t \in Thread, Program(t) \/ Return(t),
               NEW u \in Thread, NEW v \in Thread, u # v, Working(u)', Working(v)',
               slot(u)' = slot(v)', slot(u)' \notin raced'
        PROVE  call'[u].op # "update"
    <2>1. OtherCalls(t) /\ UNCHANGED raced /\ ~Working(t)'
      BY <1>1, ProgramFacts
    <2>2. QED  BY <1>1, <2>1, OthersSame DEF Alone
  <1>2. ASSUME NEW t \in Thread, Step(t), call[t].at # "return",
               NEW u \in Thread, NEW v \in Thread, u # v, Working(u)', Working(v)',
               slot(u)' = slot(v)', slot(u)' \notin raced'
        PROVE  call'[u].op # "update"
    <2>1. Frame(t) /\ Entry(t) /\ OtherCalls(t) /\ raced \subseteq raced' /\ SameCall(t)
      BY <1>2, StepFrame DEF Frame
    <2>2. \A w \in Thread : Working(w)' =>
            slot(w)' = slot(w) /\ call'[w].op = call[w].op /\ (w # t => Working(w))
      BY <2>1, SlotSame, OthersSame DEF SameCall
    <2>3. slot(u) = slot(v) /\ slot(u) \notin raced
      BY <1>2, <2>1, <2>2
    <2>4. CASE Working(u) /\ Working(v)
      BY <1>2, <2>2, <2>3, <2>4 DEF Alone
    <2>5. CASE ~(Working(u) /\ Working(v))
      <3>1. t \in {u, v} /\ ~Working(t) /\ enter(t)
        BY <1>2, <2>1, <2>2, <2>5 DEF Entry
      <3>2. ~meets(t)
        BY <1>2, <2>2, <2>3, <3>1 DEF enter
      <3>3. PICK w \in {u, v} : w # t
        BY <1>2
      <3>4. w \in Thread \ {t} /\ Working(w) /\ slot(w) = slot(t)
        BY <1>2, <2>2, <2>3, <3>1, <3>3
      <3>5. "update" \notin {call[t].op, call[w].op}
        BY <3>2, <3>4 DEF meets
      <3>6. QED  BY <1>2, <2>2, <3>1, <3>3, <3>5
    <2>6. QED  BY <2>4, <2>5
  <1>3. CASE UNCHANGED vars
    BY <1>3 DEF vars, Alone, Working, slot, obj
  <1>4. QED
    BY <1>1, <1>2, <1>3, ReturnOnly DEF Next, Alone

-----------------------------------------------------------------------------
(* What others may do to a slot.                                           *)

(* Calls that do not register leave all but their own entries alone.       *)
LEMMA OthersWrites ==
  ASSUME TypeOK, CallShape, NEW t \in Thread, Step(t), call[t].op # "update",
         NEW s \in Slot
  PROVE  /\ info'[s] = info[s]
         /\ \/ ObjAddr'[s] = ObjAddr[s]
            \/ Vacate(t) /\ s = slot(t) /\ ObjAddr'[s] = NullPtr
         /\ \/ HexTree'[s] = HexTree[s]
            \/ /\ Walk(t) /\ call[t].op = "remove" /\ s = slot(t)
               /\ HexTree' = [HexTree EXCEPT ![slot(t)][obj(t)] = None]
  <1>1. Shape(t) /\ slot(t) \in Slot
    BY SlotOf DEF CallShape
  <1>2. CASE Size(t) \/ ReadSize(t) \/ WalkSize(t) \/ Test(t) \/ NoTree(t)
             \/ ReadType(t) \/ Return(t) \/ SizeInTree(t) \/ InTree(t)
    BY <1>2 DEF Size, ReadSize, WalkSize, Test, NoTree, ReadType, Return, SizeInTree,
       InTree, mapVars
  <1>3. CASE CreateTree(t) \/ CopyEntry(t) \/ Write(t) \/ Fill(t)
    BY <1>1, <1>3 DEF CreateTree, CopyEntry, Write, Fill, at, Shape, Registering
  <1>4. CASE Vacate(t)
    BY <1>1, <1>4 DEF Vacate, TypeOK
  <1>5. CASE Walk(t) /\ call[t].op = "remove"
    BY <1>1, <1>5 DEF Walk, TypeOK
  <1>6. CASE Walk(t) /\ call[t].op = "cast"
    BY <1>6 DEF Walk
  <1>7. QED  BY <1>2, <1>3, <1>4, <1>5, <1>6 DEF Step, Walk

(* While a registration works in a slot without a race, no other call      *)
(* writes there.                                                           *)
LEMMA NobodyElse ==
  ASSUME TypeOK, CallShape, Alone, NEW t \in Thread, NEW u \in Thread, t # u,
         Step(u), Working(t), call[t].op = "update", slot(t) \notin raced
  PROVE  LET s == slot(t)
         IN ObjAddr'[s] = ObjAddr[s] /\ info'[s] = info[s] /\ HexTree'[s] = HexTree[s]
  <1>1. slot(t) \in Slot
    BY SlotOf
  <1>2. ~Working(u) \/ slot(t) # slot(u)
    BY DEF Alone
  <1>3. QED  BY <1>1, <1>2, Untouched

(* Between its test and its write a removal keeps its slot.                *)
LEMMA VacatingNext ==
  ASSUME TypeOK, CallShape, TreeThere, Blocks, Alone, Vacating, [Next]_vars
  PROVE  Vacating'
  <1>1. ASSUME NEW t \in Thread, Program(t) \/ Return(t), NEW u \in Thread,
               at(u, "vacate")', slot(u)' \notin raced'
        PROVE  ObjAddr'[slot(u)'] \in {obj(u)', NullPtr}
    <2>1. u # t
      BY <1>1, ProgramFacts DEF at
    <2>2. QED  BY <1>1, <2>1, ProgramFacts, OthersSame DEF Vacating, at, mapVars
  <1>2. ASSUME NEW t \in Thread, Step(t), call[t].at # "return", NEW u \in Thread,
               at(u, "vacate")', slot(u)' \notin raced'
        PROVE  ObjAddr'[slot(u)'] \in {obj(u)', NullPtr}
    <2>1. Frame(t) /\ Entry(t) /\ OtherCalls(t) /\ raced \subseteq raced'
      BY <1>2, StepFrame DEF Frame
    <2>2. CASE u = t
      <3>1. Test(t) /\ ObjAddr[slot(t)] = obj(t)
        BY <1>2, <2>2, StepArrivals DEF Arrivals, at
      <3>2. slot(t)' = slot(t) /\ obj(t)' = obj(t)
        BY <1>2, <2>1, <2>2, SlotSame DEF Working, at
      <3>3. QED  BY <2>2, <3>1, <3>2 DEF Test, mapVars
    <2>3. CASE u # t
      <3>1. /\ at(u, "vacate") /\ slot(u)' = slot(u) /\ obj(u)' = obj(u)
            /\ slot(u) \notin raced /\ slot(u) \in Slot
        BY <1>2, <2>1, <2>3, OthersSame, SlotOf DEF at
      <3>2. ObjAddr[slot(u)] \in {obj(u), NullPtr} /\ Working(u)
        BY <3>1 DEF Vacating, Working, at
      <3>3. CASE slot(t) = slot(u) /\ Working(t)
        <4>1. call[t].op # "update"
          BY <2>3, <3>1, <3>2, <3>3 DEF Alone
        <4>2. QED  BY <1>2, <3>1, <3>2, <4>1, OthersWrites
      <3>4. CASE slot(t) # slot(u) \/ ~Working(t)
        BY <1>2, <3>1, <3>2, <3>4, Untouched
      <3>5. QED  BY <3>3, <3>4
    <2>4. QED  BY <2>2, <2>3
  <1>3. CASE UNCHANGED vars
    BY <1>3 DEF vars, Vacating, at, slot, obj
  <1>4. QED
    BY <1>1, <1>2, <1>3, ReturnOnly DEF Next, Vacating

(* A registration keeps what it has seen and copied until it overwrites    *)
(* the slot.                                                               *)
LEMMA DisplacingNext ==
  ASSUME TypeOK, CallShape, TreeThere, Blocks, Alone, Displacing, [Next]_vars
  PROVE  Displacing'
  <1>1. ASSUME NEW t \in Thread, Program(t) \/ Return(t), NEW u \in Thread
        PROVE  Displaced(u)'
    <2>1. CASE u = t
      BY <1>1, <2>1, ProgramFacts DEF Displaced
    <2>2. CASE u # t
      BY <1>1, <2>2, ProgramFacts, OthersSame DEF Displacing, Displaced, mapVars
    <2>3. QED  BY <2>1, <2>2
  <1>2. ASSUME NEW t \in Thread, Step(t), call[t].at # "return", NEW u \in Thread, u # t
        PROVE  Displaced(u)'
    <2>1. OtherCalls(t) /\ raced \subseteq raced'
      BY <1>2, StepFrame DEF Frame
    <2>2. call'[u] = call[u] /\ slot(u)' = slot(u) /\ obj(u)' = obj(u)
      BY <1>2, <2>1, OthersSame
    <2>3. CASE call[u].op = "update" /\ slot(u) \notin raced /\ Working(u)
      <3>1. /\ ObjAddr'[slot(u)] = ObjAddr[slot(u)] /\ info'[slot(u)] = info[slot(u)]
            /\ HexTree'[slot(u)] = HexTree[slot(u)]
        BY <1>2, <2>3, NobodyElse
      <3>2. QED  BY <2>1, <2>2, <3>1, <2>3 DEF Displacing, Displaced
    <2>4. CASE ~(call[u].op = "update" /\ slot(u) \notin raced /\ Working(u))
      BY <2>1, <2>2, <2>4 DEF Displaced, Working
    <2>5. QED  BY <2>3, <2>4
  <1>3. ASSUME NEW t \in Thread, Step(t), call[t].at # "return",
               call'[t].op = "update", slot(t)' \notin raced', Working(t)'
        PROVE  Displaced(t)'
    <2>1. Frame(t) /\ Entry(t) /\ Arrivals(t) /\ raced \subseteq raced' /\ SameCall(t)
      BY <1>3, StepFrame, StepArrivals DEF Frame
    <2>2. slot(t)' = slot(t) /\ obj(t)' = obj(t) /\ slot(t) \in Slot
      BY <1>3, <2>1, SlotSame, SlotOf
    <2>3. Displaced(t) /\ call[t].op = "update" /\ slot(t) \notin raced /\ Shape(t)
      BY <1>3, <2>1, <2>2 DEF Displacing, SameCall, CallShape
    <2>4. CASE call'[t].at = "noTree"
      BY <2>1, <2>2, <2>4 DEF Arrivals, Displaced, Test, mapVars
    <2>5. CASE call'[t].at = "create"
      BY <2>1, <2>2, <2>3, <2>5 DEF Arrivals, Displaced, NoTree, at, tree, mapVars
    <2>6. CASE call'[t].at = "copy"
      BY <2>1, <2>2, <2>3, <2>6 DEF Arrivals, Displaced, NoTree, CreateTree, at, mapVars
    <2>7. CASE call'[t].at = "walk"
      <3>1. CopyEntry(t)
        BY <2>1, <2>3, <2>7 DEF Arrivals, InTree, at, Shape
      <3>2. call'[t].copy = info[slot(t)] /\ call'[t].key = ObjAddr[slot(t)]
        BY <3>1, CopyFacts
      <3>3. QED  BY <2>2, <2>3, <2>7, <3>1, <3>2 DEF CopyEntry, Displaced, at
    <2>8. CASE call'[t].at = "write"
      <3>1. CASE Test(t)
        BY <2>1, <2>2, <2>8, <3>1 DEF Arrivals, Displaced, Test, Walk, at, mapVars
      <3>2. CASE Walk(t)
        <4>1. /\ HexTree' = [HexTree EXCEPT ![slot(t)][call[t].key] = call[t].copy]
              /\ UNCHANGED <<ObjAddr, info>> /\ call[t].at = "walk"
          BY <2>3, <3>2 DEF Walk, at
        <4>2. call[t].key = ObjAddr[slot(t)] /\ call[t].copy = info[slot(t)]
          BY <2>3, <4>1 DEF Displaced
        <4>3. HexTree[slot(t)] # None /\ ObjAddr[slot(t)] \in Key
          BY <2>2, <4>1 DEF TreeThere, TypeOK
        <4>4. HexTree[slot(t)] \in [Key -> Info \cup {None}]
          BY <2>2, <4>3 DEF TypeOK
        <4>5. HexTree'[slot(t)] # None
          BY <2>2, <4>1, <4>3, TreeWritten, SlotOf DEF TreesStay, TypeOK, Call
        <4>6. HexTree'[slot(t)][ObjAddr[slot(t)]] = info[slot(t)]
          BY <2>2, <4>1, <4>2, <4>3, <4>4 DEF TypeOK
        <4>7. QED  BY <2>2, <2>8, <4>1, <4>5, <4>6 DEF Displaced
      <3>3. QED  BY <2>1, <2>8, <3>1, <3>2 DEF Arrivals
    <2>9. CASE call'[t].at = "fill"
      <3>1. Write(t)
        BY <2>1, <2>9 DEF Arrivals
      <3>2. ObjAddr'[slot(t)] = obj(t)
        BY <2>2, <3>1 DEF Write, TypeOK
      <3>3. QED  BY <2>2, <2>9, <3>2 DEF Displaced
    <2>10. QED
      BY <2>4, <2>5, <2>6, <2>7, <2>8, <2>9 DEF Displaced
  <1>4. ASSUME NEW t \in Thread, Step(t), call[t].at # "return"
        PROVE  Displaced(t)'
    BY <1>3, <1>4 DEF Displaced, Working
  <1>5. CASE UNCHANGED vars
    BY <1>5 DEF vars, Displacing, Displaced, slot, obj
  <1>6. QED
    BY <1>1, <1>2, <1>4, <1>5, ReturnOnly DEF Next, Displacing

-----------------------------------------------------------------------------
(* What must be found.                                                     *)

(* A registration has registered some of its elements, and not the one it  *)
(* treats.                                                                 *)
LEMMA RegisteredOwn ==
  ASSUME TypeOK, CallShape, NEW u \in Thread, call[u].op = "update"
  PROVE  /\ elems(call[u].addr, call[u].i) \subseteq callElems(u)
         /\ Looping(u) => /\ obj(u) \in callElems(u)
                          /\ obj(u) \notin elems(call[u].addr, call[u].i)
  <1>1. /\ Shape(u) /\ call[u].i \in Nat /\ call[u].addr \in Nat /\ call[u].made \in Nat
        /\ call[u].at \in Steps
    BY SlotOf DEF CallShape, TypeOK, Call
  <1>2. Looping(u) \/ call[u].at = "return"
    BY <1>1 DEF Steps, Shape, Sizing, Looping
  <1>3. call[u].i <= call[u].made /\ call[u].i < Word32
    BY <1>1, <1>2 DEF Shape
  <1>4. elems(call[u].addr, call[u].i) \subseteq callElems(u)
    BY <1>1, <1>3, Elements DEF callElems
  <1>5. elem(call[u].addr, call[u].i) \notin elems(call[u].addr, call[u].i)
    BY <1>1, <1>3, Elements
  <1>6. Looping(u) => obj(u) \in callElems(u)
    BY <1>1, OwnElement DEF Shape
  <1>7. QED  BY <1>4, <1>5, <1>6 DEF obj

(* What no array holds is not registered.                                  *)
LEMMA RegisteredLive ==
  ASSUME TypeOK, CallShape, Blocks, Owners, NEW a \in Addr, NEW f \in FakeVPtr,
         Registered(a, f)
  PROVE  InBlock(a)
  <1>1. CASE live[a] = f
    BY <1>1, NoneFresh DEF Blocks
  <1>2. CASE live[a] # f
    <2>1. PICK u \in Thread : call[u].op = "update" /\ a \in elems(call[u].addr, call[u].i)
      BY <1>2 DEF Registered
    <2>2. a \in callElems(u)
      BY <2>1, RegisteredOwn
    <2>3. QED  BY <2>1, <2>2, OwnBlock
  <1>3. QED  BY <1>1, <1>2

(* An object that is being registered is not registered yet.               *)
LEMMA NotYetRegistered ==
  ASSUME TypeOK, CallShape, Owners, NEW t \in Thread, call[t].op = "update", Looping(t),
         NEW f \in FakeVPtr
  PROVE  ~Registered(obj(t), f)
  <1>1. obj(t) \in callElems(t) /\ obj(t) \notin elems(call[t].addr, call[t].i)
    BY RegisteredOwn
  <1>2. live[obj(t)] # f
    BY <1>1, OwnBlock, NoneFresh
  <1>3. ASSUME NEW u \in Thread, call[u].op = "update"
        PROVE  obj(t) \notin elems(call[u].addr, call[u].i)
    <2>1. u # t => callElems(u) \cap callElems(t) = {}
      BY <1>3 DEF Owners
    <2>2. elems(call[u].addr, call[u].i) \subseteq callElems(u)
      BY <1>3, RegisteredOwn
    <2>3. QED  BY <1>1, <2>1, <2>2
  <1>4. QED  BY <1>2, <1>3 DEF Registered

(* What a removal treats is no longer an object, unless its address has    *)
(* been given out again.                                                   *)
LEMMA RemovedGone ==
  ASSUME TypeOK, CallShape, Owners, Sized, NEW t \in Thread, call[t].op = "remove",
         Looping(t), NEW s \in Slot, s \notin raced
  PROVE  /\ obj(t) \in Addr
         /\ obj(t) \notin reused => ~InBlock(obj(t))
  <1>1. call[t].n = call[t].made
    BY DEF Sized, Looping, Sizing
  <1>2. obj(t) \in callElems(t) /\ obj(t) \in Addr
    BY <1>1, OwnElement
  <1>3. QED  BY <1>2 DEF Owners, Owned

(* Nothing is registered but by Fill.                                      *)
LEMMA RegisteredStep ==
  ASSUME TypeOK, CallShape, TreeThere, NEW t \in Thread, Step(t), call[t].at # "return",
         NEW a \in Addr, NEW f \in FakeVPtr, Registered(a, f)'
  PROVE  Registered(a, f) \/ (Fill(t) /\ a = obj(t) /\ f = call[t].type)
  <1>1. Frame(t) /\ Entry(t) /\ OtherCalls(t) /\ SameCall(t) /\ UNCHANGED truth
        /\ Arrivals(t)
    BY StepFrame, StepArrivals DEF Frame
  <1>2. Shape(t) /\ call[t].i \in Nat /\ call[t].addr \in Nat
    BY SlotOf DEF CallShape
  <1>3. CASE live'[a] = f
    BY <1>1, <1>3 DEF Registered, truth
  <1>4. CASE live'[a] # f
    <2>1. PICK u \in Thread : /\ call'[u].op = "update" /\ call'[u].type = f
                              /\ a \in elems(call'[u].addr, call'[u].i)
      BY <1>4 DEF Registered
    <2>2. CASE u # t
      BY <1>1, <2>1, <2>2, OthersSame DEF Registered
    <2>3. CASE u = t
      <3>1. /\ call[t].op = "update" /\ call[t].type = f
            /\ a \in elems(call[t].addr, call'[t].i)
        BY <1>1, <2>1, <2>3 DEF SameCall, Frame
      <3>2. CASE Fill(t)
        <4>1. call[t].i < Word32 /\ advance(t)
          BY <1>2, <3>1, <3>2 DEF Shape, Fill
        <4>2. call'[t].i \in {0, call[t].i + 1}
          BY <4>1, AdvanceFacts
        <4>3. elems(call[t].addr, call'[t].i) \subseteq
                elems(call[t].addr, call[t].i) \cup {obj(t)}
          BY <1>2, <4>2, NextElement DEF obj
        <4>4. QED  BY <3>1, <3>2, <4>3 DEF Registered
      <3>3. CASE ~Fill(t)
        <4>1. Working(t)'
          <5>1. Test(t) \/ NoTree(t) \/ CreateTree(t) \/ CopyEntry(t) \/ Write(t) \/ Walk(t)
            BY <1>2, <3>1, <3>3 DEF Step, at, Shape, Size, ReadSize, SizeInTree, WalkSize,
               Vacate, InTree, ReadType, Return, Sizing
          <5>2. CASE Test(t)
            <6>1. go(t, IF ObjAddr[slot(t)] \in {NullPtr, obj(t)} THEN "write" ELSE "noTree")
              BY <3>1, <5>2 DEF Test
            <6>2. QED  BY <6>1, NextAt DEF Working
          <5>3. CASE NoTree(t) \/ CreateTree(t) \/ Write(t)
            BY <5>3, NextAt DEF NoTree, CreateTree, Write, Working
          <5>4. CASE CopyEntry(t)
            <6>1. call'[t].at = "walk"
              BY <5>4, CopyFacts
            <6>2. QED  BY <6>1 DEF Working
          <5>5. CASE Walk(t)
            BY <3>1, <5>5, NextAt DEF Walk, Working
          <5>6. QED  BY <5>1, <5>2, <5>3, <5>4, <5>5
        <4>2. call'[t].i = call[t].i
          BY <1>1, <4>1 DEF Entry
        <4>3. QED  BY <3>1, <4>2 DEF Registered
      <3>4. QED  BY <3>2, <3>3
    <2>4. QED  BY <2>2, <2>3
  <1>5. QED  BY <1>3, <1>4

(* A lookup of a in slot s finds type f.                                   *)
Looked(a, f) ==
  LET s == getHash(a)
  IN IF ObjAddr[s] = a /\ ~filling(s) THEN info[s].FakeVPointer = f ELSE InTreeAs(a, f)

(* A slot is being filled when its registration has just written it.       *)
LEMMA FillingStep ==
  ASSUME TypeOK, CallShape, TreeThere, NEW t \in Thread, Step(t), call[t].at # "return",
         NEW s \in Slot
  PROVE  /\ s # slot(t) => filling(s)' = filling(s)
         /\ ~Write(t) /\ ~Fill(t) => filling(s)' = filling(s)
         /\ Write(t) /\ s = slot(t) => filling(s)'
  <1>1. Frame(t) /\ Entry(t) /\ OtherCalls(t) /\ Arrivals(t) /\ slot(t) \in Slot
    BY StepFrame, StepArrivals, SlotOf DEF Frame
  <1>2. \A u \in Thread \ {t} : /\ at(u, "fill")' = at(u, "fill")
                                /\ slot(u)' = slot(u)
    BY <1>1, OthersSame DEF at
  <1>3. at(t, "fill") <=> Fill(t)
    BY DEF Step, at, Size, ReadSize, SizeInTree, WalkSize, Test, NoTree, CreateTree,
       CopyEntry, Write, Fill, Vacate, InTree, Walk, ReadType, Return
  <1>4. at(t, "fill")' <=> Write(t)
    BY <1>1, NextAt DEF Arrivals, at, Write
  <1>5. at(t, "fill")' => slot(t)' = slot(t)
    BY <1>1, SlotSame DEF at, Working
  <1>6. ASSUME s # slot(t) PROVE filling(s)' <=> filling(s)
    BY <1>2, <1>5, <1>6 DEF filling
  <1>7. ASSUME ~Write(t), ~Fill(t) PROVE filling(s)' <=> filling(s)
    BY <1>2, <1>3, <1>4, <1>7 DEF filling
  <1>8. ASSUME Write(t), s = slot(t) PROVE filling(s)'
    BY <1>4, <1>5, <1>8 DEF filling
  <1>9. QED  BY <1>6, <1>7, <1>8 DEF filling

(* What was found before a step is found after it.                         *)
LEMMA LookedStep ==
  ASSUME TypeOK, CallShape, TreeThere, Blocks, Owners, Sized, Alone, Vacating, Displacing,
         NEW t \in Thread, Step(t), call[t].at # "return",
         NEW a \in Addr, NEW f \in FakeVPtr, getHash(a) \notin raced, a \notin reused,
         Registered(a, f), Looked(a, f)
  PROVE  Looked(a, f)'
  <1> DEFINE s == getHash(a)
  <1>1. s \in Slot /\ slot(t) \in Slot /\ a \in Key /\ a # NullPtr /\ Shape(t)
    BY SizeAssumption, HashSlot, SlotOf DEF Key, NullPtr, CallShape
  <1>2. ASSUME ObjAddr'[s] = ObjAddr[s], info'[s] = info[s], HexTree'[s] = HexTree[s],
               filling(s)' = filling(s)
        PROVE  Looked(a, f)'
    BY <1>2 DEF Looked, InTreeAs
  <1>3. CASE s # slot(t)
    BY <1>1, <1>2, <1>3, FillingStep, Untouched
  <1>4. CASE s = slot(t) /\ (Size(t) \/ ReadSize(t) \/ WalkSize(t) \/ Test(t) \/ NoTree(t)
               \/ ReadType(t) \/ SizeInTree(t) \/ CopyEntry(t) \/ InTree(t))
    <2>1. UNCHANGED <<ObjAddr, info, HexTree>> /\ ~Write(t) /\ ~Fill(t)
      BY <1>4 DEF Size, ReadSize, WalkSize, Test, NoTree, ReadType, SizeInTree, CopyEntry,
         InTree, mapVars, Write, Fill, at
    <2>2. QED  BY <1>1, <1>2, <2>1, FillingStep
  <1>5. CASE s = slot(t) /\ CreateTree(t)
    <2>1. call[t].op = "update" /\ HexTree[s] = None
      BY <1>1, <1>5 DEF CreateTree, at, Shape, Registering, Displacing, Displaced
    <2>2. UNCHANGED <<ObjAddr, info>> /\ ~Write(t) /\ ~Fill(t)
      BY <1>5 DEF CreateTree, Write, Fill, at
    <2>3. QED  BY <1>1, <2>1, <2>2, FillingStep DEF Looked, InTreeAs
  <1>6. CASE s = slot(t) /\ Write(t)
    <2>1. call[t].op = "update" /\ Looping(t) /\ UNCHANGED <<info, HexTree>>
      BY <1>1, <1>6 DEF Write, at, Shape, Registering, Looping
    <2>2. a # obj(t)
      BY <2>1, NotYetRegistered
    <2>3. filling(s)'
      BY <1>1, <1>6, FillingStep
    <2>4. InTreeAs(a, f)
      <3>1. CASE ObjAddr[s] \in {NullPtr, obj(t)}
        BY <1>1, <2>2, <3>1 DEF Looked
      <3>2. CASE ObjAddr[s] \notin {NullPtr, obj(t)}
        <4>1. HexTree[s] # None /\ HexTree[s][ObjAddr[s]] = info[s]
          BY <1>6, <2>1, <3>2 DEF Displacing, Displaced, Write, at
        <4>2. info[s] # None
          BY <1>1, NoneFresh DEF TypeOK
        <4>3. QED  BY <4>1, <4>2 DEF Looked, InTreeAs
      <3>3. QED  BY <3>1, <3>2
    <2>5. InTreeAs(a, f)'
      BY <2>1, <2>4 DEF InTreeAs
    <2>6. QED  BY <2>3, <2>5 DEF Looked
  <1>7. CASE s = slot(t) /\ Fill(t)
    <2>1. /\ call[t].op = "update" /\ Looping(t) /\ UNCHANGED <<ObjAddr, HexTree>>
          /\ at(t, "fill")
      BY <1>1, <1>7 DEF Fill, at, Shape, Registering, Looping
    <2>2. ObjAddr[s] = obj(t) /\ a # obj(t)
      BY <1>7, <2>1, NotYetRegistered DEF Displacing, Displaced, at
    <2>3. InTreeAs(a, f)
      BY <2>2 DEF Looked
    <2>4. QED  BY <2>1, <2>2, <2>3 DEF Looked, InTreeAs
  <1>8. CASE s = slot(t) /\ Vacate(t)
    <2>1. /\ call[t].op = "remove" /\ Looping(t) /\ UNCHANGED <<info, HexTree>>
          /\ ObjAddr'[s] = NullPtr
      BY <1>1, <1>8 DEF Vacate, at, Shape, Looping, TypeOK
    <2>2. a # obj(t)
      BY <1>1, <2>1, RemovedGone, RegisteredLive
    <2>3. ObjAddr[s] # a
      BY <1>1, <1>8, <2>2 DEF Vacating, Vacate
    <2>4. InTreeAs(a, f)
      BY <2>3 DEF Looked
    <2>5. QED  BY <1>1, <2>1, <2>4 DEF Looked, InTreeAs
  <1>9. CASE s = slot(t) /\ Walk(t)
    <2>1. /\ UNCHANGED <<ObjAddr, info>> /\ ~Write(t) /\ ~Fill(t) /\ Looping(t)
          /\ HexTree[s] # None /\ call[t].at = "walk"
      BY <1>9 DEF Walk, at, Write, Fill, Looping, TreeThere
    <2>2. filling(s)' = filling(s) /\ HexTree[s] \in [Key -> Info \cup {None}]
      BY <1>1, <2>1, FillingStep DEF TypeOK
    <2>3. CASE call[t].op = "cast"
      BY <1>2, <1>9, <2>1, <2>2, <2>3 DEF Walk
    <2>4. ASSUME NEW k, NEW v \in Info \cup {None}, k # a,
                 HexTree' = [HexTree EXCEPT ![slot(t)][k] = v]
          PROVE  Looked(a, f)'
      <3>1. HexTree'[s] # None
        BY <1>1, <1>9, <2>1, <2>4, TreeWritten DEF TreesStay
      <3>2. HexTree'[s][a] = HexTree[s][a]
        BY <1>1, <1>9, <2>2, <2>4 DEF TypeOK
      <3>3. InTreeAs(a, f)' = InTreeAs(a, f)
        BY <2>1, <3>1, <3>2 DEF InTreeAs
      <3>4. QED  BY <2>1, <2>2, <3>3 DEF Looked
    <2>5. CASE call[t].op = "remove"
      <3>1. a # obj(t)
        BY <1>1, <2>1, <2>5, RemovedGone, RegisteredLive
      <3>2. QED  BY <1>9, <2>4, <2>5, <3>1 DEF Walk
    <2>6. CASE call[t].op = "update"
      <3>1. call[t].key = ObjAddr[s] /\ call[t].copy \in Info
        BY <1>9, <2>1, <2>6 DEF Displacing, Displaced, TypeOK, Call
      <3>2. HexTree' = [HexTree EXCEPT ![slot(t)][call[t].key] = call[t].copy]
        BY <1>9, <2>6 DEF Walk
      <3>3. CASE ObjAddr[s] # a
        BY <2>4, <3>1, <3>2, <3>3
      <3>4. CASE ObjAddr[s] = a
        <4>1. ~filling(s)
          BY <1>9, <2>1, <2>6 DEF filling, Alone, Working, at
        <4>2. QED  BY <2>1, <2>2, <3>4, <4>1 DEF Looked
      <3>5. QED  BY <3>3, <3>4
    <2>7. QED  BY <1>9, <2>3, <2>5, <2>6 DEF Walk
  <1>10. QED
    BY <1>3, <1>4, <1>5, <1>6, <1>7, <1>8, <1>9 DEF Step, Return, at

(* Lookups says this of everything that is registered.                     *)
LEMMA LookupsAre ==
  Lookups <=> \A a \in Addr \ reused, f \in FakeVPtr :
                Registered(a, f) /\ getHash(a) \notin raced => Looked(a, f)
  BY DEF Lookups, Looked

(* Every step keeps the lookups of what it does not register, and          *)
(* registers rightly.                                                      *)
LEMMA LookupsNext ==
  ASSUME TypeOK, CallShape, TreeThere, Blocks, Owners, Sized, Alone, Vacating, Displacing,
         Lookups, [Next]_vars
  PROVE  Lookups'
  <1>1. ASSUME NEW t \in Thread, Program(t) \/ Return(t), NEW a \in Addr, NEW f \in FakeVPtr,
               a \notin reused', Registered(a, f)', getHash(a) \notin raced'
        PROVE  Looked(a, f)'
    <2>1. /\ OtherCalls(t) /\ UNCHANGED <<mapVars, raced>> /\ reused \subseteq reused'
          /\ ~at(t, "fill") /\ ~at(t, "fill")'
      BY <1>1, ProgramFacts DEF at
    <2>2. filling(getHash(a))' <=> filling(getHash(a))
      BY <2>1, OthersSame DEF filling, at
    <2>3. Registered(a, f)
      <3>1. ASSUME NEW u \in Thread, u # t, call'[u].op = "update", call'[u].type = f,
                   a \in elems(call'[u].addr, call'[u].i)
            PROVE  Registered(a, f)
        BY <2>1, <3>1, OthersSame DEF Registered
      <3>2. ASSUME NEW b \in Addr, NEW n \in ArraySizes, NEW g \in FakeVPtr,
                   Create(t, b, n, g)
            PROVE  Registered(a, f)
        <4>1. live' = live /\ call'[t].i = 0 /\ call'[t].addr = b /\ b \in Nat
          BY <3>2, CreateFacts, SizeAssumption
        <4>2. a \notin elems(call'[t].addr, call'[t].i)
          BY <4>1, Elements
        <4>3. QED  BY <1>1, <3>1, <4>1, <4>2 DEF Registered
      <3>3. ASSUME NEW b \in Addr, Release(t, b)
            PROVE  Registered(a, f)
        <4>1. live'[a] \in {None, live[a]} /\ call'[t].op = "remove"
          BY <3>3, ReleaseFacts
        <4>2. QED  BY <1>1, <3>1, <4>1, NoneFresh DEF Registered
      <3>4. ASSUME NEW b \in Addr, CastObject(t, b)
            PROVE  Registered(a, f)
        <4>1. live' = live /\ call'[t].op = "cast"
          BY <3>4, CastFacts DEF truth
        <4>2. QED  BY <1>1, <3>1, <4>1 DEF Registered
      <3>5. ASSUME Return(t)
            PROVE  Registered(a, f)
        <4>1. call'[t].op # "update" /\ at(t, "return")
          <5>1. call'[t] = NoCall
            BY <3>5, ReturnFacts
          <5>2. at(t, "return")
            BY <3>5 DEF Return
          <5>3. QED  BY <5>1, <5>2 DEF NoCall
        <4>2. \/ live'[a] = live[a]
              \/ /\ call[t].op = "update" /\ a \in callElems(t)
                 /\ live'[a] = call[t].type
          <5>1. CASE call[t].op = "update"
            BY <3>5, <5>1, ReturnFacts
          <5>2. CASE call[t].op # "update"
            BY <3>5, <5>2, ReturnFacts
          <5>3. QED  BY <5>1, <5>2
        <4>3. call[t].op = "update" => call[t].i = call[t].made
          BY <4>1 DEF CallShape, Shape, at
        <4>4. QED  BY <1>1, <3>1, <4>1, <4>2, <4>3 DEF Registered, callElems
      <3>6. QED  BY <1>1, <3>2, <3>3, <3>4, <3>5 DEF Program
    <2>4. Looked(a, f)
      BY <1>1, <2>1, <2>3, LookupsAre
    <2>5. QED  BY <2>1, <2>2, <2>4 DEF Looked, InTreeAs, mapVars
  <1>2. ASSUME NEW t \in Thread, Step(t), call[t].at # "return",
               NEW a \in Addr, NEW f \in FakeVPtr,
               a \notin reused', Registered(a, f)', getHash(a) \notin raced'
        PROVE  Looked(a, f)'
    <2>1. Frame(t) /\ OtherCalls(t) /\ raced \subseteq raced' /\ reused' = reused
      BY <1>2, StepFrame DEF Frame, truth
    <2>2. CASE Registered(a, f)
      BY <1>2, <2>1, <2>2, LookupsAre, LookedStep
    <2>3. CASE Fill(t) /\ a = obj(t) /\ f = call[t].type
      <3>1. Shape(t) /\ slot(t) \in Slot /\ getHash(a) = slot(t) /\ slot(t) \notin raced
        BY <1>2, <2>1, <2>3, SlotOf DEF CallShape, slot
      <3>2. call[t].op = "update" /\ at(t, "fill") /\ Working(t)
        BY <2>3, <3>1 DEF Fill, at, Shape, Registering, Working
      <3>3. /\ ObjAddr'[slot(t)] = a
            /\ info'[slot(t)].FakeVPointer = f
        BY <2>3, <3>1, <3>2 DEF Fill, Displacing, Displaced, TypeOK, at
      <3>4. \A u \in Thread \ {t} : ~(at(u, "fill") /\ slot(u) = slot(t))
        BY <3>1, <3>2 DEF Alone, Working, at
      <3>5. ~at(t, "fill")'
        BY <1>2, <2>3, StepArrivals DEF Arrivals, at, Fill, Write
      <3>6. ~filling(getHash(a))'
        BY <2>1, <3>1, <3>4, <3>5, OthersSame DEF filling, at
      <3>7. QED  BY <3>1, <3>3, <3>6 DEF Looked
    <2>4. QED  BY <1>2, <2>2, <2>3, RegisteredStep
  <1>3. CASE UNCHANGED vars
    BY <1>3 DEF vars, Lookups, Registered, InTreeAs, filling, at, slot, obj
  <1>4. Lookups' <=> \A a \in Addr \ reused', f \in FakeVPtr :
                       Registered(a, f)' /\ getHash(a) \notin raced' => Looked(a, f)'
    BY DEF Lookups, Looked
  <1>5. QED
    BY <1>1, <1>2, <1>3, <1>4, ReturnOnly DEF Next

-----------------------------------------------------------------------------
(* Casts.                                                                  *)

(* The object of a cast lives.                                             *)
LEMMA CastObj ==
  ASSUME TypeOK, CallShape, Blocks, Owners, NEW t \in Thread, call[t].op = "cast"
  PROVE  /\ call[t].addr \in Addr /\ call[t].addr \in Key /\ call[t].addr # NullPtr
         /\ live[call[t].addr] \in FakeVPtr /\ InBlock(call[t].addr)
         /\ Registered(call[t].addr, live[call[t].addr])
         /\ getHash(call[t].addr) \in Slot
         /\ Looping(t) => obj(t) = call[t].addr /\ slot(t) = getHash(call[t].addr)
  <1>1. call[t].addr \in Addr /\ live[call[t].addr] # None
    BY DEF CallShape, Shape, Owners, Owned
  <1>2. live[call[t].addr] \in FakeVPtr /\ InBlock(call[t].addr)
    BY <1>1 DEF TypeOK, Blocks
  <1>3. Looping(t) => obj(t) = call[t].addr
    BY FirstElement
  <1>4. QED
    BY <1>1, <1>2, <1>3, SizeAssumption, HashSlot DEF Key, NullPtr, Registered, slot

(* The other threads take nothing from a cast.                             *)
LEMMA CastKept ==
  ASSUME TypeOK, CallShape, TreeThere, Blocks, Owners, Sized, Alone, Vacating, Casting,
         NEW t \in Thread, NEW u \in Thread, u # t, Step(u), call[u].at # "return"
  PROVE  Cast(t)'
  <1> DEFINE a == call[t].addr
             s == getHash(a)
  <1>1. OtherCalls(u) /\ raced \subseteq raced' /\ UNCHANGED truth
    BY StepFrame DEF Frame
  <1>2. call'[t] = call[t] /\ at(t, "read")' = at(t, "read") /\ at(t, "return")' = at(t, "return")
    BY <1>1, OthersSame DEF at
  <1>3. SUFFICES ASSUME call[t].op = "cast", s \notin raced, a \notin reused
        PROVE  /\ at(t, "read") => ObjAddr'[s] = a
               /\ call[t].at \in {"inTree", "walk"} => ObjAddr'[s] # a
               /\ at(t, "return") => call[t].type = live[a]
    BY <1>1, <1>2 DEF Cast, truth
  <1>4. /\ at(t, "read") => ObjAddr[s] = a
        /\ call[t].at \in {"inTree", "walk"} => ObjAddr[s] # a
        /\ at(t, "return") => call[t].type = live[a]
    BY <1>3 DEF Casting, Cast
  <1>5. CASE call[t].at \notin {"read", "inTree", "walk"}
    BY <1>4, <1>5 DEF at
  <1>6. CASE call[t].at \in {"read", "inTree", "walk"}
    <2>1. /\ Looping(t) /\ Working(t) /\ slot(t) = s /\ s \in Slot /\ a # NullPtr
          /\ InBlock(a)
      BY <1>3, <1>6, CastObj DEF Looping, Working
    <2>2. CASE ~Working(u) \/ slot(u) # s
      BY <1>4, <2>1, <2>2, Untouched DEF at
    <2>3. CASE Working(u) /\ slot(u) = s
      <3>1. call[u].op # "update"
        BY <1>3, <2>1, <2>3 DEF Alone
      <3>2. CASE ObjAddr'[s] = ObjAddr[s]
        BY <1>4, <1>6, <3>2 DEF at
      <3>3. CASE ObjAddr'[s] # ObjAddr[s]
        <4>1. Vacate(u) /\ ObjAddr'[s] = NullPtr
          BY <2>1, <3>1, <3>3, OthersWrites
        <4>2. call[u].op = "remove" /\ Looping(u) /\ at(u, "vacate")
          BY <4>1 DEF Vacate, at, CallShape, Shape, Looping
        <4>3. ObjAddr[s] \in {obj(u), NullPtr}
          BY <1>3, <2>3, <4>2 DEF Vacating
        <4>4. obj(u) # a
          BY <1>3, <2>1, <4>2, RemovedGone
        <4>5. QED  BY <1>4, <1>6, <2>1, <4>1, <4>3, <4>4 DEF at
      <3>4. QED  BY <3>2, <3>3
    <2>4. QED  BY <2>2, <2>3
  <1>7. QED  BY <1>5, <1>6

(* A cast goes where its object is, and comes back with its type.          *)
LEMMA CastGoes ==
  ASSUME TypeOK, CallShape, TreeThere, Blocks, Owners, Alone, Lookups, Casting, Wrecks,
         NEW t \in Thread, Step(t), call[t].at # "return"
  PROVE  Cast(t)'
  <1> DEFINE a == call[t].addr
             s == getHash(a)
  <1>1. /\ Frame(t) /\ Entry(t) /\ Arrivals(t) /\ SameCall(t) /\ raced \subseteq raced'
        /\ UNCHANGED truth
    BY StepFrame, StepArrivals DEF Frame
  <1>2. SUFFICES ASSUME call[t].op = "cast", s \notin raced, a \notin reused
        PROVE  /\ call'[t].at = "read" => ObjAddr'[s] = a
               /\ call'[t].at \in {"inTree", "walk"} => ObjAddr'[s] # a
               /\ call'[t].at = "return" => call'[t].type = live[a]
    BY <1>1 DEF Cast, at, SameCall, truth
  <1>3. /\ a \in Addr /\ live[a] \in FakeVPtr /\ Registered(a, live[a]) /\ s \in Slot
        /\ a \in Key /\ Shape(t)
    BY <1>2, CastObj DEF CallShape
  <1>4. Looked(a, live[a])
    BY <1>2, <1>3, LookupsAre
  <1>5. CASE Test(t)
    <2>1. UNCHANGED ObjAddr /\ obj(t) = a /\ slot(t) = s
          /\ ~CopyEntry(t) /\ ~InTree(t) /\ ~Walk(t) /\ ~ReadType(t)
      BY <1>2, <1>5, CastObj DEF Test, mapVars, Looping, at, CopyEntry, InTree, Walk, ReadType
    <2>2. QED  BY <1>1, <1>2, <2>1 DEF Arrivals
  <1>6. CASE InTree(t)
    <2>1. /\ UNCHANGED ObjAddr /\ obj(t) = a /\ slot(t) = s /\ ObjAddr[s] # a
          /\ ~Test(t) /\ ~Walk(t) /\ ~ReadType(t)
      BY <1>2, <1>6, CastObj DEF InTree, Looping, at, Test, Walk, ReadType, Casting, Cast
    <2>2. InTreeAs(a, live[a])
      BY <1>4, <2>1 DEF Looked
    <2>3. ~treeEmpty(t)
      <3>1. HexTree[s] # None /\ HexTree[s][a] # None
        BY <2>2 DEF InTreeAs
      <3>2. EmptyTree[a] = None
        BY <1>3 DEF EmptyTree
      <3>3. QED  BY <2>1, <3>1, <3>2 DEF treeEmpty, tree
    <2>4. QED  BY <1>1, <1>2, <2>1, <2>3 DEF Arrivals
  <1>7. CASE Walk(t)
    <2>1. /\ call[t].at = "walk" /\ obj(t) = a /\ slot(t) = s /\ ObjAddr[s] # a
      BY <1>2, <1>7, CastObj DEF Walk, Looping, at, Casting, Cast
    <2>2. InTreeAs(a, live[a]) /\ s \notin wrecked
      BY <1>2, <1>4, <2>1 DEF Looked, Wrecks
    <2>3. foundInTree(t) = {HexTree[s][a]}
      BY <2>1, <2>2 DEF foundInTree, tree
    <2>4. call' = [call EXCEPT ![t].at = "return", ![t].type = live[a]]
      BY <1>2, <1>7, <2>2, <2>3 DEF Walk, InTreeAs
    <2>5. call'[t].at = "return" /\ call'[t].type = live[a]
      <3>1. call[t] \in Call /\ t \in DOMAIN call
        BY DEF TypeOK
      <3>2. QED  BY <2>4, <3>1 DEF Call
    <2>6. QED  BY <2>5
  <1>8. CASE ReadType(t)
    <2>1. /\ call[t].at = "read" /\ obj(t) = a /\ slot(t) = s /\ ObjAddr[s] = a
          /\ Working(t)
      BY <1>2, <1>8, CastObj DEF ReadType, Looping, at, Casting, Cast, Working
    <2>2. ~filling(s)
      <3>1. SUFFICES ASSUME NEW u \in Thread, at(u, "fill"), slot(u) = s PROVE FALSE
        BY DEF filling
      <3>2. Working(u) /\ call[u].op = "update" /\ u # t
        BY <2>1, <3>1 DEF Working, at, CallShape, Shape, Registering
      <3>3. QED  BY <1>2, <2>1, <3>1, <3>2 DEF Alone
    <2>3. info[s].FakeVPointer = live[a]
      BY <1>4, <2>1, <2>2 DEF Looked
    <2>4. call'[t].at = "return" /\ call'[t].type = live[a]
      BY <1>8, <2>1, <2>3, NextAt
    <2>5. QED  BY <2>4
  <1>9. CASE ~(Test(t) \/ InTree(t) \/ Walk(t) \/ ReadType(t))
    BY <1>1, <1>2, <1>3, <1>9 DEF Arrivals, CopyEntry, at, Shape, Registering
  <1>10. QED  BY <1>5, <1>6, <1>7, <1>8, <1>9

(* Every step keeps casts on their way.                                    *)
LEMMA CastingNext ==
  ASSUME TypeOK, CallShape, TreeThere, Blocks, Owners, Sized, Alone, Vacating, Lookups,
         Casting, Wrecks, [Next]_vars
  PROVE  Casting'
  <1>1. ASSUME NEW t \in Thread, Program(t) \/ Return(t), NEW u \in Thread
        PROVE  Cast(u)'
    <2>1. OtherCalls(t) /\ UNCHANGED <<mapVars, raced>> /\ reused \subseteq reused'
          /\ call'[t].at \in {"idle", "test", "size"}
      BY <1>1, ProgramFacts
    <2>2. CASE u = t
      BY <2>1, <2>2 DEF Cast, at
    <2>3. CASE u # t
      <3>1. call'[u] = call[u] /\ Cast(u) /\ at(u, "read")' = at(u, "read")
            /\ at(u, "return")' = at(u, "return")
        BY <2>1, <2>3, OthersSame DEF Casting, at
      <3>2. call[u].op = "cast" => live'[call[u].addr] = live[call[u].addr]
        <4>1. SUFFICES ASSUME call[u].op = "cast"
              PROVE  live'[call[u].addr] = live[call[u].addr]
          OBVIOUS
        <4>2. call[u].addr \in Addr /\ live[call[u].addr] # None
          BY <4>1, CastObj, NoneFresh
        <4>3. ASSUME NEW a \in Addr, NEW n \in ArraySizes, NEW f \in FakeVPtr,
                     Create(t, a, n, f)
              PROVE  live' = live
          BY <4>3, CreateFacts
        <4>4. ASSUME NEW a \in Addr, Release(t, a)
              PROVE  live'[call[u].addr] = live[call[u].addr]
          BY <4>1, <4>2, <4>4, ReleaseFacts
        <4>5. ASSUME NEW a \in Addr, CastObject(t, a)
              PROVE  live' = live
          BY <4>5, CastFacts DEF truth
        <4>6. ASSUME Return(t), call[t].op # "update"
              PROVE  live' = live
          BY <4>6, ReturnFacts
        <4>7. ASSUME Return(t), call[t].op = "update"
              PROVE  live'[call[u].addr] = live[call[u].addr]
          <5>1. call[u].addr \notin callElems(t)
            BY <4>2, <4>7, OwnBlock
          <5>2. QED  BY <4>2, <4>7, <5>1, ReturnFacts
        <4>8. QED  BY <1>1, <4>3, <4>4, <4>5, <4>6, <4>7 DEF Program
      <3>3. QED  BY <2>1, <3>1, <3>2 DEF Cast, mapVars
    <2>4. QED  BY <2>2, <2>3
  <1>2. ASSUME NEW t \in Thread, Step(t), call[t].at # "return", NEW u \in Thread
        PROVE  Cast(u)'
    BY <1>2, CastKept, CastGoes
  <1>3. CASE UNCHANGED vars
    BY <1>3 DEF vars, Casting, Cast, at
  <1>4. QED
    BY <1>1, <1>2, <1>3, ReturnOnly DEF Next, Casting

-----------------------------------------------------------------------------
(* The theorems.                                                           *)

(* In the beginning nothing is registered and nobody calls.                *)
LEMMA InitInv == Init => IInv
  <1> SUFFICES ASSUME Init PROVE IInv
    OBVIOUS
  <1>1. NullPtr \in Key /\ NoInfo \in Info /\ NoCall \in Call
    BY NoCallType DEF Key
  <1>2. \A t \in Thread : call[t] = NoCall
    BY DEF Init
  <1>3. \A t \in Thread : /\ call[t].op = "none" /\ call[t].at = "idle"
                          /\ call[t].addr = NullPtr
    <2>1. NoCall.op = "none" /\ NoCall.at = "idle" /\ NoCall.addr = NullPtr
      BY DEF NoCall
    <2>2. QED  BY <1>2, <2>1
  <1>4. TypeOK
    <2>1. ObjAddr \in [Slot -> Key] /\ info \in [Slot -> Info]
      BY <1>1 DEF Init
    <2>2. HexTree \in [Slot -> [Key -> Info \cup {None}] \cup {None}]
      BY DEF Init
    <2>3. call \in [Thread -> Call]
      BY <1>1 DEF Init
    <2>4. /\ block \in [Addr -> ArraySizes \cup {None}]
          /\ live \in [Addr -> FakeVPtr \cup {None}]
          /\ wrecked \subseteq Slot /\ raced \subseteq Slot /\ reused \subseteq Addr
      BY DEF Init
    <2>5. QED  BY <2>1, <2>2, <2>3, <2>4 DEF TypeOK
  <1>5. CallShape
    BY <1>3 DEF CallShape, Shape, Sizing, Registering, Looping
  <1>6. TreeThere /\ Sized /\ Alone /\ Vacating /\ Displacing /\ Casting
    BY <1>3 DEF TreeThere, Sized, Alone, Working, Vacating, Displacing, Displaced, Casting,
       Cast, at
  <1>7. Blocks /\ Owners
    BY <1>3 DEF Init, Blocks, Owners, Owned
  <1>8. Lookups
    <2>1. \A a \in Addr, f \in FakeVPtr : ~Registered(a, f)
      BY <1>3, NoneFresh DEF Init, Registered
    <2>2. QED  BY <2>1 DEF Lookups
  <1>9. Wrecks
    BY DEF Init, Wrecks
  <1>10. QED
    BY <1>4, <1>5, <1>6, <1>7, <1>8, <1>9 DEF IInv

(* Every step keeps the invariant.                                         *)
LEMMA NextInv == IInv /\ [Next]_vars => IInv'
  <1> SUFFICES ASSUME IInv, [Next]_vars PROVE IInv'
    OBVIOUS
  <1> USE DEF IInv
  <1>1. TypeOK' /\ CallShape' /\ TreeThere' /\ Wrecks'
    BY TypeNext
  <1>2. Blocks' /\ Owners'
    BY TruthNext
  <1>3. Sized' /\ Alone' /\ Vacating' /\ Displacing'
    BY SizedNext, AloneNext, VacatingNext, DisplacingNext
  <1>4. Lookups' /\ Casting'
    BY LookupsNext, CastingNext
  <1>5. QED  BY <1>1, <1>2, <1>3, <1>4

(* The invariant holds in every reachable state.                           *)
LEMMA Invariance == Spec => []IInv
  BY InitInv, NextInv, PTL DEF Spec

(* The invariant holds the properties.                                     *)
LEMMA InvLookups == IInv => LiveFound /\ CastFinds
  <1> SUFFICES ASSUME IInv PROVE LiveFound /\ CastFinds
    OBVIOUS
  <1> USE DEF IInv
  <1>1. ASSUME NEW a \in Addr, live[a] # None, getHash(a) \notin raced,
               ~registering(getHash(a)), a \notin reused
        PROVE  Found(a) /\ findObjInfo(a).FakeVPointer = live[a]
    <2>1. live[a] \in FakeVPtr
      BY <1>1 DEF TypeOK
    <2>2. Registered(a, live[a])
      BY DEF Registered
    <2>3. Looked(a, live[a])
      BY <1>1, <2>1, <2>2, LookupsAre
    <2>4. ~filling(getHash(a))
      BY <1>1 DEF filling, registering, at, Working, CallShape, Shape, Registering
    <2>5. QED  BY <2>3, <2>4 DEF Looked, InTreeAs, Found, findObjInfo
  <1>2. CastFinds
    BY DEF CastFinds, Casting, Cast
  <1>3. QED  BY <1>1, <1>2 DEF LiveFound

(* Values keep their types, whatever races.                                *)
THEOREM TypeCorrect == Spec => []TypeOK
  <1>1. IInv => TypeOK
    BY DEF IInv
  <1>2. QED  BY <1>1, Invariance, PTL

(* Threads that race in other slots, or only look or remove in this one,   *)
(* do not disturb the lookups of its live objects.                         *)
THEOREM LookupsCorrect == Spec => []LiveFound
  BY Invariance, InvLookups, PTL

(* The same for casts that are interrupted at any step.                    *)
THEOREM CastsCorrect == Spec => []CastFinds
  BY Invariance, InvLookups, PTL

-----------------------------------------------------------------------------
(* Nothing is kept of dead objects in slots in which no calls have raced.  *)

(* The loop over an array as long as a word never ends: elements that it   *)
(* has registered come again.                                              *)
Endless(t) == call[t].op = "update" /\ call[t].made >= Word32

(* A registration has filled the entry of a, or has begun to.              *)
Filled(t, a) ==
  /\ call[t].op = "update"
  /\ a \in callElems(t)
  /\ Endless(t) \/ a \in elems(call[t].addr, call[t].i) \/ (at(t, "fill") /\ a = obj(t))

(* A removal has yet to come to a.                                         *)
Awaits(t, a) ==
  call[t].op = "remove" /\ a \in callElems(t) \ elems(call[t].addr, call[t].i)

(* Why the map may have an entry of a.                                     *)
Known(a) == live[a] # None \/ \E t \in Thread : Filled(t, a) \/ Awaits(t, a)

(* An address of which the properties speak.                               *)
Sound(a) == a \in Addr \ reused /\ getHash(a) \notin raced

Entries == \A a \in Addr : Sound(a) /\ Found(a) => Known(a)

(* No address is both in a slot and in its tree, but while a registration  *)
(* is about to overwrite the slot.                                         *)
InBoth(a) ==
  LET s == getHash(a)
  IN ObjAddr[s] = a /\ HexTree[s] # None /\ HexTree[s][a] # None

Overwrites(t, s) == call[t].op = "update" /\ at(t, "write") /\ slot(t) = s

Once ==
  \A a \in Addr : Sound(a) /\ InBoth(a) =>
    \E t \in Thread : Overwrites(t, getHash(a)) \/ (Endless(t) /\ a \in callElems(t))

(* A removal knows where its object is not.                                *)
Removal(t) ==
  call[t].op = "remove" /\ slot(t) \notin raced /\ obj(t) \notin reused =>
    /\ at(t, "vacate") => tree(t) = None \/ tree(t)[obj(t)] = None
    /\ call[t].at \in {"inTree", "walk"} => ObjAddr[slot(t)] # obj(t)

Removing == \A t \in Thread : Removal(t)

(* A removal returns behind its last element.                              *)
Finished ==
  \A t \in Thread : call[t].op = "remove" /\ at(t, "return") => call[t].i >= call[t].n

FInv == Entries /\ Once /\ Removing /\ Finished
-----------------------------------------------------------------------------
(* How a step moves the loop of its call.                                  *)

(* The steps that end the treatment of an element.                         *)
Treated(t) ==
  \/ Fill(t) \/ Vacate(t)
  \/ InTree(t) /\ treeEmpty(t)
  \/ Walk(t) /\ call[t].op = "remove"

(* They advance the loop, and no other step does.                          *)
LEMMA LoopSteps ==
  ASSUME TypeOK, CallShape, TreeThere, NEW t \in Thread, Step(t), call[t].at # "return"
  PROVE  /\ Treated(t) => advance(t) /\ Looping(t) /\ call[t].i < Word32
         /\ ~Treated(t) =>
              /\ call'[t].i = call[t].i
              /\ call[t].op = "update" => ~(call'[t].at \in {"test", "return"})
              /\ call'[t].at = "return" => call[t].op = "cast"
  <1>1. call[t] \in Call /\ t \in DOMAIN call /\ Shape(t)
    BY DEF TypeOK, CallShape
  <1>2. ASSUME NEW step, go(t, step)
        PROVE  call'[t].i = call[t].i /\ call'[t].at = step
    BY <1>1, <1>2 DEF go, Call
  <1>3. ASSUME NEW n, takeSize(t, n)
        PROVE  call'[t].i = call[t].i /\ call'[t].at = "test"
    BY <1>1, <1>3 DEF takeSize, Call
  <1>4. ASSUME Treated(t)
        PROVE  advance(t) /\ Looping(t) /\ call[t].i < Word32
    BY <1>1, <1>4 DEF Treated, Fill, Vacate, InTree, Walk, at, Looping, Shape
  <1>5. CASE Size(t) \/ NoTree(t) \/ CreateTree(t) \/ Write(t)
    BY <1>1, <1>2, <1>4, <1>5 DEF Size, NoTree, CreateTree, Write, at, Shape, Sizing
  <1>6. CASE ReadSize(t) \/ WalkSize(t)
    BY <1>1, <1>3, <1>4, <1>6 DEF ReadSize, WalkSize, at, Shape, Sizing
  <1>7. CASE SizeInTree(t)
    BY <1>1, <1>2, <1>3, <1>4, <1>7 DEF SizeInTree, at, Shape, Sizing
  <1>8. CASE Test(t)
    <2>1. call[t].op \in {"update", "remove", "cast"}
      BY <1>1, <1>8 DEF Test, at, Shape, Call
    <2>2. PICK step \in {"write", "noTree", "vacate", "inTree", "read"} : go(t, step)
      BY <1>8, <2>1 DEF Test
    <2>3. QED  BY <1>2, <1>4, <2>2
  <1>9. CASE CopyEntry(t)
    BY <1>4, <1>9, CopyFacts
  <1>10. CASE Fill(t) \/ Vacate(t)
    BY <1>4, <1>10 DEF Treated
  <1>11. CASE InTree(t)
    BY <1>2, <1>4, <1>11 DEF Treated, InTree
  <1>12. CASE Walk(t)
    <2>1. CASE call[t].op = "update"
      BY <1>2, <1>4, <1>12, <2>1 DEF Walk
    <2>2. CASE call[t].op = "remove"
      BY <1>4, <1>12, <2>2 DEF Treated
    <2>3. CASE call[t].op = "cast"
      <3>1. PICK f : call' = [call EXCEPT ![t].at = "return", ![t].type = f]
        BY <1>12, <2>3 DEF Walk
      <3>2. call'[t].i = call[t].i
        BY <1>1, <3>1 DEF Call
      <3>3. QED  BY <1>4, <2>3, <3>2
    <2>4. QED  BY <1>12, <2>1, <2>2, <2>3 DEF Walk
  <1>13. CASE ReadType(t)
    <2>1. call'[t].i = call[t].i /\ call[t].op = "cast"
      BY <1>1, <1>13 DEF ReadType, at, Shape, Call
    <2>2. QED  BY <1>4, <2>1
  <1>14. CASE Return(t)
    BY <1>14 DEF Return, at
  <1>15. QED
    BY <1>5, <1>6, <1>7, <1>8, <1>9, <1>10, <1>11, <1>12, <1>13, <1>14 DEF Step

(* The counter goes to the next element, unless that is more than it       *)
(* counts.                                                                 *)
LEMMA NextCounter ==
  ASSUME TypeOK, NEW t \in Thread, advance(t), call[t].i + 1 < Word32
  PROVE  call'[t].i = call[t].i + 1
  <1>1. call[t].i \in Nat /\ call[t] \in Call /\ t \in DOMAIN call
    BY DEF TypeOK, Call
  <1>2. (call[t].i + 1) % Word32 = call[t].i + 1
    BY <1>1, SizeAssumption, Z3
  <1> DEFINE step == IF call[t].i + 1 < call[t].n THEN "test" ELSE "return"
  <1>3. call' = [call EXCEPT ![t].i = call[t].i + 1, ![t].copy = NoInfo,
                   ![t].key = NullPtr, ![t].at = step]
    BY <1>2 DEF advance
  <1> HIDE DEF step
  <1>4. QED  BY <1>1, <1>3 DEF Call

(* What a registration has filled stays filled.                            *)
LEMMA FilledStays ==
  ASSUME TypeOK, CallShape, TreeThere, NEW t \in Thread, Step(t), call[t].at # "return",
         NEW a \in Addr, Filled(t, a)
  PROVE  Filled(t, a)'
  <1>1. Frame(t) /\ SameCall(t) /\ Shape(t) /\ Shape(t)'
    BY StepFrame DEF Frame, CallShape
  <1>2. /\ call[t].op = "update" /\ a \in callElems(t)
        /\ call'[t].op = "update" /\ callElems(t)' = callElems(t)
        /\ call'[t].addr = call[t].addr /\ Endless(t)' = Endless(t)
    BY <1>1 DEF Filled, SameCall, callElems, Endless
  <1>3. CASE Endless(t)
    BY <1>2, <1>3 DEF Filled
  <1>4. CASE ~Endless(t) /\ Treated(t)
    <2>1. /\ advance(t) /\ Looping(t) /\ call[t].i \in Nat /\ call[t].n \in Nat
          /\ call[t].made \in Nat /\ call[t].addr \in Nat
      BY <1>4, LoopSteps, SlotOf
    <2>2. call[t].i < call[t].made /\ call[t].made < Word32
      BY <1>1, <1>2, <1>4, <2>1, SizeAssumption DEF Shape, Endless
    <2>3. call'[t].i = call[t].i + 1
      BY <2>1, <2>2, SizeAssumption, NextCounter
    <2>4. elems(call'[t].addr, call'[t].i) = elems(call[t].addr, call[t].i) \cup {obj(t)}
      BY <1>2, <2>1, <2>3, Elements DEF obj
    <2>5. a \in elems(call'[t].addr, call'[t].i)
      BY <1>4, <2>4 DEF Filled
    <2>6. QED  BY <1>2, <2>5 DEF Filled
  <1>5. CASE ~Endless(t) /\ ~Treated(t)
    <2>1. call'[t].i = call[t].i
      BY <1>5, LoopSteps
    <2>2. ~at(t, "fill")
      BY <1>5 DEF Treated, Step, at, Size, ReadSize, SizeInTree, WalkSize, Test, NoTree,
         CreateTree, CopyEntry, Write, Vacate, InTree, Walk, ReadType, Return
    <2>3. QED  BY <1>2, <1>5, <2>1, <2>2 DEF Filled
  <1>6. QED  BY <1>3, <1>4, <1>5

(* A removal goes past an element only when it has treated it.             *)
LEMMA AwaitsStays ==
  ASSUME TypeOK, CallShape, TreeThere, NEW t \in Thread, Step(t), call[t].at # "return",
         NEW a \in Addr, Awaits(t, a)
  PROVE  Awaits(t, a)' \/ (Treated(t) /\ a = obj(t))
  <1>1. /\ call'[t].op = "remove" /\ callElems(t)' = callElems(t)
        /\ call'[t].addr = call[t].addr
    BY StepFrame DEF Frame, SameCall, callElems, Awaits
  <1>2. CASE ~Treated(t)
    BY <1>1, <1>2, LoopSteps DEF Awaits
  <1>3. CASE Treated(t)
    <2>1. /\ call[t].i \in Nat /\ call[t].addr \in Nat
          /\ call'[t].i \in {0, call[t].i + 1}
      BY <1>3, LoopSteps, AdvanceFacts, SlotOf
    <2>2. elems(call'[t].addr, call'[t].i) \subseteq
            elems(call[t].addr, call[t].i) \cup {obj(t)}
      BY <1>1, <2>1, NextElement DEF obj
    <2>3. QED  BY <1>1, <1>3, <2>2 DEF Awaits
  <1>4. QED  BY <1>2, <1>3

(* Calls of other threads keep what they have filled and what awaits them. *)
LEMMA OthersKnow ==
  ASSUME NEW t \in Thread, OtherCalls(t), NEW u \in Thread, u # t, NEW a
  PROVE  /\ Filled(u, a)' = Filled(u, a) /\ Awaits(u, a)' = Awaits(u, a)
         /\ Endless(u)' = Endless(u) /\ callElems(u)' = callElems(u)
         /\ \A s : Overwrites(u, s)' = Overwrites(u, s)
         /\ at(u, "vacate")' = at(u, "vacate") /\ at(u, "return")' = at(u, "return")
  BY OthersSame DEF Filled, Awaits, Endless, Overwrites, at

-----------------------------------------------------------------------------
(* Entries: whatever is found is known.                                    *)

(* Only a registration brings an address to its slot.                      *)
LEMMA FoundStep ==
  ASSUME TypeOK, CallShape, TreeThere, Displacing, NEW t \in Thread, Step(t),
         call[t].at # "return", NEW a \in Addr, Sound(a), Found(a)'
  PROVE  Found(a) \/ (Write(t) /\ a = obj(t))
  <1> DEFINE s == getHash(a)
  <1>1. /\ s \in Slot /\ a \in Key /\ a # NullPtr /\ s \notin raced
        /\ slot(t) \in Slot /\ Shape(t) /\ EmptyTree[a] = None
    BY SizeAssumption, HashSlot, SlotOf DEF Key, NullPtr, Sound, CallShape, EmptyTree
  <1>2. ObjAddr'[s] = a \/ (HexTree'[s] # None /\ HexTree'[s][a] # None)
    BY DEF Found
  <1>3. SUFFICES ObjAddr'[s] = a \/ (HexTree'[s] # None /\ HexTree'[s][a] # None)
                 => \/ ObjAddr[s] = a
                    \/ HexTree[s] # None /\ HexTree[s][a] # None
                    \/ Write(t) /\ a = obj(t)
    BY <1>2 DEF Found
  <1>4. CASE s # slot(t) \/ ~Working(t)
    BY <1>1, <1>4, Untouched
  <1>5. CASE s = slot(t) /\ call[t].op # "update"
    <2>1. ObjAddr'[s] = a => ObjAddr[s] = a
      BY <1>1, <1>5, OthersWrites
    <2>2. CASE HexTree'[s] = HexTree[s]
      BY <2>1, <2>2
    <2>3. CASE Walk(t) /\ HexTree' = [HexTree EXCEPT ![slot(t)][obj(t)] = None]
      <3>1. HexTree[s] # None
        BY <1>5, <2>3 DEF TreeThere, Walk, at
      <3>2. HexTree[s] \in [Key -> Info \cup {None}] /\ s \in DOMAIN HexTree
        BY <1>1, <3>1 DEF TypeOK
      <3>3. HexTree'[s][a] # None => HexTree[s][a] # None
        BY <1>1, <1>5, <2>3, <3>2
      <3>4. QED  BY <2>1, <3>1, <3>3
    <2>4. QED  BY <1>1, <1>5, <2>2, <2>3, OthersWrites
  <1>6. CASE s = slot(t) /\ call[t].op = "update" /\ Working(t)
    <2>1. CASE Test(t) \/ NoTree(t) \/ CopyEntry(t) \/ Fill(t)
      BY <2>1 DEF Test, NoTree, CopyEntry, Fill, mapVars
    <2>2. CASE CreateTree(t)
      <3>1. ObjAddr' = ObjAddr /\ HexTree' = [HexTree EXCEPT ![slot(t)] = EmptyTree]
        BY <2>2 DEF CreateTree
      <3>2. HexTree'[s] = EmptyTree
        BY <1>1, <1>6, <3>1 DEF TypeOK
      <3>3. QED  BY <1>1, <3>1, <3>2
    <2>3. CASE Write(t)
      <3>1. ObjAddr'[s] = obj(t) /\ HexTree' = HexTree
        BY <1>1, <1>6, <2>3 DEF Write, TypeOK
      <3>2. QED  BY <2>3, <3>1
    <2>4. CASE Walk(t)
      <3>1. /\ HexTree' = [HexTree EXCEPT ![slot(t)][call[t].key] = call[t].copy]
            /\ ObjAddr' = ObjAddr /\ HexTree[s] # None /\ call[t].key = ObjAddr[s]
        BY <1>1, <1>6, <2>4 DEF Walk, TreeThere, at, Displacing, Displaced
      <3>2. HexTree[s] \in [Key -> Info \cup {None}] /\ s \in DOMAIN HexTree
        BY <1>1, <3>1 DEF TypeOK
      <3>3. HexTree'[s][a] # None => HexTree[s][a] # None \/ a = ObjAddr[s]
        BY <1>1, <1>6, <3>1, <3>2
      <3>4. QED  BY <3>1, <3>3
    <2>5. CASE Size(t) \/ ReadSize(t) \/ SizeInTree(t) \/ WalkSize(t) \/ Vacate(t)
               \/ InTree(t) \/ ReadType(t) \/ Return(t)
      BY <1>1, <1>6, <2>5 DEF Size, ReadSize, SizeInTree, WalkSize, Vacate, InTree, ReadType,
         Return, at, Shape, Sizing
    <2>6. QED  BY <2>1, <2>2, <2>3, <2>4, <2>5 DEF Step
  <1>7. QED  BY <1>4, <1>5, <1>6

(* What is known stays known, until its removal has treated it.            *)
LEMMA KnownStays ==
  ASSUME TypeOK, CallShape, TreeThere, NEW t \in Thread, Step(t), call[t].at # "return",
         NEW a \in Addr, Known(a)
  PROVE  Known(a)' \/ (call[t].op = "remove" /\ Treated(t) /\ a = obj(t))
  <1>1. OtherCalls(t) /\ live' = live
    BY StepFrame DEF Frame, truth
  <1>2. CASE live[a] # None
    BY <1>1, <1>2 DEF Known
  <1>3. ASSUME NEW u \in Thread, Filled(u, a)
        PROVE  Filled(u, a)'
    BY <1>1, <1>3, FilledStays, OthersKnow
  <1>4. ASSUME NEW u \in Thread, Awaits(u, a)
        PROVE  Awaits(u, a)' \/ (call[t].op = "remove" /\ Treated(t) /\ a = obj(t))
    BY <1>1, <1>4, AwaitsStays, OthersKnow DEF Awaits
  <1>5. QED  BY <1>2, <1>3, <1>4 DEF Known

(* What a removal has treated is not found.                                *)
LEMMA TreatedGone ==
  ASSUME TypeOK, CallShape, TreeThere, Removing, NEW t \in Thread, Step(t),
         call[t].at # "return", call[t].op = "remove", Treated(t),
         NEW a \in Addr, a = obj(t), Sound(a)
  PROVE  ~Found(a)'
  <1> DEFINE s == getHash(a)
  <1>1. /\ a \in Addr /\ a \in Key /\ a # NullPtr /\ s \in Slot /\ s \notin raced
        /\ a \notin reused /\ slot(t) = s /\ EmptyTree[a] = None
    BY SizeAssumption, SlotOf DEF Key, NullPtr, Sound, slot, EmptyTree
  <1>2. Removal(t)
    BY DEF Removing
  <1>3. SUFFICES ObjAddr'[s] # a /\ (HexTree'[s] = None \/ HexTree'[s][a] = None)
    <2>1. Found(a)' <=> ObjAddr'[s] = a \/ (HexTree'[s] # None /\ HexTree'[s][a] # None)
      BY <1>1 DEF Found
    <2>2. QED  BY <2>1
  <1>4. CASE Vacate(t)
    <2>1. tree(t) = None \/ tree(t)[a] = None
      BY <1>1, <1>2, <1>4 DEF Removal, Vacate
    <2>2. ObjAddr' = [ObjAddr EXCEPT ![s] = NullPtr] /\ HexTree' = HexTree
      BY <1>1, <1>4 DEF Vacate
    <2>3. QED  BY <1>1, <2>1, <2>2 DEF tree, TypeOK
  <1>5. CASE InTree(t) /\ treeEmpty(t)
    <2>1. ObjAddr[s] # a
      BY <1>1, <1>2, <1>5 DEF Removal, InTree, at
    <2>2. QED  BY <1>1, <1>5, <2>1 DEF InTree, treeEmpty, tree
  <1>6. CASE Walk(t)
    <2>1. ObjAddr[s] # a /\ HexTree[s] # None
      BY <1>1, <1>2, <1>6 DEF Removal, Walk, at, TreeThere
    <2>2. ObjAddr' = ObjAddr /\ HexTree' = [HexTree EXCEPT ![s][a] = None]
      BY <1>1, <1>6 DEF Walk
    <2>3. HexTree[s] \in [Key -> Info \cup {None}] /\ s \in DOMAIN HexTree
      BY <1>1, <2>1 DEF TypeOK
    <2>4. QED  BY <1>1, <2>1, <2>2, <2>3
  <1>7. CASE Fill(t)
    BY <1>7 DEF Fill, at, CallShape, Shape, Registering
  <1>8. QED  BY <1>4, <1>5, <1>6, <1>7 DEF Treated

(* Every step keeps the entries of what is known.                          *)
LEMMA EntriesNext ==
  ASSUME IInv, FInv, [Next]_vars
  PROVE  Entries'
  <1> USE DEF IInv, FInv
  <1>1. ASSUME NEW t \in Thread, Program(t) \/ Return(t), NEW a \in Addr,
               Sound(a)', Found(a)'
        PROVE  Known(a)'
    <2>1. /\ OtherCalls(t) /\ UNCHANGED <<mapVars, raced>> /\ reused \subseteq reused'
          /\ call[t].at \in {"idle", "return"}
      BY <1>1, ProgramFacts
    <2>2. Known(a) /\ getHash(a) \notin raced
      BY <1>1, <2>1 DEF Entries, Sound, Found, mapVars
    <2>3. ASSUME live[a] # None
          PROVE  live'[a] # None \/ Awaits(t, a)'
      <3>1. ASSUME NEW b \in Addr, NEW n \in ArraySizes, NEW f \in FakeVPtr,
                   Create(t, b, n, f)
            PROVE  live'[a] # None
        BY <2>3, <3>1, CreateFacts
      <3>2. ASSUME NEW b \in Addr, Release(t, b)
            PROVE  live'[a] # None \/ Awaits(t, a)'
        <4>1. /\ call'[t].op = "remove" /\ callElems(t)' = blockElems(b) /\ call'[t].i = 0
              /\ call'[t].addr = b
              /\ live' = [e \in Addr |-> IF e \in blockElems(b) THEN None ELSE live[e]]
          BY <3>2, ReleaseFacts
        <4>2. elems(call'[t].addr, call'[t].i) = {}
          BY <4>1, SizeAssumption, Elements
        <4>3. QED  BY <2>3, <4>1, <4>2 DEF Awaits
      <3>3. ASSUME NEW b \in Addr, CastObject(t, b)
            PROVE  live'[a] # None
        BY <2>3, <3>3, CastFacts DEF truth
      <3>4. ASSUME Return(t)
            PROVE  live'[a] # None
        <4>1. call[t].op = "update" => call[t].type # None
          BY NoneFresh DEF CallShape, Shape
        <4>2. QED  BY <2>3, <3>4, <4>1, ReturnFacts
      <3>5. QED  BY <1>1, <3>1, <3>2, <3>3, <3>4 DEF Program
    <2>4. ASSUME call[t].op # "none"
          PROVE  Return(t) /\ at(t, "return") /\ Shape(t)
      BY <1>1, <2>4 DEF Program, Create, Release, CastObject, Return, at, CallShape
    <2>5. ASSUME Filled(t, a)
          PROVE  live'[a] # None
      <3>1. /\ call[t].op = "update" /\ a \in callElems(t) /\ call[t].type # None
            /\ Return(t)
        BY <2>4, <2>5, NoneFresh DEF Filled, Shape
      <3>2. QED  BY <3>1, ReturnFacts
    <2>6. ASSUME Awaits(t, a)
          PROVE  FALSE
      <3>1. call[t].op = "remove" /\ call[t].at = "return"
        BY <2>4, <2>6 DEF Awaits, at
      <3>2. raced # Slot
        BY <2>2, HashSlot, SizeAssumption
      <3>3. call[t].i >= call[t].n /\ call[t].n = call[t].made
        BY <3>1, <3>2 DEF Finished, at, Sized, Sizing
      <3>4. callElems(t) \subseteq elems(call[t].addr, call[t].i)
        <4>1. call[t].made \in Nat /\ call[t].i \in Nat /\ call[t].addr \in Nat
          BY SlotOf
        <4>2. call[t].made <= call[t].i
          BY <3>3, <4>1
        <4>3. elems(call[t].addr, call[t].made) \subseteq elems(call[t].addr, call[t].i)
          BY <4>1, <4>2, Elements
        <4>4. QED  BY <4>3 DEF callElems
      <3>5. QED  BY <2>6, <3>4 DEF Awaits
    <2>7. ASSUME NEW u \in Thread, u # t, Filled(u, a) \/ Awaits(u, a)
          PROVE  Filled(u, a)' \/ Awaits(u, a)'
      BY <2>1, <2>7, OthersKnow
    <2>8. QED  BY <2>2, <2>3, <2>5, <2>6, <2>7 DEF Known
  <1>2. ASSUME NEW t \in Thread, Step(t), call[t].at # "return", NEW a \in Addr,
               Sound(a)', Found(a)'
        PROVE  Known(a)'
    <2>1. Frame(t) /\ Entry(t) /\ SameCall(t) /\ Arrivals(t) /\ Sound(a)
      BY <1>2, StepFrame, StepArrivals DEF Frame, truth, Sound
    <2>2. CASE Found(a)
      <3>1. Known(a)
        BY <2>1, <2>2 DEF Entries
      <3>2. ~(call[t].op = "remove" /\ Treated(t) /\ a = obj(t))
        BY <1>2, <2>1, TreatedGone
      <3>3. QED  BY <1>2, <3>1, <3>2, KnownStays
    <2>3. CASE Write(t) /\ a = obj(t)
      <3>1. /\ call[t].op = "update" /\ Looping(t)
        BY <2>3 DEF Write, at, CallShape, Shape, Registering, Looping
      <3>2. call'[t].at = "fill"
        BY <2>3, NextAt DEF Write
      <3>3. a \in callElems(t) /\ obj(t)' = obj(t)
        BY <2>1, <2>3, <3>1, <3>2, RegisteredOwn, SlotSame DEF Working
      <3>4. Filled(t, a)'
        BY <2>1, <2>3, <3>1, <3>2, <3>3 DEF Filled, SameCall, callElems, at
      <3>5. QED  BY <3>4 DEF Known
    <2>4. QED  BY <1>2, <2>1, <2>2, <2>3, FoundStep
  <1>3. CASE UNCHANGED vars
    BY <1>3 DEF vars, Entries, Sound, Found, Known, Filled, Awaits, Endless, callElems, at, obj
  <1>4. QED
    BY <1>1, <1>2, <1>3, ReturnOnly DEF Next, Entries

-----------------------------------------------------------------------------
(* No address is in both places.                                           *)

(* Only a registration leaves an address in both: one that is about to     *)
(* overwrite the slot, or one that has overwritten it.                     *)
LEMMA BothStep ==
  ASSUME TypeOK, CallShape, TreeThere, NEW t \in Thread, Step(t), call[t].at # "return",
         NEW a \in Addr, InBoth(a)'
  PROVE  \/ InBoth(a) /\ (ObjAddr' = ObjAddr \/ getHash(a) # slot(t))
         \/ Write(t) /\ a = obj(t) /\ Found(a) /\ call[t].op = "update"
         \/ Walk(t) /\ call[t].op = "update" /\ getHash(a) = slot(t)
  <1> DEFINE s == getHash(a)
  <1>1. /\ s \in Slot /\ a \in Key /\ a # NullPtr
        /\ slot(t) \in Slot /\ Shape(t) /\ EmptyTree[a] = None
    BY SizeAssumption, HashSlot, SlotOf DEF Key, NullPtr, CallShape, EmptyTree
  <1>2. ObjAddr'[s] = a /\ HexTree'[s] # None /\ HexTree'[s][a] # None
    BY DEF InBoth
  <1>3. CASE s # slot(t)
    BY <1>1, <1>2, <1>3, Untouched DEF InBoth
  <1>4. CASE s = slot(t) /\ UNCHANGED <<ObjAddr, HexTree>>
    BY <1>2, <1>4 DEF InBoth
  <1>5. CASE s = slot(t) /\ Vacate(t)
    <2>1. ObjAddr'[s] = NullPtr
      BY <1>1, <1>5 DEF Vacate, TypeOK
    <2>2. QED  BY <1>1, <1>2, <2>1
  <1>6. CASE s = slot(t) /\ CreateTree(t)
    <2>1. HexTree'[s] = EmptyTree
      BY <1>1, <1>6 DEF CreateTree, TypeOK
    <2>2. QED  BY <1>1, <1>2, <2>1
  <1>7. CASE s = slot(t) /\ Write(t)
    <2>1. ObjAddr'[s] = obj(t) /\ HexTree' = HexTree
      BY <1>1, <1>7 DEF Write, TypeOK
    <2>2. QED  BY <1>1, <1>2, <1>7, <2>1 DEF Found, Write, at, Shape, Registering
  <1>8. CASE s = slot(t) /\ Walk(t) /\ call[t].op = "remove"
    <2>1. /\ ObjAddr' = ObjAddr /\ HexTree[s] # None
          /\ HexTree' = [HexTree EXCEPT ![slot(t)][obj(t)] = None]
      BY <1>8 DEF Walk, TreeThere, at
    <2>2. HexTree[s] \in [Key -> Info \cup {None}] /\ s \in DOMAIN HexTree
      BY <1>1, <2>1 DEF TypeOK
    <2>3. HexTree[s][a] # None
      BY <1>1, <1>2, <1>8, <2>1, <2>2
    <2>4. QED  BY <1>2, <2>1, <2>3 DEF InBoth
  <1>9. QED
    BY <1>3, <1>4, <1>5, <1>6, <1>7, <1>8 DEF Step, Size, ReadSize, SizeInTree, WalkSize,
       Test, NoTree, CopyEntry, Fill, InTree, Walk, ReadType, Return, mapVars, at

(* A registration that overwrites a slot with what is found already is on  *)
(* its way round again.                                                    *)
LEMMA WriteAgain ==
  ASSUME TypeOK, CallShape, Blocks, Owners, Entries, NEW t \in Thread, Write(t),
         NEW a \in Addr, a = obj(t), Sound(a), Found(a)
  PROVE  Endless(t) /\ a \in callElems(t)
  <1>1. call[t].op = "update" /\ Looping(t) /\ call[t].at = "write"
    BY DEF Write, at, CallShape, Shape, Registering, Looping
  <1>2. a \in callElems(t) /\ a \notin elems(call[t].addr, call[t].i)
    BY <1>1, RegisteredOwn
  <1>3. live[a] = None /\ InBlock(a)
    BY <1>1, <1>2, OwnBlock
  <1>4. \A u \in Thread : ~Awaits(u, a)
    BY <1>3 DEF Awaits, Owners, Owned, Sound
  <1>5. \A u \in Thread \ {t} : ~Filled(u, a)
    BY <1>1, <1>2 DEF Filled, Owners
  <1>6. Filled(t, a)
    BY <1>3, <1>4, <1>5 DEF Entries, Known
  <1>7. QED  BY <1>1, <1>2, <1>6 DEF Filled, at

(* Every step keeps addresses out of both places.                          *)
LEMMA OnceNext ==
  ASSUME IInv, FInv, [Next]_vars
  PROVE  Once'
  <1> USE DEF IInv, FInv
  <1> DEFINE Witness(t, a) ==
        Overwrites(t, getHash(a)) \/ (Endless(t) /\ a \in callElems(t))
  <1>1. ASSUME NEW t \in Thread, Program(t) \/ Return(t), NEW a \in Addr,
               Sound(a)', InBoth(a)'
        PROVE  \E u \in Thread : Witness(u, a)'
    <2>1. /\ OtherCalls(t) /\ UNCHANGED <<mapVars, raced>> /\ reused \subseteq reused'
          /\ call[t].at \in {"idle", "return"}
      BY <1>1, ProgramFacts
    <2>2. PICK u \in Thread : Witness(u, a)
      BY <1>1, <2>1 DEF Once, Sound, InBoth, mapVars
    <2>3. u # t
      <3>1. ~Overwrites(t, getHash(a))
        BY <2>1 DEF Overwrites, at
      <3>2. ~Endless(t)
        <4>1. SUFFICES ASSUME call[t].op = "update", call[t].made >= Word32
              PROVE  FALSE
          BY DEF Endless
        <4>2. call[t].i = call[t].n /\ call[t].n = call[t].made /\ call[t].i < Word32
          BY <2>1, <4>1 DEF CallShape, Shape
        <4>3. call[t].made \in Nat /\ Word32 \in Nat
          BY SizeAssumption, SlotOf
        <4>4. QED  BY <4>1, <4>2, <4>3
      <3>3. QED  BY <2>2, <3>1, <3>2
    <2>4. QED  BY <2>1, <2>2, <2>3, OthersKnow
  <1>2. ASSUME NEW t \in Thread, Step(t), call[t].at # "return", NEW a \in Addr,
               Sound(a)', InBoth(a)'
        PROVE  \E u \in Thread : Witness(u, a)'
    <2>1. Frame(t) /\ Entry(t) /\ SameCall(t) /\ OtherCalls(t) /\ Sound(a)
      BY <1>2, StepFrame DEF Frame, truth, Sound
    <2>2. ASSUME NEW u \in Thread, Endless(u), a \in callElems(u)
          PROVE  Witness(u, a)'
      <3>1. CASE u = t
        BY <2>1, <2>2, <3>1 DEF Endless, SameCall, callElems
      <3>2. CASE u # t
        BY <2>1, <2>2, <3>2, OthersKnow
      <3>3. QED  BY <3>1, <3>2
    <2>3. CASE Write(t) /\ a = obj(t) /\ Found(a)
      BY <2>1, <2>2, <2>3, WriteAgain
    <2>4. CASE Walk(t) /\ call[t].op = "update" /\ getHash(a) = slot(t)
      <3>1. call'[t].at = "write" /\ call'[t].op = "update"
        BY <2>1, <2>4, NextAt DEF Walk, SameCall
      <3>2. slot(t)' = slot(t)
        BY <2>1, <3>1, SlotSame DEF Working
      <3>3. QED  BY <2>4, <3>1, <3>2 DEF Overwrites, at
    <2>5. CASE InBoth(a) /\ (ObjAddr' = ObjAddr \/ getHash(a) # slot(t))
      <3>1. PICK u \in Thread : Witness(u, a)
        BY <2>1, <2>5 DEF Once
      <3>2. CASE Endless(u) /\ a \in callElems(u)
        BY <2>2, <3>2
      <3>3. CASE Overwrites(u, getHash(a)) /\ u # t
        BY <2>1, <3>3, OthersKnow
      <3>4. CASE Overwrites(t, getHash(a))
        <4>1. Write(t) /\ slot(t) = getHash(a) /\ slot(t) \in Slot
          BY <1>2, <3>4, SlotOf DEF Overwrites, Step, at, Size, ReadSize, SizeInTree, WalkSize,
             Test, NoTree, CreateTree, CopyEntry, Fill, Vacate, InTree, Walk, ReadType, Return
        <4>2. ObjAddr'[getHash(a)] = obj(t)
          BY <4>1 DEF Write, TypeOK
        <4>3. a = obj(t) /\ Found(a)
          BY <1>2, <2>5, <4>2 DEF InBoth, Found
        <4>4. QED  BY <2>3, <4>1, <4>3
      <3>5. QED  BY <3>1, <3>2, <3>3, <3>4
    <2>6. QED  BY <1>2, <2>3, <2>4, <2>5, BothStep
  <1>3. CASE UNCHANGED vars
    BY <1>3 DEF vars, Once, Sound, InBoth, Overwrites, Endless, callElems, at, slot, obj
  <1>4. QED
    BY <1>1, <1>2, <1>3, ReturnOnly DEF Next, Once

-----------------------------------------------------------------------------
(* What removals know.                                                     *)

(* A removal that finds its object in the slot will not leave it in the    *)
(* tree.                                                                   *)
LEMMA VacateBoth ==
  ASSUME IInv, FInv, NEW t \in Thread, Test(t), call[t].op = "remove",
         ObjAddr[slot(t)] = obj(t), slot(t) \notin raced', raced \subseteq raced',
         obj(t) \notin reused
  PROVE  tree(t) = None \/ tree(t)[obj(t)] = None
  <1> USE DEF IInv, FInv
  <1>1. Looping(t) /\ slot(t) \in Slot
    BY SlotOf DEF Test, at, Looping
  <1>2. obj(t) \in Addr /\ ~InBlock(obj(t))
    BY <1>1, RemovedGone
  <1>3. SUFFICES ASSUME tree(t) # None, tree(t)[obj(t)] # None
        PROVE  FALSE
    OBVIOUS
  <1>4. Sound(obj(t)) /\ InBoth(obj(t))
    BY <1>2, <1>3 DEF Sound, InBoth, tree, slot
  <1>5. PICK u \in Thread : \/ Overwrites(u, slot(t))
                            \/ Endless(u) /\ obj(t) \in callElems(u)
    BY <1>2, <1>4 DEF Once, slot
  <1>6. CASE Overwrites(u, slot(t))
    <2>1. u # t /\ Working(u) /\ slot(u) = slot(t) /\ call[u].op = "update"
      BY <1>6 DEF Overwrites, Working, at
    <2>2. meets(t)
      BY <2>1 DEF meets
    <2>3. QED  BY <2>2 DEF Test, enter
  <1>7. CASE Endless(u) /\ obj(t) \in callElems(u)
    BY <1>2, <1>7, OwnBlock DEF Endless
  <1>8. QED  BY <1>5, <1>6, <1>7

(* Every step keeps what removals know.                                    *)
LEMMA RemovingNext ==
  ASSUME IInv, FInv, [Next]_vars
  PROVE  Removing'
  <1> USE DEF IInv, FInv
  <1>1. ASSUME NEW t \in Thread, Program(t) \/ Return(t), NEW u \in Thread
        PROVE  Removal(u)'
    <2>1. /\ OtherCalls(t) /\ UNCHANGED <<mapVars, raced>> /\ reused \subseteq reused'
          /\ call'[t].at \in {"idle", "test", "size"}
      BY <1>1, ProgramFacts
    <2>2. CASE u = t
      BY <2>1, <2>2 DEF Removal, at
    <2>3. CASE u # t
      <3>1. Removal(u) /\ call'[u] = call[u] /\ slot(u)' = slot(u) /\ obj(u)' = obj(u)
            /\ tree(u)' = tree(u) /\ at(u, "vacate")' = at(u, "vacate")
        BY <2>1, <2>3, OthersSame DEF Removing, tree, mapVars, at
      <3>2. QED  BY <2>1, <3>1 DEF Removal, mapVars
    <2>4. QED  BY <2>2, <2>3
  <1>2. ASSUME NEW t \in Thread, Step(t), call[t].at # "return", Working(t)',
               call'[t].op = "remove", slot(t)' \notin raced', obj(t)' \notin reused'
        PROVE  Removal(t)'
    <2>1. /\ Frame(t) /\ Entry(t) /\ SameCall(t) /\ Arrivals(t) /\ Shape(t)
          /\ raced \subseteq raced' /\ reused' = reused
      BY <1>2, StepFrame, StepArrivals DEF Frame, truth, CallShape
    <2>2. /\ slot(t)' = slot(t) /\ obj(t)' = obj(t) /\ call[t].op = "remove"
          /\ slot(t) \notin raced' /\ obj(t) \notin reused
      BY <1>2, <2>1, SlotSame DEF SameCall
    <2>3. CASE call'[t].at = "vacate"
      <3>1. Test(t) /\ ObjAddr[slot(t)] = obj(t) /\ UNCHANGED HexTree
        BY <2>1, <2>3 DEF Arrivals, Test, mapVars
      <3>2. tree(t) = None \/ tree(t)[obj(t)] = None
        BY <2>1, <2>2, <3>1, VacateBoth
      <3>3. tree(t)' = tree(t)
        BY <2>2, <3>1 DEF tree
      <3>4. QED  BY <2>2, <2>3, <3>2, <3>3 DEF Removal
    <2>4. CASE call'[t].at = "inTree"
      <3>1. ObjAddr[slot(t)] # obj(t) /\ UNCHANGED ObjAddr
        BY <2>1, <2>4 DEF Arrivals, Test, mapVars
      <3>2. QED  BY <2>2, <2>4, <3>1 DEF Removal, at
    <2>5. CASE call'[t].at = "walk"
      <3>1. InTree(t)
        BY <2>1, <2>2, <2>5 DEF Arrivals, CopyEntry, at, Shape, Registering
      <3>2. ObjAddr[slot(t)] # obj(t) /\ UNCHANGED ObjAddr
        BY <2>1, <2>2, <3>1 DEF InTree, at, Removing, Removal
      <3>3. QED  BY <2>2, <2>5, <3>2 DEF Removal, at
    <2>6. QED  BY <2>3, <2>4, <2>5 DEF Removal, at
  <1>3. ASSUME NEW t \in Thread, Step(t), call[t].at # "return", NEW u \in Thread, u # t,
               call'[u].op = "remove", slot(u)' \notin raced', obj(u)' \notin reused'
        PROVE  Removal(u)'
    <2>1. /\ OtherCalls(t) /\ raced \subseteq raced' /\ reused' = reused
      BY <1>3, StepFrame DEF Frame, truth
    <2>2. /\ call'[u] = call[u] /\ slot(u)' = slot(u) /\ obj(u)' = obj(u)
          /\ slot(u) \notin raced /\ obj(u) \notin reused /\ call[u].op = "remove"
          /\ slot(u) \in Slot /\ Removal(u)
      BY <1>3, <2>1, OthersSame, SlotOf DEF Removing
    <2>3. SUFFICES ASSUME call[u].at \in {"vacate", "inTree", "walk"}
          PROVE  /\ call[u].at = "vacate" =>
                      HexTree'[slot(u)] = None \/ HexTree'[slot(u)][obj(u)] = None
                 /\ call[u].at \in {"inTree", "walk"} => ObjAddr'[slot(u)] # obj(u)
      BY <2>2 DEF Removal, at, tree
    <2>4. /\ call[u].at = "vacate" =>
               HexTree[slot(u)] = None \/ HexTree[slot(u)][obj(u)] = None
          /\ call[u].at \in {"inTree", "walk"} => ObjAddr[slot(u)] # obj(u)
      BY <2>2 DEF Removal, at, tree
    <2>5. Looping(u) /\ Working(u)
      BY <2>3 DEF Looping, Working
    <2>6. obj(u) \in Key /\ obj(u) # NullPtr
      BY <2>2, <2>5, RemovedGone, SizeAssumption DEF Key, NullPtr
    <2>7. CASE slot(t) # slot(u) \/ ~Working(t)
      BY <1>3, <2>2, <2>4, <2>7, Untouched
    <2>8. CASE slot(t) = slot(u) /\ Working(t)
      <3>1. call[t].op # "update"
        BY <1>3, <2>2, <2>5, <2>8 DEF Alone
      <3>2. ObjAddr'[slot(u)] \in {ObjAddr[slot(u)], NullPtr}
        BY <1>3, <2>2, <3>1, OthersWrites
      <3>3. CASE HexTree'[slot(u)] = HexTree[slot(u)]
        BY <2>4, <2>6, <3>2, <3>3
      <3>4. CASE Walk(t) /\ HexTree' = [HexTree EXCEPT ![slot(t)][obj(t)] = None]
        <4>1. HexTree[slot(u)] # None
          BY <2>8, <3>4 DEF Walk, at, TreeThere
        <4>2. HexTree[slot(u)] \in [Key -> Info \cup {None}] /\ slot(u) \in DOMAIN HexTree
          BY <2>2, <4>1 DEF TypeOK
        <4>3. call[u].at = "vacate" => HexTree'[slot(u)][obj(u)] = None
          BY <2>4, <2>6, <2>8, <3>4, <4>1, <4>2
        <4>4. QED  BY <2>4, <2>6, <3>2, <4>3
      <3>5. QED  BY <1>3, <2>2, <3>1, <3>3, <3>4, OthersWrites
    <2>9. QED  BY <2>7, <2>8
  <1>4. ASSUME NEW t \in Thread, Step(t), call[t].at # "return", NEW u \in Thread
        PROVE  Removal(u)'
    <2>1. CASE /\ call'[u].op = "remove" /\ slot(u)' \notin raced'
               /\ obj(u)' \notin reused' /\ (u = t => Working(t)')
      BY <1>2, <1>3, <1>4, <2>1
    <2>2. CASE ~(/\ call'[u].op = "remove" /\ slot(u)' \notin raced'
                 /\ obj(u)' \notin reused' /\ (u = t => Working(t)'))
      BY <2>2 DEF Removal, Working, at
    <2>3. QED  BY <2>1, <2>2
  <1>5. CASE UNCHANGED vars
    BY <1>5 DEF vars, Removing, Removal, at, slot, obj, tree
  <1>6. QED
    BY <1>1, <1>4, <1>5, ReturnOnly DEF Next, Removing

(* A removal returns behind its last element.                              *)
LEMMA FinishedNext ==
  ASSUME IInv, FInv, [Next]_vars
  PROVE  Finished'
  <1> USE DEF IInv, FInv
  <1>1. ASSUME NEW t \in Thread, Program(t) \/ Return(t), NEW u \in Thread,
               call'[u].op = "remove", at(u, "return")'
        PROVE  call'[u].i >= call'[u].n
    <2>1. OtherCalls(t) /\ u # t
      BY <1>1, ProgramFacts DEF at
    <2>2. call'[u] = call[u]
      BY <2>1, OthersSame
    <2>3. QED  BY <1>1, <2>2 DEF Finished, at
  <1>2. ASSUME NEW t \in Thread, Step(t), call[t].at # "return", NEW u \in Thread,
               call'[u].op = "remove", at(u, "return")'
        PROVE  call'[u].i >= call'[u].n
    <2>1. OtherCalls(t) /\ SameCall(t)
      BY <1>2, StepFrame DEF Frame
    <2>2. CASE u # t
      <3>1. call'[u] = call[u]
        BY <2>1, <2>2, OthersSame
      <3>2. QED  BY <1>2, <3>1 DEF Finished, at
    <2>3. CASE u = t
      <3>1. Treated(t)
        BY <1>2, <2>1, <2>3, LoopSteps DEF at, SameCall
      <3>2. advance(t) /\ call[t].i < Word32
        BY <1>2, <3>1, LoopSteps
      <3>3. QED  BY <1>2, <2>3, <3>2, AdvanceFacts DEF at
    <2>4. QED  BY <2>2, <2>3
  <1>3. CASE UNCHANGED vars
    BY <1>3 DEF vars, Finished, at
  <1>4. QED
    BY <1>1, <1>2, <1>3, ReturnOnly DEF Next, Finished

-----------------------------------------------------------------------------
(* The theorem.                                                            *)

(* In the beginning the map is empty, and nobody calls.                    *)
LEMMA InitForgets == Init => FInv
  <1> SUFFICES ASSUME Init PROVE FInv
    OBVIOUS
  <1>1. \A t \in Thread : call[t].op = "none" /\ call[t].at = "idle"
    BY DEF Init, NoCall
  <1>2. \A a \in Addr : ~Found(a) /\ ~InBoth(a)
    <2>1. TAKE a \in Addr
    <2>2. a # NullPtr /\ getHash(a) \in Slot
      BY SizeAssumption, HashSlot DEF NullPtr
    <2>3. ObjAddr[getHash(a)] = NullPtr /\ HexTree[getHash(a)] = None
      BY <2>2 DEF Init
    <2>4. QED  BY <2>2, <2>3 DEF Found, InBoth
  <1>3. QED
    BY <1>1, <1>2 DEF FInv, Entries, Once, Removing, Removal, Finished, at

(* What is found is in use, or owed a removal.                             *)
LEMMA InvForgets == IInv /\ FInv => DeadForgotten
  <1> SUFFICES ASSUME IInv, FInv, NEW a \in Addr, ~inUse(a), ~owesRemoval(a),
                      getHash(a) \notin raced, a \notin reused, Found(a)
               PROVE  FALSE
    BY DEF DeadForgotten
  <1> USE DEF IInv, FInv
  <1>1. ~InBlock(a)
    BY DEF inUse
  <1>2. Known(a)
    BY DEF Entries, Sound
  <1>3. live[a] = None
    BY <1>1 DEF Blocks
  <1>4. \A t \in Thread : ~Filled(t, a)
    BY <1>1, OwnBlock DEF Filled
  <1>5. \A t \in Thread : ~Awaits(t, a)
    BY DEF Awaits, owesRemoval
  <1>6. QED  BY <1>2, <1>3, <1>4, <1>5 DEF Known

(* The map keeps no entry of an address that is neither in use nor owed a  *)
(* removal, in any slot in which no calls have raced.                      *)
THEOREM DeadCorrect == Spec => []DeadForgotten
  <1>1. Init => IInv /\ FInv
    BY InitInv, InitForgets
  <1>2. IInv /\ FInv /\ [Next]_vars => (IInv /\ FInv)'
    <2>1. SUFFICES ASSUME IInv, FInv, [Next]_vars PROVE IInv' /\ FInv'
      OBVIOUS
    <2>2. Entries' /\ Once' /\ Removing' /\ Finished'
      BY <2>1, EntriesNext, OnceNext, RemovingNext, FinishedNext
    <2>3. QED  BY <2>1, <2>2, NextInv DEF FInv
  <1>3. IInv /\ FInv => DeadForgotten
    BY InvForgets
  <1>4. QED  BY <1>1, <1>2, <1>3, PTL DEF Spec
=============================================================================
