# CastSan in TLA+

CastSan finds C++ type confusion at run time. It is a fork of LLVM/Clang 3.9:
the front end writes the class hierarchy into metadata and emits calls around
casts, passes number the classes and instrument allocations, releases and
casts, and a small runtime keeps the type of every live object and judges each
cast by a range of numbers. This directory models CastSan's own parts. Names in
the modules are the names of the code; line references are in `PROJECT.json`
(`map`).

## Inventory

| Part | Code | State | Operations | Hard behaviour |
|---|---|---|---|---|
| Object type map | `compiler-rt/lib/hextype/hextype.cc`, `hextype.h` | `ObjTypeMap`, 2^28 slots, each with an entry and a tree | init, update/remove of one object or an array, lookup, range check | collisions move entries between slot and tree; array calls touch many slots; registering an address twice; 32-bit keys; no locks |
| Slot tree | `hextype_rbtree.cc` | nodes with parent pointers | insert, delete, lookup | rebalancing with hand-kept parent pointers; deletion moves entries between nodes |
| Class trees | `Transforms/Utils/CastSanUtil.cpp` | `Types`, `Roots`, `Children`, `TreeIndices`, diamonds | build lists, find diamonds, number, drop duplicates; range width, tree of a cast, fake vpointer | multiple inheritance and diamonds; two walks that must agree; order of heap pointers |
| Object tracing | `HexTypeUtil.cpp`, `HexTypeTreePass.cpp` | sets of instructions | which runtime call an allocation, free, realloc, placement new becomes | removal comes after the release; sizes recovered from the map; inlined variants |
| Stack lifetimes | `HexTypePass.cpp` | allocas, returns, lifetime markers | where stack objects are removed | unwinding; several lifetime ends |
| Statistics | `hextype_report.cc` | counters | count, print | differences of unsigned counters |
| Vtable hierarchy (CHA) | `IPO/CastSanCHA.cpp` | clouds of vtables | roots, pre-order, sizes | vtables with two parents: one place in the pre-order, two counts |
| Vtable layout | `IPO/CastSanLayoutBuilder.cpp` | order, padding, address points | order, interleave, ranges | gaps and padding inside ranges; parents that come after a child |
| Index update, checks | `IPO/CastSanUpdateIndices.cpp`, `CastSanInsertChecks.cpp` | none | replace intrinsics by comparisons | off by one at the end of a range |
| Front end | `clang/lib/CodeGen` | none | metadata, cast calls | none modelled |

How they interact: the front end's metadata is the input of `CastSanUtil`; its
numbers (`getFakeVPointer`) are passed as `FakeVPointer` to the runtime's
update functions, and its ranges (`TreeIndices` of a tree, `getRangeWidth`) to
`__type_casting_verification`; the tracing pass decides which update and remove
calls the runtime gets; the runtime keeps one red-black tree per slot. Vtable
ranges of polymorphic classes are a separate path (CHA, layout, checks), from
the metadata of the front end to comparisons in the program.

What makes each part correct: the map must answer for a live object with the
type it was last given, only for that object, and forget dead ones; the tree
must be a map and stay balanced; the numbers must put exactly the derived
classes of a class into its range; a vtable's address ranges must hold what is
derived from it, and every call through it must find the entry it found before
the vtables were rearranged.

## Modules

| Module | Models |
|---|---|
| `ObjRegistry` | what the runtime promises: a partial map from addresses to types, and of each cast the verdict that its own address and range have in it |
| `ObjTypeMap` | the runtime's table and the instrumented program around it; a slot's tree is a map from keys to entries |
| `MCObjTypeMap` | TLC instances of it |
| `ObjTypeMapProofs` | proofs that `ObjTypeMap` is well-typed, that its lookups are right, and that it forgets dead objects |
| `ObjTypeMapRefines` | proofs that it implements `ObjRegistry` and uses trees as `EntryTree` promises |
| `RangeChecks` | the arithmetic of the checks: subtraction, rotation, comparison |
| `RangeChecksProofs` | proofs that they decide membership |
| `EntryTree` | what a slot's tree promises: a map from keys to entries |
| `RBTree`, `MCRBTree` | the tree, pointer by pointer, one action per function or loop iteration; a view that forgets which nodes the tree is made of |
| `RBTreeProofs` | proofs that it is a balanced search tree, fails no assertion and implements `EntryTree` |
| `MapThreads`, `MCMapThreads` | threads that use the table at the same time, one step per access to a slot |
| `MapThreadsProofs` | proofs that lookups and casts are right in every slot without a race, and that such a slot keeps nothing of dead objects |
| `ClassTree`, `MCClassTree` | the numbering of the classes and what the instrumentation reads from it |
| `ClassTreeProofs` | proofs that every object can be traced, by a number of its own, for every hierarchy |
| `ClassTreeRanges` | proofs that, without diamonds, ranges stay within subtrees and casts are judged by them |
| `VTableLayout`, `MCVTableLayout` | the layout of a cloud of vtables, its ranges, and the checks and calls that use them |
| `VTableLayoutProofs` | proofs of all its invariants, for every cloud |

`ObjTypeMap` keeps `hexTree[s]`, a map of the kind `EntryTree` specifies;
`RBTree` implements `EntryTree` under the refinement mapping `found` (what a
search returns, at every step), `ObjTypeMap` asks no more of each `hexTree[s]`
than `EntryTree` specifies (`UsesTrees`), and it implements `ObjRegistry` under
`registered` (what `findObjInfo` returns). A cast is recorded in `verdict` with
its address, its range and its outcome: the runtime computes the outcome from a
slot or a tree and an unsigned subtraction (`castOutcome`), the registry by
membership, and is silent for a null pointer or an unknown address only.
`ObjTypeMap` and `VTableLayout` take
the arithmetic of their checks from `RangeChecks`.

**ObjTypeMap.** `ObjTypeMap`/`hexTree` are the slots and their trees. `live`
and `alloc` are the ground truth the code does not have: the type of each live
object and the live arrays. Each runtime function is an action; the loops of
`__update_oinfo` and `__remove_oinfo` are one action per element
(`UpdateElem`, `RemoveElem`, `Return`), with `call` as the state of the loop, so
that the properties are checked in the middle of a call too. Lookup, the slot
update with its displacement and the removal are `findObjInfo`, `updateOne`,
`removeOne`; where a function was duplicated in the code (`*_inline`, the body
of the array loops) it is the same operator. Environment actions follow the
instrumentation: the program only registers storage that is free, and `free`
passes length 1 and relies on `HeapArraySize`. Two switches widen it:
`MayRealias` (placement new or reinterpret_cast over a live object),
`MayUnwind` (objects that die with no removal call: by unwinding, in raw storage,
and members of elements of an array that realloc moves, as only the first member
is removed, `HexTypeUtil.cpp:1074`). One thread runs (`MapThreads` has several). `calloc`, whose element count the pass takes from the wrong argument
(`HexTypeTreePass.cpp:305`), and the `-inline-opt` code, which writes a
different struct layout, are left out. A new table reads as zero, as its size
makes `new` take it from fresh pages.

**RBTree.** Memory is a set `Node`, and a field of the nodes is a variable:
`link` (the two children), `parent`, `color`, `key`, `value`. `linked` are the
nodes in the tree; `rbtree_insert` takes any other. `pc` says which function
comes next: an iteration of the search loops (`insertDescend`, `lookupDescend`,
`maximum_node`) is a step, and the tail calls `insert_case1` .. `delete_case6`
are actions, each enabled where the functions before it pass the call on;
mirrored branches are merged with a side. The locals of the code are variables
under their names. `lookup_node` is the search of lookups and of deletions, so a
search that has found its key ends with `rbtree_lookup` or goes on with
`rbtree_delete`. A failing `malloc` of a node is the stutter in `rbtree_insert`.

**ClassTree.** The pass walks three times over a hierarchy chosen in `Init` (in
`MCClassTree`: all hierarchies of the classes with up to `MaxBases` non-virtual
bases each). Its functions call themselves in a loop over bases, children or
roots: an iteration of a loop is a step, `stack` holds the calls that have not
returned, `i` where the loop of each is, and `k` how often the numbering has
descended to the child it is at. The list of roots grows while `findDiamonds`
walks over it and shrinks while `removeDuplicates` does; `pos` is the iterator.
What only reads the finished trees (`getRangeWidth`, `getRootForCast`,
`getFakeVPointer`) are functions. Classes are numbers in the order of their hashes, which is the iteration
order of `Types`. Excluded: a base that is also a base of another base (the
compiler warns that it is inaccessible). `getRootForCast` picks the first tree
in the order of heap addresses, so `rootsForCast` is the set of candidates and
every member is possible. `subobjects`, `tracedAt` and `upcasts` describe
objects and the casts the compiler accepts, so that a cast can be judged from
the outside: a downcast that undoes an upcast is right, one to a class that the
object is not derived from is wrong.

**MapThreads.** The runtime takes no lock, so every read or write of a slot
that another thread can see is a step, and `call[t]` is the frame of thread t:
the operation, where it is, the loop counter and what it has read. `Test` is the
first comparison with `ObjAddr`; a registration goes on with `NoTree`,
`CreateTree`, `CopyEntry`, `Walk` (the insertion), `Write` (the address) and
`Fill` (the other fields); a removal with `Vacate`, or `InTree` and `Walk` (the
deletion), after `Size` .. `WalkSize` have read the length of an array of the
heap; a cast with `ReadType`, or `InTree` and `Walk`. The two fields after the
address are written in one step, and a walk of a tree takes effect when it ends.
Two walks of one tree at the same time, one of them writing, leave it `wrecked`:
every later search may return anything (it may also crash or never end, after
which there is nothing to say). `raced` are the slots in which a registration
met another call, or walks met; a length that a race has spoilt is carried into
every slot. Memory of the heap is free before its removal (`handleFree`
inserts the call after `free`), so another thread may get the address and
register it, and the late removal then takes the new entry: `reused` are the
addresses to which that may have happened. Re-registration and realloc are left
to `ObjTypeMap`.

**VTableLayout.** One step of the passes per action over a cloud chosen in
`Init`. A cloud says of each vtable from which it derives, whose entries it
repeats, how many entries it has on either side of its address point, and
whether any module defines it. `MCVTableLayout` builds the clouds the front end
can describe (`clang/lib/AST/VTableBuilder.cpp`): trees, and those where a
virtual base gives a vtable a second parent. Addresses are byte offsets in the
new array, and the checks are those of `RangeChecks`, rotation and all. The
recursive walks (`preorderHelper`, the counts, the ranges) are recursive functions
of the vtable, and the loops in them go through lists with `each`. The rounds of
`fillVtablePart` are described by the order they give (`fillsBefore`), as every
entry of a defined vtable is put into the array once.

What the metadata always says is in `CloudAssumption`: a cloud is finite, without
cycles, and has one root; a vtable has the entries of the one it extends and as
many offsets before its address point as any it derives from; in a tree, the
sub-vtables of one class have the same number of derived ones that are defined
(without virtual bases a class that derives from another has each of the other's
sub-vtables, and a class is defined as a whole); and the array, with the alignment
of the ordered layout, fits into the address space.

## Runs

| Run | Shows |
|---|---|
| `map_disciplined` (pass) | `LiveLookup`, `OwnEntry`, `RemovedForgotten`, the use of `EntryTree` and the refinement of `ObjRegistry` with the verdict of every cast, for a program that does not re-register live addresses, makes no empty arrays and does not unwind |
| `map_undisciplined` (pass) | `LiveLookup`, `OwnEntry` with re-registration and unwinding |
| `map_stale` (violation) | `RemovedForgotten` fails once a live address may be registered again: the older entry survives in the tree |
| `map_truncated` (violation) | `LiveLookup` fails for two addresses of a slot with equal low words |
| `map_empty` (violation) | `LiveLookup` fails when realloc moves an array that has no element |
| `map_threads` (pass) | `LiveFound`, `CastFinds`, `DeadForgotten` in slots without a race; `CallsReturn` in all |
| `tree` (pass) | `TypeOK`, `ParentLinks`, `Balanced`, `AssertionsHold`, `SearchFinds`, and `RBTree` implements `EntryTree` |
| `class_trees` (pass) | `ObjectsTraced`, `NumbersDistinct`; without diamonds `RangeIsSubtree`, `SafeInOwnTree`, `BadTreeCastReported`; with phantoms among four classes |
| `class_false_report` (violation) | a legal downcast may be checked in a tree the object is not traced in |
| `class_missed` (violation) | a diamond widens a range so that a bad cast passes |
| `layout_clouds` (pass) | `RangesVerified`, `VcallAcceptsDerived`, `VcallRejectsOthers`; where no vtable has two parents `CastExact`, `CallsReachEntry` |
| `layout_offsets` (violation) | with two parents a call may find another vtable's entry |

The violations are described in `PROJECT.json` (`findings`). Deadlock is
checked except in the ClassTree and VTableLayout runs, where the passes end,
and in `map_threads`, where the bound `UseRaced` may stop the program.

What the map promises under threads is less than it seems: a registration that
meets any other call in its slot may lose an entry, its own or the other's.
`map_threads` shows that this is all. The trouble stays in the slot, casts and
removals may meet each other freely except for the walks of one tree, and an
address that is given out before its old removal endangers no other.

What `layout_clouds` says of the checks: a virtual call compares with `<=`
(`CastSanUpdateIndices.cpp:1066`), so it accepts one vtable after each range;
casts compare with `<`. `Even` excludes one case from the first and the fourth
property: in the ordered layout, vtables with different numbers of entries
before the address point may leave an aligned gap between two of a range, and
then the last of the range lies outside it. In a cloud with two parents
`calculateChildrenCounts` counts a vtable once per path, so a cast may be
checked with a range that is too wide.

A phantom is a derived class of its base's size. `getRangeWidth` takes one off
for it (`CastSanUtil.cpp:353`), but unless its base closes a diamond it gets a
number of its own (303-304). So a range may be shorter than its subtree, and a
legal downcast reported: with a phantom at the end of a chain of three classes
`NoFalseReport` fails too (`ClassFalseReport.cfg` with `MaxBases = 1` and
`MaxPhantom = 3`). `class_trees` shows that there is nothing worse without
diamonds: `RangeIsSubtree` claims that a range fills its subtree of programs
without phantoms only, and that it does not leave its subtree of all, and
`BadTreeCastReported` holds of all. In diamonds phantoms share numbers (305-319);
of these programs only `ObjectsTraced`, `AssertionsHold` and `TypeOK` are claimed.

One limit of the class trees is known from the code and shown by no run:
`isSubtreeInTree` (223) may drop the only tree in which a class closing two
diamonds lies above another, so that a legal cast has no tree at all.

## Bounds

Map: two slots of two bytes, an 8-valued "32-bit" word that covers both
slots twice; three addresses are the fewest with two in one slot as neighbours
(6, 7), and two at one stride (2, 6) that collide: a slot holder, a tree entry
and an array with elements in colliding slots all occur; array lengths 1 and 2
make loops that run once and several times. The passing runs use addresses
below one word, so keys are distinct; `MapTruncated` adds an address one word
up. Casts are made in `map_disciplined`, of every address and of the null pointer
to the range `{1}`, with types 0 and 1: type 0 lies below the range, where the
unsigned subtraction has to wrap. They change nothing in the table, and the other
map runs make none. The passing runs leave out length 0: an empty array has no
entry, so that its removal takes the length it is passed, which for realloc is
that of the new array.
`MapEmpty` shows it with five addresses, which is what two live objects in one
slot, an empty array and a place to move it to need.

Threads: two threads, and three addresses of which two share a slot: an array
of one or two objects on the heap begins at 1 and has its second element in
another slot, and the third address is on a stack, in the slot of the first. The
steps of a call that matter to another are those in the same slot, so a third
thread adds no kind of meeting. `Word32 = 3` is the smallest word in which the
loop counter of an array of two does not wrap. `UseRaced = FALSE` lets creations
and casts begin only in slots where nothing has raced: what comes after a race in
a slot is exempt from the safety properties there, and the proofs do without this
bound, and without the others. Removals begin anywhere, for `CallsReturn` is
about what a race leaves behind: entries it has lost, lengths of another array,
and trees in which two walks overlap.

Tree: eight nodes make trees of height four, where all of
`delete_case1` .. `delete_case6`, the walk upwards and a rotation after a
recolouring one level below happen; the addresses have eight keys, of which one
is negative as an `int` (9) and one has two addresses (1 and 17).

Classes: five classes are the fewest with a diamond and a bystander
(`class_missed`). Phantoms multiply the hierarchies by the sets of their edges, so
they are among the first four classes only (`MaxPhantom`), which chains of
phantoms, siblings and a diamond need.

Vtables: trees of four with up to two undefined vtables, and five where one has
two parents, which a diamond with a bystander needs, or where a class has two
vtables of the root's form; two sizes on either side of the address point make
vtables that add entries and vtables that do not.

## Fairness

`map_threads` assumes that each thread in a runtime call keeps taking steps
(`WF_vars(~lost(t) /\ Step(t))`): a call waits for no other, so the scheduler of
the operating system is all it needs. What the program does is not fair, and
nothing is assumed of a thread that is `lost`, walking in a tree that two walks
have wrecked: it may go round in a circle of nodes for ever. Under this assumption
`CallsReturn` says that every call returns, whatever the other threads do to the
slots it looks at. Two ways out are in the formula. A call may get lost, which
takes a wrecked tree and not just a race; and a removal whose length the 32-bit
counter cannot reach never ends (`n >= Word32`, `hextype.cc:382`). A race that
loses an entry or spoils a length exempts nothing. The other runs state no
liveness: their modules are sequences of steps that end, and deadlock is checked
where it can happen.

## Proofs

`ObjTypeMapProofs` proves `TypeCorrect == Spec => []TypeOK` for all sizes,
address sets and programs within the assumptions of `ObjTypeMap`
(`WordAssumption`, `ProgramAssumption`, `RangeAssumption`, `NoneAssumption`).
`TypeOK` is not inductive: an array call in progress writes elements whose
addresses come from the call's arguments. `TypeInv` adds what the program knows
when it starts the call: the arrays lie within `Addr` (`ArraysInAddr`), an update
in progress works on an allocated array with its size (`UpdateCall`), and a
removal on behalf of realloc will register an allocated one (`ReallocCall`).

`ObjTypeMapProofs` proves two of the safety properties from two hypotheses on
the constants:

- `EntryOwned == KeyDistinct /\ Spec => []OwnEntry`. `KeyDistinct` says that no
  two addresses of a slot have the same low 32 bits, as when all objects lie
  within 4 GiB; `map_truncated` shows what happens without it. The invariant is
  `Filed`: slots and trees hold entries only where `getHash` and `compareKey`
  of their addresses look. It does not need any discipline of the program.
- `LiveCorrect == KeyDistinct /\ NoEmptyArrays /\ Spec => []LiveLookup`, with
  `MayRealias` and `MayUnwind` arbitrary. `LiveLookup` is not inductive: an
  iteration of a removal could take the entry of a live object. `LiveInv` adds
  why it never does. `DeadElems`: what a removal in progress touches died when
  the release began. That holds because the number of elements removed, which
  on the heap is what the map recorded, is not too large (`HeapSize`); which is
  so because the array's start is live and so its entry is the one looked up
  (`BaseLive` and `LiveLookup` itself), and because arrays do not overlap
  (`ArraysDisjoint`), so that only the array's own registration, or a
  re-registration of its start with length 1, writes the length.
  `NoEmptyArrays` is needed for `BaseLive`: an empty array registers no start,
  so its release takes another length: that of an older entry there, or the one
  passed, which `map_empty` shows to do harm.
  `UpdateOneLookup` and `RemoveOneLookup` are the heart: an operation on one
  address changes no other lookup, though it moves other entries.

It proves `ForgetsCorrect` (`RemovedForgotten`) from
`KeyDistinct`, `NoEmptyArrays` and the discipline of the program (`MayRealias`
and `MayUnwind` false); `map_stale` shows why the discipline is needed.
`ForgetInv` adds to `LiveInv`, after TLC had checked the parts:
- `Entries`: whatever has an entry is live or will be removed by the iterations
  left of a removal in progress (`awaiting`). It needs to know that a release
  takes as many elements as were registered: `HeapExact`, the recorded length of
  an array on the heap is its length, and `Registered`, exactly the elements that
  its registration has come to are live;
- `Once`: no address is both in a slot and in its tree, so that one removal is
  enough. This is false as it stands for an array so long that `TypeSize*i` wraps
  in 32 bits: the registration comes to an address twice and files it in the
  slot and in the tree. But then the release comes to it twice too, so `Once`
  allows the second copy where the number of iterations at the address
  (`notedAt`, `awaiting`) is two or more;
- `LoopBound`: a loop does not run past its end.

`ObjTypeMapRefines` proves `RegistryImplemented` (`ImplementsRegistry`) from
`KeyDistinct` alone: a program that re-registers, unwinds or makes empty arrays
gets a map too, only not the one it wants. A cast that finds an entry is judged
by it (`OutcomeJudged`): the entry's type is that of the map, and the unsigned
subtraction decides membership (`MinusIsMembership`). `TableInv` adds to `Filed` that every
entry, also a stale one that the removal of a later one may uncover, has the type
of an object (`EntryTypes`), and that there is nothing to erase before the first
constructor (`NothingBefore`). A removal may be for an address at which there is
no object, and still takes away one lookup at most (`RemoveRegisters`). The same
invariant gives `TreesUsed` (`UsesTrees`), without `KeyDistinct`: truncated keys
are a fault of the keys, not of the use of the trees.

`RangeChecksProofs` proves of the checks, for every word size, every alignment
that divides it and every range that does not wrap, which pointers they accept.
`CastCheckExact`: exactly the `width` address points one alignment apart from
`start`, among all words; a pointer below the range, above it or between two
address points is rejected. `CallCheckExact`: the inclusive comparison of virtual
calls adds the place after the range and nothing else. `MinusIsMembership`, the
same for numbers of classes, is used in the refinement. They rest on
`RotationExact`: the remainder of a misaligned pointer becomes the high bits of
the rotated word, so that no width is larger.

`MapThreadsProofs` proves, for any number of threads, addresses, slots and
lengths, `TypeCorrect`, `LookupsCorrect` (`LiveFound`) and `CastsCorrect`
(`CastFinds`), from `SizeAssumption` and `NoneAssumption` alone. Neither
property is inductive. `IInv` adds, of every slot that is not raced,
- who may touch what: arrays do not overlap and hold the live objects (`Blocks`),
  a call in progress owns the objects it registers or removes unless their
  addresses were reused (`Owners`), and a registration is alone among the calls
  that work in its slot (`Alone`);
- how long loops are: a removal past the reading of the length takes as many
  elements as the array was created with, unless a race has spoilt every slot
  (`Sized`), and never more than its own;
- what a call has read and relies on later: a tree that was there stays there
  (`TreeThere`), the slot a removal vacates holds its object or nothing
  (`Vacating`), a registration that overwrites a slot has put a true copy of its
  entry into the tree (`Displacing`), and a cast that did not find its object in
  the slot looks into the tree while the slot still holds another (`Casting`);
- `Lookups`, which is `LiveFound` extended to the elements that a registration in
  progress has already passed and to the moments between its steps; `Wrecks`: the
  slot of a wrecked tree is raced.
Each action has a lemma per part of `IInv` that it can disturb; a step of one
thread leaves the calls of the others alone, so most of those lemmas say what a
change of one slot does to another thread's view of it.

It also proves `DeadCorrect` (`DeadForgotten`) from `IInv` and four
more parts, `FInv`, which TLC checked as invariants of `map_threads` before:
- `Entries`: whatever a slot or its tree holds is live, or in an array whose
  registration has come that far, or waits for a removal in progress;
- `Once`: no address is in a slot and in the slot's tree, except while a
  registration is about to overwrite the slot, which is why one removal is
  enough. The other exception is an array of at least 2^32 elements, whose
  registration runs over its elements again and never returns (`Endless`);
- `Removing`: between its test and its write a removal knows where its object is
  not, since a registration that could bring it there would be a race;
- `Finished`: a removal returns behind its last element, so that nothing waits
  for it any more.

`RBTreeProofs` proves every property that `tree` checks, for any number of nodes
and addresses and any even word size, from `TreeAssumption` alone: `TreeTypes`
(`TypeOK`), `LinksAgree` (`ParentLinks`), `NoFailedAssertion` (`AssertionsHold`),
`SearchesFind` (`SearchFinds`), `TreeBalanced` (`Balanced`) and `TreeIsMap`
(`ImplementsEntryTree`). Together with `TreesUsed` the last one says that the map
which the proofs about the table take for a slot's tree is the one that the code
provides.

What is below a node and how many black nodes a path has are recursive notions,
and no prover can follow the recursion. The invariant avoids it: `IInv` says that
there *are* two functions, `sub` (the nodes below a node) and `bh` (black nodes
on the paths down), that fit the pointers and colors locally, and each action's
lemma gives the new functions: a rotation changes `sub` at two nodes (`turned`),
a new leaf adds itself to the sets of the nodes above it (`grown`), a recolouring
moves one unit of `bh`. With these, `Inv(sub, bh)` says (TLC had checked the parts,
with both functions computed from the tree, before the proof)
- `Shape`, with `ParentLinks`: the pointers make a tree, also in the middle of a
  rebalancing;
- `Ordered`, `Distinct`: it is a search tree by the signed 32-bit keys;
- `Searching`: the loops look below the right child, and `maximum_node` stays on
  the right edge. So a search that ends at a null pointer has missed nothing, and
  the key of the predecessor fits at the node that takes it over;
- `Heights`: all paths from a node have as many black nodes. During a deletion
  this is false of the colors alone. The doomed node weighs nothing
  (`weight`), and the paths through `n` are one black node short (`deficit`): each
  of `delete_case1` .. `delete_case6` keeps this, hands the deficit to the
  parent or ends it. That a sibling exists where the code takes one for granted
  follows, as paths of one black node less cannot make up for none;
- `Colors`: two red nodes meet only at the new node, and the root is black but
  for it;
- `Deletion`: what each case knows from the cases before it, on which the
  assertion of `delete_case6` rests; and that the child may take the doomed
  node's place without a red pair.
`ParentLinks` and `AssertionsHold` are not inductive: they let a deletion start
in an unbalanced tree, where a sibling that the rebalancing needs may be missing.

`TreeBalanced` must relate `bh` and `sub` to the recursive functions `blacks` and
`below`. That these exist follows from `sub` and `bh`, which solve their
equations; that they agree with them, from `LowestNode`: were there a node where
they differ, there would be one with no such node below it, as sets of nodes
below are well-founded by strict inclusion, the tree being finite at all times
(`Stored`). `TreeIsMap` looks at the steps that change nodes, keys or values
only: the map of what is found (`entryOf`) changes at one key.

`ClassTreeProofs` proves the properties of `class_trees` that hold with diamonds,
for every hierarchy of any finite number of classes: `TypeCorrect` (`TypeOK`),
`NoFailedAssertion` (`AssertionsHold`), `NoNumberTwice` (`NumbersDistinct`) and
`EveryObjectTraced` (`ObjectsTraced`), from `ClassAssumption` alone: no class is
derived from itself, none has a base twice, and none has a base that is a base of
another base. What is above a class is defined as what is reached in as many
rounds as there are classes; `Reach` shows that this is the smallest set closed
under the edges, and all else uses only that. The invariant, `Traced`, says of
the walks
- `Chain`: each call on the stack is for a base, or a child, of the one below it,
  and its loop is at that class; so nothing is on the stack twice, which the
  hierarchy being acyclic forbids, and counters kept per class are those of calls;
- `ChildLists`, `Entered`: a class is in the list of each of its bases that a walk
  from a leaf has come to, once. A walk stops at a class that it finds in the
  list, because the walk that put it there has gone on upwards, or still is;
- `RootList`, `Marks`, `Visiting`, `Ways`: all classes without bases are roots, and
  others only with a child and a diamond. What the walk over a tree has met, it met
  first at an edge that it has not marked (`Visited`), so that each class below a
  root whose walk has ended can be reached from it without a marked edge (`Ways`);
- `Fresh`, `Covered`, `Complete`: a tree has no number before its turn; in its
  turn, what the loops of the calls have passed is numbered (`Closed`); and when a
  turn has ended, everything below a root without bases is (`Spread`, an induction
  over the hierarchy along `Ways`). `removeDuplicates` takes only trees of roots
  with bases, since a root without bases is below no other (`NotBelow`).
`ObjectsTraced` follows as the first bases of a class lead to a class without
bases (`PrimaryRoot`). `NumbersDistinct` needs less: `Numbers`, no number in use
has reached `Index`, as long as there are not both phantoms and diamonds.

`ClassTreeRanges` proves the other three, for hierarchies without diamonds:
`RangesAreSubtrees` (`RangeIsSubtree`), `BadCastsReported`
(`BadTreeCastReported`) and, without phantoms, `SafeCastsPass` (`SafeInOwnTree`).
`Ranges` adds to
`Traced` that what a tree has numbered below a class is a range of numbers, up to
the next number while the class is on the stack, closed afterwards
(`Intervals`). A step numbers one class; that it extends the ranges of the classes
above it and no other needs `OnStack`: without diamonds all classes between the
root and the current one are on the stack. At the end all classes below a class in
a tree are in it (`DoneTrees`), so their numbers are a range as long as they are
many (`Subtree`). `getRangeWidth` counts those of them that are no phantoms below
the class (`Counted`), by a recursion of its own. Such recursive
functions solve an equation, and the proofs give the solution (here the number of
the classes counted, `size`; for `subobjects` the paths along bases, `Paths`), show
that it solves the equation, and that any other solution agrees with it: among the
classes where it did not there would be one with no such class below, as the
hierarchy is acyclic (`RangeWidth`, `Subobjects`). A bad cast is never safe because
numbers are distinct. For a good one, `TracedTree` shows that the tree which
`getFakeVPointer` chooses, by the first bases or by the class at the offset, has
the class that the pointer is cast from, and `CastTree` that `getRootForCast` may
choose it too.

`VTableLayoutProofs` proves every property of `layout_clouds`, for every cloud that
`CloudAssumption` allows and every word size: `TypeCorrect` (`TypeOK`),
`RangesAreVerified` (`RangesVerified`), `CallsAcceptDerived`
(`VcallAcceptsDerived`), `CallsRejectOthers` (`VcallRejectsOthers`),
`CastsAreExact` (`CastExact`) and `CallsReachTheEntry` (`CallsReachEntry`). The
passes run once and in order, so the invariant `IInv` says little: after each step
the variables have the values that their definitions compute from the metadata.
One part is not obvious, `Unpadded`: `interleaveCloudNew` never pads anything.
Padding would be needed where a vtable has fewer offsets than one it derives from,
and there is none (`NoPadding`). The work is in what those values are:
- *The graph.* `below`, what derives from a vtable, is defined as a least set, and
  everything about it follows from that: a path has a first and a last step
  (`BelowFirst`, `BelowLast`), there is no way back (`NoCycle`), and in a tree the
  children share nothing (`TreeApart`).
- *Recursion.* `Recursion` says that a definition by recursion along the children
  has a solution, which is where the cloud being without cycles is used. Were there
  none, there would be a largest set of vtables closed under the children with a
  solution, and a vtable outside it all of whose children are inside. That two
  solutions agree is not needed: what holds of the values is shown of a vtable with
  no such vtable below it (`Ranged`, `TreeCounts`, `GoesOn`).
- *The pre-order.* A search keeps the list it is given and adds vtables, each once
  and with all of its children (`Explores`); so the list holds what derives from
  the root (`Preorder`). In a tree a search meets nothing it has seen, so it appends
  the pre-order from its own vtable (`GoesOn`), and what derives from a vtable has
  neighbouring positions (`Together`).
- *Distances.* In the interleaved array the index of an entry is the number of
  entries before it (`Interleaved`), and between the address points of two vtables
  that follow each other there are as many entries as in any other round
  (`AheadApart`). In the ordered array the address points are multiples of the
  alignment, at least one and at most two apart (`Gap`, `OrderedLoop`). `Spacing`
  says of both that address points lie at least as many distances apart as there
  are defined vtables between, and exactly as many where the layout is `Even`.
- *Checks.* `ChecksOnIndices` reduces the rotated comparisons to distances, by
  `CallCheckExact` and `CastCheckExact`. An accepted vtable that does not derive
  from the static class has all defined vtables of the range before it, and the
  inclusive comparison leaves room for no other (`RejectsOthers`). A cast accepts
  what derives from the class because the width counts just that (`CastWidth`).
- *Calls.* In a tree every vtable between the first defined one and that of the
  object has the entry that is called, so the entry moves by as much as the address
  point does (`SameOffset`).

Model-checked only: `CallsReturn` of `MapThreads` (liveness, out of the prover's
reach). Every invariant, action property and refinement that a passing run checks
is proved. The properties of the violation runs do not hold; what they need in
addition is in the hypotheses above.

## Plan

1. done: `ObjTypeMap` with `ObjRegistry`, `RBTree` with `EntryTree`,
   `ClassTree`; type correctness, `OwnEntry` and `LiveLookup` of the map proved.
2. done: `MapThreads` with its proofs and its liveness; `VTableLayout`.
3. done: `RemovedForgotten`, the refinement of `ObjRegistry` and the use of the
   trees proved; the arithmetic of the checks modelled and proved.
4. done: `RBTree` rewritten without recursive operators and with its loops as
   steps; all its properties proved.
5. done: `ClassTree` rewritten with the loops of its walks as steps; all its
   properties proved.
6. done: `VTableLayout` rewritten without recursive operators; all its properties
   proved.
7. left: clouds of more than one root, and the merging of the metadata of several
   modules.

## Not modelled

- The front end: it translates declarations and casts to metadata and calls and
  keeps no state; its results are the inputs of `ClassTree` and `VTableLayout`.
- The choice of the instruction at which a stack object is removed
  (`HexTypePass`): a walk over the instructions of one function, which would need
  a model of LLVM's control flow. What it leads to is in `ObjTypeMap`
  (`Unwind`, removals at returns).
- Casting statistics (`hextype_report.cc`): counters that nothing reads but the
  report at exit.
- The inlined registrations of `-inline-opt`, whose struct layout differs from
  the runtime's, and calloc's wrong argument (`HexTypeTreePass.cpp:305`).
- Thunks, the replacement of old vtables in the IR, constant folding of checks,
  `CastSanFix` and `CastSanMoveBasicBlocks`: rewriting of IR without state.
- The LLVM/Clang fork itself, benchmarks and scripts. They are almost all of
  the repository's lines; CastSan's own code is a few thousand.
