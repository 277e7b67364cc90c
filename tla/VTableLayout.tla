---------------------------- MODULE VTableLayout ----------------------------
(***************************************************************************)
(* The layout of vtables (llvm/lib/Transforms/IPO: CastSanCHA.cpp,         *)
(* CastSanLayoutBuilder.cpp, CastSanUpdateIndices.cpp): the vtables of a   *)
(* root and of everything derived from it, its cloud, are laid out in one  *)
(* array, so that a vtable pointer is checked by comparing it with ranges  *)
(* of addresses.  The pass either interleaves the vtables entry by entry   *)
(* or puts them one after the other at aligned addresses.                  *)
(*                                                                         *)
(* A vtable stands for its name and number <<class, sub-vtable>>, ordered  *)
(* as these are, and its entries for their distance from its address       *)
(* point.  Indices count words from the start of the array; the checks, of *)
(* RangeChecks, work on addresses, which count bytes.                      *)
(***************************************************************************)
EXTENDS RangeChecks, FiniteSets, SequencesExt

CONSTANT Clouds   \* descriptions of a cloud by the front end's metadata

WORD_WIDTH == 8
Root == 1
Dummy == 0        \* dummyVtable, the owner of padding

-----------------------------------------------------------------------------
(* Loops and sorted lists, without the recursive operators and the operator *)
(* arguments that nothing can be proved about.                             *)

(* x, after f[y] was applied to it for each y of the list s in turn        *)
each(f, s, x) ==
  LET after[n \in 0..Len(s)] == IF n = 0 THEN x ELSE f[s[n]][after[n - 1]]
  IN after[Len(s)]

inOrder(S, before(_, _)) ==
  LET rank == [x \in S |-> Cardinality({y \in S : before(y, x)})]
  IN [n \in 1..Cardinality(S) |-> CHOOSE x \in S : rank[x] = n - 1]

ascending(S) == inOrder(S, <)

(* the members of s that are in S                                          *)
only(s, S) ==
  LET kept == ascending({i \in DOMAIN s : s[i] \in S})
  IN [k \in DOMAIN kept |-> s[kept[k]]]

-----------------------------------------------------------------------------
(* The metadata.                                                           *)

(* what derives from v: the least set with v that has with a vtable all    *)
(* that are derived from it                                                *)
below(c, v) ==
  LET V == DOMAIN c.parents
      inherits(S) == \A d \in V : c.parents[d] \cap S # {} => d \in S
  IN {d \in V : \A S \in SUBSET V : v \in S /\ inherits(S) => d \in S}

size(c, v) == c.neg[v] + c.pos[v]

powerOfTwo(k) == each([once \in {1} |-> [p \in Nat |-> 2 * p]],
                      [i \in 1..k |-> 1], 1)

powerOfTwoFrom(n) ==
  LET k == CHOOSE k \in 0..n : /\ n <= powerOfTwo(k)
                              /\ \A j \in 0..(k - 1) : powerOfTwo(j) < n
  IN powerOfTwo(k)

orderAlignment(c) ==
  LET sizes == {size(c, v) : v \in DOMAIN c.parents}
  IN powerOfTwoFrom(ascending(sizes)[Cardinality(sizes)])

(* A cloud has one root.  parents[v]: the vtables v is derived from;       *)
(* extends[v]: the one among them whose entries v repeats; neg[v], pos[v]: *)
(* how many entries lie before and from the address point; primary[v]:     *)
(* the first sub-vtable of the class of v, or v where that one belongs to  *)
(* another cloud of the same form; undefined: vtables that no module       *)
(* defines.                                                                *)
isCloud(c) ==
  LET V == DOMAIN c.parents
  IN /\ Root \in V /\ V \subseteq Nat \ {Dummy} /\ IsFiniteSet(V)
     /\ c.parents \in [V -> SUBSET V] /\ c.extends \in [V -> V]
     /\ \A v \in V : IF v = Root THEN c.parents[v] = {}
                     ELSE c.extends[v] \in c.parents[v]
     /\ c.primary \in [V -> V]
     /\ c.neg \in [V -> Nat] /\ c.pos \in [V -> Nat \ {0}]
     /\ c.undefined \subseteq V

(* No vtable is derived from itself: of any vtables, one is derived from   *)
(* none of the others, and from one none of the others is derived.         *)
acyclic(c) ==
  \A S \in (SUBSET DOMAIN c.parents) \ {{}} :
    /\ \E v \in S : c.parents[v] \cap S = {}
    /\ \E v \in S : \A w \in S : v \notin c.parents[w]

(* A vtable repeats the entries of the one it extends, and has as many     *)
(* offsets before its address point as any it is derived from.             *)
contains(c) ==
  /\ \A v \in DOMAIN c.parents : \A p \in c.parents[v] : c.neg[p] <= c.neg[v]
  /\ \A v \in DOMAIN c.parents \ {Root} : c.pos[c.extends[v]] <= c.pos[v]

treeShaped(c) == \A v \in DOMAIN c.parents : Cardinality(c.parents[v]) <= 1

(* Without virtual bases, a class derived from another has each of the     *)
(* other's sub-vtables, and the linker defines all of a class or none.     *)
derivedTogether(c) ==
  LET defined(v) == below(c, v) \ c.undefined
  IN treeShaped(c) =>
       \A v \in DOMAIN c.parents :
         Cardinality(defined(c.primary[v])) = Cardinality(defined(v))

(* The addresses of the array, and of what a check may compare, are words; *)
(* the alignment and the size of a word are powers of two.                 *)
addressable(c) ==
  LET align == WORD_WIDTH * orderAlignment(c)
  IN /\ Word64 % align = 0
     /\ 3 * Cardinality(DOMAIN c.parents) * align < Word64

ASSUME CloudAssumption ==
  \A c \in Clouds : /\ isCloud(c) /\ acyclic(c) /\ contains(c)
                    /\ derivedTogether(c) /\ addressable(c)

VARIABLES
  pc,                    \* the step of the passes that comes next
  cloud,                 \* the metadata
  interleave,            \* the layout builder's mode
  cloudMap,              \* derived vtables of every vtable
  cloudSizeMap,          \* how many defined vtables derive from a vtable
  prePadMap,             \* null entries before a vtable
  interleavingMap,       \* the new array: <<vtable, entry>> in order
  alignment,             \* alignmentMap: distance of address points, in bytes
  newLayoutInds,         \* new indices of the entries of every vtable
  newVTableStartAddrMap, \* new address points of the defined vtables
  rangeMap,              \* ranges of positions in the pre-order, [first, end)
  memRangeMap            \* the same as ranges of addresses, <<start, width>>

vars == <<pc, cloud, interleave, cloudMap, cloudSizeMap, prePadMap,
          interleavingMap, alignment, newLayoutInds, newVTableStartAddrMap,
          rangeMap, memRangeMap>>

Steps == <<"buildClouds", "layoutCloud", "calculateNewLayoutInds",
           "createNewVTable", "calculateVPtrRanges", "done">>

Vtbl == DOMAIN cloud.parents
empty == [v \in {} |-> <<>>]

isDefined(v) == v \notin cloud.undefined

(* The vtable pointers that a program's objects have, and what the         *)
(* metadata says of the objects.                                           *)
Objects == {v \in Vtbl : isDefined(v)}

descendants(v) == below(cloud, v)

(* v holds the entries of p: it is in every set with p and with all that   *)
(* extend a vtable of the set                                              *)
repeats(v, p) ==
  \A S \in SUBSET Vtbl :
    p \in S /\ (\A d \in Vtbl \ {Root} : cloud.extends[d] \in S => d \in S)
      => v \in S

IsTree == treeShaped(cloud)
SamePrefix == \A u, v \in Vtbl : cloud.neg[u] = cloud.neg[v]

Init ==
  /\ pc = 1
  /\ cloud \in Clouds /\ interleave \in BOOLEAN
  /\ cloudMap = empty /\ cloudSizeMap = empty
  /\ prePadMap = [v \in Vtbl |-> 0]
  /\ interleavingMap = <<>> /\ alignment = 0
  /\ newLayoutInds = empty /\ newVTableStartAddrMap = empty
  /\ rangeMap = empty /\ memRangeMap = empty

TypeOK ==
  /\ pc \in DOMAIN Steps
  /\ isCloud(cloud) /\ interleave \in BOOLEAN
  /\ prePadMap \in [Vtbl -> Nat] /\ alignment \in Nat
  /\ pc > 1 => /\ cloudMap \in [Vtbl -> SUBSET Vtbl]
               /\ cloudSizeMap \in [Vtbl -> Nat]
  /\ interleavingMap \in Seq((Vtbl \cup {Dummy}) \X Int)
  /\ pc > 3 => newLayoutInds \in [Objects -> Seq(Nat)]
  /\ pc > 4 => newVTableStartAddrMap \in [Objects -> Nat]
  /\ pc > 5 => /\ rangeMap \in [Vtbl -> Seq(Nat \X Nat)]
               /\ memRangeMap \in [Vtbl -> Seq(Nat \X Nat)]

at(step) == Steps[pc] = step
step == pc' = pc + 1

-----------------------------------------------------------------------------
(* Class hierarchy analysis.                                               *)

children(v) == ascending(cloudMap[v])

preorderHelper[v \in Vtbl] ==
  [nodes \in Seq(Vtbl) |->
     IF v \in Range(nodes) THEN nodes
     ELSE each(preorderHelper, children(v), Append(nodes, v))]

preorder(v) == preorderHelper[v][<<>>]
cloudOrder == preorder(Root)
indexIn(pre, v) == CHOOSE i \in DOMAIN pre : pre[i] = v

(* Wrong variants of operators, which the properties must tell apart from  *)
(* the code, stand before them: undefined vtables are counted.             *)
countChildrenAll(map) ==
  LET count[v \in Vtbl] ==
        each([c \in Vtbl |-> [n \in Nat |-> n + count[c]]], ascending(map[v]), 1)
  IN count

(* every path to a vtable counts it                                        *)
calculateChildrenCounts(map) ==
  LET count[v \in Vtbl] ==
        each([c \in Vtbl |-> [n \in Nat |-> n + count[c]]], ascending(map[v]),
             IF isDefined(v) THEN 1 ELSE 0)
  IN count

buildClouds ==
  /\ at("buildClouds") /\ step
  /\ cloudMap' = [v \in Vtbl |-> {c \in Vtbl : v \in cloud.parents[c]}]
  /\ cloudSizeMap' = calculateChildrenCounts(cloudMap')
  /\ UNCHANGED <<cloud, interleave, prePadMap, interleavingMap, alignment,
                 newLayoutInds, newVTableStartAddrMap, rangeMap, memRangeMap>>

hasFirstDefinedChild(v) == \E c \in Range(preorder(v)) : c # v /\ isDefined(c)

getFirstDefinedChild(v) ==
  only(preorder(v), Objects \ {v})[1]

definedOrFirst(v) == IF isDefined(v) THEN v ELSE getFirstDefinedChild(v)
known(v) == isDefined(v) \/ hasFirstDefinedChild(v)

-----------------------------------------------------------------------------
(* The two layouts.                                                        *)

(* wrong: the padding is the difference, also where it is negative         *)
prePaddingUnchecked(pre) ==
  LET padChild(pad, p, c) ==
        [pad EXCEPT ![c] = cloud.neg[p] + pad[p] - cloud.neg[c] - pad[c]]
      padChildren(p) ==
        [c \in Vtbl |-> [pad \in [Vtbl -> Int] |-> padChild(pad, p, c)]]
  IN each([p \in Vtbl |-> [pad \in [Vtbl -> Int] |->
                             each(padChildren(p), children(p), pad)]],
          only(pre, Objects), prePadMap)

(* A vtable is padded to start no later than those it derives from, unless *)
(* it comes before them in the pre-order.                                  *)
prePadding(pre) ==
  LET padChild(pad, p, c) ==
        LET parentPre == cloud.neg[p] + pad[p]
            childPre  == cloud.neg[c] + pad[c]
        IN IF indexIn(pre, c) < indexIn(pre, p) \/ parentPre <= childPre
           THEN pad ELSE [pad EXCEPT ![c] = parentPre - childPre]
      padChildren(p) ==
        [c \in Vtbl |-> [pad \in [Vtbl -> Int] |-> padChild(pad, p, c)]]
  IN each([p \in Vtbl |-> [pad \in [Vtbl -> Int] |->
                             each(padChildren(p), children(p), pad)]],
          only(pre, Objects), prePadMap)

(* wrong: in the order of the names                                        *)
fillsByName(pre, x, y) == x[2] < y[2] \/ (x[2] = y[2] /\ x[1] < y[1])

(* wrong: the first round takes the first entry of every vtable            *)
fillsFromStart(pre, x, y) ==
  LET round(z) == z[2] + cloud.neg[z[1]]
  IN \/ round(x) < round(y)
     \/ round(x) = round(y) /\ indexIn(pre, x[1]) < indexIn(pre, y[1])

(* fillVtablePart: round i takes entry i of every vtable that has one, in  *)
(* pre-order.  An entry x stands before y                                  *)
fillsBefore(pre, x, y) ==
  \/ x[2] < y[2]
  \/ x[2] = y[2] /\ indexIn(pre, x[1]) < indexIn(pre, y[1])

interleaved(pre, pad) ==
  LET entries == UNION {{v} \X ((-(cloud.neg[v] + pad[v]))..(cloud.pos[v] - 1)) :
                          v \in Objects}
      before(x, y) == fillsBefore(pre, x, y)
  IN inOrder(entries, before)

(* orderCloud: dummies up to the next aligned address point                *)
ordered(pre, align) ==
  LET dummies(list, v) ==
        [k \in 1..((-(Len(list) + cloud.neg[v])) % align) |-> <<Dummy, 0>>]
      entries(v) == [k \in 1..size(cloud, v) |-> <<v, k - 1 - cloud.neg[v]>>]
      put == [v \in Objects |-> [list \in Seq(Nat \X Int) |->
                                  list \o dummies(list, v) \o entries(v)]]
  IN each(put, only(pre, Objects), <<>>)

layoutCloud ==
  /\ at("layoutCloud") /\ step
  /\ IF interleave
     THEN /\ prePadMap' = prePadding(cloudOrder)
          /\ interleavingMap' = interleaved(cloudOrder, prePadMap')
          /\ alignment' = WORD_WIDTH
     ELSE /\ interleavingMap' = ordered(cloudOrder, orderAlignment(cloud))
          /\ alignment' = orderAlignment(cloud) * WORD_WIDTH
          /\ UNCHANGED prePadMap
  /\ UNCHANGED <<cloud, interleave, cloudMap, cloudSizeMap, newLayoutInds,
                 newVTableStartAddrMap, rangeMap, memRangeMap>>

calculateNewLayoutInds ==
  /\ at("calculateNewLayoutInds") /\ step
  /\ newLayoutInds' =
       [v \in Objects |->
          ascending({k - 1 : k \in {k \in DOMAIN interleavingMap :
                                      interleavingMap[k][1] = v}})]
  /\ UNCHANGED <<cloud, interleave, cloudMap, cloudSizeMap, prePadMap,
                 interleavingMap, alignment, newVTableStartAddrMap, rangeMap,
                 memRangeMap>>

(* The index of an entry is looked up as if there were no padding.         *)
newIndex(v, entry) == newLayoutInds[v][cloud.neg[v] + entry + 1]

createNewVTable ==
  /\ at("createNewVTable") /\ step
  /\ newVTableStartAddrMap' = [v \in Objects |-> newIndex(v, 0)]
  /\ UNCHANGED <<cloud, interleave, cloudMap, cloudSizeMap, prePadMap,
                 interleavingMap, alignment, newLayoutInds, rangeMap,
                 memRangeMap>>

-----------------------------------------------------------------------------
(* Ranges.                                                                 *)

rangeBefore(r, s) == r[1] < s[1] \/ (r[1] = s[1] /\ r[2] < s[2])

(* wrong: ranges that touch stay apart                                     *)
coalesceOverlaps(ranges) == inOrder(ranges, rangeBefore)

coalesce(ranges) ==
  LET add(done, r) ==
        LET last == done[Len(done)]
        IN IF done = <<>> \/ last[2] < r[1] THEN Append(done, r)
           ELSE IF last[2] < r[2]
                THEN [done EXCEPT ![Len(done)] = <<last[1], r[2]>>]
                ELSE done
  IN each([r \in ranges |-> [done \in Seq(Nat \X Nat) |-> add(done, r)]],
          inOrder(ranges, rangeBefore), <<>>)

calculateVPtrRangesHelper(pre) ==
  LET ranges[v \in Vtbl] ==
        LET i == indexIn(pre, v)
        IN coalesce({<<i, i + 1>>} \cup UNION {Range(ranges[c]) : c \in cloudMap[v]})
  IN ranges

(* the positions of a range whose vtables are defined                      *)
definedIn(pre, r) == ascending({i \in r[1]..(r[2] - 1) : isDefined(pre[i])})

(* wrong: undefined vtables count                                          *)
memRangesAll(pre, ranges) ==
  LET some == only(ranges, {r \in Range(ranges) : definedIn(pre, r) # <<>>})
  IN [k \in DOMAIN some |->
        <<newVTableStartAddrMap[pre[definedIn(pre, some[k])[1]]],
          some[k][2] - some[k][1]>>]

(* from the first defined vtable of a range, as many as are defined        *)
memRanges(pre, ranges) ==
  LET some == only(ranges, {r \in Range(ranges) : definedIn(pre, r) # <<>>})
  IN [k \in DOMAIN some |->
        <<newVTableStartAddrMap[pre[definedIn(pre, some[k])[1]]],
          Len(definedIn(pre, some[k]))>>]

calculateVPtrRanges ==
  /\ at("calculateVPtrRanges") /\ step
  /\ LET pre == cloudOrder
     IN /\ rangeMap' = calculateVPtrRangesHelper(pre)
        /\ memRangeMap' = [v \in Vtbl |-> memRanges(pre, rangeMap'[v])]
  /\ UNCHANGED <<cloud, interleave, cloudMap, cloudSizeMap, prePadMap,
                 interleavingMap, alignment, newLayoutInds,
                 newVTableStartAddrMap>>

Next == buildClouds \/ layoutCloud \/ calculateNewLayoutInds
        \/ createNewVTable \/ calculateVPtrRanges

Spec == Init /\ [][Next]_vars

-----------------------------------------------------------------------------
(* The checks at run time, of the vtable pointer of an object o.           *)

(* The address of an index of the array; only differences matter.          *)
address(index) == index * WORD_WIDTH

vptrOf(o) == address(newVTableStartAddrMap[o])

(* handleSDGetCheckedVtbl: every range of the static class is tried        *)
vcallAccepts(v, o) ==
  \E r \in Range(memRangeMap[v]) :
    sd_subst_check_range(vptrOf(o), address(r[1]), r[2], alignment)

(* handleCheckCast                                                         *)
castAccepts(v, o) ==
  LET start == vptrOf(definedOrFirst(v))
      width == cloudSizeMap[cloud.primary[v]]
  IN /\ known(v)
     /\ IF width > 1
        THEN type_casting_verification_ranged(vptrOf(o), start, width, alignment)
        ELSE vptrOf(o) = start

(* translateVtblInd: where a call through static class v looks for entry   *)
translateVtblInd(v, entry) ==
  newIndex(definedOrFirst(v), entry) - newIndex(definedOrFirst(v), 0)

called(v, entry, o) ==
  interleavingMap[newVTableStartAddrMap[o] + translateVtblInd(v, entry) + 1]

-----------------------------------------------------------------------------
(* Properties of the finished layout.                                      *)

Built == at("done")
derivedObjects(v) == descendants(v) \cap Objects

(* The vtables address points of a range lie as far apart as the checks    *)
(* assume: always where they are interleaved, and in the ordered layout    *)
(* where no vtable has more entries before its address point than another. *)
Even == interleave \/ SamePrefix

(* The assertion on verifyVPtrRanges (CastSanLayoutBuilder.cpp:795): the   *)
(* ranges of a vtable do not touch, and hold what derives from it.         *)
RangesVerified ==
  Built =>
    \A v \in Vtbl :
      LET rs == rangeMap[v]
          positions == UNION {r[1]..(r[2] - 1) : r \in Range(rs)}
      IN /\ \A k \in 1..(Len(rs) - 1) : rs[k][2] < rs[k + 1][1]
         /\ positions = {indexIn(cloudOrder, d) : d \in descendants(v)}

(* A virtual call accepts every object of a class that derives from its    *)
(* static class, also where several paths lead to that class and its       *)
(* vtables are in several ranges.                                          *)
VcallAcceptsDerived ==
  Built /\ Even => \A v \in Vtbl : \A o \in derivedObjects(v) : vcallAccepts(v, o)

(* The first vtable that is defined after the positions of range r.        *)
isNextAfter(o, r) ==
  LET after(u) == indexIn(cloudOrder, u) >= r[2]
  IN /\ after(o)
     /\ \A u \in Objects :
          after(u) => indexIn(cloudOrder, o) <= indexIn(cloudOrder, u)

(* The comparison with <= lets a virtual call accept more, but never more  *)
(* than the one vtable that follows a range.                               *)
VcallRejectsOthers ==
  Built =>
    \A v \in Vtbl, o \in Objects :
      vcallAccepts(v, o) =>
        \/ o \in descendants(v)
        \/ \E r \in Range(rangeMap[v]) : isNextAfter(o, r)

(* Where no vtable is reached on two paths, a cast is accepted exactly for *)
(* the objects of derived classes.                                         *)
CastExact ==
  Built /\ Even /\ IsTree =>
    \A v \in Vtbl, o \in Objects : castAccepts(v, o) <=> o \in descendants(v)

(* A virtual call, or the reading of an offset before the address point,   *)
(* finds in the new array the entry that the object's vtable had at that   *)
(* place, whatever static class the call goes through.                     *)
EntryReached(v, o) ==
  \A e \in (-cloud.neg[v])..(cloud.pos[v] - 1) : called(v, e, o) = <<o, e>>

CallsReachEntry ==
  Built /\ IsTree =>
    \A v \in Vtbl, o \in Objects : repeats(o, v) => EntryReached(v, o)

(* "Check that the relative vtable offsets are the same for every          *)
(* parent/child class pair" (CastSanLayoutBuilder.cpp:213), also for the   *)
(* pairs that the code skips: those where the vtable that repeats another  *)
(* comes before it in the pre-order.                                       *)
OffsetsAgree ==
  Built => \A v \in Vtbl, o \in Objects : repeats(o, v) => EntryReached(v, o)
=============================================================================
