--------------------------- MODULE MCVTableLayout ---------------------------
(***************************************************************************)
(* Small clouds, as the front end describes them                           *)
(* (clang/lib/AST/VTableBuilder.cpp, CastSanVtblMD.h): a vtable repeats    *)
(* the entries of one it is derived from and may add some on both sides.   *)
(* A second parent comes from a virtual base b of two classes p and q that *)
(* a class derives from: either the vtable of b in that class, which       *)
(* repeats those of b in p and in q, or, where p and q share their vtable  *)
(* with b, the one of p in that class, which is then also recorded under   *)
(* q; the class has another vtable that repeats the one of q.              *)
(***************************************************************************)
EXTENDS VTableLayout

CONSTANTS
  TreeSize, DiamondSize,  \* vtables of a cloud without and with a second parent
  MaxNeg, MaxPos,         \* entries before and from the address point
  MaxMissing              \* undefined vtables of a cloud without second parent

MinNeg == 2    \* offset to top and type information

RECURSIVE reaches(_, _, _)
reaches(e, v, n) == v = Root \/ (n > 0 /\ reaches(e, e[v], n - 1))

trees(n) ==
  {e \in [1..n -> 1..n] : e[Root] = Root /\ \A v \in 1..n : reaches(e, v, n)}

growing(e, lo, hi) ==
  {s \in [DOMAIN e -> lo..hi] : \A v \in DOMAIN e : s[e[v]] <= s[v]}

described(e, more, ng, ps, undef, prim) ==
  [parents |-> [v \in DOMAIN e |->
                  IF v = Root THEN {}
                  ELSE {e[v]} \cup (IF v = more[1] THEN {more[2]} ELSE {})],
   extends |-> e, neg |-> ng, pos |-> ps, undefined |-> undef,
   primary |-> [v \in DOMAIN e |-> IF v = prim[1] THEN prim[2] ELSE v]]

none == <<0, 0>>

TreeClouds ==
  UNION {{described(e, none, ng, ps, u, none) :
            ng \in growing(e, MinNeg, MaxNeg), ps \in growing(e, 1, MaxPos),
            u \in {u \in SUBSET DOMAIN e : Cardinality(u) <= MaxMissing}} :
         e \in trees(TreeSize)}

(* Two bases have each a vtable of the form of the root's: a class that is *)
(* derived from both has two as well, v and w, and v is the first.         *)
RepeatedClouds ==
  UNION {UNION {{described(c[1], none, ng, ps, u, <<c[3], c[2]>>) :
                   ng \in growing(c[1], MinNeg, MaxNeg),
                   ps \in growing(c[1], 1, MaxPos), u \in {{}, {c[2], c[3]}}}} :
         c \in {<<e, v, w>> \in trees(DiamondSize) \X (1..DiamondSize) \X (1..DiamondSize) :
                  /\ v < w /\ e[v] # e[w] /\ Root \notin {e[v], e[w]}
                  /\ e[e[v]] = Root /\ e[e[w]] = Root
                  /\ \A x \in DOMAIN e : e[x] \notin {v, w}}}

(* v is derived from p = e[v]; q is another vtable derived from e[p] = b   *)
crossings ==
  {<<e, v, q>> \in trees(DiamondSize) \X (1..DiamondSize) \X (1..DiamondSize) :
     Root \notin {v, q, e[v]} /\ q \notin {v, e[v]} /\ e[q] = e[e[v]]}

mayMiss(e, v, q) == {{}, {Root}, {q}, {e[v]}}

virtualNeg(e, v, q) ==
  {ng \in growing(e, MinNeg, MaxNeg) : ng[e[q]] < ng[q] /\ ng[q] = ng[e[v]]}

(* the vtable of b in the class repeats those of b in p and q              *)
sharedBase(e, v, q) ==
  {described(e, <<v, q>>, ng, ps, u, none) :
     ng \in {g \in virtualNeg(e, v, q) : g[v] = g[q]},
     ps \in {s \in growing(e, 1, MaxPos) :
               \A w \in {v, q, e[v]} : s[w] = s[e[q]]},
     u \in mayMiss(e, v, q)}

(* v is the first vtable of the class, v + 1 the one that repeats q        *)
sharedPrimary(e, v, q) ==
  IF v + 1 \in DOMAIN e /\ v + 1 # q /\ e[v + 1] = q
  THEN {described(e, <<v, q>>, ng, ps, u, <<v + 1, v>>) :
          ng \in {g \in virtualNeg(e, v, q) : g[v] >= g[q] /\ g[v + 1] = g[q]},
          ps \in {s \in growing(e, 1, MaxPos) : s[v + 1] = s[q]},
          u \in mayMiss(e, v, q)}
  ELSE {}

SharedPrimaryClouds ==
  UNION {sharedPrimary(c[1], c[2], c[3]) : c \in crossings}

DiamondClouds ==
  UNION {sharedBase(c[1], c[2], c[3]) \cup sharedPrimary(c[1], c[2], c[3]) :
           c \in crossings}

AllClouds == TreeClouds \cup RepeatedClouds \cup DiamondClouds

=============================================================================
