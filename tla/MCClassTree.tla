---------------------------- MODULE MCClassTree ----------------------------
(***************************************************************************)
(* All hierarchies of a few classes.                                       *)
(***************************************************************************)
EXTENDS ClassTree

CONSTANTS
  MaxBases,     \* base classes of one class
  MayDiamond,   \* a class derives from another along two paths
  MaxPhantom    \* the last class that phantoms are related to

(* the hierarchies of the classes C, the last one derived from the others  *)
RECURSIVE hierarchies(_)
hierarchies(C) ==
  LET with(c) ==
        {[d \in Class |-> IF d = c THEN s ELSE h[d]] :
           h \in hierarchies(C \ {c}),
           s \in {s \in SeqOf(C \ {c}, MaxBases) : IsInjective(s)}}
      legal(c, h) == accessible(h, c) /\ (MayDiamond \/ diamondFree(h, c))
  IN IF C = {} THEN {[d \in Class |-> <<>>]}
     ELSE UNION {{h \in with(c) : legal(c, h)} : c \in C}

AllHierarchies == hierarchies(Class)

related(h) == UNION {{p[1], p[2]} : p \in derivations(h)}

(* any phantoms, but where other classes than the first ones derive none   *)
AllPhantoms ==
  [h \in AllHierarchies |->
     IF related(h) \subseteq 1..MaxPhantom THEN SUBSET derivations(h) ELSE {{}}]
=============================================================================
