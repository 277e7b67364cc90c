---------------------------- MODULE MCMapThreads ---------------------------
(***************************************************************************)
(* Instances of MapThreads for TLC.                                        *)
(***************************************************************************)
EXTENDS MapThreads

(* An array of one or two objects at 1, which is given out again and       *)
(* again, and an object on the stack in the slot of the first.  They are   *)
(* of different types, so that an entry taken for another's shows.         *)
MCTypesAt == [a \in Addr |-> CASE a = 1 -> {0} [] a = 3 -> {1} [] OTHER -> {}]
=============================================================================
