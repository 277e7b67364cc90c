--------------------------- MODULE MCObjTypeMap ----------------------------
(***************************************************************************)
(* Instances of ObjTypeMap for TLC.  The machine is scaled down with its   *)
(* proportions kept: a slot covers Align bytes, the slots together cover   *)
(* half of a 32-bit word.                                                  *)
(***************************************************************************)
EXTENDS ObjTypeMap

(* one type, which one of the two that objects have is below of            *)
MCRanges == {<<1, 1>>}
=============================================================================
