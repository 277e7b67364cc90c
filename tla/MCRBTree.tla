------------------------------ MODULE MCRBTree -----------------------------
(***************************************************************************)
(* Instances of RBTree for TLC.  Which memory a node lives in does not     *)
(* matter: states that differ only in that are one state to MCView.        *)
(***************************************************************************)
EXTENDS RBTree

shape(x) ==
  LET from[y \in Pointer] ==
        IF y = NULL THEN NULL
        ELSE [key |-> key[y], value |-> value[y], color |-> color[y],
              marks |-> <<y = n, y = pred, y = doomed, y = child>>,
              linked |-> \A d \in Side :
                           link[y][d] = NULL \/ parent[link[y][d]] = y,
              left |-> from[link[y]["left"]], right |-> from[link[y]["right"]]]
  IN from[x]

MCView ==
  <<pc, sought, IF inserted = NULL THEN None ELSE value[inserted], shape(root)>>
=============================================================================
