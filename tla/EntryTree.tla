----------------------------- MODULE EntryTree -----------------------------
(***************************************************************************)
(* What the trees of the object type map promise to the runtime: a map     *)
(* from keys to entries.  A key is the part of an address that compare()   *)
(* looks at.  ObjTypeMap keeps one such map per slot, hexTree[s]; RBTree   *)
(* is the red-black tree that implements it.                               *)
(***************************************************************************)
EXTENDS Naturals

CONSTANTS
  Key,            \* what compare() tells apart
  keyOf(_),       \* the key of an address
  Entry,          \* records with a field ObjAddr
  Addr,           \* the addresses looked up and deleted
  None            \* marks a key without an entry

VARIABLE map

MapInit == map = [k \in Key |-> None]

Set(key, e) ==
  /\ map'[key] = e
  /\ \A k \in Key \ {key} : map'[k] = map[k]

(* An entry is filed under its own address, over the one with its key.     *)
Put(e) == Set(keyOf(e.ObjAddr), e)

Drop(a) == Set(keyOf(a), None)

MapNext == (\E e \in Entry : Put(e)) \/ (\E a \in Addr : Drop(a))

MapSpec == MapInit /\ [][MapNext]_map
=============================================================================
