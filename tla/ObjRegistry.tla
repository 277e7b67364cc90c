---------------------------- MODULE ObjRegistry ----------------------------
(***************************************************************************)
(* What the object type map of the CastSan runtime promises to the         *)
(* instrumented program: a partial map from object addresses to the fake   *)
(* vpointer of the object's type, with a cast check that reads it.         *)
(* The specification says nothing of slots, hashes or trees; the module    *)
(* ObjTypeMap is the detailed specification that implements it.            *)
(***************************************************************************)
EXTENDS Naturals

CONSTANTS
  Addr,       \* addresses at which the program creates objects
  NullPtr,    \* the null pointer, at which there is no object
  FakeVPtr,   \* fake vpointers (indices into a fake vtable)
  Ranges,     \* <<start, width>> pairs emitted for the casts of the program
  None        \* marks an address with no registered object, and no cast

VARIABLES
  reg,        \* reg[a] is the fake vpointer registered for a, or None
  verdict     \* the last cast, with its address and range, and its outcome

regVars == <<reg, verdict>>

RegInit ==
  /\ reg = [a \in Addr |-> None]
  /\ verdict = None

Register(a, f) ==
  /\ reg' = [reg EXCEPT ![a] = f]
  /\ UNCHANGED verdict

Unregister(a) ==
  /\ reg' = [reg EXCEPT ![a] = None]
  /\ UNCHANGED verdict

(* A cast is judged by plain membership of the type in the target's range; *)
(* only for an address without a registered object is nothing said.        *)
Judge(a, start, width) ==
  IF a = NullPtr \/ reg[a] = None THEN "silent"
  ELSE IF start <= reg[a] /\ reg[a] < start + width THEN "safe" ELSE "bad"

Cast(a, start, width) ==
  /\ verdict' = [addr |-> a, start |-> start, width |-> width,
                 outcome |-> Judge(a, start, width)]
  /\ UNCHANGED reg

RegNext ==
  \/ \E a \in Addr, f \in FakeVPtr : Register(a, f)
  \/ \E a \in Addr : Unregister(a)
  \/ \E a \in Addr \cup {NullPtr}, r \in Ranges : Cast(a, r[1], r[2])

RegSpec == RegInit /\ [][RegNext]_regVars
=============================================================================
