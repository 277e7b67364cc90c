----------------------------- MODULE RangeChecks ----------------------------
(***************************************************************************)
(* The arithmetic of CastSan's checks: one subtraction of 64-bit words, a  *)
(* rotation where the numbers are addresses, and one comparison decide     *)
(* membership in a range.                                                  *)
(*                                                                         *)
(* The rotation is by the bits of the alignment, a power of two.  The two  *)
(* parts of a rotated word have no bits in common, so that their           *)
(* disjunction is their sum.                                               *)
(***************************************************************************)
EXTENDS Integers

CONSTANT Word64    \* size of a 64-bit word (2^64 in the code)

ASSUME Word64Assumption == Word64 \in Nat \ {0}

(* wrong: the difference keeps its sign                                    *)
minus64Signed(x, y) == x - y

(* unsigned subtraction                                                    *)
minus64(x, y) == IF x >= y THEN x - y ELSE (x - y) + Word64

diffShr(diff, align) == diff \div align
diffShl(diff, align) == (diff % align) * (Word64 \div align)
diffRor(diff, align) == diffShr(diff, align) + diffShl(diff, align)

(* a cast: width vtables from the one at start                             *)
type_casting_verification_ranged(vptr, start, width, align) ==
  diffRor(minus64(vptr, start), align) < width

(* a virtual call, whose comparison is with <=                             *)
sd_subst_check_range(vptr, start, width, align) ==
  IF width > 1 THEN diffRor(minus64(vptr, start), align) <= width
  ELSE vptr = start
=============================================================================
