-------------------------- MODULE RangeChecksProofs -------------------------
(***************************************************************************)
(* Proofs that the checks decide membership, for words, alignments and     *)
(* ranges of any size, and of every pointer that can be checked.           *)
(***************************************************************************)
EXTENDS RangeChecks, TLAPS

Word == 0 .. Word64 - 1

(* The alignment divides the word: both are powers of two.                 *)
Alignments == {align \in Nat \ {0} : Word64 % align = 0}

-----------------------------------------------------------------------------
(* Arithmetic.                                                             *)

(* The subtraction is modulo the size of a word.                           *)
LEMMA MinusWord ==
  ASSUME NEW x \in Word, NEW y \in Word
  PROVE  /\ minus64(x, y) \in Word
         /\ x >= y => minus64(x, y) = x - y
         /\ x < y => minus64(x, y) = Word64 + x - y
  BY Word64Assumption DEF minus64, Word

(* A check without a rotation is membership in a range that does not wrap: *)
(* what is below the range becomes a number that no width exceeds.         *)
LEMMA MinusIsMembership ==
  ASSUME NEW x \in Word, NEW start \in Nat, NEW width \in Nat,
         start + width <= Word64
  PROVE  minus64(x, start) >= width <=> ~(start <= x /\ x < start + width)
<1>1. x \in Nat /\ x < Word64 /\ Word64 \in Nat
  BY Word64Assumption DEF Word
<1>2. CASE x >= start
  BY <1>1, <1>2 DEF minus64
<1>3. CASE x < start
  BY <1>1, <1>3 DEF minus64
<1>4. QED
  BY <1>1, <1>2, <1>3

(* Multiplication is monotonic.                                            *)
LEMMA TimesMonotonic ==
  \A a, b, c \in Nat : a <= b => a * c <= b * c
  OBVIOUS

(* The quotient and the remainder of a division.                           *)
LEMMA Division ==
  ASSUME NEW d \in Nat, NEW a \in Nat \ {0}
  PROVE  /\ d \div a \in Nat /\ d % a \in 0 .. a - 1
         /\ d = (d \div a) * a + (d % a)
  OBVIOUS

(* A multiple has itself as quotient and no remainder.                     *)
LEMMA DivisionExact ==
  ASSUME NEW a \in Nat \ {0}, NEW b \in Nat
  PROVE  (b * a) \div a = b /\ (b * a) % a = 0
  OBVIOUS

(* An alignment splits the word.                                           *)
LEMMA AlignmentSplits ==
  ASSUME NEW align \in Alignments
  PROVE  /\ align \in Nat \ {0}
         /\ Word64 \div align \in Nat
         /\ Word64 = (Word64 \div align) * align
<1>1. align \in Nat \ {0} /\ Word64 % align = 0 /\ Word64 \in Nat
  BY Word64Assumption DEF Alignments
<1> DEFINE q == Word64 \div align
<1>2. q \in Nat /\ Word64 = q * align + (Word64 % align)
  BY <1>1, Division
<1> HIDE DEF q
<1>3. Word64 = q * align
  BY <1>1, <1>2
<1>4. QED
  BY <1>1, <1>2, <1>3 DEF q

-----------------------------------------------------------------------------
(* The rotation.                                                           *)

(* A rotated word is a number.                                             *)
LEMMA RotatedNat ==
  ASSUME NEW align \in Alignments, NEW d \in Word
  PROVE  diffRor(d, align) \in Nat
<1>1. align \in Nat \ {0} /\ Word64 \div align \in Nat /\ d \in Nat
  BY AlignmentSplits, Word64Assumption DEF Word
<1> DEFINE q == d \div align
           r == d % align
<1>2. q \in Nat /\ r \in 0 .. align - 1
  BY <1>1, Division
<1>3. diffRor(d, align) = q + (r * (Word64 \div align))
  BY DEF diffRor, diffShr, diffShl
<1> HIDE DEF q, r
<1>4. QED
  BY <1>1, <1>2, <1>3

(* A rotated word is less than a number no greater than Word64 \div align  *)
(* only if the word is that many alignments at most: the remainder of any  *)
(* other word has become the high bits.                                    *)
LEMMA RotationExact ==
  ASSUME NEW align \in Alignments, NEW d \in Word,
         NEW n \in Nat, n <= Word64 \div align
  PROVE  diffRor(d, align) < n <=> \E i \in 0 .. n - 1 : d = i * align
<1> DEFINE q == d \div align
           r == d % align
           w == Word64 \div align
<1>1. align \in Nat \ {0} /\ w \in Nat /\ d \in Nat
  BY AlignmentSplits, Word64Assumption DEF Word
<1>2. q \in Nat /\ r \in Nat /\ d = q * align + r
  BY <1>1, Division
<1>3. diffRor(d, align) = q + (r * w)
  BY DEF diffRor, diffShr, diffShl
<1>4. ASSUME diffRor(d, align) < n
      PROVE  \E i \in 0 .. n - 1 : d = i * align
  <2> HIDE DEF q, r, w
  <2>1. r = 0
    <3>1. SUFFICES ASSUME 1 <= r PROVE FALSE
      BY <1>2
    <3>2. 1 * w <= r * w
      BY <1>1, <1>2, <3>1, TimesMonotonic
    <3>3. r * w \in Nat /\ 1 * w = w
      BY <1>1, <1>2
    <3>4. n <= w
      BY DEF w
    <3> DEFINE p == r * w
    <3>5. w <= p /\ p \in Nat /\ q + p < n
      BY <1>3, <1>4, <3>2, <3>3
    <3> HIDE DEF p
    <3>6. QED
      BY <1>1, <1>2, <3>4, <3>5
  <2>2. r * w = 0
    BY <1>1, <2>1
  <2>3. q < n
    BY <1>2, <1>3, <1>4, <2>2
  <2>4. d = q * align
    BY <1>1, <1>2, <2>1
  <2>5. QED
    BY <1>2, <2>3, <2>4
<1>5. ASSUME NEW i \in 0 .. n - 1, d = i * align
      PROVE  diffRor(d, align) < n
  <2>1. q = i /\ r = 0
    BY <1>1, <1>5, DivisionExact
  <2> HIDE DEF q, r, w
  <2>2. r * w = 0
    BY <1>1, <2>1
  <2>3. QED
    BY <1>3, <1>5, <2>1, <2>2
<1>6. QED
  BY <1>4, <1>5

(* Of the pointers, the subtraction and the rotation leave those below n   *)
(* that are i alignments from the start, i less than n, if these are all   *)
(* addresses.                                                              *)
LEMMA DistanceExact ==
  ASSUME NEW align \in Alignments, NEW vptr \in Word, NEW start \in Word,
         NEW n \in Nat \ {0}, start + ((n - 1) * align) < Word64
  PROVE  diffRor(minus64(vptr, start), align) < n
           <=> \E i \in 0 .. n - 1 : vptr = start + (i * align)
<1> DEFINE d    == minus64(vptr, start)
           last == (n - 1) * align
           w    == Word64 \div align
<1>1. /\ align \in Nat \ {0} /\ w \in Nat /\ Word64 = w * align
      /\ vptr \in Nat /\ start \in Nat /\ Word64 \in Nat
      /\ vptr < Word64 /\ start < Word64
  BY AlignmentSplits, Word64Assumption DEF Word
<1>2. d \in Word
  BY MinusWord
<1>3. last \in Nat /\ last < Word64
  BY <1>1
<1>4. n <= w
  <2>1. SUFFICES ASSUME w <= n - 1 PROVE FALSE
    BY <1>1
  <2>2. w * align <= last
    BY <1>1, <2>1, TimesMonotonic
  <2>3. QED
    BY <1>1, <1>3, <2>2
<1>5. diffRor(d, align) < n <=> \E i \in 0 .. n - 1 : d = i * align
  BY <1>2, <1>4, RotationExact
<1>6. ASSUME NEW i \in 0 .. n - 1
      PROVE  d = i * align <=> vptr = start + (i * align)
  <2> DEFINE p == i * align
  <2>1. p \in Nat /\ p <= last
    BY <1>1, TimesMonotonic
  <2> HIDE DEF p, last, d
  <2>2. /\ vptr >= start => d = vptr - start
        /\ vptr < start => d = Word64 + vptr - start
    BY MinusWord DEF d
  <2>3. start + last < Word64
    BY DEF last
  <2>4. d = p <=> vptr = start + p
    BY <1>1, <1>3, <2>1, <2>2, <2>3
  <2>5. QED
    BY <2>4 DEF p
<1>7. QED
  BY <1>5, <1>6

-----------------------------------------------------------------------------
(* The checks.                                                             *)

(* A cast (hextype.cc:49) accepts exactly the address points of the width  *)
(* vtables from the one at start, one alignment apart: of all the words    *)
(* that can stand where a vtable pointer is expected, none that is         *)
(* misaligned, lower or higher.                                            *)
THEOREM CastCheckExact ==
  ASSUME NEW align \in Alignments, NEW vptr \in Word, NEW start \in Word,
         NEW width \in Nat \ {0}, start + ((width - 1) * align) < Word64
  PROVE  type_casting_verification_ranged(vptr, start, width, align)
           <=> \E i \in 0 .. width - 1 : vptr = start + (i * align)
  BY DistanceExact DEF type_casting_verification_ranged

(* A virtual call (CastSanUpdateIndices.cpp:1050-1082) accepts the address *)
(* points of the range and the one that would follow it, if the range is   *)
(* of more than one vtable, and nothing else.                              *)
THEOREM CallCheckExact ==
  ASSUME NEW align \in Alignments, NEW vptr \in Word, NEW start \in Word,
         NEW width \in Nat \ {0}, start + (width * align) < Word64
  PROVE  sd_subst_check_range(vptr, start, width, align)
           <=> \E i \in 0 .. (IF width = 1 THEN 0 ELSE width) :
                 vptr = start + (i * align)
<1> DEFINE distance == diffRor(minus64(vptr, start), align)
<1>1. align \in Nat /\ vptr \in Nat /\ start \in Nat
  BY AlignmentSplits, Word64Assumption DEF Word
<1>2. CASE width = 1
  <2>1. sd_subst_check_range(vptr, start, width, align) <=> vptr = start
    BY <1>2 DEF sd_subst_check_range
  <2>2. start + (0 * align) = start
    BY <1>1
  <2>3. QED
    BY <1>2, <2>1, <2>2
<1>3. CASE width > 1
  <2>1. (width + 1) - 1 = width /\ width + 1 \in Nat \ {0}
    OBVIOUS
  <2>2. distance < width + 1 <=>
          \E i \in 0 .. width : vptr = start + (i * align)
    BY <2>1, DistanceExact
  <2>3. distance \in Int
    BY MinusWord, RotatedNat
  <2>4. sd_subst_check_range(vptr, start, width, align)
          <=> distance < width + 1
    BY <1>3, <2>3 DEF sd_subst_check_range
  <2>5. QED
    BY <1>3, <2>2, <2>4
<1>4. QED
  BY <1>2, <1>3
=============================================================================
