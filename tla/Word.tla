-------------------------------- MODULE Word --------------------------------
(***************************************************************************)
(* Machine words.  The code computes on u64 and i64 and, for the 32-bit    *)
(* instructions, on their low halves; here a word has WordBits bits and    *)
(* its low half HalfBits.  A word is a number in 0 .. 2^WordBits - 1, and  *)
(* bit operations are given by what they do to each bit.                   *)
(***************************************************************************)
EXTENDS Integers

CONSTANTS WordBits,    \* 64 in the code
          HalfBits     \* 32 in the code

ASSUME WidthAssumption ==
  /\ HalfBits \in Nat \ {0}
  /\ WordBits \in Nat
  /\ HalfBits < WordBits

Word    == 0 .. 2^WordBits - 1
MaxWord == 2^WordBits - 1      \* u64::MAX
MaxHalf == 2^HalfBits - 1      \* 0xFFFF_FFFF
BitPos  == 0 .. WordBits - 1

Wrap(n) == n % 2^WordBits      \* wrapping arithmetic, and i64 as u64
Low(w)  == w % 2^HalfBits      \* w & 0xFFFF_FFFF
High(w) == w - Low(w)          \* w & !0xFFFF_FFFF

MinSigned == -(2^(WordBits - 1))           \* i64::MIN
MaxSigned == 2^(WordBits - 1) - 1          \* i64::MAX
SignedWord == MinSigned .. MaxSigned

(* u64 as i64, and as i32 of the low half. *)
Signed(w)     == IF w > MaxSigned THEN w - 2^WordBits ELSE w
SignedHalf(w) == IF Low(w) >= 2^(HalfBits - 1) THEN Low(w) - 2^HalfBits ELSE Low(w)

WrapSigned(n) == Signed(Wrap(n))   \* an i64 sum in a release build

Lesser(a, b)  == IF a < b THEN a ELSE b
Greater(a, b) == IF a > b THEN a ELSE b

(* saturating_add(1) and saturating_sub(1) on u64 and on i64. *)
Inc(w)  == Lesser(w + 1, MaxWord)
Dec(w)  == Greater(w - 1, 0)
SInc(n) == Lesser(n + 1, MaxSigned)
SDec(n) == Greater(n - 1, MinSigned)

Bit(w, k) == (w \div 2^k) % 2

(* Bit by bit, from the lowest. *)
BothBits[p \in Word \X Word] ==
  IF p[1] = 0 \/ p[2] = 0 THEN 0
  ELSE (p[1] % 2) * (p[2] % 2) + 2 * BothBits[<<p[1] \div 2, p[2] \div 2>>]

And(a, b) == BothBits[<<a, b>>]
Or(a, b)  == a + b - And(a, b)
Xor(a, b) == a + b - 2 * And(a, b)
Not(a) == MaxWord - a

Shl(w, n)  == Wrap(w * 2^n)
Shr(w, n)  == w \div 2^n
Ashr(w, n) == Wrap(Signed(w) \div 2^n)

OneBit(w) == \E k \in BitPos : w = 2^k      \* count_ones() = 1
=============================================================================
