------------------------------ MODULE M68kAlu ------------------------------
(***************************************************************************)
(* The arithmetic the Musashi core's instruction handlers share: the       *)
(* macros of m68kcpu.h that cut a C integer to an operand's size, read its *)
(* sign, and compute flags, shifts and rotates with a few bit tricks.      *)
(*                                                                         *)
(* A size s is a number of bytes (1, 2 or 4) of ByteBits bits.  In the     *)
(* code ByteBits is 8; every formula is written for any even width, and    *)
(* TLC evaluates it for narrow bytes, where all operands can be tried.     *)
(* Integers are unbounded here: x \div 2^k and x % 2^k of a negative x are *)
(* the bits of its two's complement, which is what the C code's unsigned   *)
(* wrap-around keeps.                                                      *)
(***************************************************************************)
EXTENDS Integers

CONSTANTS
    ByteBits,   \* bits of a byte: 8 in the code
    Base        \* the base of packed decimal digits: 10 in the code

ASSUME WidthAssumption ==
    /\ ByteBits \in Nat /\ ByteBits > 0 /\ ByteBits % 2 = 0
    /\ Base \in 2 .. 2^(ByteBits \div 2)

Bits(s) == s * ByteBits
Span(s) == 2^Bits(s)

\* MASK_OUT_ABOVE_8/16/32 and the "MASK_OUT_BELOW(old) | new" of a store.
Low(v, s)        == v % Span(s)
Merge(old, v, s) == (old - Low(old, s)) + Low(v, s)

\* MAKE_INT_8/16/32: the signed value of the low s bytes.
MAKE_INT(v, s) ==
    IF Low(v, s) < Span(s) \div 2 THEN Low(v, s) ELSE Low(v, s) - Span(s)

\* BIT_n and GET_MSB_8/16/32.
Bit(v, k)     == (v \div 2^k) % 2 = 1
GET_MSB(v, s) == Bit(v, Bits(s) - 1)
AsOne(flag)   == IF flag THEN 1 ELSE 0

\* The C operators &, | and ^ on non-negative integers.
And[a \in Nat, b \in Nat] ==
    IF a = 0 \/ b = 0 THEN 0 ELSE (a % 2) * (b % 2) + 2 * And[a \div 2, b \div 2]
Or(a, b)  == a + b - And[a, b]
Xor(a, b) == a + b - 2 * And[a, b]
Not(a, s) == Span(s) - 1 - Low(a, s)

----------------------------------------------------------------------------
(* Carry and overflow of res = dst + src and res = dst - src.  For bytes   *)
(* and words the carry is the bit above the operand; a long has no such    *)
(* bit in a 32-bit integer and is told from the three sign bits.           *)

CFLAG_ADD(src, dst, res, s) ==
    IF s < 4 THEN Bit(res, Bits(s))
    ELSE LET S == GET_MSB(src, s) D == GET_MSB(dst, s) R == GET_MSB(res, s)
         IN  (S /\ D) \/ (~R /\ (S \/ D))

CFLAG_SUB(src, dst, res, s) ==
    IF s < 4 THEN Bit(res, Bits(s))
    ELSE LET S == GET_MSB(src, s) D == GET_MSB(dst, s) R == GET_MSB(res, s)
         IN  (S /\ R) \/ (~D /\ (S \/ R))

VFLAG_ADD(src, dst, res, s) ==
    /\ GET_MSB(src, s) # GET_MSB(res, s)
    /\ GET_MSB(dst, s) # GET_MSB(res, s)

\* Mutated VFLAG_SUB: the overflow of an addition.
VFLAG_SUB_as_add(src, dst, res, s) == VFLAG_ADD(src, dst, res, s)

VFLAG_SUB(src, dst, res, s) ==
    /\ GET_MSB(src, s) # GET_MSB(dst, s)
    /\ GET_MSB(res, s) # GET_MSB(dst, s)

----------------------------------------------------------------------------
(* Shifts.  m68ki_shift_8_table[k] (and its 16 and 32-bit siblings) has    *)
(* the k topmost bits set, all of them when k is the width or more.        *)

LSL(v, k) == v * 2^k
LSR(v, k) == v \div 2^k
shift_table(k, s) == IF k >= Bits(s) THEN Span(s) - 1 ELSE Span(s) - 2^(Bits(s) - k)

\* ROR_8/16/32 and ROL_8/16/32; with w = Bits(s) + 1 they are the ROR_9,
\* ROR_17 and ROR_33 of a rotate through X.  The code shifts the whole value
\* and masks what leaves the operand; here it is dropped first.
ROR(v, k, w) == LSR(v, k) + LSL(v % 2^k, w - k)
ROL(v, k, w) == LSL(v % 2^(w - k), k) + LSR(v, w - k)

\* C's division truncates towards zero.
Quotient(a, b) ==
    LET Abs(k) == IF k < 0 THEN -k ELSE k
    IN  IF (a < 0) = (b < 0) THEN Abs(a) \div Abs(b) ELSE -(Abs(a) \div Abs(b))
Remainder(a, b) == a - b * Quotient(a, b)

----------------------------------------------------------------------------
(* Packed decimal: two digits to a byte.  Written with Base and the        *)
(* nibble's span, the literals 6, 0x99, 0xa0 and 0x9a of the handlers are  *)
(* Adjust, TopDigits, Base * Nibble and TopDigits + 1.                     *)

Nibble == 2^(ByteBits \div 2)
LOW_NIBBLE(v)  == v % Nibble
HIGH_NIBBLE(v) == Low(v, 1) - LOW_NIBBLE(v)
Adjust    == Nibble - Base
TopDigits == (Base - 1) * Nibble + (Base - 1)
Unsigned(v) == Low(v, 4)       \* an unsigned int holds a long

=============================================================================
