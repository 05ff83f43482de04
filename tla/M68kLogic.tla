----------------------------- MODULE M68kLogic -----------------------------
(***************************************************************************)
(* Bits: the logical, single-bit, shift and rotate templates of m68k_in.c. *)
(* The conventions are M68kArithmetic's.                                   *)
(***************************************************************************)
EXTENDS M68kArithmetic

LogicEr(c, i, Op(_, _)) ==
    LET o   == OPER(c, i.ea, i.size)
        res == Op(Low(o.c.d[i.x], i.size), o.v)
    IN  PutD(Moved(o.c, res, i.size), i.x, i.size, res)

LogicRe(c, i, Op(_, _)) ==
    LET p   == Place(c, i.ea, i.size)
        res == Op(Low(c.d[i.x], i.size), p.v)
    IN  Put(Moved(p.c, res, i.size), i.ea, p, i.size, res)

LogicImmediate(c, i, Op(_, _)) ==
    LET o   == read_imm(c, i.imm, i.size)
        p   == Place(o.c, i.ea, i.size)
        res == Op(o.v, p.v)
    IN  Put(Moved(p.c, res, i.size), i.ea, p, i.size, res)

\* To CCR the immediate is a byte of a word; set_ccr looks at five bits.
LogicToCcr(c, i, Op(_, _)) ==
    LET o == read_imm(c, i.imm, 2) IN set_ccr(o.c, Op(get_ccr(c), o.v))
LogicToSr(c, i, Op(_, _)) ==
    LET o == read_imm(c, i.imm, 2) IN exception_if_user(c, set_sr(o.c, Op(get_sr(c), o.v)))

BitAnd(a, b) == And[a, b]

and_er(c, i)   == LogicEr(c, i, BitAnd)
and_re(c, i)   == LogicRe(c, i, BitAnd)
andi(c, i)     == LogicImmediate(c, i, BitAnd)
andi_toc(c, i) == LogicToCcr(c, i, BitAnd)
andi_tos(c, i) == LogicToSr(c, i, BitAnd)
or_er(c, i)    == LogicEr(c, i, Or)
or_re(c, i)    == LogicRe(c, i, Or)
ori(c, i)      == LogicImmediate(c, i, Or)
ori_toc(c, i)  == LogicToCcr(c, i, Or)
ori_tos(c, i)  == LogicToSr(c, i, Or)
eor(c, i)      == LogicRe(c, i, Xor)
eori(c, i)     == LogicImmediate(c, i, Xor)
eori_toc(c, i) == LogicToCcr(c, i, Xor)
eori_tos(c, i) == LogicToSr(c, i, Xor)

not(c, i) ==
    LET p == Place(c, i.ea, i.size)  res == Not(p.v, i.size)
    IN  Put(Moved(p.c, res, i.size), i.ea, p, i.size, res)

clr(c, i) ==
    LET p == Place(c, i.ea, i.size) IN Put(Moved(p.c, 0, i.size), i.ea, p, i.size, 0)

tst(c, i) == LET o == OPER(c, i.ea, i.size) IN Moved(o.c, o.v, i.size)

\* tas_callback is not installed: the locked write always goes through.
tas(c, i) ==
    LET p == Place(c, i.ea, 1)
    IN  Put(Moved(p.c, p.v, 1), i.ea, p, 1, Or(p.v, 2^(Bits(1) - 1)))

swap(c, i) ==
    LET res == LSR(c.d[i.y], Bits(2)) + Span(2) * Low(c.d[i.y], 2)
    IN  SetD(Moved(c, res, 4), i.y, res)

----------------------------------------------------------------------------
(* Single bits: modulo 32 of a register, modulo 8 of a byte in memory.     *)

BitNumber(o, v) == v % (IF o.mode = "d" THEN Bits(4) ELSE Bits(1))
BitSize(o)      == IF o.mode = "d" THEN 4 ELSE 1

btst_r(c, i) ==
    LET o == OPER(c, i.ea, BitSize(i.ea))
    IN  [o.c EXCEPT !.z = ~Bit(o.v, BitNumber(i.ea, c.d[i.x]))]

btst_s(c, i) ==
    LET b == read_imm(c, i.imm, 1)  o == OPER(b.c, i.ea, BitSize(i.ea))
    IN  [o.c EXCEPT !.z = ~Bit(o.v, BitNumber(i.ea, b.v))]

\* c1 is the cpu after the bit number k has been read.
BitChanged(c1, i, k, Op(_, _)) ==
    LET p == Place(c1, i.ea, BitSize(i.ea))  b == BitNumber(i.ea, k)
    IN  Put([p.c EXCEPT !.z = ~Bit(p.v, b)], i.ea, p, BitSize(i.ea), Op(p.v, 2^b))

BitClear(v, mask) == v - And[v, mask]

bchg_r(c, i) == BitChanged(c, i, c.d[i.x], Xor)
bclr_r(c, i) == BitChanged(c, i, c.d[i.x], BitClear)
bset_r(c, i) == BitChanged(c, i, c.d[i.x], Or)
bchg_s(c, i) == LET b == read_imm(c, i.imm, 1) IN BitChanged(b.c, i, b.v, Xor)
bclr_s(c, i) == LET b == read_imm(c, i.imm, 1) IN BitChanged(b.c, i, b.v, BitClear)
bset_s(c, i) == LET b == read_imm(c, i.imm, 1) IN BitChanged(b.c, i, b.v, Or)

----------------------------------------------------------------------------
(* Shifts of DY: by a quick count (_s) or by DX modulo 64, twice the width *)
(* of a long (_r); and of a word in memory by one place.                   *)

Count(c, i) == c.d[i.x] % (2 * Bits(4))
Operand(c, i) == Low(c.d[i.y], i.size)

\* The outcome of a shift: X and C are the last bit out, V as given.
Shifted(c, i, res, out, overflow) ==
    PutD([Moved(c, res, i.size) EXCEPT !.x = out, !.c = out, !.v = overflow],
         i.y, i.size, res)

\* A count of zero, and a rotate: X is left alone.
Unshifted(c, i, carry)    == [Moved(c, Operand(c, i), i.size) EXCEPT !.c = carry]
Rotated(c, i, res, carry) == PutD([Moved(c, res, i.size) EXCEPT !.c = carry], i.y, i.size, res)

ShiftedWord(p, i, res, out, overflow) ==
    Put([Moved(p.c, res, 2) EXCEPT !.x = out, !.c = out, !.v = overflow], i.ea, p, 2, res)

ArithmeticRight(v, k, s) == LSR(v, k) + IF GET_MSB(v, s) THEN shift_table(k, s) ELSE 0

\* The bits that pass through the sign must all be alike.
SignLost(v, k, s) ==
    LET top == And[v, shift_table(k + 1, s)] IN ~(top = 0 \/ top = shift_table(k + 1, s))

asr_s(c, i) ==
    LET v == Operand(c, i)  k == Quick(i)
    IN  Shifted(c, i, ArithmeticRight(v, k, i.size), Bit(v, k - 1), FALSE)

asr_r(c, i) ==
    LET v == Operand(c, i)  k == Count(c, i)
    IN  IF k = 0 THEN Unshifted(c, i, FALSE)
        ELSE IF k < Bits(i.size)
             THEN Shifted(c, i, ArithmeticRight(v, k, i.size), Bit(v, k - 1), FALSE)
        ELSE IF GET_MSB(v, i.size) THEN Shifted(c, i, Span(i.size) - 1, TRUE, FALSE)
        ELSE Shifted(c, i, 0, FALSE, FALSE)

asr(c, i) ==
    LET p == Place(c, i.ea, 2)
    IN  ShiftedWord(p, i, ArithmeticRight(p.v, 1, 2), Bit(p.v, 0), FALSE)

\* A byte shifted by 8 (k = 8) overflows unless it was 0: the all-ones
\* table entry must not count then.
asl_s(c, i) ==
    LET v == Operand(c, i)  k == Quick(i)
    IN  Shifted(c, i, Low(LSL(v, k), i.size), Bit(v, Bits(i.size) - k),
                IF k < Bits(i.size) THEN SignLost(v, k, i.size) ELSE v # 0)

\* Mutated asl_r: V tells only whether the sign changed in the end.
asl_r_final_sign(c, i) ==
    LET v == Operand(c, i)  k == Count(c, i)
    IN  IF k = 0 THEN Unshifted(c, i, FALSE)
        ELSE IF k < Bits(i.size)
             THEN Shifted(c, i, Low(LSL(v, k), i.size), Bit(v, Bits(i.size) - k),
                          GET_MSB(v, i.size) # GET_MSB(LSL(v, k), i.size))
        ELSE Shifted(c, i, 0, k = Bits(i.size) /\ Bit(v, 0), v # 0)

asl_r(c, i) ==
    LET v == Operand(c, i)  k == Count(c, i)
    IN  IF k = 0 THEN Unshifted(c, i, FALSE)
        ELSE IF k < Bits(i.size)
             THEN Shifted(c, i, Low(LSL(v, k), i.size), Bit(v, Bits(i.size) - k),
                          SignLost(v, k, i.size))
        ELSE Shifted(c, i, 0, k = Bits(i.size) /\ Bit(v, 0), v # 0)

asl(c, i) ==
    LET p == Place(c, i.ea, 2)
    IN  ShiftedWord(p, i, Low(LSL(p.v, 1), 2), GET_MSB(p.v, 2), SignLost(p.v, 1, 2))

lsr_s(c, i) ==
    LET v == Operand(c, i)  k == Quick(i)
    IN  Shifted(c, i, LSR(v, k), Bit(v, k - 1), FALSE)

lsr_r(c, i) ==
    LET v == Operand(c, i)  k == Count(c, i)
    IN  IF k = 0 THEN Unshifted(c, i, FALSE)
        ELSE IF k < Bits(i.size) THEN Shifted(c, i, LSR(v, k), Bit(v, k - 1), FALSE)
        ELSE Shifted(c, i, 0, k = Bits(i.size) /\ GET_MSB(v, i.size), FALSE)

lsr(c, i) ==
    LET p == Place(c, i.ea, 2) IN ShiftedWord(p, i, LSR(p.v, 1), Bit(p.v, 0), FALSE)

lsl_s(c, i) ==
    LET v == Operand(c, i)  k == Quick(i)
    IN  Shifted(c, i, Low(LSL(v, k), i.size), Bit(v, Bits(i.size) - k), FALSE)

lsl_r(c, i) ==
    LET v == Operand(c, i)  k == Count(c, i)
    IN  IF k = 0 THEN Unshifted(c, i, FALSE)
        ELSE IF k < Bits(i.size)
             THEN Shifted(c, i, Low(LSL(v, k), i.size), Bit(v, Bits(i.size) - k), FALSE)
        ELSE Shifted(c, i, 0, k = Bits(i.size) /\ Bit(v, 0), FALSE)

lsl(c, i) ==
    LET p == Place(c, i.ea, 2)
    IN  ShiftedWord(p, i, Low(LSL(p.v, 1), 2), GET_MSB(p.v, 2), FALSE)

----------------------------------------------------------------------------
(* Rotates, within the operand or through X.                               *)

ror_s(c, i) ==
    LET v == Operand(c, i)  k == Quick(i)
    IN  Rotated(c, i, ROR(v, k % Bits(i.size), Bits(i.size)), Bit(v, k - 1))

ror_r(c, i) ==
    LET v == Operand(c, i)  k == Count(c, i)  w == Bits(i.size)
    IN  IF k = 0 THEN Unshifted(c, i, FALSE)
        ELSE Rotated(c, i, ROR(v, k % w, w), Bit(v, (k - 1) % w))

rol_s(c, i) ==
    LET v == Operand(c, i)  k == Quick(i)
    IN  Rotated(c, i, ROL(v, k % Bits(i.size), Bits(i.size)), Bit(v, Bits(i.size) - k))

\* A whole turn leaves the operand alone; the last bit out is bit 0.
rol_r(c, i) ==
    LET v == Operand(c, i)  k == Count(c, i)  w == Bits(i.size)
    IN  IF k = 0 THEN Unshifted(c, i, FALSE)
        ELSE IF k % w = 0 THEN Unshifted(c, i, Bit(v, 0))
        ELSE Rotated(c, i, ROL(v, k % w, w), Bit(v, w - (k % w)))

RotatedWord(p, i, res, carry) ==
    Put([Moved(p.c, res, 2) EXCEPT !.c = carry], i.ea, p, 2, res)

ror(c, i) ==
    LET p == Place(c, i.ea, 2) IN RotatedWord(p, i, ROR(p.v, 1, Bits(2)), Bit(p.v, 0))
rol(c, i) ==
    LET p == Place(c, i.ea, 2) IN RotatedWord(p, i, ROL(p.v, 1, Bits(2)), GET_MSB(p.v, 2))

\* X as the bit above the operand.
WithX(c, v, s) == v + Span(s) * AsOne(c.x)

\* The rotated value's top bit is the new X.
ThroughX(c, i, res) ==
    Shifted(c, i, Low(res, i.size), Bit(res, Bits(i.size)), FALSE)

roxr_s(c, i) ==
    ThroughX(c, i, ROR(WithX(c, Operand(c, i), i.size), Quick(i), Bits(i.size) + 1))
roxl_s(c, i) ==
    ThroughX(c, i, ROL(WithX(c, Operand(c, i), i.size), Quick(i), Bits(i.size) + 1))

roxr_r(c, i) ==
    LET w == Bits(i.size) + 1
    IN  IF Count(c, i) = 0 THEN Unshifted(c, i, c.x)
        ELSE ThroughX(c, i, ROR(WithX(c, Operand(c, i), i.size), Count(c, i) % w, w))

roxl_r(c, i) ==
    LET w == Bits(i.size) + 1
    IN  IF Count(c, i) = 0 THEN Unshifted(c, i, c.x)
        ELSE ThroughX(c, i, ROL(WithX(c, Operand(c, i), i.size), Count(c, i) % w, w))

WordThroughX(p, i, res) ==
    ShiftedWord(p, i, Low(res, 2), Bit(res, Bits(2)), FALSE)

roxr(c, i) ==
    LET p == Place(c, i.ea, 2) IN WordThroughX(p, i, ROR(WithX(c, p.v, 2), 1, Bits(2) + 1))
roxl(c, i) ==
    LET p == Place(c, i.ea, 2) IN WordThroughX(p, i, ROL(WithX(c, p.v, 2), 1, Bits(2) + 1))

=============================================================================
