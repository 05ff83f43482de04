--------------------------- MODULE M68kArithmetic --------------------------
(***************************************************************************)
(* The arithmetic instructions of the Musashi core: the handler templates  *)
(* of m68k_in.c, from which the handlers of m68kops.c are expanded once    *)
(* per operand size and addressing mode.  An operator maps                 *)
(* the cpu just after the opcode was fetched, and the instruction, to the  *)
(* cpu after the handler; it is named as the template and written for any  *)
(* size.  Operands are fetched in the order of the C code, which a pre-    *)
(* decrement or a postincrement of a register used twice tells apart.      *)
(***************************************************************************)
EXTENDS M68k

\* N and Z of a result, and with V and C cleared: the flags of a move.
NZ(c, res, s)    == [c EXCEPT !.n = GET_MSB(res, s), !.z = Low(res, s) = 0]
Moved(c, res, s) == [NZ(c, res, s) EXCEPT !.v = FALSE, !.c = FALSE]

\* The flags of an addition, of a comparison and of a subtraction.
Added(c, src, dst, res, s) ==
    [NZ(c, res, s) EXCEPT !.v = VFLAG_ADD(src, dst, res, s),
                          !.c = CFLAG_ADD(src, dst, res, s),
                          !.x = CFLAG_ADD(src, dst, res, s)]
Compared(c, src, dst, res, s) ==
    [NZ(c, res, s) EXCEPT !.v = VFLAG_SUB(src, dst, res, s),
                          !.c = CFLAG_SUB(src, dst, res, s)]
Subtracted(c, src, dst, res, s) ==
    LET f == Compared(c, src, dst, res, s) IN [f EXCEPT !.x = f.c]

\* FLAG_Z |= res: the multi-precision instructions only ever clear Z.
Sticky(old, f) == [f EXCEPT !.z = old.z /\ @]

pd(r) == [mode |-> "pd", reg |-> r]     \* OPER_AY_PD, EA_AX_PD
pi(r) == [mode |-> "pi", reg |-> r]     \* OPER_AY_PI, OPER_AX_PI

\* A word source is sign-extended before it meets an address register.
Extended(v, s) == IF s = 2 THEN MAKE_INT(v, 2) ELSE v

exception_if_user(c, done) == IF c.s THEN done ELSE exception_privilege_violation(c)

----------------------------------------------------------------------------
(* Binary arithmetic.                                                      *)

add_er(c, i) ==
    LET o == OPER(c, i.ea, i.size)  dst == Low(o.c.d[i.x], i.size)  res == o.v + dst
    IN  PutD(Added(o.c, o.v, dst, res, i.size), i.x, i.size, res)

add_re(c, i) ==
    LET p == Place(c, i.ea, i.size)  src == Low(c.d[i.x], i.size)  res == src + p.v
    IN  Put(Added(p.c, src, p.v, res, i.size), i.ea, p, i.size, res)

addi(c, i) ==
    LET o == read_imm(c, i.imm, i.size)  p == Place(o.c, i.ea, i.size)  res == o.v + p.v
    IN  Put(Added(p.c, o.v, p.v, res, i.size), i.ea, p, i.size, res)

adda(c, i) ==
    LET o == OPER(c, i.ea, i.size) IN SetA(o.c, i.x, o.c.a[i.x] + Extended(o.v, i.size))

addq(c, i) ==
    LET p == Place(c, i.ea, i.size)  res == Quick(i) + p.v
    IN  IF i.ea.mode = "a" THEN SetA(c, i.ea.reg, c.a[i.ea.reg] + Quick(i))
        ELSE Put(Added(p.c, Quick(i), p.v, res, i.size), i.ea, p, i.size, res)

addx_rr(c, i) ==
    LET src == Low(c.d[i.y], i.size)  dst == Low(c.d[i.x], i.size)
        res == src + dst + AsOne(c.x)
    IN  PutD(Sticky(c, Added(c, src, dst, res, i.size)), i.x, i.size, res)

addx_mm(c, i) ==
    LET o   == OPER(c, pd(i.y), i.size)
        p   == Place(o.c, pd(i.x), i.size)
        res == o.v + p.v + AsOne(c.x)
    IN  Put(Sticky(c, Added(p.c, o.v, p.v, res, i.size)), pd(i.x), p, i.size, res)

sub_er(c, i) ==
    LET o == OPER(c, i.ea, i.size)  dst == Low(o.c.d[i.x], i.size)  res == dst - o.v
    IN  PutD(Subtracted(o.c, o.v, dst, res, i.size), i.x, i.size, res)

sub_re(c, i) ==
    LET p == Place(c, i.ea, i.size)  src == Low(c.d[i.x], i.size)  res == p.v - src
    IN  Put(Subtracted(p.c, src, p.v, res, i.size), i.ea, p, i.size, res)

subi(c, i) ==
    LET o == read_imm(c, i.imm, i.size)  p == Place(o.c, i.ea, i.size)  res == p.v - o.v
    IN  Put(Subtracted(p.c, o.v, p.v, res, i.size), i.ea, p, i.size, res)

suba(c, i) ==
    LET o == OPER(c, i.ea, i.size) IN SetA(o.c, i.x, o.c.a[i.x] - Extended(o.v, i.size))

subq(c, i) ==
    LET p == Place(c, i.ea, i.size)  res == p.v - Quick(i)
    IN  IF i.ea.mode = "a" THEN SetA(c, i.ea.reg, c.a[i.ea.reg] - Quick(i))
        ELSE Put(Subtracted(p.c, Quick(i), p.v, res, i.size), i.ea, p, i.size, res)

subx_rr(c, i) ==
    LET src == Low(c.d[i.y], i.size)  dst == Low(c.d[i.x], i.size)
        res == dst - src - AsOne(c.x)
    IN  PutD(Sticky(c, Subtracted(c, src, dst, res, i.size)), i.x, i.size, res)

subx_mm(c, i) ==
    LET o   == OPER(c, pd(i.y), i.size)
        p   == Place(o.c, pd(i.x), i.size)
        res == p.v - o.v - AsOne(c.x)
    IN  Put(Sticky(c, Subtracted(p.c, o.v, p.v, res, i.size)), pd(i.x), p, i.size, res)

neg(c, i) ==
    LET p == Place(c, i.ea, i.size)  res == 0 - p.v
    IN  Put(Subtracted(p.c, p.v, 0, res, i.size), i.ea, p, i.size, res)

negx(c, i) ==
    LET p == Place(c, i.ea, i.size)  res == 0 - p.v - AsOne(c.x)
    IN  Put(Sticky(c, Subtracted(p.c, p.v, 0, res, i.size)), i.ea, p, i.size, res)

cmp(c, i) ==
    LET o == OPER(c, i.ea, i.size)  dst == Low(o.c.d[i.x], i.size)
    IN  Compared(o.c, o.v, dst, dst - o.v, i.size)

cmpa(c, i) ==
    LET o   == OPER(c, i.ea, i.size)
        src == Extended(o.v, i.size)
    IN  Compared(o.c, src, o.c.a[i.x], o.c.a[i.x] - src, 4)

cmpi(c, i) ==
    LET o == read_imm(c, i.imm, i.size)  p == OPER(o.c, i.ea, i.size)
    IN  Compared(p.c, o.v, p.v, p.v - o.v, i.size)

cmpm(c, i) ==
    LET o == OPER(c, pi(i.y), i.size)  p == OPER(o.c, pi(i.x), i.size)
    IN  Compared(p.c, o.v, p.v, p.v - o.v, i.size)

muls(c, i) ==
    LET o   == OPER(c, i.ea, 2)
        res == MAKE_INT(o.v, 2) * MAKE_INT(o.c.d[i.x], 2)
    IN  SetD(Moved(o.c, res, 4), i.x, res)

mulu(c, i) ==
    LET o == OPER(c, i.ea, 2)  res == o.v * Low(o.c.d[i.x], 2)
    IN  SetD(Moved(o.c, res, 4), i.x, res)

Divided(c, x, quotient, remainder) ==
    SetD(Moved(c, quotient, 2), x, Low(quotient, 2) + Span(2) * Low(remainder, 2))

\* The most negative dividend by -1 yields 0 and no overflow: C's own
\* division would trap on it.
divs(c, i) ==
    LET o   == OPER(c, i.ea, 2)
        src == MAKE_INT(o.v, 2)
        dst == MAKE_INT(o.c.d[i.x], 4)
        q   == Quotient(dst, src)
    IN  IF src = 0 THEN exception_trap(o.c, 5)
        ELSE IF dst = -(Span(4) \div 2) /\ src = -1 THEN Divided(o.c, i.x, 0, 0)
        ELSE IF q = MAKE_INT(q, 2) THEN Divided(o.c, i.x, q, Remainder(dst, src))
        ELSE [o.c EXCEPT !.v = TRUE]

divu(c, i) ==
    LET o == OPER(c, i.ea, 2)  dst == o.c.d[i.x]
    IN  IF o.v = 0 THEN exception_trap(o.c, 5)
        ELSE IF dst \div o.v < Span(2) THEN Divided(o.c, i.x, dst \div o.v, dst % o.v)
        ELSE [o.c EXCEPT !.v = TRUE]

chk(c, i) ==
    LET o     == OPER(c, i.ea, 2)
        src   == MAKE_INT(o.c.d[i.x], 2)
        bound == MAKE_INT(o.v, 2)
        c1    == [o.c EXCEPT !.z = src = 0, !.v = FALSE, !.c = FALSE]
    IN  IF src >= 0 /\ src <= bound THEN c1
        ELSE exception_trap([c1 EXCEPT !.n = src < 0], 6)

ext(c, i) ==
    LET res == MAKE_INT(c.d[i.y], i.size \div 2)
    IN  PutD(Moved(c, res, i.size), i.y, i.size, res)

----------------------------------------------------------------------------
(* Packed decimal: low nibbles, carry into the high ones, decimal carry    *)
(* out.  unsigned int comparisons see a negative intermediate as huge.     *)

BcdFlags(c, first, last, carry) ==
    Sticky(c, [NZ(c, last, 1) EXCEPT
                 !.v = ~GET_MSB(first, 1) /\ GET_MSB(last, 1), !.x = carry, !.c = carry])

\* Mutated abcd: the carry between the digits is not adjusted.
abcd_binary(c, src, dst) ==
    LET res1  == LOW_NIBBLE(src) + LOW_NIBBLE(dst) + AsOne(c.x)
        res3  == res1 + HIGH_NIBBLE(src) + HIGH_NIBBLE(dst)
        carry == res3 > TopDigits
        res   == IF carry THEN res3 - Base * Nibble ELSE res3
    IN  [c |-> BcdFlags(c, res1, res, carry), v |-> res]

abcd(c, src, dst) ==
    LET res1  == LOW_NIBBLE(src) + LOW_NIBBLE(dst) + AsOne(c.x)
        res2  == IF res1 > Base - 1 THEN res1 + Adjust ELSE res1
        res3  == res2 + HIGH_NIBBLE(src) + HIGH_NIBBLE(dst)
        carry == res3 > TopDigits
        res   == IF carry THEN res3 - Base * Nibble ELSE res3
    IN  [c |-> BcdFlags(c, res1, res, carry), v |-> res]

sbcd(c, src, dst) ==
    LET res1  == LOW_NIBBLE(dst) - LOW_NIBBLE(src) - AsOne(c.x)
        res2  == IF Unsigned(res1) > Base - 1 THEN res1 - Adjust ELSE res1
        res3  == res2 + HIGH_NIBBLE(dst) - HIGH_NIBBLE(src)
        carry == Unsigned(res3) > TopDigits
        res   == IF carry THEN res3 + Base * Nibble ELSE res3
    IN  [c |-> BcdFlags(c, res1, res, carry), v |-> res]

abcd_rr(c, i) == LET r == abcd(c, c.d[i.y], c.d[i.x]) IN PutD(r.c, i.x, 1, r.v)
sbcd_rr(c, i) == LET r == sbcd(c, c.d[i.y], c.d[i.x]) IN PutD(r.c, i.x, 1, r.v)

abcd_mm(c, i) ==
    LET o == OPER(c, pd(i.y), 1)  p == Place(o.c, pd(i.x), 1)  r == abcd(p.c, o.v, p.v)
    IN  Put(r.c, pd(i.x), p, 1, r.v)

sbcd_mm(c, i) ==
    LET o == OPER(c, pd(i.y), 1)  p == Place(o.c, pd(i.x), 1)  r == sbcd(p.c, o.v, p.v)
    IN  Put(r.c, pd(i.x), p, 1, r.v)

\* 0 - 0 without a borrow leaves the operand and Z alone.
nbcd(c, i) ==
    LET p   == Place(c, i.ea, 1)
        res == Low(TopDigits + 1 - p.v - AsOne(c.x), 1)
        new == Low(IF LOW_NIBBLE(res) = Base THEN HIGH_NIBBLE(res) + Nibble ELSE res, 1)
    IN  IF res # TopDigits + 1
        THEN Put(BcdFlags(p.c, res, new, TRUE), i.ea, p, 1, new)
        ELSE [p.c EXCEPT !.n = GET_MSB(res, 1), !.v = FALSE, !.x = FALSE, !.c = FALSE]

=============================================================================
