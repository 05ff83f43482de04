-------------------------- MODULE M68kInstructions -------------------------
(***************************************************************************)
(* The instructions that move data and those that move the program: the    *)
(* other templates of m68k_in.c.  The conventions are M68kArithmetic's.    *)
(***************************************************************************)
EXTENDS M68kLogic

(* Moves. *)

move_d(c, i) ==
    LET o == OPER(c, i.ea, i.size)
    IN  PutD(Moved(o.c, o.v, i.size), i.dst.reg, i.size, o.v)

\* To memory: the source is fetched before the destination is addressed.
move_m(c, i) ==
    LET o == OPER(c, i.ea, i.size)  e == EA(o.c, i.dst, i.size)
    IN  Write(Moved(e.c, o.v, i.size), e.ea, i.size, o.v)

\* A long through a predecrement goes out low word first.
move_32_pd(c, i) ==
    LET o == OPER(c, i.ea, 4)  e == EA(o.c, i.dst, 4)
    IN  Write(Write(Moved(e.c, o.v, 4), e.ea + 2, 2, Low(o.v, 2)),
              e.ea, 2, o.v \div Span(2))

movea(c, i) ==
    LET o == OPER(c, i.ea, i.size) IN SetA(o.c, i.x, Extended(o.v, i.size))
moveq(c, i) == SetD(Moved(c, MAKE_INT(i.imm, 1), 4), i.x, MAKE_INT(i.imm, 1))

move_toc(c, i) == LET o == OPER(c, i.ea, 2) IN set_ccr(o.c, o.v)

\* MOVE from SR is not privileged on a 68000.
move_frs(c, i) ==
    IF i.ea.mode = "d" THEN PutD(c, i.ea.reg, 2, get_sr(c))
    ELSE LET e == EA(c, i.ea, 2) IN Write(e.c, e.ea, 2, get_sr(e.c))

\* Mutated move_tos: open to user mode.
move_tos_unprivileged(c, i) == LET o == OPER(c, i.ea, 2) IN set_sr(o.c, o.v)

move_tos(c, i) ==
    LET o == OPER(c, i.ea, 2) IN exception_if_user(c, set_sr(o.c, o.v))

move_fru(c, i) == exception_if_user(c, SetA(c, i.y, c.sp[FALSE]))
move_tou(c, i) == exception_if_user(c, [c EXCEPT !.sp[FALSE] = c.a[i.y]])

\* MOVEM: register k of the list D0..D7, A0..A7 for each bit k of the mask,
\* from the register's value at its turn; the other way round downwards.
movem_re(c, i) ==
    LET e == EA(read_imm(c, 0, 2).c, i.ea, i.size)
        Stored[k \in 0 .. 16] ==
            IF k = 0 THEN e
            ELSE LET m == Stored[k - 1]
                 IN  IF k - 1 \in i.list
                     THEN [c |-> Write(m.c, m.ea, i.size, Reg(m.c, k - 1)), ea |-> m.ea + i.size]
                     ELSE m
    IN  Stored[16].c

movem_re_pd(c, i) ==
    LET c1 == read_imm(c, 0, 2).c
        Stored[k \in 0 .. 16] ==
            IF k = 0 THEN [c |-> c1, ea |-> c1.a[i.ea.reg]]
            ELSE LET m == Stored[k - 1]  ea == m.ea - i.size
                 IN  IF k - 1 \in i.list
                     THEN [c |-> Write(m.c, ea, i.size, Reg(m.c, 15 - (k - 1))), ea |-> ea]
                     ELSE m
    IN  SetA(Stored[16].c, i.ea.reg, Stored[16].ea)

Loaded(e, i) ==
    LET Regs[k \in 0 .. 16] ==
            IF k = 0 THEN e
            ELSE LET m == Regs[k - 1]
                     v == Extended(Read(m.c, m.ea, i.size), i.size)
                 IN  IF k - 1 \in i.list
                     THEN [c |-> SetReg(m.c, k - 1, v), ea |-> m.ea + i.size]
                     ELSE m
    IN  Regs[16]

movem_er(c, i) == Loaded(EA(read_imm(c, 0, 2).c, i.ea, i.size), i).c

movem_er_pi(c, i) ==
    LET c1 == read_imm(c, 0, 2).c
        m  == Loaded([c |-> c1, ea |-> c1.a[i.ea.reg]], i)
    IN  SetA(m.c, i.ea.reg, m.ea)

\* MOVEP: every other byte, for 8-bit peripherals.
movep_re(c, i) ==
    LET e == EA(c, i.ea, i.size)
        Part(k) == (c.d[i.x] \div 2^Bits(i.size - 1 - k)) % Span(1)
        new == [at \in {Address(e.ea + 2 * k) : k \in 0 .. i.size - 1} |->
                   Part(CHOOSE k \in 0 .. i.size - 1 : Address(e.ea + 2 * k) = at)]
    IN  [e.c EXCEPT !.mem = new @@ @]

movep_er(c, i) ==
    LET e == EA(c, i.ea, i.size)
        v[k \in 0 .. i.size] ==
            IF k = 0 THEN 0 ELSE v[k - 1] * Span(1) + Byte(c, e.ea + 2 * (k - 1))
    IN  PutD(e.c, i.x, i.size, v[i.size])

exg_dd(c, i) == SetD(SetD(c, i.x, c.d[i.y]), i.y, c.d[i.x])
exg_aa(c, i) == SetA(SetA(c, i.x, c.a[i.y]), i.y, c.a[i.x])
exg_da(c, i) == SetA(SetD(c, i.x, c.a[i.y]), i.y, c.d[i.x])

lea(c, i) == LET e == EA(c, i.ea, 4) IN SetA(e.c, i.x, e.ea)
pea(c, i) == LET e == EA(c, i.ea, 4) IN push(e.c, 4, e.ea)

\* LINK A7 pushes the already decremented stack pointer.
link_a7(c, i) ==
    LET c1 == SetA(c, 7, c.a[7] - 4)
        c2 == Write(c1, c1.a[7], 4, c1.a[7])
    IN  SetA(read_imm(c2, i.imm, 2).c, 7, c1.a[7] + MAKE_INT(i.imm, 2))

link(c, i) ==
    LET c1 == push(c, 4, c.a[i.y])
        c2 == SetA(c1, i.y, c1.a[7])
    IN  SetA(read_imm(c2, i.imm, 2).c, 7, c1.a[7] + MAKE_INT(i.imm, 2))

unlk_a7(c, i) == SetA(c, 7, Read(c, c.a[7], 4))
unlk(c, i)    == LET p == pull(SetA(c, 7, c.a[i.y]), 4) IN SetA(p.c, i.y, p.v)

----------------------------------------------------------------------------
(* Branches and jumps.  A branch counts from the word after the opcode.    *)

branch(c, disp, s) == SetPC(c, c.pc + MAKE_INT(disp, s))

bcc_8(c, i)  == IF COND(c, i.cc) THEN branch(c, i.imm, 1) ELSE c
bcc_16(c, i) == IF COND(c, i.cc) THEN branch(c, i.imm, 2) ELSE SetPC(c, c.pc + 2)
\* A 68000 takes the 0xff of a long branch as a displacement of -1.
bcc_32(c, i) == IF COND(c, i.cc) THEN branch(c, Span(1) - 1, 1) ELSE c

bra_8(c, i)  == branch(c, i.imm, 1)
bra_16(c, i) == branch(c, i.imm, 2)
bra_32(c, i) == branch(c, Span(1) - 1, 1)

bsr_8(c, i)  == branch(push(c, 4, c.pc), i.imm, 1)
bsr_16(c, i) == SetPC(push(c, 4, c.pc + 2), c.pc + MAKE_INT(i.imm, 2))
bsr_32(c, i) == branch(push(c, 4, c.pc), Span(1) - 1, 1)

\* Decrement the word counter and loop until it wraps.
dbf(c, i) ==
    LET res == Low(c.d[i.y] - 1, 2)
        c1  == PutD(c, i.y, 2, res)
    IN  IF res # Span(2) - 1 THEN branch(c1, i.imm, 2) ELSE SetPC(c1, c.pc + 2)
dbt(c, i)  == SetPC(c, c.pc + 2)
dbcc(c, i) == IF COND(c, i.cc) THEN SetPC(c, c.pc + 2) ELSE dbf(c, i)

SetByte(c, i, flag) ==
    LET p == Place(c, i.ea, 1) IN Put(p.c, i.ea, p, 1, IF flag THEN Span(1) - 1 ELSE 0)
scc(c, i) == SetByte(c, i, COND(c, i.cc))
st(c, i)  == SetByte(c, i, TRUE)
sf(c, i)  == SetByte(c, i, FALSE)

jmp(c, i) == LET e == EA(c, i.ea, 4) IN SetPC(e.c, e.ea)
jsr(c, i) == LET e == EA(c, i.ea, 4) IN SetPC(push(e.c, 4, e.c.pc), e.ea)
rts(c, i) == LET p == pull(c, 4) IN SetPC(p.c, p.v)
rtr(c, i) ==
    LET p == pull(c, 2)  q == pull(set_ccr(p.c, p.v), 4) IN SetPC(q.c, q.v)

----------------------------------------------------------------------------
(* Exceptions and privileged instructions.                                 *)

\* The history follows the stack: the frame at the top is returned from.
FrameDropped(c, at) ==
    [c EXCEPT !.frames = IF @ # <<>> /\ Head(@).at = at THEN Tail(@) ELSE @]

\* Mutated rte: SR is restored without looking for a pending interrupt.
rte_noint(c, i) ==
    LET p == pull(c, 2)  q == pull(p.c, 4)
        c1 == SetPC(FrameDropped(q.c, c.a[7]), q.v)
    IN  exception_if_user(c, set_sr_noint(c1, p.v))

\* SR then PC; restoring SR may let a pending interrupt in at once.
rte(c, i) ==
    LET p == pull(c, 2)  q == pull(p.c, 4)
        c1 == SetPC(FrameDropped(q.c, c.a[7]), q.v)
    IN  exception_if_user(c, set_sr(c1, p.v))

\* Stopped first, then the new SR: an interrupt it lets in starts the cpu.
stop(c, i) ==
    LET o == read_imm(c, i.imm, 2)
    IN  exception_if_user(c, set_sr([o.c EXCEPT !.stopped = TRUE], o.v))

trap(c, i)  == exception_trap(c, 32 + i.imm)
trapv(c, i) == IF c.v THEN exception_trap(c, 7) ELSE c
nop(c, i)   == c

\* RESET pulses the bus's reset line; no register of the cpu changes.
reset(c, i) == exception_if_user(c, c)

illegal(c, i) == exception_illegal(c)
line_1010(c, i) == exception_1010(c)
line_1111(c, i) == exception_1111(c)

=============================================================================
