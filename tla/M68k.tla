------------------------------- MODULE M68k --------------------------------
(***************************************************************************)
(* The Musashi 68000 core: its registers (m68ki_cpu_core), memory and      *)
(* operand access, status register, stack, exceptions and interrupts       *)
(* (m68kcpu.h), and what each instruction template of m68k_in.c does.      *)
(*                                                                         *)
(* A cpu state c is a record:                                              *)
(*   d, a     REG_D and REG_A, longs; a[7] is the active stack pointer     *)
(*   sp       REG_SP_BASE: the stack pointer saved for S clear and S set   *)
(*   pc, ppc  REG_PC and REG_PPC                                           *)
(*   x n z v c  the flags as truth values (FLAG_Z holds a value there)     *)
(*   s, mask  FLAG_S and FLAG_INT_MASK                                     *)
(*   level, nmi, stopped  CPU_INT_LEVEL, nmi_pending, CPU_STOPPED          *)
(*   mem      the bytes written so far; InitialMemory holds the others     *)
(*   frames   history, no field of the code: the contexts of the           *)
(*            exceptions taken and not returned from, the latest first     *)
(*                                                                         *)
(* An instruction i is a decoded opcode with its extension words:          *)
(*   op, size  the template and the operand size in bytes                  *)
(*   x, y      the register fields, x also a quick operand                 *)
(*   ea, dst   operands [mode, reg, disp, xn, wide]; dst is MOVE's         *)
(*   imm       an immediate, displacement or vector; list, a MOVEM mask;   *)
(*   cc        a condition                                                 *)
(* The prefetch queue is a cache of these words and is left out, as are    *)
(* cycle counts, trace (compiled out) and the 68010+ branches the          *)
(* configured M68K_CPU_TYPE_68000 never takes.                             *)
(***************************************************************************)
EXTENDS M68kAlu, FiniteSets, Sequences, TLC

CONSTANTS
    AddressSpan,    \* CPU_ADDRESS_MASK + 1: 2^24 in the code
    SBit,           \* the S bit of SR: 0x2000 in the code
    MaskUnit,       \* the lowest bit of SR's interrupt mask: 0x100
    MaxLevel,       \* the highest interrupt level: 7
    InitialMemory   \* memory before anything is written, byte 0 elsewhere

ASSUME StatusAssumption ==
    /\ AddressSpan \in 1 .. Span(4)
    /\ \E k \in 1 .. 3 : MaxLevel = 2^k - 1
    /\ SBit \in 32 .. Span(2) /\ MaskUnit \in 32 .. Span(2)
    /\ MaskUnit * (MaxLevel + 1) <= Span(2)

Address(ea) == ea % AddressSpan
Long(v)     == Low(v, 4)

----------------------------------------------------------------------------
(* Memory, big-endian, and the register file REG_DA = D0..D7, A0..A7.      *)

Byte(c, ea) ==
    LET at == Address(ea)
    IN  IF at \in DOMAIN c.mem THEN c.mem[at]
        ELSE IF at \in DOMAIN InitialMemory THEN InitialMemory[at] ELSE 0

Word(c, ea)  == Byte(c, ea) * Span(1) + Byte(c, ea + 1)
Read(c, ea, s) == CASE s = 1 -> Byte(c, ea)
                    [] s = 2 -> Word(c, ea)
                    [] s = 4 -> Word(c, ea) * Span(2) + Word(c, ea + 2)

Write(c, ea, s, v) ==
    LET new == [at \in {Address(ea + k) : k \in 0 .. s - 1} |->
                   LET k == CHOOSE k \in 0 .. s - 1 : Address(ea + k) = at
                   IN  (v \div 2^Bits(s - 1 - k)) % Span(1)]
    IN  [c EXCEPT !.mem = new @@ @]

Reg(c, k)       == IF k < 8 THEN c.d[k] ELSE c.a[k - 8]
SetD(c, x, v)   == [c EXCEPT !.d[x] = Long(v)]
SetA(c, x, v)   == [c EXCEPT !.a[x] = Long(v)]
SetReg(c, k, v) == IF k < 8 THEN SetD(c, k, v) ELSE SetA(c, k - 8, v)
SetPC(c, v)     == [c EXCEPT !.pc = Long(v)]

\* m68ki_read_imm_8/16/32: the extension word or words at pc.
read_imm(c, v, s) == [c |-> SetPC(c, c.pc + IF s = 4 THEN 4 ELSE 2), v |-> Low(v, s)]

push(c, s, v) == LET c1 == SetA(c, 7, c.a[7] - s) IN Write(c1, c1.a[7], s, Low(v, s))
pull(c, s)    == [c |-> SetA(c, 7, c.a[7] + s), v |-> Read(c, c.a[7], s)]

----------------------------------------------------------------------------
(* Effective addresses.  A byte through A7 keeps the stack even: that is   *)
(* the pi7 and pd7 variants of every byte handler.                         *)

StepOf(r, s) == IF s = 1 /\ r = 7 THEN 2 ELSE s

\* m68ki_get_ea_ix on a 68000: brief extension word only.
get_ea_ix(c, base, o) ==
    LET xn == IF o.wide THEN Reg(c, o.xn) ELSE MAKE_INT(Reg(c, o.xn), 2)
    IN  base + xn + MAKE_INT(o.disp, 1)

EA(c, o, s) ==
    LET r  == o.reg
        c2 == SetPC(c, c.pc + 2)
        At(cpu, ea) == [c |-> cpu, ea |-> Long(ea)]
    IN  CASE o.mode = "ai"   -> At(c, c.a[r])
          [] o.mode = "pi"   -> At(SetA(c, r, c.a[r] + StepOf(r, s)), c.a[r])
          [] o.mode = "pd"   -> At(SetA(c, r, c.a[r] - StepOf(r, s)), c.a[r] - StepOf(r, s))
          [] o.mode = "di"   -> At(c2, c.a[r] + MAKE_INT(o.disp, 2))
          [] o.mode = "ix"   -> At(c2, get_ea_ix(c, c.a[r], o))
          [] o.mode = "aw"   -> At(c2, MAKE_INT(o.disp, 2))
          [] o.mode = "al"   -> At(SetPC(c, c.pc + 4), o.disp)
          [] o.mode = "pcdi" -> At(c2, c.pc + MAKE_INT(o.disp, 2))
          [] o.mode = "pcix" -> At(c2, get_ea_ix(c, c.pc, o))

\* OPER_*: the operand's value and the cpu after fetching it.
OPER(c, o, s) ==
    CASE o.mode = "d" -> [c |-> c, v |-> Low(c.d[o.reg], s)]
      [] o.mode = "a" -> [c |-> c, v |-> Low(c.a[o.reg], s)]
      [] o.mode = "i" -> read_imm(c, o.disp, s)
      [] OTHER -> LET e == EA(c, o, s) IN [c |-> e.c, v |-> Read(e.c, e.ea, s)]

\* A place to read, modify and write: Dn or a memory operand.
Place(c, o, s) ==
    IF o.mode = "d" THEN [c |-> c, ea |-> o.reg, v |-> Low(c.d[o.reg], s)]
    ELSE LET e == EA(c, o, s) IN [c |-> e.c, ea |-> e.ea, v |-> Read(e.c, e.ea, s)]

Put(c, o, p, s, v) ==
    IF o.mode = "d" THEN SetD(c, p.ea, Merge(c.d[p.ea], v, s))
    ELSE Write(c, p.ea, s, Low(v, s))

PutD(c, x, s, v) == SetD(c, x, Merge(c.d[x], v, s))

\* (((REG_IR >> 9) - 1) & 7) + 1: a quick operand, 0 standing for the 8 bits
\* of a byte.
Quick(i) == ((i.x - 1) % ByteBits) + 1

----------------------------------------------------------------------------
(* The status register.                                                    *)

get_ccr(c) == 16 * AsOne(c.x) + 8 * AsOne(c.n) + 4 * AsOne(c.z)
                + 2 * AsOne(c.v) + AsOne(c.c)
get_sr(c)  == SBit * AsOne(c.s) + MaskUnit * c.mask + get_ccr(c)

set_ccr(c, v) == [c EXCEPT !.x = Bit(v, 4), !.n = Bit(v, 3), !.z = Bit(v, 2),
                           !.v = Bit(v, 1), !.c = Bit(v, 0)]

\* Mutated set_s_flag: the outgoing stack pointer is not backed up.
set_s_flag_unsaved(c, s) == [c EXCEPT !.s = s, !.a[7] = c.sp[s]]

\* Save the active stack pointer in its bank and load the other one's.
set_s_flag(c, s) ==
    LET sp == [c.sp EXCEPT ![c.s] = c.a[7]]
    IN  [c EXCEPT !.sp = sp, !.s = s, !.a[7] = sp[s]]

set_sr_noint(c, v) ==
    set_s_flag([set_ccr(c, v) EXCEPT !.mask = (v \div MaskUnit) % (MaxLevel + 1)],
               (v \div SBit) % 2 = 1)

COND(c, cc) ==
    CASE cc = "cs" -> c.c        [] cc = "cc" -> ~c.c
      [] cc = "vs" -> c.v        [] cc = "vc" -> ~c.v
      [] cc = "eq" -> c.z        [] cc = "ne" -> ~c.z
      [] cc = "mi" -> c.n        [] cc = "pl" -> ~c.n
      [] cc = "lt" -> c.n # c.v  [] cc = "ge" -> c.n = c.v
      [] cc = "hi" -> ~c.c /\ ~c.z          [] cc = "ls" -> c.c \/ c.z
      [] cc = "gt" -> c.n = c.v /\ ~c.z     [] cc = "le" -> c.n # c.v \/ c.z

----------------------------------------------------------------------------
(* Exceptions.  Each saves SR, enters supervisor mode, which brings in the *)
(* supervisor stack, pushes PC and SR and jumps through its vector.        *)

Vector(c, vector) == Read(c, 4 * vector, 4)

\* What the interrupted program may expect to find again.
Context(c) ==
    [pc |-> c.pc, sr |-> get_sr(c), d |-> c.d, a |-> c.a,
     sp |-> [c.sp EXCEPT ![c.s] = c.a[7]]]

\* m68ki_stack_frame_3word, with the history of the exceptions taken.
stack_frame_3word(c, pc, sr, vector, old) ==
    LET c1 == push(push(c, 4, pc), 2, sr)
    IN  [c1 EXCEPT !.frames =
            <<[at |-> c1.a[7], vector |-> vector,
               context |-> [Context(old) EXCEPT !.pc = pc]]>> \o @]

Exception(c, vector, pc) ==
    LET c1 == stack_frame_3word(set_s_flag(c, TRUE), pc, get_sr(c), vector, c)
    IN  SetPC(c1, Vector(c1, vector))

exception_trap(c, vector)        == Exception(c, vector, c.pc)
exception_privilege_violation(c) == Exception(c, 8, c.ppc)
exception_1010(c)                == Exception(c, 10, c.ppc)
exception_1111(c)                == Exception(c, 11, c.ppc)
exception_illegal(c)             == Exception(c, 4, c.ppc)

\* Mutated exception_interrupt: the mask stays at the interrupted level.
exception_interrupt_unmasked(c, level) ==
    [Exception([c EXCEPT !.stopped = FALSE], 24 + level, c.pc) EXCEPT !.level = 0]

\* The new mask is the level being served; an autovector that is 0 falls
\* back to vector 15; the request is dropped (no acknowledge callback).
exception_interrupt(c, level) ==
    LET c1  == [set_s_flag([c EXCEPT !.stopped = FALSE], TRUE) EXCEPT !.mask = level]
        new == IF Vector(c1, 24 + level) # 0 THEN Vector(c1, 24 + level)
               ELSE Vector(c1, 15)
        served == stack_frame_3word(c1, c.pc, get_sr(c), 24 + level, c)
    IN  [SetPC(served, new) EXCEPT !.level = 0]

check_interrupts(c) ==
    IF c.nmi THEN exception_interrupt([c EXCEPT !.nmi = FALSE], MaxLevel)
    ELSE IF c.level > c.mask THEN exception_interrupt(c, c.level)
    ELSE c

set_sr(c, v) == check_interrupts(set_sr_noint(c, v))

\* m68k_set_irq: the level the bus drives; a rise to MaxLevel is an NMI.
set_irq(c, level) ==
    [c EXCEPT !.level = level, !.nmi = @ \/ (c.level # MaxLevel /\ level = MaxLevel)]

\* m68k_pulse_reset: SP and PC come from the first two longs of memory.
pulse_reset(c) ==
    LET c1 == set_s_flag([c EXCEPT !.stopped = FALSE, !.mask = MaxLevel, !.level = 0], TRUE)
    IN  SetPC(SetA(c1, 7, Read(c1, 0, 4)), Read(c1, 4, 4))

=============================================================================
