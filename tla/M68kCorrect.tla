---------------------------- MODULE M68kCorrect ----------------------------
(***************************************************************************)
(* What the 68000 core promises: arithmetic on numbers rather than on      *)
(* sign bits and carries, shifts one place at a time, exceptions that the  *)
(* interrupted program does not notice, and privilege and interrupts that  *)
(* no sequence of instructions gets around.                                *)
(*                                                                         *)
(* The kind of a workload says which of the promises it puts to the test:  *)
(*   "arithmetic", "shift", "decimal"  one instruction, register operands  *)
(*   "wide"      two of them, for a number of twice the operand size       *)
(*   "memory"    the same on numbers that lie below A0 and A1              *)
(*   "control"   exceptions, calls and interrupts; and anything else       *)
(***************************************************************************)
EXTENDS M68kOps

Ran(kind) == Ended /\ Workloads[workload].kind = kind

\* The instruction a one-instruction program consists of, and the first of two.
Instruction == code[start.pc]

Signed(v, s)  == IF v % Span(s) < Span(s) \div 2 THEN v % Span(s) ELSE (v % Span(s)) - Span(s)
Unsign(v, s)  == v % Span(s)

Adds     == {"add_er", "addi", "addq", "addx_rr", "addx_mm"}
Compares == {"cmp", "cmpi"}
Extends  == {"addx_rr", "subx_rr", "negx"}
Negates  == {"neg", "negx"}

\* The register an instruction works on, its other operand, and X if used.
Target(i) == CASE i.op \in {"add_er", "sub_er", "cmp", "addx_rr", "subx_rr"} -> i.x
               [] i.op \in {"abcd_rr", "sbcd_rr", "muls", "mulu", "divs", "divu"} -> i.x
               [] OTHER -> i.ea.reg

Source(i) == CASE i.op \in {"add_er", "sub_er", "cmp"} -> start.d[i.ea.reg]
               [] i.op \in Negates -> start.d[i.ea.reg]
               [] i.op \in {"addi", "subi", "cmpi"} -> i.imm
               [] i.op \in {"addq", "subq"} -> IF i.x = 0 THEN ByteBits ELSE i.x
               [] OTHER -> start.d[i.y]

Minuend(i) == IF i.op \in Negates THEN 0 ELSE start.d[Target(i)]
CarryIn(i) == IF i.op \in Extends THEN AsOne(start.x) ELSE 0

\* Operands of s bytes, dst + src + x or dst - src - x: the flags tell
\* whether the result left the unsigned and the signed range.
FlagsExact(add, dst, src, x, s) ==
    LET sign     == IF add THEN 1 ELSE -1
        unsigned == Unsign(dst, s) + sign * (Unsign(src, s) + x)
        signed   == Signed(dst, s) + sign * (Signed(src, s) + x)
    IN  /\ cpu.c = (unsigned \notin 0 .. Span(s) - 1)
        /\ cpu.v = (signed \notin -(Span(s) \div 2) .. Span(s) \div 2 - 1)
        /\ cpu.n = (Signed(signed, s) < 0)

\* After a comparison each condition is the relation it is named for.
ConditionsExact(dst, src, s) ==
    LET D == Unsign(dst, s)  S == Unsign(src, s)
        A == Signed(dst, s)  B == Signed(src, s)
    IN  /\ COND(cpu, "hi") = (D > S) /\ COND(cpu, "ls") = (D <= S)
        /\ COND(cpu, "cc") = (D >= S) /\ COND(cpu, "cs") = (D < S)
        /\ COND(cpu, "gt") = (A > B) /\ COND(cpu, "le") = (A <= B)
        /\ COND(cpu, "ge") = (A >= B) /\ COND(cpu, "lt") = (A < B)
        /\ COND(cpu, "eq") = (D = S) /\ COND(cpu, "ne") = (D # S)

SumExact(i) ==
    LET s == i.size  t == Target(i)  old == start.d[t]
        sum == Minuend(i) + (IF i.op \in Adds THEN 1 ELSE -1) * (Source(i) + CarryIn(i))
    IN  /\ FlagsExact(i.op \in Adds, Minuend(i), Source(i), CarryIn(i), s)
        /\ cpu.z = (sum % Span(s) = 0 /\ (i.op \in Extends => start.z))
        /\ IF i.op \in Compares
           THEN /\ cpu.d = start.d /\ cpu.x = start.x
                /\ ConditionsExact(old, Source(i), s)
           ELSE /\ cpu.d = [start.d EXCEPT ![t] = (@ - (@ % Span(s))) + (sum % Span(s))]
                /\ cpu.x = cpu.c

ProductExact(i) ==
    LET a == start.d[i.ea.reg]  b == start.d[i.x]
        product == IF i.op = "muls" THEN Signed(a, 2) * Signed(b, 2)
                   ELSE Unsign(a, 2) * Unsign(b, 2)
    IN  /\ cpu.d = [start.d EXCEPT ![i.x] = product % Span(4)]
        /\ ~cpu.v /\ ~cpu.c
        /\ cpu.n = (Signed(product, 4) < 0) /\ cpu.z = (product = 0)

\* The dividend is quotient * divisor + remainder, the remainder is smaller
\* than the divisor and has the dividend's sign; V if no quotient fits a
\* word.  The code makes an exception of the most negative dividend by -1.
DivisionExact(i) ==
    LET signed == i.op = "divs"
        Value(v, s) == IF signed THEN Signed(v, s) ELSE Unsign(v, s)
        by  == Value(start.d[i.ea.reg], 2)
        all == Value(start.d[i.x], 4)
        Abs(k) == IF k < 0 THEN -k ELSE k
        Quotients == {q \in IF signed THEN -(Span(2) \div 2) .. Span(2) \div 2 - 1
                            ELSE 0 .. Span(2) - 1 :
                        LET r == all - q * by
                        IN  Abs(r) < Abs(by) /\ (r # 0 => (r < 0) = (all < 0))}
        q == Value(cpu.d[i.x], 2)
        r == Value(cpu.d[i.x] \div Span(2), 2)
    IN  IF by = 0
        THEN cpu.pc = Vector(cpu, 5) /\ cpu.s /\ cpu.d = start.d
        ELSE (signed /\ by = -1 /\ all = -(Span(4) \div 2))
             \/ /\ cpu.v = (Quotients = {})
                /\ IF cpu.v THEN cpu.d = start.d
                   ELSE /\ Quotients = {q} /\ r = all - q * by
                        /\ cpu.n = (q < 0 \/ (~signed /\ q >= Span(2) \div 2))
                        /\ cpu.z = (q = 0) /\ ~cpu.c

\* A number of two limbs: D0 and D1, low first, with D2 and D3; or memory.
Pair(c, r, s)  == Unsign(c.d[r], s) + Span(s) * Unsign(c.d[r + 1], s)
Below(c, r, s) == Read(c, start.a[r] - 2 * s, 2 * s)

WideExact(i, src, dst, new) ==
    LET s   == 2 * i.size
        sum == IF i.op \in Adds THEN dst + src ELSE dst - src
    IN  /\ new = sum % Span(s) /\ cpu.z = (new = 0) /\ cpu.x = cpu.c
        /\ FlagsExact(i.op \in Adds, dst, src, 0, s)

\* Every sum, difference, negation, comparison, product and quotient is the
\* arithmetic one, with its flags and conditions; and a carry that goes from
\* instruction to instruction through X makes two limbs one number, Z
\* included.  The flags come from sign bits and ninth bits in m68kcpu.h.
ArithmeticExact ==
    /\ Ran("arithmetic") =>
         CASE Instruction.op \in {"muls", "mulu"} -> ProductExact(Instruction)
           [] Instruction.op \in {"divs", "divu"} -> DivisionExact(Instruction)
           [] OTHER -> SumExact(Instruction)
    /\ Ran("wide") =>
         LET s == Instruction.size
         IN  IF Instruction.op = "neg"
             THEN WideExact(Instruction, Pair(start, 2, s), 0, Pair(cpu, 2, s))
             ELSE WideExact(Instruction, Pair(start, 0, s), Pair(start, 2, s), Pair(cpu, 2, s))
    /\ Ran("memory") =>
         LET s == Instruction.size
         IN  WideExact(Instruction, Below(start, 0, s), Below(start, 1, s), Below(cpu, 1, s))

----------------------------------------------------------------------------

\* One place of a shift or rotate of s bytes.
OnePlace(op, m, s) ==
    LET top == m.v >= Span(s) \div 2  low == m.v % 2 = 1  half == m.v \div 2
        double == (2 * m.v) % Span(s)
        Left(v)  == [v |-> v, x |-> top, c |-> top,
                     changed |-> m.changed \/ (top # (v >= Span(s) \div 2))]
        Right(v) == [v |-> v, x |-> low, c |-> low, changed |-> m.changed]
        Keep(new) == [new EXCEPT !.x = m.x]
    IN  CASE op \in {"asl", "lsl"} -> Left(double)
          [] op = "lsr"  -> Right(half)
          [] op = "asr"  -> Right(half + IF top THEN Span(s) \div 2 ELSE 0)
          [] op = "rol"  -> Keep(Left(double + AsOne(top)))
          [] op = "ror"  -> Keep(Right(half + AsOne(low) * (Span(s) \div 2)))
          [] op = "roxl" -> Left(double + AsOne(m.x))
          [] op = "roxr" -> Right(half + AsOne(m.x) * (Span(s) \div 2))

Shift(op) == CASE op \in {"asl_s", "asl_r"} -> "asl"    [] op \in {"asr_s", "asr_r"} -> "asr"
               [] op \in {"lsl_s", "lsl_r"} -> "lsl"    [] op \in {"lsr_s", "lsr_r"} -> "lsr"
               [] op \in {"rol_s", "rol_r"} -> "rol"    [] op \in {"ror_s", "ror_r"} -> "ror"
               [] op \in {"roxl_s", "roxl_r"} -> "roxl" [] op \in {"roxr_s", "roxr_r"} -> "roxr"

\* A shift or rotate by n places is n shifts by one: the operand, the carry,
\* X, and an ASL's overflow if the sign ever changed.  The handlers compute
\* it at once, with a branch for each relation of n to the operand's width.
ShiftsExact ==
    Ran("shift") =>
      LET i  == Instruction
          op == Shift(i.op)
          n  == IF i.op = op \o "_r" THEN start.d[i.x] % (2 * Bits(4))
                ELSE IF i.x = 0 THEN ByteBits ELSE i.x
          After[k \in 0 .. n] ==
              IF k = 0
              THEN [v |-> start.d[i.y] % Span(i.size), x |-> start.x,
                    c |-> op \in {"roxl", "roxr"} /\ start.x, changed |-> FALSE]
              ELSE OnePlace(op, After[k - 1], i.size)
          end == After[n]
      IN  /\ cpu.d = [start.d EXCEPT ![i.y] = (@ - (@ % Span(i.size))) + end.v]
          /\ cpu.x = end.x /\ cpu.c = end.c
          /\ cpu.v = (op = "asl" /\ end.changed)
          /\ cpu.n = (end.v >= Span(i.size) \div 2) /\ cpu.z = (end.v = 0)

----------------------------------------------------------------------------

Digits(v)  == Base * (v \div Nibble) + (v % Nibble)
Hundred    == Base * Base

\* dst + src + x or dst - src - x on numbers below span.
DecimalSum(add, dst, src, x, span, new) ==
    LET sum == IF add THEN dst + src + x ELSE dst - src - x
    IN  new = sum % span /\ cpu.c = (sum \notin 0 .. span - 1) /\ cpu.x = cpu.c

FourDigits(c, r) ==
    Hundred * Digits(Byte(c, start.a[r] - 2)) + Digits(Byte(c, start.a[r] - 1))

\* On packed decimal operands ABCD, SBCD and NBCD are decimal arithmetic with
\* a decimal carry, and chains of them are arithmetic on more digits; the
\* code gets there by binary sums that it then corrects.
DecimalExact ==
    /\ Ran("decimal") =>
         LET i == Instruction
             t == Target(i)
             x == AsOne(start.x)
             new == Digits(cpu.d[t] % Span(1))
             old == Digits(start.d[t] % Span(1))
             src == Digits(start.d[i.y] % Span(1))
         IN  /\ IF i.op = "nbcd" THEN DecimalSum(FALSE, 0, old, x, Hundred, new)
                ELSE DecimalSum(i.op = "abcd_rr", old, src, x, Hundred, new)
             /\ cpu.z = (start.z /\ new = 0)
    /\ Ran("decimal_memory") =>
         /\ DecimalSum(Instruction.op = "abcd_mm", FourDigits(start, 1), FourDigits(start, 0),
                       0, Hundred * Hundred, FourDigits(cpu, 1))
         /\ cpu.z = (FourDigits(cpu, 1) = 0)

----------------------------------------------------------------------------

Stepped   == slices' = slices
Returning == Stepped /\ ~Ended /\ cpu.s /\ code[cpu.pc].op = "rte"
             /\ cpu.frames # <<>> /\ Head(cpu.frames).at = cpu.a[7]

\* The exceptions whose handler decides where to go on: their frame holds
\* the faulting instruction's own address.
Faults == {4, 8, 10, 11}

\* An exception whose handler restores what it uses is invisible: RTE finds
\* the frame of the latest exception and brings back every register, both
\* stack pointers and the whole SR, however the exceptions were nested.  If
\* SR lets a waiting interrupt in, that one interrupts the restored program.
ExceptionsReturn ==
    [][Returning =>
         LET f    == Head(cpu.frames)
             pc   == Read(cpu, f.at + 2, 4)
             back == [f.context EXCEPT !.pc = pc]
         IN  /\ f.vector \notin Faults => pc = f.context.pc
             /\ \/ Len(cpu'.frames) = Len(cpu.frames) - 1 /\ Context(cpu') = back
                \/ Len(cpu'.frames) = Len(cpu.frames) /\ Head(cpu'.frames).context = back
      ]_vars

\* User mode is left through an exception and in no other way: onto the
\* supervisor's stack, to an address from the vector table, with a frame
\* that leads back.  Nothing a user program does otherwise changes the
\* interrupt mask, the supervisor's stack pointer or whether the cpu runs.
PrivilegeKept ==
    [][~cpu.s =>
         \/ /\ ~cpu'.s /\ cpu'.mask = cpu.mask
            /\ cpu'.sp[TRUE] = cpu.sp[TRUE] /\ cpu'.stopped = cpu.stopped
         \/ /\ cpu'.s /\ ~cpu'.stopped /\ Len(cpu'.frames) = Len(cpu.frames) + 1
            /\ LET f == Head(cpu'.frames)
               IN  /\ f.at = Long(cpu.sp[TRUE] - 6) /\ cpu'.a[7] = f.at
                   /\ cpu'.sp[FALSE] = f.context.a[7]
                   /\ (f.context.sr \div SBit) % 2 = 0
                   /\ cpu'.pc \in {Vector(cpu', f.vector), Vector(cpu', 15)}
      ]_vars

InterruptLevel(f) == f.vector - 24
Interrupt(f)      == InterruptLevel(f) \in 1 .. MaxLevel

\* No interrupt that the mask lets through is left waiting while the cpu
\* runs on, and none is served within one of its own level or a higher one,
\* non-maskable ones apart.  The level is sampled between time slices only,
\* so whatever lowers the mask has to look at it.
InterruptPriority ==
    /\ ~cpu.nmi /\ cpu.level <= cpu.mask
    /\ \A j \in DOMAIN cpu.frames :
         LET f == cpu.frames[j]
         IN  Interrupt(f) /\ InterruptLevel(f) < MaxLevel =>
               /\ (f.context.sr \div MaskUnit) % (MaxLevel + 1) < InterruptLevel(f)
               /\ \A k \in j + 1 .. Len(cpu.frames) :
                    Interrupt(cpu.frames[k]) =>
                      InterruptLevel(cpu.frames[k]) < InterruptLevel(f)

=============================================================================
