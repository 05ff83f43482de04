------------------------------- MODULE MCM68k -------------------------------
(***************************************************************************)
(* What TLC gives the 68000 core to run.  Bytes have 4 bits, words 8 and   *)
(* longs 16, decimal digits go to 2 and interrupt levels to 3: narrow      *)
(* enough to try every pair of byte operands and the boundary values of    *)
(* the others, and with every relation of a count to a width.              *)
(***************************************************************************)
EXTENDS M68kCorrect

Origin == 256       \* where programs begin; the vector table is below it
Stack  == 2048      \* the reset stack pointer

----------------------------------------------------------------------------
(* Operands, instructions and programs.                                    *)

Operand_(mode, r) == [mode |-> mode, reg |-> r, disp |-> 0, xn |-> 0, wide |-> FALSE]
None      == Operand_("none", 0)
D(r)      == Operand_("d", r)
A(r)      == Operand_("a", r)
Imm(v)    == [Operand_("i", 0) EXCEPT !.disp = v]
At(v)     == [Operand_("al", 0) EXCEPT !.disp = v]
Off(k, r) == [Operand_("di", r) EXCEPT !.disp = k]

I(op, size) == [op |-> op, size |-> size, x |-> 0, y |-> 0, ea |-> None, dst |-> None,
                imm |-> 0, list |-> {}, cc |-> "none"]
On(op, size, ea)  == [I(op, size) EXCEPT !.ea = ea]
XY(op, size, x, y) == [I(op, size) EXCEPT !.x = x, !.y = y]

\* The length of an instruction: the opcode, an immediate, the operands.
EaLength(o, size) ==
    CASE o.mode \in {"di", "ix", "aw", "pcdi", "pcix"} -> 2
      [] o.mode = "al" -> 4
      [] o.mode = "i"  -> IF size = 4 THEN 4 ELSE 2
      [] OTHER -> 0
ImmLength(i) ==
    IF i.op \in {"addi", "subi", "cmpi", "andi", "ori", "eori"}
    THEN IF i.size = 4 THEN 4 ELSE 2
    ELSE IF i.op \in {"andi_toc", "ori_toc", "eori_toc", "andi_tos", "ori_tos", "eori_tos",
                      "stop", "link", "link_a7", "movem_re", "movem_er", "bcc_16", "bra_16",
                      "bsr_16", "dbcc", "dbf", "dbt"}
    THEN 2 ELSE 0
InstructionLength(i) == 2 + ImmLength(i) + EaLength(i.ea, i.size) + EaLength(i.dst, i.size)

Assembled(at, seq) ==
    LET Place_[k \in 1 .. Len(seq)] ==
            IF k = 1 THEN at ELSE Place_[k - 1] + InstructionLength(seq[k - 1])
    IN  [pc \in {Place_[k] : k \in DOMAIN seq} |->
            seq[CHOOSE k \in DOMAIN seq : Place_[k] = pc]]
Single(i)  == Assembled(Origin, <<i>>)
Pair_(i, j) == Assembled(Origin, <<i, j>>)

Cpu0 == [d |-> [r \in 0 .. 7 |-> 0], a |-> [r \in 0 .. 7 |-> 1024 + 64 * r],
         sp |-> [s \in BOOLEAN |-> Stack - IF s THEN 0 ELSE 512], pc |-> Origin, ppc |-> 0,
         x |-> FALSE, n |-> FALSE, z |-> FALSE, v |-> FALSE, c |-> FALSE,
         s |-> FALSE, mask |-> 0, level |-> 0, nmi |-> FALSE, stopped |-> FALSE,
         mem |-> <<>>, frames |-> <<>>]

\* D0..D3 as given, above a byte or word with something else in the register.
WithD(p, q, r, t, x, z) ==
    [Cpu0 EXCEPT !.d[0] = p, !.d[1] = q, !.d[2] = r, !.d[3] = t, !.x = x, !.z = z]
Over(v, s) == IF s = 4 THEN v ELSE v + Span(s) * (Span(4 - s) - 3)

Workload(kind, codes, cpus) ==
    [kind |-> kind, codes |-> codes, cpus |-> cpus, irqs |-> {0}, slices |-> 0]

----------------------------------------------------------------------------
(* Arithmetic, shifts and decimals.                                        *)

Values(s) == CASE s = 1 -> 0 .. 15
               [] s = 2 -> {0, 1, 90, 127, 128, 255}
               [] s = 4 -> {0, 1, 4660, 32767, 32768, 65535}

TwoOperands(s) ==
    Workload("arithmetic",
        {Single([On(op, s, D(0)) EXCEPT !.x = 1]) : op \in {"add_er", "sub_er", "cmp"}}
          \cup {Single(XY(op, s, 1, 0)) : op \in {"addx_rr", "subx_rr"}},
        {WithD(Over(p, s), Over(q, s), 0, 0, x, z) :
             p, q \in Values(s), x, z \in BOOLEAN})

OneOperand(s) ==
    Workload("arithmetic",
        {Single(On(op, s, D(0))) : op \in {"neg", "negx"}}
          \cup {Single([On(op, s, D(0)) EXCEPT !.imm = v]) :
                    op \in {"addi", "subi", "cmpi"}, v \in Values(s)}
          \cup {Single([On(op, s, D(0)) EXCEPT !.x = x]) : op \in {"addq", "subq"}, x \in 0 .. 3},
        {WithD(Over(p, s), 0, 0, 0, x, z) : p \in Values(s), x, z \in BOOLEAN})

Multiplied ==
    Workload("arithmetic",
        {Single([On(op, 2, D(0)) EXCEPT !.x = 1]) : op \in {"muls", "mulu"}},
        {WithD(Over(p, 2), Over(q, 2), 0, 0, TRUE, TRUE) : p, q \in Values(2) \cup {2, 129, 254}})

Divided_ ==
    Workload("arithmetic",
        {Single([On(op, 2, D(0)) EXCEPT !.x = 1]) : op \in {"divs", "divu"}},
        {WithD(Over(p, 2), q, 0, 0, FALSE, FALSE) :
             p \in {0, 1, 2, 3, 127, 128, 253, 254, 255},
             q \in {0, 1, 5, 127, 128, 129, 254, 255, 256, 257, 1000, 16256, 16257, 16384,
                    32767, 32768, 32769, 33023, 65279, 65280, 65407, 65408, 65530, 65535}})

Limbs(s) == IF s = 1 THEN {0, 1, 7, 8, 15} ELSE {0, 1, 128, 255}

WideRegisters(s) ==
    Workload("wide",
        {Pair_([On("add_er", s, D(0)) EXCEPT !.x = 2], XY("addx_rr", s, 3, 1)),
         Pair_([On("sub_er", s, D(0)) EXCEPT !.x = 2], XY("subx_rr", s, 3, 1)),
         Pair_(On("neg", s, D(2)), On("negx", s, D(3)))},
        {WithD(p, q, r, t, FALSE, FALSE) : p, q, r, t \in Limbs(s)})

\* Two bytes below A0 and two below A1.
BelowPointers(p, q, r, t) ==
    [Cpu0 EXCEPT !.z = TRUE,
        !.mem = (Cpu0.a[0] - 2 :> p @@ Cpu0.a[0] - 1 :> q
                   @@ Cpu0.a[1] - 2 :> r @@ Cpu0.a[1] - 1 :> t)]

WideMemory(kind, ops, limbs) ==
    Workload(kind, {Pair_(XY(op, 1, 1, 0), XY(op, 1, 1, 0)) : op \in ops},
             {BelowPointers(p, q, r, t) : p, q, r, t \in limbs})

ShiftOps == {"asl", "asr", "lsl", "lsr", "rol", "ror", "roxl", "roxr"}

QuickShifts(s) ==
    Workload("shift",
        {Single(XY(op \o "_s", s, x, 1)) : op \in ShiftOps, x \in 0 .. 3},
        {WithD(0, Over(q, s), 0, 0, x, FALSE) : q \in Values(s) \cup {3, 5}, x \in BOOLEAN})

Shifts(s) ==
    Workload("shift", {Single(XY(op \o "_r", s, 0, 1)) : op \in ShiftOps},
        {WithD(64 + n, Over(q, s), 0, 0, x, FALSE) :
             n \in 0 .. 31, q \in Values(s) \cup {3, 5}, x \in BOOLEAN})

TwoDigits == {4 * p + q : p, q \in 0 .. 2}

Decimals ==
    Workload("decimal",
        {Single(XY("abcd_rr", 1, 1, 0)), Single(XY("sbcd_rr", 1, 1, 0)),
         Single(On("nbcd", 1, D(1)))},
        {WithD(Over(p, 1), Over(q, 1), 0, 0, x, z) : p, q \in TwoDigits, x, z \in BOOLEAN})

----------------------------------------------------------------------------
(* Every handler with every addressing mode, in user and supervisor mode.  *)

Modes(modes) == {[Operand_(m, r) EXCEPT !.disp = 4, !.xn = 10, !.wide = TRUE] :
                     m \in modes, r \in {2, 7}}
Family(ops, sizes, modes) ==
    {[On(op, s, o) EXCEPT !.x = 3, !.y = 4, !.imm = 101, !.list = {0, 9, 14}] :
         op \in ops, s \in sizes, o \in Modes(modes)}
Plain(ops, sizes) == Family(ops, sizes, {"none"})

EveryMode ==
    UNION {
      Family({"nbcd", "st", "sf", "tas"}, {1}, DataAlterable),
      Plain({"abcd_rr", "abcd_mm", "bra_8", "bsr_8", "sbcd_rr", "sbcd_mm"}, {1}),
      Family({"add_er", "cmp", "sub_er", "and_er", "or_er", "tst"}, {1, 2, 4}, Data),
      Family({"add_er", "cmp", "sub_er", "tst", "addq", "subq"}, {2, 4}, {"a"}),
      Family({"addq", "subq", "addi", "andi", "clr", "eor", "eori", "neg", "negx", "not", "ori",
              "subi", "cmpi"}, {1, 2, 4}, DataAlterable),
      Family({"cmpi"}, {1, 2, 4}, {"pcdi", "pcix"}),
      Family({"add_re", "and_re", "or_re", "sub_re"}, {1, 2, 4}, MemoryAlterable),
      Plain({"addx_rr", "addx_mm", "subx_rr", "subx_mm", "cmpm"}, {1, 2, 4}),
      Plain({op \o "_s" : op \in ShiftOps} \cup {op \o "_r" : op \in ShiftOps}, {1, 2, 4}),
      Family({"btst_r", "bchg_r", "bclr_r", "bset_r", "btst_s", "bchg_s", "bclr_s", "bset_s"},
             {4}, {"d"}),
      Family({"bchg_r", "bclr_r", "bset_r", "bchg_s", "bclr_s", "bset_s"}, {1}, MemoryAlterable),
      Family({"btst_r"}, {1}, Memory),
      Family({"btst_s"}, {1}, Readable),
      Family({"chk", "divs", "divu", "move_toc", "move_tos", "muls", "mulu"}, {2}, Data),
      Family({"move_frs"}, {2}, DataAlterable),
      Family(ShiftOps, {2}, MemoryAlterable),
      Plain({"line_1010", "andi_toc", "andi_tos", "bra_16", "bsr_16", "dbt", "dbf", "eori_toc",
             "eori_tos", "illegal", "link_a7", "link", "nop", "ori_toc", "ori_tos", "reset",
             "stop", "trap", "trapv"}, {2}),
      Family({"adda", "cmpa", "movea", "suba"}, {2, 4}, All),
      Plain({"line_1111", "ext"}, {2, 4}),
      Family({"movep_re", "movep_er"}, {2, 4}, {"di"}),
      Family({"movem_re"}, {2, 4}, {"pd"} \cup (Control \ {"pcdi", "pcix"})),
      Family({"movem_er"}, {2, 4}, {"pi"} \cup Control),
      Family({"jmp", "jsr", "lea", "pea"}, {4}, Control),
      Plain({"bra_32", "bsr_32", "exg_dd", "exg_aa", "exg_da", "move_fru", "move_tou", "moveq",
             "rte", "rtr", "rts", "swap", "unlk_a7", "unlk"}, {4})
    }

Conditions == {"hi", "ls", "cc", "cs", "ne", "eq", "vc", "vs", "pl", "mi", "ge", "lt", "gt", "le"}

EveryCondition ==
    {[i EXCEPT !.cc = cc] : cc \in Conditions,
        i \in Plain({"bcc_8"}, {1}) \cup Plain({"bcc_16", "dbcc"}, {2}) \cup Plain({"bcc_32"}, {4})
                \cup Family({"scc"}, {1}, DataAlterable)}

EveryMove ==
    {[i EXCEPT !.dst = dst] : dst \in Modes(DataAlterable),
                              i \in Family({"move"}, {1, 2, 4}, Data)}
      \cup {[i EXCEPT !.dst = dst] : dst \in Modes(DataAlterable),
                                     i \in Family({"move"}, {2, 4}, {"a"})}

AllFlags == [Cpu0 EXCEPT !.x = TRUE, !.n = TRUE, !.v = TRUE, !.c = TRUE]
Handlers ==
    Workload("modes", {Single(i) : i \in EveryMode \cup EveryCondition \cup EveryMove},
             {Cpu0, [AllFlags EXCEPT !.z = TRUE, !.s = TRUE]})

----------------------------------------------------------------------------
(* Exceptions, calls and interrupts.                                       *)

\* Where the programs' parts lie, and the vector table that leads to them.
User   == 384
Sub    == 512
OnTrap == 576
OnSkip == 640
OnTest == 704
OnIrq  == 768

LongBytes(at, v) == [b \in at .. at + 3 |-> (v \div 2^(4 * (at + 3 - b))) % 16]
VectorTable ==
    LET target == [v \in {0, 1, 4, 5, 6, 7, 8, 10, 11, 15, 25, 26, 27, 37} |->
                      CASE v = 0 -> Stack
                        [] v = 1 -> Origin
                        [] v \in Faults -> OnSkip
                        [] v \in {5, 6, 7} -> OnTest
                        [] v \in {15, 25, 26} -> OnIrq
                        [] v = 27 -> OnIrq + 48
                        [] v = 37 -> OnTrap]
    IN  [at \in UNION {4 * v .. 4 * v + 3 : v \in DOMAIN target} |->
            LongBytes(4 * (at \div 4), target[at \div 4])[at]]

D0D1A0 == {0, 1, 8}
A0D1D0 == {7, 14, 15}
Save    == [On("movem_re", 4, Operand_("pd", 7)) EXCEPT !.list = A0D1D0]
Restore == [On("movem_er", 4, Operand_("pi", 7)) EXCEPT !.list = D0D1A0]
Rte     == I("rte", 4)

\* Handlers that leave every register as they found it.
TrapHandler == Assembled(OnTrap,
    <<Save, [On("addi", 4, D(0)) EXCEPT !.imm = 77], Restore, Rte>>)
\* Past an instruction that cannot be executed.
SkipHandler == Assembled(OnSkip, <<[On("addq", 4, Off(2, 7)) EXCEPT !.x = 2], Rte>>)
TestHandler == Assembled(OnTest, <<On("not", 4, D(5)), On("not", 4, D(5)), Rte>>)
IrqHandler  == Assembled(OnIrq,
    <<Save, [I("moveq", 4) EXCEPT !.imm = 3], On("lea", 4, At(99)), Restore, Rte>>)
NmiHandler  == Assembled(OnIrq + 48, <<Rte>>)
AllHandlers == TrapHandler @@ SkipHandler @@ TestHandler @@ IrqHandler @@ NmiHandler

\* From reset: the user's stack, interrupts on, and a hand-made frame for RTE
\* to enter user mode with; there a call and a system call.
Boot == Assembled(Origin,
            <<On("lea", 4, At(Stack - 512)), [I("move_tou", 4) EXCEPT !.y = 0],
              On("move_tos", 2, Imm(SBit)), On("pea", 4, At(User)),
              [On("move", 2, Imm(0)) EXCEPT !.dst = Operand_("pd", 7)], Rte>>)
          @@ Assembled(User,
            <<On("jsr", 4, At(Sub)), [I("trap", 2) EXCEPT !.imm = 5], I("nop", 2)>>)
          @@ Assembled(Sub,
            <<[I("link", 2) EXCEPT !.y = 5, !.imm = 252], [I("unlk", 4) EXCEPT !.y = 5],
              I("rts", 4)>>)
          @@ AllHandlers

\* In user mode, whatever leads into an exception.
Errors == Assembled(Origin,
            <<[On("divu", 2, Imm(0)) EXCEPT !.x = 1], On("chk", 2, Imm(255)), I("illegal", 2),
              [I("line_1010", 2) EXCEPT !.y = 0], I("line_1111", 2), On("move_tos", 2, D(1)),
              Rte, I("reset", 2), [I("move_tou", 4) EXCEPT !.y = 0],
              [I("ori_toc", 2) EXCEPT !.imm = 2], I("trapv", 2), I("nop", 2)>>)
          @@ AllHandlers

\* The mask raised and lowered by every instruction that can, and STOP.
Masks == Assembled(Origin,
            <<[I("ori_tos", 2) EXCEPT !.imm = 2 * MaskUnit],
              [I("eori_tos", 2) EXCEPT !.imm = 3 * MaskUnit],
              [I("andi_tos", 2) EXCEPT !.imm = SBit],
              [I("stop", 2) EXCEPT !.imm = SBit + MaskUnit],
              [I("trap", 2) EXCEPT !.imm = 5], I("nop", 2)>>)
          @@ AllHandlers

Reset == pulse_reset([Cpu0 EXCEPT !.a = [r \in 0 .. 7 |-> 0], !.sp = [s \in BOOLEAN |-> 0]])

ControlProgram(code_, cpu_, irqs, slices_) ==
    [kind |-> "control", codes |-> {code_}, cpus |-> {cpu_}, irqs |-> irqs, slices |-> slices_]

\* Named one by one, so that TLC evaluates each of them only once.
BootLoad    == ControlProgram(Boot, Reset, {1, 3}, 2)
ErrorsLoad  == ControlProgram(Errors, [Cpu0 EXCEPT !.d[1] = SBit + MaskUnit], {2}, 1)
MasksLoad   == ControlProgram(Masks, [Cpu0 EXCEPT !.s = TRUE, !.mask = 1], {0, 1, 2, 3}, 3)
Binary1     == TwoOperands(1)
Binary2     == TwoOperands(2)
Binary4     == TwoOperands(4)
Unary1      == OneOperand(1)
Unary2      == OneOperand(2)
Unary4      == OneOperand(4)
Wide1       == WideRegisters(1)
Wide2       == WideRegisters(2)
WideBinary  == WideMemory("memory", {"addx_mm", "subx_mm"}, Limbs(1))
WideDecimal == WideMemory("decimal_memory", {"abcd_mm", "sbcd_mm"}, {0, 1, 6, 10})
Quick1      == QuickShifts(1)
Quick2      == QuickShifts(2)
Quick4      == QuickShifts(4)
Shifts1     == Shifts(1)
Shifts2     == Shifts(2)
Shifts4     == Shifts(4)

MCWorkloads ==
    <<BootLoad, ErrorsLoad, MasksLoad, Binary1, Binary2, Binary4, Unary1, Unary2, Unary4,
      Multiplied, Divided_, Wide1, Wide2, WideBinary, WideDecimal, Quick1, Quick2, Quick4,
      Shifts1, Shifts2, Shifts4, Decimals, Handlers>>

=============================================================================
