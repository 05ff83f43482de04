----------------------------- MODULE M68kMachine ----------------------------
(***************************************************************************)
(* The Musashi core at work: how a handler of m68kops.c is run, and the    *)
(* time slices of pistorm.c's main loop that sample the interrupt level.   *)
(*                                                                         *)
(* Workloads is what the cpu may be given to run: a sequence of records    *)
(*   codes  programs: decoded instructions by address                      *)
(*   cpus   the states the cpu may start in                                *)
(*   irqs   the interrupt levels the bus may show, slices how often        *)
(*   kind   which promise of M68kCorrect it is an instance of              *)
(* A program ends when pc leaves its code: nothing is stepped further.     *)
(***************************************************************************)
EXTENDS M68kInstructions

CONSTANT Workloads

VARIABLES
    cpu,        \* m68ki_cpu
    workload,   \* the number of the workload
    code,       \* the program that runs
    start,      \* history: the cpu the program started with
    slices      \* the time slices left

vars == <<cpu, workload, code, start, slices>>

Ended == cpu.pc \notin DOMAIN code

Init ==
    /\ workload \in DOMAIN Workloads
    /\ code \in Workloads[workload].codes
    /\ cpu \in Workloads[workload].cpus
    /\ start = cpu
    /\ slices = Workloads[workload].slices

\* m68k_execute's loop, once: fetch, count the opcode's word, call the
\* handler Do.  A stopped cpu executes nothing.
Handler(op, sizes, modes, Do(_, _)) ==
    /\ ~Ended /\ ~cpu.stopped
    /\ LET i == code[cpu.pc]
       IN  /\ i.op = op /\ i.size \in sizes /\ i.ea.mode \in modes
           /\ cpu' = Do(SetPC([cpu EXCEPT !.ppc = cpu.pc], cpu.pc + 2), i)
    /\ UNCHANGED <<workload, code, start, slices>>

\* The handlers of MOVE, which has a destination, and those of a condition.
MoveHandler(sizes, mode, regs, modes, Do(_, _)) ==
    /\ ~Ended /\ code[cpu.pc].dst.mode = mode /\ code[cpu.pc].dst.reg \in regs
    /\ Handler("move", sizes, modes, Do)

ConditionHandler(op, condition, modes, Do(_, _)) ==
    /\ ~Ended /\ code[cpu.pc].cc = condition
    /\ Handler(op, {1, 2, 4}, modes, Do)

\* The main loop between two calls of m68k_execute: ps_update_irq reads the
\* level from the bus, and the next call begins by looking at it.
Slice ==
    /\ slices > 0 /\ ~Ended
    /\ \E level \in Workloads[workload].irqs :
         cpu' = check_interrupts(set_irq(cpu, level))
    /\ slices' = slices - 1
    /\ UNCHANGED <<workload, code, start>>

\* The addressing modes m68kmake expands a template for.
Memory          == {"ai", "pi", "pd", "di", "ix", "aw", "al", "pcdi", "pcix", "i"}
Readable        == Memory \ {"i"}
Data            == Memory \cup {"d"}
All             == Data \cup {"a"}
MemoryAlterable == Memory \ {"pcdi", "pcix", "i"}
DataAlterable   == MemoryAlterable \cup {"d"}
Alterable       == DataAlterable \cup {"a"}
Control         == {"ai", "di", "ix", "aw", "al", "pcdi", "pcix"}

=============================================================================
