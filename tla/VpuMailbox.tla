----------------------------- MODULE VpuMailbox -----------------------------
(***************************************************************************)
(* The emulator's access to the Amiga's bus.  The ARM (software/           *)
(* ps_protocol.c) writes a command into four mailbox registers and spins   *)
(* on bit 0 of the last one; the loop on the VPU (VC4/ps_protocol.c) polls *)
(* that register, drives the GPIO pins of the bus adapter, stores a result *)
(* and clears the bit.  A write returns once its bus cycle has started, so *)
(* the cycle runs on while the ARM goes its way; the adapter shows it on   *)
(* the pin TXN_IN_PROGRESS.  Status writes drive the same pins from the    *)
(* ARM.                                                                    *)
(*                                                                         *)
(* An action is one mailbox access, or one use of the pins by one side.    *)
(* The bus adapter and the Amiga are outside the repository: a cycle ends  *)
(* when it likes, and a byte read leaves anything in the other byte lane.  *)
(***************************************************************************)
EXTENDS Integers, Sequences

CONSTANTS
  Base,     \* the values of a byte: 256 in the code
  Top,      \* bytes of the Amiga's address space: 2^24
  IplAddr   \* the device register whose value the interrupt level pins show

ASSUME BaseAssumption == Base \in Nat /\ Base > 1
ASSUME TopAssumption == Top \in Nat /\ Top > 0 /\ Top % 2 = 0
ASSUME IplAssumption == IplAddr \in 0 .. Top - 1

VARIABLES
  mbox,     \* MBOX0 = addr, MBOX1 = data, MBOX3 = csr
  host_pc,  \* the emulator thread: "ready" between calls
  call,     \* the call it is in
  result,   \* what the last call returned
  vpu_pc,   \* the VPU's place in its loop
  vpu,      \* its locals: cmd, the arguments, a, and which half of a long
  cycle,    \* the bus adapter's registers and how far the cycle has come
  mem,      \* the Amiga's memory
  got       \* history: what each access of the call returned, 0 for a write

hostVars == <<host_pc, call, result>>
vpuVars == <<vpu_pc, vpu>>
vars == <<mbox, hostVars, vpuVars, cycle, mem, got>>

-----------------------------------------------------------------------------
cmd_w8   == 1
cmd_r8   == 3
cmd_w16  == 5
cmd_r16  == 7
cmd_w32  == 9
cmd_r32  == 11
cmd_w64  == 13
cmd_r64  == 15
cmd_stat == 17
cmd_ipl  == 19

ReadCmds  == {cmd_r8, cmd_r16, cmd_r32, cmd_r64}
WriteCmds == {cmd_w8, cmd_w16, cmd_w32, cmd_w64}
ByteCmds  == {cmd_r8, cmd_w8}
WideCmds  == {cmd_r32, cmd_r64, cmd_w32, cmd_w64}

Command(c) ==
  CASE c.op = "ps_read_8"          -> cmd_r8
    [] c.op = "ps_read_16"         -> cmd_r16
    [] c.op = "ps_read_32"         -> cmd_r32
    [] c.op = "ps_write_8"         -> cmd_w8
    [] c.op = "ps_write_16"        -> cmd_w16
    [] c.op = "ps_write_32"        -> cmd_w32
    [] c.op = "ps_read_status_reg" -> cmd_stat
    [] c.op = "ps_get_ipl_zero"    -> cmd_ipl

NoCycle == [phase |-> "none", read |-> FALSE, byte |-> FALSE, addr |-> 0, data |-> 0]

\* The VPU's locals when none of them is live.
NoLocals == [cmd |-> 0, addr |-> 0, data |-> 0, second |-> FALSE, a |-> 0]

TxnInProgress == cycle.phase = "running"

\* The byte lane of a word that address a selects.
Lane(a, word) == IF a % 2 = 0 THEN word \div Base ELSE word % Base

\* Memory once the cycle in the adapter has run, if it is a write.
AfterCycle ==
  IF ~TxnInProgress \/ cycle.read THEN mem
  ELSE IF cycle.byte
       THEN [mem EXCEPT ![cycle.addr] = Lane(cycle.addr, cycle.data)]
       ELSE [mem EXCEPT ![cycle.addr]     = cycle.data \div Base,
                        ![cycle.addr + 1] = cycle.data % Base]

Bus == INSTANCE AtomicBus WITH mem <- AfterCycle

-----------------------------------------------------------------------------
(* The ARM.                                                                *)

Init ==
  /\ mbox = [addr |-> 0, data |-> 0, csr |-> 0]
  /\ host_pc = "ready"
  /\ call = Bus!NoCall
  /\ result = 0
  /\ vpu_pc = "poll"
  /\ vpu = NoLocals
  /\ cycle = NoCycle
  /\ mem \in [Bus!Address -> Bus!Byte]
  /\ got = <<>>

\* A ps_ function stores its arguments: the address of an access, and the data
\* of a write.
HostArguments ==
  /\ host_pc = "ready"
  /\ host_pc' = "start"
  /\ call' \in Bus!Calls
  /\ mbox' = [mbox EXCEPT
       !.addr = IF Command(call') \in ReadCmds \union WriteCmds THEN call'.addr ELSE @,
       !.data = IF Command(call') \in WriteCmds THEN call'.data ELSE @]
  /\ UNCHANGED <<result, vpuVars, cycle, mem, got>>

\* It writes the command, whose bit 0 is the busy bit.
HostStart ==
  /\ host_pc = "start"
  /\ host_pc' = "wait"
  /\ mbox' = [mbox EXCEPT !.csr = Command(call)]
  /\ UNCHANGED <<call, result, vpuVars, cycle, mem, got>>

\* Mutated HostReturn: a write does not spin on the busy bit.
HostPosts ==
  /\ host_pc = "wait" /\ (mbox.csr % 2 = 0 \/ call.op \in Bus!Writing)
  /\ host_pc' = "ready"
  /\ result' = IF Command(call) \in WriteCmds THEN 0 ELSE mbox.data
  /\ call' = Bus!NoCall
  /\ got' = <<>>
  /\ UNCHANGED <<mbox, vpuVars, cycle, mem>>

\* The busy bit is clear: a function that reads returns MBOX1.
HostReturn ==
  /\ host_pc = "wait" /\ mbox.csr % 2 = 0
  /\ host_pc' = "ready"
  /\ result' = IF Command(call) \in WriteCmds THEN 0 ELSE mbox.data
  /\ call' = Bus!NoCall
  /\ got' = <<>>
  /\ UNCHANGED <<mbox, vpuVars, cycle, mem>>

\* ps_write_status_reg, of ps_reset_state_machine and ps_pulse_reset: the ARM
\* itself makes the pins outputs, strobes the status register and lets them go.
HostStatusBegin ==
  /\ host_pc = "ready"
  /\ host_pc' = "status"
  /\ UNCHANGED <<mbox, call, result, vpuVars, cycle, mem, got>>

HostStatusEnd ==
  /\ host_pc = "status"
  /\ host_pc' = "ready"
  /\ UNCHANGED <<mbox, call, result, vpuVars, cycle, mem, got>>

-----------------------------------------------------------------------------
(* The VPU.                                                                *)

VpuPoll ==
  /\ vpu_pc = "poll"
  /\ vpu_pc' = "sync"
  /\ vpu' = [vpu EXCEPT !.cmd = mbox.csr]
  /\ UNCHANGED <<mbox, hostVars, cycle, mem, got>>

\* Mutated Handler: the switch has no case for the status register.
HandlerWithoutStatus(cmd) ==
  CASE cmd \in ReadCmds \union WriteCmds -> "drive"
    [] cmd = cmd_ipl                     -> "ipl"
    [] OTHER                             -> "poll"

\* Where the switch sends a command.
Handler(cmd) ==
  CASE cmd \in ReadCmds \union WriteCmds -> "drive"
    [] cmd = cmd_stat                    -> "status"
    [] cmd = cmd_ipl                     -> "ipl"
    [] OTHER                             -> "poll"

\* Mutated VpuDispatch: the wait for the posted cycle is gone.
VpuDispatchAtOnce ==
  /\ vpu_pc = "sync"
  /\ vpu_pc' = Handler(vpu.cmd % 32)
  /\ vpu' = IF vpu_pc' = "poll" THEN NoLocals
            ELSE [vpu EXCEPT !.addr = mbox.addr,
                    !.data = IF vpu.cmd \in WriteCmds THEN mbox.data ELSE 0]
  /\ UNCHANGED <<mbox, hostVars, cycle, mem, got>>

\* The VPU waits for the bus before it looks at the command it polled.
VpuDispatch ==
  /\ vpu_pc = "sync" /\ ~TxnInProgress
  /\ vpu_pc' = Handler(vpu.cmd % 32)
  /\ vpu' = IF vpu_pc' = "poll" THEN NoLocals
            ELSE [vpu EXCEPT !.addr = mbox.addr,
                    !.data = IF vpu.cmd \in WriteCmds THEN mbox.data ELSE 0]
  /\ UNCHANGED <<mbox, hostVars, cycle, mem, got>>

VpuStatus ==
  /\ vpu_pc = "status"
  /\ vpu_pc' = "done"
  /\ mbox' = [mbox EXCEPT !.data = mem[IplAddr]]
  /\ got' = Append(got, mbox'.data)
  /\ UNCHANGED <<hostVars, vpu, cycle, mem>>

VpuIpl ==
  /\ vpu_pc = "ipl"
  /\ vpu_pc' = "done"
  /\ mbox' = [mbox EXCEPT !.data = IF mem[IplAddr] = 0 THEN 1 ELSE 0]
  /\ got' = Append(got, mbox'.data)
  /\ UNCHANGED <<hostVars, vpu, cycle, mem>>

\* What a write puts on the 16 data pins: a byte at an even address on both
\* lanes, the high word of a long first.
Driven ==
  CASE vpu.cmd = cmd_w8 -> IF vpu.addr % 2 = 0 THEN vpu.data + vpu.data * Base
                                               ELSE vpu.data % Base
    [] vpu.cmd \in WideCmds /\ ~vpu.second -> vpu.data \div (Base * Base)
    [] OTHER -> vpu.data % (Base * Base)

\* Mutated VpuDrive: the second word of a long does not wait for the first.
VpuDriveAtOnce ==
  /\ vpu_pc = "drive"
  /\ vpu_pc' = "start"
  /\ cycle' = [phase |-> "latching",
               read |-> vpu.cmd \in ReadCmds, byte |-> vpu.cmd \in ByteCmds,
               addr |-> vpu.addr + (IF vpu.second THEN 2 ELSE 0),
               data |-> IF vpu.cmd \in WriteCmds THEN Driven ELSE 0]
  /\ UNCHANGED <<mbox, hostVars, vpu, mem, got>>

\* The pins become outputs and the adapter's data and low address registers are
\* loaded.  ps_write_16 waits for the bus first, as do both functions that move
\* a long between its words.
VpuDrive ==
  /\ vpu_pc = "drive"
  /\ (vpu.cmd \in WriteCmds \ {cmd_w8} \/ vpu.second) => ~TxnInProgress
  /\ vpu_pc' = "start"
  /\ cycle' = [phase |-> "latching",
               read |-> vpu.cmd \in ReadCmds, byte |-> vpu.cmd \in ByteCmds,
               addr |-> vpu.addr + (IF vpu.second THEN 2 ELSE 0),
               data |-> IF vpu.cmd \in WriteCmds THEN Driven ELSE 0]
  /\ UNCHANGED <<mbox, hostVars, vpu, mem, got>>

\* The high address register starts the cycle.  A write is left to run; a read
\* turns the pins round and asserts RD.
VpuStart ==
  /\ vpu_pc = "start"
  /\ cycle' = [cycle EXCEPT !.phase = "running"]
  /\ IF vpu.cmd \in ReadCmds
     THEN vpu_pc' = "sample" /\ UNCHANGED <<vpu, got>>
     ELSE /\ got' = Append(got, 0)
          /\ IF vpu.cmd \in WideCmds /\ ~vpu.second
             THEN vpu_pc' = "drive" /\ vpu' = [vpu EXCEPT !.second = TRUE]
             ELSE vpu_pc' = "done" /\ UNCHANGED vpu
  /\ UNCHANGED <<mbox, hostVars, mem>>

\* The cycle is over: the value is taken off the pins and RD is released.
VpuSample ==
  /\ vpu_pc = "sample" /\ ~TxnInProgress
  /\ cycle' = NoCycle
  /\ mbox' = [mbox EXCEPT !.data =
       IF vpu.cmd = cmd_r8 THEN Lane(vpu.addr, cycle.data) ELSE cycle.data]
  /\ IF vpu.cmd \in WideCmds
     THEN IF vpu.second
          THEN vpu_pc' = "merge" /\ UNCHANGED vpu
          ELSE vpu_pc' = "drive" /\ vpu' = [vpu EXCEPT !.second = TRUE, !.a = mbox'.data]
     ELSE vpu_pc' = "done" /\ UNCHANGED vpu
  /\ UNCHANGED <<hostVars, mem, got>>

\* ps_read_32 puts the two words together in MBOX1.
VpuMerge ==
  /\ vpu_pc = "merge"
  /\ vpu_pc' = "done"
  /\ mbox' = [mbox EXCEPT !.data = vpu.a * Base * Base + @]
  /\ UNCHANGED <<hostVars, vpu, cycle, mem, got>>

\* The command goes back to MBOX3 with its busy bit clear.
VpuDone ==
  /\ vpu_pc = "done"
  /\ vpu_pc' = "poll"
  /\ mbox' = [mbox EXCEPT !.csr = vpu.cmd - 1]
  /\ vpu' = NoLocals
  /\ UNCHANGED <<hostVars, cycle, mem, got>>

-----------------------------------------------------------------------------
(* The bus adapter and the Amiga.                                          *)

BusWriteEnds ==
  /\ TxnInProgress /\ ~cycle.read
  /\ mem' = AfterCycle
  /\ cycle' = NoCycle
  /\ UNCHANGED <<mbox, hostVars, vpuVars, got>>

BusReadEnds ==
  /\ TxnInProgress /\ cycle.read
  /\ \E word \in Bus!Word :
       /\ IF cycle.byte
          THEN /\ Lane(cycle.addr, word) = mem[cycle.addr]
               /\ got' = Append(got, mem[cycle.addr])
          ELSE /\ word = Base * mem[cycle.addr] + mem[cycle.addr + 1]
               /\ got' = Append(got, word)
       /\ cycle' = [cycle EXCEPT !.phase = "fetched", !.data = word]
  /\ UNCHANGED <<mbox, hostVars, vpuVars, mem>>

AmigaChanges ==
  /\ \E a \in Bus!Address, b \in Bus!Byte : mem' = [mem EXCEPT ![a] = b]
  /\ UNCHANGED <<mbox, hostVars, vpuVars, cycle, got>>

-----------------------------------------------------------------------------
Host == HostArguments \/ HostStart \/ HostReturn \/ HostStatusBegin \/ HostStatusEnd

Vpu == \/ VpuPoll \/ VpuDispatch \/ VpuStatus \/ VpuIpl \/ VpuDrive
       \/ VpuStart \/ VpuSample \/ VpuMerge \/ VpuDone

Adapter == BusWriteEnds \/ BusReadEnds

Next == Host \/ Vpu \/ Adapter \/ AmigaChanges

\* The VPU runs nothing but its loop, the adapter ends every cycle, and the
\* emulator thread only spins while it waits.
Fairness == WF_vars(HostStart) /\ WF_vars(HostReturn) /\ WF_vars(Vpu) /\ WF_vars(Adapter)

Spec == Init /\ [][Next]_vars /\ Fairness

-----------------------------------------------------------------------------
(* What holds of it.                                                       *)

\* Every variable keeps to the values its registers and pins can take.
TypeOK ==
  /\ mbox \in [addr : Bus!Address, data : Bus!Long, csr : 0 .. 31]
  /\ host_pc \in {"ready", "start", "wait", "status"}
  /\ call \in Bus!Calls \union {Bus!NoCall}
  /\ result \in Bus!Long
  /\ vpu_pc \in {"poll", "sync", "status", "ipl", "drive", "start", "sample",
                 "merge", "done"}
  /\ vpu \in [cmd : 0 .. 31, addr : Bus!Address, data : Bus!Long,
              second : BOOLEAN, a : Bus!Word]
  /\ cycle \in [phase : {"none", "latching", "running", "fetched"},
                read : BOOLEAN, byte : BOOLEAN, addr : Bus!Address, data : Bus!Word]
  /\ mem \in [Bus!Address -> Bus!Byte]
  /\ got \in Seq(Bus!Word)

\* The ARM never drives the pins for a status write while the VPU drives them
\* or holds RD: nothing but the mailbox handshake keeps the two apart.
PinsExclusive ==
  host_pc = "status" => vpu_pc \notin {"status", "start", "sample"}

\* The adapter's registers are not touched while its cycle runs, although a
\* write returns to the emulator before that.
CycleUndisturbed == [][TxnInProgress => UNCHANGED cycle \/ Adapter]_vars

\* For the emulated CPU every access takes effect at once and in its order:
\* the value a function returns is the one memory or the interrupt pins held
\* during the call, after every write made before it.
AtomicAccess == Bus!Spec

\* Every call returns: no command is left with its busy bit set.
EveryCallReturns == host_pc = "wait" ~> host_pc = "ready"
=============================================================================
