--------------------------- MODULE AtomicBusProofs ---------------------------
(***************************************************************************)
(* The bus, for every size of byte and of address space.  First, why the   *)
(* ARM and the VPU do not disturb each other on the pins of the adapter;   *)
(* then that the mailbox, the loop on the VPU and the adapter implement    *)
(* the atomic bus of AtomicBus.                                            *)
(*                                                                         *)
(* The refinement mapping takes memory as it will be once the posted cycle *)
(* has run.  An access takes effect when its value is known (reads) or     *)
(* when its cycle starts (writes); every other step is a stutter, but for  *)
(* the call and the return.  What the steps need to know of each other is  *)
(* the invariant below: where the arguments of the call are, and where the *)
(* values it has fetched.                                                  *)
(***************************************************************************)
EXTENDS VpuMailbox, SequenceTheorems, TLAPS

Busy(csr) == csr % 2 = 1

\* The mailbox and the locals are records, whatever their fields hold.
Records ==
  /\ DOMAIN mbox = {"addr", "data", "csr"} /\ mbox.csr \in 0 .. 31
  /\ DOMAIN vpu = {"cmd", "addr", "data", "second", "a"} /\ vpu.cmd \in 0 .. 31
  /\ DOMAIN cycle = {"phase", "read", "byte", "addr", "data"}

\* The busy bit is set only while the host waits, and a VPU that has polled a
\* busy command, or works on it, has the very command the host waits for.
Handshake ==
  /\ host_pc \in {"ready", "start", "wait", "status"}
  /\ host_pc \in {"start", "wait"} => call \in Bus!Calls
  /\ host_pc # "wait" => ~Busy(mbox.csr)
  /\ vpu_pc \notin {"poll", "sync"} => Busy(vpu.cmd)
  /\ vpu_pc # "poll" /\ Busy(vpu.cmd) => host_pc = "wait" /\ mbox.csr = vpu.cmd

\* Between the wait for the bus and the register that starts a cycle, no cycle
\* runs.
BusHeld ==
  /\ vpu_pc = "start" => cycle.phase = "latching"
  /\ vpu_pc = "drive" /\ ~vpu.second => ~TxnInProgress

MailboxInv == Records /\ Handshake /\ BusHeld

-----------------------------------------------------------------------------
\* Every command the host writes has its busy bit set, and is handled.
LEMMA CommandIsBusy ==
  ASSUME NEW c \in Bus!Calls
  PROVE  Command(c) \in 0 .. 31 /\ Busy(Command(c))
<1>1. c.op \in {"ps_read_8", "ps_read_16", "ps_read_32", "ps_write_8", "ps_write_16",
                "ps_write_32", "ps_read_status_reg", "ps_get_ipl_zero"}
  BY DEF Bus!Calls, Bus!CallOf
<1>2. QED
  BY <1>1 DEF Command, Busy, cmd_w8, cmd_r8, cmd_w16, cmd_r16, cmd_w32, cmd_r32,
              cmd_stat, cmd_ipl

\* The switch has a handler for busy commands only.
LEMMA HandledIsBusy ==
  ASSUME NEW cmd \in 0 .. 31, Handler(cmd % 32) # "poll"
  PROVE  Busy(cmd)
<1>1. cmd % 32 = cmd
  OBVIOUS
<1>2. QED
  BY <1>1 DEF Handler, Busy, ReadCmds, WriteCmds, cmd_w8, cmd_r8, cmd_w16, cmd_r16,
              cmd_w32, cmd_r32, cmd_w64, cmd_r64, cmd_stat, cmd_ipl

LEMMA MailboxInit == Init => MailboxInv
  BY DEF Init, MailboxInv, Records, Handshake, BusHeld, Busy, NoLocals, NoCycle,
         TxnInProgress

-----------------------------------------------------------------------------
LEMMA HostKeeps == MailboxInv /\ Host => MailboxInv'
<1> SUFFICES ASSUME MailboxInv, Host PROVE MailboxInv'
  OBVIOUS
<1> USE DEF MailboxInv, Records, Handshake, BusHeld, TxnInProgress, vpuVars
<1>1. CASE HostArguments
  BY <1>1 DEF HostArguments
<1>2. CASE HostStart
  <2>1. Command(call) \in 0 .. 31 /\ Busy(Command(call))
    BY <1>2, CommandIsBusy DEF HostStart
  <2>2. QED
    BY <1>2, <2>1 DEF HostStart
<1>3. CASE HostReturn
  <2>1. ~Busy(mbox.csr)
    BY <1>3 DEF HostReturn, Busy
  <2>2. QED
    BY <1>3, <2>1 DEF HostReturn
<1>4. CASE HostStatusBegin
  BY <1>4 DEF HostStatusBegin
<1>5. CASE HostStatusEnd
  BY <1>5 DEF HostStatusEnd
<1>6. QED
  BY <1>1, <1>2, <1>3, <1>4, <1>5 DEF Host

LEMMA VpuKeeps == MailboxInv /\ Vpu => MailboxInv'
<1> SUFFICES ASSUME MailboxInv, Vpu PROVE MailboxInv'
  OBVIOUS
<1> USE DEF MailboxInv, Records, Handshake, BusHeld, TxnInProgress, hostVars, vpuVars
<1>1. CASE VpuPoll
  BY <1>1 DEF VpuPoll
<1>2. CASE VpuDispatch
  <2>1. vpu_pc' = Handler(vpu.cmd % 32) /\ ~TxnInProgress
    BY <1>2 DEF VpuDispatch
  <2>2. vpu_pc' \in {"drive", "status", "ipl", "poll"}
    BY <2>1 DEF Handler
  <2>3. CASE vpu_pc' = "poll"
    BY <1>2, <2>3 DEF VpuDispatch, NoLocals
  <2>4. CASE vpu_pc' # "poll"
    <3>1. Busy(vpu.cmd)
      BY <2>1, <2>4, HandledIsBusy
    <3>2. QED
      BY <1>2, <2>2, <2>4, <3>1 DEF VpuDispatch
  <2>5. QED
    BY <2>3, <2>4
<1>3. CASE VpuStatus
  BY <1>3 DEF VpuStatus
<1>4. CASE VpuIpl
  BY <1>4 DEF VpuIpl
<1>5. CASE VpuDrive
  BY <1>5 DEF VpuDrive
<1>6. CASE VpuStart
  BY <1>6 DEF VpuStart
<1>7. CASE VpuSample
  BY <1>7 DEF VpuSample, NoCycle
<1>8. CASE VpuMerge
  BY <1>8 DEF VpuMerge
<1>9. CASE VpuDone
  <2>1. Busy(vpu.cmd) /\ host_pc = "wait"
    BY <1>9 DEF VpuDone
  <2>2. vpu.cmd - 1 \in 0 .. 31 /\ ~Busy(vpu.cmd - 1)
    BY <2>1 DEF Busy
  <2>3. QED
    BY <1>9, <2>1, <2>2 DEF VpuDone, NoLocals, Busy
<1>10. QED
  BY <1>1, <1>2, <1>3, <1>4, <1>5, <1>6, <1>7, <1>8, <1>9 DEF Vpu

LEMMA OutsideKeeps == MailboxInv /\ (Adapter \/ AmigaChanges) => MailboxInv'
<1> SUFFICES ASSUME MailboxInv, Adapter \/ AmigaChanges PROVE MailboxInv'
  OBVIOUS
<1> USE DEF MailboxInv, Records, Handshake, BusHeld, TxnInProgress, hostVars, vpuVars
<1>1. CASE BusWriteEnds
  BY <1>1 DEF BusWriteEnds, NoCycle
<1>2. CASE BusReadEnds
  BY <1>2 DEF BusReadEnds
<1>3. CASE AmigaChanges
  BY <1>3 DEF AmigaChanges
<1>4. QED
  BY <1>1, <1>2, <1>3 DEF Adapter

LEMMA MailboxStep == MailboxInv /\ [Next]_vars => MailboxInv'
<1>1. MailboxInv /\ UNCHANGED vars => MailboxInv'
  BY DEF MailboxInv, Records, Handshake, BusHeld, TxnInProgress, vars, hostVars, vpuVars
<1>2. QED
  BY <1>1, HostKeeps, VpuKeeps, OutsideKeeps DEF Next

LEMMA MailboxInvariant == Spec => []MailboxInv
  BY MailboxInit, MailboxStep, PTL DEF Spec

-----------------------------------------------------------------------------
\* The ARM's status writes never meet the VPU on the pins: at that time no
\* command is busy, so the VPU can only be polling.
THEOREM PinsAlwaysExclusive == Spec => []PinsExclusive
<1>1. MailboxInv => PinsExclusive
  BY DEF MailboxInv, Handshake, PinsExclusive
<1>2. QED
  BY <1>1, MailboxInvariant, PTL

\* No step but the adapter's own changes a cycle that is running: the posted
\* cycle of a write is waited for before the next command is dispatched, and
\* the first word of a long before its second.
THEOREM CyclesRunUndisturbed == Spec => CycleUndisturbed
<1>1. ASSUME MailboxInv, [Next]_vars, TxnInProgress
      PROVE  UNCHANGED cycle \/ Adapter
  <2> USE <1>1 DEF MailboxInv, BusHeld, TxnInProgress
  <2>1. CASE Host
    BY <2>1 DEF Host, HostArguments, HostStart, HostReturn, HostStatusBegin, HostStatusEnd
  <2>2. CASE Vpu
    <3>1. CASE VpuDrive
      BY <3>1 DEF VpuDrive
    <3>2. CASE VpuStart
      BY <3>2 DEF VpuStart
    <3>3. CASE VpuSample
      BY <3>3 DEF VpuSample
    <3>4. CASE VpuPoll \/ VpuDispatch \/ VpuStatus \/ VpuIpl \/ VpuMerge \/ VpuDone
      BY <3>4 DEF VpuPoll, VpuDispatch, VpuStatus, VpuIpl, VpuMerge, VpuDone
    <3>5. QED
      BY <2>2, <3>1, <3>2, <3>3, <3>4 DEF Vpu
  <2>3. CASE AmigaChanges
    BY <2>3 DEF AmigaChanges
  <2>4. CASE UNCHANGED vars
    BY <2>4 DEF vars
  <2>5. QED
    BY <2>1, <2>2, <2>3, <2>4 DEF Next
<1>2. MailboxInv /\ [Next]_vars => [TxnInProgress => UNCHANGED cycle \/ Adapter]_vars
  BY <1>1
<1>3. QED
  BY <1>2, MailboxInvariant, PTL DEF Spec, CycleUndisturbed

-----------------------------------------------------------------------------
(* The bus is atomic: the invariant.                                       *)

Moving == vpu_pc \in {"drive", "start", "sample"}
Fetched == vpu_pc = "sample" /\ cycle.phase = "fetched"
WordsDone == IF vpu.second THEN 1 ELSE 0

Types ==
  /\ mbox \in [addr : Int, data : Int, csr : 0 .. 31]
  /\ vpu_pc \in {"poll", "sync", "status", "ipl", "drive", "start", "sample", "merge", "done"}
  /\ vpu \in [cmd : 0 .. 31, addr : Int, data : Int, second : BOOLEAN, a : Int]
  /\ cycle \in [phase : {"none", "latching", "running", "fetched"},
                read : BOOLEAN, byte : BOOLEAN, addr : Int, data : Int]
  /\ mem \in [Bus!Address -> Int]
  /\ got \in Seq(Int)

\* The arguments of the call are in the mailbox, and nothing has been done yet.
Asked ==
  /\ got = <<>>
  /\ Command(call) \in ReadCmds \union WriteCmds => mbox.addr = call.addr
  /\ Command(call) \in WriteCmds => mbox.data = call.data

\* Every access of the call has been made, and the mailbox holds its result.
Answered ==
  /\ Len(got) = Bus!Accesses(call)
  /\ Command(call) \in WriteCmds => got[1] = 0
  /\ Command(call) \notin WriteCmds =>
       mbox.data = IF call.op = "ps_read_32" THEN Base * Base * got[1] + got[2]
                                             ELSE got[1]

\* What the host finds in the mailbox.
HostInv ==
  /\ host_pc \in {"ready", "status"} => call = Bus!NoCall /\ got = <<>>
  /\ host_pc = "start" => Asked
  /\ host_pc = "wait" /\ Busy(mbox.csr) =>
       /\ mbox.csr = Command(call)
       /\ vpu_pc \in {"poll", "sync"} => Asked
  /\ host_pc = "wait" /\ ~Busy(mbox.csr) => Answered

\* What the VPU has taken from it.
LocalsInv ==
  /\ vpu_pc = "status" => vpu.cmd = cmd_stat /\ got = <<>> /\ ~TxnInProgress
  /\ vpu_pc = "ipl" => vpu.cmd = cmd_ipl /\ got = <<>> /\ ~TxnInProgress
  /\ Moving =>
       /\ vpu.cmd \in ReadCmds \union WriteCmds
       /\ vpu.addr = call.addr
       /\ vpu.cmd \in WriteCmds => vpu.data = call.data
       /\ vpu.second => vpu.cmd \in WideCmds
  /\ vpu_pc \in {"poll", "sync"} => ~vpu.second

\* What the registers of the bus adapter hold.
CycleInv ==
  /\ vpu_pc \in {"start", "sample"} =>
       /\ cycle.read = (vpu.cmd \in ReadCmds)
       /\ cycle.byte = (vpu.cmd \in ByteCmds)
       /\ cycle.addr = vpu.addr + 2 * WordsDone
       /\ vpu.cmd \in WriteCmds => cycle.data = Driven
  /\ vpu_pc = "sample" => cycle.read /\ cycle.phase \in {"running", "fetched"}
  /\ TxnInProgress /\ cycle.read => vpu_pc = "sample"

\* Where the values are that the call has fetched.
GotInv ==
  /\ Moving /\ ~Fetched => Len(got) = WordsDone
  /\ Moving /\ vpu.second => got[1] = IF vpu.cmd \in WriteCmds THEN 0 ELSE vpu.a
  /\ Fetched =>
       /\ Len(got) = WordsDone + 1
       /\ got[WordsDone + 1] = IF vpu.cmd = cmd_r8 THEN Lane(vpu.addr, cycle.data)
                                                   ELSE cycle.data
  /\ vpu_pc = "merge" =>
       vpu.cmd = cmd_r32 /\ Len(got) = 2 /\ vpu.a = got[1] /\ mbox.data = got[2]
  /\ vpu_pc = "done" => Answered

DataInv == Types /\ HostInv /\ LocalsInv /\ CycleInv /\ GotInv

-----------------------------------------------------------------------------
(* The commands.                                                           *)

\* The command tells which function was called.
LEMMA CommandOfCall ==
  ASSUME NEW c \in Bus!Calls
  PROVE  /\ Command(c) = cmd_stat <=> c.op = "ps_read_status_reg"
         /\ Command(c) = cmd_ipl  <=> c.op = "ps_get_ipl_zero"
         /\ Command(c) = cmd_r8   <=> c.op = "ps_read_8"
         /\ Command(c) = cmd_w8   <=> c.op = "ps_write_8"
         /\ Command(c) = cmd_r32  <=> c.op = "ps_read_32"
         /\ Command(c) = cmd_w32  <=> c.op = "ps_write_32"
         /\ Command(c) = cmd_w16  <=> c.op = "ps_write_16"
         /\ Command(c) = cmd_r16  <=> c.op = "ps_read_16"
         /\ Command(c) \in WideCmds  <=> c.op \in Bus!Wide
         /\ Command(c) \in ByteCmds  <=> c.op \in {"ps_read_8", "ps_write_8"}
         /\ Command(c) \in WriteCmds <=> c.op \in Bus!Writing
         /\ Command(c) \in ReadCmds  <=> c.op \in {"ps_read_8", "ps_read_16", "ps_read_32"}
<1>1. c.op \in {"ps_read_8", "ps_read_16", "ps_read_32", "ps_write_8", "ps_write_16",
                "ps_write_32", "ps_read_status_reg", "ps_get_ipl_zero"}
  BY DEF Bus!Calls, Bus!CallOf
<1> USE DEF cmd_w8, cmd_r8, cmd_w16, cmd_r16, cmd_w32, cmd_r32, cmd_w64, cmd_r64,
            cmd_stat, cmd_ipl, ReadCmds, WriteCmds, ByteCmds, WideCmds, Bus!Wide,
            Bus!Writing
<1>2. /\ c.op = "ps_read_8" => Command(c) = cmd_r8
      /\ c.op = "ps_read_16" => Command(c) = cmd_r16
      /\ c.op = "ps_read_32" => Command(c) = cmd_r32
      /\ c.op = "ps_write_8" => Command(c) = cmd_w8
      /\ c.op = "ps_write_16" => Command(c) = cmd_w16
      /\ c.op = "ps_write_32" => Command(c) = cmd_w32
      /\ c.op = "ps_read_status_reg" => Command(c) = cmd_stat
      /\ c.op = "ps_get_ipl_zero" => Command(c) = cmd_ipl
  BY DEF Command
<1>3. QED
  BY <1>1, <1>2

\* Every command of a call is handled.
LEMMA HandlerOfCall ==
  ASSUME NEW c \in Bus!Calls
  PROVE  /\ Handler(Command(c) % 32) = "status" <=> Command(c) = cmd_stat
         /\ Handler(Command(c) % 32) = "ipl" <=> Command(c) = cmd_ipl
         /\ Handler(Command(c) % 32) = "drive" <=> Command(c) \in ReadCmds \union WriteCmds
         /\ Handler(Command(c) % 32) \in {"status", "ipl", "drive"}
<1>1. c.op \in {"ps_read_8", "ps_read_16", "ps_read_32", "ps_write_8", "ps_write_16",
                "ps_write_32", "ps_read_status_reg", "ps_get_ipl_zero"}
  BY DEF Bus!Calls, Bus!CallOf
<1>2. Command(c) \in {1, 3, 5, 7, 9, 11, 17, 19}
  BY <1>1 DEF Command, cmd_w8, cmd_r8, cmd_w16, cmd_r16, cmd_w32, cmd_r32, cmd_stat, cmd_ipl
<1>3. Command(c) % 32 = Command(c)
  BY <1>2
<1>4. QED
  BY <1>2, <1>3 DEF Handler, cmd_w8, cmd_r8, cmd_w16, cmd_r16, cmd_w32, cmd_r32,
              cmd_w64, cmd_r64, cmd_stat, cmd_ipl, ReadCmds, WriteCmds

\* What a call consists of.
LEMMA CallTypes ==
  ASSUME NEW c \in Bus!Calls
  PROVE  /\ c.addr \in Bus!Address /\ c.addr \in Int /\ c.data \in Int
         /\ c # Bus!NoCall
         /\ c.op = "ps_write_8" => c.data \in Bus!Byte
         /\ c.op = "ps_write_16" => c.data \in Bus!Word
BY BaseAssumption, TopAssumption
   DEF Bus!Calls, Bus!CallOf, Bus!Address, Bus!Byte, Bus!Word, Bus!Long, Bus!NoCall

\* Sequences of numbers, as got is one.
LEMMA GotAppend ==
  ASSUME got \in Seq(Int), NEW v \in Int
  PROVE  /\ Append(got, v) \in Seq(Int)
         /\ Len(got) \in Nat /\ Len(Append(got, v)) = Len(got) + 1
         /\ got = <<>> <=> Len(got) = 0
         /\ \A i \in 1 .. Len(got) : Append(got, v)[i] = got[i]
         /\ Append(got, v)[Len(got) + 1] = v
BY AppendProperties, EmptySeq

LEMMA LaneType ==
  ASSUME NEW a \in Int, NEW w \in Int
  PROVE  Lane(a, w) \in Int
BY BaseAssumption DEF Lane

LEMMA SquareOfBase == Base * Base \in Nat \ {0}
BY BaseAssumption

LEMMA DrivenType ==
  ASSUME vpu.data \in Int, vpu.addr \in Int
  PROVE  Driven \in Int
<1> DEFINE m == Base * Base
<1>1. m \in Nat \ {0}
  BY SquareOfBase
<1> HIDE DEF m
<1>2. vpu.data \div m \in Int /\ vpu.data % m \in Int
  BY <1>1
<1>3. vpu.data + vpu.data * Base \in Int /\ vpu.data % Base \in Int
  BY BaseAssumption
<1> QED
  BY <1>2, <1>3 DEF Driven, m

-----------------------------------------------------------------------------
(* The invariant is inductive: the ARM.                                    *)

LEMMA DataInit == Init => DataInv
<1> SUFFICES ASSUME Init PROVE DataInv
  OBVIOUS
<1>1. Types
  <2>1. mem \in [Bus!Address -> Int]
    BY BaseAssumption DEF Init, Bus!Byte
  <2> QED
    BY <2>1, EmptySeq DEF Init, Types, NoLocals, NoCycle
<1>2. HostInv /\ LocalsInv /\ CycleInv /\ GotInv
  BY DEF Init, HostInv, LocalsInv, CycleInv, GotInv, Moving, Fetched, NoLocals, NoCycle,
         TxnInProgress
<1> QED
  BY <1>1, <1>2 DEF DataInv

\* The VPU works on a command only while the host waits with its busy bit set.
LEMMA WorkingMeansBusy ==
  ASSUME MailboxInv, DataInv, vpu_pc \notin {"poll", "sync"}
  PROVE  /\ host_pc = "wait" /\ call \in Bus!Calls /\ Busy(mbox.csr)
         /\ vpu.cmd = mbox.csr /\ vpu.cmd = Command(call)
BY DEF MailboxInv, Handshake, DataInv, HostInv

LEMMA HostArgumentsData ==
  ASSUME MailboxInv, DataInv, HostArguments
  PROVE  DataInv'
<1>1. vpu_pc \in {"poll", "sync"}
  BY WorkingMeansBusy DEF HostArguments, DataInv, Types
<1>2. Types'
  <2>1. call'.addr \in Int /\ call'.data \in Int
    BY CallTypes DEF HostArguments
  <2> QED
    BY <2>1 DEF HostArguments, DataInv, Types, vpuVars
<1>3. HostInv'
  BY DEF HostArguments, DataInv, HostInv, Asked, Types
<1>4. LocalsInv' /\ CycleInv' /\ GotInv'
  BY <1>1 DEF HostArguments, DataInv, LocalsInv, CycleInv, GotInv, Moving, Fetched,
              TxnInProgress, vpuVars, WordsDone
<1> QED
  BY <1>2, <1>3, <1>4 DEF DataInv

LEMMA HostStartData ==
  ASSUME MailboxInv, DataInv, HostStart
  PROVE  DataInv'
<1>1. vpu_pc \in {"poll", "sync"}
  BY WorkingMeansBusy DEF HostStart, DataInv, Types
<1>2. call \in Bus!Calls
  BY DEF MailboxInv, Handshake, HostStart
<1>3. Command(call) \in 0 .. 31 /\ Busy(Command(call))
  BY <1>2, CommandIsBusy
<1>4. Types'
  BY <1>3 DEF HostStart, DataInv, Types, vpuVars
<1>5. mbox'.csr = Command(call) /\ mbox'.addr = mbox.addr /\ mbox'.data = mbox.data
  BY DEF HostStart, DataInv, Types
<1>6. HostInv'
  BY <1>3, <1>5 DEF HostStart, DataInv, HostInv, Asked
<1>7. LocalsInv' /\ CycleInv' /\ GotInv'
  BY <1>1 DEF HostStart, DataInv, LocalsInv, CycleInv, GotInv, Moving, Fetched,
              TxnInProgress, vpuVars, WordsDone
<1> QED
  BY <1>4, <1>6, <1>7 DEF DataInv

LEMMA HostReturnData ==
  ASSUME MailboxInv, DataInv, HostReturn
  PROVE  DataInv'
<1>1. vpu_pc \in {"poll", "sync"}
  BY WorkingMeansBusy DEF HostReturn, DataInv, Types, Busy
<1>2. Types'
  BY EmptySeq DEF HostReturn, DataInv, Types, vpuVars
<1>3. HostInv'
  BY DEF HostReturn, HostInv
<1>4. LocalsInv' /\ CycleInv' /\ GotInv'
  BY <1>1 DEF HostReturn, DataInv, LocalsInv, CycleInv, GotInv, Moving, Fetched,
              TxnInProgress, vpuVars, WordsDone
<1> QED
  BY <1>2, <1>3, <1>4 DEF DataInv

LEMMA HostStatusData ==
  ASSUME MailboxInv, DataInv, HostStatusBegin \/ HostStatusEnd
  PROVE  DataInv'
<1>1. /\ UNCHANGED <<mbox, call, vpu_pc, vpu, cycle, mem, got>>
      /\ host_pc \in {"ready", "status"} /\ host_pc' \in {"ready", "status"}
  BY DEF HostStatusBegin, HostStatusEnd, vpuVars
<1>2. Types' /\ HostInv'
  BY <1>1 DEF DataInv, Types, HostInv
<1>3. vpu_pc \in {"poll", "sync"}
  BY <1>1, WorkingMeansBusy DEF DataInv, Types
<1>4. LocalsInv' /\ CycleInv' /\ GotInv'
  BY <1>1, <1>3 DEF DataInv, LocalsInv, CycleInv, GotInv, Moving, Fetched,
              TxnInProgress, WordsDone
<1> QED
  BY <1>2, <1>4 DEF DataInv

-----------------------------------------------------------------------------
(* The invariant is inductive: the VPU.                                    *)

LEMMA VpuPollData ==
  ASSUME MailboxInv, DataInv, VpuPoll
  PROVE  DataInv'
<1>1. Types'
  BY DEF VpuPoll, DataInv, Types, hostVars
<1>2. vpu'.second = vpu.second
  BY DEF VpuPoll, DataInv, Types
<1>3. HostInv'
  BY DEF VpuPoll, DataInv, HostInv, Asked, Answered, hostVars
<1>4. LocalsInv' /\ CycleInv' /\ GotInv'
  BY <1>2 DEF VpuPoll, DataInv, LocalsInv, CycleInv, GotInv, Moving, Fetched, TxnInProgress
<1> QED
  BY <1>1, <1>3, <1>4 DEF DataInv

LEMMA VpuDispatchData ==
  ASSUME MailboxInv, DataInv, VpuDispatch
  PROVE  DataInv'
<1>1. vpu_pc = "sync" /\ ~TxnInProgress /\ vpu_pc' = Handler(vpu.cmd % 32)
      /\ ~vpu.second
      /\ UNCHANGED <<mbox, host_pc, call, result, cycle, mem, got>>
  BY DEF VpuDispatch, DataInv, LocalsInv, hostVars
<1>2. CASE vpu_pc' = "poll"
  <2>1. vpu' = NoLocals
    BY <1>2 DEF VpuDispatch
  <2>2. Types'
    BY <1>1, <1>2, <2>1 DEF DataInv, Types, NoLocals
  <2>3. HostInv'
    BY <1>1, <1>2 DEF DataInv, HostInv, Asked, Answered
  <2>4. LocalsInv' /\ CycleInv' /\ GotInv'
    BY <1>1, <1>2, <2>1 DEF DataInv, LocalsInv, CycleInv, GotInv, Moving, Fetched,
                            TxnInProgress, NoLocals
  <2> QED
    BY <2>2, <2>3, <2>4 DEF DataInv
<1>3. CASE vpu_pc' # "poll"
  <2>1. Busy(vpu.cmd)
    BY <1>1, <1>3, HandledIsBusy DEF DataInv, Types
  <2>2. /\ host_pc = "wait" /\ mbox.csr = vpu.cmd /\ vpu.cmd = Command(call)
        /\ call \in Bus!Calls /\ Asked
    BY <1>1, <2>1 DEF MailboxInv, Handshake, DataInv, HostInv
  <2>3. /\ vpu'.cmd = vpu.cmd /\ vpu'.addr = mbox.addr /\ ~vpu'.second
        /\ vpu'.data = IF vpu.cmd \in WriteCmds THEN mbox.data ELSE 0
        /\ vpu' \in [cmd : 0 .. 31, addr : Int, data : Int, second : BOOLEAN, a : Int]
    <3> DEFINE d == IF vpu.cmd \in WriteCmds THEN mbox.data ELSE 0
    <3>1. vpu' = [vpu EXCEPT !.addr = mbox.addr, !.data = d]
      BY <1>3 DEF VpuDispatch
    <3>2. vpu \in [cmd : 0 .. 31, addr : Int, data : Int, second : BOOLEAN, a : Int]
      BY DEF DataInv, Types
    <3>3. mbox.addr \in Int /\ d \in Int
      BY DEF DataInv, Types
    <3> HIDE DEF d
    <3>4. /\ vpu' \in [cmd : 0 .. 31, addr : Int, data : Int, second : BOOLEAN, a : Int]
          /\ vpu'.cmd = vpu.cmd /\ vpu'.addr = mbox.addr /\ vpu'.data = d
          /\ vpu'.second = vpu.second
      BY <3>1, <3>2, <3>3
    <3> QED
      BY <1>1, <3>4 DEF d
  <2>4. /\ vpu_pc' = "status" => vpu.cmd = cmd_stat
        /\ vpu_pc' = "ipl" => vpu.cmd = cmd_ipl
        /\ vpu_pc' = "drive" => vpu.cmd \in ReadCmds \union WriteCmds
        /\ vpu_pc' \in {"status", "ipl", "drive"}
    BY <1>1, <2>2, HandlerOfCall
  <2>5. Types'
    BY <1>1, <2>3, <2>4 DEF DataInv, Types
  <2>6. HostInv'
    BY <1>1, <2>4 DEF DataInv, HostInv, Asked, Answered
  <2>7. LocalsInv'
    BY <1>1, <2>2, <2>3, <2>4 DEF LocalsInv, Moving, TxnInProgress, Asked
  <2>8. CycleInv'
    BY <1>1, <2>4 DEF DataInv, CycleInv, TxnInProgress
  <2>9. GotInv'
    BY <1>1, <2>2, <2>3, <2>4, EmptySeq DEF GotInv, Moving, Fetched, WordsDone, Asked
  <2> QED
    BY <2>5, <2>6, <2>7, <2>8, <2>9 DEF DataInv
<1> QED
  BY <1>2, <1>3

\* VpuStatus and VpuIpl: one access, whose value goes straight to the mailbox.
LEMMA VpuPinsData ==
  ASSUME MailboxInv, DataInv, VpuStatus \/ VpuIpl
  PROVE  DataInv'
<1>1. /\ vpu_pc \in {"status", "ipl"} /\ vpu_pc' = "done" /\ got' = Append(got, mbox'.data)
      /\ UNCHANGED <<host_pc, call, result, vpu, cycle, mem>>
  BY DEF VpuStatus, VpuIpl, hostVars
<1>2. \E v \in Int : mbox' = [mbox EXCEPT !.data = v]
  BY IplAssumption DEF VpuStatus, VpuIpl, DataInv, Types, Bus!Address
<1>3. PICK v \in Int : mbox' = [mbox EXCEPT !.data = v]
  BY <1>2
<1>4. mbox' \in [addr : Int, data : Int, csr : 0 .. 31] /\ mbox'.data = v /\ mbox'.csr = mbox.csr
  BY <1>3 DEF DataInv, Types
<1>5. got = <<>> /\ vpu.cmd \in {cmd_stat, cmd_ipl}
  BY <1>1 DEF DataInv, LocalsInv
<1>6. got' \in Seq(Int) /\ Len(got') = 1 /\ got'[1] = v
  BY <1>1, <1>4, <1>5, GotAppend DEF DataInv, Types
<1>7. /\ host_pc = "wait" /\ call \in Bus!Calls /\ Busy(mbox.csr)
      /\ vpu.cmd = mbox.csr /\ vpu.cmd = Command(call)
  BY <1>1, WorkingMeansBusy
<1>8. call.op \in {"ps_read_status_reg", "ps_get_ipl_zero"}
  BY <1>5, <1>7, CommandOfCall
<1>9. Command(call) \notin WriteCmds /\ Bus!Accesses(call) = 1 /\ call.op # "ps_read_32"
  BY <1>7, <1>8, CommandOfCall DEF Bus!Accesses, Bus!Wide, Bus!Writing
<1>10. Answered'
  BY <1>1, <1>4, <1>6, <1>9 DEF Answered
<1>11. Types'
  BY <1>1, <1>4, <1>6 DEF DataInv, Types
<1>12. HostInv'
  BY <1>1, <1>4, <1>7 DEF DataInv, HostInv
<1>13. LocalsInv' /\ CycleInv' /\ GotInv'
  BY <1>1, <1>10 DEF DataInv, LocalsInv, CycleInv, GotInv, Moving, Fetched, TxnInProgress
<1> QED
  BY <1>11, <1>12, <1>13 DEF DataInv

LEMMA VpuDriveData ==
  ASSUME MailboxInv, DataInv, VpuDrive
  PROVE  DataInv'
<1>1. /\ vpu_pc = "drive" /\ vpu_pc' = "start"
      /\ UNCHANGED <<mbox, host_pc, call, result, vpu, mem, got>>
  BY DEF VpuDrive, hostVars
<1>2. /\ host_pc = "wait" /\ Busy(mbox.csr)
  BY <1>1, WorkingMeansBusy
<1>3. /\ cycle'.phase = "latching"
      /\ cycle'.read = (vpu.cmd \in ReadCmds) /\ cycle'.byte = (vpu.cmd \in ByteCmds)
      /\ cycle'.addr = vpu.addr + 2 * WordsDone
      /\ vpu.cmd \in WriteCmds => cycle'.data = Driven
  BY DEF VpuDrive, WordsDone, DataInv, Types
<1>4. Types'
  <2>1. Driven \in Int
    BY DrivenType DEF DataInv, Types
  <2>2. vpu.addr + (IF vpu.second THEN 2 ELSE 0) \in Int
    BY DEF DataInv, Types
  <2> QED
    BY <1>1, <2>1, <2>2 DEF VpuDrive, DataInv, Types
<1>5. HostInv'
  BY <1>1, <1>2 DEF DataInv, HostInv
<1>6. LocalsInv'
  BY <1>1 DEF DataInv, LocalsInv, Moving
<1>7. CycleInv'
  BY <1>1, <1>3 DEF CycleInv, TxnInProgress, WordsDone, Driven
<1>8. GotInv'
  BY <1>1, <1>3 DEF DataInv, GotInv, Moving, Fetched, WordsDone
<1> QED
  BY <1>4, <1>5, <1>6, <1>7, <1>8 DEF DataInv

LEMMA VpuStartData ==
  ASSUME MailboxInv, DataInv, VpuStart
  PROVE  DataInv'
<1>1. /\ vpu_pc = "start" /\ cycle' = [cycle EXCEPT !.phase = "running"]
      /\ UNCHANGED <<mbox, host_pc, call, result, mem>>
  BY DEF VpuStart, hostVars
<1>2. /\ host_pc = "wait" /\ call \in Bus!Calls /\ Busy(mbox.csr)
      /\ vpu.cmd = mbox.csr /\ vpu.cmd = Command(call)
  BY <1>1, WorkingMeansBusy
<1>3. /\ cycle'.phase = "running" /\ cycle'.read = cycle.read /\ cycle'.byte = cycle.byte
      /\ cycle'.addr = cycle.addr /\ cycle'.data = cycle.data
      /\ cycle.read = (vpu.cmd \in ReadCmds)
  BY <1>1 DEF DataInv, Types, CycleInv
<1>4. CASE vpu.cmd \in ReadCmds
  <2>1. vpu_pc' = "sample" /\ UNCHANGED <<vpu, got>>
    BY <1>4 DEF VpuStart
  <2>2. vpu.cmd \notin WriteCmds
    BY <1>4 DEF ReadCmds, WriteCmds, cmd_w8, cmd_r8, cmd_w16, cmd_r16, cmd_w32, cmd_r32,
                cmd_w64, cmd_r64
  <2>3. Types'
    BY <1>1, <2>1 DEF DataInv, Types
  <2>4. HostInv'
    BY <1>1, <1>2, <2>1 DEF DataInv, HostInv
  <2>5. LocalsInv'
    BY <1>1, <2>1 DEF DataInv, LocalsInv, Moving
  <2>6. CycleInv'
    BY <1>1, <1>3, <1>4, <2>1, <2>2 DEF DataInv, CycleInv, TxnInProgress, WordsDone
  <2>7. GotInv'
    BY <1>1, <1>3, <2>1 DEF DataInv, GotInv, Moving, Fetched, WordsDone
  <2> QED
    BY <2>3, <2>4, <2>5, <2>6, <2>7 DEF DataInv
<1>5. CASE vpu.cmd \notin ReadCmds
  <2>1. vpu.cmd \in WriteCmds
    BY <1>1, <1>5 DEF DataInv, LocalsInv, Moving
  <2>2. /\ got' = Append(got, 0)
        /\ IF vpu.cmd \in WideCmds /\ ~vpu.second
           THEN vpu_pc' = "drive" /\ vpu' = [vpu EXCEPT !.second = TRUE]
           ELSE vpu_pc' = "done" /\ UNCHANGED vpu
    BY <1>5 DEF VpuStart
  <2>3. Len(got) = WordsDone /\ (vpu.second => got[1] = 0)
    BY <1>1, <2>1 DEF DataInv, GotInv, Moving, Fetched
  <2>4. /\ got' \in Seq(Int) /\ Len(got') = WordsDone + 1 /\ got'[1] = 0
    BY <2>2, <2>3, GotAppend DEF DataInv, Types, WordsDone
  <2>5. vpu' \in [cmd : 0 .. 31, addr : Int, data : Int, second : BOOLEAN, a : Int]
        /\ vpu_pc' \in {"drive", "done"}
    BY <2>2 DEF DataInv, Types
  <2>6. Types'
    BY <1>1, <2>4, <2>5 DEF DataInv, Types
  <2>7. HostInv'
    BY <1>1, <1>2, <2>5 DEF DataInv, HostInv
  <2>8. CASE vpu.cmd \in WideCmds /\ ~vpu.second
    <3>1. /\ vpu_pc' = "drive" /\ vpu'.second = TRUE /\ vpu'.cmd = vpu.cmd
          /\ vpu'.addr = vpu.addr /\ vpu'.data = vpu.data
      BY <2>2, <2>8 DEF DataInv, Types
    <3>2. LocalsInv'
      BY <1>1, <2>8, <3>1 DEF DataInv, LocalsInv, Moving
    <3>3. CycleInv'
      BY <1>3, <1>5, <3>1 DEF CycleInv, TxnInProgress
    <3>4. GotInv'
      BY <2>1, <2>4, <2>8, <3>1 DEF GotInv, Moving, Fetched, WordsDone
    <3> QED
      BY <2>6, <2>7, <3>2, <3>3, <3>4 DEF DataInv
  <2>9. CASE ~(vpu.cmd \in WideCmds /\ ~vpu.second)
    <3>1. vpu_pc' = "done" /\ vpu' = vpu
      BY <2>2, <2>9
    <3>2. Len(got') = Bus!Accesses(call)
      <4>1. vpu.second => vpu.cmd \in WideCmds
        BY <1>1 DEF DataInv, LocalsInv, Moving
      <4> QED
        BY <1>2, <2>4, <2>9, <4>1, CommandOfCall DEF WordsDone, Bus!Accesses
    <3>3. Answered'
      BY <1>1, <1>2, <2>1, <2>4, <3>2 DEF Answered
    <3>4. LocalsInv' /\ CycleInv' /\ GotInv'
      BY <1>3, <1>5, <3>1, <3>3 DEF LocalsInv, CycleInv, GotInv, Moving, Fetched, TxnInProgress
    <3> QED
      BY <2>6, <2>7, <3>4 DEF DataInv
  <2> QED
    BY <2>8, <2>9
<1> QED
  BY <1>4, <1>5

LEMMA VpuSampleData ==
  ASSUME MailboxInv, DataInv, VpuSample
  PROVE  DataInv'
<1> DEFINE v == IF vpu.cmd = cmd_r8 THEN Lane(vpu.addr, cycle.data) ELSE cycle.data
<1>1. /\ vpu_pc = "sample" /\ ~TxnInProgress /\ cycle' = NoCycle
      /\ mbox' = [mbox EXCEPT !.data = v]
      /\ UNCHANGED <<host_pc, call, result, mem, got>>
  BY DEF VpuSample, hostVars
<1>2. /\ host_pc = "wait" /\ call \in Bus!Calls /\ Busy(mbox.csr)
      /\ vpu.cmd = mbox.csr /\ vpu.cmd = Command(call)
  BY <1>1, WorkingMeansBusy
<1>3. Fetched
  BY <1>1 DEF DataInv, CycleInv, Fetched, TxnInProgress
<1>4. Len(got) = WordsDone + 1 /\ got[WordsDone + 1] = v
  BY <1>3 DEF DataInv, GotInv
<1>5. v \in Int
  BY LaneType DEF DataInv, Types
<1>6. vpu.cmd \in ReadCmds /\ vpu.cmd \notin WriteCmds
  <2>1. cycle.read /\ cycle.read = (vpu.cmd \in ReadCmds)
    BY <1>1 DEF DataInv, CycleInv
  <2>2. vpu.cmd \in ReadCmds
    BY <2>1
  <2> QED
    BY <2>2 DEF ReadCmds, WriteCmds, cmd_w8, cmd_r8, cmd_w16, cmd_r16, cmd_w32, cmd_r32,
                cmd_w64, cmd_r64
<1> HIDE DEF v
<1>7. /\ mbox' \in [addr : Int, data : Int, csr : 0 .. 31]
      /\ mbox'.data = v /\ mbox'.csr = mbox.csr
  BY <1>1, <1>5 DEF DataInv, Types
<1>8. IF vpu.cmd \in WideCmds
      THEN IF vpu.second
           THEN vpu_pc' = "merge" /\ UNCHANGED vpu
           ELSE vpu_pc' = "drive" /\ vpu' = [vpu EXCEPT !.second = TRUE, !.a = v]
      ELSE vpu_pc' = "done" /\ UNCHANGED vpu
  BY <1>7 DEF VpuSample
<1>9. Types'
  <2>1. /\ vpu_pc' \in {"drive", "merge", "done"}
        /\ vpu' \in [cmd : 0 .. 31, addr : Int, data : Int, second : BOOLEAN, a : Int]
    BY <1>5, <1>8 DEF DataInv, Types
  <2>2. cycle' \in [phase : {"none", "latching", "running", "fetched"},
                    read : BOOLEAN, byte : BOOLEAN, addr : Int, data : Int]
    BY <1>1 DEF NoCycle
  <2> QED
    BY <1>1, <1>7, <2>1, <2>2 DEF DataInv, Types
<1>10. HostInv'
  BY <1>1, <1>2, <1>7, <1>8 DEF DataInv, HostInv
<1>11. vpu.second => vpu.cmd \in WideCmds
  BY <1>1 DEF DataInv, LocalsInv, Moving
<1>12. CycleInv'
  BY <1>1, <1>8 DEF CycleInv, TxnInProgress, NoCycle
<1>13. CASE vpu.cmd \in WideCmds /\ vpu.second
  <2>1. vpu_pc' = "merge" /\ vpu' = vpu
    BY <1>8, <1>13
  <2>2. vpu.cmd = cmd_r32
    BY <1>2, <1>6, <1>13, CommandOfCall DEF Bus!Wide, Bus!Writing
  <2>3. LocalsInv'
    BY <2>1 DEF LocalsInv, Moving
  <2>4. GotInv'
    <3>1. Len(got) = 2 /\ got[2] = v
      BY <1>4, <1>13 DEF WordsDone
    <3>2. got[1] = vpu.a
      BY <1>1, <1>6, <1>13 DEF DataInv, GotInv, Moving
    <3> QED
      BY <1>1, <1>7, <2>1, <2>2, <3>1, <3>2 DEF GotInv, Moving, Fetched
  <2> QED
    BY <1>9, <1>10, <1>12, <2>3, <2>4 DEF DataInv
<1>14. CASE vpu.cmd \in WideCmds /\ ~vpu.second
  <2>1. /\ vpu_pc' = "drive" /\ vpu'.second = TRUE /\ vpu'.a = v
        /\ vpu'.cmd = vpu.cmd /\ vpu'.addr = vpu.addr /\ vpu'.data = vpu.data
    BY <1>8, <1>14 DEF DataInv, Types
  <2>2. LocalsInv'
    BY <1>1, <1>14, <2>1 DEF DataInv, LocalsInv, Moving
  <2>3. GotInv'
    BY <1>1, <1>4, <1>6, <1>14, <2>1 DEF GotInv, Moving, Fetched, WordsDone
  <2> QED
    BY <1>9, <1>10, <1>12, <2>2, <2>3 DEF DataInv
<1>15. CASE vpu.cmd \notin WideCmds
  <2>1. vpu_pc' = "done" /\ vpu' = vpu
    BY <1>8, <1>15
  <2>2. Len(got) = 1 /\ got[1] = v
    BY <1>4, <1>11, <1>15 DEF WordsDone
  <2>3. call.op \notin Bus!Wide /\ call.op # "ps_read_32"
    BY <1>2, <1>15, CommandOfCall DEF Bus!Wide
  <2>4. Answered'
    BY <1>1, <1>2, <1>6, <1>7, <2>2, <2>3 DEF Answered, Bus!Accesses
  <2>5. LocalsInv' /\ GotInv'
    BY <2>1, <2>4 DEF LocalsInv, GotInv, Moving, Fetched
  <2> QED
    BY <1>9, <1>10, <1>12, <2>5 DEF DataInv
<1> QED
  BY <1>13, <1>14, <1>15

LEMMA VpuMergeData ==
  ASSUME MailboxInv, DataInv, VpuMerge
  PROVE  DataInv'
<1> DEFINE v == vpu.a * Base * Base + mbox.data
<1>1. /\ vpu_pc = "merge" /\ vpu_pc' = "done" /\ mbox' = [mbox EXCEPT !.data = v]
      /\ UNCHANGED <<host_pc, call, result, vpu, cycle, mem, got>>
  BY DEF VpuMerge, hostVars
<1>2. /\ host_pc = "wait" /\ call \in Bus!Calls /\ Busy(mbox.csr)
      /\ vpu.cmd = mbox.csr /\ vpu.cmd = Command(call)
  BY <1>1, WorkingMeansBusy
<1>3. vpu.cmd = cmd_r32 /\ Len(got) = 2 /\ vpu.a = got[1] /\ mbox.data = got[2]
  BY <1>1 DEF DataInv, GotInv
<1>4. v \in Int /\ v = Base * Base * got[1] + got[2]
  <2>1. vpu.a \in Int /\ mbox.data \in Int /\ Base \in Int
    BY BaseAssumption DEF DataInv, Types
  <2> QED
    BY <1>3, <2>1
<1> HIDE DEF v
<1>5. /\ mbox' \in [addr : Int, data : Int, csr : 0 .. 31]
      /\ mbox'.data = v /\ mbox'.csr = mbox.csr
  BY <1>1, <1>4 DEF DataInv, Types
<1>6. call.op = "ps_read_32" /\ Command(call) \notin WriteCmds /\ Bus!Accesses(call) = 2
  BY <1>2, <1>3, CommandOfCall DEF Bus!Accesses, Bus!Wide, Bus!Writing
<1>7. Answered'
  BY <1>1, <1>3, <1>4, <1>5, <1>6 DEF Answered
<1>8. Types'
  BY <1>1, <1>5 DEF DataInv, Types
<1>9. HostInv'
  BY <1>1, <1>2, <1>5 DEF DataInv, HostInv
<1>10. LocalsInv' /\ CycleInv' /\ GotInv'
  BY <1>1, <1>7 DEF DataInv, LocalsInv, CycleInv, GotInv, Moving, Fetched, TxnInProgress
<1> QED
  BY <1>8, <1>9, <1>10 DEF DataInv

LEMMA VpuDoneData ==
  ASSUME MailboxInv, DataInv, VpuDone
  PROVE  DataInv'
<1>1. /\ vpu_pc = "done" /\ vpu_pc' = "poll" /\ vpu' = NoLocals
      /\ mbox' = [mbox EXCEPT !.csr = vpu.cmd - 1]
      /\ UNCHANGED <<host_pc, call, result, cycle, mem, got>>
  BY DEF VpuDone, hostVars
<1>2. /\ host_pc = "wait" /\ call \in Bus!Calls /\ Busy(mbox.csr) /\ vpu.cmd = mbox.csr
  BY <1>1, WorkingMeansBusy
<1>3. vpu.cmd - 1 \in 0 .. 31 /\ ~Busy(vpu.cmd - 1)
  <2>1. vpu.cmd \in 0 .. 31 /\ vpu.cmd % 2 = 1
    BY <1>2 DEF Busy, DataInv, Types
  <2> QED
    BY <2>1 DEF Busy
<1>4. /\ mbox' \in [addr : Int, data : Int, csr : 0 .. 31]
      /\ mbox'.data = mbox.data /\ mbox'.csr = vpu.cmd - 1
  BY <1>1, <1>3 DEF DataInv, Types
<1>5. Types'
  BY <1>1, <1>4 DEF DataInv, Types, NoLocals
<1>6. Answered'
  BY <1>1, <1>4 DEF DataInv, GotInv, Answered
<1>7. HostInv'
  BY <1>1, <1>2, <1>3, <1>4, <1>6 DEF HostInv
<1>8. LocalsInv' /\ CycleInv' /\ GotInv'
  BY <1>1 DEF DataInv, LocalsInv, CycleInv, GotInv, Moving, Fetched, TxnInProgress, NoLocals
<1> QED
  BY <1>5, <1>7, <1>8 DEF DataInv

-----------------------------------------------------------------------------
(* The invariant is inductive: the bus adapter and the Amiga.              *)

LEMMA BusWriteEndsData ==
  ASSUME MailboxInv, DataInv, BusWriteEnds
  PROVE  DataInv'
<1>1. /\ TxnInProgress /\ ~cycle.read /\ mem' = AfterCycle /\ cycle' = NoCycle
      /\ UNCHANGED <<mbox, host_pc, call, result, vpu_pc, vpu, got>>
  BY DEF BusWriteEnds, hostVars, vpuVars
<1>2. vpu_pc \notin {"start", "sample"}
  BY <1>1 DEF MailboxInv, BusHeld, DataInv, CycleInv, TxnInProgress
<1>3. AfterCycle \in [Bus!Address -> Int]
  <2>1. cycle.data \in Int /\ cycle.data \div Base \in Int /\ cycle.data % Base \in Int
    BY BaseAssumption DEF DataInv, Types
  <2>2. Lane(cycle.addr, cycle.data) \in Int
    BY LaneType DEF DataInv, Types
  <2> QED
    BY <2>1, <2>2 DEF AfterCycle, DataInv, Types
<1>4. Types'
  BY <1>1, <1>3 DEF DataInv, Types, NoCycle
<1>5. HostInv'
  BY <1>1 DEF DataInv, HostInv, Asked, Answered
<1>6. LocalsInv' /\ CycleInv' /\ GotInv'
  BY <1>1, <1>2 DEF DataInv, LocalsInv, CycleInv, GotInv, Moving, Fetched, TxnInProgress,
                    NoCycle, WordsDone, Answered
<1> QED
  BY <1>4, <1>5, <1>6 DEF DataInv

\* The word on the pins, and the value of the access it makes.
LEMMA WhatIsFetched ==
  ASSUME MailboxInv, DataInv, BusReadEnds
  PROVE  \E word \in Int, v \in Int :
           /\ v = IF cycle.byte THEN mem[cycle.addr]
                                ELSE Base * mem[cycle.addr] + mem[cycle.addr + 1]
           /\ v = IF cycle.byte THEN Lane(cycle.addr, word) ELSE word
           /\ got' = Append(got, v)
           /\ cycle' = [cycle EXCEPT !.phase = "fetched", !.data = word]
<1>1. PICK word \in Bus!Word :
        /\ IF cycle.byte
           THEN /\ Lane(cycle.addr, word) = mem[cycle.addr]
                /\ got' = Append(got, mem[cycle.addr])
           ELSE /\ word = Base * mem[cycle.addr] + mem[cycle.addr + 1]
                /\ got' = Append(got, word)
        /\ cycle' = [cycle EXCEPT !.phase = "fetched", !.data = word]
  BY DEF BusReadEnds
<1>2. word \in Int
  BY BaseAssumption DEF Bus!Word
<1>3. Lane(cycle.addr, word) \in Int
  BY <1>2, LaneType DEF DataInv, Types
<1>4. CASE cycle.byte
  BY <1>1, <1>2, <1>3, <1>4
<1>5. CASE ~cycle.byte
  BY <1>1, <1>2, <1>5
<1> QED
  BY <1>4, <1>5

LEMMA BusReadEndsData ==
  ASSUME MailboxInv, DataInv, BusReadEnds
  PROVE  DataInv'
<1>1. /\ cycle.phase = "running" /\ cycle.read
      /\ UNCHANGED <<mbox, host_pc, call, result, vpu_pc, vpu, mem>>
  BY DEF BusReadEnds, TxnInProgress, hostVars, vpuVars
<1>2. vpu_pc = "sample"
  BY <1>1 DEF DataInv, CycleInv, TxnInProgress
<1>3. /\ host_pc = "wait" /\ call \in Bus!Calls /\ Busy(mbox.csr)
      /\ vpu.cmd = mbox.csr /\ vpu.cmd = Command(call)
  BY <1>2, WorkingMeansBusy
<1>4. PICK word \in Int, v \in Int :
        /\ v = IF cycle.byte THEN Lane(cycle.addr, word) ELSE word
        /\ got' = Append(got, v)
        /\ cycle' = [cycle EXCEPT !.phase = "fetched", !.data = word]
  BY WhatIsFetched
<1>5. /\ cycle' \in [phase : {"none", "latching", "running", "fetched"},
                     read : BOOLEAN, byte : BOOLEAN, addr : Int, data : Int]
      /\ cycle'.phase = "fetched" /\ cycle'.data = word
      /\ cycle'.read = cycle.read /\ cycle'.byte = cycle.byte /\ cycle'.addr = cycle.addr
  BY <1>4 DEF DataInv, Types
<1>6. Len(got) = WordsDone
  BY <1>1, <1>2 DEF DataInv, GotInv, Moving, Fetched
<1>7. /\ got' \in Seq(Int) /\ Len(got') = WordsDone + 1 /\ got'[WordsDone + 1] = v
      /\ vpu.second => got'[1] = got[1]
  BY <1>4, <1>6, GotAppend DEF DataInv, Types, WordsDone
<1>8. v = IF vpu.cmd = cmd_r8 THEN Lane(vpu.addr, word) ELSE word
  <2>1. /\ cycle.byte = (vpu.cmd \in ByteCmds) /\ cycle.read = (vpu.cmd \in ReadCmds)
        /\ cycle.addr = vpu.addr + 2 * WordsDone
        /\ vpu.second => vpu.cmd \in WideCmds
        /\ vpu.addr \in Int
    BY <1>2 DEF DataInv, CycleInv, LocalsInv, Moving, Types
  <2>2. vpu.cmd \in ReadCmds
    BY <1>1, <2>1
  <2>3. CASE vpu.cmd = cmd_r8
    <3>1. vpu.cmd \in ByteCmds /\ ~vpu.second
      BY <2>1, <2>3 DEF ByteCmds, WideCmds, cmd_r8, cmd_r32, cmd_r64, cmd_w32, cmd_w64
    <3>2. cycle.byte
      BY <2>1, <3>1
    <3>3. WordsDone = 0 /\ cycle.addr = vpu.addr
      BY <2>1, <3>1 DEF WordsDone
    <3> QED
      BY <1>4, <2>3, <3>2, <3>3
  <2>4. CASE vpu.cmd # cmd_r8
    <3>1. vpu.cmd \notin ByteCmds
      BY <2>2, <2>4 DEF ByteCmds, ReadCmds, cmd_r8, cmd_w8, cmd_r16, cmd_r32, cmd_r64
    <3>2. ~cycle.byte
      BY <2>1, <3>1
    <3> QED
      BY <1>4, <2>4, <3>2
  <2> QED
    BY <2>3, <2>4
<1>9. Types'
  BY <1>1, <1>5, <1>7 DEF DataInv, Types
<1>10. HostInv'
  BY <1>1, <1>2, <1>3 DEF DataInv, HostInv
<1>11. LocalsInv'
  BY <1>1, <1>2 DEF DataInv, LocalsInv, Moving
<1>12. CycleInv'
  <2>1. vpu.cmd \notin WriteCmds
    <3>1. cycle.read = (vpu.cmd \in ReadCmds)
      BY <1>2 DEF DataInv, CycleInv
    <3>2. vpu.cmd \in ReadCmds
      BY <1>1, <3>1
    <3> QED
      BY <3>2 DEF ReadCmds, WriteCmds, cmd_w8, cmd_r8, cmd_w16, cmd_r16, cmd_w32, cmd_r32,
                  cmd_w64, cmd_r64
  <2> QED
    BY <1>1, <1>2, <1>5, <2>1 DEF DataInv, CycleInv, TxnInProgress, WordsDone
<1>13. GotInv'
  BY <1>1, <1>2, <1>5, <1>7, <1>8 DEF DataInv, GotInv, Moving, Fetched, WordsDone
<1> QED
  BY <1>9, <1>10, <1>11, <1>12, <1>13 DEF DataInv

LEMMA AmigaChangesData ==
  ASSUME MailboxInv, DataInv, AmigaChanges
  PROVE  DataInv'
<1>1. UNCHANGED <<mbox, host_pc, call, result, vpu_pc, vpu, cycle, got>>
  BY DEF AmigaChanges, hostVars, vpuVars
<1>2. mem' \in [Bus!Address -> Int]
  BY BaseAssumption DEF AmigaChanges, DataInv, Types, Bus!Byte
<1> QED
  BY <1>1, <1>2 DEF DataInv, Types, HostInv, Asked, Answered, LocalsInv, CycleInv, GotInv,
                    Moving, Fetched, TxnInProgress, WordsDone, Driven

LEMMA DataStep == MailboxInv /\ DataInv /\ [Next]_vars => DataInv'
<1> SUFFICES ASSUME MailboxInv, DataInv, [Next]_vars PROVE DataInv'
  OBVIOUS
<1>1. CASE Host
  BY <1>1, HostArgumentsData, HostStartData, HostReturnData, HostStatusData DEF Host
<1>2. CASE Vpu
  BY <1>2, VpuPollData, VpuDispatchData, VpuPinsData, VpuDriveData, VpuStartData,
     VpuSampleData, VpuMergeData, VpuDoneData DEF Vpu
<1>3. CASE Adapter \/ AmigaChanges
  BY <1>3, BusWriteEndsData, BusReadEndsData, AmigaChangesData DEF Adapter
<1>4. CASE UNCHANGED vars
  BY <1>4 DEF vars, hostVars, vpuVars, DataInv, Types, HostInv, Asked, Answered, LocalsInv,
              CycleInv, GotInv, Moving, Fetched, TxnInProgress, WordsDone, Driven
<1> QED
  BY <1>1, <1>2, <1>3, <1>4 DEF Next

-----------------------------------------------------------------------------
(* Every step of the mailbox is a step of the atomic bus, or a stutter.    *)

LEMMA AtomicInit == Init => Bus!Init
BY DEF Init, Bus!Init, AfterCycle, NoCycle, TxnInProgress

\* Memory as the bus shows it changes only where the cycle or memory does.
LEMMA SameMemory ==
  ASSUME UNCHANGED <<mem, cycle>>
  PROVE  UNCHANGED AfterCycle
BY DEF AfterCycle, TxnInProgress, Lane

LEMMA HostIsAtomic ==
  ASSUME MailboxInv, DataInv, Host
  PROVE  [Bus!Next]_(Bus!vars)
<1>1. CASE HostArguments
  <2>1. Bus!Call
    BY <1>1, SameMemory DEF HostArguments, DataInv, HostInv, Bus!Call
  <2> QED
    BY <2>1 DEF Bus!Next
<1>2. CASE HostStart \/ HostStatusBegin \/ HostStatusEnd
  BY <1>2, SameMemory DEF HostStart, HostStatusBegin, HostStatusEnd, Bus!vars
<1>3. CASE HostReturn
  <2>1. call \in Bus!Calls /\ Answered
    BY <1>3 DEF HostReturn, MailboxInv, Handshake, DataInv, HostInv, Busy
  <2>2. result' = IF call.op = "ps_read_32" THEN Base * Base * got[1] + got[2]
                                            ELSE got[1]
    <3>1. CASE Command(call) \in WriteCmds
      BY <1>3, <2>1, <3>1, CommandOfCall DEF HostReturn, Answered, Bus!Writing
    <3>2. CASE Command(call) \notin WriteCmds
      BY <1>3, <2>1, <3>2 DEF HostReturn, Answered
    <3> QED
      BY <3>1, <3>2
  <2>3. Bus!Return
    BY <1>3, <2>1, <2>2, CallTypes, SameMemory DEF HostReturn, Answered, Bus!Return
  <2> QED
    BY <2>3 DEF Bus!Next
<1> QED
  BY <1>1, <1>2, <1>3 DEF Host

\* The pins that are read directly, at a time when no cycle runs.
LEMMA PinsAreAtomic ==
  ASSUME MailboxInv, DataInv, VpuStatus \/ VpuIpl
  PROVE  Bus!Access
<1>1. /\ vpu_pc \in {"status", "ipl"} /\ got' = Append(got, mbox'.data)
      /\ UNCHANGED <<call, result, cycle, mem>>
  BY DEF VpuStatus, VpuIpl, hostVars
<1>2. /\ call \in Bus!Calls /\ vpu.cmd = Command(call)
  BY <1>1, WorkingMeansBusy
<1>3. got = <<>> /\ Len(got) = 0 /\ ~TxnInProgress
  BY <1>1, EmptySeq DEF DataInv, LocalsInv
<1>4. AfterCycle = mem
  BY <1>3 DEF AfterCycle
<1>5. AfterCycle' = mem
  BY <1>1, <1>4, SameMemory
<1>6. Bus!Fetched(mem, call, 1) = mbox'.data /\ Bus!Stored(mem, call, 1) = mem
  <2>1. CASE VpuStatus
    <3>1. call.op = "ps_read_status_reg"
      BY <1>2, <2>1, CommandOfCall DEF VpuStatus, DataInv, LocalsInv
    <3>2. mbox'.data = mem[IplAddr]
      BY <2>1 DEF VpuStatus, DataInv, Types
    <3>3. Bus!Fetched(mem, call, 1) = mem[IplAddr]
      BY <3>1 DEF Bus!Fetched, Bus!Writing
    <3> QED
      BY <3>1, <3>2, <3>3 DEF Bus!Stored
  <2>2. CASE VpuIpl
    <3>1. call.op = "ps_get_ipl_zero"
      BY <1>2, <2>2, CommandOfCall DEF VpuIpl, DataInv, LocalsInv
    <3>2. mbox'.data = IF mem[IplAddr] = 0 THEN 1 ELSE 0
      BY <2>2 DEF VpuIpl, DataInv, Types
    <3>3. Bus!Fetched(mem, call, 1) = IF mem[IplAddr] = 0 THEN 1 ELSE 0
      BY <3>1 DEF Bus!Fetched, Bus!Writing
    <3> QED
      BY <3>1, <3>2, <3>3 DEF Bus!Stored
  <2> QED
    BY <2>1, <2>2
<1> QED
  BY <1>1, <1>2, <1>3, <1>4, <1>5, <1>6, CallTypes DEF Bus!Access, Bus!Accesses

\* A byte goes out on both lanes, or on the odd one: the lane of its address
\* carries it.
LEMMA ByteOnItsLane ==
  ASSUME NEW a \in Int, NEW d \in 0 .. Base - 1
  PROVE  Lane(a, IF a % 2 = 0 THEN d + d * Base ELSE d % Base) = d
<1>1. Base \in Nat /\ Base > 1
  BY BaseAssumption
<1>2. d % Base = d
  BY <1>1
<1>3. (d + d * Base) \div Base = d
  BY <1>1
<1> QED
  BY <1>1, <1>2, <1>3 DEF Lane

\* A step that leaves the call, its values and memory as it is, is a stutter.
LEMMA Stutters ==
  ASSUME UNCHANGED <<AfterCycle, call, got, result>>
  PROVE  [Bus!Next]_(Bus!vars)
BY DEF Bus!vars

\* The word that goes on the pins is the one the access stores.
LEMMA WhatIsDriven ==
  ASSUME call \in Bus!Calls, vpu.cmd = Command(call), vpu.cmd \in WriteCmds,
         vpu.addr = call.addr, vpu.data = call.data
  PROVE  /\ call.op = "ps_write_8" => Lane(call.addr, Driven) = call.data
         /\ call.op = "ps_write_16" => Driven = call.data
         /\ call.op = "ps_write_32" =>
              Driven = IF vpu.second THEN call.data % (Base * Base)
                                     ELSE call.data \div (Base * Base)
<1>1. /\ vpu.cmd = cmd_w8 <=> call.op = "ps_write_8"
      /\ vpu.cmd \in WideCmds <=> call.op \in Bus!Wide
  BY CommandOfCall
<1>2. CASE call.op = "ps_write_8"
  <2>1. call.data \in 0 .. Base - 1 /\ call.addr \in Int
    BY <1>2, CallTypes DEF Bus!Byte
  <2>2. Driven = IF call.addr % 2 = 0 THEN call.data + call.data * Base
                                      ELSE call.data % Base
    BY <1>1, <1>2 DEF Driven, WideCmds, cmd_w8, cmd_w32, cmd_r32, cmd_w64, cmd_r64
  <2> QED
    BY <1>2, <2>1, <2>2, ByteOnItsLane
<1>3. CASE call.op = "ps_write_16"
  <2> DEFINE m == Base * Base
  <2>1. m \in Nat \ {0}
    BY SquareOfBase
  <2>2. call.data \in 0 .. m - 1
    BY <1>3, CallTypes DEF Bus!Word
  <2>3. Driven = call.data % m
    BY <1>1, <1>3 DEF Driven, Bus!Wide
  <2> HIDE DEF m
  <2>4. call.data % m = call.data
    BY <2>1, <2>2
  <2> QED
    BY <1>3, <2>3, <2>4
<1>4. CASE call.op = "ps_write_32"
  BY <1>1, <1>4 DEF Driven, Bus!Wide
<1> QED
  BY <1>2, <1>3, <1>4

\* A write takes effect when its cycle starts; a read only starts there.
LEMMA VpuStartIsAtomic ==
  ASSUME MailboxInv, DataInv, VpuStart
  PROVE  [Bus!Next]_(Bus!vars)
<1>1. /\ vpu_pc = "start" /\ cycle' = [cycle EXCEPT !.phase = "running"]
      /\ UNCHANGED <<call, result, mem>>
  BY DEF VpuStart, hostVars
<1>2. call \in Bus!Calls /\ vpu.cmd = Command(call)
  BY <1>1, WorkingMeansBusy
<1>3. /\ cycle'.phase = "running" /\ cycle'.read = cycle.read /\ cycle'.byte = cycle.byte
      /\ cycle'.addr = cycle.addr /\ cycle'.data = cycle.data
      /\ cycle.read \in BOOLEAN /\ cycle.byte \in BOOLEAN
  BY <1>1 DEF DataInv, Types
<1>4. /\ cycle.read = (vpu.cmd \in ReadCmds)
      /\ cycle.byte = (vpu.cmd \in ByteCmds)
      /\ cycle.addr = vpu.addr + 2 * WordsDone
      /\ vpu.cmd \in WriteCmds => cycle.data = Driven
  BY <1>1 DEF DataInv, CycleInv
<1>5. cycle.read <=> vpu.cmd \in ReadCmds
  BY <1>3, <1>4
<1>6. cycle.byte <=> vpu.cmd \in ByteCmds
  BY <1>3, <1>4
<1>7. AfterCycle = mem
  BY <1>1 DEF MailboxInv, BusHeld, AfterCycle, TxnInProgress
<1>8. CASE vpu.cmd \in ReadCmds
  <2>1. AfterCycle' = mem
    BY <1>1, <1>3, <1>5, <1>8 DEF AfterCycle
  <2>2. UNCHANGED got
    BY <1>8 DEF VpuStart
  <2> QED
    BY <1>1, <1>7, <2>1, <2>2, Stutters
<1>9. CASE vpu.cmd \notin ReadCmds
  <2>1. /\ vpu.cmd \in WriteCmds /\ vpu.addr = call.addr /\ vpu.data = call.data
        /\ vpu.second => vpu.cmd \in WideCmds
        /\ Len(got) = WordsDone
    BY <1>1, <1>9 DEF DataInv, LocalsInv, GotInv, Moving, Fetched
  <2>2. got' = Append(got, 0)
    BY <1>9 DEF VpuStart
  <2>3. call.op \in Bus!Writing /\ (vpu.second => call.op = "ps_write_32")
    BY <1>2, <2>1, CommandOfCall DEF Bus!Writing, Bus!Wide
  <2>4. call # Bus!NoCall /\ WordsDone + 1 <= Bus!Accesses(call)
    BY <1>2, <2>3, CallTypes DEF WordsDone, Bus!Accesses, Bus!Wide
  <2>5. Bus!Fetched(mem, call, WordsDone + 1) = 0
    <3>1. call.op \notin {"ps_read_8", "ps_read_status_reg", "ps_get_ipl_zero"}
      BY <2>3 DEF Bus!Writing
    <3> QED
      BY <2>3, <3>1 DEF Bus!Fetched
  <2>6. AfterCycle' =
          IF cycle.byte THEN [mem EXCEPT ![cycle.addr] = Lane(cycle.addr, cycle.data)]
                        ELSE Bus!StoreWord(mem, cycle.addr, cycle.data)
    BY <1>1, <1>3, <1>5, <1>9 DEF AfterCycle, TxnInProgress, Bus!StoreWord, Lane
  <2>7. cycle.data = Driven /\ cycle.addr = call.addr + 2 * WordsDone
        /\ call.addr \in Int
    BY <1>2, <1>4, <2>1, CallTypes
  <2>8. AfterCycle' = Bus!Stored(mem, call, WordsDone + 1)
    <3>1. CASE call.op = "ps_write_8"
      <4>1. cycle.byte /\ WordsDone = 0 /\ cycle.addr = call.addr
        BY <1>2, <1>6, <2>3, <2>7, <3>1, CommandOfCall DEF WordsDone
      <4>2. Lane(cycle.addr, cycle.data) = call.data
        BY <1>2, <2>1, <2>7, <3>1, <4>1, WhatIsDriven
      <4> QED
        BY <2>6, <3>1, <4>1, <4>2 DEF Bus!Stored
    <3>2. CASE call.op = "ps_write_16"
      <4>1. ~cycle.byte /\ WordsDone = 0 /\ cycle.addr = call.addr
        BY <1>2, <1>6, <2>3, <2>7, <3>2, CommandOfCall DEF WordsDone
      <4>2. cycle.data = call.data
        BY <1>2, <2>1, <2>7, <3>2, WhatIsDriven
      <4> QED
        BY <2>6, <3>2, <4>1, <4>2 DEF Bus!Stored
    <3>3. CASE call.op = "ps_write_32"
      <4>1. ~cycle.byte
        BY <1>2, <1>6, <3>3, CommandOfCall
      <4>2. cycle.data = IF vpu.second THEN call.data % (Base * Base)
                                       ELSE call.data \div (Base * Base)
        BY <1>2, <2>1, <2>7, <3>3, WhatIsDriven
      <4>3. AfterCycle' = Bus!StoreWord(mem, cycle.addr, cycle.data)
        BY <2>6, <4>1
      <4>4. CASE vpu.second
        <5>1. /\ WordsDone + 1 # 1 /\ cycle.addr = call.addr + 2
              /\ cycle.data = call.data % (Base * Base)
          BY <2>7, <4>2, <4>4 DEF WordsDone
        <5> QED
          BY <3>3, <4>3, <5>1 DEF Bus!Stored
      <4>5. CASE ~vpu.second
        <5>1. /\ WordsDone + 1 = 1 /\ cycle.addr = call.addr
              /\ cycle.data = call.data \div (Base * Base)
          BY <2>7, <4>2, <4>5 DEF WordsDone
        <5> QED
          BY <3>3, <4>3, <5>1 DEF Bus!Stored
      <4> QED
        BY <4>4, <4>5
    <3> QED
      BY <2>3, <3>1, <3>2, <3>3 DEF Bus!Writing
  <2>9. Bus!Access
    BY <1>1, <1>7, <2>1, <2>2, <2>4, <2>5, <2>8 DEF Bus!Access
  <2> QED
    BY <2>9 DEF Bus!Next
<1> QED
  BY <1>8, <1>9

LEMMA VpuIsAtomic ==
  ASSUME MailboxInv, DataInv, Vpu
  PROVE  [Bus!Next]_(Bus!vars)
<1>1. CASE VpuPoll \/ VpuDispatch \/ VpuMerge \/ VpuDone
  <2>1. UNCHANGED <<call, result, cycle, mem, got>>
    BY <1>1 DEF VpuPoll, VpuDispatch, VpuMerge, VpuDone, hostVars
  <2> QED
    BY <2>1, SameMemory, Stutters
<1>2. CASE VpuStatus \/ VpuIpl
  BY <1>2, PinsAreAtomic DEF Bus!Next
<1>3. CASE VpuDrive
  <2>1. UNCHANGED <<call, result, mem, got>> /\ cycle'.phase = "latching"
    BY <1>3 DEF VpuDrive, hostVars
  <2>2. ~TxnInProgress
    BY <1>3 DEF VpuDrive, MailboxInv, BusHeld
  <2>3. AfterCycle = mem
    BY <2>2 DEF AfterCycle
  <2>4. AfterCycle' = mem
    BY <2>1 DEF AfterCycle, TxnInProgress
  <2> QED
    BY <2>1, <2>3, <2>4, Stutters
<1>4. CASE VpuStart
  BY <1>4, VpuStartIsAtomic
<1>5. CASE VpuSample
  <2>1. UNCHANGED <<call, result, mem, got>> /\ cycle' = NoCycle /\ ~TxnInProgress
    BY <1>5 DEF VpuSample, hostVars
  <2>2. AfterCycle = mem
    BY <2>1 DEF AfterCycle
  <2>3. AfterCycle' = mem
    BY <2>1 DEF AfterCycle, TxnInProgress, NoCycle
  <2> QED
    BY <2>1, <2>2, <2>3, Stutters
<1> QED
  BY <1>1, <1>2, <1>3, <1>4, <1>5 DEF Vpu

\* A write has already taken effect when its cycle ends; a read takes effect
\* when the cycle has fetched its word.
LEMMA AdapterIsAtomic ==
  ASSUME MailboxInv, DataInv, Adapter
  PROVE  [Bus!Next]_(Bus!vars)
<1>1. CASE BusWriteEnds
  <2>1. mem' = AfterCycle /\ cycle' = NoCycle /\ UNCHANGED <<call, result, got>>
    BY <1>1 DEF BusWriteEnds, hostVars
  <2>2. AfterCycle' = mem'
    BY <2>1 DEF AfterCycle, TxnInProgress, NoCycle
  <2> QED
    BY <2>1, <2>2, Stutters
<1>2. CASE BusReadEnds
  <2>1. /\ cycle.phase = "running" /\ cycle.read /\ UNCHANGED <<call, result, mem>>
    BY <1>2 DEF BusReadEnds, TxnInProgress, hostVars
  <2>2. vpu_pc = "sample"
    BY <2>1 DEF DataInv, CycleInv, TxnInProgress
  <2>3. call \in Bus!Calls /\ vpu.cmd = Command(call)
    BY <2>2, WorkingMeansBusy
  <2>4. PICK word \in Int, v \in Int :
          /\ v = IF cycle.byte THEN mem[cycle.addr]
                               ELSE Base * mem[cycle.addr] + mem[cycle.addr + 1]
          /\ got' = Append(got, v)
          /\ cycle' = [cycle EXCEPT !.phase = "fetched", !.data = word]
    BY <1>2, WhatIsFetched
  <2>5. cycle'.phase = "fetched" /\ cycle.read \in BOOLEAN /\ cycle.byte \in BOOLEAN
    BY <2>4 DEF DataInv, Types
  <2>6. AfterCycle = mem
    BY <2>1 DEF AfterCycle
  <2>7. AfterCycle' = mem
    BY <2>1, <2>5 DEF AfterCycle, TxnInProgress
  <2>8. /\ cycle.read = (vpu.cmd \in ReadCmds) /\ cycle.byte = (vpu.cmd \in ByteCmds)
        /\ cycle.addr = vpu.addr + 2 * WordsDone /\ vpu.addr = call.addr
        /\ vpu.second => vpu.cmd \in WideCmds
        /\ Len(got) = WordsDone
    BY <2>1, <2>2 DEF DataInv, CycleInv, LocalsInv, GotInv, Moving, Fetched
  <2>9. vpu.cmd \in ReadCmds /\ (cycle.byte <=> vpu.cmd \in ByteCmds)
    BY <2>1, <2>5, <2>8
  <2>10. /\ call.op \in {"ps_read_8", "ps_read_16", "ps_read_32"}
         /\ cycle.byte <=> call.op = "ps_read_8"
         /\ vpu.second => call.op = "ps_read_32"
    BY <2>3, <2>8, <2>9, CommandOfCall DEF Bus!Wide
  <2>11. call # Bus!NoCall /\ call.addr \in Int /\ WordsDone + 1 <= Bus!Accesses(call)
    BY <2>3, <2>10, CallTypes DEF WordsDone, Bus!Accesses, Bus!Wide
  <2>12. v = Bus!Fetched(mem, call, WordsDone + 1)
    <3> DEFINE a == call.addr + 2 * (WordsDone + 1 - 1)
    <3>1. cycle.addr = a /\ (call.op = "ps_read_8" => a = call.addr)
      BY <2>8, <2>10, <2>11 DEF WordsDone
    <3>2. Bus!Fetched(mem, call, WordsDone + 1) =
            IF call.op = "ps_read_8" THEN mem[a] ELSE Base * mem[a] + mem[a + 1]
      <4>0. WordsDone \in {0, 1}
        BY DEF WordsDone
      <4>1. CASE call.op = "ps_read_8"
        BY <2>11, <4>0, <4>1 DEF Bus!Fetched, Bus!Writing
      <4>2. CASE call.op \in {"ps_read_16", "ps_read_32"}
        BY <2>11, <4>0, <4>2 DEF Bus!Fetched, Bus!Writing
      <4> QED
        BY <2>10, <4>1, <4>2
    <3> HIDE DEF a
    <3> QED
      BY <2>4, <2>10, <3>1, <3>2
  <2>13. Bus!Stored(mem, call, WordsDone + 1) = mem
    BY <2>10 DEF Bus!Stored
  <2>14. Bus!Access
    BY <2>1, <2>4, <2>6, <2>7, <2>8, <2>11, <2>12, <2>13 DEF Bus!Access
  <2> QED
    BY <2>14 DEF Bus!Next
<1> QED
  BY <1>1, <1>2 DEF Adapter

\* A change by the Amiga under a posted write to the same place is lost with
\* it; any other change is a change of the memory the CPU will see.
LEMMA AmigaIsAtomic ==
  ASSUME MailboxInv, DataInv, AmigaChanges
  PROVE  [Bus!Next]_(Bus!vars)
<1>1. PICK a \in Bus!Address, b \in Bus!Byte : mem' = [mem EXCEPT ![a] = b]
  BY DEF AmigaChanges
<1>2. UNCHANGED <<call, result, cycle, got>>
  BY DEF AmigaChanges, hostVars
<1>3. mem \in [Bus!Address -> Int]
  BY DEF DataInv, Types
<1>4. CASE ~TxnInProgress \/ cycle.read
  <2>1. AfterCycle = mem
    BY <1>4 DEF AfterCycle
  <2>2. AfterCycle' = mem'
    BY <1>2, <1>4 DEF AfterCycle, TxnInProgress
  <2>3. Bus!AmigaChanges
    BY <1>1, <1>2, <2>1, <2>2 DEF Bus!AmigaChanges
  <2> QED
    BY <2>3 DEF Bus!Next
<1>5. CASE TxnInProgress /\ ~cycle.read /\ cycle.byte
  <2> DEFINE c == cycle.addr
             x == Lane(cycle.addr, cycle.data)
  <2>1. AfterCycle = [mem EXCEPT ![c] = x] /\ AfterCycle' = [mem' EXCEPT ![c] = x]
    BY <1>2, <1>5 DEF AfterCycle, TxnInProgress, Lane
  <2> HIDE DEF c, x
  <2>2. CASE a = c
    <3>1. AfterCycle' = AfterCycle
      BY <1>1, <1>3, <2>1, <2>2
    <3> QED
      BY <1>2, <3>1, Stutters
  <2>3. CASE a # c
    <3>1. AfterCycle' = [AfterCycle EXCEPT ![a] = b]
      BY <1>1, <1>3, <2>1, <2>3
    <3>2. Bus!AmigaChanges
      BY <1>2, <3>1 DEF Bus!AmigaChanges
    <3> QED
      BY <3>2 DEF Bus!Next
  <2> QED
    BY <2>2, <2>3
<1>6. CASE TxnInProgress /\ ~cycle.read /\ ~cycle.byte
  <2> DEFINE c == cycle.addr
             d == cycle.addr + 1
             x == cycle.data \div Base
             y == cycle.data % Base
  <2>1. /\ AfterCycle = [mem EXCEPT ![c] = x, ![d] = y]
        /\ AfterCycle' = [mem' EXCEPT ![c] = x, ![d] = y]
    BY <1>2, <1>6 DEF AfterCycle, TxnInProgress
  <2> HIDE DEF c, d, x, y
  <2>2. CASE a \in {c, d}
    <3>1. AfterCycle' = AfterCycle
      BY <1>1, <1>3, <2>1, <2>2
    <3> QED
      BY <1>2, <3>1, Stutters
  <2>3. CASE a \notin {c, d}
    <3>1. AfterCycle' = [AfterCycle EXCEPT ![a] = b]
      BY <1>1, <1>3, <2>1, <2>3
    <3>2. Bus!AmigaChanges
      BY <1>2, <3>1 DEF Bus!AmigaChanges
    <3> QED
      BY <3>2 DEF Bus!Next
  <2> QED
    BY <2>2, <2>3
<1> QED
  BY <1>4, <1>5, <1>6

LEMMA StepIsAtomic == MailboxInv /\ DataInv /\ [Next]_vars => [Bus!Next]_(Bus!vars)
<1> SUFFICES ASSUME MailboxInv, DataInv, [Next]_vars PROVE [Bus!Next]_(Bus!vars)
  OBVIOUS
<1>1. CASE UNCHANGED vars
  BY <1>1, SameMemory, Stutters DEF vars, hostVars
<1> QED
  BY <1>1, HostIsAtomic, VpuIsAtomic, AdapterIsAtomic, AmigaIsAtomic DEF Next

-----------------------------------------------------------------------------
\* For the emulated CPU every access takes effect at once and in its order: a
\* ps_ function returns what memory or the interrupt pins held during the call,
\* after every write made before it, although a write returns while its cycle
\* still runs on the bus.
THEOREM EveryAccessIsAtomic == Spec => AtomicAccess
<1>1. DataInv /\ MailboxInv /\ [Next]_vars => DataInv'
  BY DataStep
<1>2. Spec => []DataInv
  BY <1>1, DataInit, MailboxInvariant, PTL DEF Spec
<1>3. Spec => Bus!Init /\ [][Bus!Next]_(Bus!vars)
  BY <1>2, AtomicInit, StepIsAtomic, MailboxInvariant, PTL DEF Spec
<1> QED
  BY <1>3 DEF AtomicAccess, Bus!Spec
=============================================================================
