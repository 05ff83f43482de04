# A TLA+ model of the PiStorm/a314 emulator

The repository is a 68000 accelerator for the Amiga: a Raspberry Pi in the CPU
socket runs Musashi (a 68000 interpreter) on its ARM, drives the Amiga's bus
through a small program on the VideoCore (VPU), and emulates some hardware of
its own: fast memory, a Gayle IDE interface with a disk image, and *a314*, a
communication device between programs on the Amiga and programs on the Pi.
Paths below are relative to `src/GCC/VC4_PSPROTO/pistorm/software/` unless they
start with `src/`.

## Inventory

| part | source | state | operations | talks to |
|---|---|---|---|---|
| a314.device task | `a314/a314device/a314driver.c`, `sockets.c` | active sockets (pending connect/read/write, received queue, EOS flags), send queue, next stream id | `handle_app_*` for CONNECT, READ, WRITE, EOS, RESET; `handle_pkt_*`; `handle_room_in_a2r`; `task_main` | applications by messages and replies; the daemon by the rings and event bytes of `struct ComArea` |
| a314.device interrupt server | `int_server.asm` | none | `IntServer` on every INT2 | reads `a_events`, clears `a_enable`, signals the task |
| a314.device start | `startup.c`, `device.c` | `running`, the task, the message port | `open`, `task_start`, `begin_io` | `ComArea`, exec |
| a314 memory region | `fix_mem_region.c` | exec's memory list | `split_region`, `mark_region_a314`, `translate_address_a314` | exec |
| a314 daemon | `a314/a314.cc` (a thread of the emulator) | connections, services, logical channels with their packet queues, send queue, a copy of the four indices | `handle_pkt_*`, `handle_msg_*`, `receive_from_a2r`, `flush_send_queue`, `close_and_remove_connection` | clients over sockets; the driver over `ComArea` and `irq_fds` |
| a314 registers | `a314/a314.cc` 1156-1259 (the emulator's thread) | `struct ComArea` | `a314_read_memory_8` (reading `a_events` clears it), `a314_write_memory_8` (writing `r_events` writes to `irq_fds`), `a314_check_int2` | both of the above |
| IDE drive | `ide/ide.c` | per drive: task file, state, data pointer, `intrq`, `failed`, `eightbit` | commands, data port, reset | the disk image |
| Gayle | `gayle.c` | interrupt enable and configuration registers | register reads and writes, `check_gayle_irq` | IDE drive, custom chips |
| custom chips | `ps_customchips.c` | `intena_shadow` | INTENA/INTREQ reads and writes, `ps_update_irq` | bus, Gayle, a314, CPU |
| bus, ARM side | `ps_protocol.c` | four mailbox words | `ps_read_*`, `ps_write_*`, status register | VPU |
| bus, VPU side | `src/GCC/VC4_PSPROTO/VC4/ps_protocol.c` | the same words, GPIO pins | one command at a time | CPLD on the bus |
| mappings, autoconfig | `ps_mappings.c`, `ps_autoconfig.c` | device table, ranges; the chain of boards | `ps_add_range`, memory accesses; `ac_write_memory_8` | all devices |
| fast memory, kickstart | `ps_fastmem.c`, `ps_kickstart.c` | arrays | accesses | mappings |
| main loop | `pistorm.c` | none | `ps_update_irq`; `m68k_execute(1000)` | all |
| 68000 emulator (Musashi) | `m68kcpu.c`, `m68kcpu.h`, `m68k_in.c`, and `m68kops.c`, which `m68kmake.c` generates from it | registers, flags, interrupt mask and level, NMI, stopped | one handler per opcode, exceptions, `m68k_set_irq`, `m68k_pulse_reset` | memory, main loop |
| FPU, softfloat | `m68kfpu.c`, `softfloat/` | | not reached by a 68000 | |

What is hard here: the a314 is two programs on two processors (the emulated
68000 and a POSIX thread) that share plain memory, wake each other with one-bit
events, and each sleep as soon as they believe there is nothing to do. Above the
rings, streams are opened, ended and reset by four parties (application, driver,
daemon, client) in any order, and each keeps tables that must agree with the
others'. The VPU is a third processor, which polls a mailbox the ARM writes. The
rest of the emulator is sequential, but its programs are not: interrupts arrive
between any two slices of instructions, and the 68000's flags, exceptions and
privilege, and the drive's registers, may be used in any order.

What makes each part correct:

* doorbells: no lost wake-up on either side, whatever the interleaving, whatever
  the socket pair drops; everything that waits is served in the end;
* rings: the bytes that come out are the packets that went in, whole, in order;
* driver: every request is answered exactly once; nothing is sent for a socket
  after its last packet; end-of-stream comes after all data;
* daemon: a client hears of every channel it was given until it ends; a channel
  goes when both sides are done with it; nothing remains of a closed connection;
* system: an application and a service see each other's data in order and
  complete up to EOS or RESET; the daemon should not meet a CONNECT on a channel it
  still holds, on which it exits, and does (`sys_reuse` below); a reset of the Amiga, after which its driver
  never comes back (the autoconfig chain does not rewind, so the a314 board is not
  found again), leaves the daemon's tables sound;
* bus: what the ARM asked for is what the bus did, once and in order;
* interrupts: the level the CPU is given is the motherboard's or the emulated
  devices', whichever is higher, as INTENA allows; who waits for the drive is woken;
* IDE: a command moves the sectors its address names, and no others, or is refused and
  moves nothing;
* autoconfig: a board answers where Kickstart put it, and nowhere else;
* memory region: no free byte is lost or counted twice, and what is marked as
  shared is what the Pi sees;
* 68000: flags and results are the arithmetic ones; an exception whose handler
  restores what it uses is invisible; user mode is only left through an exception;
  no interrupt the mask lets through waits.

## Modules

`A314Doorbell` models how the two ends keep each other awake. Its state is
`struct ComArea` without the contents of packets (`a_events`, `a_enable`, the four
indices, and for each ring the sequence of the sizes of its packets), the
driver's task (its place in `task_main`, pending signals, the number of waiting
requests, the lengths in the send queue, the locals of a round), the socket pair
`irq_fds`, and the daemon (its place, `channel_status`, `channel_status_updated`,
the sizes in its queue). An action is one access to memory that both sides use,
with the local computation around it:

| code | actions |
|---|---|
| `task_start` (`startup.c` 126-133) | `StartDisable`, `StartDiscard`, `StartRing`, `StartServer`, `StartEnable` |
| `begin_io`, `IntServer` | `BeginIO`, `IntServer` |
| `task_main` | `Wake`, `Disable`, `HandleRequest`, `NoMoreRequests`, `ReceivePacket`, `NothingToReceive`, `SendQueued`, `NothingToSend`, `Discard`, `CheckR2A`, `ChooseEnable`, `Enable`, `Ring` |
| `handle_a314_irq` | `ReadIrq`, then `ReadTail`, `ReadHead` (`read_channel_status`), `HandlePacket` (`receive_from_a2r`), `FlushPacket` (`flush_send_queue`), `WriteTail`, `WriteHead`, `WriteEvents` (`write_channel_status`) or `NothingChanged` |
| `handle_client_connection_event` and the flush in `main_loop` | `ClientEvent`, `NextMessage`, then `FlushPacket` as above |

What a handler does to sockets and channels is `A314System`'s subject: here it may
submit or queue a packet of any size, or take one out of the queue, as the
handlers may. The accesses of `IntServer` are one action because the emulated CPU
runs nothing else between them and the daemon only adds events; those of the task
to `a_enable`, `a_events` and the indices are separate because interrupts, the
applications and the daemon come between them. `a2r_moved`, `r2a_moved` and `lapped` are
history: they say whether a round has moved an index all the way round its ring.

`MCA314Doorbell` instantiates it for TLC. `A314DoorbellProofs` proves its type
invariant, that no wake-up is lost, and that the two ends agree where packets begin
and end.

`A314Ring` models the bytes of the two rings. Its state is both buffers and their
indices, the packet, index and count the driver's task is working with, and the
daemon's `channel_status`, `recv_buf` with the parser's place, and `send_buf`.

| code | actions |
|---|---|
| `append_a2r_packet` | `TaskAppend`, `TaskStore` for each byte, `TaskPublish` |
| `handle_packets_received_r2a` | `TaskReceive`, `TaskLoad` for each byte, `TaskTake` |
| `read_channel_status`, `receive_from_a2r` | `DaemonReadStatus`, `DaemonNothingReceived` or `DaemonCopy` and `DaemonCopyRest` (one `memcpy` each), `DaemonParse` for each packet, `DaemonParsed` |
| `flush_send_queue` | `DaemonFlush`, `DaemonSend`, `DaemonSendRest` |
| `write_channel_status` | `DaemonPublishTail`, `DaemonPublishHead` |

The daemon may take a turn at any time, on a new copy of the indices (an
interrupt) or on the old one (a client's event); when the two ends look is the
subject of `A314Doorbell`. Which packets wait in the daemon's queue is left open:
a flush sends any that fit. A `memcpy` is one action: `PublishedUntouched` says
that nobody stores into the bytes it reads or writes meanwhile.
`PacketLink` is what the rings promise, two first-in first-out links of whole
packets; the refinement mapping decodes the bytes in the ring, and those in
`recv_buf` that are not parsed yet, into packets. `A314RingProofs` proves that the
mapping is a refinement.

`VpuMailbox` models the emulator's access to the Amiga: the ARM's `ps_` functions
(`ps_protocol.c`), the loop on the VPU (`src/GCC/VC4_PSPROTO/VC4/ps_protocol.c`),
and, as an external part, the bus adapter with the Amiga's memory behind it.

| code | actions |
|---|---|
| `ps_read_*`, `ps_write_*`, `ps_read_status_reg`, `ps_get_ipl_zero` | `HostArguments` (MBOX0, MBOX1), `HostStart` (MBOX3), `HostReturn` |
| `ps_write_status_reg` | `HostStatusBegin`, `HostStatusEnd` |
| the VPU's loop | `VpuPoll`, `VpuDispatch` (the wait for TXN_IN_PROGRESS and the switch), `VpuDone` (busy bit cleared) |
| the VPU's commands | `VpuStatus`, `VpuIpl`; `VpuDrive` (the pins become outputs, data and low address), `VpuStart` (high address, which starts the cycle), `VpuSample`, `VpuMerge` |
| adapter and Amiga (external) | `BusWriteEnds`, `BusReadEnds`, `AmigaChanges` |

A read of a byte leaves anything in the other byte lane. The interrupt level pins
show one register of the Amiga (`IplAddr`), which writes and the Amiga itself
change. `AtomicBus` is the promise: every access takes effect in one step during
its call. In the refinement mapping a write takes effect when its cycle starts
(`AfterCycle`), for the emulator may go on from there; `got`, a history variable,
keeps what each access returned. `AtomicBusProofs` proves its invariants and the
refinement.

`A314System` models a314 above the rings. `A314Link` declares what the two sides
share: the rings as sequences of packets with the bytes they take, the events,
the socket pair, and `hist`, a history of what each stream has carried. `A314Driver`
is the device's task, `A314Daemon` the daemon with its clients; a handler is an
operator from a record of one side's state to its next state, and an action is one
step of the loop around it. `A314System` composes the two by interleaving them over
`A314Link` and states the properties. `MCA314System` gives it workloads: how many
requests of each kind the applications issue and how many messages of each kind
the clients send, whether clients exit and whether the Amiga is reset.

| code | definitions |
|---|---|
| `handle_app_connect`, `_read`, `_write`, `_eos`, `_reset` | `HandleAppRequest`, in `TakeRequest` |
| `handle_pkt_connect_response`, `_data`, `_eos`, `_reset` | `HandleR2aPacket`, in `TakePacket` |
| `handle_room_in_a2r`, `sockets.c` | `SendQueued`, in `SendOneQueued`; `AddToSendQueue`, `CreateSocket`, `DeleteSocket`, ... |
| `task_start`, `task_main` | `TaskStart`, `Wake`, `NoMoreRequests`, `WaitOrGoOn`, and the steps above |
| `handle_a314_irq`, `handle_pkt_*` (`a314.cc`) | `HandleA314Irq` |
| `handle_client_connection_event`, `handle_msg_*`, `close_and_remove_connection` | `HandleClientInput`, `HandleClientError` |
| `flush_send_queue` of a client's messages | `HandleClientOutput` |
| applications, clients (external) | `Application`, `Reboot`; `Accept`, `ClientTalks`, `ClientReceives`, `ClientCloses` |

The daemon handles an event of epoll in one action, as one thread does. An
application may issue any request on any socket at any time, a client may say
anything about a stream it has been told of: also DATA after its EOS, which
`handle_msg_data` (`a314.cc` 425) lets through. Each write of the kernel may take all of a
message, or none until the client reads; or, to a client that has gone, fail: with
ECONNRESET, which the daemon survives, or EPIPE, on which the emulator exits.
`A314Streams` is the promise: a stream is two pipes and a RESET, without rings,
queues, channels or sockets. The refinement mapping is `hist` itself, which every
step that hands data over extends. Stream ids are odd bytes that wrap: `FreshIds`
says that none has been given out twice, and the properties a late packet of an
earlier stream could break are stated under it. `allocate_stream_id` looks for a free
id without end: when there is none, `Stuck` holds and the task takes no further step.
The daemon associates the channels of a connection in the order of its streams; an enumeration
in that order (`InOrder`) is what resets them. A flush sends at most as many packets
as headers fit in the ring, so it is written as that many tries. `Clients`
bounds the connections: a run in which the daemon would have to start another client
ends (`exited` is "bound"). `A314DriverProofs` proves what each handler of
the driver keeps, and which of them ask the other side, take an answer or let a
socket wait for one; and `A314SystemProofs` the same of the daemon, its loops and the clients,
and the theorems about both.

`A314Memory` models `fix_mem_region.c`: exec's memory list, in blocks of eight bytes,
`fix_memory` (one action: the code holds `Forbid`), and tasks that allocate and free
around it with exec's own algorithms (external). Its `translate_address_a314` is what
a buffer's address must survive. `A314MemoryProofs` proves all of its properties, with
`FoldLemmas`, the lemmas on numbers, folds and sequences that several proofs need.

`Machine` is the emulated machine around the 68000. It EXTENDS `Gayle` (on `Ide`),
`CustomChips` and `Autoconfig`, which hold the devices' state and their operations,
and joins them to the main loop.

| code | definitions |
|---|---|
| `ide/ide.c` | `Ide`: `ide_write8`, `ide_read8`, the commands, `ReadIdeData`, `WriteIdeData`, `ResetDrive` |
| `gayle.c` | `Gayle`: `check_gayle_irq`, `ReadGirq`, `WriteGint`, `WriteIde` |
| `ps_customchips.c` | `CustomChips`: `write_intena`, `write_intena_8`, `read_intenar`, `read_intreqr`, `ps_update_irq` |
| `ps_autoconfig.c`, `ps_mappings.c` | `Autoconfig`: `WriteLow`, `WriteHigh`, `ShutUp`, `Done`, `ps_add_range`, `Answers` |
| `pistorm.c`, `m68ki_check_interrupts` | `MainLoop`, `Handler`, `HandlerReturns` |

The program on the 68000 is external, and one of three: a disk program that gives
any command at any time and polls; an interrupt program, a driver that waits for
the drive while others change INTENA and the mask; and Kickstart, which configures
the boards and may be reset. What the code does and a reader may not expect is kept:
the shadow of INTENA is not updated by byte writes, nor by RESET (hence `outside` in
`LevelSound`); the chain never rewinds; RECALIBRATE always aborts; the end of a soft
reset makes an absent drive 1 ready; EXECUTE DIAGNOSTICS and a failed drive raise no
interrupt; the interrupt disable bit of the control register is ignored; an LBA above
2^22 wraps its `off_t`. A board's ROM, which `ac_read_memory_8` gives inverted except
at offsets 0, 2 and (in decimal) 40 and 42, is read as the board's name.

The 68000 emulator is a family of modules, one per layer of its source:

| module | code | holds |
|---|---|---|
| `M68kAlu` | the flag and shift macros of `m68kcpu.h` | `CFLAG_ADD`, `VFLAG_SUB`, `LSL`, `ROR`, ... on numbers of `ByteBits`-bit bytes |
| `M68k` | the rest of `m68kcpu.h`, `m68kcpu.c` | memory, stacks, addressing modes (`EA`, `OPER`), SR, exceptions, interrupts, reset |
| `M68kArithmetic`, `M68kLogic`, `M68kInstructions` | the templates of `m68k_in.c` | one operator per template, from a cpu and a decoded instruction to the cpu after it |
| `M68kMachine` | `m68k_execute`, the main loop | the state; `Handler`, by which a handler is selected and run; `Slice`, the sampling of the interrupt level between slices |
| `M68kOpsAtoL`, `M68kOpsMtoZ` | the handlers of `m68kops.c` | one action per handler: its template, sizes, addressing modes |
| `M68kOps` | | `Next`, `Spec` |
| `M68kCorrect` | | the properties |
| `MCM68k` | | workloads |

Its state is the record `cpu` of registers, flags, stacks, mask, level and memory; the
program is a function from addresses to decoded instructions, since decoding is a
table lookup. `cpu.frames`, which remembers the context of each exception, and
`start`, the cpu a program began with, are history. Kept as the code has them: the most
negative dividend by -1 gives quotient 0; the 32-bit branches, which a 68000 takes as
a displacement of -1; NBCD's treatment of N; a level that
`m68ki_check_interrupts` clears when it takes it, so that a non-maskable interrupt held
by the bus is taken again in each slice. T1 is left out of SR: tracing is not compiled in.

Operators whose
comment begins with *Mutated* are broken forms of the next definition: with one
of them in its place, the property that PROJECT.json names must fail.

## Runs

| run | configuration | checks | shows |
|---|---|---|---|
| `doorbell` | rings of 6 bytes, one packet size (3), fairness | `TypeOK`, `AmigaInformed`, `DaemonInformedUnlessLapped`, `RingsIntact`, `A2RDrained`, `R2ADrained`, `SendQueueServed`, `PacketQueueServed` | no lost wake-up, and the two ends always agree where packets begin and end; what is sent is read, and who waits for room gets it |
| `bytes` | rings of 7 bytes, packets of 3 and 4 bytes each way, batches of two | `PublishedUntouched`, `PacketsCross` | the rings are queues of packets: they implement `PacketLink` |
| `mailbox` | bytes of one bit, 4 addresses, fairness | `PinsExclusive`, `CycleUndisturbed`, `AtomicAccess`, `EveryCallReturns` | the bus is atomic for the emulator (it implements `AtomicBus`) and every call returns |
| `sys_streams` | one stream ended by both sides; two in turn that anybody resets | `SocketsSound`, `AgreeOnStreams`, `ImplementsStreams` | streams are ordered pipes: `A314System` implements `A314Streams` |
| `sys_crowd` | five workloads: two sockets that want a ring with room for one packet, without and with a RESET; three streams on two ids, ended by RESET; services of clients that come, go and die; a reset of the Amiga in the middle of a stream | `TypeOK`, `InOrderAndOwn`, `SocketsSound`, `DaemonSound`, `AgreeOnStreams` | the tables of both sides stay exact and agree |
| `sys_live` | one stream, a misuse of it, fairness | `SendsAnswered`, `WritesDelivered`, `ChannelsFreed` | what was asked is answered, what was written arrives, what has ended is forgotten |
| `memory` | 8 blocks, every place and size of the shared memory | `FreeListsSound`, `A314RegionsExact`, `A314BuffersTranslate`, `MarkedOnce` | the split keeps exec's lists sound, and shared buffers translate |
| `machine` | a drive of 8 sectors of 4 bytes, 16 pages, the three programs | `LevelSound`, `BoardsWherePlaced`, `TransfersExact`, `RefusedMovesNothing`, `CommandsFinish` | the level, the boards and the transfers are right; a refused command moves nothing; a waiting driver is woken |
| `cpu` | bytes of 4 bits, every handler and mode, programs of exceptions | `ArithmeticExact`, `ShiftsExact`, `DecimalExact`, `InterruptPriority`, `ExceptionsReturn`, `PrivilegeKept` | the 68000 computes and protects as promised |
| `lap` | as `doorbell` | `DaemonInformed` | violated: see below |
| `int2` | as `lap`, a second source of INT2 | `AmigaInformed` | violated: see below |
| `sys_reuse` | one free id: a stream that ends in order while a packet waits for it, and the next CONNECT | `ConnectOnFreeChannel` | violated: see below |

Bounds. The socket pair holds one byte (`PipeCap`), so that it overflows whenever
the daemon lags by two; one request waits (`MaxMessages`), one packet waits on
each side (`MaxBacklog`): a second one in a queue waits behind the first and wakes
nobody. A ring of 6 holds one bare header, so that full and empty alternate with
every packet and two packets go round it. Larger bounds multiply the same situations; the proofs
cover all of them.

In `bytes` a ring of 7 bytes holds two packets of 3 or one of 4; the two lengths bring
the indices to every place of the ring, so every split of a header and of a payload
by the end of the buffer occurs, and so does every index of 0. The two packets differ
in every byte. In `mailbox` four addresses are the least in which a long fits and a word does not cover everything;
a byte of two values tells lanes and words apart.

In the `sys_` runs a ring holds a CONNECT and little more, so that sending queues
wherever it can; lengths are 1, and a buffer to read into may be too short
(`ReadLens`). The numbers of requests and messages are the workload's; each names the
case it is for, and `MCA314System` says which. Requests and keys are symmetric: the
driver compares them only for equality. `sys_live` uses no symmetry. In `memory` a
block is 1, a MemHeader takes one, and three blocks may be in use: one from before
the split, one below and one above it. In `machine` registers count to 3, so that
counts, heads and sectors reach 0 and wrap; the addresses are the edges (last sector,
sector 0, one past the end of each dimension, LBA past the image and past the `off_t`);
two commands overlap; a transfer fails at most once, and that, changes of INTENA or
the mask and interrupts of the board add up to two.

In `cpu` bytes have 4 bits, words 8 and longs 16 (`ByteBits`), digits go to 2 (`Base`)
and levels to 3 (`MaxLevel`); a 12-bit address space (`AddressSpan`) and the places of
S and the mask in SR (`SBit`, `MaskUnit`) follow. The macros are the same for each size but
for its width, and a width of 4 already has a count below, at and above it and a
carry out of each nibble. Byte operands are all pairs, the others the boundary
values; shift counts are all of 0 to 31; decimal operands all pairs of valid
digits. Every handler runs with every addressing mode, in user and supervisor mode, with
A7 and with another register: value properties are checked for register operands and
for the memory forms of multi-limb arithmetic, the other forms under `PrivilegeKept`
and `InterruptPriority` only. The three control programs are a boot with a call and a
system call, every exception a user program can cause, and every instruction that
moves the mask, each with interrupts at any point.

Fairness (`FairSpec`). Weak fairness of the task, of the interrupt server and of
the daemon's turn: exec runs a ready task of priority 80, the emulated CPU takes
an asserted INT2, the kernel runs the thread. The daemon's weak fairness also
says that a client does not keep its socket readable for ever within one turn.
Strong fairness of `ReadIrq`: `epoll_pwait` is asked for one event at a time and
hands out ready descriptors in turn, so the interrupt socket is not passed over
for ever for clients. In `doorbell` applications do not preempt the task
(`AppsPreempt` FALSE: its priority is above theirs), for otherwise they could keep
it in its GetMsg loop for ever; the theorems on its safety hold with preemption too.

`VpuMailbox!Spec` has weak fairness of the VPU (it runs nothing but its loop), of
the adapter (it ends every cycle it starts), and of the emulator's thread in a
call (it spins).

`A314System!FairSpec` has weak fairness of the task, of the daemon's turn for the
interrupt socket and for each client's input and output, and of clients reading
what they are sent: the kernel runs both, and a client that does not read is what
the message queue is for. Nobody has to issue a request or send a message. It
is written out as "again and again taken, or again and again impossible" with the guard of
each step named (`TaskMayStep`, `InputFrom`, ...), which is the definition of WF with
ENABLED spelled out, because TLC evaluates ENABLED of these actions slowly.
`Machine!Fairness` has weak fairness of the main loop, of interrupt handlers and of
the driver's own steps: the 68000 keeps executing. `Settle` is the program's promise
that it ends its critical sections.

### What the code does not keep

* `lap`. `task_main` finds out whether to ring by comparing byte indices with
  their values at the start of the round. A round that moves an index by exactly
  the size of the ring, which it can while the daemon serves an earlier event or
  a client, rings nothing. The daemon then sleeps past work until something else
  wakes it. Hence the `lapped` in the properties that do hold.
* `int2`. `IntServer` clears `a_events` before it looks at `a_enable`, for every
  INT2. With the IDE interface as a second source, an event raised between the
  task's last look at R2A and its write of `a_enable` can be cleared unseen.
  Hence `ForeignInt2` FALSE in the runs and in the theorem about the Amiga.
* `sys_reuse`. `handle_pkt_connect` ends the emulator when a CONNECT arrives on a
  channel that is still there. A channel stays until its packets are sent, also when both ends
  are over, and the driver frees the id when its socket goes. When the client's last
  packet waits for room in R2A (DATA sent after its EOS, or the RESET of a client that
  closes its connection), the application's EOS and a CONNECT that uses the id again can be
  read in one turn, before the flush (`LateData`, `LateClose`). `StreamIds` is 1: it stands for
  an id that `next_stream_id` has come round to, the other 127 having gone by or being in use.
  The same window on the Amiga's side, a late packet that the driver takes for the new
  stream's, is what `FreshIds` keeps out of the properties of streams; what such a packet
  should do is said nowhere, and no run asks.

## Proofs

The theorems about `A314Doorbell` hold for every ring size above a header, every set of packet
sizes that fit, every bound and either value of `AppsPreempt`; they rest on its four
named assumptions about its constants, nothing else. Those about `A314Ring`, `VpuMailbox` and
`Machine` rest likewise on the assumptions the modules name, those about `A314Memory` on
`MemoryAssumption` (the sizes are positive, and there is memory above chip memory);
`VpuMailbox` makes none; those about `A314System` on the assumptions of `A314Link`, `A314Driver`
and `A314Daemon`: the ring holds more than the longest name, workloads ask for at most
`MaxConv` CONNECTs, the values for "none" are no requests or clients.

* `TypeCorrect`: `Spec => []TypeOK`. `TypeOK` is inductive; the lemmas say that
  index arithmetic stays in the ring and that the handlers leave queues of packet
  sizes.
* `AmigaNeverMissesWork`: without a second source of INT2, `Spec => []AmigaInformed`.
  `AmigaInformed` only speaks of a sleeping task, and is not inductive: what makes
  it true is established earlier in the round. The invariant `AmigaInv` follows it
  back. `EnableInv`: from `Enable` on, the events the task will sleep on are
  enabled, or the interrupt that disabled them has signalled it. `ToldInv`: from its
  last look at a ring on, whatever the daemon has done to that ring is announced by
  a signal, a raised event, or a daemon about to raise it (`Told`). The step that
  publishes an index needs `CopyInv`: the daemon's copy of an index differs from
  ComArea's only while it owes the event. `StartInv` covers the time before the
  first round: until the daemon has read STARTED nothing happens in R2A, so that
  the events `task_start` discards are none.
* `DaemonNeverMissesWork`: `Spec => []DaemonInformedUnlessLapped`. `SeenInv`: unless
  an index lapped, a byte waits in the socket pair, or this round has moved an
  index and will ring, or the daemon's copy of the driver's indices is current or
  about to be. Because a full pair already holds a byte, a dropped one is
  harmless. `ServedInv`: a daemon back at epoll has done what its copy allowed.
  `MovedInv` and `StartInv` say where a round begins and that STARTED is read first.

* `RingsStayIntact`: a ring holds exactly the packets between
  its reader and its writer. `Total` is a recursive function, so this needs what a sum does
  when a packet is appended or taken: induction over the length, from `SetInduction`. The
  invariant `RingsInv` adds that an index read some time ago shows at least as much in the
  ring as there is, for a reader only comes nearer.
* `PacketsAlwaysCross`, `PublishedNeverTouched` and `TypesAlwaysOK` (`A314RingProofs`, for
  every ring above a header, all packets that fit and every batch). `RingInv` has
  three parts. The indices: the daemon's copies lie between A2R's head and tail, and
  around R2A's, in order, so distances add up. The contents: a stretch of bytes
  *holds* a sequence of packets when boundaries cut it into them (`Holds`); each stretch
  between two indices holds some (`A2RPending`, `R2APending`), and so does what is
  copied and not parsed, or flushed and not sent. The work in hand: the bytes a task
  has stored behind the tail, or read of the first packet, are those of the packet.
  Every step is a lemma that says which packets are pending after it. `Decode`, the
  recursive function of the refinement mapping, returns what a stretch holds
  (`HoldsDecode`), and flattening a batch holds the batch (`HoldsFlatten`), both by
  `SetInduction`; so each step is one of `PacketLink` or changes none of its variables.
* `PinsAlwaysExclusive` and `CyclesRunUndisturbed` (`AtomicBusProofs`, for every
  `Base`, `Top` and `IplAddr`, without any assumption on them). `MailboxInv` has
  two parts. `Handshake`: the busy bit is set only while the ARM spins, and a VPU
  that has polled a busy command has the one the ARM spins for; so while the ARM
  writes the status register, the VPU is polling. `BusHeld`: from the dispatch to
  the start of a cycle none is running; it needs the wait of the loop for bytes and
  reads, and those inside the functions for the second word of a long.
* `EveryAccessIsAtomic` (`AtomicBusProofs`): `Spec => AtomicAccess`, the refinement. On
  `MailboxInv` the invariant `DataInv` adds where the arguments of the call are, what the VPU
  has taken from the mailbox (`LocalsInv`), what the adapter's registers hold
  (`CycleInv`), and where each value fetched so far is (`GotInv`). A read takes effect
  when its value is known, a write when its cycle starts.
* `LevelAlwaysSound` and `BoardsAlwaysWherePlaced` (`MachineProofs`). `ShadowInv`: the shadow of
  INTENA is INTENA until something gets past it, and again once a write has named
  all bits. `ChainInv`: the boards are configured in their order (`Chain`), the page
  table is the owners' but for the placed board (`Homes`), and what Kickstart has
  on its list is where the list says, or has its low nibble (`Listed`). A reset empties
  the list and leaves the rest.
* `TransfersAlwaysExact` (`MachineProofs`): the action property `TransfersExact`, from
  `TransferInv`. Its parts: `IdeOK`, that drive 1, which is not there, never asks for data, and
  that drive 0 is selected while it is busy; `HostOK`, of what the program asked for; and
  `Transfer`, which ties the two. A drive that moves data has passed as many sectors as the
  command's count lacks now, its file is at the address plus those, and its buffer holds the
  sector wanted (`MovesIn`) or what was sent of it (`MovesOut`). It is established when a
  command is given: `BlockFound` shows that `xlate_block` finds the sector the program means, or
  none, and for a cylinder, head and sector this is a count of all the sectors before it
  (`BlockOnTrack`). It is kept by each word (`ReadMoves`, `WriteMoves`), across the ends of
  sectors, short transfers and failures, and by resets, choices of drive and reads of the
  status, which move nothing (`ControlWritten`, `StatusAndChoice`). It needs a sector of
  whole words (`IdeAssumption`) and addresses that are values of registers (`AddressAssumption`).
* `ListsAlwaysSound`, `RegionsAlwaysExact`, `BuffersAlwaysTranslate` and
  `MarkingIsIdempotent` (`A314MemoryProofs`, for every layout of memory). The argument has
  three layers. Chunks: a list of chunks in order and apart (`ChunkList`) stays one, and is
  counted right, when `AllocMem` takes from a chunk (`ChunkTaken`), when `FreeMem` puts
  memory back and joins neighbours (`ChunkFreed`), and when `split_region` deals its
  chunks to two lists (`SideParts`). Regions: a step changes the chunks of one region, or
  takes a region off the list or puts one on, and says what of it is then free
  (`TakeOffList`, `PutOnList`). Memory: the invariant `MemoryInv` says that regions do not
  overlap, that every address is free in one place or in one block (`Layout`), that before
  marking one region holds all of the shared memory (`Unshared`) and after it MEMF_A314
  is right on each (`Placed`), and that blocks with MEMF_A314 lie in the shared memory.
  `Unshared` is needed because `mark_region_a314` looks at one region only: it would leave
  a second one that overlaps the shared memory as it is. Between the two cuts the region
  in hand is on no list, and its free memory still counts (`LayoutWith`), because the
  second MemHeader may come out of what the first cut left. Splits, counts and `Side` are
  folds; `FoldExists` says that such a recursion has a solution.

* `SidesAlwaysAgree`: `Spec => []SystemInv`, the inductive invariant of `A314System`, for all
  numbers of sockets, requests, stream ids, clients and services. It has two halves,
  written about a record of one side's state so that each handler, which is an operator
  on such records, has a lemma of its own. `DriverInv` (`A314DriverProofs`): a request the
  driver has is in the port or in one slot of the socket it names; a socket is in the
  send queue exactly if its flag says so, and then it waits for a packet of that length;
  a closed socket only waits to send its RESET; a socket whose CONNECT is still
  queued has an id that occurs neither in A2R nor on the other side. `DaemonInv`
  (`A314SystemProofs`): a channel is in the send queue exactly if it has packets; its client
  is connected; its stream numbers are below the connection's next, and no two
  are the same stream; R2A holds no more than fits. The daemon's loops over packets,
  messages and channels are recursive functions: `LoopExists` and `Rounds` say that a
  loop keeps what its body keeps. `AmigaInv` ties the halves together by a number n, the
  ids given out so far: the ids that the daemon knows and those in A2R are below n, and
  the CONNECTs that wait in the port are the next ones (`PortOK`). The halves meet in
  `PublishKeeps` and `TakePacketKeeps`, where packets pass from one side to the other.
* `StateIsTyped`, `TablesPointAtTheLiving`, `QueueMatchesFlags` and `RequestsNeverLost`
  follow from it: `TypeOK`, `DaemonSound`, and of `SocketsSound` the parts
  `SendQueueConsistent`, `RequestsHeldOnce`, `ClosedSocketsIdle` and `StreamIdsDistinct`. They are
  stated under `FreshIds`. That is needed for the send queue: once ids are used again, a
  CONNECT_RESPONSE for an earlier stream may be taken for the new one's, while the CONNECT of
  that is still queued, and a WRITE would then queue the socket a second time. The other
  parts rest on the same invariant; beyond `FreshIds` they are checked by the workload
  `Wrap` only, whose streams end by RESET.
* `AnsweredOnce` (`Spec => [](SystemInv /\ (FreshIds => TokenInv))`) follows the answer to
  each CONNECT. `SystemInv` says that the tables agree and nothing of who may still
  answer. By `TokenInv`, the answer on a stream is with the client (`Unanswered`: it has
  not given one, or has written it and the daemon has not read it), or in the channel's
  `packet_queue`, or in R2A, or none is to come; never two of these; and wherever an answer is
  to come, the socket waits for it (`Waits`: unless it is closed, its CONNECT is pending).
  A CONNECT in A2R has an id that the daemon does not know, and its socket waits
  too (`NewStreams`). For the driver, `AnswerTaken` and `Asks` say which steps use an
  answer up and which ask for one; for the daemon, `Calmer` and `AnswersOK` say
  that a handler moves an answer on and makes none. They meet in `TokenPublished`,
  `TokenStepped` and `TakePacketKeepsToken`.
* `SocketsAlwaysSound` follows: under `FreshIds` all of `SocketsSound`, with
  the part that no SERIOUS ERROR is reached, because a CONNECT_RESPONSE finds a pending
  CONNECT and a socket taken from the send queue has something to send.

Each step lemma has one case per action, or per group of actions that leave the
invariant's variables alone (`TaskKeeps`, `DaemonKeeps`). Induction over data is done
without the library's rules, which take an operator: `SetInduction` says of a set that
it contains all naturals, and the property becomes the set of the numbers that have it.

Only model-checked: the liveness properties (out of the prover's reach, as is
anything under fairness); of `A314System` the refinement of `A314Streams`, the properties from
end to end (`InOrderAndOwn`, `AgreeOnStreams`), which need an account of every packet and
message of a stream, wherever it is, as `TokenInv` gives it of the answers; what the theorems
on `A314System` state under `FreshIds`, once ids are used again (in `Wrap` alone); and the 68000, whose sums
and shifts on every width are inductions over bits, and whose operators use bit masks the
prover does not know.

## Plan

Done: `A314Doorbell` with its proofs, `A314Ring` against `PacketLink` and `VpuMailbox`
against `AtomicBus` with theirs, `A314System` against `A314Streams`, `A314Memory` with its proofs,
`Machine` with proofs about the level, the boards and the drive's transfers, the 68000, and the two invariants of
`A314System`, with all of `SocketsSound`.

Left, proofs first: the data and the end of one stream, followed through A2R, the
channel, the client and R2A as its answer is, for `InOrderAndOwn` and `AgreeOnStreams`; then
`InterruptPriority` and `PrivilegeKept` of the 68000.

Then: address errors and tracing, if the core is ever built with them; a
behaviour of the drive's data register under byte accesses.

## Not modelled

* The FPU, the PMMU, softfloat, the disassembler, and the handlers of the 68010 and
  later: a 68000, the configured cpu, does not reach them. The table from opcodes to
  handlers, which is data that `m68kmake` generates: programs are given decoded.
  Cycle counts, the prefetch queue, address errors.
* The VideoCore property calls that load the VPU program, GPIO and clock set-up, the
  configuration file and socket set-up, logging: input and output at start-up.
* Fast memory and kickstart loading (arrays and file I/O), the disk image tool.
* The SIGTERM path of the daemon (its set-up is commented out), READ_MEM and
  WRITE_MEM (plain copies).
* The C memory model: `ComArea` is shared without atomics, and the models take
  each thread's accesses in program order.
* A long access at the last word of the address space, which the VPU turns into a
  word and a byte access, and words at odd addresses, are not among the calls of
  `AtomicBus`. Errors of system calls on which the emulator exits are taken not to
  happen, but for writes to a client that has gone.
