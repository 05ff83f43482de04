---------------------------- MODULE A314Doorbell ----------------------------
(***************************************************************************)
(* How the two ends of an a314 physical channel keep each other awake.     *)
(*                                                                         *)
(* The Amiga end is the task of a314.device (a314driver.c) and its INT2    *)
(* server (int_server.asm); the Raspberry end is the daemon thread of      *)
(* a314.cc.  They share one struct ComArea: two rings of packets, of which *)
(* this module keeps the four index bytes, and the event and enable bytes. *)
(* The Amiga rings the daemon by writing r_events, which becomes one byte  *)
(* in a non-blocking socket pair; the daemon rings the Amiga by setting    *)
(* bits of a_events, which assert INT2 while they are enabled in a_enable. *)
(*                                                                         *)
(* An action is one access to memory that the other side also accesses,    *)
(* with the local computation around it.  What the packets contain is left *)
(* to the modules of the rings, of the driver and of the daemon.           *)
(***************************************************************************)
EXTENDS Integers, Sequences, SequencesExt

CONSTANTS
  Size,          \* bytes of a ring: 256 in the code (a2r_buffer, r2a_buffer)
  PacketBytes,   \* the packet sizes that occur, header included
  PipeCap,       \* bytes the socket pair holds before a write would block
  MaxMessages,   \* bound on the requests waiting in the task's message port
  MaxBacklog,    \* bound on each side's queue of packets that wait for room
  AppsPreempt,   \* may applications run while the task is ready to run?
  ForeignInt2    \* may another source of INT2 run the server chain?

HeaderBytes == 3

ASSUME SizeAssumption == Size \in Nat /\ Size > HeaderBytes
ASSUME PacketAssumption ==
  HeaderBytes \in PacketBytes /\ PacketBytes \subseteq HeaderBytes .. Size - 1
ASSUME BoundAssumption ==
  PipeCap \in Nat \ {0} /\ MaxMessages \in Nat /\ MaxBacklog \in Nat \ {0}
ASSUME SwitchAssumption == AppsPreempt \in BOOLEAN /\ ForeignInt2 \in BOOLEAN

Index == 0 .. Size - 1

\* The bits of a_events and a_enable.
AEvents == {"A_R2A_TAIL", "A_A2R_HEAD"}

VARIABLES
  \* struct ComArea
  a_events, a_enable, a2r_tail, r2a_head, r2a_tail, a2r_head,
  \* what the bytes of its rings hold: the sizes of the packets between the
  \* reader's head and the writer's tail, in order
  a2r_buffer, r2a_buffer,
  \* the driver's task: its place in task_main, the signals it has received,
  \* the number of requests at task_mp, the lengths queued for room in A2R,
  \* and the locals of one round of task_main's outer loop
  task_pc, signals, task_mp, send_queue, prev_a2r_tail, prev_r2a_head, enable,
  \* the socket pair irq_fds
  irq_fds,
  \* the daemon: its place, whether there may be channels (whether a packet came
  \* since STARTED), its copy of the indices, the events it owes the Amiga, and
  \* the sizes of its queued packets in the order it would send them
  d_pc, device_started, channels, channel_status, channel_status_updated,
  packet_queue,
  \* history: what this round of task_main moved, and whether a round has ever
  \* moved an index by a whole ring
  a2r_moved, r2a_moved, lapped

rings     == <<a2r_tail, r2a_head, r2a_tail, a2r_head, a2r_buffer, r2a_buffer>>
comArea   == <<a_events, a_enable, rings>>
roundVars == <<prev_a2r_tail, prev_r2a_head, enable>>
moveVars  == <<a2r_moved, r2a_moved, lapped>>
taskData  == <<signals, task_mp, send_queue, roundVars, moveVars>>
taskVars  == <<task_pc, taskData>>
statusVars == <<channel_status, channel_status_updated>>
startVars == <<device_started, channels>>
daemonVars == <<d_pc, startVars, statusVars, packet_queue>>
vars == <<comArea, taskVars, irq_fds, daemonVars>>

-----------------------------------------------------------------------------
(* Index arithmetic: uint8_t in the code, modulo Size here.                *)

\* The bytes between head and tail: (tail - head) & 255.
Used(tail, head) == IF tail >= head THEN tail - head ELSE tail - head + Size

\* Mutated Advance: the index is not wrapped.
AdvanceWithoutWrap(index, n) == index + n

\* An index moved on by n bytes.
Advance(index, n) == IF index + n < Size THEN index + n ELSE index + n - Size

used_in_r2a == Used(r2a_tail, r2a_head)
used_in_a2r == Used(a2r_tail, a2r_head)

\* One slot always stays free, so that a full ring differs from an empty one.
room_in_a2r(n) == used_in_a2r + n <= Size - 1
Field == {"a2r_tail", "r2a_head", "r2a_tail", "a2r_head"}

Init ==
  /\ a_events = {} /\ a_enable = {}
  /\ a2r_tail = 0 /\ r2a_head = 0 /\ r2a_tail = 0 /\ a2r_head = 0
  /\ a2r_buffer = <<>> /\ r2a_buffer = <<>>
  /\ task_pc = "start_disable" /\ signals = {} /\ task_mp = 0
  /\ send_queue = <<>>
  /\ prev_a2r_tail = 0 /\ prev_r2a_head = 0 /\ enable = {}
  /\ irq_fds = <<>>
  /\ d_pc = "epoll" /\ device_started = FALSE /\ channels = FALSE
  /\ channel_status = [f \in Field |-> 0]
  /\ channel_status_updated = {} /\ packet_queue = <<>>
  /\ a2r_moved = FALSE /\ r2a_moved = FALSE /\ lapped = FALSE

-----------------------------------------------------------------------------
(* Writing r_events: write_r_events puts one byte into the socket pair; if *)
(* the pair is full the write fails and the byte is only logged.  A byte   *)
(* is kept as "R_STARTED" or, for any of the bits that tell of an index,   *)
(* "R_MOVED": the daemon looks at no other bit than STARTED.               *)

RingDaemon(byte) ==
  irq_fds' = IF Len(irq_fds) < PipeCap THEN Append(irq_fds, byte) ELSE irq_fds

\* task_start: run once, by whoever opens the device first.

StartDisable ==
  /\ task_pc = "start_disable"
  /\ task_pc' = "start_discard"
  /\ a_enable' = {}
  /\ UNCHANGED <<a_events, rings, taskData, irq_fds, daemonVars>>

\* Reading a_events clears it (a314_read_memory_8).
StartDiscard ==
  /\ task_pc = "start_discard"
  /\ task_pc' = "start_ring"
  /\ a_events' = {}
  /\ UNCHANGED <<a_enable, rings, taskData, irq_fds, daemonVars>>

StartRing ==
  /\ task_pc = "start_ring"
  /\ task_pc' = "start_server"
  /\ RingDaemon("R_STARTED")
  /\ UNCHANGED <<comArea, taskData, daemonVars>>

\* AddIntServer: from here on the INT2 chain runs IntServer.
StartServer ==
  /\ task_pc = "start_server"
  /\ task_pc' = "start_enable"
  /\ UNCHANGED <<comArea, taskData, irq_fds, daemonVars>>

StartEnable ==
  /\ task_pc = "start_enable"
  /\ task_pc' = "wait"
  /\ a_enable' = {"A_R2A_TAIL"}
  /\ UNCHANGED <<a_events, rings, taskData, irq_fds, daemonVars>>

Start == StartDisable \/ StartDiscard \/ StartRing \/ StartServer \/ StartEnable

-----------------------------------------------------------------------------
(* What wakes the task.                                                    *)

Started == task_pc \notin {"start_disable", "start_discard", "start_ring",
                           "start_server", "start_enable"}
Asleep == task_pc = "wait" /\ signals = {}

\* begin_io: PutMsg to task_mp, which signals the task.  The task has priority
\* 80, so an ordinary application runs only while the task is asleep.
BeginIO ==
  /\ Started
  /\ AppsPreempt \/ Asleep
  /\ task_mp < MaxMessages
  /\ task_mp' = task_mp + 1
  /\ signals' = signals \union {"MSGPORT"}
  /\ UNCHANGED <<comArea, task_pc, send_queue, roundVars, moveVars, irq_fds,
                 daemonVars>>

\* IntServer, called for every INT2, ours or not, once it has been added.  It
\* reads a_events, which clears it, and only then looks at a_enable.
Int2 == a_events \intersect a_enable # {}
IntServer ==
  /\ task_pc = "start_enable" \/ Started
  /\ a_events' = {}
  /\ \/ Int2 /\ a_enable' = {} /\ signals' = signals \union {"INT"}
     \/ ForeignInt2 /\ ~Int2 /\ UNCHANGED <<a_enable, signals>>
  /\ UNCHANGED <<rings, task_pc, task_mp, send_queue, roundVars, moveVars,
                 irq_fds, daemonVars>>

-----------------------------------------------------------------------------
(* task_main                                                               *)

\* Wait returns: the signals are taken, and the indices that only the task
\* moves are remembered for comparison at the end of the round.
Wake ==
  /\ task_pc = "wait"
  /\ signals # {}
  /\ task_pc' = IF "MSGPORT" \in signals THEN "disable" ELSE "receive"
  /\ signals' = {}
  /\ prev_a2r_tail' = a2r_tail
  /\ prev_r2a_head' = r2a_head
  /\ UNCHANGED <<comArea, task_mp, send_queue, enable, moveVars, irq_fds,
                 daemonVars>>

Disable ==
  /\ task_pc = "disable"
  /\ task_pc' = "messages"
  /\ a_enable' = {}
  /\ UNCHANGED <<a_events, rings, taskData, irq_fds, daemonVars>>

append_a2r_packet(n) ==
  /\ a2r_tail' = Advance(a2r_tail, n)
  /\ a2r_buffer' = Append(a2r_buffer, n)
  /\ a2r_moved' = TRUE
a2rVars == <<a2r_tail, a2r_buffer, a2r_moved>>

\* A packet of n bytes is appended if nobody queues and there is room, and
\* queued behind q otherwise.
Submit(q, n) ==
  /\ Len(q) < MaxBacklog
  /\ IF q = <<>> /\ room_in_a2r(n)
     THEN append_a2r_packet(n) /\ send_queue' = q
     ELSE send_queue' = Append(q, n) /\ UNCHANGED a2rVars

\* close_socket takes the socket out of the send queue if it waits there.
AfterClose == {send_queue} \union
              {RemoveAt(send_queue, i) : i \in 1 .. Len(send_queue)}

\* GetMsg and handle_app_request.  A CONNECT, WRITE or EOS that is in order
\* submits its packet; a RESET, or a request out of order, closes the socket
\* and submits a RESET; a READ, or a request that is refused, sends nothing.
HandleRequest ==
  /\ task_pc = "messages"
  /\ task_mp > 0
  /\ task_mp' = task_mp - 1
  /\ \/ UNCHANGED <<send_queue, a2rVars>>
     \/ \E n \in PacketBytes : Submit(send_queue, n)
     \/ \E q \in AfterClose : Submit(q, HeaderBytes)
  /\ UNCHANGED <<a_events, a_enable, r2a_head, r2a_tail, a2r_head, r2a_buffer,
                 task_pc, signals, roundVars, r2a_moved, lapped, irq_fds,
                 daemonVars>>

NoMoreRequests ==
  /\ task_pc = "messages"
  /\ task_mp = 0
  /\ task_pc' = "receive"
  /\ UNCHANGED <<comArea, taskData, irq_fds, daemonVars>>

\* One turn of handle_packets_received_r2a: a packet, whose size its first byte
\* tells, is consumed and handled.  (A ring with bytes in it holds a packet.)
\* Handling it may close its socket, with a RESET (a DATA too long for the
\* pending read) or without.
ReceivePacket ==
  /\ task_pc = "receive"
  /\ used_in_r2a # 0
  /\ r2a_buffer # <<>>
  /\ r2a_head' = Advance(r2a_head, Head(r2a_buffer))
  /\ r2a_buffer' = Tail(r2a_buffer)
  /\ r2a_moved' = TRUE
  /\ \E q \in AfterClose :
       \/ send_queue' = q /\ UNCHANGED a2rVars
       \/ Submit(q, HeaderBytes)
  /\ UNCHANGED <<a_events, a_enable, r2a_tail, a2r_head, task_pc, signals,
                 task_mp, roundVars, lapped, irq_fds, daemonVars>>

NothingToReceive ==
  /\ task_pc = "receive"
  /\ used_in_r2a = 0
  /\ task_pc' = "room"
  /\ UNCHANGED <<comArea, taskData, irq_fds, daemonVars>>

\* One turn of handle_room_in_a2r.
HeadHasRoom == send_queue # <<>> /\ room_in_a2r(Head(send_queue))
SendQueued ==
  /\ task_pc = "room"
  /\ HeadHasRoom
  /\ append_a2r_packet(Head(send_queue))
  /\ send_queue' = Tail(send_queue)
  /\ UNCHANGED <<a_events, a_enable, r2a_head, r2a_tail, a2r_head, r2a_buffer,
                 task_pc, signals, task_mp, roundVars, r2a_moved, lapped,
                 irq_fds, daemonVars>>

NothingToSend ==
  /\ task_pc = "room"
  /\ ~HeadHasRoom
  /\ task_pc' = "discard"
  /\ UNCHANGED <<comArea, taskData, irq_fds, daemonVars>>

\* UBYTE discard_value = ca->a_events
Discard ==
  /\ task_pc = "discard"
  /\ task_pc' = "check"
  /\ a_events' = {}
  /\ UNCHANGED <<a_enable, rings, taskData, irq_fds, daemonVars>>

\* Mutated CheckR2A: the ring is not looked at again.
CheckNothing ==
  /\ task_pc = "check"
  /\ task_pc' = "choose"
  /\ UNCHANGED <<comArea, taskData, irq_fds, daemonVars>>

\* Having cleared the events, the task looks at the rings once more: at R2A ...
CheckR2A ==
  /\ task_pc = "check"
  /\ task_pc' = IF r2a_head = r2a_tail THEN "choose" ELSE "receive"
  /\ UNCHANGED <<comArea, taskData, irq_fds, daemonVars>>

\* Mutated ChooseEnable: a socket that waits for room does not ask for its event.
ChooseOneEvent ==
  /\ task_pc = "choose"
  /\ task_pc' = IF HeadHasRoom THEN "receive" ELSE "enable"
  /\ enable' = IF HeadHasRoom THEN {} ELSE {"A_R2A_TAIL"}
  /\ UNCHANGED <<comArea, signals, task_mp, send_queue, prev_a2r_tail,
                 prev_r2a_head, moveVars, irq_fds, daemonVars>>

\* ... and at A2R, if a socket waits for room in it.
ChooseEnable ==
  /\ task_pc = "choose"
  /\ \/ /\ send_queue = <<>>
        /\ enable' = {"A_R2A_TAIL"} /\ task_pc' = "enable"
     \/ /\ send_queue # <<>> /\ ~HeadHasRoom
        /\ enable' = {"A_R2A_TAIL", "A_A2R_HEAD"} /\ task_pc' = "enable"
     \/ /\ HeadHasRoom
        /\ enable' = {} /\ task_pc' = "receive"
  /\ UNCHANGED <<comArea, signals, task_mp, send_queue, prev_a2r_tail,
                 prev_r2a_head, moveVars, irq_fds, daemonVars>>

Enable ==
  /\ task_pc = "enable"
  /\ task_pc' = "ring"
  /\ a_enable' = enable
  /\ UNCHANGED <<a_events, rings, taskData, irq_fds, daemonVars>>

\* Mutated r_events: the daemon is not told of room in R2A, or of data in A2R.
r_events_tail == {e \in {"R_A2R_TAIL"} : a2r_tail # prev_a2r_tail}
r_events_head == {e \in {"R_R2A_HEAD"} : r2a_head # prev_r2a_head}

\* r_events: the indices that differ from what they were when the round began.
r_events ==
  {e \in {"R_A2R_TAIL", "R_R2A_HEAD"} :
     \/ e = "R_A2R_TAIL" /\ a2r_tail # prev_a2r_tail
     \/ e = "R_R2A_HEAD" /\ r2a_head # prev_r2a_head}

\* An index that moved and is back where it was has gone round the whole ring.
Lap == \/ a2r_moved /\ a2r_tail = prev_a2r_tail
       \/ r2a_moved /\ r2a_head = prev_r2a_head

\* The end of the round: the locals go out of scope.
Ring ==
  /\ task_pc = "ring"
  /\ task_pc' = "wait"
  /\ \/ r_events # {} /\ RingDaemon("R_MOVED")
     \/ r_events = {} /\ UNCHANGED irq_fds
  /\ lapped' = (lapped \/ Lap)
  /\ a2r_moved' = FALSE /\ r2a_moved' = FALSE
  /\ prev_a2r_tail' = 0 /\ prev_r2a_head' = 0 /\ enable' = {}
  /\ UNCHANGED <<comArea, signals, task_mp, send_queue, daemonVars>>

TaskMain ==
  \/ Wake \/ Disable \/ HandleRequest \/ NoMoreRequests
  \/ ReceivePacket \/ NothingToReceive \/ SendQueued \/ NothingToSend
  \/ Discard \/ CheckR2A \/ ChooseEnable \/ Enable \/ Ring

-----------------------------------------------------------------------------
(* The daemon: one turn of main_loop serves either the interrupt socket or *)
(* a client's connection.                                                  *)

\* handle_a314_irq: a STARTED event closes every channel; events that arrive
\* before the first STARTED are ignored.
ReadIrq ==
  /\ d_pc = "epoll"
  /\ irq_fds # <<>>
  /\ irq_fds' = Tail(irq_fds)
  /\ \/ /\ Head(irq_fds) = "R_STARTED"
        /\ device_started' = TRUE /\ channels' = FALSE /\ packet_queue' = <<>>
     \/ /\ Head(irq_fds) # "R_STARTED"
        /\ UNCHANGED <<startVars, packet_queue>>
  /\ d_pc' = IF device_started' THEN "read_tail" ELSE "epoll"
  /\ UNCHANGED <<comArea, taskVars, statusVars>>

\* read_channel_status.  The other two indices are the daemon's own.
ReadTail ==
  /\ d_pc = "read_tail"
  /\ d_pc' = "read_head"
  /\ channel_status' = [channel_status EXCEPT !["a2r_tail"] = a2r_tail]
  /\ UNCHANGED <<comArea, taskVars, irq_fds, startVars,
                 channel_status_updated, packet_queue>>

ReadHead ==
  /\ d_pc = "read_head"
  /\ d_pc' = "serve"
  /\ channel_status' = [channel_status EXCEPT !["r2a_head"] = r2a_head,
                                              !["r2a_tail"] = r2a_tail,
                                              !["a2r_head"] = a2r_head]
  /\ channel_status_updated' = {}
  /\ UNCHANGED <<comArea, taskVars, irq_fds, startVars, packet_queue>>

\* A handler may drop packets it had queued (clear_packet_queue) and may queue
\* one (create_and_enqueue_packet).  The queue holds the packets of all the
\* channels in the order flush_send_queue will send them.
Dropped == {packet_queue} \union
           {RemoveAt(packet_queue, i) : i \in 1 .. Len(packet_queue)}
HandlerOutput ==
  \E q \in Dropped :
    \/ packet_queue' = q
    \/ Len(q) < MaxBacklog /\ \E n \in PacketBytes : packet_queue' = Append(q, n)

\* One turn of the loop of receive_from_a2r.  The code moves the head of its
\* channel_status once, after the loop; nobody looks at it in between.
Unread == Used(channel_status["a2r_tail"], channel_status["a2r_head"])
HandlePacket ==
  /\ d_pc = "serve"
  /\ Unread # 0
  /\ a2r_buffer # <<>>
  /\ channel_status' = [channel_status EXCEPT !["a2r_head"] =
                                        Advance(@, Head(a2r_buffer))]
  /\ a2r_buffer' = Tail(a2r_buffer)
  /\ channel_status_updated' = channel_status_updated \union {"A_A2R_HEAD"}
  /\ channels' = TRUE
  /\ HandlerOutput
  /\ UNCHANGED <<a_events, a_enable, a2r_tail, r2a_head, r2a_tail, a2r_head,
                 r2a_buffer, taskVars, irq_fds, d_pc, device_started>>

\* handle_client_connection_event: the messages of a client are handled until
\* there are no more, and then main_loop flushes with the indices last read.
\* Only a CONNECT from the Amiga opens a channel for clients to write to.
Message ==
  \/ channels /\ HandlerOutput
  \/ UNCHANGED packet_queue
ClientEvent ==
  /\ d_pc = "epoll"
  /\ d_pc' = "client"
  /\ Message
  /\ UNCHANGED <<comArea, taskVars, irq_fds, startVars, statusVars>>

NextMessage ==
  /\ d_pc = "client"
  /\ Message
  /\ UNCHANGED <<comArea, taskVars, irq_fds, d_pc, startVars, statusVars>>

\* Mutated Left: the ring is filled to the last byte.
LeftToTheBrim ==
  Size - Used(channel_status["r2a_tail"], channel_status["r2a_head"])

\* flush_send_queue, a packet at a time, as long as the next one fits.  (When a
\* client's messages end nothing is unread: the Amiga's were all handled.)
Left == Size - 1 - Used(channel_status["r2a_tail"], channel_status["r2a_head"])
NextFits == packet_queue # <<>> /\ Head(packet_queue) <= Left
Flushing == d_pc \in {"client", "serve"} /\ Unread = 0
FlushPacket ==
  /\ Flushing /\ NextFits
  /\ d_pc' = "serve"
  /\ channel_status' = [channel_status EXCEPT !["r2a_tail"] =
                                        Advance(@, Head(packet_queue))]
  /\ channel_status_updated' = channel_status_updated \union {"A_R2A_TAIL"}
  /\ r2a_buffer' = Append(r2a_buffer, Head(packet_queue))
  /\ packet_queue' = Tail(packet_queue)
  /\ UNCHANGED <<a_events, a_enable, a2r_tail, r2a_head, r2a_tail, a2r_head,
                 a2r_buffer, taskVars, irq_fds, startVars>>

NothingChanged ==
  /\ Flushing /\ ~NextFits
  /\ channel_status_updated = {}
  /\ d_pc' = "epoll"
  /\ UNCHANGED <<comArea, taskVars, irq_fds, startVars, statusVars,
                 packet_queue>>

\* write_channel_status
WriteTail ==
  /\ Flushing /\ ~NextFits
  /\ channel_status_updated # {}
  /\ d_pc' = "write_head"
  /\ r2a_tail' = channel_status["r2a_tail"]
  /\ UNCHANGED <<a_events, a_enable, a2r_tail, r2a_head, a2r_head, a2r_buffer,
                 r2a_buffer, taskVars, irq_fds, startVars, statusVars,
                 packet_queue>>

WriteHead ==
  /\ d_pc = "write_head"
  /\ d_pc' = "write_events"
  /\ a2r_head' = channel_status["a2r_head"]
  /\ UNCHANGED <<a_events, a_enable, a2r_tail, r2a_head, r2a_tail, a2r_buffer,
                 r2a_buffer, taskVars, irq_fds, startVars, statusVars,
                 packet_queue>>

\* Mutated WriteEvents: a_events is set rather than added to.
OverwriteEvents ==
  /\ d_pc = "write_events"
  /\ d_pc' = "epoll"
  /\ a_events' = channel_status_updated
  /\ channel_status_updated' = {}
  /\ UNCHANGED <<a_enable, rings, taskVars, irq_fds, startVars,
                 channel_status, packet_queue>>

WriteEvents ==
  /\ d_pc = "write_events"
  /\ d_pc' = "epoll"
  /\ a_events' = a_events \union channel_status_updated
  /\ channel_status_updated' = {}
  /\ UNCHANGED <<a_enable, rings, taskVars, irq_fds, startVars,
                 channel_status, packet_queue>>

Serve ==
  \/ ReadTail \/ ReadHead \/ HandlePacket \/ FlushPacket
  \/ NothingChanged \/ WriteTail \/ WriteHead \/ WriteEvents

-----------------------------------------------------------------------------
Environment == BeginIO \/ ClientEvent \/ NextMessage

Next == Start \/ TaskMain \/ IntServer \/ ReadIrq \/ Serve \/ Environment

Spec == Init /\ [][Next]_vars

\* The scheduler runs the task and the interrupt server when they can run, and
\* the daemon's thread; epoll hands out ready descriptors in turn, so that the
\* interrupt socket is not passed over for ever in favour of clients.
Fairness ==
  /\ WF_vars(Start) /\ WF_vars(TaskMain) /\ WF_vars(IntServer)
  /\ WF_vars(Serve) /\ SF_vars(ReadIrq)

FairSpec == Spec /\ Fairness

-----------------------------------------------------------------------------
(* Correctness                                                             *)

\* Types of every variable: the one type invariant of the module.
TypeOK ==
  /\ a_events \subseteq AEvents /\ a_enable \subseteq AEvents
  /\ a2r_tail \in Index /\ r2a_head \in Index
  /\ r2a_tail \in Index /\ a2r_head \in Index
  /\ a2r_buffer \in Seq(PacketBytes) /\ r2a_buffer \in Seq(PacketBytes)
  /\ task_pc \in {"start_disable", "start_discard", "start_ring",
                  "start_server", "start_enable", "wait", "disable",
                  "messages", "receive", "room", "discard", "check", "choose",
                  "enable", "ring"}
  /\ signals \subseteq {"MSGPORT", "INT"}
  /\ task_mp \in 0 .. MaxMessages
  /\ send_queue \in Seq(PacketBytes)
  /\ prev_a2r_tail \in Index /\ prev_r2a_head \in Index
  /\ enable \subseteq AEvents
  /\ irq_fds \in Seq({"R_STARTED", "R_MOVED"})
  /\ d_pc \in {"epoll", "client", "read_tail", "read_head", "serve",
               "write_head", "write_events"}
  /\ device_started \in BOOLEAN /\ channels \in BOOLEAN
  /\ channel_status \in [Field -> Index]
  /\ channel_status_updated \subseteq AEvents
  /\ packet_queue \in Seq(PacketBytes)
  /\ a2r_moved \in BOOLEAN /\ r2a_moved \in BOOLEAN /\ lapped \in BOOLEAN

\* The daemon is between publishing an index and raising the event for it.
EventComing(e) ==
  d_pc \in {"write_head", "write_events"} /\ e \in channel_status_updated

\* The event e is raised and enabled, so that INT2 is asserted.
Asserted(e) == e \in a_events \intersect a_enable

\* No lost wake-up of the Amiga: when the task sleeps with no signal pending,
\* packets it has not read, or room in A2R for the socket that queues for it,
\* come with an enabled event that asserts INT2, or with a daemon that is about
\* to raise it.  This is what the order discard, check, enable in task_main and
\* the order indices, events in write_channel_status are for.
AmigaInformed ==
  Asleep =>
    /\ used_in_r2a # 0 =>
         Asserted("A_R2A_TAIL") \/ EventComing("A_R2A_TAIL")
    /\ HeadHasRoom =>
         Asserted("A_A2R_HEAD") \/ EventComing("A_A2R_HEAD")

\* The daemon has nothing to do and no event to read.
DaemonIdle == d_pc = "epoll" /\ irq_fds = <<>>

\* No lost wake-up of the daemon: when the task sleeps and the daemon is idle,
\* every packet sent to the daemon has been handled, and a packet the daemon
\* still holds really has no room in R2A.  Events dropped because the socket
\* pair was full do no harm.
DaemonInformed ==
  Started /\ Asleep /\ DaemonIdle =>
    /\ a2r_head = a2r_tail
    /\ packet_queue # <<>> => used_in_r2a + Head(packet_queue) > Size - 1

\* The same, as long as no round of task_main has moved an index by exactly a
\* whole ring, which task_main cannot tell from not having moved it.
DaemonInformedUnlessLapped == lapped \/ DaemonInformed

\* The two ends agree on where packets begin and end: the bytes between a ring's
\* reader and its writer, as the side that is ahead counts them, are exactly
\* those of the packets in it, so that neither overruns the other although the
\* daemon works with indices it read some time ago.
Total(sizes) ==
  LET total[i \in 0 .. Len(sizes)] == IF i = 0 THEN 0 ELSE total[i - 1] + sizes[i]
  IN  total[Len(sizes)]
RingsIntact ==
  /\ Total(r2a_buffer) = Used(channel_status["r2a_tail"], r2a_head)
  /\ Total(a2r_buffer) = Used(a2r_tail, channel_status["a2r_head"])

\* Liveness, unless an index has lapped.  What the Amiga sends is always handled
\* in the end, and what the daemon sends is read: neither ring stays non-empty.
A2RDrained == []<>(used_in_a2r = 0 \/ lapped)
R2ADrained == []<>(used_in_r2a = 0 \/ lapped)

\* A full ring holds up the packets behind it only for a time: the driver's send
\* queue and the daemon's are emptied again and again.
SendQueueServed == []<>(send_queue = <<>> \/ lapped)
PacketQueueServed == []<>(packet_queue = <<>> \/ lapped)
=============================================================================
