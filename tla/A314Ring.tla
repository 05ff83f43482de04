------------------------------ MODULE A314Ring ------------------------------
(***************************************************************************)
(* The rings of an a314 physical channel, byte by byte.  The driver's task *)
(* (a314driver.c) stores and loads packets a byte at a time and then moves *)
(* its index; the daemon (a314.cc) copies the indices, moves runs of bytes *)
(* in one or two pieces and then publishes its indices.  Both run freely:  *)
(* who tells whom to look, and when, is the subject of A314Doorbell.       *)
(*                                                                         *)
(* A packet is the sequence of its bytes: the length of its payload, its   *)
(* type, its stream id and the payload.  Index k of a C array is place     *)
(* k + 1 of a sequence.                                                    *)
(***************************************************************************)
EXTENDS Integers, Sequences, SequencesExt, FiniteSets

CONSTANTS
  Size,            \* bytes of a ring: 256 in the code
  AmigaPackets,    \* the packets the driver sends
  PiPackets,       \* the packets the daemon sends
  MaxBatch         \* bound on the packets of one flush_send_queue

HeaderBytes == 3

IsPacket(p) == p \in Seq(Nat) /\ Len(p) >= HeaderBytes /\ Len(p) = HeaderBytes + p[1]

ASSUME RingSizeAssumption == Size \in Nat /\ Size > HeaderBytes
ASSUME RingPacketAssumption ==
  \A p \in AmigaPackets \union PiPackets : IsPacket(p) /\ Len(p) < Size
ASSUME BatchAssumption == MaxBatch \in Nat

Index == 0 .. Size - 1

VARIABLES
  \* struct ComArea
  a2r_buffer, r2a_buffer, a2r_tail, a2r_head, r2a_tail, r2a_head,
  \* the driver's task: its place, and the packet, index and count of bytes of
  \* append_a2r_packet or of handle_packets_received_r2a
  task_pc, task,
  \* the daemon: its place, channel_status and whether it is updated, recv_buf
  \* with the parser's place in it, send_buf
  d_pc, channel_status, updated, recv_buf, recv_pos, send_buf,
  \* the last packet handed to handle_r2a_packet and to handle_received_pkt
  amiga_got, pi_got

a2rVars == <<a2r_buffer, a2r_tail, a2r_head>>
r2aVars == <<r2a_buffer, r2a_tail, r2a_head>>
taskVars == <<task_pc, task>>
recvVars == <<recv_buf, recv_pos>>
daemonVars == <<d_pc, channel_status, updated, recvVars, send_buf>>
gotVars == <<amiga_got, pi_got>>
vars == <<a2rVars, r2aVars, taskVars, daemonVars, gotVars>>

-----------------------------------------------------------------------------
\* (tail - head) & 255.
Used(tail, head) == (tail - head + Size) % Size

\* An index that has moved on by n bytes.
Advance(index, n) == (index + n) % Size

\* Mutated room_in_a2r: the header is not counted.
room_for_payload(p) == Used(a2r_tail, a2r_head) + Len(p) - HeaderBytes <= Size - 1

\* A ring keeps one byte free, so that a full one is not taken for an empty one.
room_in_a2r(p) == Used(a2r_tail, a2r_head) + Len(p) <= Size - 1

NoPacket == [packet |-> <<>>, index |-> 0, count |-> 0]

Init ==
  /\ a2r_buffer = [k \in 1 .. Size |-> 0] /\ r2a_buffer = [k \in 1 .. Size |-> 0]
  /\ a2r_tail = 0 /\ a2r_head = 0 /\ r2a_tail = 0 /\ r2a_head = 0
  /\ task_pc = "idle" /\ task = NoPacket
  /\ d_pc = "idle" /\ updated = FALSE
  /\ channel_status = [a2r_tail |-> 0, r2a_head |-> 0, r2a_tail |-> 0, a2r_head |-> 0]
  /\ recv_buf = <<>> /\ recv_pos = 0 /\ send_buf = <<>>
  /\ amiga_got = <<>> /\ pi_got = <<>>

-----------------------------------------------------------------------------
(* append_a2r_packet.                                                      *)

TaskAppend ==
  /\ task_pc = "idle"
  /\ \E p \in AmigaPackets :
       /\ room_in_a2r(p)
       /\ task' = [packet |-> p, index |-> a2r_tail, count |-> 0]
  /\ task_pc' = "append"
  /\ UNCHANGED <<a2rVars, r2aVars, daemonVars, gotVars>>

TaskStore ==
  /\ task_pc = "append" /\ task.count < Len(task.packet)
  /\ a2r_buffer' = [a2r_buffer EXCEPT ![task.index + 1] = task.packet[task.count + 1]]
  /\ task' = [task EXCEPT !.index = Advance(@, 1), !.count = @ + 1]
  /\ UNCHANGED <<a2r_tail, a2r_head, r2aVars, task_pc, daemonVars, gotVars>>

\* Mutated TaskPublish: the tail moves before the last byte is stored.
TaskPublishEarly ==
  /\ task_pc = "append" /\ task.count >= Len(task.packet) - 1
  /\ a2r_tail' = Advance(a2r_tail, Len(task.packet))
  /\ task_pc' = "idle"
  /\ task' = NoPacket
  /\ UNCHANGED <<a2r_buffer, a2r_head, r2aVars, daemonVars, gotVars>>

TaskPublish ==
  /\ task_pc = "append" /\ task.count = Len(task.packet)
  /\ a2r_tail' = task.index
  /\ task_pc' = "idle"
  /\ task' = NoPacket
  /\ UNCHANGED <<a2r_buffer, a2r_head, r2aVars, daemonVars, gotVars>>

-----------------------------------------------------------------------------
(* handle_packets_received_r2a, one turn of its loop.                      *)

TaskReceive ==
  /\ task_pc = "idle" /\ Used(r2a_tail, r2a_head) # 0
  /\ task_pc' = "read"
  /\ task' = [NoPacket EXCEPT !.index = r2a_head]
  /\ UNCHANGED <<a2rVars, r2aVars, daemonVars, gotVars>>

\* All bytes are there: the three of the header and as many as it says.
Whole(p) == Len(p) >= HeaderBytes /\ Len(p) = HeaderBytes + p[1]

TaskLoad ==
  /\ task_pc = "read" /\ ~Whole(task.packet)
  /\ task' = [task EXCEPT !.packet = Append(@, r2a_buffer[task.index + 1]),
                          !.index = Advance(@, 1)]
  /\ UNCHANGED <<a2rVars, r2aVars, task_pc, daemonVars, gotVars>>

\* The head moves and handle_r2a_packet gets the packet.
TaskTake ==
  /\ task_pc = "read" /\ Whole(task.packet)
  /\ r2a_head' = task.index
  /\ amiga_got' = task.packet
  /\ task_pc' = "idle"
  /\ task' = NoPacket
  /\ UNCHANGED <<a2rVars, r2a_buffer, r2a_tail, daemonVars, pi_got>>

-----------------------------------------------------------------------------
(* receive_from_a2r.                                                       *)

\* read_channel_status, at the start of a turn that an interrupt began.
DaemonReadStatus ==
  /\ d_pc = "idle"
  /\ channel_status' = [a2r_tail |-> a2r_tail, r2a_head |-> r2a_head,
                        r2a_tail |-> r2a_tail, a2r_head |-> a2r_head]
  /\ updated' = FALSE
  /\ d_pc' = "receive"
  /\ UNCHANGED <<a2rVars, r2aVars, taskVars, recvVars, send_buf, gotVars>>

RecvLen == Used(channel_status.a2r_tail, channel_status.a2r_head)

DaemonNothingReceived ==
  /\ d_pc = "receive" /\ RecvLen = 0
  /\ d_pc' = "flush"
  /\ UNCHANGED <<a2rVars, r2aVars, taskVars, channel_status, updated, recvVars,
                 send_buf, gotVars>>

\* The bytes in one run, or the ones up to the end of the buffer.
DaemonCopy ==
  /\ d_pc = "receive" /\ RecvLen # 0
  /\ LET head == channel_status.a2r_head
         tail == channel_status.a2r_tail
     IN  IF head < tail
         THEN /\ recv_buf' = SubSeq(a2r_buffer, head + 1, head + RecvLen)
              /\ d_pc' = "parse"
         ELSE /\ recv_buf' = SubSeq(a2r_buffer, head + 1, Size)
              /\ d_pc' = IF tail # 0 THEN "copy rest" ELSE "parse"
  /\ recv_pos' = 0
  /\ UNCHANGED <<a2rVars, r2aVars, taskVars, channel_status, updated, send_buf, gotVars>>

\* Mutated DaemonCopyRest: the tail is taken for the last byte.
DaemonCopyRestAndOne ==
  /\ d_pc = "copy rest"
  /\ recv_buf' = SubSeq(recv_buf, 1, RecvLen - channel_status.a2r_tail)
                   \o SubSeq(a2r_buffer, 2, channel_status.a2r_tail + 1)
  /\ d_pc' = "parse"
  /\ UNCHANGED <<a2rVars, r2aVars, taskVars, channel_status, updated, recv_pos,
                 send_buf, gotVars>>

\* The run at the start of the buffer, which goes to recv_buf[len - tail].
DaemonCopyRest ==
  /\ d_pc = "copy rest"
  /\ recv_buf' = SubSeq(recv_buf, 1, RecvLen - channel_status.a2r_tail)
                   \o SubSeq(a2r_buffer, 1, channel_status.a2r_tail)
  /\ d_pc' = "parse"
  /\ UNCHANGED <<a2rVars, r2aVars, taskVars, channel_status, updated, recv_pos,
                 send_buf, gotVars>>

\* One packet goes to handle_received_pkt.
DaemonParse ==
  /\ d_pc = "parse" /\ recv_pos < RecvLen
  /\ LET length == HeaderBytes + recv_buf[recv_pos + 1]
     IN  /\ pi_got' = SubSeq(recv_buf, recv_pos + 1, recv_pos + length)
         /\ recv_pos' = recv_pos + length
  /\ UNCHANGED <<a2rVars, r2aVars, taskVars, d_pc, channel_status, updated,
                 recv_buf, send_buf, amiga_got>>

DaemonParsed ==
  /\ d_pc = "parse" /\ recv_pos >= RecvLen
  /\ channel_status' = [channel_status EXCEPT !.a2r_head = channel_status.a2r_tail]
  /\ updated' = TRUE
  /\ d_pc' = "flush"
  /\ recv_buf' = <<>> /\ recv_pos' = 0
  /\ UNCHANGED <<a2rVars, r2aVars, taskVars, send_buf, gotVars>>

-----------------------------------------------------------------------------
(* flush_send_queue and write_channel_status.                              *)

\* Mutated SendRoom: a full ring looks like an empty one.
SendRoomToTheBrim == Size - Used(channel_status.r2a_tail, channel_status.r2a_head)

\* Mutated SendRoom: what the driver has not read yet is not counted.
SendRoomWhenEmpty == Size - 1

\* 255 - ((tail - head) & 255), with the copied indices.
SendRoom == Size - 1 - Used(channel_status.r2a_tail, channel_status.r2a_head)

\* The packets that fit go into send_buf.  A turn that began with a client's
\* event comes here at once, with the indices of an earlier turn.
DaemonFlush ==
  /\ d_pc \in {"flush", "idle"}
  /\ \E batch \in BoundedSeq(PiPackets, MaxBatch) :
       /\ send_buf' = FlattenSeq(batch)
       /\ Len(send_buf') <= SendRoom
  /\ d_pc' = IF send_buf' # <<>> THEN "send"
             ELSE IF updated THEN "publish tail" ELSE "idle"
  /\ UNCHANGED <<a2rVars, r2aVars, taskVars, channel_status, updated, recvVars, gotVars>>

\* Sequence s with the bytes b from array index k on.
Overlay(s, k, b) ==
  [i \in DOMAIN s |-> IF i \in k + 1 .. k + Len(b) THEN b[i - k] ELSE s[i]]

\* All bytes in one run, or the ones up to the end of the buffer.
DaemonSend ==
  /\ d_pc = "send"
  /\ LET tail   == channel_status.r2a_tail
         at_end == Size - tail
     IN  IF at_end < Len(send_buf)
         THEN /\ r2a_buffer' = Overlay(r2a_buffer, tail, SubSeq(send_buf, 1, at_end))
              /\ d_pc' = "send rest"
              /\ UNCHANGED <<channel_status, updated, send_buf>>
         ELSE /\ r2a_buffer' = Overlay(r2a_buffer, tail, send_buf)
              /\ channel_status' = [channel_status EXCEPT
                   !.r2a_tail = Advance(tail, Len(send_buf))]
              /\ updated' = TRUE
              /\ send_buf' = <<>>
              /\ d_pc' = "publish tail"
  /\ UNCHANGED <<a2rVars, r2a_tail, r2a_head, taskVars, recvVars, gotVars>>

\* The other bytes go to the start of the buffer.
DaemonSendRest ==
  /\ d_pc = "send rest"
  /\ LET at_end == Size - channel_status.r2a_tail
         rest   == SubSeq(send_buf, at_end + 1, Len(send_buf))
     IN  /\ r2a_buffer' = Overlay(r2a_buffer, 0, rest)
         /\ channel_status' = [channel_status EXCEPT !.r2a_tail = Advance(0, Len(rest))]
  /\ updated' = TRUE
  /\ send_buf' = <<>>
  /\ d_pc' = "publish tail"
  /\ UNCHANGED <<a2rVars, r2a_tail, r2a_head, taskVars, recvVars, gotVars>>

DaemonPublishTail ==
  /\ d_pc = "publish tail"
  /\ r2a_tail' = channel_status.r2a_tail
  /\ d_pc' = "publish head"
  /\ UNCHANGED <<a2rVars, r2a_buffer, r2a_head, taskVars, channel_status, updated,
                 recvVars, send_buf, gotVars>>

DaemonPublishHead ==
  /\ d_pc = "publish head"
  /\ a2r_head' = channel_status.a2r_head
  /\ updated' = FALSE
  /\ d_pc' = "idle"
  /\ UNCHANGED <<a2r_buffer, a2r_tail, r2aVars, taskVars, channel_status, recvVars,
                 send_buf, gotVars>>

-----------------------------------------------------------------------------
Task == \/ TaskAppend \/ TaskStore \/ TaskPublish
        \/ TaskReceive \/ TaskLoad \/ TaskTake

Daemon == \/ DaemonReadStatus \/ DaemonNothingReceived \/ DaemonCopy \/ DaemonCopyRest
          \/ DaemonParse \/ DaemonParsed \/ DaemonFlush \/ DaemonSend \/ DaemonSendRest
          \/ DaemonPublishTail \/ DaemonPublishHead

Next == Task \/ Daemon

Spec == Init /\ [][Next]_vars

-----------------------------------------------------------------------------
(* What holds of it.                                                       *)

\* Indices stay inside the rings and buffers keep their sizes.
TypeOK ==
  /\ {a2r_tail, a2r_head, r2a_tail, r2a_head, task.index} \subseteq Index
  /\ a2r_buffer \in [1 .. Size -> Nat] /\ r2a_buffer \in [1 .. Size -> Nat]
  /\ task_pc \in {"idle", "append", "read"}
  /\ task.packet \in Seq(Nat) /\ task.count \in 0 .. Len(task.packet)
  /\ d_pc \in {"idle", "receive", "copy rest", "parse", "flush", "send", "send rest",
               "publish tail", "publish head"}
  /\ channel_status \in [{"a2r_tail", "r2a_head", "r2a_tail", "a2r_head"} -> Index]
  /\ updated \in BOOLEAN
  /\ recv_buf \in Seq(Nat) /\ recv_pos \in 0 .. Size
  /\ send_buf \in Seq(Nat) /\ Len(send_buf) < Size
  /\ amiga_got \in PiPackets \union {<<>>} /\ pi_got \in AmigaPackets \union {<<>>}

\* The cells from head to tail.
Cells(head, tail) == {Advance(head, k) + 1 : k \in 0 .. Used(tail, head) - 1}

\* Neither side stores into a cell that is published and not yet given back:
\* not the driver, whatever the daemon is copying, nor the daemon, which knows
\* the driver's head only as it was when an interrupt last came.
PublishedUntouched ==
  [][ /\ \A i \in Cells(a2r_head, a2r_tail) : a2r_buffer'[i] = a2r_buffer[i]
      /\ \A i \in Cells(r2a_head, r2a_tail) : r2a_buffer'[i] = r2a_buffer[i] ]_vars

\* The bytes of a ring from head to tail, where a run may go on at the start.
Bytes(buffer, head, tail) ==
  SubSeq(buffer \o buffer, head + 1, head + Used(tail, head))

\* The packets that bytes s hold; bytes that are no packet stay as they are.
Decode(s) ==
  LET n == Len(s)
      from[k \in 0 .. n] ==
        LET next == k + HeaderBytes + s[k + 1]
        IN  IF k = n THEN <<>>
            ELSE IF next > n THEN << SubSeq(s, k + 1, n) >>
            ELSE << SubSeq(s, k + 1, next) >> \o from[next]
  IN  from[0]

\* On its way to the Raspberry: what the daemon has copied and not parsed, then
\* what it has not copied.
InA2R ==
  IF d_pc = "parse"
  THEN Decode(SubSeq(recv_buf, recv_pos + 1, Len(recv_buf))
                \o Bytes(a2r_buffer, channel_status.a2r_tail, a2r_tail))
  ELSE Decode(Bytes(a2r_buffer, channel_status.a2r_head, a2r_tail))

InR2A == Decode(Bytes(r2a_buffer, r2a_head, r2a_tail))

Link == INSTANCE PacketLink WITH a2r <- InA2R, r2a <- InR2A

\* Every packet crosses whole, once and in order, wherever the ring wraps and
\* however the two sides' accesses interleave.
PacketsCross == Link!Spec
=============================================================================
