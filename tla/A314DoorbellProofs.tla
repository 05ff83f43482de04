------------------------- MODULE A314DoorbellProofs -------------------------
(***************************************************************************)
(* Proofs about A314Doorbell, for every ring size, packet size and bound:  *)
(* its types; that neither end of a channel misses a wake-up (the Amiga's  *)
(* task as long as INT2 has no other source, the daemon until an index has *)
(* lapped); and that the ends agree where packets begin and end, although  *)
(* each works with an index of the other's that it read some time ago.     *)
(*                                                                         *)
(* Both wake-up invariants have the same shape: at every point of the one  *)
(* side's loop, what it has not yet noticed is announced by something it   *)
(* will still look at.  They are stated in parts, each inductive relative  *)
(* to the ones before it.                                                  *)
(***************************************************************************)
EXTENDS A314Doorbell, FoldLemmas

-----------------------------------------------------------------------------
(* Lemmas about the operators.                                             *)

\* Index arithmetic stays within the ring, and a ring is empty exactly when its
\* two indices agree: (tail - head) & 255 is 0 only for equal bytes.
LEMMA UsedProperties ==
  ASSUME NEW t \in Index, NEW h \in Index
  PROVE  /\ Used(t, h) \in 0 .. Size - 1
         /\ Used(t, h) = 0 <=> t = h
BY SizeAssumption DEF Index, Used, HeaderBytes

LEMMA AdvanceType ==
  ASSUME NEW i \in Index, NEW n \in PacketBytes
  PROVE  Advance(i, n) \in Index
BY SizeAssumption, PacketAssumption DEF Index, Advance, HeaderBytes

\* Taking an entry out of a queue leaves a queue (remove_from_send_queue,
\* clear_packet_queue).
LEMMA RemoveAtType ==
  ASSUME NEW S, NEW q \in Seq(S), NEW i \in 1 .. Len(q)
  PROVE  RemoveAt(q, i) \in Seq(S)
<1>1. SubSeq(q, 1, i - 1) \in Seq(S)
  BY SubSeqProperties
<1>2. SubSeq(q, i + 1, Len(q)) \in Seq(S)
  BY SubSeqProperties
<1> QED
  BY <1>1, <1>2, ConcatProperties DEF RemoveAt

\* What the handlers leave of the two queues is a queue of packet sizes.
LEMMA AfterCloseType ==
  ASSUME send_queue \in Seq(PacketBytes), NEW q \in AfterClose
  PROVE  q \in Seq(PacketBytes)
BY RemoveAtType DEF AfterClose

LEMMA HandlerOutputType ==
  ASSUME packet_queue \in Seq(PacketBytes), HandlerOutput
  PROVE  packet_queue' \in Seq(PacketBytes)
<1>1. PICK q \in Dropped :
        \/ packet_queue' = q
        \/ \E n \in PacketBytes : packet_queue' = Append(q, n)
  BY DEF HandlerOutput
<1>2. q \in Seq(PacketBytes)
  BY RemoveAtType DEF Dropped
<1> QED
  BY <1>1, <1>2

\* Submitting a packet keeps the types of what it changes.
LEMMA SubmitType ==
  ASSUME NEW q \in Seq(PacketBytes), NEW n \in PacketBytes,
         a2r_tail \in Index, a2r_buffer \in Seq(PacketBytes),
         a2r_moved \in BOOLEAN, Submit(q, n)
  PROVE  /\ a2r_tail' \in Index /\ a2r_buffer' \in Seq(PacketBytes)
         /\ a2r_moved' \in BOOLEAN /\ send_queue' \in Seq(PacketBytes)
<1>1. CASE append_a2r_packet(n) /\ send_queue' = q
  BY <1>1, AdvanceType DEF append_a2r_packet
<1>2. CASE send_queue' = Append(q, n) /\ UNCHANGED a2rVars
  BY <1>2 DEF a2rVars
<1> QED
  BY <1>1, <1>2 DEF Submit

-----------------------------------------------------------------------------
(* Type correctness.                                                       *)

LEMMA InitType == Init => TypeOK
<1> SUFFICES ASSUME Init PROVE TypeOK
  OBVIOUS
<1>1. 0 \in Index /\ task_mp \in 0 .. MaxMessages
  BY SizeAssumption, BoundAssumption DEF Init, Index, HeaderBytes
<1>2. <<>> \in Seq({"R_STARTED", "R_MOVED"}) /\ <<>> \in Seq(PacketBytes)
  BY EmptySeq
<1> QED
  BY <1>1, <1>2 DEF Init, TypeOK

LEMMA TypeStep == TypeOK /\ [Next]_vars => TypeOK'
<1> SUFFICES ASSUME TypeOK, [Next]_vars
             PROVE  TypeOK'
  OBVIOUS
<1> USE DEF TypeOK, vars, comArea, rings, taskVars, taskData, roundVars, moveVars, daemonVars,
            startVars, statusVars
<1>1. CASE StartDisable
  BY <1>1 DEF StartDisable
<1>2. CASE StartDiscard
  BY <1>2 DEF StartDiscard
<1>3. CASE StartRing
  BY <1>3 DEF StartRing, RingDaemon
<1>4. CASE StartServer
  BY <1>4 DEF StartServer
<1>5. CASE StartEnable
  BY <1>5 DEF StartEnable, AEvents
<1>6. CASE BeginIO
  BY <1>6, BoundAssumption DEF BeginIO
<1>7. CASE IntServer
  <2>1. a_events' \subseteq AEvents /\ a_enable' \subseteq AEvents
    BY <1>7 DEF IntServer
  <2>2. signals' \subseteq {"MSGPORT", "INT"}
    BY <1>7 DEF IntServer
  <2> QED
    BY <1>7, <2>1, <2>2 DEF IntServer
<1>8. CASE Wake
  BY <1>8 DEF Wake
<1>9. CASE Disable
  BY <1>9 DEF Disable
<1>10. CASE HandleRequest
  <2>1. task_mp' \in 0 .. MaxMessages
    BY <1>10, BoundAssumption DEF HandleRequest
  <2>2. /\ a2r_tail' \in Index /\ a2r_buffer' \in Seq(PacketBytes)
        /\ a2r_moved' \in BOOLEAN /\ send_queue' \in Seq(PacketBytes)
    <3>1. CASE UNCHANGED <<send_queue, a2rVars>>
      BY <3>1 DEF a2rVars
    <3>2. CASE \E m \in PacketBytes : Submit(send_queue, m)
      BY <3>2, SubmitType
    <3>3. CASE \E q \in AfterClose : Submit(q, HeaderBytes)
      BY <3>3, SubmitType, AfterCloseType, PacketAssumption
    <3> QED
      BY <1>10, <3>1, <3>2, <3>3 DEF HandleRequest
  <2> QED
    BY <1>10, <2>1, <2>2 DEF HandleRequest
<1>11. CASE NoMoreRequests
  BY <1>11 DEF NoMoreRequests
<1>12. CASE ReceivePacket
  <2>1. r2a_head' \in Index /\ r2a_buffer' \in Seq(PacketBytes)
    BY <1>12, AdvanceType DEF ReceivePacket
  <2>2. /\ a2r_tail' \in Index /\ a2r_buffer' \in Seq(PacketBytes)
        /\ a2r_moved' \in BOOLEAN /\ send_queue' \in Seq(PacketBytes)
    <3>1. PICK q \in AfterClose : \/ send_queue' = q /\ UNCHANGED a2rVars
                                 \/ Submit(q, HeaderBytes)
      BY <1>12 DEF ReceivePacket
    <3>2. q \in Seq(PacketBytes)
      BY AfterCloseType
    <3> QED
      BY <3>1, <3>2, SubmitType, PacketAssumption DEF a2rVars
  <2> QED
    BY <1>12, <2>1, <2>2 DEF ReceivePacket
<1>13. CASE NothingToReceive
  BY <1>13 DEF NothingToReceive
<1>14. CASE SendQueued
  BY <1>14, AdvanceType DEF SendQueued, HeadHasRoom, append_a2r_packet
<1>15. CASE NothingToSend
  BY <1>15 DEF NothingToSend
<1>16. CASE Discard
  BY <1>16 DEF Discard
<1>17. CASE CheckR2A
  BY <1>17 DEF CheckR2A
<1>18. CASE ChooseEnable
  BY <1>18 DEF ChooseEnable, AEvents
<1>19. CASE Enable
  BY <1>19 DEF Enable
<1>20. CASE Ring
  <2>1. irq_fds' \in Seq({"R_STARTED", "R_MOVED"})
    <3>1. CASE RingDaemon("R_MOVED")
      BY <3>1 DEF RingDaemon
    <3>2. CASE UNCHANGED irq_fds
      BY <3>2
    <3> QED
      BY <1>20, <3>1, <3>2, Zenon DEF Ring
  <2>2. 0 \in Index
    BY SizeAssumption DEF Index, HeaderBytes
  <2>3. /\ lapped' \in BOOLEAN
        /\ a2r_moved' \in BOOLEAN /\ r2a_moved' \in BOOLEAN
    BY <1>20, Zenon DEF Ring
  <2>4. /\ prev_a2r_tail' = 0 /\ prev_r2a_head' = 0 /\ enable' = {}
        /\ task_pc' = "wait"
        /\ UNCHANGED <<comArea, signals, task_mp, send_queue, daemonVars>>
    BY <1>20 DEF Ring
  <2> QED
    BY <2>1, <2>2, <2>3, <2>4
<1>21. CASE ReadIrq
  <2>1. irq_fds' \in Seq({"R_STARTED", "R_MOVED"})
    BY <1>21 DEF ReadIrq
  <2>2. /\ device_started' \in BOOLEAN /\ channels' \in BOOLEAN
        /\ packet_queue' \in Seq(PacketBytes)
    <3>1. <<>> \in Seq(PacketBytes)
      BY EmptySeq
    <3> QED
      BY <1>21, <3>1, Zenon DEF ReadIrq
  <2>3. d_pc' \in {"read_tail", "epoll"}
    BY <1>21, Zenon DEF ReadIrq
  <2>4. UNCHANGED <<comArea, taskVars, statusVars>>
    BY <1>21 DEF ReadIrq
  <2> QED
    BY <2>1, <2>2, <2>3, <2>4
<1>22. CASE ReadTail
  BY <1>22 DEF ReadTail
<1>23. CASE ReadHead
  BY <1>23 DEF ReadHead
<1>24. CASE HandlePacket
  <2>1. Head(a2r_buffer) \in PacketBytes /\ a2r_buffer' \in Seq(PacketBytes)
    BY <1>24 DEF HandlePacket
  <2>2. channel_status' \in [Field -> Index]
    BY <1>24, <2>1, AdvanceType DEF HandlePacket, Field
  <2> QED
    BY <1>24, <2>1, <2>2, HandlerOutputType DEF HandlePacket, AEvents
<1>25. CASE ClientEvent
  BY <1>25, HandlerOutputType DEF ClientEvent, Message
<1>26. CASE NextMessage
  BY <1>26, HandlerOutputType DEF NextMessage, Message
<1>27. CASE FlushPacket
  <2>1. Head(packet_queue) \in PacketBytes
        /\ packet_queue' \in Seq(PacketBytes)
    BY <1>27 DEF FlushPacket, NextFits
  <2>2. channel_status' \in [Field -> Index]
    BY <1>27, <2>1, AdvanceType DEF FlushPacket, Field
  <2> QED
    BY <1>27, <2>1, <2>2 DEF FlushPacket, AEvents
<1>28. CASE NothingChanged
  BY <1>28 DEF NothingChanged
<1>29. CASE WriteTail
  BY <1>29 DEF WriteTail, Field
<1>30. CASE WriteHead
  BY <1>30 DEF WriteHead, Field
<1>31. CASE WriteEvents
  BY <1>31 DEF WriteEvents
<1>32. CASE UNCHANGED vars
  BY <1>32
<1> QED
  BY <1>1, <1>2, <1>3, <1>4, <1>5, <1>6, <1>7, <1>8, <1>9, <1>10, <1>11,
     <1>12, <1>13, <1>14, <1>15, <1>16, <1>17, <1>18, <1>19, <1>20,
     <1>21, <1>22, <1>23, <1>24, <1>25, <1>26, <1>27, <1>28, <1>29,
     <1>30, <1>31, <1>32
  DEF Next, Start, TaskMain, Serve, Environment

\* Every variable keeps its type whatever the two sides do: the indices stay
\* within the rings and every queue holds packet sizes.
THEOREM TypeCorrect == Spec => []TypeOK
<1> QED
  BY InitType, TypeStep, PTL DEF Spec

-----------------------------------------------------------------------------
(* Wake-ups: the inductive invariant.                                      *)

\* Until the driver has rung with STARTED, nothing has happened on the channel,
\* and until the daemon has read it, it serves nobody.
Resetting == task_pc \in {"start_disable", "start_discard", "start_ring"}
StartInv ==
  /\ ~Started => send_queue = <<>> /\ signals = {} /\ a_enable = {}
  /\ Resetting => irq_fds = <<>> /\ ~device_started
  /\ ~device_started =>
       /\ d_pc \in {"epoll", "client"}
       /\ ~channels /\ packet_queue = <<>> /\ channel_status_updated = {}
       /\ r2a_head = r2a_tail
       /\ Resetting \/ (irq_fds # <<>> /\ Head(irq_fds) = "R_STARTED")

\* The daemon's copies of its own indices are those of the ComArea, except for
\* the ones it has moved and not yet written, for which it owes an event.
CopyInv ==
  /\ d_pc \in {"epoll", "client", "read_tail", "read_head"} =>
       channel_status_updated = {}
  /\ \/ channel_status["r2a_tail"] = r2a_tail
     \/ "A_R2A_TAIL" \in channel_status_updated /\ d_pc = "serve"
  /\ \/ channel_status["a2r_head"] = a2r_head
     \/ "A_A2R_HEAD" \in channel_status_updated /\ d_pc \in {"serve", "write_head"}

\* The events the task sleeps on are enabled, unless the interrupt that disabled
\* them has signalled the task.
EnableInv ==
  /\ task_pc = "enable" =>
       /\ "A_R2A_TAIL" \in enable
       /\ send_queue # <<>> => "A_A2R_HEAD" \in enable
  /\ task_pc \in {"ring", "wait"} /\ "INT" \notin signals =>
       /\ "A_R2A_TAIL" \in a_enable
       /\ send_queue # <<>> => "A_A2R_HEAD" \in a_enable

\* The task has been told of the event e, or will be.
Told(e) == "INT" \in signals \/ e \in a_events \/ EventComing(e)

\* From its last look at a ring until it sleeps, the task is told of what the
\* daemon has done to that ring since.
ToldInv ==
  /\ ~Started \/ task_pc \in {"choose", "enable", "ring", "wait"} =>
       r2a_head = r2a_tail \/ Told("A_R2A_TAIL")
  /\ task_pc \in {"enable", "ring", "wait"} /\ HeadHasRoom => Told("A_A2R_HEAD")

AmigaInv == TypeOK /\ StartInv /\ CopyInv /\ EnableInv /\ ToldInv

-----------------------------------------------------------------------------
(* What each side leaves alone.                                            *)

LEMMA TaskKeeps ==
  ASSUME Start \/ TaskMain \/ IntServer \/ BeginIO
  PROVE  UNCHANGED <<r2a_tail, a2r_head, daemonVars>>
<1> USE DEF comArea, rings, taskVars, taskData, roundVars
<1>1. CASE Start
  BY <1>1 DEF Start, StartDisable, StartDiscard, StartRing, StartServer,
              StartEnable
<1>2. CASE Wake \/ Disable \/ HandleRequest \/ NoMoreRequests
  BY <1>2 DEF Wake, Disable, HandleRequest, NoMoreRequests
<1>3. CASE ReceivePacket \/ NothingToReceive \/ SendQueued \/ NothingToSend
  BY <1>3 DEF ReceivePacket, NothingToReceive, SendQueued, NothingToSend
<1>4. CASE Discard \/ CheckR2A \/ ChooseEnable \/ Enable \/ Ring
  BY <1>4 DEF Discard, CheckR2A, ChooseEnable, Enable, Ring
<1>5. CASE IntServer \/ BeginIO
  BY <1>5 DEF IntServer, BeginIO
<1> QED
  BY <1>1, <1>2, <1>3, <1>4, <1>5 DEF TaskMain

LEMMA DaemonKeeps ==
  ASSUME ReadIrq \/ Serve \/ ClientEvent \/ NextMessage
  PROVE  UNCHANGED <<a2r_tail, r2a_head, a_enable, taskVars>>
<1> USE DEF comArea, rings
<1>1. CASE ReadIrq \/ ReadTail \/ ReadHead \/ HandlePacket
  BY <1>1 DEF ReadIrq, ReadTail, ReadHead, HandlePacket
<1>2. CASE FlushPacket \/ NothingChanged \/ WriteTail \/ WriteHead \/ WriteEvents
  BY <1>2 DEF FlushPacket, NothingChanged, WriteTail, WriteHead, WriteEvents
<1>3. CASE ClientEvent \/ NextMessage
  BY <1>3 DEF ClientEvent, NextMessage
<1> QED
  BY <1>1, <1>2, <1>3 DEF Serve

\* A step is one of the task's side, one of the daemon's, or a stutter.
LEMMA Sides ==
  ASSUME [Next]_vars
  PROVE  \/ Start \/ TaskMain \/ IntServer \/ BeginIO
         \/ ReadIrq \/ Serve \/ ClientEvent \/ NextMessage
         \/ UNCHANGED vars
BY DEF Next, Environment

-----------------------------------------------------------------------------
(* The daemon's copies.                                                    *)

LEMMA CopyStep == TypeOK /\ CopyInv /\ [Next]_vars => CopyInv'
<1> SUFFICES ASSUME TypeOK, CopyInv, [Next]_vars
             PROVE  CopyInv'
  OBVIOUS
<1>t. /\ channel_status \in [Field -> Index]
      /\ {"a2r_tail", "r2a_head", "r2a_tail", "a2r_head"} \subseteq Field
  BY DEF TypeOK, Field
<1> USE DEF CopyInv, rings, statusVars
<1>1. CASE UNCHANGED <<r2a_tail, a2r_head, d_pc, channel_status,
                       channel_status_updated>>
  BY <1>1
<1>2. CASE Start \/ TaskMain \/ IntServer \/ BeginIO
  BY <1>1, <1>2, TaskKeeps DEF daemonVars
<1>3. CASE ReadIrq
  <2>1. d_pc' \in {"read_tail", "epoll"}
    BY <1>3, Zenon DEF ReadIrq
  <2>2. /\ d_pc = "epoll"
        /\ UNCHANGED <<r2a_tail, a2r_head, channel_status,
                       channel_status_updated>>
    BY <1>3 DEF ReadIrq, comArea
  <2> QED
    BY <2>1, <2>2
<1>4. CASE ReadTail
  BY <1>4, <1>t DEF ReadTail, comArea
<1>5. CASE ReadHead
  BY <1>5, <1>t DEF ReadHead, comArea
<1>6. CASE HandlePacket
  BY <1>6, <1>t DEF HandlePacket
<1>7. CASE ClientEvent \/ NextMessage
  BY <1>7 DEF ClientEvent, NextMessage, comArea
<1>8. CASE FlushPacket
  BY <1>8, <1>t DEF FlushPacket, Flushing
<1>9. CASE NothingChanged
  BY <1>9 DEF NothingChanged, comArea
<1>10. CASE WriteTail
  BY <1>10 DEF WriteTail, Flushing
<1>11. CASE WriteHead
  BY <1>11 DEF WriteHead
<1>12. CASE WriteEvents
  BY <1>12 DEF WriteEvents
<1>13. CASE UNCHANGED vars
  BY <1>13 DEF vars, comArea, daemonVars
<1> QED
  BY Sides, <1>2, <1>3, <1>4, <1>5, <1>6, <1>7, <1>8, <1>9, <1>10, <1>11,
     <1>12, <1>13 DEF Serve

-----------------------------------------------------------------------------
(* The start.                                                              *)

\* A write to r_events leaves a byte in the socket pair, and the oldest one
\* where it is.
LEMMA RingLeavesByte ==
  ASSUME NEW b \in {"R_STARTED", "R_MOVED"},
         irq_fds \in Seq({"R_STARTED", "R_MOVED"}), RingDaemon(b)
  PROVE  /\ irq_fds' # <<>>
         /\ irq_fds # <<>> => Head(irq_fds') = Head(irq_fds)
         /\ irq_fds = <<>> => Head(irq_fds') = b
<1>1. CASE Len(irq_fds) < PipeCap
  BY <1>1, HeadTailAppend DEF RingDaemon
<1>2. CASE ~(Len(irq_fds) < PipeCap)
  <2>1. Len(irq_fds) # 0
    BY <1>2, BoundAssumption
  <2> QED
    BY <1>2, <2>1, EmptySeq DEF RingDaemon
<1> QED
  BY <1>1, <1>2

LEMMA StartStep == TypeOK /\ StartInv /\ [Next]_vars => StartInv'
<1> SUFFICES ASSUME TypeOK, StartInv, [Next]_vars
             PROVE  StartInv'
  OBVIOUS
<1>t. /\ irq_fds \in Seq({"R_STARTED", "R_MOVED"})
      /\ r2a_head \in Index /\ r2a_tail \in Index
  BY DEF TypeOK
<1> USE DEF StartInv, Started, Resetting
<1>1. CASE Start
  <2>1. UNCHANGED <<r2a_tail, daemonVars>>
    BY <1>1, TaskKeeps
  <2>2. UNCHANGED <<r2a_head, send_queue, signals>>
    BY <1>1 DEF Start, StartDisable, StartDiscard, StartRing, StartServer,
                StartEnable, comArea, rings, taskData
  <2>3. CASE StartDisable \/ StartDiscard
    BY <2>1, <2>2, <2>3 DEF StartDisable, StartDiscard, daemonVars, startVars,
                            statusVars
  <2>4. CASE StartRing
    <3>1. irq_fds' # <<>> /\ Head(irq_fds') = "R_STARTED"
      BY <2>4, <1>t, RingLeavesByte DEF StartRing
    <3> QED
      BY <2>1, <2>2, <2>4, <3>1 DEF StartRing, comArea, daemonVars, startVars,
                                    statusVars
  <2>5. CASE StartServer \/ StartEnable
    BY <2>1, <2>2, <2>5 DEF StartServer, StartEnable, comArea, daemonVars,
                            startVars, statusVars
  <2> QED
    BY <1>1, <2>3, <2>4, <2>5 DEF Start
<1>2. CASE TaskMain
  <2>1. Started /\ Started'
    <3>1. CASE Wake \/ Disable \/ HandleRequest \/ NoMoreRequests
      BY <3>1 DEF Wake, Disable, HandleRequest, NoMoreRequests
    <3>2. CASE ReceivePacket \/ NothingToReceive \/ SendQueued \/ NothingToSend
      BY <3>2 DEF ReceivePacket, NothingToReceive, SendQueued, NothingToSend
    <3>3. CASE Discard \/ CheckR2A \/ ChooseEnable \/ Enable \/ Ring
      BY <3>3 DEF Discard, CheckR2A, ChooseEnable, Enable, Ring
    <3> QED
      BY <1>2, <3>1, <3>2, <3>3 DEF TaskMain
  <2>2. UNCHANGED <<r2a_tail, daemonVars>>
    BY <1>2, TaskKeeps
  <2>3. r2a_head = r2a_tail => r2a_head' = r2a_head
    <3>1. CASE Wake \/ Disable \/ HandleRequest \/ NoMoreRequests
      BY <3>1 DEF Wake, Disable, HandleRequest, NoMoreRequests, comArea, rings
    <3>2. CASE ReceivePacket
      BY <3>2, <1>t, UsedProperties DEF ReceivePacket, used_in_r2a
    <3>3. CASE NothingToReceive \/ SendQueued \/ NothingToSend
      BY <3>3 DEF NothingToReceive, SendQueued, NothingToSend, comArea, rings
    <3>4. CASE Discard \/ CheckR2A \/ ChooseEnable \/ Enable \/ Ring
      BY <3>4 DEF Discard, CheckR2A, ChooseEnable, Enable, Ring, comArea, rings
    <3> QED
      BY <1>2, <3>1, <3>2, <3>3, <3>4 DEF TaskMain
  <2>4. irq_fds' = irq_fds \/ RingDaemon("R_MOVED")
    <3>1. CASE Wake \/ Disable \/ HandleRequest \/ NoMoreRequests
      BY <3>1 DEF Wake, Disable, HandleRequest, NoMoreRequests
    <3>2. CASE ReceivePacket \/ NothingToReceive \/ SendQueued \/ NothingToSend
      BY <3>2 DEF ReceivePacket, NothingToReceive, SendQueued, NothingToSend
    <3>3. CASE Discard \/ CheckR2A \/ ChooseEnable \/ Enable \/ Ring
      BY <3>3 DEF Discard, CheckR2A, ChooseEnable, Enable, Ring
    <3> QED
      BY <1>2, <3>1, <3>2, <3>3 DEF TaskMain
  <2>5. irq_fds # <<>> => irq_fds' # <<>> /\ Head(irq_fds') = Head(irq_fds)
    BY <2>4, <1>t, RingLeavesByte
  <2> QED
    BY <2>1, <2>2, <2>3, <2>5 DEF daemonVars, startVars, statusVars
<1>3. CASE IntServer
  <2>1. task_pc = "start_enable" \/ Started
    BY <1>3 DEF IntServer
  <2>2. ~Started => UNCHANGED <<a_enable, signals>>
    BY <1>3, <2>1 DEF IntServer, Int2
  <2>3. UNCHANGED <<task_pc, send_queue, irq_fds, r2a_head, r2a_tail, daemonVars>>
    BY <1>3 DEF IntServer, rings
  <2> QED
    BY <2>1, <2>2, <2>3 DEF daemonVars, startVars, statusVars
<1>4. CASE BeginIO
  BY <1>4 DEF BeginIO, comArea, rings, daemonVars, startVars, statusVars
<1>5. CASE ReadIrq
  <2>1. UNCHANGED <<comArea, taskVars, statusVars>>
    BY <1>5 DEF ReadIrq
  <2>2. irq_fds # <<>>
    BY <1>5 DEF ReadIrq
  <2>3. CASE device_started' = TRUE
    BY <2>1, <2>2, <2>3 DEF comArea, rings, taskVars, taskData
  <2>4. device_started' = TRUE
    BY <1>5, <2>2, Zenon DEF ReadIrq, startVars
  <2> QED
    BY <2>3, <2>4
<1>6. CASE Serve
  <2>1. UNCHANGED <<taskVars, irq_fds, a_enable>>
    <3>1. CASE ReadTail \/ ReadHead \/ HandlePacket
      BY <3>1 DEF ReadTail, ReadHead, HandlePacket, comArea
    <3>2. CASE FlushPacket \/ NothingChanged \/ WriteTail \/ WriteHead
               \/ WriteEvents
      BY <3>2 DEF FlushPacket, NothingChanged, WriteTail, WriteHead, WriteEvents,
                  comArea
    <3> QED
      BY <1>6, <3>1, <3>2 DEF Serve
  <2>2. CASE ~device_started
    <3>1. d_pc = "client" /\ ~NextFits /\ channel_status_updated = {}
          /\ packet_queue = <<>>
      BY <1>6, <2>2 DEF Serve, ReadTail, ReadHead, HandlePacket, FlushPacket,
                       NothingChanged, WriteTail, WriteHead, WriteEvents,
                       Flushing, NextFits
    <3>2. NothingChanged
      BY <1>6, <3>1 DEF Serve, ReadTail, ReadHead, HandlePacket, FlushPacket,
                       WriteTail, WriteHead, WriteEvents
    <3> QED
      BY <2>2, <3>2 DEF NothingChanged, comArea, rings, taskVars, taskData,
                        startVars, statusVars
  <2>3. CASE device_started
    <3>1. device_started'
      BY <1>6, <2>3 DEF Serve, ReadTail, ReadHead, HandlePacket, FlushPacket,
                       NothingChanged, WriteTail, WriteHead, WriteEvents,
                       startVars
    <3> QED
      BY <2>1, <2>3, <3>1 DEF taskVars, taskData
  <2> QED
    BY <2>2, <2>3
<1>7. CASE ClientEvent \/ NextMessage
  <2>1. UNCHANGED <<comArea, taskVars, irq_fds, startVars, statusVars>>
        /\ d_pc' = "client"
    BY <1>7 DEF ClientEvent, NextMessage
  <2>2. ~device_started => UNCHANGED packet_queue
    BY <1>7 DEF ClientEvent, NextMessage, Message
  <2> QED
    BY <2>1, <2>2 DEF comArea, rings, taskVars, taskData, startVars, statusVars
<1>8. CASE UNCHANGED vars
  BY <1>8 DEF vars, comArea, rings, taskVars, taskData, daemonVars, startVars,
              statusVars
<1> QED
  BY Sides, <1>1, <1>2, <1>3, <1>4, <1>5, <1>6, <1>7, <1>8

-----------------------------------------------------------------------------
(* The Amiga's task.                                                       *)

LEMMA EnableStep ==
  TypeOK /\ StartInv /\ EnableInv /\ [Next]_vars => EnableInv'
<1> SUFFICES ASSUME TypeOK, StartInv, EnableInv, [Next]_vars
             PROVE  EnableInv'
  OBVIOUS
<1> USE DEF EnableInv
<1>1. CASE UNCHANGED <<task_pc, signals, send_queue, enable, a_enable>>
  BY <1>1
<1>2. CASE Start
  <2>1. CASE StartEnable
    BY <2>1 DEF StartEnable, StartInv, Started, taskData
  <2>2. CASE StartDisable \/ StartDiscard \/ StartRing \/ StartServer
    BY <2>2 DEF StartDisable, StartDiscard, StartRing, StartServer
  <2> QED
    BY <1>2, <2>1, <2>2 DEF Start
<1>3. CASE BeginIO
  BY <1>3 DEF BeginIO, roundVars, comArea
<1>4. CASE IntServer
  BY <1>4 DEF IntServer, roundVars
<1>5. CASE Wake \/ Disable \/ HandleRequest \/ NoMoreRequests
  BY <1>5 DEF Wake, Disable, HandleRequest, NoMoreRequests
<1>6. CASE ReceivePacket \/ NothingToReceive \/ SendQueued \/ NothingToSend
  BY <1>6 DEF ReceivePacket, NothingToReceive, SendQueued, NothingToSend
<1>7. CASE Discard \/ CheckR2A
  BY <1>7 DEF Discard, CheckR2A
<1>8. CASE ChooseEnable
  BY <1>8 DEF ChooseEnable, HeadHasRoom
<1>9. CASE Enable
  BY <1>9 DEF Enable, taskData
<1>10. CASE Ring
  BY <1>10 DEF Ring, comArea
<1>11. CASE ReadIrq \/ Serve \/ ClientEvent \/ NextMessage
  BY <1>1, <1>11, DaemonKeeps DEF taskVars, taskData, roundVars
<1>12. CASE UNCHANGED vars
  BY <1>12 DEF vars, comArea, taskVars, taskData, roundVars
<1> QED
  BY Sides, <1>2, <1>3, <1>4, <1>5, <1>6, <1>7, <1>8, <1>9, <1>10, <1>11,
     <1>12 DEF TaskMain

\* What the task may have been told of stays told until it wakes and looks.
LEMMA ToldStep ==
  ~ForeignInt2 /\ AmigaInv /\ [Next]_vars => ToldInv'
<1> SUFFICES ASSUME ~ForeignInt2, AmigaInv, [Next]_vars
             PROVE  ToldInv'
  OBVIOUS
<1>t. /\ TypeOK /\ StartInv /\ CopyInv /\ EnableInv /\ ToldInv
      /\ r2a_head \in Index /\ r2a_tail \in Index
  BY DEF AmigaInv, TypeOK
<1> USE DEF ToldInv, Told, EventComing, HeadHasRoom, room_in_a2r, used_in_a2r,
            Started
<1>1. CASE Start
  <2>1. UNCHANGED <<r2a_tail, a2r_head, r2a_head, a2r_tail, send_queue, signals,
                    daemonVars>>
    BY <1>1, TaskKeeps DEF Start, StartDisable, StartDiscard, StartRing,
       StartServer, StartEnable, comArea, rings, taskData
  <2>2. CASE StartDiscard
    BY <1>t, <2>1, <2>2 DEF StartDiscard, StartInv, Resetting
  <2>3. CASE StartDisable \/ StartRing \/ StartServer \/ StartEnable
    <3>1. /\ UNCHANGED a_events
          /\ task_pc' \in {"start_discard", "start_server", "start_enable",
                           "wait"}
          /\ ~Started
      BY <2>3 DEF StartDisable, StartRing, StartServer, StartEnable, comArea
    <3> QED
      BY <1>t, <2>1, <3>1 DEF StartInv, daemonVars, statusVars
  <2> QED
    BY <1>1, <2>2, <2>3 DEF Start
<1>2. CASE BeginIO
  BY <1>2, <1>t DEF BeginIO, comArea, rings, daemonVars, statusVars
<1>3. CASE IntServer
  <2>1. CASE Int2
    BY <1>3, <2>1 DEF IntServer
  <2>2. ~Int2 => FALSE
    BY <1>3 DEF IntServer
  <2> QED
    BY <2>1, <2>2
<1>4. CASE Wake \/ Disable \/ HandleRequest \/ NoMoreRequests
  BY <1>4 DEF Wake, Disable, HandleRequest, NoMoreRequests
<1>5. CASE ReceivePacket \/ NothingToReceive \/ SendQueued \/ NothingToSend
  BY <1>5 DEF ReceivePacket, NothingToReceive, SendQueued, NothingToSend
<1>6. CASE Discard \/ CheckR2A
  BY <1>6 DEF Discard, CheckR2A, comArea, rings
<1>7. CASE ChooseEnable
  BY <1>7, <1>t DEF ChooseEnable, comArea, rings, daemonVars, statusVars
<1>8. CASE Enable \/ Ring
  BY <1>8, <1>t DEF Enable, Ring, comArea, rings, taskData, daemonVars,
                    statusVars
<1>9. CASE ReadIrq \/ Serve \/ ClientEvent \/ NextMessage
  <2>1. UNCHANGED <<a2r_tail, r2a_head, task_pc, signals, send_queue>>
    BY <1>9, DaemonKeeps DEF taskVars, taskData
  <2>2. CASE WriteTail
    BY <1>t, <2>1, <2>2 DEF WriteTail, CopyInv, statusVars
  <2>3. CASE WriteHead
    BY <1>t, <2>1, <2>3 DEF WriteHead, CopyInv, statusVars
  <2>4. CASE WriteEvents
    BY <1>t, <2>1, <2>4 DEF WriteEvents, rings
  <2>5. CASE ~(WriteTail \/ WriteHead \/ WriteEvents)
    <3>1. /\ UNCHANGED <<a_events, r2a_tail, a2r_head>>
          /\ d_pc \notin {"write_head", "write_events"}
      BY <1>9, <2>5 DEF ReadIrq, ReadTail, ReadHead, HandlePacket, FlushPacket,
         NothingChanged, ClientEvent, NextMessage, Serve, Flushing, comArea,
         rings
    <3> QED
      BY <1>t, <2>1, <3>1
  <2> QED
    BY <2>2, <2>3, <2>4, <2>5
<1>10. CASE UNCHANGED vars
  BY <1>10, <1>t DEF vars, comArea, rings, taskVars, taskData, daemonVars,
                     statusVars
<1> QED
  BY Sides, <1>1, <1>2, <1>3, <1>4, <1>5, <1>6, <1>7, <1>8, <1>9, <1>10
  DEF TaskMain

LEMMA AmigaInvInit == Init => AmigaInv
<1> SUFFICES ASSUME Init PROVE AmigaInv
  OBVIOUS
<1>1. TypeOK
  BY InitType
<1>2. StartInv
  BY DEF Init, StartInv, Started, Resetting
<1>3. CopyInv
  BY DEF Init, CopyInv, Field
<1>4. EnableInv /\ ToldInv
  BY DEF Init, EnableInv, ToldInv, HeadHasRoom
<1> QED
  BY <1>1, <1>2, <1>3, <1>4 DEF AmigaInv

LEMMA AmigaInvStep == ~ForeignInt2 /\ AmigaInv /\ [Next]_vars => AmigaInv'
BY TypeStep, StartStep, CopyStep, EnableStep, ToldStep DEF AmigaInv

LEMMA AmigaInvImplies == AmigaInv => AmigaInformed
<1> SUFFICES ASSUME AmigaInv, Asleep
             PROVE  /\ used_in_r2a # 0 =>
                         Asserted("A_R2A_TAIL") \/ EventComing("A_R2A_TAIL")
                    /\ HeadHasRoom =>
                         Asserted("A_A2R_HEAD") \/ EventComing("A_A2R_HEAD")
  BY DEF AmigaInformed
<1>1. task_pc = "wait" /\ "INT" \notin signals
  BY DEF Asleep
<1>2. used_in_r2a # 0 => r2a_head # r2a_tail
  BY UsedProperties DEF AmigaInv, TypeOK, used_in_r2a
<1>3. used_in_r2a # 0 => Asserted("A_R2A_TAIL") \/ EventComing("A_R2A_TAIL")
  BY <1>1, <1>2 DEF AmigaInv, EnableInv, ToldInv, Told, Asserted
<1>4. HeadHasRoom => Asserted("A_A2R_HEAD") \/ EventComing("A_A2R_HEAD")
  BY <1>1 DEF AmigaInv, EnableInv, ToldInv, Told, Asserted, HeadHasRoom
<1> QED
  BY <1>3, <1>4

\* As long as INT2 has no other source, the driver's task never sleeps past a
\* packet in R2A, or past room in A2R for the socket that waits for it, without
\* an interrupt that is asserted or about to be: for every ring, every packet
\* size, and applications that may preempt the task or not.
THEOREM AmigaNeverMissesWork ==
  ASSUME ~ForeignInt2
  PROVE  Spec => []AmigaInformed
<1>1. Init => AmigaInv
  BY AmigaInvInit
<1>2. AmigaInv /\ [Next]_vars => AmigaInv'
  BY AmigaInvStep
<1>3. AmigaInv => AmigaInformed
  BY AmigaInvImplies
<1> QED
  BY <1>1, <1>2, <1>3, PTL DEF Spec

-----------------------------------------------------------------------------
(* The daemon.                                                             *)

\* Outside a round of task_main nothing counts as moved.
MovedInv ==
  task_pc \notin {"messages", "receive", "room", "discard", "check", "choose",
                  "enable", "ring"} => a2r_moved = FALSE /\ r2a_moved = FALSE

\* Unless a byte waits for it, or this round of task_main will ring, the daemon
\* has read the driver's indices or is about to.
SeenInv ==
  \/ lapped
  \/ irq_fds # <<>>
  \/ /\ \/ a2r_moved \/ d_pc = "read_tail"
        \/ channel_status["a2r_tail"] = a2r_tail
     /\ \/ r2a_moved \/ d_pc \in {"read_tail", "read_head"}
        \/ channel_status["r2a_head"] = r2a_head

\* When the daemon leaves the loops of receive_from_a2r and flush_send_queue,
\* there is nothing more to do with the indices it has read.
ServedInv ==
  /\ d_pc \in {"epoll", "client", "write_head", "write_events"} => Unread = 0
  /\ d_pc \in {"epoll", "write_head", "write_events"} => ~NextFits

DaemonInv == TypeOK /\ StartInv /\ CopyInv /\ MovedInv /\ SeenInv /\ ServedInv

LEMMA MovedStep == MovedInv /\ [Next]_vars => MovedInv'
<1> SUFFICES ASSUME MovedInv, [Next]_vars
             PROVE  MovedInv'
  OBVIOUS
<1> USE DEF MovedInv, moveVars, taskData, taskVars
<1>1. CASE Start
  BY <1>1 DEF Start, StartDisable, StartDiscard, StartRing, StartServer,
              StartEnable
<1>2. CASE IntServer \/ BeginIO
  BY <1>2 DEF IntServer, BeginIO
<1>3. CASE Wake \/ Disable
  BY <1>3 DEF Wake, Disable
<1>4. CASE HandleRequest \/ NoMoreRequests
  BY <1>4 DEF HandleRequest, NoMoreRequests
<1>5. CASE ReceivePacket \/ NothingToReceive \/ SendQueued \/ NothingToSend
  BY <1>5 DEF ReceivePacket, NothingToReceive, SendQueued, NothingToSend
<1>6. CASE Discard \/ CheckR2A \/ ChooseEnable \/ Enable
  BY <1>6 DEF Discard, CheckR2A, ChooseEnable, Enable
<1>7. CASE Ring
  BY <1>7 DEF Ring
<1>8. CASE ReadIrq \/ Serve \/ ClientEvent \/ NextMessage
  BY <1>8, DaemonKeeps
<1>9. CASE UNCHANGED vars
  BY <1>9 DEF vars
<1> QED
  BY Sides, <1>1, <1>2, <1>3, <1>4, <1>5, <1>6, <1>7, <1>8, <1>9 DEF TaskMain

\* Handling a request or a packet leaves the A2R ring alone or marks it moved.
LEMMA SubmitMoves ==
  ASSUME NEW q, NEW n, Submit(q, n) \/ UNCHANGED a2rVars
  PROVE  a2r_moved' = TRUE \/ UNCHANGED <<a2r_tail, a2r_moved>>
BY DEF Submit, append_a2r_packet, a2rVars

LEMMA SeenStep ==
  TypeOK /\ StartInv /\ SeenInv /\ [Next]_vars => SeenInv'
<1> SUFFICES ASSUME TypeOK, StartInv, SeenInv, [Next]_vars
             PROVE  SeenInv'
  OBVIOUS
<1>t. /\ irq_fds \in Seq({"R_STARTED", "R_MOVED"})
      /\ channel_status \in [Field -> Index]
      /\ {"a2r_tail", "r2a_head", "r2a_tail", "a2r_head"} \subseteq Field
  BY DEF TypeOK, Field
<1> USE DEF SeenInv
\* A step of the task's side that moves nothing it does not mark.
<1>m. ASSUME UNCHANGED <<daemonVars, irq_fds, lapped>>,
             a2r_moved' = TRUE \/ UNCHANGED <<a2r_tail, a2r_moved>>,
             r2a_moved' = TRUE \/ UNCHANGED <<r2a_head, r2a_moved>>
      PROVE  SeenInv'
  BY <1>m DEF daemonVars, statusVars
<1>1. CASE StartRing
  BY <1>1, <1>t, RingLeavesByte DEF StartRing
<1>2. CASE StartDisable \/ StartDiscard \/ StartServer \/ StartEnable
  BY <1>m, <1>2 DEF StartDisable, StartDiscard, StartServer, StartEnable,
                    comArea, rings, taskData, moveVars
<1>3. CASE BeginIO \/ IntServer
  BY <1>m, <1>3 DEF BeginIO, IntServer, comArea, rings, moveVars
<1>4. CASE Wake \/ Disable \/ NoMoreRequests \/ NothingToReceive
  BY <1>m, <1>4 DEF Wake, Disable, NoMoreRequests, NothingToReceive, comArea,
                    rings, taskData, moveVars
<1>5. CASE HandleRequest
  <2>1. a2r_moved' = TRUE \/ UNCHANGED <<a2r_tail, a2r_moved>>
    BY <1>5, SubmitMoves DEF HandleRequest, a2rVars
  <2>2. UNCHANGED <<daemonVars, irq_fds, lapped, r2a_head, r2a_moved>>
    BY <1>5 DEF HandleRequest
  <2> QED
    BY <1>m, <2>1, <2>2
<1>6. CASE ReceivePacket
  <2>1. a2r_moved' = TRUE \/ UNCHANGED <<a2r_tail, a2r_moved>>
    BY <1>6, SubmitMoves DEF ReceivePacket, a2rVars
  <2>2. UNCHANGED <<daemonVars, irq_fds, lapped>> /\ r2a_moved' = TRUE
    BY <1>6 DEF ReceivePacket
  <2> QED
    BY <1>m, <2>1, <2>2
<1>7. CASE SendQueued
  BY <1>m, <1>7 DEF SendQueued, append_a2r_packet
<1>8. CASE NothingToSend \/ Discard \/ CheckR2A \/ ChooseEnable \/ Enable
  BY <1>m, <1>8 DEF NothingToSend, Discard, CheckR2A, ChooseEnable, Enable,
                    comArea, rings, taskData, moveVars
<1>9. CASE Ring
  <2>1. CASE RingDaemon("R_MOVED")
    BY <1>t, <2>1, RingLeavesByte
  <2>2. CASE r_events = {} /\ UNCHANGED irq_fds
    <3>1. a2r_tail = prev_a2r_tail /\ r2a_head = prev_r2a_head
      BY <2>2 DEF r_events
    <3>2. lapped' \/ (~lapped /\ ~a2r_moved /\ ~r2a_moved)
      BY <1>9, <3>1, Zenon DEF Ring, Lap
    <3>3. UNCHANGED <<a2r_tail, r2a_head, daemonVars>>
      BY <1>9 DEF Ring, comArea, rings
    <3> QED
      BY <2>2, <3>2, <3>3 DEF daemonVars, statusVars
  <2> QED
    BY <1>9, <2>1, <2>2, Zenon DEF Ring
<1>10. CASE ReadIrq
  <2>1. UNCHANGED <<comArea, taskVars, statusVars>> /\ irq_fds # <<>>
    BY <1>10 DEF ReadIrq
  <2>2. device_started'
    <3>1. device_started \/ Head(irq_fds) = "R_STARTED"
      BY <1>10, <2>1 DEF StartInv
    <3>2. device_started' = TRUE \/ UNCHANGED device_started
      BY <1>10, Zenon DEF ReadIrq, startVars
    <3>3. Head(irq_fds) = "R_STARTED" => device_started' = TRUE
      BY <1>10, Zenon DEF ReadIrq
    <3> QED
      BY <3>1, <3>2, <3>3, Zenon
  <2>3. d_pc' = "read_tail"
    BY <1>10, <2>2, Zenon DEF ReadIrq
  <2> QED
    BY <2>3
<1>11. CASE ReadTail
  <2>1. UNCHANGED <<a2r_tail, r2a_head, irq_fds, taskVars>>
    BY <1>11, DaemonKeeps DEF ReadTail, Serve
  <2>2. channel_status'["a2r_tail"] = a2r_tail /\ d_pc' = "read_head"
    BY <1>11, <1>t DEF ReadTail
  <2> QED
    BY <2>1, <2>2
<1>12. CASE ReadHead
  <2>1. UNCHANGED <<a2r_tail, r2a_head, irq_fds, taskVars>>
    BY <1>12, DaemonKeeps DEF ReadHead, Serve
  <2>2. /\ channel_status'["r2a_head"] = r2a_head
        /\ channel_status'["a2r_tail"] = channel_status["a2r_tail"]
        /\ d_pc = "read_head"
    BY <1>12, <1>t DEF ReadHead
  <2> QED
    BY <2>1, <2>2 DEF taskVars, taskData, moveVars
<1>13. CASE HandlePacket \/ FlushPacket \/ NothingChanged \/ WriteTail
            \/ WriteHead \/ WriteEvents \/ ClientEvent \/ NextMessage
  <2>1. UNCHANGED <<a2r_tail, r2a_head, taskVars>>
    BY <1>13, DaemonKeeps DEF Serve
  <2>2. /\ UNCHANGED irq_fds /\ d_pc \notin {"read_tail", "read_head"}
        /\ channel_status'["a2r_tail"] = channel_status["a2r_tail"]
        /\ channel_status'["r2a_head"] = channel_status["r2a_head"]
    <3>1. CASE HandlePacket \/ FlushPacket
      BY <1>t, <3>1 DEF HandlePacket, FlushPacket, Flushing
    <3>2. CASE NothingChanged \/ WriteTail \/ WriteHead \/ WriteEvents
      BY <3>2 DEF NothingChanged, WriteTail, WriteHead, WriteEvents, Flushing,
                  statusVars
    <3>3. CASE ClientEvent \/ NextMessage
      BY <3>3 DEF ClientEvent, NextMessage, statusVars
    <3> QED
      BY <1>13, <3>1, <3>2, <3>3
  <2> QED
    BY <2>1, <2>2 DEF taskVars, taskData, moveVars
<1>14. CASE UNCHANGED vars
  BY <1>14, <1>m DEF vars, comArea, rings, taskVars, taskData, moveVars
<1> QED
  BY Sides, <1>1, <1>2, <1>3, <1>4, <1>5, <1>6, <1>7, <1>8, <1>9, <1>10, <1>11,
     <1>12, <1>13, <1>14 DEF Start, TaskMain, Serve

LEMMA ServedStep ==
  TypeOK /\ StartInv /\ ServedInv /\ [Next]_vars => ServedInv'
<1> SUFFICES ASSUME TypeOK, StartInv, ServedInv, [Next]_vars
             PROVE  ServedInv'
  OBVIOUS
<1> USE DEF ServedInv, Unread, NextFits, Left
<1>1. CASE Start \/ TaskMain \/ IntServer \/ BeginIO
  BY <1>1, TaskKeeps DEF daemonVars, statusVars
<1>2. CASE ReadIrq
  <2>1. UNCHANGED statusVars /\ d_pc = "epoll"
    BY <1>2 DEF ReadIrq
  <2>2. d_pc' = "read_tail" \/ (d_pc' = "epoll" /\ UNCHANGED packet_queue)
    <3>1. d_pc' = "read_tail" \/ (d_pc' = "epoll" /\ ~device_started')
      BY <1>2, Zenon DEF ReadIrq
    <3>2. device_started' = TRUE \/ UNCHANGED packet_queue
      BY <1>2, Zenon DEF ReadIrq
    <3> QED
      BY <3>1, <3>2, Zenon
  <2> QED
    BY <2>1, <2>2 DEF statusVars
<1>3. CASE ReadTail \/ ReadHead \/ HandlePacket \/ FlushPacket
  BY <1>3 DEF ReadTail, ReadHead, HandlePacket, FlushPacket, Flushing
<1>4. CASE ClientEvent \/ NextMessage
  BY <1>4 DEF ClientEvent, NextMessage, statusVars
<1>5. CASE NothingChanged
  BY <1>5 DEF NothingChanged, Flushing, statusVars
<1>6. CASE WriteTail
  BY <1>6 DEF WriteTail, Flushing, statusVars
<1>7. CASE WriteHead
  BY <1>7 DEF WriteHead, statusVars
<1>8. CASE WriteEvents
  BY <1>8 DEF WriteEvents
<1>9. CASE UNCHANGED vars
  BY <1>9 DEF vars, daemonVars, statusVars
<1> QED
  BY Sides, <1>1, <1>2, <1>3, <1>4, <1>5, <1>6, <1>7, <1>8, <1>9 DEF Serve

LEMMA DaemonInvInit == Init => DaemonInv
<1> SUFFICES ASSUME Init PROVE DaemonInv
  OBVIOUS
<1>1. TypeOK /\ StartInv /\ CopyInv
  BY AmigaInvInit DEF AmigaInv
<1>2. MovedInv
  BY DEF Init, MovedInv
<1>3. SeenInv /\ ServedInv
  BY SizeAssumption
  DEF Init, SeenInv, ServedInv, Unread, NextFits, Used, Field
<1> QED
  BY <1>1, <1>2, <1>3 DEF DaemonInv

LEMMA DaemonInvStep == DaemonInv /\ [Next]_vars => DaemonInv'
BY TypeStep, StartStep, CopyStep, MovedStep, SeenStep, ServedStep DEF DaemonInv

LEMMA DaemonInvImplies == DaemonInv => DaemonInformedUnlessLapped
<1> SUFFICES ASSUME DaemonInv, ~lapped, Started, Asleep, DaemonIdle
             PROVE  /\ a2r_head = a2r_tail
                    /\ packet_queue # <<>> =>
                         used_in_r2a + Head(packet_queue) > Size - 1
  BY DEF DaemonInformedUnlessLapped, DaemonInformed
<1>1. /\ channel_status["a2r_tail"] = a2r_tail
      /\ channel_status["r2a_head"] = r2a_head
      /\ channel_status["r2a_tail"] = r2a_tail
      /\ channel_status["a2r_head"] = a2r_head
  <2>1. a2r_moved = FALSE /\ r2a_moved = FALSE
    BY DEF DaemonInv, MovedInv, Asleep
  <2>2. d_pc = "epoll" /\ irq_fds = <<>>
    BY DEF DaemonIdle
  <2> QED
    BY <2>1, <2>2 DEF DaemonInv, SeenInv, CopyInv
<1>2. /\ r2a_head \in Index /\ r2a_tail \in Index
      /\ a2r_head \in Index /\ a2r_tail \in Index
      /\ packet_queue \in Seq(PacketBytes)
  BY DEF DaemonInv, TypeOK
<1>3. Used(a2r_tail, a2r_head) = 0 /\ ~NextFits
  BY <1>1 DEF DaemonInv, ServedInv, Unread, DaemonIdle
<1>4. a2r_head = a2r_tail
  BY <1>2, <1>3, UsedProperties
<1>5. ASSUME packet_queue # <<>>
      PROVE  used_in_r2a + Head(packet_queue) > Size - 1
  <2>1. Head(packet_queue) \in Nat
    <3>1. Head(packet_queue) \in PacketBytes
      BY <1>2, <1>5, HeadTailProperties
    <3>2. PacketBytes \subseteq HeaderBytes .. Size - 1 /\ Size \in Nat
      BY PacketAssumption, SizeAssumption
    <3>3. Head(packet_queue) \in HeaderBytes .. Size - 1
      BY <3>1, <3>2
    <3> QED
      BY <3>2, <3>3 DEF HeaderBytes
  <2>2. used_in_r2a \in Nat
    BY <1>2, UsedProperties DEF used_in_r2a
  <2>3. ~(Head(packet_queue) <= Size - 1 - used_in_r2a)
    BY <1>1, <1>3, <1>5 DEF NextFits, Left, used_in_r2a
  <2> QED
    BY <2>1, <2>2, <2>3, SizeAssumption
<1> QED
  BY <1>4, <1>5

\* Until a round of task_main has moved an index by a whole ring, the daemon
\* never waits at epoll, with no event to come, while a packet of the Amiga's is
\* unread or one of its own has room: a full socket pair loses nothing, nor do
\* clients served between the event and the read, nor the start of the driver.
THEOREM DaemonNeverMissesWork == Spec => []DaemonInformedUnlessLapped
<1>1. Init => DaemonInv
  BY DaemonInvInit
<1>2. DaemonInv /\ [Next]_vars => DaemonInv'
  BY DaemonInvStep
<1>3. DaemonInv => DaemonInformedUnlessLapped
  BY DaemonInvImplies
<1> QED
  BY <1>1, <1>2, <1>3, PTL DEF Spec

-----------------------------------------------------------------------------
(* The sums of a sequence.                                                 *)

\* f holds the sums of the first 0, 1, ... entries of s.
Sums(s, f) ==
  /\ f \in [0 .. Len(s) -> Nat]
  /\ f[0] = 0
  /\ \A i \in 1 .. Len(s) : f[i] = f[i - 1] + s[i]

LEMMA SumsExist ==
  ASSUME NEW s \in Seq(Nat)
  PROVE  \E f : Sums(s, f)
<1> DEFINE P(n, f) == /\ f \in [0 .. n -> Nat]
                      /\ f[0] = 0
                      /\ \A i \in 1 .. n : f[i] = f[i - 1] + s[i]
           Q(n) == n <= Len(s) => \E f : P(n, f)
           S == {n \in Nat : Q(n)}
<1>1. Q(0)
  <2>1. P(0, [i \in 0 .. 0 |-> 0])
    OBVIOUS
  <2> QED
    BY <2>1
<1>2. ASSUME NEW n \in Nat, Q(n)
      PROVE  Q(n + 1)
  <2>1. SUFFICES ASSUME n + 1 <= Len(s)
                 PROVE  \E f : P(n + 1, f)
    OBVIOUS
  <2>2. PICK f : P(n, f)
    <3>1. Len(s) \in Nat /\ n <= Len(s)
      BY <2>1
    <3> QED
      BY ONLY <1>2, <3>1
  <2> DEFINE g == [i \in 0 .. n + 1 |-> IF i = n + 1 THEN f[n] + s[n + 1] ELSE f[i]]
  <2>3. P(n + 1, g)
    <3>1. f[n] \in Nat /\ s[n + 1] \in Nat
      BY <2>1, <2>2
    <3>2. g \in [0 .. n + 1 -> Nat] /\ g[0] = 0
      BY <2>2, <3>1
    <3>3. ASSUME NEW i \in 1 .. n + 1
          PROVE  g[i] = g[i - 1] + s[i]
      BY <2>2
    <3> QED
      BY <3>2, <3>3
  <2> QED
    BY <2>3
<1> HIDE DEF Q
<1>3. 0 \in S /\ \A n \in Nat : n \in S => n + 1 \in S
  BY <1>1, <1>2
<1> HIDE DEF S
<1>4. \A n \in Nat : n \in S
  BY <1>3, SetInduction
<1> USE DEF S
<1>5. Q(Len(s))
  BY <1>4
<1> QED
  BY <1>5 DEF Q, Sums

\* The recursion in Total has a solution, and only one: its value is the last of
\* the sums.
LEMMA TotalIsSum ==
  ASSUME NEW s \in Seq(Nat), NEW f, Sums(s, f)
  PROVE  Total(s) = f[Len(s)]
<1> DEFINE R(h) == h = [i \in 0 .. Len(s) |-> IF i = 0 THEN 0 ELSE h[i - 1] + s[i]]
           F == CHOOSE h : R(h)
           S == {n \in Nat : n <= Len(s) => F[n] = f[n]}
<1>1. R(f)
  BY DEF Sums
<1>2. R(F)
  <2> HIDE DEF R
  <2> QED
    BY <1>1, Zenon
<1> HIDE DEF F
<1>3. 0 \in S
  BY <1>2 DEF Sums
<1>4. ASSUME NEW n \in Nat, n \in S
      PROVE  n + 1 \in S
  BY <1>2, <1>4 DEF Sums
<1> HIDE DEF S
<1>5. \A n \in Nat : n \in S
  BY <1>3, <1>4, SetInduction
<1>6. F[Len(s)] = f[Len(s)]
  BY <1>5 DEF S
<1> QED
  BY <1>6 DEF F, Total

\* What the operations on a ring's packets do to their total size.
LEMMA TotalType ==
  ASSUME NEW s \in Seq(Nat)
  PROVE  Total(s) \in Nat
<1>1. PICK f : Sums(s, f)
  BY SumsExist
<1> QED
  BY <1>1, TotalIsSum DEF Sums

LEMMA TotalOfNone == Total(<<>>) = 0
<1>1. <<>> \in Seq(Nat) /\ Len(<<>>) = 0
  BY EmptySeq
<1>2. PICK f : Sums(<<>>, f)
  BY <1>1, SumsExist
<1> QED
  BY <1>1, <1>2, TotalIsSum DEF Sums

LEMMA TotalOfAppend ==
  ASSUME NEW s \in Seq(Nat), NEW n \in Nat
  PROVE  Total(Append(s, n)) = Total(s) + n
<1>1. PICK f : Sums(s, f)
  BY SumsExist
<1> DEFINE t == Append(s, n)
           g == [i \in 0 .. Len(s) + 1 |-> IF i = Len(s) + 1 THEN f[Len(s)] + n ELSE f[i]]
<1>2. /\ t \in Seq(Nat) /\ Len(s) \in Nat /\ Len(t) = Len(s) + 1
      /\ \A i \in 1 .. Len(s) : t[i] = s[i]
      /\ t[Len(s) + 1] = n
  BY AppendProperties
<1> HIDE DEF t
<1>3. Sums(t, g)
  <2>1. g \in [0 .. Len(t) -> Nat] /\ g[0] = 0
    <3>1. \A i \in 0 .. Len(s) : f[i] \in Nat
      BY <1>1 DEF Sums
    <3>2. f[0] = 0
      BY <1>1 DEF Sums
    <3>3. f[Len(s)] \in Nat /\ f[Len(s)] + n \in Nat
      BY <1>2, <3>1
    <3> QED
      BY <1>2, <3>1, <3>2, <3>3
  <2>2. ASSUME NEW i \in 1 .. Len(t)
        PROVE  g[i] = g[i - 1] + t[i]
    BY <1>1, <1>2 DEF Sums
  <2> QED
    BY <2>1, <2>2 DEF Sums
<1>4. Total(t) = g[Len(t)] /\ Total(s) = f[Len(s)]
  BY <1>1, <1>2, <1>3, TotalIsSum
<1> QED
  BY <1>2, <1>4 DEF t

LEMMA TotalOfTail ==
  ASSUME NEW s \in Seq(Nat), s # <<>>
  PROVE  Total(s) = Head(s) + Total(Tail(s))
<1> DEFINE t == Tail(s)
<1>1. /\ t \in Seq(Nat) /\ Len(s) \in Nat \ {0} /\ Len(t) = Len(s) - 1
      /\ \A i \in 1 .. Len(t) : t[i] = s[i + 1]
      /\ Head(s) = s[1] /\ Head(s) \in Nat
  BY HeadTailProperties, EmptySeq
<1> HIDE DEF t
<1>2. PICK f : Sums(t, f)
  BY <1>1, SumsExist
<1> DEFINE g == [i \in 0 .. Len(s) |-> IF i = 0 THEN 0 ELSE Head(s) + f[i - 1]]
<1>3. Sums(s, g)
  <2>1. ASSUME NEW i \in 1 .. Len(s)
        PROVE  g[i] = g[i - 1] + s[i]
    <3>1. CASE i = 1
      BY <1>1, <1>2, <3>1 DEF Sums
    <3>2. CASE i # 1
      <4>1. i - 1 \in 1 .. Len(t)
        BY <1>1, <3>2
      <4>2. f[i - 1] = f[i - 2] + t[i - 1] /\ t[i - 1] = s[i]
        BY <1>1, <1>2, <4>1 DEF Sums
      <4>3. i - 2 \in 0 .. Len(t) /\ i - 1 \in 0 .. Len(t)
        BY <1>1, <4>1
      <4>4. f[i - 1] \in Nat /\ f[i - 2] \in Nat
        BY <1>2, <4>3 DEF Sums
      <4>5. g[i] = Head(s) + f[i - 1] /\ g[i - 1] = Head(s) + f[i - 2]
        BY <1>1, <3>2
      <4> HIDE DEF g
      <4> QED
        BY SMTT(30), <1>1, <4>2, <4>4, <4>5
    <3> QED
      BY <3>1, <3>2
  <2>2. g \in [0 .. Len(s) -> Nat]
    BY <1>1, <1>2 DEF Sums
  <2>3. g[0] = 0
    BY <1>1
  <2> HIDE DEF g
  <2> QED
    BY <2>1, <2>2, <2>3 DEF Sums
<1>4. Total(s) = g[Len(s)] /\ Total(t) = f[Len(t)]
  BY <1>1, <1>2, <1>3, TotalIsSum
<1> QED
  BY <1>1, <1>4 DEF t

\* The same for the sizes of packets, which a ring cannot hold beyond its size.
LEMMA PacketsAreNats == PacketBytes \subseteq Nat /\ Seq(PacketBytes) \subseteq Seq(Nat)
<1>1. PacketBytes \subseteq Nat
  BY SizeAssumption, PacketAssumption DEF HeaderBytes
<1> QED
  BY <1>1, SeqMonotonic

-----------------------------------------------------------------------------
(* Index arithmetic.                                                       *)

LEMMA UsedIsNat ==
  ASSUME NEW t \in Index, NEW h \in Index
  PROVE  Used(t, h) \in Nat
BY SizeAssumption DEF Index, Used, HeaderBytes

\* Moving the writer's index on adds to what is used, if there is room.
LEMMA UsedAfterWrite ==
  ASSUME NEW t \in Index, NEW h \in Index, NEW n \in Nat,
         Used(t, h) + n <= Size - 1
  PROVE  Used(Advance(t, n), h) = Used(t, h) + n
BY SizeAssumption DEF Index, Used, Advance, HeaderBytes

\* Moving the reader's index on takes away from it, if so much is used.
LEMMA UsedAfterRead ==
  ASSUME NEW t \in Index, NEW h \in Index, NEW n \in Nat, n <= Used(t, h)
  PROVE  Used(t, Advance(h, n)) = Used(t, h) - n
BY SizeAssumption DEF Index, Used, Advance, HeaderBytes

-----------------------------------------------------------------------------
(* The rings' contents: the inductive invariant.                           *)

\* An index of the other side's that was read some time ago shows at least as
\* much in the ring as there is, for a reader's index only comes nearer; and what
\* there is, is the ring's packets.
R2AInv ==
  /\ Used(channel_status["r2a_tail"], r2a_head)
       <= Used(channel_status["r2a_tail"], channel_status["r2a_head"])
  /\ Total(r2a_buffer) = Used(channel_status["r2a_tail"], r2a_head)
A2RInv ==
  /\ Used(a2r_tail, channel_status["a2r_head"]) <= Used(a2r_tail, a2r_head)
  /\ Total(a2r_buffer) = Used(a2r_tail, channel_status["a2r_head"])

RingsInv == TypeOK /\ CopyInv /\ R2AInv /\ A2RInv

LEMMA RingsInit == Init => R2AInv /\ A2RInv
<1> SUFFICES ASSUME Init PROVE R2AInv /\ A2RInv
  OBVIOUS
<1>1. /\ channel_status["r2a_tail"] = 0 /\ channel_status["r2a_head"] = 0
      /\ channel_status["a2r_head"] = 0
      /\ r2a_head = 0 /\ r2a_tail = 0 /\ a2r_tail = 0 /\ a2r_head = 0
      /\ a2r_buffer = <<>> /\ r2a_buffer = <<>>
  BY DEF Init, Field
<1>2. Used(0, 0) = 0
  BY DEF Used
<1> QED
  BY <1>1, <1>2, TotalOfNone DEF R2AInv, A2RInv

\* A packet leaves a ring: what is used shrinks by its size, and it was not more
\* than was used.
LEMMA PacketRead ==
  ASSUME NEW q \in Seq(PacketBytes), q # <<>>, NEW t \in Index, NEW h \in Index,
         Total(q) = Used(t, h)
  PROVE  /\ Total(Tail(q)) = Used(t, Advance(h, Head(q)))
         /\ Used(t, Advance(h, Head(q))) <= Used(t, h)
<1>1. q \in Seq(Nat) /\ Head(q) \in Nat /\ Tail(q) \in Seq(Nat)
  BY PacketsAreNats, HeadTailProperties
<1>2. Total(q) = Head(q) + Total(Tail(q)) /\ Total(Tail(q)) \in Nat
  BY <1>1, TotalOfTail, TotalType
<1>3. Used(t, h) \in Nat
  BY UsedProperties
<1>4. Head(q) <= Used(t, h)
  BY <1>1, <1>2
<1>5. Used(t, Advance(h, Head(q))) = Used(t, h) - Head(q)
  BY <1>1, <1>4, UsedAfterRead
<1> QED
  BY <1>1, <1>2, <1>3, <1>5

\* A packet enters a ring in which a reader's index that may be old leaves room.
LEMMA PacketWritten ==
  ASSUME NEW q \in Seq(PacketBytes), NEW n \in PacketBytes,
         NEW t \in Index, NEW h \in Index, NEW old \in Index,
         Total(q) = Used(t, h), Used(t, h) <= Used(t, old),
         Used(t, old) + n <= Size - 1
  PROVE  /\ Total(Append(q, n)) = Used(Advance(t, n), h)
         /\ Used(Advance(t, n), h) <= Used(Advance(t, n), old)
<1>1. q \in Seq(Nat) /\ n \in Nat
  BY PacketsAreNats
<1>2. Total(Append(q, n)) = Total(q) + n
  BY <1>1, TotalOfAppend
<1>3. Used(t, h) \in 0 .. Size - 1 /\ Used(t, old) \in 0 .. Size - 1
  BY UsedProperties
<1>4. Used(Advance(t, n), old) = Used(t, old) + n
  BY <1>1, <1>3, UsedAfterWrite
<1>5. Used(Advance(t, n), h) = Used(t, h) + n
  BY <1>1, <1>3, SizeAssumption, UsedAfterWrite
<1> QED
  BY <1>1, <1>2, <1>3, <1>4, <1>5

\* The parts of the state these invariants speak of have their types.
LEMMA RingTypes ==
  ASSUME TypeOK
  PROVE  /\ a2r_tail \in Index /\ r2a_head \in Index /\ r2a_tail \in Index
         /\ a2r_head \in Index
         /\ \A f \in Field : channel_status[f] \in Index
         /\ channel_status \in [Field -> Index]
         /\ {"a2r_tail", "r2a_head", "r2a_tail", "a2r_head"} \subseteq Field
         /\ a2r_buffer \in Seq(PacketBytes) /\ r2a_buffer \in Seq(PacketBytes)
         /\ send_queue \in Seq(PacketBytes) /\ packet_queue \in Seq(PacketBytes)
BY DEF TypeOK, Field

-----------------------------------------------------------------------------
(* The ring to the Amiga: the daemon writes, the driver's task reads.      *)

LEMMA R2AUntouched ==
  R2AInv /\ UNCHANGED <<r2a_head, r2a_buffer, channel_status>> => R2AInv'
BY DEF R2AInv

LEMMA R2ATaskStep ==
  ASSUME TypeOK, R2AInv, Start \/ TaskMain \/ IntServer \/ BeginIO
  PROVE  R2AInv'
<1> USE DEF comArea, rings, taskVars, taskData, daemonVars, statusVars
<1>1. CASE Start
  BY <1>1, R2AUntouched DEF Start, StartDisable, StartDiscard, StartRing,
                            StartServer, StartEnable
<1>2. CASE Wake \/ Disable \/ HandleRequest \/ NoMoreRequests
  BY <1>2, R2AUntouched DEF Wake, Disable, HandleRequest, NoMoreRequests
<1>3. CASE ReceivePacket
  <2>1. /\ r2a_buffer # <<>>
        /\ r2a_head' = Advance(r2a_head, Head(r2a_buffer))
        /\ r2a_buffer' = Tail(r2a_buffer)
        /\ channel_status' = channel_status
    BY <1>3 DEF ReceivePacket
  <2> DEFINE t == channel_status["r2a_tail"]
  <2>2. /\ t \in Index /\ r2a_head \in Index /\ r2a_buffer \in Seq(PacketBytes)
        /\ channel_status["r2a_head"] \in Index
    BY RingTypes
  <2>3. /\ Total(r2a_buffer) = Used(t, r2a_head)
        /\ Used(t, r2a_head) <= Used(t, channel_status["r2a_head"])
    BY DEF R2AInv
  <2>4. /\ Total(r2a_buffer') = Used(t, r2a_head')
        /\ Used(t, r2a_head') <= Used(t, r2a_head)
    BY <2>1, <2>2, <2>3, PacketRead
  <2>5. /\ Used(t, r2a_head) \in Nat /\ Used(t, channel_status["r2a_head"]) \in Nat
        /\ Used(t, r2a_head') \in Nat
    <3>1. Head(r2a_buffer) \in PacketBytes
      BY <2>1, <2>2, HeadTailProperties
    <3>2. r2a_head' \in Index
      BY <2>1, <2>2, <3>1, AdvanceType
    <3> QED
      BY <2>2, <3>2, UsedIsNat
  <2> QED
    BY <2>1, <2>3, <2>4, <2>5 DEF R2AInv
<1>4. CASE NothingToReceive \/ SendQueued \/ NothingToSend
  BY <1>4, R2AUntouched DEF NothingToReceive, SendQueued, NothingToSend
<1>5. CASE Discard \/ CheckR2A \/ ChooseEnable \/ Enable \/ Ring
  BY <1>5, R2AUntouched DEF Discard, CheckR2A, ChooseEnable, Enable, Ring
<1>6. CASE IntServer \/ BeginIO
  BY <1>6, R2AUntouched DEF IntServer, BeginIO
<1> QED
  BY <1>1, <1>2, <1>3, <1>4, <1>5, <1>6 DEF TaskMain

LEMMA R2ADaemonStep ==
  ASSUME TypeOK, CopyInv, R2AInv, ReadIrq \/ Serve \/ ClientEvent \/ NextMessage
  PROVE  R2AInv'
<1> USE DEF comArea, rings, statusVars
<1>1. CASE ReadIrq \/ NothingChanged \/ ClientEvent \/ NextMessage
  BY <1>1, R2AUntouched DEF ReadIrq, NothingChanged, ClientEvent, NextMessage
<1>2. CASE WriteTail \/ WriteHead \/ WriteEvents
  BY <1>2, R2AUntouched DEF WriteTail, WriteHead, WriteEvents
<1>3. CASE ReadTail \/ HandlePacket
  <2>1. UNCHANGED <<r2a_head, r2a_buffer>>
    BY <1>3 DEF ReadTail, HandlePacket
  <2>2. /\ channel_status'["r2a_tail"] = channel_status["r2a_tail"]
        /\ channel_status'["r2a_head"] = channel_status["r2a_head"]
    BY <1>3, RingTypes DEF ReadTail, HandlePacket
  <2> QED
    BY <2>1, <2>2 DEF R2AInv
<1>4. CASE ReadHead
  <2>1. UNCHANGED <<r2a_head, r2a_buffer>>
    BY <1>4 DEF ReadHead
  <2>2. /\ channel_status'["r2a_tail"] = r2a_tail
        /\ channel_status'["r2a_head"] = r2a_head
    BY <1>4, RingTypes DEF ReadHead
  <2>3. r2a_tail = channel_status["r2a_tail"]
    BY <1>4 DEF ReadHead, CopyInv
  <2>4. Used(r2a_tail, r2a_head) \in Nat
    BY RingTypes, UsedProperties
  <2> QED
    BY <2>1, <2>2, <2>3, <2>4 DEF R2AInv
<1>5. CASE FlushPacket
  <2> DEFINE n == Head(packet_queue)
             t == channel_status["r2a_tail"]
             old == channel_status["r2a_head"]
  <2>1. /\ packet_queue # <<>> /\ n <= Left
        /\ channel_status' = [channel_status EXCEPT !["r2a_tail"] = Advance(@, n)]
        /\ r2a_buffer' = Append(r2a_buffer, n)
        /\ r2a_head' = r2a_head
    BY <1>5 DEF FlushPacket, NextFits
  <2>2. /\ n \in PacketBytes /\ t \in Index /\ old \in Index /\ r2a_head \in Index
        /\ r2a_buffer \in Seq(PacketBytes)
    BY <2>1, RingTypes, HeadTailProperties
  <2>3. /\ channel_status'["r2a_tail"] = Advance(t, n)
        /\ channel_status'["r2a_head"] = old
    BY <2>1, RingTypes
  <2>4. Used(t, old) + n <= Size - 1
    <3>1. Used(t, old) \in Nat /\ n \in Nat /\ Size \in Nat
      BY <2>2, PacketsAreNats, SizeAssumption, UsedIsNat
    <3> QED
      BY <2>1, <3>1 DEF Left
  <2>5. Total(r2a_buffer) = Used(t, r2a_head) /\ Used(t, r2a_head) <= Used(t, old)
    BY DEF R2AInv
  <2> HIDE DEF n, t, old
  <2>6. /\ Total(Append(r2a_buffer, n)) = Used(Advance(t, n), r2a_head)
        /\ Used(Advance(t, n), r2a_head) <= Used(Advance(t, n), old)
    BY <2>2, <2>4, <2>5, PacketWritten
  <2> QED
    BY <2>1, <2>3, <2>6 DEF R2AInv
<1> QED
  BY <1>1, <1>2, <1>3, <1>4, <1>5 DEF Serve

-----------------------------------------------------------------------------
(* The ring from the Amiga: the driver's task writes, the daemon reads.    *)

LEMMA A2RUntouched ==
  ASSUME A2RInv, UNCHANGED <<a2r_tail, a2r_head, a2r_buffer>>,
         channel_status'["a2r_head"] = channel_status["a2r_head"]
  PROVE  A2RInv'
BY DEF A2RInv

\* append_a2r_packet, where it is called: there is room for the packet as the
\* head the daemon has published shows it.
LEMMA A2RAppend ==
  ASSUME TypeOK, A2RInv, NEW n \in PacketBytes, room_in_a2r(n),
         append_a2r_packet(n), UNCHANGED <<a2r_head, channel_status>>
  PROVE  A2RInv'
<1> DEFINE h == channel_status["a2r_head"]
<1>1. /\ a2r_tail \in Index /\ a2r_head \in Index /\ h \in Index
      /\ a2r_buffer \in Seq(PacketBytes)
  BY RingTypes
<1>2. /\ Total(a2r_buffer) = Used(a2r_tail, h)
      /\ Used(a2r_tail, h) <= Used(a2r_tail, a2r_head)
  BY DEF A2RInv
<1>3. Used(a2r_tail, a2r_head) + n <= Size - 1
  BY DEF room_in_a2r, used_in_a2r
<1>4. /\ Total(Append(a2r_buffer, n)) = Used(Advance(a2r_tail, n), h)
      /\ Used(Advance(a2r_tail, n), h) <= Used(Advance(a2r_tail, n), a2r_head)
  BY <1>1, <1>2, <1>3, PacketWritten
<1> QED
  BY <1>4 DEF append_a2r_packet, A2RInv

LEMMA A2RSubmit ==
  ASSUME TypeOK, A2RInv, NEW q, NEW n \in PacketBytes, Submit(q, n),
         UNCHANGED <<a2r_head, channel_status>>
  PROVE  A2RInv'
<1>1. CASE room_in_a2r(n) /\ append_a2r_packet(n)
  BY <1>1, A2RAppend
<1>2. CASE UNCHANGED a2rVars
  BY <1>2, A2RUntouched DEF a2rVars
<1> QED
  BY <1>1, <1>2 DEF Submit

LEMMA A2RTaskStep ==
  ASSUME TypeOK, A2RInv, Start \/ TaskMain \/ IntServer \/ BeginIO
  PROVE  A2RInv'
<1>0. HeaderBytes \in PacketBytes
  BY PacketAssumption
<1> USE DEF comArea, rings, taskVars, taskData, daemonVars, statusVars
<1>1. CASE Start
  BY <1>1, A2RUntouched DEF Start, StartDisable, StartDiscard, StartRing,
                            StartServer, StartEnable
<1>2. CASE Wake \/ Disable \/ NoMoreRequests
  BY <1>2, A2RUntouched DEF Wake, Disable, NoMoreRequests
<1>3. CASE HandleRequest
  <2>1. UNCHANGED <<a2r_head, channel_status>>
    BY <1>3 DEF HandleRequest
  <2>2. CASE UNCHANGED a2rVars
    BY <2>1, <2>2, A2RUntouched DEF a2rVars
  <2>3. CASE \E q, n : n \in PacketBytes /\ Submit(q, n)
    BY <2>1, <2>3, A2RSubmit
  <2> QED
    BY <1>0, <1>3, <2>2, <2>3 DEF HandleRequest
<1>4. CASE ReceivePacket
  <2>1. UNCHANGED <<a2r_head, channel_status>>
    BY <1>4 DEF ReceivePacket
  <2>2. CASE UNCHANGED a2rVars
    BY <2>1, <2>2, A2RUntouched DEF a2rVars
  <2>3. CASE \E q : Submit(q, HeaderBytes)
    BY <1>0, <2>1, <2>3, A2RSubmit
  <2> QED
    BY <1>4, <2>2, <2>3 DEF ReceivePacket
<1>5. CASE SendQueued
  <2>1. /\ send_queue # <<>> /\ room_in_a2r(Head(send_queue))
        /\ append_a2r_packet(Head(send_queue))
        /\ UNCHANGED <<a2r_head, channel_status>>
    BY <1>5 DEF SendQueued, HeadHasRoom
  <2>2. Head(send_queue) \in PacketBytes
    BY <2>1, RingTypes, HeadTailProperties
  <2> QED
    BY <2>1, <2>2, A2RAppend
<1>6. CASE NothingToReceive \/ NothingToSend
  BY <1>6, A2RUntouched DEF NothingToReceive, NothingToSend
<1>7. CASE Discard \/ CheckR2A \/ ChooseEnable \/ Enable \/ Ring
  BY <1>7, A2RUntouched DEF Discard, CheckR2A, ChooseEnable, Enable, Ring
<1>8. CASE IntServer \/ BeginIO
  BY <1>8, A2RUntouched DEF IntServer, BeginIO
<1> QED
  BY <1>1, <1>2, <1>3, <1>4, <1>5, <1>6, <1>7, <1>8 DEF TaskMain

LEMMA A2RDaemonStep ==
  ASSUME TypeOK, CopyInv, A2RInv, ReadIrq \/ Serve \/ ClientEvent \/ NextMessage
  PROVE  A2RInv'
<1> USE DEF comArea, rings, statusVars
<1>1. CASE ReadIrq \/ NothingChanged \/ ClientEvent \/ NextMessage
  BY <1>1, A2RUntouched DEF ReadIrq, NothingChanged, ClientEvent, NextMessage
<1>2. CASE WriteTail \/ WriteEvents
  BY <1>2, A2RUntouched DEF WriteTail, WriteEvents
<1>3. CASE ReadTail \/ FlushPacket
  <2>1. channel_status'["a2r_head"] = channel_status["a2r_head"]
    BY <1>3, RingTypes DEF ReadTail, FlushPacket
  <2> QED
    BY <1>3, <2>1, A2RUntouched DEF ReadTail, FlushPacket
<1>4. CASE ReadHead
  <2>1. channel_status'["a2r_head"] = a2r_head
    BY <1>4, RingTypes DEF ReadHead
  <2>2. channel_status["a2r_head"] = a2r_head
    BY <1>4 DEF ReadHead, CopyInv
  <2> QED
    BY <1>4, <2>1, <2>2, A2RUntouched DEF ReadHead
<1>5. CASE WriteHead
  <2>1. a2r_head' = channel_status["a2r_head"]
        /\ UNCHANGED <<a2r_tail, a2r_buffer, channel_status>>
    BY <1>5 DEF WriteHead
  <2>2. Used(a2r_tail, channel_status["a2r_head"]) \in Nat
    BY RingTypes, UsedProperties
  <2> QED
    BY <2>1, <2>2 DEF A2RInv
<1>6. CASE HandlePacket
  <2> DEFINE h == channel_status["a2r_head"]
             n == Head(a2r_buffer)
  <2>1. /\ a2r_buffer # <<>> /\ a2r_buffer' = Tail(a2r_buffer)
        /\ channel_status' = [channel_status EXCEPT !["a2r_head"] = Advance(@, n)]
        /\ UNCHANGED <<a2r_tail, a2r_head>>
    BY <1>6 DEF HandlePacket
  <2>2. /\ h \in Index /\ a2r_tail \in Index /\ a2r_head \in Index
        /\ a2r_buffer \in Seq(PacketBytes)
    BY RingTypes
  <2>3. channel_status'["a2r_head"] = Advance(h, n)
    BY <2>1, RingTypes
  <2>4. Total(a2r_buffer) = Used(a2r_tail, h) /\ Used(a2r_tail, h) <= Used(a2r_tail, a2r_head)
    BY DEF A2RInv
  <2>5. /\ Total(Tail(a2r_buffer)) = Used(a2r_tail, Advance(h, n))
        /\ Used(a2r_tail, Advance(h, n)) <= Used(a2r_tail, h)
    BY <2>1, <2>2, <2>4, PacketRead
  <2>6. /\ Used(a2r_tail, h) \in Nat /\ Used(a2r_tail, a2r_head) \in Nat
        /\ Used(a2r_tail, Advance(h, n)) \in Nat
    <3>1. n \in PacketBytes
      BY <2>1, <2>2, HeadTailProperties
    <3>2. Advance(h, n) \in Index
      BY <2>2, <3>1, AdvanceType
    <3> QED
      BY <2>2, <3>2, UsedIsNat
  <2> QED
    BY <2>1, <2>3, <2>4, <2>5, <2>6 DEF A2RInv
<1> QED
  BY <1>1, <1>2, <1>3, <1>4, <1>5, <1>6 DEF Serve

-----------------------------------------------------------------------------
LEMMA RingsStep == RingsInv /\ [Next]_vars => RingsInv'
<1> SUFFICES ASSUME RingsInv, [Next]_vars PROVE RingsInv'
  OBVIOUS
<1>1. TypeOK' /\ CopyInv'
  BY TypeStep, CopyStep DEF RingsInv
<1>2. CASE Start \/ TaskMain \/ IntServer \/ BeginIO
  BY <1>1, <1>2, R2ATaskStep, A2RTaskStep DEF RingsInv
<1>3. CASE ReadIrq \/ Serve \/ ClientEvent \/ NextMessage
  BY <1>1, <1>3, R2ADaemonStep, A2RDaemonStep DEF RingsInv
<1>4. CASE UNCHANGED vars
  BY <1>1, <1>4, R2AUntouched, A2RUntouched
     DEF RingsInv, vars, comArea, rings, daemonVars, statusVars
<1> QED
  BY Sides, <1>2, <1>3, <1>4

\* The two ends agree on where packets begin and end, and neither overruns the
\* other: the room each side sees with an old index of the other's is never more
\* than there is.
THEOREM RingsStayIntact == Spec => []RingsIntact
<1>1. Init => RingsInv
  BY InitType, RingsInit DEF RingsInv, Init, CopyInv, Field
<1>2. RingsInv => RingsIntact
  BY DEF RingsInv, R2AInv, A2RInv, RingsIntact
<1> QED
  BY <1>1, <1>2, RingsStep, PTL DEF Spec
=============================================================================
