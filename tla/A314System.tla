----------------------------- MODULE A314System -----------------------------
(***************************************************************************)
(* The whole of a314 above the rings: applications and the driver on the   *)
(* Amiga, the daemon and its clients on the Raspberry, joined by A2R, R2A  *)
(* and the events.  The two sides only share what A314Link declares.       *)
(* When the emulator exits, both sides stop.                               *)
(***************************************************************************)
EXTENDS A314Driver, A314Daemon

vars == <<workload, linkVars, driverVars, daemonVars>>

Init == LinkInit /\ DriverInit /\ DaemonInit

Next ==
  /\ exited = "no"
  /\ UNCHANGED workload
  /\ \/ DriverNext /\ UNCHANGED daemonVars
     \/ (DaemonStep \/ ClientStep) /\ UNCHANGED driverVars

Spec == Init /\ [][Next]_vars

\* The task and the daemon's thread run; clients read what they are sent.
\* Nobody has to issue a request or to send a message.  This is weak fairness
\* with ENABLED written out: each step is taken again and again, or
\* again and again cannot be.
TaskMayStep ==
  CASE task_pc = "off"  -> irq_fds = <<>>
    [] task_pc = "gone" -> FALSE
    [] task_pc = "wait" -> task_mp # <<>> \/ a_events \cap AEnable # {}
    [] OTHER            -> ~Stuck

Idle(enabled) == exited # "no" \/ ~enabled

FairSpec ==
  /\ Spec
  /\ []<>Idle(TaskMayStep)    \/ []<><<TaskStart \/ TaskStep>>_vars
  /\ []<>Idle(irq_fds # <<>>) \/ []<><<HandleA314Irq>>_vars
  /\ \A c \in Clients :
       /\ []<>Idle(InputFrom(c))   \/ []<><<HandleClientInput(c)>>_vars
       /\ []<>Idle(OutputTo(c))    \/ []<><<HandleClientOutput(c)>>_vars
       /\ []<>Idle(ReceivesNow(c)) \/ []<><<ClientReceives(c)>>_vars

\* No stream id has been given out twice.  A packet of an earlier stream that is
\* still in R2A would be taken for one of the new stream of that id: only the
\* 127 ids that come first stand against it.
FreshIds ==
  workload.amiga["CONNECT"] - budget["CONNECT"] <= StreamIds

-----------------------------------------------------------------------------
(* The driver.                                                             *)

Slots == {"pending_connect", "pending_read", "pending_write"}

\* Sockets and requests are where the program can have them.
TypeOK ==
  /\ task_pc \in {"off", "wait", "requests", "packets", "room", "gone"}
  /\ DOMAIN sockets \subseteq Keys /\ DOMAIN channels \subseteq 1 .. StreamIds
  /\ next_stream_id \in 1 .. StreamIds
  /\ \A k \in DOMAIN sockets :
       /\ \A f \in Slots : sockets[k][f] \in Requests \cup {NoRequest}
       /\ sockets[k].stream_id \in 1 .. StreamIds
       /\ sockets[k].conv \in Conversations
  /\ ToSet(task_mp) \subseteq Requests
  /\ \A r \in Requests : ior[r].at \in {"application", "driver"}
  /\ Bytes(a2r) <= RingSize - 1 /\ Bytes(r2a) + r2a_freed <= RingSize - 1
  /\ a_events \subseteq {"R2A_TAIL", "A2R_HEAD"}
  /\ ToSet(irq_fds) \subseteq {"STARTED", "MOVED"}
  /\ \A c \in Clients : connections[c] \in {"unused", "open", "gone", "closed"}
  /\ exited \in {"no", "write", "connect", "bound"}

\* The places that hold a request.
Holders(r) ==
  {<<"port", i>> : i \in {i \in DOMAIN task_mp : task_mp[i] = r}}
    \cup {h \in Keys \X Slots : h[1] \in DOMAIN sockets /\ sockets[h[1]][h[2]] = r}

\* An IORequest that an application has sent is in exactly one place until it
\* is replied, and in none afterwards: every request is answered once.
RequestsHeldOnce ==
  \A r \in Requests :
    Cardinality(Holders(r)) = IF ior[r].at = "driver" THEN 1 ELSE 0

\* What the socket of k waits to send, and how long it is.
WaitsToSend(k) ==
  LET s == sockets[k] IN
  IF s.pending_connect # NoRequest THEN ior[s.pending_connect].len
  ELSE IF s.pending_write # NoRequest THEN ior[s.pending_write].len
  ELSE IF "SHOULD_SEND_RESET" \in s.flags THEN 0 ELSE -1

\* The send queue and the sockets agree: a socket is queued at most once, as its
\* flag says, for the packet it will send; whoever waits for a WRITE, an EOS or
\* its own RESET is queued, so that nothing that waits is forgotten.
SendQueueConsistent ==
  FreshIds =>
  /\ \A i, j \in DOMAIN send_queue : send_queue[i] = send_queue[j] => i = j
  /\ ToSet(send_queue) =
       {k \in DOMAIN sockets : "IN_SEND_QUEUE" \in sockets[k].flags}
  /\ \A k \in ToSet(send_queue) : sockets[k].required_length = WaitsToSend(k)
  /\ \A k \in DOMAIN sockets :
       \/ sockets[k].pending_write # NoRequest
       \/ "SHOULD_SEND_RESET" \in sockets[k].flags
       => k \in ToSet(send_queue)

\* No operation is pending on a closed socket, and it only waits to send its RESET.
ClosedSocketsIdle ==
  \A k \in DOMAIN sockets :
    "CLOSED" \in sockets[k].flags =>
      /\ \A f \in Slots : sockets[k][f] = NoRequest
      /\ sockets[k].rq = <<>> /\ "SHOULD_SEND_RESET" \in sockets[k].flags

\* Two sockets never have the same stream id, also when the ids have wrapped.
StreamIdsDistinct ==
  \A j, k \in DOMAIN sockets : sockets[j].stream_id = sockets[k].stream_id => j = k

\* What the driver's queues and flags have to agree on, together, however a stream
\* ends: in order, by a RESET, by a misused request, by either side.  No line that
\* logs SERIOUS ERROR is reached: a CONNECT_RESPONSE finds a pending CONNECT, and
\* a queued socket has something to send.
SocketsSound ==
  /\ RequestsHeldOnce
  /\ SendQueueConsistent
  /\ ClosedSocketsIdle
  /\ StreamIdsDistinct
  /\ FreshIds => ~serious_error

-----------------------------------------------------------------------------
(* The daemon.                                                             *)

\* send_queue lists every channel with packets once, and no other: a channel
\* listed without packets, or erased while it is listed, is a bad access.
DaemonQueueExact ==
  /\ \A i, j \in DOMAIN d_send_queue : d_send_queue[i] = d_send_queue[j] => i = j
  /\ ToSet(d_send_queue) =
       {id \in DOMAIN channels : channels[id].packet_queue # <<>>}

\* Channels and services only point at connections the daemon still has, and no
\* two channels of a connection are the same stream.
NoDanglingConnection ==
  /\ \A n \in DOMAIN services : connections[services[n]] \in {"open", "gone"}
  /\ \A id \in DOMAIN channels :
       channels[id].association # NoClient =>
         /\ connections[channels[id].association] \in {"open", "gone"}
         /\ ChannelsOf(Daemon("EPIPE"), channels[id].association,
                       channels[id].stream_id) = {id}

\* What the daemon's tables of pointers have to agree on when clients come, go and
\* die and channels end in any order.
DaemonSound == DaemonQueueExact /\ NoDanglingConnection

\* No CONNECT arrives on a channel that the daemon still has: handle_pkt_connect
\* believes so, and ends the emulator.  The driver uses an id again once its socket
\* is deleted, which does not wait for what the daemon has queued for it.
ConnectOnFreeChannel == exited # "connect"

-----------------------------------------------------------------------------
(* From end to end.                                                        *)

\* The rings, sockets, channels and queues implement streams: each step of the
\* two sides is a step of A314Streams or changes nothing its users see.
Streams == INSTANCE A314Streams WITH streams <- hist, Values <- 0 .. 9

ImplementsStreams == Streams!Spec

\* What the client is given is what the application wrote to that stream, in
\* order, from the start; and the other way round.
InOrderAndOwn ==
  FreshIds =>
  \A v \in Conversations :
    /\ IsPrefix(hist[v].got, hist[v].written)
    /\ IsPrefix(hist[v].read, hist[v].sent)

InFlight(q, v, types) ==
  \E i \in DOMAIN q : q[i].conv = v /\ q[i].type \in types

ChannelWith(v) == {id \in DOMAIN channels : channels[id].conv = v}

\* The two sides agree on which streams exist.  A socket that has sent its
\* CONNECT has a channel, or its CONNECT or the packet that ends it is under
\* way, or both ends have sent EOS; a channel with a client has an open socket,
\* or the EOS or RESET that ends it is under way; when the Amiga is gone the
\* daemon keeps its channels, and nobody tells it.
NoOrphanSocket ==
  exited = "no" /\ FreshIds =>
  \A k \in DOMAIN sockets :
    LET s == sockets[k] IN
    \/ "CLOSED" \in s.flags
    \/ s.pending_connect # NoRequest /\ k \in ToSet(send_queue)
    \/ InFlight(a2r, s.conv, {"CONNECT"})
    \/ ChannelWith(s.conv) # {}
    \/ InFlight(r2a, s.conv, {"CONNECT_RESPONSE", "RESET"})
    \/ /\ "SENT_EOS_TO_RPI" \in s.flags
       /\ "RCVD_EOS_FROM_RPI" \in s.flags \/ InFlight(r2a, s.conv, {"EOS"})

NoOrphanChannel ==
  exited = "no" /\ task_pc # "gone" /\ FreshIds =>
  \A id \in DOMAIN channels :
    LET v == channels[id].conv IN
    \/ channels[id].association = NoClient
    \/ \E k \in DOMAIN sockets : sockets[k].conv = v
    \/ InFlight(a2r, v, {"RESET", "EOS"})

\* Between events a channel has a client or packets to send, else it is erased.
NoDeadChannel ==
  \A id \in DOMAIN channels :
    channels[id].association # NoClient \/ channels[id].packet_queue # <<>>

\* Both sides agree on which streams exist, and forget those that are over.
AgreeOnStreams == NoOrphanSocket /\ NoOrphanChannel /\ NoDeadChannel

-----------------------------------------------------------------------------
(* Liveness.                                                               *)

\* A WRITE, an EOS and a RESET that reached the driver are answered.
SendsAnswered ==
  \A r \in Requests :
    (ior[r].at = "driver" /\ ior[r].command \in {"WRITE", "EOS", "RESET"})
      ~> ior[r].at = "application"

\* What was written reaches the client, unless the stream is reset.
WritesDelivered ==
  \A v \in Conversations, n \in UNION {1 .. w.amiga["WRITE"] : w \in Workloads} :
    (Len(hist[v].written) >= n) ~>
      (Len(hist[v].got) >= n \/ hist[v].app_reset \/ hist[v].client_reset)

\* The daemon forgets a stream whose socket is gone, however it ended.
ChannelsFreed ==
  \A v \in Conversations :
    (ChannelWith(v) # {} /\ \A k \in DOMAIN sockets : sockets[k].conv # v)
      ~> ChannelWith(v) = {}
=============================================================================
