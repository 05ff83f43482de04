----------------------------- MODULE A314Daemon -----------------------------
(***************************************************************************)
(* The a314 daemon (a314.cc): a thread of the emulator that connects the   *)
(* streams of the Amiga to client programs.  A client connects to it over  *)
(* a socket, registers a service, and is told of every stream an Amiga     *)
(* application opens to the service; services configured as on-demand are  *)
(* started when they are first asked for.                                  *)
(*                                                                         *)
(* A handler is an operator from the daemon's state, as a record, to its   *)
(* next state.  One action handles one event of main_loop, as the code     *)
(* does before it returns to epoll; the memory it shares with the Amiga is *)
(* read when the event is taken and written at its end.  The clients, and  *)
(* the kernel's socket buffers, are outside src/.                          *)
(***************************************************************************)
EXTENDS A314Link

CONSTANTS
  Clients,       \* client connections, each used once
  NoClient,
  DataLens       \* lengths of what clients send

ASSUME DaemonAssumption ==
  /\ NoClient \notin Clients /\ DataLens \subseteq Nat

VARIABLES
  device_started,  \* a314_device_started
  channels,        \* the logical channels, by channel id
  d_send_queue,    \* send_queue: ids of the channels with packets to send
  services,        \* registered services: name to connection
  connections,     \* state of each connection: unused, open, gone (closed by
                   \* the client, unseen by the daemon) or closed
  stream_ids,      \* next_stream_id of each connection
  message_queue,   \* messages the daemon keeps because the kernel is full
  to_client,       \* messages in the kernel, to each client
  from_client,     \* messages in the kernel, from each client
  streams,         \* what each client knows: stream id to conversation
  answered,        \* the streams each client has answered
  client_budget,   \* what clients may still do
  exited           \* why the emulator has exited: "no" while it has not; "bound"
                   \* when a client would be started and Clients is used up

clientVars == <<to_client, from_client, streams, answered, client_budget>>
daemonVars == <<device_started, channels, d_send_queue, services, connections,
                stream_ids, message_queue, exited, clientVars>>

\* errno is what a write to a socket closed by its client fails with.
Daemon(errno) ==
  [channels |-> channels, send_queue |-> d_send_queue, services |-> services,
   connections |-> connections, stream_ids |-> stream_ids,
   message_queue |-> message_queue, to_client |-> to_client,
   streams |-> streams, exited |-> exited, r2a |-> r2a, r2a_freed |-> r2a_freed,
   hist |-> hist, errno |-> errno]

BecomeDaemon(p) ==
  /\ channels' = p.channels /\ d_send_queue' = p.send_queue
  /\ services' = p.services /\ connections' = p.connections
  /\ stream_ids' = p.stream_ids /\ message_queue' = p.message_queue
  /\ to_client' = p.to_client /\ exited' = p.exited /\ r2a' = p.r2a
  /\ r2a_freed' = p.r2a_freed /\ hist' = p.hist

Message(type, sid, val, conv) ==
  [type |-> type, sid |-> sid, val |-> val, conv |-> conv]

-----------------------------------------------------------------------------
(* Helpers of a314.cc.                                                     *)

\* Mutated CreateAndSendMsg: does not look whether earlier messages wait.
SendAhead(p, c, m) ==
  IF p.connections[c] = "gone" THEN p
  ELSE IF Len(p.to_client[c]) = workload.sock_cap
  THEN [p EXCEPT !.message_queue[c] = Append(@, m)]
  ELSE [p EXCEPT !.to_client[c] = Append(@, m)]

\* A message goes to the kernel at once, behind what already waits, or, to a
\* client that has closed its end, nowhere: a reset connection is left to the
\* event that reports it, any other error ends the emulator.
CreateAndSendMsg(p, c, m) ==
  IF p.message_queue[c] # <<>>
  THEN [p EXCEPT !.message_queue[c] = Append(@, m)]
  ELSE IF p.connections[c] = "gone"
  THEN IF p.errno = "ECONNRESET" THEN p ELSE [p EXCEPT !.exited = "write"]
  ELSE IF Len(p.to_client[c]) = workload.sock_cap
  THEN [p EXCEPT !.message_queue[c] = Append(@, m)]
  ELSE [p EXCEPT !.to_client[c] = Append(@, m)]

\* associations of a connection, and the channel of one of its streams.
Associations(p, c) ==
  {id \in DOMAIN p.channels : p.channels[id].association = c}
ChannelsOf(p, c, sid) ==
  {id \in Associations(p, c) : p.channels[id].stream_id = sid}

\* A connection's channels are listed in the order of its streams; those of two
\* connections do not affect each other.
InOrder(p, ids) ==
  CHOOSE s \in [1 .. Cardinality(ids) -> ids] :
    /\ \A id \in ids : \E i \in DOMAIN s : s[i] = id
    /\ \A i, j \in DOMAIN s :
         i < j => p.channels[s[i]].stream_id <= p.channels[s[j]].stream_id

RemoveAssociation(p, id) ==
  [p EXCEPT !.channels[id].association = NoClient,
            !.channels[id].stream_id = 0]

ClearPacketQueue(p, id) ==
  IF p.channels[id].packet_queue # <<>>
  THEN [p EXCEPT !.channels[id].packet_queue = <<>>,
                 !.send_queue = RemoveFirst(@, id)]
  ELSE p

\* The length of a packet is a byte.
CreateAndEnqueuePacket(p, id, type, len, val) ==
  LET ch == p.channels[id]
  IN [p EXCEPT
        !.send_queue = IF ch.packet_queue = <<>> THEN Append(@, id) ELSE @,
        !.channels[id].packet_queue =
            Append(@, Packet(type, id, len % RingSize, val, ch.conv))]

RemoveChannelIfDone(p, id) ==
  IF /\ id \in DOMAIN p.channels
     /\ p.channels[id].association = NoClient
     /\ p.channels[id].packet_queue = <<>>
  THEN [p EXCEPT !.channels = [j \in DOMAIN @ \ {id} |-> @[j]]]
  ELSE p

-----------------------------------------------------------------------------
(* Messages of clients.                                                    *)

HandleMsgRegisterReq(p, c, m) ==
  IF m.val \in DOMAIN p.services
  THEN CreateAndSendMsg(p, c, Message("REGISTER_RES", 0, "FAIL", 0))
  ELSE CreateAndSendMsg([p EXCEPT !.services = With(@, m.val, c)], c,
                        Message("REGISTER_RES", 0, "SUCCESS", 0))

HandleMsgDeregisterReq(p, c, m) ==
  IF m.val \in DOMAIN p.services /\ p.services[m.val] = c
  THEN CreateAndSendMsg([p EXCEPT !.services = [n \in DOMAIN @ \ {m.val} |-> @[n]]],
                        c, Message("DEREGISTER_RES", 0, "SUCCESS", 0))
  ELSE CreateAndSendMsg(p, c, Message("DEREGISTER_RES", 0, "FAIL", 0))

HandleMsgConnectResponse(p, id, m) ==
  LET e == CreateAndEnqueuePacket(p, id, "CONNECT_RESPONSE", 1, m.val)
  IN IF m.val = "CONNECT_OK" THEN e ELSE RemoveAssociation(e, id)

HandleMsgData(p, id, m) ==
  [CreateAndEnqueuePacket(p, id, "DATA", m.len, m.val) EXCEPT
     !.hist[m.conv].sent = Append(@, m.val)]

HandleMsgEos(p, id, m) ==
  LET e == [CreateAndEnqueuePacket(p, id, "EOS", 0, 0) EXCEPT
              !.channels[id].got_eos_from_client = TRUE,
              !.hist[m.conv].sent_eos = Len(p.hist[m.conv].sent)]
  IN IF p.channels[id].got_eos_from_client
     THEN p
     ELSE IF p.channels[id].got_eos_from_ami THEN RemoveAssociation(e, id) ELSE e

\* What was queued for the stream is dropped; a RESET takes its place.
ResetChannel(p, id) ==
  LET e == CreateAndEnqueuePacket(
             ClearPacketQueue(RemoveAssociation(p, id), id), id, "RESET", 0, 0)
  IN [e EXCEPT !.hist[p.channels[id].conv].client_reset = TRUE]

HandleReceivedMessage(p, c, m) ==
  IF m.type = "REGISTER" THEN HandleMsgRegisterReq(p, c, m)
  ELSE IF m.type = "DEREGISTER" THEN HandleMsgDeregisterReq(p, c, m)
  ELSE IF ChannelsOf(p, c, m.sid) = {} THEN p
  ELSE LET id == CHOOSE id \in ChannelsOf(p, c, m.sid) : TRUE IN
       CASE m.type = "RESPONSE" -> HandleMsgConnectResponse(p, id, m)
         [] m.type = "DATA"     -> HandleMsgData(p, id, m)
         [] m.type = "EOS"      -> HandleMsgEos(p, id, m)
         [] m.type = "RESET"    -> ResetChannel(p, id)

HandleReceivedMessages(p, c, msgs) ==
  LET after[i \in 0 .. Len(msgs)] ==
        IF i = 0 THEN p ELSE HandleReceivedMessage(after[i - 1], c, msgs[i])
  IN after[Len(msgs)]

\* The channels ids one after the other.
ResetChannels(p, ids) ==
  LET after[i \in 0 .. Len(ids)] ==
        IF i = 0 THEN p ELSE ResetChannel(after[i - 1], ids[i])
  IN after[Len(ids)]

\* Mutated CloseAndRemoveConnection: its services stay registered.
CloseKeepingServices(p, c) ==
  ResetChannels([p EXCEPT !.connections[c] = "closed", !.message_queue[c] = <<>>],
                InOrder(p, Associations(p, c)))

\* Mutated CloseAndRemoveConnection: its channels are erased, not reset.
CloseErasing(p, c) ==
  [p EXCEPT !.services = [n \in {n \in DOMAIN @ : @[n] # c} |-> @[n]],
            !.connections[c] = "closed", !.message_queue[c] = <<>>,
            !.channels = [id \in DOMAIN @ \ Associations(p, c) |-> @[id]],
            !.send_queue = SelectSeq(@, LAMBDA id : id \notin Associations(p, c))]

\* The services and the streams of a connection end with it.
CloseAndRemoveConnection(p, c) ==
  LET e == [p EXCEPT
              !.services = [n \in {n \in DOMAIN @ : @[n] # c} |-> @[n]],
              !.connections[c] = "closed", !.message_queue[c] = <<>>]
  IN ResetChannels(e, InOrder(p, Associations(p, c)))

-----------------------------------------------------------------------------
(* Packets of the Amiga.                                                   *)

Associate(p, id, c, name) ==
  LET sid == p.stream_ids[c]
  IN CreateAndSendMsg(
       [p EXCEPT !.channels[id].association = c, !.channels[id].stream_id = sid,
                 !.stream_ids[c] = @ + 2],
       c, Message("CONNECT", sid, name, p.channels[id].conv))

NewChannel(conv) ==
  [association |-> NoClient, stream_id |-> 0, got_eos_from_ami |-> FALSE,
   got_eos_from_client |-> FALSE, packet_queue |-> <<>>, conv |-> conv]

\* The conversation of a CONNECT is its conv field, the service its val.  When
\* the bound on the connections is reached, the run ends.
HandlePktConnect(p, pkt) ==
  LET id == pkt.id
      e == [p EXCEPT !.channels = With(@, id, NewChannel(pkt.conv))]
      unused == {c \in Clients : p.connections[c] = "unused"}
      c == CHOOSE c \in unused : TRUE
  IN IF id \in DOMAIN p.channels
     THEN [p EXCEPT !.exited = "connect"]
     ELSE IF pkt.val \in DOMAIN p.services
     THEN Associate(e, id, p.services[pkt.val], pkt.val)
     ELSE IF pkt.val \in workload.on_demand /\ unused = {}
     THEN [p EXCEPT !.exited = "bound"]
     ELSE IF pkt.val \in workload.on_demand
     THEN Associate([e EXCEPT !.connections[c] = "open",
                              !.services = With(@, pkt.val, c)], id, c, pkt.val)
     ELSE CreateAndEnqueuePacket(e, id, "CONNECT_RESPONSE", 1,
                                 "CONNECT_UNKNOWN_SERVICE")

\* Mutated Open: the client's EOS closes both directions.
OpenBothWays(p, id) ==
  /\ id \in DOMAIN p.channels
  /\ p.channels[id].association # NoClient
  /\ ~p.channels[id].got_eos_from_ami /\ ~p.channels[id].got_eos_from_client

\* DATA and EOS go to the client until the Amiga's EOS.
Open(p, id) ==
  /\ id \in DOMAIN p.channels
  /\ p.channels[id].association # NoClient
  /\ ~p.channels[id].got_eos_from_ami

SendOnStream(p, id, type, val) ==
  LET ch == p.channels[id]
  IN CreateAndSendMsg(p, ch.association, Message(type, ch.stream_id, val, ch.conv))

HandlePktData(p, pkt) ==
  IF Open(p, pkt.id) THEN SendOnStream(p, pkt.id, "DATA", pkt.val) ELSE p

HandlePktEos(p, pkt) ==
  LET e == [SendOnStream(p, pkt.id, "EOS", 0) EXCEPT
              !.channels[pkt.id].got_eos_from_ami = TRUE]
  IN IF ~Open(p, pkt.id)
     THEN p
     ELSE IF p.channels[pkt.id].got_eos_from_client
     THEN RemoveAssociation(e, pkt.id)
     ELSE e

\* Mutated HandlePktReset: the client is told, but keeps the channel.
HandlePktResetKept(p, pkt) ==
  IF pkt.id \notin DOMAIN p.channels \/ p.channels[pkt.id].association = NoClient
  THEN p
  ELSE SendOnStream(ClearPacketQueue(p, pkt.id), pkt.id, "RESET", 0)

HandlePktReset(p, pkt) ==
  IF pkt.id \notin DOMAIN p.channels
  THEN p
  ELSE LET e == ClearPacketQueue(p, pkt.id)
       IN IF p.channels[pkt.id].association = NoClient
          THEN e
          ELSE RemoveAssociation(SendOnStream(e, pkt.id, "RESET", 0), pkt.id)

HandleReceivedPkt(p, pkt) ==
  IF p.exited # "no"
  THEN p
  ELSE RemoveChannelIfDone(
         CASE pkt.type = "CONNECT" -> HandlePktConnect(p, pkt)
           [] pkt.type = "DATA"    -> HandlePktData(p, pkt)
           [] pkt.type = "EOS"     -> HandlePktEos(p, pkt)
           [] pkt.type = "RESET"   -> HandlePktReset(p, pkt),
         pkt.id)

\* receive_from_a2r: every packet in turn.
HandleReceivedPkts(p, pkts) ==
  LET after[i \in 0 .. Len(pkts)] ==
        IF i = 0 THEN p ELSE HandleReceivedPkt(after[i - 1], pkts[i])
  IN after[Len(pkts)]

\* STARTED: the Amiga has been restarted and knows of no stream.
CloseAllLogicalChannels(p) ==
  LET ids == InOrder(p, {id \in DOMAIN p.channels :
                           p.channels[id].association # NoClient})
      after[i \in 0 .. Len(ids)] ==
        IF i = 0 THEN p ELSE SendOnStream(after[i - 1], ids[i], "RESET", 0)
  IN [after[Len(ids)] EXCEPT !.channels = <<>>, !.send_queue = <<>>]

-----------------------------------------------------------------------------
(* flush_send_queue: one packet of each channel in turn, while they fit    *)
(* behind what the daemon last knew to be unread in R2A.                   *)

FlushOne(p) ==
  IF p.send_queue = <<>>
  THEN p
  ELSE LET id == Head(p.send_queue)
           pkt == Head(p.channels[id].packet_queue)
           left == RingSize - 1 - (Bytes(p.r2a) + p.r2a_freed)
           e == [p EXCEPT !.r2a = Append(@, pkt),
                          !.channels[id].packet_queue = Tail(@),
                          !.send_queue = Tail(@)]
       IN IF left < HeaderBytes + pkt.len
          THEN p
          ELSE IF e.channels[id].packet_queue = <<>>
          THEN RemoveChannelIfDone(e, id)
          ELSE [e EXCEPT !.send_queue = Append(@, id)]

\* As often as the ring has room for a header; what follows changes nothing.
Flush(p) ==
  LET after[i \in 0 .. RingSize \div HeaderBytes] ==
        IF i = 0 THEN p ELSE FlushOne(after[i - 1])
  IN after[RingSize \div HeaderBytes]

-----------------------------------------------------------------------------
(* main_loop: one event.                                                   *)

DaemonInit ==
  /\ device_started = FALSE /\ channels = <<>> /\ d_send_queue = <<>>
  /\ services = <<>> /\ connections = [c \in Clients |-> "unused"]
  /\ stream_ids = [c \in Clients |-> 1]
  /\ message_queue = [c \in Clients |-> <<>>]
  /\ to_client = [c \in Clients |-> <<>>] /\ from_client = [c \in Clients |-> <<>>]
  /\ streams = [c \in Clients |-> <<>>] /\ answered = [c \in Clients |-> {}]
  /\ client_budget = workload.clients /\ exited = "no"

\* What is published when an event has been handled.
Publish(p, received) ==
  /\ BecomeDaemon(p)
  /\ a_events' = a_events \cup (IF received THEN {"A2R_HEAD"} ELSE {})
                         \cup (IF p.r2a # r2a THEN {"R2A_TAIL"} ELSE {})

Errnos == {"ECONNRESET", "EPIPE"}

HandleA314Irq ==
  /\ irq_fds # <<>> /\ irq_fds' = Tail(irq_fds)
  /\ device_started' = (device_started \/ Head(irq_fds) = "STARTED")
  /\ a2r' = IF device_started' THEN <<>> ELSE a2r
  /\ \E errno \in Errnos :
       LET p == IF Head(irq_fds) = "STARTED"
                THEN CloseAllLogicalChannels(Daemon(errno)) ELSE Daemon(errno)
           q == HandleReceivedPkts([p EXCEPT !.r2a_freed = 0], a2r)
       IN IF device_started' THEN Publish(Flush(q), a2r # <<>>) ELSE Publish(p, FALSE)
  /\ UNCHANGED <<from_client, streams, answered, client_budget>>

\* EPOLLIN: every message the client has sent, and then its end of file.
InputFrom(c) ==
  connections[c] = "gone" \/ (connections[c] = "open" /\ from_client[c] # <<>>)

HandleClientInput(c) ==
  /\ InputFrom(c)
  /\ \E errno \in Errnos :
       LET p == HandleReceivedMessages(Daemon(errno), c, from_client[c])
       IN Publish(Flush(IF connections[c] = "gone" /\ p.exited = "no"
                        THEN CloseAndRemoveConnection(p, c) ELSE p), FALSE)
  /\ from_client' = [from_client EXCEPT ![c] = <<>>]
  /\ UNCHANGED <<a2r, irq_fds, device_started, streams, answered, client_budget>>

\* EPOLLERR: the connection was reset, and what it still held is lost.
HandleClientError(c) ==
  /\ connections[c] = "gone"
  /\ Publish(Flush(CloseAndRemoveConnection(Daemon("EPIPE"), c)), FALSE)
  /\ from_client' = [from_client EXCEPT ![c] = <<>>]
  /\ UNCHANGED <<a2r, irq_fds, device_started, streams, answered, client_budget>>

\* EPOLLOUT: the messages that waited, as far as the kernel takes them.
OutputTo(c) ==
  /\ connections[c] = "open" /\ message_queue[c] # <<>>
  /\ Len(to_client[c]) < workload.sock_cap

HandleClientOutput(c) ==
  LET n == workload.sock_cap - Len(to_client[c])
      q == message_queue[c]
      k == IF Len(q) < n THEN Len(q) ELSE n
  IN /\ OutputTo(c)
     /\ Publish(Flush([Daemon("EPIPE") EXCEPT
                          !.to_client[c] = @ \o SubSeq(q, 1, k),
                          !.message_queue[c] = SubSeq(q, k + 1, Len(q))]), FALSE)
     /\ UNCHANGED <<a2r, irq_fds, device_started, from_client, streams, answered,
                    client_budget>>

-----------------------------------------------------------------------------
(* Clients (external).                                                     *)

Spend(a) ==
  /\ client_budget[a] > 0
  /\ client_budget' = [client_budget EXCEPT ![a] = @ - 1]

daemonRest == <<device_started, channels, d_send_queue, services, stream_ids,
                message_queue, exited>>

ClientSends(c, m) ==
  /\ connections[c] = "open"
  /\ from_client' = [from_client EXCEPT ![c] = Append(@, m)]
  /\ UNCHANGED <<linkVars, daemonRest, connections, to_client, streams>>

\* handle_server_socket_ready: a client connects, to register a service.
Accept(c) ==
  /\ connections[c] = "unused" /\ client_budget["REGISTER"] > 0
  /\ connections' = [connections EXCEPT ![c] = "open"]
  /\ UNCHANGED <<linkVars, daemonRest, clientVars>>

ClientRegisters(c) ==
  \E n \in Names, a \in {"REGISTER", "DEREGISTER"} :
    /\ Spend(a) /\ ClientSends(c, [type |-> a, val |-> n])
    /\ UNCHANGED answered

StreamMessage(type, sid, len, val, conv) ==
  [type |-> type, sid |-> sid, len |-> len, val |-> val, conv |-> conv]

ClientAnswers(c, sid, result) ==
  /\ Spend("RESPONSE") /\ sid \notin answered[c]
  /\ answered' = [answered EXCEPT ![c] = @ \cup {sid}]
  /\ ClientSends(c, StreamMessage("RESPONSE", sid, 1, result, streams[c][sid]))

ClientSpeaks(c, sid, type, len) ==
  /\ Spend(type) /\ UNCHANGED answered
  /\ ClientSends(c, StreamMessage(type, sid, len, client_budget[type],
                                  streams[c][sid]))

ClientTalks(c) ==
  \/ ClientRegisters(c)
  \/ \E sid \in DOMAIN streams[c] :
       \/ \E result \in {"CONNECT_OK", "CONNECT_UNKNOWN_SERVICE"} :
            ClientAnswers(c, sid, result)
       \/ \E len \in DataLens : ClientSpeaks(c, sid, "DATA", len)
       \/ ClientSpeaks(c, sid, "EOS", 0)
       \/ ClientSpeaks(c, sid, "RESET", 0)

ReceivesNow(c) == connections[c] = "open" /\ to_client[c] # <<>>

\* The client reads a message: it learns of a stream, or is given its next part.
ClientReceives(c) ==
  /\ ReceivesNow(c)
  /\ to_client' = [to_client EXCEPT ![c] = Tail(@)]
  /\ LET m == Head(to_client[c]) IN
     /\ streams' =
          CASE m.type = "CONNECT" ->
                 [streams EXCEPT ![c] = With(@, m.sid, m.conv)]
            [] m.type = "RESET" ->
                 [streams EXCEPT ![c] = [i \in DOMAIN @ \ {m.sid} |-> @[i]]]
            [] OTHER -> streams
     /\ hist' =
          CASE m.type = "DATA"  -> [hist EXCEPT ![m.conv].got = Append(@, m.val)]
            [] m.type = "EOS"   -> [hist EXCEPT ![m.conv].got_eos = TRUE]
            [] m.type = "RESET" -> [hist EXCEPT ![m.conv].told_client = TRUE]
            [] OTHER -> hist
  /\ UNCHANGED <<a2r, r2a, r2a_freed, a_events, irq_fds, daemonRest, connections,
                 from_client, answered, client_budget>>

\* A client exits, or is killed: it reads nothing more.
ClientCloses(c) ==
  /\ connections[c] = "open" /\ Spend("CLOSE")
  /\ connections' = [connections EXCEPT ![c] = "gone"]
  /\ to_client' = [to_client EXCEPT ![c] = <<>>]
  /\ streams' = [streams EXCEPT ![c] = <<>>]
  /\ UNCHANGED <<linkVars, daemonRest, from_client, answered>>

DaemonStep ==
  \/ HandleA314Irq
  \/ \E c \in Clients : HandleClientInput(c) \/ HandleClientError(c)
                         \/ HandleClientOutput(c)

ClientStep ==
  \E c \in Clients : Accept(c) \/ ClientTalks(c) \/ ClientReceives(c)
                     \/ ClientCloses(c)
=============================================================================
