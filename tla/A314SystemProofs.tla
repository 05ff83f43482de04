-------------------------- MODULE A314SystemProofs --------------------------
(***************************************************************************)
(* Theorems about A314System: what the driver and the daemon keep true     *)
(* together while no stream id has been given out twice.  The driver's     *)
(* handlers are the subject of A314DriverProofs; here are the daemon's,    *)
(* and then the steps of both.  A second invariant, at the end, follows    *)
(* the one answer to each CONNECT from the client to the socket.           *)
(***************************************************************************)
EXTENDS A314System, A314DriverProofs, FiniteSetTheorems

-----------------------------------------------------------------------------
(* What the daemon's channels, queue and tables have to agree on.          *)

DaemonFields == {"channels", "send_queue", "services", "connections", "stream_ids",
                 "message_queue", "to_client", "streams", "exited", "r2a",
                 "r2a_freed", "hist", "errno"}

ChannelFields == {"association", "stream_id", "got_eos_from_ami",
                  "got_eos_from_client", "packet_queue", "conv"}

\* A sequence of packets to the Amiga, whose ids are in V.
Packets(q, V) ==
  /\ q \in Seq({q[i] : i \in DOMAIN q})
  /\ \A i \in 1 .. Len(q) : q[i].type \in R2aTypes /\ q[i].id \in V /\ q[i].len \in Nat

Alive == {"open", "gone"}
Exits == {"no", "write", "connect", "bound"}

\* X holds the channels whose connection is being closed.
ChannelOK(p, id, X) ==
  LET ch == p.channels[id] IN
  /\ DOMAIN ch = ChannelFields /\ Packets(ch.packet_queue, {id})
  /\ Among(p.send_queue, id) <=> ch.packet_queue # <<>>
  /\ ch.association # NoClient =>
       /\ ch.association \in Clients
       /\ id \in X \/ p.connections[ch.association] \in Alive
       /\ ch.stream_id \in Nat /\ ch.stream_id < p.stream_ids[ch.association]

\* No two channels are the same stream of a connection.
StreamsDistinct(p) ==
  \A i, j \in DOMAIN p.channels :
    /\ p.channels[i].association = p.channels[j].association
    /\ p.channels[i].association # NoClient
    /\ p.channels[i].stream_id = p.channels[j].stream_id
    => i = j

\* V holds the stream ids of the channels and of the packets in R2A.
TablesOK(p, V) ==
  /\ \A n \in DOMAIN p.services :
       p.services[n] \in Clients /\ p.connections[p.services[n]] \in Alive
  /\ p.connections \in [Clients -> {"unused", "open", "gone", "closed"}]
  /\ p.stream_ids \in [Clients -> Nat] /\ p.exited \in Exits
  /\ Packets(p.r2a, V) /\ p.r2a_freed \in Nat
  /\ Bytes(p.r2a) + p.r2a_freed <= RingSize - 1

DQueueOK(p, V) ==
  /\ DOMAIN p = DaemonFields /\ DOMAIN p.channels \subseteq V
  /\ p.send_queue \in Seq(V) /\ Once(p.send_queue)
  /\ \A id : Among(p.send_queue, id) => id \in DOMAIN p.channels

DaemonInv(p, V, X) ==
  /\ DQueueOK(p, V) /\ TablesOK(p, V) /\ StreamsDistinct(p)
  /\ \A id \in DOMAIN p.channels : ChannelOK(p, id, X)

-----------------------------------------------------------------------------
(* Sequences of packets.                                                   *)

LEMMA PacketsFacts ==
  ASSUME NEW q, NEW V, Packets(q, V)
  PROVE  \E S : q \in Seq(S) /\ \A x \in S : /\ x.type \in R2aTypes
                                             /\ x.id \in V /\ x.len \in Nat
<1> DEFINE S == {q[i] : i \in DOMAIN q}
<1>1. q \in Seq(S)
  BY DEF Packets
<1>2. DOMAIN q = 1 .. Len(q)
  BY <1>1, LenProperties
<1>3. \A x \in S : x.type \in R2aTypes /\ x.id \in V /\ x.len \in Nat
  BY <1>2 DEF Packets
<1> QED
  BY <1>1, <1>3

LEMMA PacketsOfSeq ==
  ASSUME NEW S, NEW V, \A x \in S : x.type \in R2aTypes /\ x.id \in V /\ x.len \in Nat,
         NEW q \in Seq(S)
  PROVE  Packets(q, V)
<1>1. Len(q) \in Nat /\ DOMAIN q = 1 .. Len(q) /\ \A i \in 1 .. Len(q) : q[i] \in S
  BY SeqFacts
<1> DEFINE T == {q[i] : i \in DOMAIN q}
<1>2. q \in [1 .. Len(q) -> T]
  <2>1. q = [i \in 1 .. Len(q) |-> q[i]]
    BY LenProperties
  <2> QED
    BY <1>1, <2>1
<1>3. q \in Seq(T)
  BY <1>1, <1>2, SeqDef
<1> QED
  BY <1>1, <1>3 DEF Packets

LEMMA PacketsEmpty ==
  ASSUME NEW V PROVE Packets(<<>>, V)
<1>1. <<>> \in Seq({}) /\ Len(<<>>) = 0
  BY EmptySeq
<1> QED
  BY <1>1, PacketsOfSeq

LEMMA PacketsMore ==
  ASSUME NEW q, NEW V, NEW W, Packets(q, V), V \subseteq W
  PROVE  Packets(q, W)
BY DEF Packets

LEMMA PacketsAppend ==
  ASSUME NEW q, NEW V, Packets(q, V), NEW x, x.type \in R2aTypes, x.id \in V,
         x.len \in Nat, NEW r, r = Append(q, x)
  PROVE  /\ Packets(r, V) /\ r # <<>> /\ Bytes(q) \in Nat
         /\ Bytes(r) = Bytes(q) + HeaderBytes + x.len
<1>1. PICK S : q \in Seq(S) /\ \A y \in S : /\ y.type \in R2aTypes
                                             /\ y.id \in V /\ y.len \in Nat
  BY PacketsFacts
<1> DEFINE T == S \cup {x}
<1>2. /\ x \in T /\ \A y \in T : y.type \in R2aTypes /\ y.id \in V /\ y.len \in Nat
      /\ q \in Seq(T)
  <2>1. S \subseteq T
    OBVIOUS
  <2>2. q \in Seq(T)
    BY <1>1, <2>1, SeqDef
  <2> QED
    BY <1>1, <2>2
<1> HIDE DEF T
<1>3. r \in Seq(T) /\ r # <<>>
  BY <1>2, AppendFacts
<1>4. Bytes(r) = Bytes(q) + HeaderBytes + x.len /\ Bytes(q) \in Nat
  BY <1>2, BytesOfAppend
<1> QED
  BY <1>2, <1>3, <1>4, PacketsOfSeq

LEMMA PacketsTail ==
  ASSUME NEW q, NEW V, Packets(q, V), q # <<>>, NEW r, r = Tail(q)
  PROVE  /\ Packets(r, V) /\ Bytes(r) \in Nat /\ Bytes(q) \in Nat
         /\ Head(q).type \in R2aTypes /\ Head(q).id \in V /\ Head(q).len \in Nat
         /\ Bytes(q) = Bytes(r) + (HeaderBytes + Head(q).len)
<1>1. PICK S : q \in Seq(S) /\ \A y \in S : /\ y.type \in R2aTypes
                                             /\ y.id \in V /\ y.len \in Nat
  BY PacketsFacts
<1>2. r \in Seq(S) /\ Head(q) \in S
  BY <1>1, TailFacts
<1>3. /\ Bytes(q) = Bytes(r) + (HeaderBytes + Head(q).len)
      /\ Bytes(q) \in Nat /\ Bytes(r) \in Nat
  BY <1>1, BytesOfTail
<1> QED
  BY <1>1, <1>2, <1>3, PacketsOfSeq

-----------------------------------------------------------------------------
(* The invariant of the whole.                                             *)

\* The ids that the daemon knows.
KnownIds == DOMAIN channels \cup {r2a[i].id : i \in DOMAIN r2a}

\* The requests in the port; CONNECTs are in the order they were issued in, and
\* n or more have been issued when the next of them is handled.
Port == {r \in Requests : Among(task_mp, r)}
Value(i) == ior[task_mp[i]].val
IsConnect(i) == ior[task_mp[i]].command = "CONNECT"
ConnectsIssued == workload.amiga["CONNECT"] - budget["CONNECT"]

PortOK(n) ==
  /\ task_mp \in Seq(Requests) /\ Once(task_mp) /\ n <= ConnectsIssued + 1
  /\ \A i \in 1 .. Len(task_mp) :
       IsConnect(i) => n <= Value(i) /\ Value(i) <= ConnectsIssued
  /\ \A i, j \in 1 .. Len(task_mp) :
       i < j /\ IsConnect(i) /\ IsConnect(j) => Value(i) < Value(j)

\* After a reboot the driver is gone.
NoDriver ==
  /\ sockets = <<>> /\ send_queue = <<>> /\ task_mp = <<>> /\ next_stream_id = 1
  /\ \A r \in Requests : ior[r] = AtApplication

AmigaInv ==
  \E n \in 1 .. StreamIds + 1 :
    /\ KnownIds \subseteq 1 .. n - 1
    /\ RingOK(a2r, n)
    /\ IF task_pc = "gone" THEN NoDriver
       ELSE DriverInv(Driver, Port, n, KnownIds) /\ PortOK(n)

\* What a client has sent and the daemon has not read.
MessageTypes == {"REGISTER", "DEREGISTER", "RESPONSE", "DATA", "EOS", "RESET"}

MessageOK(m) == m.type \in MessageTypes /\ (m.type = "DATA" => m.len \in Nat)

Messages(q) ==
  /\ q \in Seq({q[i] : i \in DOMAIN q})
  /\ \A i \in 1 .. Len(q) : MessageOK(q[i])

FromClients ==
  /\ DOMAIN from_client = Clients
  /\ \A c \in Clients : Messages(from_client[c])

Shared ==
  /\ workload \in Workloads
  /\ budget \in [Commands -> Nat]
  /\ \A c \in Commands : budget[c] <= workload.amiga[c]
  /\ task_pc \in {"off", "wait", "requests", "packets", "room", "gone"}
  /\ a_events \subseteq {"R2A_TAIL", "A2R_HEAD"}
  /\ irq_fds \in Seq({"STARTED", "MOVED"})

SystemInv ==
  /\ Shared
  /\ FreshIds => /\ AmigaInv /\ FromClients
                 /\ DaemonInv(Daemon("EPIPE"), KnownIds, {})

-----------------------------------------------------------------------------
(* A step of the daemon changes one channel.                               *)

LEMMA DaemonFacts ==
  ASSUME NEW p, NEW V, NEW X, DaemonInv(p, V, X)
  PROVE  /\ DQueueOK(p, V) /\ TablesOK(p, V) /\ StreamsDistinct(p)
         /\ DOMAIN p = DaemonFields /\ DOMAIN p.channels \subseteq V
         /\ p.send_queue \in Seq(V) /\ Once(p.send_queue)
         /\ \A id : Among(p.send_queue, id) => id \in DOMAIN p.channels
         /\ \A id \in DOMAIN p.channels :
              ChannelOK(p, id, X) /\ DOMAIN p.channels[id] = ChannelFields /\ id \in V
BY DEF DaemonInv, DQueueOK, ChannelOK

\* e is p but for the channel id, and its place in the queue.
ChannelStep(p, e, id) ==
  /\ DOMAIN e = DaemonFields
  /\ \A f \in DaemonFields :
       \/ f \in {"channels", "send_queue", "message_queue", "to_client", "hist",
                 "errno", "streams"}
       \/ e[f] = p[f]
  /\ \A j : j # id => /\ j \in DOMAIN e.channels <=> j \in DOMAIN p.channels
                      /\ Among(e.send_queue, j) <=> Among(p.send_queue, j)
  /\ \A j \in DOMAIN p.channels : j # id => e.channels[j] = p.channels[j]

LEMMA OneChannel ==
  ASSUME NEW p, NEW V, NEW X, DaemonInv(p, V, X), NEW id \in V,
         NEW e, ChannelStep(p, e, id), e.send_queue \in Seq(V), Once(e.send_queue),
         NEW Y, X \subseteq Y \cup {id},
         id \notin DOMAIN e.channels => ~Among(e.send_queue, id),
         id \in DOMAIN e.channels =>
           /\ ChannelOK(e, id, Y)
           /\ \/ e.channels[id].association = NoClient
              \/ /\ id \in DOMAIN p.channels
                 /\ e.channels[id].association = p.channels[id].association
                 /\ e.channels[id].stream_id = p.channels[id].stream_id
  PROVE  DaemonInv(e, V, Y)
<1>1. /\ DOMAIN e = DaemonFields
      /\ e.services = p.services /\ e.connections = p.connections
      /\ e.stream_ids = p.stream_ids /\ e.exited = p.exited
      /\ e.r2a = p.r2a /\ e.r2a_freed = p.r2a_freed
      /\ \A j : j # id => /\ j \in DOMAIN e.channels <=> j \in DOMAIN p.channels
                          /\ Among(e.send_queue, j) <=> Among(p.send_queue, j)
      /\ \A j \in DOMAIN p.channels : j # id => e.channels[j] = p.channels[j]
  BY DEF ChannelStep, DaemonFields
<1>2. TablesOK(e, V)
  BY <1>1, DaemonFacts DEF TablesOK
<1>3. DQueueOK(e, V)
  BY <1>1, DaemonFacts DEF DQueueOK
<1>4. StreamsDistinct(e)
  <2>1. StreamsDistinct(p)
    BY DaemonFacts
  <2>2. \A j \in DOMAIN e.channels : e.channels[j].association # NoClient =>
          /\ j \in DOMAIN p.channels
          /\ e.channels[j].association = p.channels[j].association
          /\ e.channels[j].stream_id = p.channels[j].stream_id
    BY <1>1
  <2> QED
    BY <2>1, <2>2 DEF StreamsDistinct
<1>5. ASSUME NEW j \in DOMAIN e.channels PROVE ChannelOK(e, j, Y)
  <2>1. CASE j = id
    BY <2>1
  <2>2. CASE j # id
    <3>1. /\ j \in DOMAIN p.channels /\ e.channels[j] = p.channels[j]
          /\ Among(e.send_queue, j) <=> Among(p.send_queue, j)
      BY <1>1, <2>2
    <3>2. ChannelOK(p, j, X) /\ (j \in X => j \in Y)
      BY <2>2, <3>1, DaemonFacts
    <3> QED
      BY <1>1, <3>1, <3>2 DEF ChannelOK
  <2> QED
    BY <2>1, <2>2
<1> QED
  BY <1>2, <1>3, <1>4, <1>5 DEF DaemonInv

\* e is p but for what no table depends on, and an exit.
LEMMA SameTables ==
  ASSUME NEW p, NEW V, NEW X, DaemonInv(p, V, X), NEW e, DOMAIN e = DaemonFields,
         e.channels = p.channels, e.send_queue = p.send_queue,
         e.services = p.services, e.connections = p.connections,
         e.stream_ids = p.stream_ids, e.r2a = p.r2a,
         e.r2a_freed = p.r2a_freed \/ e.r2a_freed = 0, e.exited \in Exits
  PROVE  DaemonInv(e, V, X)
<1>1. TablesOK(p, V)
  BY DaemonFacts
<1>2. Bytes(p.r2a) \in Nat
  <2>1. PICK S : p.r2a \in Seq(S) /\ \A x \in S : x.len \in Nat
    BY <1>1, PacketsFacts DEF TablesOK
  <2> QED
    BY <2>1, BytesIsSum, SumsUnique
<1>3. TablesOK(e, V)
  <2> DEFINE b == Bytes(p.r2a)
             f == p.r2a_freed
             g == e.r2a_freed
  <2>1. b \in Nat /\ f \in Nat /\ b + f <= RingSize - 1 /\ (g = f \/ g = 0)
    BY <1>1, <1>2 DEF TablesOK
  <2> HIDE DEF b, f, g
  <2>2. g \in Nat /\ b + g <= RingSize - 1
    BY <2>1, LinkAssumption
  <2> QED
    BY <1>1, <2>2 DEF TablesOK, b, g
<1>4. DQueueOK(e, V) /\ StreamsDistinct(e)
  BY DaemonFacts DEF DQueueOK, StreamsDistinct
<1>5. ASSUME NEW id \in DOMAIN e.channels PROVE ChannelOK(e, id, X)
  <2>1. /\ ChannelOK(p, id, X) /\ e.channels = p.channels
        /\ e.send_queue = p.send_queue /\ e.connections = p.connections
        /\ e.stream_ids = p.stream_ids
    BY DaemonFacts
  <2> QED
    BY ONLY <2>1 DEF ChannelOK
<1> QED
  BY <1>3, <1>4, <1>5 DEF DaemonInv

\* e is p but for what no table depends on, as what is sent to a client.
Aside(p, e) ==
  /\ DOMAIN e = DaemonFields
  /\ \A f \in DaemonFields \ {"message_queue", "to_client", "exited", "hist",
                              "errno", "streams"} : e[f] = p[f]
  /\ e.exited = p.exited \/ e.exited = "write"

LEMMA SendFacts ==
  ASSUME NEW p, DOMAIN p = DaemonFields, NEW c, NEW m,
         NEW e, e = CreateAndSendMsg(p, c, m)
  PROVE  Aside(p, e)
<1> DEFINE a == [p EXCEPT !.message_queue[c] = Append(@, m)]
           b == [p EXCEPT !.exited = "write"]
           t == [p EXCEPT !.to_client[c] = Append(@, m)]
<1>1. e \in {p, a, b, t}
  BY DEF CreateAndSendMsg
<1>2. Aside(p, p)
  BY DEF Aside
<1>3. Aside(p, a) /\ Aside(p, b) /\ Aside(p, t)
  BY DEF Aside, DaemonFields
<1> QED
  BY <1>1, <1>2, <1>3

LEMMA AsideKeeps ==
  ASSUME NEW p, NEW V, NEW X, DaemonInv(p, V, X), NEW e, Aside(p, e)
  PROVE  /\ DaemonInv(e, V, X) /\ DOMAIN e = DaemonFields
         /\ e.channels = p.channels /\ e.send_queue = p.send_queue
         /\ e.connections = p.connections /\ e.services = p.services
<1>1. /\ DOMAIN e = DaemonFields
      /\ e.channels = p.channels /\ e.send_queue = p.send_queue
      /\ e.services = p.services /\ e.connections = p.connections
      /\ e.stream_ids = p.stream_ids /\ e.r2a = p.r2a
      /\ e.r2a_freed = p.r2a_freed /\ (e.exited = p.exited \/ e.exited = "write")
  BY DEF Aside, DaemonFields
<1>2. e.exited \in Exits
  BY <1>1, DaemonFacts DEF TablesOK, Exits
<1> QED
  BY <1>1, <1>2, SameTables

\* e is p but for the services and the connections; those that end are of Y.
Reconnected(p, e, Y) ==
  /\ DOMAIN e = DaemonFields
  /\ \A f \in DaemonFields \ {"services", "connections", "message_queue"} : e[f] = p[f]
  /\ e.connections \in [Clients -> {"unused", "open", "gone", "closed"}]
  /\ \A n \in DOMAIN e.services :
       e.services[n] \in Clients /\ e.connections[e.services[n]] \in Alive
  /\ \A id \in DOMAIN p.channels :
       LET c == p.channels[id].association IN
       c # NoClient /\ p.connections[c] \in Alive
         => id \in Y \/ e.connections[c] \in Alive

LEMMA SameChannels ==
  ASSUME NEW p, NEW V, NEW X, DaemonInv(p, V, X), NEW Y, X \subseteq Y,
         NEW e, Reconnected(p, e, Y)
  PROVE  DaemonInv(e, V, Y)
<1>1. /\ e.channels = p.channels /\ e.send_queue = p.send_queue
      /\ e.stream_ids = p.stream_ids /\ e.r2a = p.r2a
      /\ e.r2a_freed = p.r2a_freed /\ e.exited = p.exited
  BY DEF DaemonFields, Reconnected
<1>2. TablesOK(e, V)
  BY <1>1, DaemonFacts DEF TablesOK, Reconnected
<1>3. DQueueOK(e, V) /\ StreamsDistinct(e)
  BY <1>1, DaemonFacts DEF DQueueOK, StreamsDistinct, Reconnected
<1>4. ASSUME NEW id \in DOMAIN e.channels PROVE ChannelOK(e, id, Y)
  <2>1. ChannelOK(p, id, X)
    BY <1>1, DaemonFacts
  <2> QED
    BY <1>1, <2>1 DEF ChannelOK, Reconnected
<1> QED
  BY <1>2, <1>3, <1>4 DEF DaemonInv

-----------------------------------------------------------------------------
(* The helpers that change a channel.                                      *)

\* Only fields fs of the channel id, and its place in the queue, change.
Changed(p, e, id, fs) ==
  /\ ChannelStep(p, e, id) /\ DOMAIN e.channels = DOMAIN p.channels
  /\ DOMAIN e.channels[id] = ChannelFields
  /\ \A f \in ChannelFields : f \in fs \/ e.channels[id][f] = p.channels[id][f]

LEMMA ChangedFacts ==
  ASSUME NEW p, NEW V, NEW X, DaemonInv(p, V, X), NEW id \in DOMAIN p.channels,
         NEW e, NEW fs, Changed(p, e, id, fs)
  PROVE  /\ DOMAIN e = DaemonFields /\ DOMAIN e.channels = DOMAIN p.channels
         /\ e.services = p.services /\ e.connections = p.connections
         /\ e.stream_ids = p.stream_ids /\ e.exited = p.exited
         /\ e.r2a = p.r2a /\ e.r2a_freed = p.r2a_freed
         /\ \A j \in DOMAIN p.channels : j # id => e.channels[j] = p.channels[j]
BY DEF Changed, ChannelStep, DaemonFields

LEMMA RemoveAssociationKeeps ==
  ASSUME NEW p, NEW V, NEW X, DaemonInv(p, V, X), NEW id \in DOMAIN p.channels,
         NEW Y, X \subseteq Y \cup {id}, NEW e, e = RemoveAssociation(p, id)
  PROVE  /\ DaemonInv(e, V, Y) /\ Changed(p, e, id, {"association", "stream_id"})
         /\ e.channels[id].association = NoClient /\ e.send_queue = p.send_queue
<1>1. /\ DOMAIN p = DaemonFields /\ DOMAIN p.channels[id] = ChannelFields
      /\ ChannelOK(p, id, X) /\ id \in V /\ p.send_queue \in Seq(V)
      /\ Once(p.send_queue)
      /\ \A j : Among(p.send_queue, j) => j \in DOMAIN p.channels
  BY DaemonFacts
<1> DEFINE ch == [p.channels[id] EXCEPT !.association = NoClient, !.stream_id = 0]
<1>2. e = [p EXCEPT !.channels = [p.channels EXCEPT ![id] = ch]]
  BY <1>1 DEF RemoveAssociation, DaemonFields, ChannelFields
<1>3. /\ DOMAIN ch = ChannelFields /\ ch.association = NoClient
      /\ \A f \in ChannelFields \ {"association", "stream_id"} :
           ch[f] = p.channels[id][f]
      /\ ch.packet_queue = p.channels[id].packet_queue
  BY <1>1 DEF ChannelFields
<1> HIDE DEF ch
<1>4. /\ DOMAIN e = DaemonFields
      /\ \A f \in DaemonFields \ {"channels"} : e[f] = p[f]
      /\ e.send_queue = p.send_queue
      /\ e.channels = [p.channels EXCEPT ![id] = ch]
  BY <1>1, <1>2 DEF DaemonFields
<1>5. /\ DOMAIN e.channels = DOMAIN p.channels /\ e.channels[id] = ch
      /\ \A j \in DOMAIN p.channels : j # id => e.channels[j] = p.channels[j]
  BY <1>4
<1>6. ChannelStep(p, e, id)
  BY <1>4, <1>5 DEF ChannelStep
<1>7. Changed(p, e, id, {"association", "stream_id"})
  BY <1>3, <1>5, <1>6 DEF Changed
<1>8. ChannelOK(e, id, Y)
  BY <1>1, <1>3, <1>4, <1>5 DEF ChannelOK
<1>9. DaemonInv(e, V, Y)
  BY <1>1, <1>3, <1>4, <1>5, <1>6, <1>8, OneChannel
<1> QED
  BY <1>3, <1>4, <1>5, <1>7, <1>9

\* The packets of the channel id are pq, and it is in the queue if there are any.
Requeued(p, e, id, V, pq) ==
  /\ Changed(p, e, id, {"packet_queue"})
  /\ e.channels[id].packet_queue = pq /\ Packets(pq, {id})
  /\ e.send_queue \in Seq(V) /\ Once(e.send_queue)
  /\ Among(e.send_queue, id) <=> pq # <<>>

LEMMA RequeuedKeeps ==
  ASSUME NEW p, NEW V, NEW X, DaemonInv(p, V, X), NEW id \in DOMAIN p.channels,
         NEW e, NEW pq, Requeued(p, e, id, V, pq)
  PROVE  /\ DaemonInv(e, V, X) /\ e.channels[id].packet_queue = pq
         /\ e.channels[id].association = p.channels[id].association
         /\ e.channels[id].stream_id = p.channels[id].stream_id
         /\ DOMAIN e.channels = DOMAIN p.channels
<1>1. /\ ChannelStep(p, e, id) /\ DOMAIN e.channels = DOMAIN p.channels
      /\ DOMAIN e.channels[id] = ChannelFields
      /\ e.channels[id].association = p.channels[id].association
      /\ e.channels[id].stream_id = p.channels[id].stream_id
      /\ e.channels[id].packet_queue = pq
      /\ e.send_queue \in Seq(V) /\ Once(e.send_queue)
      /\ e.connections = p.connections /\ e.stream_ids = p.stream_ids
  BY ChangedFacts DEF Requeued, Changed, ChannelFields
<1>2. ChannelOK(p, id, X) /\ id \in V
  BY DaemonFacts
<1>3. Packets(pq, {id}) /\ (Among(e.send_queue, id) <=> pq # <<>>)
  BY DEF Requeued
<1>4. ChannelOK(e, id, X)
  BY <1>1, <1>2, <1>3 DEF ChannelOK
<1>5. DaemonInv(e, V, X)
  BY <1>1, <1>2, <1>4, OneChannel
<1> QED
  BY <1>1, <1>5

\* e is p but for the packets pq of the channel id and the queue sq.
PutBack(p, e, id, pq, sq) ==
  /\ DOMAIN e = DaemonFields
  /\ \A f \in DaemonFields \ {"channels", "send_queue"} : e[f] = p[f]
  /\ e.send_queue = sq /\ DOMAIN e.channels = DOMAIN p.channels
  /\ \A j \in DOMAIN p.channels : j # id => e.channels[j] = p.channels[j]
  /\ e.channels[id] = [p.channels[id] EXCEPT !.packet_queue = pq]

LEMMA PutBackFacts ==
  ASSUME NEW p, NEW V, NEW X, DaemonInv(p, V, X), NEW id \in DOMAIN p.channels,
         NEW e, NEW pq, NEW sq, PutBack(p, e, id, pq, sq), Packets(pq, {id}),
         sq \in Seq(V), Once(sq), Among(sq, id) <=> pq # <<>>,
         \A j : j # id => (Among(sq, j) <=> Among(p.send_queue, j))
  PROVE  Requeued(p, e, id, V, pq)
<1>1. DOMAIN p.channels[id] = ChannelFields
  BY DaemonFacts
<1> DEFINE ch == [p.channels[id] EXCEPT !.packet_queue = pq]
<1>2. /\ DOMAIN ch = ChannelFields /\ ch.packet_queue = pq
      /\ \A f \in ChannelFields : f \in {"packet_queue"} \/ ch[f] = p.channels[id][f]
  BY <1>1 DEF ChannelFields
<1>3. /\ DOMAIN e = DaemonFields
      /\ \A f \in DaemonFields \ {"channels", "send_queue"} : e[f] = p[f]
      /\ e.send_queue = sq /\ DOMAIN e.channels = DOMAIN p.channels
      /\ \A j \in DOMAIN p.channels : j # id => e.channels[j] = p.channels[j]
      /\ e.channels[id] = ch
  BY DEF PutBack
<1> HIDE DEF ch
<1>4. ChannelStep(p, e, id)
  BY <1>3 DEF ChannelStep
<1>5. Changed(p, e, id, {"packet_queue"})
  BY <1>2, <1>3, <1>4 DEF Changed
<1> QED
  BY <1>2, <1>3, <1>5 DEF Requeued

LEMMA ClearKeeps ==
  ASSUME NEW p, NEW V, NEW X, DaemonInv(p, V, X), NEW id \in DOMAIN p.channels,
         NEW e, e = ClearPacketQueue(p, id)
  PROVE  Requeued(p, e, id, V, <<>>)
<1>1. /\ DOMAIN p = DaemonFields /\ ChannelOK(p, id, X) /\ id \in V
      /\ DOMAIN p.channels[id] = ChannelFields
      /\ p.send_queue \in Seq(V) /\ Once(p.send_queue)
  BY DaemonFacts
<1>2. Among(p.send_queue, id) <=> p.channels[id].packet_queue # <<>>
  BY <1>1 DEF ChannelOK
<1>3. Packets(<<>>, {id})
  BY PacketsEmpty
<1>4. CASE p.channels[id].packet_queue # <<>>
  <2> DEFINE sq == RemoveFirst(p.send_queue, id)
  <2>1. /\ sq \in Seq(V) /\ Once(sq)
        /\ \A j : Among(sq, j) <=> Among(p.send_queue, j) /\ j # id
    BY <1>1, <1>2, <1>4, RemoveFirstFacts
  <2>2. e = [p EXCEPT !.channels[id].packet_queue = <<>>, !.send_queue = sq]
    BY <1>4 DEF ClearPacketQueue
  <2> HIDE DEF sq
  <2>3. PutBack(p, e, id, <<>>, sq)
    BY <1>1, <2>2 DEF PutBack, DaemonFields
  <2> QED
    BY <1>3, <2>1, <2>3, PutBackFacts
<1>5. CASE p.channels[id].packet_queue = <<>>
  <2>1. e = p
    BY <1>5 DEF ClearPacketQueue
  <2>2. Changed(p, p, id, {"packet_queue"})
    BY <1>1 DEF Changed, ChannelStep
  <2> QED
    BY <1>1, <1>2, <1>3, <1>5, <2>1, <2>2 DEF Requeued
<1> QED
  BY <1>4, <1>5

LEMMA InQueue ==
  ASSUME NEW V, NEW q \in Seq(V), Once(q), NEW id \in V, NEW none,
         Among(q, id) <=> ~none, NEW r, r = IF none THEN Append(q, id) ELSE q
  PROVE  /\ r \in Seq(V) /\ Once(r)
         /\ \A j : Among(r, j) <=> Among(q, j) \/ j = id
<1>1. CASE none
  <2>1. r = Append(q, id) /\ ~Among(q, id)
    BY <1>1
  <2> QED
    BY ZenonT(60), <2>1, AppendFacts
<1>2. CASE ~none
  BY <1>2
<1> QED
  BY <1>1, <1>2

LEMMA EnqueueKeeps ==
  ASSUME NEW p, NEW V, NEW X, DaemonInv(p, V, X), NEW id \in DOMAIN p.channels,
         NEW type \in R2aTypes, NEW len \in Nat, NEW val,
         NEW e, e = CreateAndEnqueuePacket(p, id, type, len, val)
  PROVE  /\ DaemonInv(e, V, X) /\ Changed(p, e, id, {"packet_queue"})
         /\ DOMAIN e.channels = DOMAIN p.channels
         /\ e.channels[id].packet_queue # <<>>
<1>1. /\ DOMAIN p = DaemonFields /\ ChannelOK(p, id, X) /\ id \in V
      /\ DOMAIN p.channels[id] = ChannelFields
      /\ p.send_queue \in Seq(V) /\ Once(p.send_queue)
  BY DaemonFacts
<1> DEFINE q == p.channels[id].packet_queue
           x == Packet(type, id, len % RingSize, val, p.channels[id].conv)
           pq == Append(q, x)
           sq == IF q = <<>> THEN Append(p.send_queue, id) ELSE p.send_queue
<1>2. /\ Packets(q, {id}) /\ (Among(p.send_queue, id) <=> q # <<>>)
  BY <1>1 DEF ChannelOK
<1>3. len % RingSize \in Nat
  BY LinkAssumption DEF HeaderBytes
<1>4. x.type \in R2aTypes /\ x.id \in {id} /\ x.len \in Nat
  BY <1>3 DEF Packet
<1>5. e = [p EXCEPT !.channels[id].packet_queue = pq, !.send_queue = sq]
  BY <1>1 DEF CreateAndEnqueuePacket, DaemonFields, ChannelFields
<1> HIDE DEF x
<1>6. Packets(pq, {id}) /\ pq # <<>>
  BY <1>2, <1>4, PacketsAppend
<1> HIDE DEF q
<1>7. /\ sq \in Seq(V) /\ Once(sq)
      /\ \A j : Among(sq, j) <=> Among(p.send_queue, j) \/ j = id
  <2> DEFINE old == p.send_queue
             none == q = <<>>
  <2>1. /\ old \in Seq(V) /\ Once(old) /\ id \in V /\ (Among(old, id) <=> ~none)
        /\ sq = IF none THEN Append(old, id) ELSE old
    BY <1>1, <1>2 DEF q
  <2> HIDE DEF pq, sq, old, none
  <2>2. /\ sq \in Seq(V) /\ Once(sq)
        /\ \A j : Among(sq, j) <=> Among(old, j) \/ j = id
    BY <2>1, InQueue
  <2> QED
    BY <2>2 DEF old
<1> HIDE DEF pq, sq
<1>8. PutBack(p, e, id, pq, sq)
  BY <1>1, <1>5 DEF PutBack, DaemonFields
<1>9. Requeued(p, e, id, V, pq)
  BY <1>6, <1>7, <1>8, PutBackFacts
<1>10. DaemonInv(e, V, X) /\ e.channels[id].packet_queue = pq
       /\ DOMAIN e.channels = DOMAIN p.channels
  BY <1>9, RequeuedKeeps
<1>11. Changed(p, e, id, {"packet_queue"})
  BY <1>9 DEF Requeued
<1> QED
  BY <1>6, <1>10, <1>11

LEMMA RemoveDoneKeeps ==
  ASSUME NEW p, NEW V, NEW X, DaemonInv(p, V, X), NEW id \in V,
         NEW e, e = RemoveChannelIfDone(p, id)
  PROVE  DaemonInv(e, V, X)
<1> DEFINE rest == [j \in DOMAIN p.channels \ {id} |-> p.channels[j]]
           c == [p EXCEPT !.channels = rest]
<1>1. /\ DOMAIN p = DaemonFields /\ p.send_queue \in Seq(V) /\ Once(p.send_queue)
      /\ \A j : Among(p.send_queue, j) => j \in DOMAIN p.channels
  BY DaemonFacts
<1>2. CASE /\ id \in DOMAIN p.channels /\ p.channels[id].association = NoClient
           /\ p.channels[id].packet_queue = <<>>
  <2>1. e = c
    BY <1>2 DEF RemoveChannelIfDone
  <2>2. ~Among(p.send_queue, id)
    BY <1>2, DaemonFacts DEF ChannelOK
  <2>3. /\ DOMAIN e = DaemonFields /\ e.channels = rest
        /\ e.send_queue = p.send_queue
        /\ \A f \in DaemonFields \ {"channels"} : e[f] = p[f]
    BY <1>1, <2>1 DEF DaemonFields
  <2>4. /\ DOMAIN e.channels = DOMAIN p.channels \ {id}
        /\ \A j \in DOMAIN p.channels : j # id => e.channels[j] = p.channels[j]
    BY <2>3
  <2>5. ChannelStep(p, e, id)
    BY <2>3, <2>4 DEF ChannelStep
  <2> QED
    BY <1>1, <2>2, <2>3, <2>4, <2>5, OneChannel
<1>3. CASE ~ /\ id \in DOMAIN p.channels /\ p.channels[id].association = NoClient
             /\ p.channels[id].packet_queue = <<>>
  BY <1>3 DEF RemoveChannelIfDone
<1> QED
  BY <1>2, <1>3

-----------------------------------------------------------------------------
(* The messages of clients.                                                *)

LEMMA RegisterKeeps ==
  ASSUME NEW p, NEW V, NEW X, DaemonInv(p, V, X), NEW c \in Clients,
         p.connections[c] \in Alive, NEW name,
         NEW e, e = [p EXCEPT !.services = With(@, name, c)]
  PROVE  DaemonInv(e, V, X) /\ e.channels = p.channels /\ e.connections = p.connections
         /\ DOMAIN e = DaemonFields
<1>1. DOMAIN p = DaemonFields /\ TablesOK(p, V)
  BY DaemonFacts
<1>2. /\ DOMAIN e = DaemonFields /\ \A f \in DaemonFields \ {"services"} : e[f] = p[f]
      /\ e.services = With(p.services, name, c) /\ e.connections = p.connections
      /\ e.channels = p.channels
  BY <1>1 DEF DaemonFields
<1>3. \A n \in DOMAIN e.services :
        e.services[n] \in Clients /\ e.connections[e.services[n]] \in Alive
  BY <1>1, <1>2 DEF With, TablesOK
<1>4. e.connections \in [Clients -> {"unused", "open", "gone", "closed"}]
  BY <1>1, <1>2 DEF TablesOK
<1>5. Reconnected(p, e, X)
  BY <1>2, <1>3, <1>4 DEF Reconnected
<1> QED
  BY <1>2, <1>5, SameChannels

LEMMA DeregisterKeeps ==
  ASSUME NEW p, NEW V, NEW X, DaemonInv(p, V, X), NEW gone,
         NEW rest, rest = [n \in DOMAIN p.services \ gone |-> p.services[n]],
         NEW e, e = [p EXCEPT !.services = rest]
  PROVE  DaemonInv(e, V, X) /\ DOMAIN e = DaemonFields
         /\ e.channels = p.channels /\ e.connections = p.connections
<1>1. DOMAIN p = DaemonFields /\ TablesOK(p, V)
  BY DaemonFacts
<1>2. /\ DOMAIN e = DaemonFields /\ \A f \in DaemonFields \ {"services"} : e[f] = p[f]
      /\ e.services = rest
      /\ e.connections = p.connections /\ e.channels = p.channels
  BY <1>1 DEF DaemonFields
<1>3. \A n \in DOMAIN e.services :
        e.services[n] \in Clients /\ e.connections[e.services[n]] \in Alive
  BY <1>1, <1>2 DEF TablesOK
<1>4. e.connections \in [Clients -> {"unused", "open", "gone", "closed"}]
  BY <1>1, <1>2 DEF TablesOK
<1>5. Reconnected(p, e, X)
  BY <1>2, <1>3, <1>4 DEF Reconnected
<1> QED
  BY <1>2, <1>5, SameChannels

LEMMA ServiceMessageKeeps ==
  ASSUME NEW p, NEW V, NEW X, DaemonInv(p, V, X), NEW c \in Clients,
         p.connections[c] \in Alive, NEW m,
         NEW e, \/ e = HandleMsgRegisterReq(p, c, m)
                \/ e = HandleMsgDeregisterReq(p, c, m)
  PROVE  DaemonInv(e, V, X) /\ e.connections = p.connections
<1> DEFINE a == [p EXCEPT !.services = With(@, m.val, c)]
           rest == [n \in DOMAIN p.services \ {m.val} |-> p.services[n]]
           b == [p EXCEPT !.services = rest]
<1>1. \E q \in {p, a, b} : \E w : e = CreateAndSendMsg(q, c, w)
  BY DEF HandleMsgRegisterReq, HandleMsgDeregisterReq
<1>2. PICK q \in {p, a, b} : \E w : e = CreateAndSendMsg(q, c, w)
  BY <1>1
<1>3. /\ DaemonInv(a, V, X) /\ a.connections = p.connections /\ DOMAIN a = DaemonFields
  BY RegisterKeeps
<1>4. /\ DaemonInv(b, V, X) /\ b.connections = p.connections /\ DOMAIN b = DaemonFields
  <2> DEFINE gone == {m.val}
  <2>1. rest = [n \in DOMAIN p.services \ gone |-> p.services[n]]
    OBVIOUS
  <2> HIDE DEF gone, rest
  <2> QED
    BY <2>1, DeregisterKeeps
<1> HIDE DEF a, b
<1>5. DaemonInv(q, V, X) /\ q.connections = p.connections /\ DOMAIN q = DaemonFields
  BY <1>2, <1>3, <1>4, DaemonFacts
<1>6. Aside(q, e)
  BY <1>2, <1>5, SendFacts
<1> QED
  BY <1>5, <1>6, AsideKeeps

\* The flags of a channel have nothing to do with the tables.
LEMMA GotEosKeeps ==
  ASSUME NEW p, NEW V, NEW X, DaemonInv(p, V, X), NEW id \in DOMAIN p.channels,
         NEW e, Changed(p, e, id, {"got_eos_from_client", "got_eos_from_ami"}),
         e.send_queue = p.send_queue
  PROVE  DaemonInv(e, V, X)
<1>1. /\ ChannelStep(p, e, id) /\ DOMAIN e.channels = DOMAIN p.channels
      /\ DOMAIN e.channels[id] = ChannelFields
      /\ e.channels[id].association = p.channels[id].association
      /\ e.channels[id].stream_id = p.channels[id].stream_id
      /\ e.channels[id].packet_queue = p.channels[id].packet_queue
      /\ e.connections = p.connections /\ e.stream_ids = p.stream_ids
  BY ChangedFacts DEF Changed, ChannelFields
<1>2. /\ ChannelOK(p, id, X) /\ id \in V /\ p.send_queue \in Seq(V)
      /\ Once(p.send_queue)
  BY DaemonFacts
<1>3. ChannelOK(e, id, X)
  BY <1>1, <1>2 DEF ChannelOK
<1> QED
  BY <1>1, <1>2, <1>3, OneChannel

LEMMA ConnectResponseMsgKeeps ==
  ASSUME NEW p, NEW V, NEW X, DaemonInv(p, V, X), NEW id \in DOMAIN p.channels,
         NEW m, NEW e, e = HandleMsgConnectResponse(p, id, m)
  PROVE  DaemonInv(e, V, X) /\ e.connections = p.connections
<1> DEFINE a == CreateAndEnqueuePacket(p, id, "CONNECT_RESPONSE", 1, m.val)
<1>1. e = a \/ e = RemoveAssociation(a, id)
  BY DEF HandleMsgConnectResponse
<1>2. 1 \in Nat /\ "CONNECT_RESPONSE" \in R2aTypes
  BY DEF R2aTypes
<1>3. /\ DaemonInv(a, V, X) /\ Changed(p, a, id, {"packet_queue"})
      /\ DOMAIN a.channels = DOMAIN p.channels
  BY <1>2, EnqueueKeeps
<1> HIDE DEF a
<1>4. a.connections = p.connections
  BY <1>3, ChangedFacts
<1> DEFINE b == RemoveAssociation(a, id)
<1>5. DaemonInv(b, V, X) /\ Changed(a, b, id, {"association", "stream_id"})
  BY <1>3, RemoveAssociationKeeps
<1> HIDE DEF b
<1>6. b.connections = p.connections
  BY <1>3, <1>4, <1>5, ChangedFacts
<1> QED
  BY <1>1, <1>3, <1>4, <1>5, <1>6 DEF b

LEMMA DataMsgKeeps ==
  ASSUME NEW p, NEW V, NEW X, DaemonInv(p, V, X), NEW id \in DOMAIN p.channels,
         NEW m, m.len \in Nat, NEW e, e = HandleMsgData(p, id, m)
  PROVE  DaemonInv(e, V, X) /\ e.connections = p.connections
<1> DEFINE a == CreateAndEnqueuePacket(p, id, "DATA", m.len, m.val)
<1>1. e = [a EXCEPT !.hist[m.conv].sent = Append(@, m.val)]
  BY DEF HandleMsgData
<1>2. "DATA" \in R2aTypes
  BY DEF R2aTypes
<1>3. DaemonInv(a, V, X) /\ Changed(p, a, id, {"packet_queue"})
  BY <1>2, EnqueueKeeps
<1> HIDE DEF a
<1>4. a.connections = p.connections /\ DOMAIN a = DaemonFields
  BY <1>3, ChangedFacts
<1>5. Aside(a, e)
  BY <1>1, <1>4 DEF Aside, DaemonFields
<1> QED
  BY <1>3, <1>4, <1>5, AsideKeeps

LEMMA EosMsgKeeps ==
  ASSUME NEW p, NEW V, NEW X, DaemonInv(p, V, X), NEW id \in DOMAIN p.channels,
         NEW m, NEW e, e = HandleMsgEos(p, id, m)
  PROVE  DaemonInv(e, V, X) /\ e.connections = p.connections
<1> DEFINE a == CreateAndEnqueuePacket(p, id, "EOS", 0, 0)
           b == [a EXCEPT !.channels[id].got_eos_from_client = TRUE,
                          !.hist[m.conv].sent_eos = Len(p.hist[m.conv].sent)]
           c == RemoveAssociation(b, id)
<1>1. e \in {p, b, c}
  BY DEF HandleMsgEos
<1>2. 0 \in Nat /\ "EOS" \in R2aTypes
  BY DEF R2aTypes
<1>3. /\ DaemonInv(a, V, X) /\ Changed(p, a, id, {"packet_queue"})
      /\ DOMAIN a.channels = DOMAIN p.channels
  BY <1>2, EnqueueKeeps
<1> HIDE DEF a
<1>4. /\ a.connections = p.connections /\ DOMAIN a = DaemonFields
      /\ DOMAIN a.channels[id] = ChannelFields
  BY <1>3, ChangedFacts DEF Changed
<1>5. /\ Changed(a, b, id, {"got_eos_from_client", "got_eos_from_ami"})
      /\ b.send_queue = a.send_queue
  BY <1>3, <1>4 DEF Changed, ChannelStep, DaemonFields, ChannelFields
<1> HIDE DEF b
<1>6. DaemonInv(b, V, X) /\ b.connections = p.connections
      /\ DOMAIN b.channels = DOMAIN a.channels
  BY <1>3, <1>4, <1>5, GotEosKeeps, ChangedFacts
<1>7. DaemonInv(c, V, X) /\ Changed(b, c, id, {"association", "stream_id"})
  BY <1>3, <1>6, RemoveAssociationKeeps
<1> HIDE DEF c
<1>8. c.connections = p.connections
  BY <1>3, <1>6, <1>7, ChangedFacts
<1> QED
  BY <1>1, <1>6, <1>7, <1>8

LEMMA ResetChannelKeeps ==
  ASSUME NEW p, NEW V, NEW X, DaemonInv(p, V, X), NEW id \in DOMAIN p.channels,
         NEW Y, X \subseteq Y \cup {id}, NEW e, e = ResetChannel(p, id)
  PROVE  /\ DaemonInv(e, V, Y) /\ e.connections = p.connections
         /\ DOMAIN e.channels = DOMAIN p.channels
<1> DEFINE a == RemoveAssociation(p, id)
           b == ClearPacketQueue(a, id)
           c == CreateAndEnqueuePacket(b, id, "RESET", 0, 0)
<1>1. e = [c EXCEPT !.hist[p.channels[id].conv].client_reset = TRUE]
  BY DEF ResetChannel
<1>2. /\ DaemonInv(a, V, Y) /\ Changed(p, a, id, {"association", "stream_id"})
  BY RemoveAssociationKeeps
<1> HIDE DEF a
<1>3. a.connections = p.connections /\ DOMAIN a.channels = DOMAIN p.channels
  BY <1>2, ChangedFacts
<1>4. Requeued(a, b, id, V, <<>>)
  BY <1>2, <1>3, ClearKeeps
<1> HIDE DEF b
<1>5. DaemonInv(b, V, Y) /\ Changed(a, b, id, {"packet_queue"})
  BY <1>2, <1>3, <1>4, RequeuedKeeps DEF Requeued
<1>6. b.connections = p.connections /\ DOMAIN b.channels = DOMAIN p.channels
  BY <1>2, <1>3, <1>5, ChangedFacts
<1>7. 0 \in Nat /\ "RESET" \in R2aTypes
  BY DEF R2aTypes
<1>8. DaemonInv(c, V, Y) /\ Changed(b, c, id, {"packet_queue"})
  BY <1>5, <1>6, <1>7, EnqueueKeeps
<1> HIDE DEF c
<1>9. /\ c.connections = p.connections /\ DOMAIN c.channels = DOMAIN p.channels
      /\ DOMAIN c = DaemonFields
  BY <1>5, <1>6, <1>8, ChangedFacts
<1>10. Aside(c, e)
  BY <1>1, <1>9 DEF Aside, DaemonFields
<1> QED
  BY <1>8, <1>9, <1>10, AsideKeeps

LEMMA MessageKeeps ==
  ASSUME NEW p, NEW V, NEW X, DaemonInv(p, V, X), NEW c \in Clients,
         p.connections[c] \in Alive, NEW m, MessageOK(m),
         NEW e, e = HandleReceivedMessage(p, c, m)
  PROVE  DaemonInv(e, V, X) /\ e.connections = p.connections
<1> DEFINE ids == ChannelsOf(p, c, m.sid)
           id == CHOOSE id \in ids : TRUE
<1>1. CASE m.type = "REGISTER"
  <2>1. e = HandleMsgRegisterReq(p, c, m)
    BY <1>1 DEF HandleReceivedMessage
  <2> QED
    BY <2>1, ServiceMessageKeeps
<1>2. CASE m.type = "DEREGISTER"
  <2>1. e = HandleMsgDeregisterReq(p, c, m)
    BY <1>2 DEF HandleReceivedMessage
  <2> QED
    BY <2>1, ServiceMessageKeeps
<1>3. CASE m.type \notin {"REGISTER", "DEREGISTER"}
  <2>1. CASE ids = {}
    BY <1>3, <2>1 DEF HandleReceivedMessage
  <2>2. CASE ids # {}
    <3>1. id \in ids
      BY <2>2
    <3>2. id \in DOMAIN p.channels
      BY <3>1 DEF ChannelsOf, Associations
    <3>3. e = CASE m.type = "RESPONSE" -> HandleMsgConnectResponse(p, id, m)
                [] m.type = "DATA"     -> HandleMsgData(p, id, m)
                [] m.type = "EOS"      -> HandleMsgEos(p, id, m)
                [] m.type = "RESET"    -> ResetChannel(p, id)
      BY <1>3, <2>2 DEF HandleReceivedMessage
    <3> HIDE DEF id
    <3>4. m.type \in {"RESPONSE", "DATA", "EOS", "RESET"}
      BY <1>3 DEF MessageOK, MessageTypes
    <3>5. CASE m.type = "RESPONSE"
      <4>1. e = HandleMsgConnectResponse(p, id, m)
        BY <3>3, <3>5
      <4> QED
        BY <3>2, <4>1, ConnectResponseMsgKeeps
    <3>6. CASE m.type = "DATA"
      <4>1. e = HandleMsgData(p, id, m) /\ m.len \in Nat
        BY <3>3, <3>6 DEF MessageOK
      <4> QED
        BY <3>2, <4>1, DataMsgKeeps
    <3>7. CASE m.type = "EOS"
      <4>1. e = HandleMsgEos(p, id, m)
        BY <3>3, <3>7
      <4> QED
        BY <3>2, <4>1, EosMsgKeeps
    <3>8. CASE m.type = "RESET"
      <4>1. e = ResetChannel(p, id) /\ X \subseteq X \cup {id}
        BY <3>3, <3>8
      <4> QED
        BY <3>2, <4>1, ResetChannelKeeps
    <3> QED
      BY <3>4, <3>5, <3>6, <3>7, <3>8
  <2> QED
    BY <2>1, <2>2
<1> QED
  BY <1>1, <1>2, <1>3

-----------------------------------------------------------------------------
(* The loops of the daemon.                                                *)

\* What the body of a loop makes of q; x is the item that is handled.
Body(loop, q, c, x) ==
  CASE loop = "messages" -> HandleReceivedMessage(q, c, x)
    [] loop = "packets"  -> HandleReceivedPkt(q, x)
    [] loop = "resets"   -> ResetChannel(q, x)
    [] loop = "restart"  -> SendOnStream(q, x, "RESET", 0)
    [] loop = "flush"    -> FlushOne(q)

\* f[i] is the state when i items of xs have been handled.
Rounds(loop, p, c, xs, n, f) ==
  f[0] = p /\ \A i \in 1 .. n : f[i] = Body(loop, f[i - 1], c, xs[i])

Loop(loop, p, c, xs, n, f) ==
  f = [i \in 0 .. n |-> IF i = 0 THEN p ELSE Body(loop, f[i - 1], c, xs[i])]

LEMMA LoopExists ==
  ASSUME NEW loop, NEW p, NEW c, NEW xs, NEW n \in Nat
  PROVE  \E f : Loop(loop, p, c, xs, n, f)
<1> DEFINE S == {m \in Nat : \E g : Rounds(loop, p, c, xs, m, g)}
<1>1. 0 \in S
  <2> DEFINE g == [i \in {0} |-> p]
  <2>1. Rounds(loop, p, c, xs, 0, g)
    BY DEF Rounds
  <2> QED
    BY <2>1
<1>2. ASSUME NEW m \in Nat, m \in S PROVE m + 1 \in S
  <2>1. PICK g : Rounds(loop, p, c, xs, m, g)
    BY <1>2
  <2> DEFINE x == Body(loop, g[m], c, xs[m + 1])
             h == [i \in 0 .. m + 1 |-> IF i = m + 1 THEN x ELSE g[i]]
  <2>2. h[0] = p
    BY <2>1 DEF Rounds
  <2>3. ASSUME NEW i \in 1 .. m + 1 PROVE h[i] = Body(loop, h[i - 1], c, xs[i])
    <3>1. h[i - 1] = g[i - 1] /\ i - 1 \in 0 .. m
      OBVIOUS
    <3>2. CASE i = m + 1
      <4>1. h[i] = x /\ i - 1 = m
        BY <3>2
      <4> QED
        BY <3>1, <3>2, <4>1
    <3>3. CASE i # m + 1
      <4>1. i \in 1 .. m /\ h[i] = g[i]
        BY <3>3
      <4> QED
        BY <2>1, <3>1, <4>1 DEF Rounds
    <3> QED
      BY <3>2, <3>3
  <2> HIDE DEF h
  <2>4. Rounds(loop, p, c, xs, m + 1, h)
    BY <2>2, <2>3 DEF Rounds
  <2> QED
    BY <2>4
<1> HIDE DEF S
<1>3. n \in S
  BY <1>1, <1>2, SetInduction
<1>4. PICK g : Rounds(loop, p, c, xs, n, g)
  BY <1>3 DEF S
<1> DEFINE f == [i \in 0 .. n |-> g[i]]
<1>5. ASSUME NEW i \in 0 .. n
      PROVE  f[i] = IF i = 0 THEN p ELSE Body(loop, f[i - 1], c, xs[i])
  <2>1. CASE i = 0
    BY <1>4, <2>1 DEF Rounds
  <2>2. CASE i # 0
    <3>1. i \in 1 .. n /\ i - 1 \in 0 .. n
      BY <2>2
    <3> QED
      BY <1>4, <3>1 DEF Rounds
  <2> QED
    BY <2>1, <2>2
<1>6. f = [i \in 0 .. n |-> IF i = 0 THEN p ELSE Body(loop, f[i - 1], c, xs[i])]
  BY <1>5
<1> QED
  BY <1>6 DEF Loop

LEMMA MessagesLoop ==
  ASSUME NEW p, NEW c, NEW msgs, Len(msgs) \in Nat,
         NEW e, e = HandleReceivedMessages(p, c, msgs)
  PROVE  \E f : Rounds("messages", p, c, msgs, Len(msgs), f) /\ e = f[Len(msgs)]
<1> DEFINE n == Len(msgs)
           R(f) == f = [i \in 0 .. n |->
                          IF i = 0 THEN p
                          ELSE HandleReceivedMessage(f[i - 1], c, msgs[i])]
           F == CHOOSE f : R(f)
<1>1. PICK f : Loop("messages", p, c, msgs, n, f)
  BY LoopExists
<1>2. R(f)
  BY <1>1 DEF Body, Loop
<1>3. R(F) /\ e = F[n]
  BY <1>2 DEF HandleReceivedMessages
<1> HIDE DEF F
<1>4. F[0] = p /\ \A i \in 1 .. n : F[i] = HandleReceivedMessage(F[i - 1], c, msgs[i])
  BY <1>3
<1>5. Rounds("messages", p, c, msgs, n, F)
  BY <1>4 DEF Rounds, Body
<1> QED
  BY <1>3, <1>5

LEMMA PacketsLoop ==
  ASSUME NEW p, NEW pkts, Len(pkts) \in Nat, NEW e, e = HandleReceivedPkts(p, pkts)
  PROVE  \E f : Rounds("packets", p, NoClient, pkts, Len(pkts), f) /\ e = f[Len(pkts)]
<1> DEFINE n == Len(pkts)
           R(f) == f = [i \in 0 .. n |->
                          IF i = 0 THEN p ELSE HandleReceivedPkt(f[i - 1], pkts[i])]
           F == CHOOSE f : R(f)
<1>1. PICK f : Loop("packets", p, NoClient, pkts, n, f)
  BY LoopExists
<1>2. R(f)
  BY <1>1 DEF Body, Loop
<1>3. R(F) /\ e = F[n]
  BY <1>2 DEF HandleReceivedPkts
<1> HIDE DEF F
<1>4. F[0] = p /\ \A i \in 1 .. n : F[i] = HandleReceivedPkt(F[i - 1], pkts[i])
  BY <1>3
<1>5. Rounds("packets", p, NoClient, pkts, n, F)
  BY <1>4 DEF Rounds, Body
<1> QED
  BY <1>3, <1>5

LEMMA ResetsLoop ==
  ASSUME NEW p, NEW ids, Len(ids) \in Nat, NEW e, e = ResetChannels(p, ids)
  PROVE  \E f : Rounds("resets", p, NoClient, ids, Len(ids), f) /\ e = f[Len(ids)]
<1> DEFINE n == Len(ids)
           R(f) == f = [i \in 0 .. n |->
                          IF i = 0 THEN p ELSE ResetChannel(f[i - 1], ids[i])]
           F == CHOOSE f : R(f)
<1>1. PICK f : Loop("resets", p, NoClient, ids, n, f)
  BY LoopExists
<1>2. R(f)
  BY <1>1 DEF Body, Loop
<1>3. R(F) /\ e = F[n]
  BY <1>2 DEF ResetChannels
<1> HIDE DEF F
<1>4. F[0] = p /\ \A i \in 1 .. n : F[i] = ResetChannel(F[i - 1], ids[i])
  BY <1>3
<1>5. Rounds("resets", p, NoClient, ids, n, F)
  BY <1>4 DEF Rounds, Body
<1> QED
  BY <1>3, <1>5

LEMMA FlushLoop ==
  ASSUME NEW p, NEW e, e = Flush(p)
  PROVE  \E f : \E n \in Nat : Rounds("flush", p, NoClient, <<>>, n, f) /\ e = f[n]
<1> DEFINE n == RingSize \div HeaderBytes
           R(f) == f = [i \in 0 .. n |-> IF i = 0 THEN p ELSE FlushOne(f[i - 1])]
           F == CHOOSE f : R(f)
           none == <<>>
<1>1. n \in Nat
  BY LinkAssumption DEF HeaderBytes
<1>2. e = F[n]
  BY DEF Flush
<1> HIDE DEF n, none
<1>3. PICK f : Loop("flush", p, NoClient, none, n, f)
  BY <1>1, LoopExists
<1>4. R(f)
  BY <1>3 DEF Body, Loop
<1>5. R(F)
  BY <1>4
<1> HIDE DEF F
<1>6. F[0] = p /\ \A i \in 1 .. n : F[i] = FlushOne(F[i - 1])
  BY <1>1, <1>5
<1>7. Rounds("flush", p, NoClient, none, n, F)
  BY <1>6 DEF Rounds, Body
<1> QED
  BY <1>1, <1>2, <1>7 DEF none

\* A finite set has an enumeration in the order of the numbers g.
Enumerates(s, A, g) ==
  /\ s \in [1 .. Cardinality(A) -> A]
  /\ \A x \in A : \E i \in 1 .. Cardinality(A) : s[i] = x
  /\ \A i, j \in 1 .. Cardinality(A) : i < j => g[s[i]] <= g[s[j]]

LEMMA EnumerationExists ==
  ASSUME NEW B, IsFiniteSet(B), NEW g \in [B -> Nat]
  PROVE  \E s : Enumerates(s, B, g)
<1> DEFINE S == {n \in Nat : \A A \in SUBSET B :
                   Cardinality(A) = n => \E s : Enumerates(s, A, g)}
<1>1. 0 \in S
  <2> SUFFICES ASSUME NEW A \in SUBSET B, Cardinality(A) = 0
               PROVE  \E s : Enumerates(s, A, g)
    OBVIOUS
  <2>1. IsFiniteSet(A)
    BY FS_Subset
  <2>2. A = {}
    BY <2>1, FS_EmptySet
  <2> DEFINE s == [i \in 1 .. 0 |-> 0]
  <2>3. Enumerates(s, A, g)
    BY <2>2 DEF Enumerates
  <2> QED
    BY <2>3
<1>2. ASSUME NEW n \in Nat, n \in S PROVE n + 1 \in S
  <2> SUFFICES ASSUME NEW A \in SUBSET B, Cardinality(A) = n + 1
               PROVE  \E s : Enumerates(s, A, g)
    OBVIOUS
  <2>1. IsFiniteSet(A)
    BY FS_Subset
  <2>2. A # {}
    BY FS_EmptySet
  <2> DEFINE G == {g[x] : x \in A}
  <2>3. G \subseteq Nat /\ G # {}
    BY <2>2
  <2>4. PICK m \in G : \A y \in G : m <= y
    <3>1. Min(G) \in G /\ \A y \in G : Min(G) <= y
      BY <2>3, MinOfSet
    <3> QED
      BY <3>1
  <2>5. PICK a \in A : g[a] = m
    BY <2>4
  <2> DEFINE C == A \ {a}
  <2>6. Cardinality(C) = n /\ C \in SUBSET B
    <3>1. Cardinality(C) = Cardinality(A) - 1
      BY <2>1, <2>5, FS_RemoveElement
    <3> QED
      BY <3>1
  <2> HIDE DEF C
  <2>7. PICK t : Enumerates(t, C, g)
    BY <1>2, <2>6
  <2> DEFINE s == [i \in 1 .. n + 1 |-> IF i = 1 THEN a ELSE t[i - 1]]
  <2>8. \A i \in 1 .. n + 1 : i # 1 => i - 1 \in 1 .. n /\ t[i - 1] \in C
    BY <2>6, <2>7 DEF Enumerates
  <2>9. s \in [1 .. n + 1 -> A] /\ s[1] = a /\ \A i \in 1 .. n + 1 : i # 1 => s[i] = t[i - 1]
    BY <2>8 DEF C
  <2>10. \A i \in 1 .. n : s[i + 1] = t[i]
    BY <2>9
  <2> HIDE DEF s
  <2>11. ASSUME NEW x \in A PROVE \E i \in 1 .. n + 1 : s[i] = x
    <3>1. CASE x = a
      BY <2>9, <3>1
    <3>2. CASE x # a
      <4>1. x \in C
        BY <3>2 DEF C
      <4>2. PICK i \in 1 .. n : t[i] = x
        BY <2>6, <2>7, <4>1 DEF Enumerates
      <4>3. i + 1 \in 1 .. n + 1 /\ s[i + 1] = x
        BY <2>10, <4>2
      <4> QED
        BY <4>3
    <3> QED
      BY <3>1, <3>2
  <2>12. ASSUME NEW i \in 1 .. n + 1, NEW j \in 1 .. n + 1, i < j
         PROVE  g[s[i]] <= g[s[j]]
    <3>1. j # 1 /\ s[j] \in A /\ g[s[j]] \in G
      BY <2>9, <2>12
    <3>2. CASE i = 1
      BY <2>4, <2>5, <2>9, <3>1, <3>2
    <3>3. CASE i # 1
      <4>1. /\ i - 1 \in 1 .. n /\ j - 1 \in 1 .. n /\ i - 1 < j - 1
            /\ s[i] = t[i - 1] /\ s[j] = t[j - 1]
        BY SMTT(30), <2>9, <2>12, <3>1, <3>3
      <4>2. g[t[i - 1]] <= g[t[j - 1]]
        BY <2>6, <2>7, <4>1 DEF Enumerates
      <4> QED
        BY <4>1, <4>2
    <3> QED
      BY <3>2, <3>3
  <2>13. Enumerates(s, A, g)
    BY <2>9, <2>11, <2>12 DEF Enumerates
  <2> QED
    BY <2>13
<1> HIDE DEF S
<1>3. \A n \in Nat : n \in S
  BY <1>1, <1>2, SetInduction
<1>4. Cardinality(B) \in Nat
  BY FS_CardinalityType
<1>5. Cardinality(B) \in S
  BY <1>3, <1>4
<1> QED
  BY <1>5 DEF S

LEMMA InOrderFacts ==
  ASSUME NEW p, NEW A, IsFiniteSet(A), \A id \in A : p.channels[id].stream_id \in Nat,
         NEW s, s = InOrder(p, A)
  PROVE  /\ Len(s) \in Nat /\ \A i \in 1 .. Len(s) : s[i] \in A
         /\ \A id \in A : \E i \in 1 .. Len(s) : s[i] = id
<1> DEFINE g == [id \in A |-> p.channels[id].stream_id]
           Q(t) == /\ \A id \in A : \E i \in DOMAIN t : t[i] = id
                   /\ \A i, j \in DOMAIN t :
                        i < j => p.channels[t[i]].stream_id <= p.channels[t[j]].stream_id
<1>1. g \in [A -> Nat]
  OBVIOUS
<1>2. PICK t : Enumerates(t, A, g)
  BY <1>1, EnumerationExists
<1>3. t \in [1 .. Cardinality(A) -> A] /\ Q(t)
  BY <1>2 DEF Enumerates
<1>4. s = CHOOSE u \in [1 .. Cardinality(A) -> A] : Q(u)
  BY DEF InOrder
<1>5. s \in [1 .. Cardinality(A) -> A] /\ Q(s)
  BY <1>3, <1>4
<1>6. Cardinality(A) \in Nat
  BY FS_CardinalityType
<1>7. s \in Seq(A) /\ Len(s) = Cardinality(A)
  <2>1. s \in Seq(A)
    BY <1>5, <1>6, SeqDef
  <2>2. DOMAIN s = 1 .. Len(s) /\ Len(s) \in Nat
    BY <2>1, LenProperties
  <2> QED
    BY <1>5, <1>6, <2>1, <2>2
<1> QED
  BY <1>5, <1>6, <1>7

LEMMA MessagesKeep ==
  ASSUME NEW p, NEW V, NEW X, DaemonInv(p, V, X), NEW c \in Clients,
         p.connections[c] \in Alive, NEW msgs, Messages(msgs),
         NEW e, e = HandleReceivedMessages(p, c, msgs)
  PROVE  DaemonInv(e, V, X) /\ e.connections = p.connections
<1> DEFINE n == Len(msgs)
<1>1. n \in Nat /\ \A i \in 1 .. n : MessageOK(msgs[i])
  BY LenProperties DEF Messages
<1>2. PICK f : Rounds("messages", p, c, msgs, n, f) /\ e = f[n]
  BY <1>1, MessagesLoop
<1>3. f[0] = p /\ \A i \in 1 .. n : f[i] = HandleReceivedMessage(f[i - 1], c, msgs[i])
  BY <1>2 DEF Rounds, Body
<1> HIDE DEF n
<1> DEFINE S == {m \in Nat : m <= n =>
                   DaemonInv(f[m], V, X) /\ f[m].connections = p.connections}
<1>4. 0 \in S
  BY <1>3
<1>5. ASSUME NEW m \in Nat, m \in S PROVE m + 1 \in S
  <2> SUFFICES ASSUME m + 1 <= n
               PROVE  DaemonInv(f[m + 1], V, X) /\ f[m + 1].connections = p.connections
    OBVIOUS
  <2> DEFINE q == f[m]
             r == f[m + 1]
  <2>1. m + 1 \in 1 .. n /\ m + 1 - 1 = m
    BY <1>1
  <2>2. DaemonInv(q, V, X) /\ q.connections = p.connections
    <3>1. m <= n
      BY <1>1, <2>1
    <3> QED
      BY <1>5, <3>1
  <2>3. r = HandleReceivedMessage(q, c, msgs[m + 1]) /\ MessageOK(msgs[m + 1])
    BY <1>1, <1>3, <2>1
  <2> HIDE DEF q, r
  <2>4. DaemonInv(r, V, X) /\ r.connections = p.connections
    BY <2>2, <2>3, MessageKeeps
  <2> QED
    BY <2>4 DEF r
<1> HIDE DEF S
<1>6. n \in S
  BY <1>1, <1>4, <1>5, SetInduction
<1>7. DaemonInv(f[n], V, X) /\ f[n].connections = p.connections
  BY <1>1, <1>6 DEF S
<1> QED
  BY <1>2, <1>7 DEF n

LEMMA ResetsKeep ==
  ASSUME NEW p, NEW V, NEW X, DaemonInv(p, V, X), NEW ids, Len(ids) \in Nat,
         \A i \in 1 .. Len(ids) : ids[i] \in DOMAIN p.channels,
         \A id \in X : \E i \in 1 .. Len(ids) : ids[i] = id,
         NEW e, e = ResetChannels(p, ids)
  PROVE  DaemonInv(e, V, {}) /\ e.connections = p.connections
<1> DEFINE n == Len(ids)
           Y(m) == {ids[i] : i \in m + 1 .. n}
<1>1. PICK f : Rounds("resets", p, NoClient, ids, n, f) /\ e = f[n]
  BY ResetsLoop
<1>2. f[0] = p /\ \A i \in 1 .. n : f[i] = ResetChannel(f[i - 1], ids[i])
  BY <1>1 DEF Rounds, Body
<1> DEFINE S == {m \in Nat : m <= n =>
                   /\ DaemonInv(f[m], V, X \cap Y(m))
                   /\ f[m].connections = p.connections
                   /\ DOMAIN f[m].channels = DOMAIN p.channels}
<1>3. 0 \in S
  <2>1. X \cap Y(0) = X
    OBVIOUS
  <2> QED
    BY <1>2, <2>1
<1>4. ASSUME NEW m \in Nat, m \in S PROVE m + 1 \in S
  <2> SUFFICES ASSUME m + 1 <= n
               PROVE  /\ DaemonInv(f[m + 1], V, X \cap Y(m + 1))
                      /\ f[m + 1].connections = p.connections
                      /\ DOMAIN f[m + 1].channels = DOMAIN p.channels
    OBVIOUS
  <2> DEFINE q == f[m]
             r == f[m + 1]
             A == X \cap Y(m)
             B == X \cap Y(m + 1)
             id == ids[m + 1]
  <2>1. m + 1 \in 1 .. n /\ m + 1 - 1 = m
    OBVIOUS
  <2>2. /\ DaemonInv(q, V, A) /\ q.connections = p.connections
        /\ DOMAIN q.channels = DOMAIN p.channels
    BY <1>4, <2>1
  <2>3. r = ResetChannel(q, id) /\ id \in DOMAIN q.channels
    BY <1>2, <2>1, <2>2
  <2>4. A \subseteq B \cup {id}
    <3>1. ASSUME NEW i \in m + 1 .. n PROVE i = m + 1 \/ i \in m + 1 + 1 .. n
      OBVIOUS
    <3> QED
      BY <3>1
  <2> HIDE DEF q, r, A, B, id
  <2>5. /\ DaemonInv(r, V, B) /\ r.connections = p.connections
        /\ DOMAIN r.channels = DOMAIN p.channels
    <3>1. /\ DaemonInv(r, V, B) /\ r.connections = q.connections
          /\ DOMAIN r.channels = DOMAIN q.channels
      BY ONLY <2>2, <2>3, <2>4, ResetChannelKeeps
    <3> QED
      BY <2>2, <3>1
  <2> QED
    BY <2>5 DEF r, B
<1> HIDE DEF S
<1>5. n \in S
  BY <1>3, <1>4, SetInduction
<1>6. DaemonInv(f[n], V, X \cap Y(n)) /\ f[n].connections = p.connections
  BY <1>5 DEF S
<1>7. X \cap Y(n) = {}
  OBVIOUS
<1> QED
  BY <1>1, <1>6, <1>7

LEMMA CloseConnectionKeeps ==
  ASSUME NEW p, NEW V, DaemonInv(p, V, {}), IsFiniteSet(V), NEW c \in Clients,
         NEW e, e = CloseAndRemoveConnection(p, c)
  PROVE  DaemonInv(e, V, {})
<1> DEFINE A == Associations(p, c)
           rest == [n \in {n \in DOMAIN p.services : p.services[n] # c} |->
                      p.services[n]]
           a == [p EXCEPT !.services = rest, !.connections[c] = "closed",
                          !.message_queue[c] = <<>>]
           ids == InOrder(p, A)
<1>1. e = ResetChannels(a, ids)
  BY DEF CloseAndRemoveConnection
<1>2. DOMAIN p = DaemonFields /\ TablesOK(p, V) /\ DOMAIN p.channels \subseteq V
  BY DaemonFacts
<1>3. /\ A \subseteq DOMAIN p.channels /\ IsFiniteSet(A)
      /\ \A id \in DOMAIN p.channels : id \in A <=> p.channels[id].association = c
  BY <1>2, FS_Subset DEF Associations
<1>4. \A id \in A : p.channels[id].stream_id \in Nat
  BY <1>3, DaemonFacts, DaemonAssumption DEF ChannelOK
<1> HIDE DEF A
<1>5. /\ DOMAIN a = DaemonFields /\ a.services = rest
      /\ a.connections = [p.connections EXCEPT ![c] = "closed"]
      /\ \A f \in DaemonFields \ {"services", "connections", "message_queue"} :
           a[f] = p[f]
      /\ a.channels = p.channels
  BY <1>2 DEF DaemonFields
<1>6. /\ DOMAIN rest \subseteq DOMAIN p.services
      /\ \A n \in DOMAIN rest : rest[n] = p.services[n] /\ rest[n] # c
  OBVIOUS
<1> HIDE DEF a, rest, ids
<1>7. p.connections \in [Clients -> {"unused", "open", "gone", "closed"}]
  BY <1>2 DEF TablesOK
<1>8. /\ a.connections \in [Clients -> {"unused", "open", "gone", "closed"}]
      /\ \A x \in Clients : x # c => a.connections[x] = p.connections[x]
  BY <1>5, <1>7
<1>9. \A n \in DOMAIN a.services :
        a.services[n] \in Clients /\ a.connections[a.services[n]] \in Alive
  BY <1>2, <1>5, <1>6, <1>8 DEF TablesOK
<1>10. ASSUME NEW id \in DOMAIN p.channels, NEW x, x = p.channels[id].association,
              x # NoClient, p.connections[x] \in Alive
       PROVE  id \in A \/ a.connections[x] \in Alive
  <2>1. x \in Clients
    BY <1>10, DaemonFacts DEF ChannelOK
  <2> QED
    BY <1>3, <1>8, <1>10, <2>1
<1>11. DaemonInv(a, V, A)
  <2>1. \A id \in DOMAIN p.channels :
          LET x == p.channels[id].association IN
          x # NoClient /\ p.connections[x] \in Alive
            => id \in A \/ a.connections[x] \in Alive
    BY <1>10
  <2> QED
    <3>1. Reconnected(p, a, A)
      BY <1>5, <1>8, <1>9, <2>1 DEF Reconnected
    <3> QED
      BY <3>1, SameChannels
<1>12. /\ Len(ids) \in Nat /\ \A i \in 1 .. Len(ids) : ids[i] \in A
       /\ \A id \in A : \E i \in 1 .. Len(ids) : ids[i] = id
  BY <1>3, <1>4, InOrderFacts DEF ids
<1>13. \A i \in 1 .. Len(ids) : ids[i] \in DOMAIN a.channels
  BY <1>3, <1>5, <1>12
<1> QED
  BY <1>1, <1>11, <1>12, <1>13, ResetsKeep

-----------------------------------------------------------------------------
(* The packets of the Amiga.                                               *)

\* e is p but for fields fs.
Beyond(p, e, fs) ==
  /\ DOMAIN e = DaemonFields
  /\ \A f \in DaemonFields \ fs : e[f] = p[f]

LEMMA NewChannelKeeps ==
  ASSUME NEW p, NEW V, NEW X, DaemonInv(p, V, X), NEW id \in V,
         id \notin DOMAIN p.channels, NEW conv, NEW new, new = NewChannel(conv),
         NEW e, Beyond(p, e, {"channels"}), e.channels = With(p.channels, id, new)
  PROVE  /\ DaemonInv(e, V, X) /\ id \in DOMAIN e.channels
         /\ e.channels[id].association = NoClient
         /\ DOMAIN e.channels[id] = ChannelFields
         /\ \A f \in DaemonFields \ {"channels"} : e[f] = p[f]
<1>1. /\ DOMAIN p = DaemonFields /\ p.send_queue \in Seq(V) /\ Once(p.send_queue)
      /\ ~Among(p.send_queue, id)
  BY DaemonFacts
<1>2. /\ DOMAIN new = ChannelFields /\ new.association = NoClient
      /\ new.packet_queue = <<>>
  BY DEF NewChannel, ChannelFields
<1> DEFINE chs == With(p.channels, id, new)
<1>3. /\ DOMAIN chs = DOMAIN p.channels \cup {id} /\ chs[id] = new
      /\ \A j \in DOMAIN p.channels : chs[j] = p.channels[j]
  BY DEF With
<1>5. /\ DOMAIN e = DaemonFields /\ e.channels = chs /\ e.send_queue = p.send_queue
      /\ \A f \in DaemonFields \ {"channels"} : e[f] = p[f]
  BY DEF DaemonFields, Beyond
<1> HIDE DEF chs
<1>6. ChannelStep(p, e, id)
  BY <1>3, <1>5 DEF ChannelStep
<1>7. Packets(<<>>, {id})
  BY PacketsEmpty
<1>8. ChannelOK(e, id, X)
  BY <1>1, <1>2, <1>3, <1>5, <1>7 DEF ChannelOK
<1>9. DaemonInv(e, V, X)
  <2>1. X \subseteq X \cup {id} /\ id \in DOMAIN e.channels
        /\ e.channels[id].association = NoClient
    BY <1>2, <1>3, <1>5
  <2>2. e.send_queue \in Seq(V) /\ Once(e.send_queue)
    BY <1>1, <1>5
  <2> QED
    BY ONLY DaemonInv(p, V, X), id \in V, <1>6, <1>8, <2>1, <2>2, OneChannel
<1> QED
  BY <1>2, <1>3, <1>5, <1>9

\* A channel gets a stream of its connection that none of its channels has had.
LEMMA AssociateKeeps ==
  ASSUME NEW p, NEW V, NEW X, DaemonInv(p, V, X), NEW id \in DOMAIN p.channels,
         p.channels[id].association = NoClient, NEW c \in Clients,
         p.connections[c] \in Alive, NEW name, NEW e, e = Associate(p, id, c, name)
  PROVE  DaemonInv(e, V, X)
<1> DEFINE sid == p.stream_ids[c]
           a == [p EXCEPT !.channels[id].association = c,
                          !.channels[id].stream_id = sid, !.stream_ids[c] = @ + 2]
           m == Message("CONNECT", sid, name, p.channels[id].conv)
<1>1. e = CreateAndSendMsg(a, c, m)
  BY DEF Associate
<1>2. /\ DOMAIN p = DaemonFields /\ TablesOK(p, V) /\ DQueueOK(p, V)
      /\ StreamsDistinct(p) /\ DOMAIN p.channels[id] = ChannelFields
      /\ ChannelOK(p, id, X)
  BY DaemonFacts
<1>3. /\ p.stream_ids \in [Clients -> Nat] /\ sid \in Nat /\ sid < sid + 2
      /\ sid + 2 \in Nat
  BY <1>2 DEF TablesOK
<1> DEFINE ids == [p.stream_ids EXCEPT ![c] = sid + 2]
           ch == [p.channels[id] EXCEPT !.association = c, !.stream_id = sid]
<1>4. /\ DOMAIN a = DaemonFields /\ a.stream_ids = ids
      /\ \A f \in DaemonFields \ {"channels", "stream_ids"} : a[f] = p[f]
      /\ DOMAIN a.channels = DOMAIN p.channels
      /\ \A j \in DOMAIN p.channels : j # id => a.channels[j] = p.channels[j]
      /\ a.channels[id] = ch
  BY <1>2 DEF DaemonFields, ChannelFields
<1>5. /\ DOMAIN ch = ChannelFields /\ ch.association = c /\ ch.stream_id = sid
      /\ ch.packet_queue = p.channels[id].packet_queue
  BY <1>2 DEF ChannelFields
<1>6. /\ ids \in [Clients -> Nat] /\ ids[c] = sid + 2
      /\ \A x \in Clients : x # c => ids[x] = p.stream_ids[x]
  BY <1>3
<1> HIDE DEF a, ids, ch
<1>7. /\ a.send_queue = p.send_queue /\ a.services = p.services
      /\ a.connections = p.connections /\ a.exited = p.exited
      /\ a.r2a = p.r2a /\ a.r2a_freed = p.r2a_freed
  BY <1>4 DEF DaemonFields
<1>8. TablesOK(a, V)
  BY <1>2, <1>4, <1>6, <1>7 DEF TablesOK
<1>9. DQueueOK(a, V)
  BY <1>2, <1>4, <1>7 DEF DQueueOK
<1>10. c # NoClient
  BY DaemonAssumption
<1>11. ASSUME NEW j \in DOMAIN p.channels, j # id, p.channels[j].association = c
       PROVE  p.channels[j].stream_id \in Nat /\ p.channels[j].stream_id < sid
  BY <1>10, <1>11, DaemonFacts DEF ChannelOK
<1>12. StreamsDistinct(a)
  <2>1. ASSUME NEW i \in DOMAIN p.channels, NEW j \in DOMAIN p.channels, i # j,
               a.channels[i].association = a.channels[j].association,
               a.channels[i].association # NoClient,
               a.channels[i].stream_id = a.channels[j].stream_id
        PROVE  FALSE
    <3>1. CASE i = id
      <4>1. p.channels[j].association = c /\ p.channels[j].stream_id = sid
        BY <1>4, <1>5, <2>1, <3>1
      <4> QED
        BY <1>3, <1>11, <2>1, <3>1, <4>1
    <3>2. CASE j = id
      <4>1. p.channels[i].association = c /\ p.channels[i].stream_id = sid
        BY <1>4, <1>5, <2>1, <3>2
      <4> QED
        BY <1>3, <1>11, <2>1, <3>2, <4>1
    <3>3. CASE i # id /\ j # id
      BY <1>2, <1>4, <2>1, <3>3 DEF StreamsDistinct
    <3> QED
      BY <3>1, <3>2, <3>3
  <2> QED
    BY <1>4, <2>1 DEF StreamsDistinct
<1>13. ASSUME NEW j \in DOMAIN a.channels PROVE ChannelOK(a, j, X)
  <2>1. CASE j = id
    <3>1. ChannelOK(p, id, X)
      BY <1>2
    <3> QED
      BY <1>3, <1>4, <1>5, <1>6, <1>7, <2>1, <3>1 DEF ChannelOK
  <2>2. CASE j # id
    <3>1. /\ a.channels[j] = p.channels[j] /\ ChannelOK(p, j, X)
      BY <1>4, <2>2, DaemonFacts
    <3>2. ASSUME NEW x \in Clients, NEW s \in Nat, s < p.stream_ids[x]
          PROVE  s < a.stream_ids[x]
      <4>1. p.stream_ids[x] \in Nat
        BY <1>3
      <4>2. CASE x = c
        BY <1>3, <1>4, <1>6, <3>2, <4>2
      <4>3. CASE x # c
        BY <1>4, <1>6, <3>2, <4>3
      <4> QED
        BY <4>2, <4>3
    <3> QED
      BY <1>7, <3>1, <3>2 DEF ChannelOK
  <2> QED
    BY <2>1, <2>2
<1>14. DaemonInv(a, V, X)
  BY <1>8, <1>9, <1>12, <1>13 DEF DaemonInv
<1>15. Aside(a, e)
  BY <1>1, <1>4, SendFacts
<1> QED
  BY <1>14, <1>15, AsideKeeps

\* A client is started, for the service it was asked for.
Starting(p, e, c, name) ==
  /\ Beyond(p, e, {"connections", "services"})
  /\ e.connections = [p.connections EXCEPT ![c] = "open"]
  /\ e.services = With(p.services, name, c)

LEMMA StartKeeps ==
  ASSUME NEW p, NEW V, NEW X, DaemonInv(p, V, X), NEW c \in Clients,
         p.connections[c] = "unused", NEW name,
         NEW e, Starting(p, e, c, name)
  PROVE  /\ DaemonInv(e, V, X) /\ e.connections[c] \in Alive
         /\ e.channels = p.channels
<1> DEFINE cs == e.connections
           sv == e.services
<1>1. DOMAIN p = DaemonFields /\ TablesOK(p, V)
  BY DaemonFacts
<1>2. p.connections \in [Clients -> {"unused", "open", "gone", "closed"}]
  BY <1>1 DEF TablesOK
<1>3. /\ cs \in [Clients -> {"unused", "open", "gone", "closed"}] /\ cs[c] = "open"
      /\ \A x \in Clients : x # c => cs[x] = p.connections[x]
  BY <1>2 DEF Starting
<1> HIDE DEF cs, sv
<1>4. /\ DOMAIN e = DaemonFields /\ e.connections = cs
      /\ e.services = sv /\ e.channels = p.channels
      /\ \A f \in DaemonFields \ {"services", "connections"} : e[f] = p[f]
  BY DEF Starting, DaemonFields, Beyond, cs, sv
<1>5. \A x \in Clients : p.connections[x] \in Alive => cs[x] \in Alive
  BY <1>3 DEF Alive
<1>6. \A n \in DOMAIN e.services :
        e.services[n] \in Clients /\ e.connections[e.services[n]] \in Alive
  <2>1. ASSUME NEW n \in DOMAIN e.services
        PROVE  \/ e.services[n] = c
               \/ n \in DOMAIN p.services /\ e.services[n] = p.services[n]
    <3>1. /\ DOMAIN sv = DOMAIN p.services \cup {name}
          /\ \A x \in DOMAIN sv : sv[x] = IF x = name THEN c ELSE p.services[x]
      BY DEF Starting, With, sv
    <3> QED
      BY ONLY <1>4, <2>1, <3>1
  <2>2. \A n \in DOMAIN p.services :
          p.services[n] \in Clients /\ p.connections[p.services[n]] \in Alive
    BY <1>1 DEF TablesOK
  <2>3. cs[c] \in Alive
    BY <1>3 DEF Alive
  <2> QED
    BY <1>4, <1>5, <2>1, <2>2, <2>3
<1>7. ASSUME NEW id \in DOMAIN p.channels, NEW x, x = p.channels[id].association,
             x # NoClient, p.connections[x] \in Alive
      PROVE  e.connections[x] \in Alive
  <2>1. x \in Clients
    BY <1>7, DaemonFacts DEF ChannelOK
  <2> QED
    BY <1>4, <1>5, <1>7, <2>1
<1>8. Reconnected(p, e, X)
  BY <1>3, <1>4, <1>6, <1>7 DEF Reconnected
<1>9. DaemonInv(e, V, X)
  BY <1>8, SameChannels
<1> QED
  BY <1>3, <1>4, <1>9 DEF Alive

LEMMA ExitKeeps ==
  ASSUME NEW p, NEW V, NEW X, DaemonInv(p, V, X), NEW why \in Exits,
         NEW e, e = [p EXCEPT !.exited = why]
  PROVE  DaemonInv(e, V, X)
<1>1. DOMAIN p = DaemonFields
  BY DaemonFacts
<1>2. /\ DOMAIN e = DaemonFields /\ e.exited = why
      /\ \A f \in DaemonFields \ {"exited"} : e[f] = p[f]
  BY <1>1 DEF DaemonFields
<1>3. /\ e.channels = p.channels /\ e.send_queue = p.send_queue
      /\ e.services = p.services /\ e.connections = p.connections
      /\ e.stream_ids = p.stream_ids /\ e.r2a = p.r2a /\ e.r2a_freed = p.r2a_freed
  BY <1>2 DEF DaemonFields
<1> QED
  BY <1>2, <1>3, SameTables

LEMMA PktConnectKeeps ==
  ASSUME NEW p, NEW V, NEW X, DaemonInv(p, V, X), NEW pkt, pkt.id \in V,
         NEW e, e = HandlePktConnect(p, pkt)
  PROVE  DaemonInv(e, V, X)
<1> DEFINE id == pkt.id
           new == [p EXCEPT !.channels = With(@, id, NewChannel(pkt.conv))]
           unused == {x \in Clients : p.connections[x] = "unused"}
           c == CHOOSE x \in unused : TRUE
           n == pkt.val
           cs == [new.connections EXCEPT ![c] = "open"]
           sv == With(new.services, n, c)
           started == [new EXCEPT !.connections = cs, !.services = sv]
           refused == CreateAndEnqueuePacket(new, id, "CONNECT_RESPONSE", 1,
                                             "CONNECT_UNKNOWN_SERVICE")
<1>6. ASSUME id \notin DOMAIN p.channels
      PROVE  /\ DaemonInv(new, V, X) /\ id \in DOMAIN new.channels
             /\ new.channels[id].association = NoClient
             /\ new.connections = p.connections
  <2> DEFINE conv == pkt.conv
             ch == NewChannel(conv)
  <2>1. /\ Beyond(p, new, {"channels"}) /\ new.channels = With(p.channels, id, ch)
        /\ id \in V /\ ch = NewChannel(conv)
    BY DaemonFacts DEF DaemonFields, Beyond
  <2> HIDE DEF new, conv, id, ch
  <2>2. /\ DaemonInv(new, V, X) /\ id \in DOMAIN new.channels
        /\ new.channels[id].association = NoClient
        /\ \A f \in DaemonFields \ {"channels"} : new[f] = p[f]
    BY <1>6, <2>1, NewChannelKeeps
  <2> QED
    BY <2>2 DEF DaemonFields
<1>1. CASE id \in DOMAIN p.channels
  <2>1. e = [p EXCEPT !.exited = "connect"] /\ "connect" \in Exits
    BY <1>1 DEF HandlePktConnect, Exits
  <2> QED
    BY <2>1, ExitKeeps
<1>2. CASE /\ id \notin DOMAIN p.channels /\ n \notin DOMAIN p.services
           /\ n \in workload.on_demand /\ unused = {}
  <2>1. e = [p EXCEPT !.exited = "bound"] /\ "bound" \in Exits
    BY <1>2 DEF HandlePktConnect, Exits
  <2> QED
    BY <2>1, ExitKeeps
<1>3. CASE id \notin DOMAIN p.channels /\ n \in DOMAIN p.services
  <2>1. e = Associate(new, id, p.services[n], n)
    BY <1>3 DEF HandlePktConnect
  <2>2. /\ DaemonInv(new, V, X) /\ id \in DOMAIN new.channels
        /\ new.channels[id].association = NoClient
        /\ new.connections = p.connections
    BY <1>3, <1>6
  <2>3. p.services[n] \in Clients /\ p.connections[p.services[n]] \in Alive
    BY <1>3, DaemonFacts DEF TablesOK
  <2> HIDE DEF new
  <2> QED
    BY <2>1, <2>2, <2>3, AssociateKeeps
<1>4. CASE /\ id \notin DOMAIN p.channels /\ n \notin DOMAIN p.services
           /\ n \in workload.on_demand /\ unused # {}
  <2>1. e = Associate(started, id, c, n)
    BY <1>4 DEF HandlePktConnect
  <2>2. /\ DaemonInv(new, V, X) /\ id \in DOMAIN new.channels
        /\ new.channels[id].association = NoClient
        /\ new.connections = p.connections
    BY <1>4, <1>6
  <2>3. c \in Clients /\ p.connections[c] = "unused"
    <3>1. c \in unused
      BY <1>4
    <3> QED
      BY <3>1
  <2> HIDE DEF new, c, n
  <2>4. /\ DaemonInv(started, V, X) /\ started.connections[c] \in Alive
        /\ started.channels = new.channels
    <3>1. Starting(new, started, c, n) /\ new.connections[c] = "unused"
      BY <2>2, <2>3, DaemonFacts DEF DaemonFields, Beyond, Starting
    <3> HIDE DEF started
    <3> QED
      BY ONLY <2>2, <2>3, <3>1, StartKeeps
  <2> HIDE DEF started
  <2> QED
    BY <2>1, <2>2, <2>3, <2>4, AssociateKeeps
<1>5. CASE /\ id \notin DOMAIN p.channels /\ n \notin DOMAIN p.services
           /\ n \notin workload.on_demand
  <2>1. e = refused
    BY <1>5 DEF HandlePktConnect
  <2>2. DaemonInv(new, V, X) /\ id \in DOMAIN new.channels
    BY <1>5, <1>6
  <2>3. 1 \in Nat /\ "CONNECT_RESPONSE" \in R2aTypes
    BY DEF R2aTypes
  <2> HIDE DEF new
  <2> QED
    BY <2>1, <2>2, <2>3, EnqueueKeeps
<1> QED
  BY <1>1, <1>2, <1>3, <1>4, <1>5

LEMMA SendOnStreamFacts ==
  ASSUME NEW p, DOMAIN p = DaemonFields, NEW id, NEW type, NEW val,
         NEW e, e = SendOnStream(p, id, type, val)
  PROVE  Aside(p, e)
BY SendFacts DEF SendOnStream

LEMMA PktEosKeeps ==
  ASSUME NEW p, NEW V, NEW X, DaemonInv(p, V, X), NEW pkt,
         NEW e, e = HandlePktEos(p, pkt)
  PROVE  DaemonInv(e, V, X)
<1> DEFINE id == pkt.id
           a == SendOnStream(p, id, "EOS", 0)
           b == [a EXCEPT !.channels[id].got_eos_from_ami = TRUE]
           c == RemoveAssociation(b, id)
<1>1. CASE ~Open(p, id)
  BY <1>1 DEF HandlePktEos
<1>2. CASE Open(p, id)
  <2>1. e = b \/ e = c
    BY <1>2 DEF HandlePktEos
  <2>2. id \in DOMAIN p.channels
    BY <1>2 DEF Open
  <2>3. Aside(p, a)
    BY DaemonFacts, SendOnStreamFacts
  <2> HIDE DEF a
  <2>4. /\ DaemonInv(a, V, X) /\ DOMAIN a = DaemonFields /\ id \in DOMAIN a.channels
        /\ DOMAIN a.channels[id] = ChannelFields
    BY <2>2, <2>3, AsideKeeps, DaemonFacts
  <2>5. /\ Changed(a, b, id, {"got_eos_from_client", "got_eos_from_ami"})
        /\ b.send_queue = a.send_queue /\ DOMAIN b.channels = DOMAIN a.channels
    BY <2>4 DEF Changed, ChannelStep, DaemonFields, ChannelFields
  <2> HIDE DEF b
  <2>6. DaemonInv(b, V, X) /\ id \in DOMAIN b.channels
    BY <2>4, <2>5, GotEosKeeps
  <2>7. DaemonInv(c, V, X)
    BY <2>6, RemoveAssociationKeeps
  <2> QED
    BY <2>1, <2>6, <2>7
<1> QED
  BY <1>1, <1>2

LEMMA PktResetKeeps ==
  ASSUME NEW p, NEW V, NEW X, DaemonInv(p, V, X), NEW pkt,
         NEW e, e = HandlePktReset(p, pkt)
  PROVE  DaemonInv(e, V, X)
<1> DEFINE id == pkt.id
           a == ClearPacketQueue(p, id)
           b == SendOnStream(a, id, "RESET", 0)
           c == RemoveAssociation(b, id)
<1>1. CASE id \notin DOMAIN p.channels
  BY <1>1 DEF HandlePktReset
<1>2. CASE id \in DOMAIN p.channels
  <2>1. e = a \/ e = c
    BY <1>2 DEF HandlePktReset
  <2>2. DaemonInv(a, V, X) /\ id \in DOMAIN a.channels
    BY <1>2, ClearKeeps, RequeuedKeeps
  <2> HIDE DEF a
  <2>3. Aside(a, b)
    BY <2>2, DaemonFacts, SendOnStreamFacts
  <2> HIDE DEF b
  <2>4. DaemonInv(b, V, X) /\ id \in DOMAIN b.channels
    BY <2>2, <2>3, AsideKeeps
  <2>5. DaemonInv(c, V, X)
    BY <2>4, RemoveAssociationKeeps
  <2> QED
    BY <2>1, <2>2, <2>5
<1> QED
  BY <1>1, <1>2

\* A packet of the Amiga.
FromAmiga(pkt, V) ==
  pkt.type \in {"CONNECT", "DATA", "EOS", "RESET"} /\ pkt.id \in V

LEMMA PktKeeps ==
  ASSUME NEW p, NEW V, NEW X, DaemonInv(p, V, X), NEW pkt, FromAmiga(pkt, V),
         NEW e, e = HandleReceivedPkt(p, pkt)
  PROVE  DaemonInv(e, V, X)
<1> DEFINE a == CASE pkt.type = "CONNECT" -> HandlePktConnect(p, pkt)
                  [] pkt.type = "DATA"    -> HandlePktData(p, pkt)
                  [] pkt.type = "EOS"     -> HandlePktEos(p, pkt)
                  [] pkt.type = "RESET"   -> HandlePktReset(p, pkt)
<1>1. e = p \/ e = RemoveChannelIfDone(a, pkt.id)
  BY DEF HandleReceivedPkt
<1>2. pkt.type \in {"CONNECT", "DATA", "EOS", "RESET"} /\ pkt.id \in V
  BY DEF FromAmiga
<1>3. CASE pkt.type = "CONNECT"
  <2>1. a = HandlePktConnect(p, pkt)
    BY <1>3
  <2> HIDE DEF a
  <2>2. DaemonInv(a, V, X)
    BY <1>2, <2>1, PktConnectKeeps
  <2> QED
    BY <1>1, <1>2, <2>2, RemoveDoneKeeps
<1>4. CASE pkt.type = "DATA"
  <2> DEFINE w == SendOnStream(p, pkt.id, "DATA", pkt.val)
  <2>1. a = p \/ a = w
    BY <1>4 DEF HandlePktData
  <2>2. Aside(p, w)
    BY DaemonFacts, SendOnStreamFacts
  <2> HIDE DEF a, w
  <2>3. DaemonInv(a, V, X)
    BY <2>1, <2>2, AsideKeeps
  <2> QED
    BY <1>1, <1>2, <2>3, RemoveDoneKeeps
<1>5. CASE pkt.type = "EOS"
  <2>1. a = HandlePktEos(p, pkt)
    BY <1>5
  <2> HIDE DEF a
  <2>2. DaemonInv(a, V, X)
    BY <2>1, PktEosKeeps
  <2> QED
    BY <1>1, <1>2, <2>2, RemoveDoneKeeps
<1>6. CASE pkt.type = "RESET"
  <2>1. a = HandlePktReset(p, pkt)
    BY <1>6
  <2> HIDE DEF a
  <2>2. DaemonInv(a, V, X)
    BY <2>1, PktResetKeeps
  <2> QED
    BY <1>1, <1>2, <2>2, RemoveDoneKeeps
<1> QED
  BY <1>2, <1>3, <1>4, <1>5, <1>6

LEMMA PktsKeep ==
  ASSUME NEW p, NEW V, NEW X, DaemonInv(p, V, X), NEW pkts, Len(pkts) \in Nat,
         \A i \in 1 .. Len(pkts) : FromAmiga(pkts[i], V),
         NEW e, e = HandleReceivedPkts(p, pkts)
  PROVE  DaemonInv(e, V, X)
<1> DEFINE n == Len(pkts)
<1>1. PICK f : Rounds("packets", p, NoClient, pkts, n, f) /\ e = f[n]
  BY PacketsLoop
<1>2. f[0] = p /\ \A i \in 1 .. n : f[i] = HandleReceivedPkt(f[i - 1], pkts[i])
  BY <1>1 DEF Rounds, Body
<1> DEFINE S == {m \in Nat : m <= n => DaemonInv(f[m], V, X)}
<1>3. 0 \in S
  BY <1>2
<1>4. ASSUME NEW m \in Nat, m \in S PROVE m + 1 \in S
  <2> SUFFICES ASSUME m + 1 <= n PROVE DaemonInv(f[m + 1], V, X)
    OBVIOUS
  <2> DEFINE q == f[m]
             r == f[m + 1]
  <2>1. m + 1 \in 1 .. n /\ m + 1 - 1 = m
    OBVIOUS
  <2>2. DaemonInv(q, V, X)
    BY <1>4, <2>1
  <2>3. r = HandleReceivedPkt(q, pkts[m + 1]) /\ FromAmiga(pkts[m + 1], V)
    BY <1>2, <2>1
  <2> HIDE DEF q, r
  <2>4. DaemonInv(r, V, X)
    BY <2>2, <2>3, PktKeeps
  <2> QED
    BY <2>4 DEF r
<1> HIDE DEF S
<1>5. n \in S
  BY <1>3, <1>4, SetInduction
<1> QED
  BY <1>1, <1>5 DEF S

-----------------------------------------------------------------------------
(* A restart of the Amiga.                                                 *)

LEMMA AsideAgain ==
  ASSUME NEW p, NEW q, NEW e, Aside(p, q), Aside(q, e)
  PROVE  Aside(p, e)
BY DEF Aside

\* p without its channels.
Cleared(p) == [p EXCEPT !.channels = <<>>, !.send_queue = <<>>]

LEMMA ClearedKeeps ==
  ASSUME NEW p, NEW V, NEW X, DaemonInv(p, V, X), NEW e, e = Cleared(p)
  PROVE  DaemonInv(e, V, X)
<1>1. DOMAIN p = DaemonFields /\ TablesOK(p, V)
  BY DaemonFacts
<1> DEFINE none == <<>>
<1>2. none \in Seq(V) /\ Len(none) = 0 /\ DOMAIN none = 1 .. 0
  BY EmptySeq, LenProperties
<1>3. /\ DOMAIN e = DaemonFields /\ e.channels = none /\ e.send_queue = none
      /\ \A f \in DaemonFields \ {"channels", "send_queue"} : e[f] = p[f]
  BY <1>1 DEF Cleared, DaemonFields
<1> HIDE DEF none
<1>4. /\ \A id : ~Among(none, id) /\ Once(none) /\ DOMAIN none = {}
  BY <1>2 DEF Among, Once
<1>5. TablesOK(e, V)
  <2>1. /\ e.services = p.services /\ e.connections = p.connections
        /\ e.stream_ids = p.stream_ids /\ e.exited = p.exited
        /\ e.r2a = p.r2a /\ e.r2a_freed = p.r2a_freed
    BY <1>3 DEF DaemonFields
  <2> QED
    BY <1>1, <2>1 DEF TablesOK
<1>6. DQueueOK(e, V) /\ StreamsDistinct(e)
  BY <1>2, <1>3, <1>4 DEF DQueueOK, StreamsDistinct
<1> QED
  BY <1>3, <1>4, <1>5, <1>6 DEF DaemonInv

\* The channels whose clients are told, in order.
ToldIds(p) ==
  InOrder(p, {id \in DOMAIN p.channels : p.channels[id].association # NoClient})

LEMMA RestartLoop ==
  ASSUME NEW p, NEW n \in Nat, n = Len(ToldIds(p)),
         NEW e, e = CloseAllLogicalChannels(p)
  PROVE  \E f : /\ f[0] = p /\ e = Cleared(f[n])
                /\ \A i \in 1 .. n :
                     f[i] = SendOnStream(f[i - 1], ToldIds(p)[i], "RESET", 0)
<1> DEFINE R(f) == f = [i \in 0 .. Len(ToldIds(p)) |->
                          IF i = 0 THEN p
                          ELSE SendOnStream(f[i - 1], ToldIds(p)[i], "RESET", 0)]
           F == CHOOSE f : R(f)
<1>1. e = Cleared(F[Len(ToldIds(p))])
  BY DEF CloseAllLogicalChannels, Cleared, ToldIds
<1> DEFINE ids == ToldIds(p)
           Q(f) == f = [i \in 0 .. n |-> IF i = 0 THEN p
                                         ELSE SendOnStream(f[i - 1], ids[i], "RESET", 0)]
<1>2. PICK f : Loop("restart", p, NoClient, ids, n, f)
  BY LoopExists
<1>3. f = [i \in 0 .. n |-> IF i = 0 THEN p
                            ELSE Body("restart", f[i - 1], NoClient, ids[i])]
  BY <1>2 DEF Loop
<1>4. \A q, x : Body("restart", q, NoClient, x) = SendOnStream(q, x, "RESET", 0)
  BY DEF Body
<1>5. Q(f)
  BY <1>3, <1>4
<1>6. R(F)
  <2>1. R(f)
    BY <1>5
  <2> QED
    BY <2>1
<1> HIDE DEF F
<1>7. Q(F) /\ e = Cleared(F[n])
  BY <1>1, <1>6
<1> HIDE DEF ids
<1>8. F[0] = p /\ \A i \in 1 .. n : F[i] = SendOnStream(F[i - 1], ids[i], "RESET", 0)
  BY <1>7
<1> QED
  BY <1>7, <1>8 DEF ids

LEMMA CloseAllKeeps ==
  ASSUME NEW p, NEW V, NEW X, DaemonInv(p, V, X), IsFiniteSet(V),
         NEW e, e = CloseAllLogicalChannels(p)
  PROVE  DaemonInv(e, V, X)
<1> DEFINE A == {id \in DOMAIN p.channels : p.channels[id].association # NoClient}
           ids == ToldIds(p)
           n == Len(ids)
<1>1. IsFiniteSet(A)
  <2>1. DOMAIN p.channels \subseteq V
    BY DaemonFacts
  <2> QED
    BY <2>1, FS_Subset
<1>2. \A id \in A : p.channels[id].stream_id \in Nat
  BY DaemonFacts DEF ChannelOK
<1>3. n \in Nat
  <2>1. ids = InOrder(p, A)
    BY DEF ToldIds
  <2> QED
    BY <1>1, <1>2, <2>1, InOrderFacts
<1>4. PICK f : /\ f[0] = p /\ e = Cleared(f[n])
               /\ \A i \in 1 .. n : f[i] = SendOnStream(f[i - 1], ids[i], "RESET", 0)
  BY <1>3, RestartLoop
<1> HIDE DEF ids, n
<1>5. f[0] = p /\ \A i \in 1 .. n : f[i] = SendOnStream(f[i - 1], ids[i], "RESET", 0)
  BY <1>4
<1> DEFINE S == {m \in Nat : m <= n => Aside(p, f[m])}
<1>6. 0 \in S
  BY <1>5, DaemonFacts DEF Aside
<1>7. ASSUME NEW m \in Nat, m \in S PROVE m + 1 \in S
  <2> SUFFICES ASSUME m + 1 <= n PROVE Aside(p, f[m + 1])
    OBVIOUS
  <2>1. m + 1 \in 1 .. n /\ m + 1 - 1 = m /\ m <= n
    BY <1>3
  <2>2. Aside(p, f[m]) /\ f[m + 1] = SendOnStream(f[m], ids[m + 1], "RESET", 0)
    BY <1>5, <1>7, <2>1
  <2>3. DOMAIN f[m] = DaemonFields
    BY <2>2 DEF Aside
  <2>4. Aside(f[m], f[m + 1])
    BY <2>2, <2>3, SendOnStreamFacts
  <2> QED
    BY <2>2, <2>4, AsideAgain
<1> HIDE DEF S
<1>8. n \in S
  BY <1>3, <1>6, <1>7, SetInduction
<1>9. Aside(p, f[n])
  BY <1>3, <1>8 DEF S
<1>10. DaemonInv(f[n], V, X)
  BY <1>9, AsideKeeps
<1> QED
  BY <1>4, <1>10, ClearedKeeps

-----------------------------------------------------------------------------
(* The packets that the daemon sends.                                      *)

\* e is p with another R2A.
LEMMA R2aKeeps ==
  ASSUME NEW p, NEW V, NEW X, DaemonInv(p, V, X), NEW e, Beyond(p, e, {"r2a"}),
         Packets(e.r2a, V), Bytes(e.r2a) + p.r2a_freed <= RingSize - 1
  PROVE  DaemonInv(e, V, X)
<1>1. /\ DOMAIN e = DaemonFields
      /\ e.channels = p.channels /\ e.send_queue = p.send_queue
      /\ e.services = p.services /\ e.connections = p.connections
      /\ e.stream_ids = p.stream_ids /\ e.exited = p.exited
      /\ e.r2a_freed = p.r2a_freed
  BY DEF Beyond, DaemonFields
<1>2. TablesOK(e, V)
  BY <1>1, DaemonFacts DEF TablesOK
<1>3. DQueueOK(e, V) /\ StreamsDistinct(e)
  BY <1>1, DaemonFacts DEF DQueueOK, StreamsDistinct
<1>4. ASSUME NEW id \in DOMAIN e.channels PROVE ChannelOK(e, id, X)
  <2>1. ChannelOK(p, id, X)
    BY <1>1, DaemonFacts
  <2> QED
    BY ONLY <1>1, <2>1 DEF ChannelOK
<1> QED
  BY <1>2, <1>3, <1>4 DEF DaemonInv

LEMMA FlushOneKeeps ==
  ASSUME NEW p, NEW V, NEW X, DaemonInv(p, V, X), NEW e, e = FlushOne(p)
  PROVE  DaemonInv(e, V, X)
<1> DEFINE id == Head(p.send_queue)
           q == p.channels[id].packet_queue
           pkt == Head(q)
           rest == Tail(q)
           left == RingSize - 1 - (Bytes(p.r2a) + p.r2a_freed)
           a == [p EXCEPT !.r2a = Append(@, pkt)]
           b == [p EXCEPT !.r2a = Append(@, pkt), !.channels[id].packet_queue = rest,
                          !.send_queue = Tail(@)]
           c == [b EXCEPT !.send_queue = Append(@, id)]
           d == RemoveChannelIfDone(b, id)
<1>1. CASE p.send_queue = <<>> \/ left < HeaderBytes + pkt.len
  BY <1>1 DEF FlushOne
<1>2. CASE p.send_queue # <<>> /\ ~(left < HeaderBytes + pkt.len)
  <2>1. e = IF b.channels[id].packet_queue = <<>> THEN d ELSE c
    BY <1>2 DEF FlushOne
  <2>2. /\ DOMAIN p = DaemonFields /\ p.send_queue \in Seq(V) /\ Once(p.send_queue)
        /\ \A j : Among(p.send_queue, j) => j \in DOMAIN p.channels
        /\ DOMAIN p.channels \subseteq V /\ TablesOK(p, V)
    BY DaemonFacts
  <2> DEFINE sq == Tail(p.send_queue)
             sq2 == Append(sq, id)
  <2>3. /\ sq \in Seq(V) /\ Once(sq) /\ ~Among(sq, id)
        /\ \A j : Among(p.send_queue, j) <=> Among(sq, j) \/ j = id
    BY <1>2, <2>2, TailFacts
  <2>4. /\ id \in DOMAIN p.channels /\ id \in V /\ ChannelOK(p, id, X)
        /\ DOMAIN p.channels[id] = ChannelFields
    BY <2>2, <2>3, DaemonFacts
  <2>5. Packets(q, {id}) /\ q # <<>>
    BY <2>3, <2>4 DEF ChannelOK
  <2>6. /\ Packets(rest, {id}) /\ pkt.type \in R2aTypes /\ pkt.id \in V
        /\ pkt.len \in Nat
    BY <2>4, <2>5, PacketsTail
  <2> HIDE DEF id, q, pkt, rest, sq
  <2> DEFINE r == Append(p.r2a, pkt)
  <2>7. Packets(r, V) /\ Bytes(p.r2a) \in Nat
        /\ Bytes(r) = Bytes(p.r2a) + HeaderBytes + pkt.len
    BY ZenonT(60), <2>2, <2>6, PacketsAppend DEF TablesOK
  <2>8. Bytes(r) + p.r2a_freed <= RingSize - 1
    <3> DEFINE x == Bytes(p.r2a)
               y == p.r2a_freed
               l == pkt.len
               z == Bytes(r)
    <3>1. x \in Nat /\ y \in Nat /\ l \in Nat /\ z = x + HeaderBytes + l
          /\ ~(RingSize - 1 - (x + y) < HeaderBytes + l)
      BY <1>2, <2>2, <2>6, <2>7 DEF TablesOK
    <3> HIDE DEF x, y, l, z
    <3>2. z + y <= RingSize - 1
      BY <3>1, LinkAssumption DEF HeaderBytes
    <3> QED
      BY <3>2 DEF y, z
  <2>9. Beyond(p, a, {"r2a"}) /\ a.r2a = r
    BY <2>2 DEF Beyond, DaemonFields
  <2>10. PutBack(a, b, id, rest, sq)
    BY <2>2, <2>4 DEF PutBack, DaemonFields, sq
  <2>11. PutBack(a, c, id, rest, sq2)
    BY <2>2, <2>4 DEF PutBack, DaemonFields, sq
  <2>12. /\ a.channels = p.channels /\ a.send_queue = p.send_queue
         /\ b.channels[id] = [p.channels[id] EXCEPT !.packet_queue = rest]
    BY <2>9, <2>10 DEF Beyond, DaemonFields, PutBack
  <2>13. b.channels[id].packet_queue = rest
    BY <2>4, <2>12 DEF ChannelFields
  <2> HIDE DEF a, b, c, r
  <2>14. DaemonInv(a, V, X)
    BY <2>7, <2>8, <2>9, R2aKeeps
  <2>15. CASE rest = <<>>
    <3>1. \A j : j # id => (Among(sq, j) <=> Among(a.send_queue, j))
      BY <2>3, <2>12
    <3>2. Requeued(a, b, id, V, rest)
      BY <2>3, <2>4, <2>6, <2>10, <2>12, <2>14, <2>15, <3>1, PutBackFacts
    <3>3. DaemonInv(b, V, X)
      BY <2>4, <2>12, <2>14, <3>2, RequeuedKeeps
    <3>4. DaemonInv(d, V, X)
      BY <2>4, <3>3, RemoveDoneKeeps
    <3> QED
      BY <2>1, <2>13, <2>15, <3>4
  <2>16. CASE rest # <<>>
    <3>1. /\ sq2 \in Seq(V) /\ Once(sq2)
          /\ \A j : Among(sq2, j) <=> Among(sq, j) \/ j = id
      BY <2>3, <2>4, AppendFacts
    <3> HIDE DEF sq2
    <3>2. \A j : j # id => (Among(sq2, j) <=> Among(a.send_queue, j))
      BY <2>3, <2>12, <3>1
    <3>3. Requeued(a, c, id, V, rest)
      BY <2>4, <2>6, <2>11, <2>12, <2>14, <2>16, <3>1, <3>2, PutBackFacts
    <3>4. DaemonInv(c, V, X)
      BY <2>4, <2>12, <2>14, <3>3, RequeuedKeeps
    <3> QED
      BY <2>1, <2>13, <2>16, <3>4
  <2> QED
    BY <2>15, <2>16
<1> QED
  BY <1>1, <1>2

LEMMA FlushKeeps ==
  ASSUME NEW p, NEW V, NEW X, DaemonInv(p, V, X), NEW e, e = Flush(p)
  PROVE  DaemonInv(e, V, X)
<1>1. PICK f : \E n \in Nat : Rounds("flush", p, NoClient, <<>>, n, f) /\ e = f[n]
  BY FlushLoop
<1>2. PICK n \in Nat : Rounds("flush", p, NoClient, <<>>, n, f) /\ e = f[n]
  BY <1>1
<1>3. f[0] = p /\ \A i \in 1 .. n : f[i] = FlushOne(f[i - 1])
  BY <1>2 DEF Rounds, Body
<1> DEFINE S == {m \in Nat : m <= n => DaemonInv(f[m], V, X)}
<1>4. 0 \in S
  BY <1>3
<1>5. ASSUME NEW m \in Nat, m \in S PROVE m + 1 \in S
  <2> SUFFICES ASSUME m + 1 <= n PROVE DaemonInv(f[m + 1], V, X)
    OBVIOUS
  <2>1. m + 1 \in 1 .. n /\ m + 1 - 1 = m /\ m <= n
    OBVIOUS
  <2>2. DaemonInv(f[m], V, X) /\ f[m + 1] = FlushOne(f[m])
    BY <1>3, <1>5, <2>1
  <2> QED
    BY <2>2, FlushOneKeeps
<1> HIDE DEF S
<1>6. n \in S
  BY <1>4, <1>5, SetInduction
<1> QED
  BY <1>2, <1>6 DEF S

-----------------------------------------------------------------------------
(* What one side sees of a step of the other.                              *)

DaemonSide == DaemonInv(Daemon("EPIPE"), KnownIds, {})

IdsIn(q) == {q[i].id : i \in DOMAIN q}
KnownBy(p) == DOMAIN p.channels \cup IdsIn(p.r2a)

LEMMA Known == /\ KnownIds = KnownBy(Daemon("EPIPE"))
               /\ KnownIds' = KnownBy(Daemon("EPIPE")')
               /\ \A e : /\ DOMAIN Daemon(e) = DaemonFields
                         /\ Daemon(e).r2a = r2a /\ Daemon(e).exited = exited
                         /\ Daemon(e).connections = connections
BY DEF KnownIds, KnownBy, IdsIn, Daemon, DaemonFields

LEMMA MoreKnown ==
  ASSUME NEW p, NEW V, NEW X, DaemonInv(p, V, X), NEW W, V \subseteq W
  PROVE  DaemonInv(p, W, X)
<1>1. Packets(p.r2a, W)
  BY DaemonFacts, PacketsMore DEF TablesOK
<1>2. TablesOK(p, W)
  BY <1>1, DaemonFacts DEF TablesOK
<1>3. p.send_queue \in Seq(W)
  BY DaemonFacts, SeqDef
<1>4. DQueueOK(p, W)
  BY <1>3, DaemonFacts DEF DQueueOK
<1> QED
  BY <1>2, <1>4 DEF DaemonInv

\* Ids that no channel and no packet has are not known.
LEMMA OnlyKnown ==
  ASSUME NEW p, NEW V, NEW X, DaemonInv(p, V, X), NEW W, W = KnownBy(p)
  PROVE  DaemonInv(p, W, X) /\ W \subseteq V
<1>1. TablesOK(p, V) /\ Packets(p.r2a, V)
  BY DaemonFacts DEF TablesOK
<1>2. PICK S : p.r2a \in Seq(S)
  BY <1>1, PacketsFacts
<1>3. DOMAIN p.r2a = 1 .. Len(p.r2a)
  BY <1>2, SeqFacts
<1>4. Packets(p.r2a, W)
  BY <1>1, <1>3 DEF Packets, KnownBy, IdsIn
<1>5. W \subseteq V
  BY <1>1, <1>3, DaemonFacts DEF Packets, KnownBy, IdsIn
<1>6. TablesOK(p, W)
  BY <1>1, <1>4 DEF TablesOK
<1>7. p.send_queue \in Seq(W)
  <2> DEFINE q == p.send_queue
             n == Len(q)
  <2>1. q \in Seq(V) /\ \A id : Among(q, id) => id \in W
    BY DaemonFacts DEF KnownBy
  <2> HIDE DEF q
  <2>2. n \in Nat /\ DOMAIN q = 1 .. n /\ q = [i \in 1 .. n |-> q[i]]
    BY <2>1, LenProperties
  <2>3. \A i \in 1 .. n : q[i] \in W
    BY <2>1 DEF Among
  <2> HIDE DEF n
  <2>4. q \in [1 .. n -> W]
    BY <2>2, <2>3
  <2>5. q \in Seq(W)
    BY <2>2, <2>4, SeqDef
  <2> QED
    BY <2>5 DEF q
<1>8. DQueueOK(p, W)
  BY <1>7, DaemonFacts DEF DQueueOK, KnownBy
<1> QED
  BY <1>5, <1>6, <1>8 DEF DaemonInv

\* An event of the daemon that keeps its tables sound for the ids V does so for
\* those that it leaves known.
LEMMA PublishKeeps ==
  ASSUME NEW p, NEW V, DaemonInv(p, V, {}), NEW received, Publish(p, received)
  PROVE  DaemonSide' /\ KnownIds' \subseteq V
<1> DEFINE e == Daemon("EPIPE")'
<1>1. /\ DOMAIN e = DaemonFields
      /\ e.channels = p.channels /\ e.send_queue = p.send_queue
      /\ e.services = p.services /\ e.connections = p.connections
      /\ e.stream_ids = p.stream_ids /\ e.r2a = p.r2a /\ e.exited = p.exited
      /\ e.r2a_freed = p.r2a_freed
  BY DEF Publish, BecomeDaemon, Daemon, DaemonFields
<1>2. p.exited \in Exits
  BY DaemonFacts DEF TablesOK
<1> HIDE DEF e
<1>3. DaemonInv(e, V, {})
  BY <1>1, <1>2, SameTables
<1>4. KnownIds' = KnownBy(e)
  BY Known DEF e
<1>5. DaemonInv(e, KnownIds', {}) /\ KnownIds' \subseteq V
  BY <1>3, <1>4, OnlyKnown
<1> QED
  BY <1>5 DEF DaemonSide, e

daemonTables == <<channels, d_send_queue, services, connections, stream_ids, exited,
                  r2a, r2a_freed>>

LEMMA DaemonStays ==
  ASSUME DaemonSide, UNCHANGED daemonTables
  PROVE  DaemonSide' /\ KnownIds' = KnownIds
<1> DEFINE p == Daemon("EPIPE")
           e == Daemon("EPIPE")'
<1>1. /\ DOMAIN e = DaemonFields
      /\ e.channels = p.channels /\ e.send_queue = p.send_queue
      /\ e.services = p.services /\ e.connections = p.connections
      /\ e.stream_ids = p.stream_ids /\ e.r2a = p.r2a /\ e.exited = p.exited
      /\ e.r2a_freed = p.r2a_freed /\ KnownIds' = KnownIds
  BY DEF daemonTables, Daemon, DaemonFields, KnownIds
<1>2. DaemonInv(p, KnownIds, {})
  BY DEF DaemonSide
<1> HIDE DEF p, e
<1>3. p.exited \in Exits
  BY <1>2, DaemonFacts DEF TablesOK
<1>4. DaemonInv(e, KnownIds, {})
  BY <1>1, <1>2, <1>3, SameTables
<1> QED
  BY <1>1, <1>4 DEF DaemonSide, e

driverKeeps == <<sockets, send_queue, next_stream_id, task_mp, ior, workload, budget>>

LEMMA EmptyRing ==
  ASSUME NEW n PROVE RingOK(<<>>, n) /\ \A id : ~HasId(<<>>, id)
<1>1. <<>> \in Seq(AmigaPacket) /\ Len(<<>>) = 0
  BY EmptySeq
<1> QED
  BY <1>1, BytesOfNone, LinkAssumption DEF RingOK, HasId, HeaderBytes

LEMMA RingIds ==
  ASSUME NEW q, NEW n, RingOK(q, n)
  PROVE  /\ Len(q) \in Nat /\ DOMAIN q = 1 .. Len(q)
         /\ \A id \in IdsIn(q) : HasId(q, id) /\ id \in Nat \ {0} /\ id < n
<1>1. /\ Len(q) \in Nat /\ DOMAIN q = 1 .. Len(q)
      /\ \A i \in 1 .. Len(q) : q[i] \in AmigaPacket
  BY SeqFacts DEF RingOK
<1>2. ASSUME NEW i \in 1 .. Len(q) PROVE q[i].id \in 1 .. StreamIds /\ q[i].id < n
  BY <1>1 DEF RingOK, AmigaPacket
<1>3. ASSUME NEW i \in 1 .. Len(q)
      PROVE  HasId(q, q[i].id) /\ q[i].id \in Nat \ {0} /\ q[i].id < n
  BY <1>2, DriverAssumption DEF HasId
<1> QED
  BY <1>1, <1>3 DEF IdsIn

\* A step of the daemon, or one that only moves task_pc.
LEMMA AmigaStays ==
  ASSUME AmigaInv, UNCHANGED driverKeeps, a2r' = a2r \/ a2r' = <<>>,
         task_pc = "gone" <=> task_pc' = "gone",
         KnownIds' \subseteq KnownIds \cup IdsIn(a2r)
  PROVE  AmigaInv'
<1>1. PICK n \in 1 .. StreamIds + 1 :
        /\ KnownIds \subseteq 1 .. n - 1
        /\ RingOK(a2r, n)
        /\ IF task_pc = "gone" THEN NoDriver
           ELSE DriverInv(Driver, Port, n, KnownIds) /\ PortOK(n)
  BY DEF AmigaInv
<1>2. n \in Nat \ {0}
  BY DriverAssumption
<1>3. \A id \in IdsIn(a2r) : HasId(a2r, id) /\ id \in 1 .. n - 1
  BY <1>1, <1>2, RingIds
<1>4. KnownIds' \subseteq 1 .. n - 1
  BY <1>1, <1>3
<1>5. RingOK(a2r', n)
  BY <1>1, EmptyRing
<1>6. CASE task_pc = "gone"
  <2>1. NoDriver'
    BY <1>1, <1>6 DEF NoDriver, driverKeeps
  <2> QED
    BY <1>4, <1>5, <1>6, <2>1 DEF AmigaInv
<1>7. CASE task_pc # "gone"
  <2> DEFINE d == Driver
             e == Driver'
  <2>1. DriverInv(d, Port, n, KnownIds) /\ PortOK(n)
    BY <1>1, <1>7
  <2>2. /\ DOMAIN e = DriverFields /\ e.sockets = d.sockets
        /\ e.send_queue = d.send_queue /\ e.next_stream_id = d.next_stream_id
        /\ e.ior = d.ior /\ (e.a2r = d.a2r \/ e.a2r = <<>>) /\ d.a2r = a2r
    BY DEF Driver, DriverFields, driverKeeps
  <2>3. \A id \in KnownIds' : id \in KnownIds \/ HasId(d.a2r, id)
    BY <1>3, <2>2
  <2> HIDE DEF d, e
  <2>4. DriverInv(e, Port, n, KnownIds')
    BY <2>1, <2>2, <2>3, KnownKeeps
  <2>5. PortOK(n)' /\ Port' = Port
    BY <2>1 DEF PortOK, Port, driverKeeps, Value, IsConnect, ConnectsIssued
  <2>6. DriverInv(Driver, Port, n, KnownIds)'
    BY <2>4, <2>5 DEF e
  <2> QED
    BY <1>4, <1>5, <1>7, <2>5, <2>6 DEF AmigaInv
<1> QED
  BY <1>6, <1>7

-----------------------------------------------------------------------------
(* The events of the daemon.                                               *)

\* What either side may rely on before a step.
Sound == Shared /\ AmigaInv /\ FromClients /\ DaemonSide

LEMMA AnyErrno ==
  ASSUME DaemonSide, NEW errno, NEW p, p = Daemon(errno), NEW V, KnownIds \subseteq V
  PROVE  DaemonInv(p, V, {})
<1> DEFINE d == Daemon("EPIPE")
<1>1. /\ DOMAIN p = DaemonFields
      /\ p.channels = d.channels /\ p.send_queue = d.send_queue
      /\ p.services = d.services /\ p.connections = d.connections
      /\ p.stream_ids = d.stream_ids /\ p.r2a = d.r2a /\ p.exited = d.exited
      /\ p.r2a_freed = d.r2a_freed
  BY DEF Daemon, DaemonFields
<1>2. DaemonInv(d, KnownIds, {})
  BY DEF DaemonSide
<1> HIDE DEF d
<1>3. d.exited \in Exits
  BY <1>2, DaemonFacts DEF TablesOK
<1>4. DaemonInv(p, KnownIds, {})
  BY <1>1, <1>2, <1>3, SameTables
<1> QED
  BY <1>4, MoreKnown

\* The ids of the channels and of the packets in both rings.
LEMMA IdsInReach ==
  ASSUME AmigaInv, NEW V, V = KnownIds \cup IdsIn(a2r)
  PROVE  /\ IsFiniteSet(V) /\ IsFiniteSet(KnownIds) /\ Len(a2r) \in Nat
         /\ \A i \in 1 .. Len(a2r) : FromAmiga(a2r[i], V)
<1>1. PICK n \in 1 .. StreamIds + 1 : KnownIds \subseteq 1 .. n - 1 /\ RingOK(a2r, n)
  BY DEF AmigaInv
<1>2. n \in Nat \ {0}
  BY DriverAssumption
<1>3. /\ Len(a2r) \in Nat /\ DOMAIN a2r = 1 .. Len(a2r)
      /\ \A id \in IdsIn(a2r) : id \in 1 .. n - 1
  BY <1>1, <1>2, RingIds
<1>4. IsFiniteSet(1 .. n - 1)
  BY <1>2, FS_Interval
<1>5. V \subseteq 1 .. n - 1
  BY <1>1, <1>3
<1>6. IsFiniteSet(V) /\ IsFiniteSet(KnownIds)
  BY <1>1, <1>4, <1>5, FS_Subset
<1>7. ASSUME NEW i \in 1 .. Len(a2r) PROVE FromAmiga(a2r[i], V)
  <2>1. a2r[i] \in AmigaPacket
    BY <1>1, SeqFacts DEF RingOK
  <2>2. a2r[i].id \in V
    BY <1>3 DEF IdsIn
  <2> QED
    BY <2>1, <2>2 DEF FromAmiga, AmigaPacket
<1> QED
  BY <1>3, <1>6, <1>7

LEMMA EventKeeps ==
  ASSUME AmigaInv, NEW p, NEW V, V = KnownIds \cup IdsIn(a2r), DaemonInv(p, V, {}),
         NEW received, Publish(p, received), UNCHANGED <<workload, driverVars>>,
         a2r' = a2r \/ a2r' = <<>>
  PROVE  AmigaInv' /\ DaemonSide'
<1>1. DaemonSide' /\ KnownIds' \subseteq KnownIds \cup IdsIn(a2r)
  BY PublishKeeps
<1>2. UNCHANGED driverKeeps /\ (task_pc = "gone" <=> task_pc' = "gone")
  BY DEF driverVars, driverKeeps
<1> QED
  BY <1>1, <1>2, AmigaStays

LEMMA IrqKeeps ==
  ASSUME Sound, HandleA314Irq, UNCHANGED <<workload, driverVars>>
  PROVE  AmigaInv' /\ DaemonSide'
<1> DEFINE V == KnownIds \cup IdsIn(a2r)
           started == Head(irq_fds) = "STARTED"
           p(n) == IF started THEN CloseAllLogicalChannels(Daemon(n)) ELSE Daemon(n)
           z(n) == [p(n) EXCEPT !.r2a_freed = 0]
           q(n) == HandleReceivedPkts(z(n), a2r)
<1>1. PICK n \in Errnos : IF device_started' THEN Publish(Flush(q(n)), a2r # <<>>)
                          ELSE Publish(p(n), FALSE)
  BY DEF HandleA314Irq
<1>2. /\ IsFiniteSet(V) /\ Len(a2r) \in Nat
      /\ \A i \in 1 .. Len(a2r) : FromAmiga(a2r[i], V)
  BY IdsInReach DEF Sound
<1>3. KnownIds \subseteq V
  OBVIOUS
<1>4. DaemonInv(Daemon(n), V, {})
  <2> HIDE DEF V
  <2> QED
    BY <1>3, AnyErrno DEF Sound
<1>5. DaemonInv(CloseAllLogicalChannels(Daemon(n)), V, {})
  <2> HIDE DEF V
  <2> QED
    BY <1>2, <1>4, CloseAllKeeps
<1>6. DaemonInv(p(n), V, {})
  BY <1>4, <1>5
<1>7. a2r' = a2r \/ a2r' = <<>>
  BY DEF HandleA314Irq
<1> DEFINE a == p(n)
           b == z(n)
           c == q(n)
           d == Flush(c)
<1>8. b = [a EXCEPT !.r2a_freed = 0] /\ c = HandleReceivedPkts(b, a2r)
  OBVIOUS
<1>9. V = KnownIds \cup IdsIn(a2r)
  OBVIOUS
<1>10. IF device_started' THEN Publish(d, a2r # <<>>) ELSE Publish(a, FALSE)
  BY <1>1
<1>11. DaemonInv(a, V, {}) /\ d = Flush(c)
  BY <1>6
<1> HIDE DEF a, b, c, d, V
<1>12. DOMAIN a = DaemonFields /\ a.exited \in Exits
  BY <1>11, DaemonFacts DEF TablesOK
<1>13. /\ DOMAIN b = DaemonFields
       /\ b.channels = a.channels /\ b.send_queue = a.send_queue
       /\ b.services = a.services /\ b.connections = a.connections
       /\ b.stream_ids = a.stream_ids /\ b.r2a = a.r2a /\ b.exited = a.exited
       /\ b.r2a_freed = 0
  BY <1>8, <1>12 DEF DaemonFields
<1>14. DaemonInv(b, V, {})
  BY <1>11, <1>12, <1>13, SameTables
<1>15. DaemonInv(c, V, {})
  BY <1>2, <1>8, <1>14, PktsKeep
<1>16. DaemonInv(d, V, {})
  BY <1>11, <1>15, FlushKeeps
<1>17. CASE device_started'
  BY <1>7, <1>9, <1>10, <1>16, <1>17, EventKeeps DEF Sound
<1>18. CASE ~device_started'
  BY <1>7, <1>9, <1>10, <1>11, <1>18, EventKeeps DEF Sound
<1> QED
  BY <1>17, <1>18

LEMMA NoMessages == Messages(<<>>)
<1> DEFINE none == <<>>
<1>1. none \in Seq({none[i] : i \in DOMAIN none}) /\ Len(none) = 0
  BY EmptySeq
<1> QED
  BY <1>1 DEF Messages

LEMMA ReadKeepsMessages ==
  ASSUME FromClients, NEW c \in Clients, from_client' = [from_client EXCEPT ![c] = <<>>]
  PROVE  FromClients'
BY NoMessages DEF FromClients

LEMMA InputKeeps ==
  ASSUME Sound, NEW c \in Clients, HandleClientInput(c), UNCHANGED <<workload, driverVars>>
  PROVE  AmigaInv' /\ DaemonSide' /\ FromClients'
<1> DEFINE V == KnownIds \cup IdsIn(a2r)
           msgs == from_client[c]
           p(n) == HandleReceivedMessages(Daemon(n), c, msgs)
           q(n) == IF connections[c] = "gone" /\ p(n).exited = "no"
                   THEN CloseAndRemoveConnection(p(n), c) ELSE p(n)
<1>1. PICK n \in Errnos : Publish(Flush(q(n)), FALSE)
  BY DEF HandleClientInput
<1>2. IsFiniteSet(V) /\ KnownIds \subseteq V
  <2>1. IsFiniteSet(V)
    BY IdsInReach DEF Sound
  <2> QED
    BY <2>1
<1>3. connections[c] \in Alive /\ Messages(msgs) /\ a2r' = a2r
  BY DEF HandleClientInput, InputFrom, Alive, Sound, FromClients
<1>4. FromClients'
  BY ReadKeepsMessages DEF HandleClientInput, Sound
<1> DEFINE d == Daemon(n)
           a == p(n)
           b == CloseAndRemoveConnection(a, c)
           e == q(n)
           f == Flush(e)
<1>5. /\ V = KnownIds \cup IdsIn(a2r) /\ Publish(f, FALSE) /\ f = Flush(e)
      /\ a = HandleReceivedMessages(d, c, msgs) /\ (e = a \/ e = b)
      /\ d = Daemon(n) /\ b = CloseAndRemoveConnection(a, c)
  BY <1>1
<1> HIDE DEF V, msgs, p, q, d, a, b, e, f
<1>6. DaemonInv(d, V, {})
  BY <1>2, <1>5, AnyErrno DEF Sound
<1>7. d.connections[c] \in Alive
  BY <1>3, <1>5 DEF Daemon
<1>8. DaemonInv(a, V, {})
  BY <1>3, <1>5, <1>6, <1>7, MessagesKeep
<1>9. DaemonInv(b, V, {})
  BY <1>2, <1>5, <1>8, CloseConnectionKeeps
<1>10. DaemonInv(f, V, {})
  BY <1>5, <1>8, <1>9, FlushKeeps
<1> QED
  BY <1>3, <1>4, <1>5, <1>10, EventKeeps DEF Sound

LEMMA ErrorKeeps ==
  ASSUME Sound, NEW c \in Clients, HandleClientError(c), UNCHANGED <<workload, driverVars>>
  PROVE  AmigaInv' /\ DaemonSide' /\ FromClients'
<1> DEFINE V == KnownIds \cup IdsIn(a2r)
           d == Daemon("EPIPE")
           b == CloseAndRemoveConnection(d, c)
           f == Flush(b)
<1>1. IsFiniteSet(V) /\ KnownIds \subseteq V /\ V = KnownIds \cup IdsIn(a2r)
  <2>1. IsFiniteSet(V)
    BY IdsInReach DEF Sound
  <2> QED
    BY <2>1
<1>2. FromClients' /\ a2r' = a2r
  BY ReadKeepsMessages DEF HandleClientError, Sound
<1>3. Publish(f, FALSE) /\ f = Flush(b) /\ b = CloseAndRemoveConnection(d, c)
      /\ d = Daemon("EPIPE")
  BY DEF HandleClientError
<1> HIDE DEF V, d, b, f
<1>4. DaemonInv(d, V, {})
  BY <1>1, <1>3, AnyErrno DEF Sound
<1>5. DaemonInv(f, V, {})
  <2>1. DaemonInv(b, V, {})
    BY <1>1, <1>3, <1>4, CloseConnectionKeeps
  <2> QED
    BY <1>3, <2>1, FlushKeeps
<1> QED
  BY <1>1, <1>2, <1>3, <1>5, EventKeeps DEF Sound

LEMMA OutputKeeps ==
  ASSUME Sound, NEW c \in Clients, HandleClientOutput(c), UNCHANGED <<workload, driverVars>>
  PROVE  AmigaInv' /\ DaemonSide' /\ FromClients'
<1> DEFINE V == KnownIds \cup IdsIn(a2r)
           d == Daemon("EPIPE")
           room == workload.sock_cap - Len(to_client[c])
           q == message_queue[c]
           k == IF Len(q) < room THEN Len(q) ELSE room
           b == [d EXCEPT !.to_client[c] = @ \o SubSeq(q, 1, k),
                          !.message_queue[c] = SubSeq(q, k + 1, Len(q))]
           f == Flush(b)
<1>1. KnownIds \subseteq V /\ V = KnownIds \cup IdsIn(a2r)
  OBVIOUS
<1>2. FromClients' /\ a2r' = a2r
  BY DEF HandleClientOutput, Sound, FromClients
<1>3. Publish(f, FALSE) /\ f = Flush(b) /\ d = Daemon("EPIPE")
  BY DEF HandleClientOutput
<1> HIDE DEF V
<1>4. DaemonInv(d, V, {})
  <2> HIDE DEF d
  <2> QED
    BY <1>1, <1>3, AnyErrno DEF Sound
<1>5. /\ DOMAIN b = DaemonFields
      /\ b.channels = d.channels /\ b.send_queue = d.send_queue
      /\ b.services = d.services /\ b.connections = d.connections
      /\ b.stream_ids = d.stream_ids /\ b.r2a = d.r2a /\ b.exited = d.exited
      /\ b.r2a_freed = d.r2a_freed
  BY DEF Daemon, DaemonFields
<1> HIDE DEF d, b, f
<1>6. DaemonInv(b, V, {})
  <2>1. d.exited \in Exits
    BY <1>4, DaemonFacts DEF TablesOK
  <2> QED
    BY <1>4, <1>5, <2>1, SameTables
<1>7. DaemonInv(f, V, {})
  BY <1>3, <1>6, FlushKeeps
<1> QED
  BY <1>1, <1>2, <1>3, <1>7, EventKeeps DEF Sound

-----------------------------------------------------------------------------
(* The requests in the port.                                               *)

PortSound(mp, requests, n, issued) ==
  /\ mp \in Seq(Requests) /\ Once(mp) /\ n <= issued + 1
  /\ \A i \in 1 .. Len(mp) :
       requests[mp[i]].command = "CONNECT" =>
         n <= requests[mp[i]].val /\ requests[mp[i]].val <= issued
  /\ \A i, j \in 1 .. Len(mp) :
       /\ i < j /\ requests[mp[i]].command = "CONNECT"
       /\ requests[mp[j]].command = "CONNECT"
       => requests[mp[i]].val < requests[mp[j]].val

LEMMA PortMeans ==
  ASSUME NEW n
  PROVE  /\ PortOK(n) <=> PortSound(task_mp, ior, n, ConnectsIssued)
         /\ PortOK(n)' <=> PortSound(task_mp', ior', n, ConnectsIssued')
BY DEF PortOK, PortSound, Value, IsConnect

LEMMA PortStays ==
  ASSUME NEW mp, NEW old, NEW n, NEW c, PortSound(mp, old, n, c),
         NEW new, \A x : Among(mp, x) => new[x] = old[x]
  PROVE  PortSound(mp, new, n, c)
<1>1. \A i \in 1 .. Len(mp) : new[mp[i]] = old[mp[i]]
  BY DEF Among
<1> QED
  BY <1>1 DEF PortSound

LEMMA PortTaken ==
  ASSUME NEW mp, NEW old, NEW n \in Nat, NEW c \in Nat, PortSound(mp, old, n, c),
         mp # <<>>, \A x : Among(mp, x) => old[x].val \in Nat,
         NEW rest, rest = Tail(mp), NEW new, \A x : Among(rest, x) => new[x] = old[x],
         NEW m, m = n \/ (old[Head(mp)].command = "CONNECT" /\ m = n + 1)
  PROVE  /\ PortSound(rest, new, m, c)
         /\ old[Head(mp)].command = "CONNECT" => n <= c
<1>1. mp \in Seq(Requests) /\ Once(mp) /\ n <= c + 1
  BY DEF PortSound
<1>2. /\ rest \in Seq(Requests) /\ Once(rest) /\ Len(rest) = Len(mp) - 1
      /\ Len(mp) \in Nat \ {0} /\ Head(mp) = mp[1] /\ 1 \in 1 .. Len(mp)
      /\ \A i \in 1 .. Len(rest) : rest[i] = mp[i + 1] /\ i + 1 \in 1 .. Len(mp)
  <2>1. /\ rest \in Seq(Requests) /\ Len(rest) = Len(mp) - 1 /\ Len(mp) \in Nat \ {0}
        /\ Head(mp) = mp[1] /\ 1 \in 1 .. Len(mp)
    BY ONLY <1>1, TailFacts, mp # <<>>, rest = Tail(mp)
  <2>2. Once(rest)
    BY ONLY <1>1, TailFacts, mp # <<>>, rest = Tail(mp)
  <2>3. \A i \in 1 .. Len(rest) : rest[i] = mp[i + 1] /\ i + 1 \in 1 .. Len(mp)
    BY ONLY <1>1, TailFacts, mp # <<>>, rest = Tail(mp)
  <2> QED
    BY <2>1, <2>2, <2>3
<1> DEFINE len == Len(rest)
           con(i) == old[mp[i]].command = "CONNECT"
           val(i) == old[mp[i]].val
<1>3. /\ \A i \in 1 .. Len(mp) : val(i) \in Nat /\ (con(i) => n <= val(i) /\ val(i) <= c)
      /\ \A i, j \in 1 .. Len(mp) : i < j /\ con(i) /\ con(j) => val(i) < val(j)
  BY DEF PortSound, Among
<1>4. \A i \in 1 .. len : new[rest[i]] = old[mp[i + 1]]
  BY <1>2 DEF Among
<1>5. \A i, j \in 1 .. len : i < j => i + 1 < j + 1
  BY <1>2
<1>6. \A i \in 1 .. len : 1 < i + 1
  BY <1>2
<1>7. old[Head(mp)].command = "CONNECT" <=> con(1)
  BY <1>2
<1>8. con(1) => n <= val(1) /\ val(1) <= c /\ val(1) \in Nat
  BY <1>2, <1>3
<1>9. ASSUME NEW i \in 1 .. len, con(i + 1) PROVE m <= val(i + 1) /\ val(i + 1) <= c
  <2>1. n <= val(i + 1) /\ val(i + 1) <= c /\ val(i + 1) \in Nat
    BY <1>2, <1>3, <1>9
  <2>2. con(1) => val(1) < val(i + 1)
    BY <1>2, <1>3, <1>6, <1>9
  <2> DEFINE a == val(1)
             b == val(i + 1)
  <2>3. con(1) => a \in Nat /\ n <= a /\ a < b
    BY <1>8, <2>2
  <2>4. b \in Nat /\ n <= b /\ b <= c
    BY <2>1
  <2> HIDE DEF a, b, con
  <2>5. m <= b /\ b <= c
    BY <1>7, <2>3, <2>4
  <2> QED
    BY <2>5 DEF b
<1>10. ASSUME NEW i \in 1 .. len, NEW j \in 1 .. len, i < j, con(i + 1), con(j + 1)
       PROVE  val(i + 1) < val(j + 1)
  BY <1>2, <1>3, <1>5, <1>10
<1>11. con(1) => n <= c
  <2> DEFINE a == val(1)
  <2>1. con(1) => a \in Nat /\ n <= a /\ a <= c
    BY <1>8
  <2> HIDE DEF a, con
  <2> QED
    BY <2>1
<1>12. m <= c + 1
  <2> HIDE DEF con
  <2> QED
    BY <1>1, <1>7, <1>11
<1>13. /\ \A i \in 1 .. len : new[rest[i]].command = "CONNECT" =>
             m <= new[rest[i]].val /\ new[rest[i]].val <= c
       /\ \A i, j \in 1 .. len :
            /\ i < j /\ new[rest[i]].command = "CONNECT"
            /\ new[rest[j]].command = "CONNECT"
            => new[rest[i]].val < new[rest[j]].val
  <2>1. ASSUME NEW i \in 1 .. len, new[rest[i]].command = "CONNECT"
        PROVE  m <= new[rest[i]].val /\ new[rest[i]].val <= c
    BY <1>4, <1>9, <2>1
  <2>2. ASSUME NEW i \in 1 .. len, NEW j \in 1 .. len, i < j,
               new[rest[i]].command = "CONNECT", new[rest[j]].command = "CONNECT"
        PROVE  new[rest[i]].val < new[rest[j]].val
    BY <1>4, <1>10, <2>2
  <2> HIDE DEF len
  <2> QED
    BY <2>1, <2>2
<1> QED
  BY <1>2, <1>7, <1>11, <1>12, <1>13 DEF PortSound

\* A request joins the end of the port; b is the number of CONNECTs issued then.
LEMMA PortJoined ==
  ASSUME NEW mp, NEW old, NEW n \in Nat, NEW c \in Nat, PortSound(mp, old, n, c),
         \A x : Among(mp, x) => old[x].val \in Nat,
         NEW r \in Requests, ~Among(mp, r), NEW longer, longer = Append(mp, r),
         NEW new, \A x : Among(mp, x) => new[x] = old[x], NEW b,
         \/ new[r].command # "CONNECT" /\ b = c
         \/ new[r].command = "CONNECT" /\ new[r].val = c + 1 /\ b = c + 1
  PROVE  PortSound(longer, new, n, b)
<1>1. mp \in Seq(Requests) /\ Once(mp) /\ n <= c + 1 /\ n <= b + 1
  BY DEF PortSound
<1> DEFINE len == Len(mp)
           con(i) == old[mp[i]].command = "CONNECT"
           val(i) == old[mp[i]].val
<1>2. /\ longer \in Seq(Requests) /\ Once(longer) /\ Len(longer) = len + 1
      /\ \A i \in 1 .. len : longer[i] = mp[i]
      /\ longer[len + 1] = r /\ len \in Nat
  <2>1. longer \in Seq(Requests) /\ Len(longer) = len + 1 /\ longer[len + 1] = r
    BY ONLY <1>1, AppendFacts, r \in Requests, longer = Append(mp, r)
  <2>2. Once(longer)
    BY ONLY <1>1, AppendFacts, r \in Requests, longer = Append(mp, r), ~Among(mp, r)
  <2>3. \A i \in 1 .. len : longer[i] = mp[i]
    BY ONLY <1>1, AppendFacts, r \in Requests, longer = Append(mp, r)
  <2> QED
    BY <1>1, <2>1, <2>2, <2>3, SeqFacts
<1>3. /\ \A i \in 1 .. len : val(i) \in Nat /\ (con(i) => n <= val(i) /\ val(i) <= c)
      /\ \A i, j \in 1 .. len : i < j /\ con(i) /\ con(j) => val(i) < val(j)
  BY DEF PortSound, Among
<1>4. \A i \in 1 .. len : new[longer[i]] = old[mp[i]]
  BY <1>2 DEF Among
<1>5. \A i \in 1 .. len + 1 : i \in 1 .. len \/ (i = len + 1 /\ i \notin 1 .. len)
  BY <1>2
<1>6. \A i, j \in 1 .. len + 1 : i < j => i \in 1 .. len
  BY <1>2
<1>7. ASSUME NEW i \in 1 .. len + 1, new[longer[i]].command = "CONNECT"
      PROVE  n <= new[longer[i]].val /\ new[longer[i]].val <= b
  <2>1. CASE i = len + 1
    BY <1>1, <1>2, <1>7, <2>1
  <2>2. CASE i \in 1 .. len
    <3> DEFINE v == val(i)
    <3>1. v \in Nat /\ n <= v /\ v <= c /\ v = new[longer[i]].val
      BY <1>3, <1>4, <1>7, <2>2
    <3> HIDE DEF v
    <3>2. n <= v /\ v <= b
      BY <3>1
    <3> QED
      BY <3>1, <3>2
  <2> QED
    BY <1>5, <2>1, <2>2
<1>8. ASSUME NEW i \in 1 .. len + 1, NEW j \in 1 .. len + 1, i < j,
             new[longer[i]].command = "CONNECT", new[longer[j]].command = "CONNECT"
      PROVE  new[longer[i]].val < new[longer[j]].val
  <2>1. i \in 1 .. len
    BY <1>6, <1>8
  <2> DEFINE v == val(i)
  <2>2. v \in Nat /\ v <= c /\ v = new[longer[i]].val
    BY <1>3, <1>4, <1>8, <2>1
  <2>3. CASE j = len + 1
    <3>1. new[longer[j]].val = c + 1
      BY <1>2, <1>8, <2>3
    <3> HIDE DEF v
    <3>2. v < c + 1
      BY <2>2
    <3> QED
      BY <2>2, <3>1, <3>2
  <2>4. CASE j \in 1 .. len
    BY <1>3, <1>4, <1>8, <2>1, <2>4
  <2> QED
    BY <1>5, <2>3, <2>4
<1> QED
  BY <1>1, <1>2, <1>7, <1>8 DEF PortSound

LEMMA PortGrows ==
  ASSUME NEW mp \in Seq(Requests), NEW r \in Requests
  PROVE  {x \in Requests : Among(Append(mp, r), x)}
           = {x \in Requests : Among(mp, x)} \cup {r}
<1> DEFINE longer == Append(mp, r)
<1>1. longer = Append(mp, r)
  OBVIOUS
<1> HIDE DEF longer
<1> DEFINE n == Len(mp)
<1>2. /\ n \in Nat /\ Len(longer) = n + 1 /\ longer[n + 1] = r
      /\ \A i \in 1 .. n : longer[i] = mp[i]
  BY <1>1, AppendProperties, LenProperties
<1> HIDE DEF n
<1>3. /\ n + 1 \in 1 .. n + 1 /\ \A i \in 1 .. n : i \in 1 .. n + 1
      /\ \A i \in 1 .. n + 1 : i \in 1 .. n \/ i = n + 1
  BY <1>2
<1>4. \A y : Among(longer, y) <=> Among(mp, y) \/ y = r
  BY <1>2, <1>3 DEF Among, n
<1> QED
  BY <1>1, <1>4

LEMMA IssuedFacts ==
  ASSUME Shared
  PROVE  /\ ConnectsIssued \in Nat /\ ConnectsIssued <= MaxConv
         /\ workload.amiga["CONNECT"] \in Nat /\ budget["CONNECT"] \in Nat
         /\ workload.amiga["CONNECT"] <= MaxConv
         /\ budget["CONNECT"] <= workload.amiga["CONNECT"]
<1> DEFINE a == workload.amiga["CONNECT"]
           b == budget["CONNECT"]
<1>1. "CONNECT" \in Commands
  BY DEF Commands
<1>2. workload \in Workload /\ a <= MaxConv
  BY WorkloadAssumption DEF Shared
<1>3. a \in Nat
  BY <1>1, <1>2 DEF Workload
<1>4. b \in Nat /\ b <= a
  BY <1>1 DEF Shared
<1> HIDE DEF a, b
<1>5. a - b \in Nat /\ a - b <= MaxConv
  BY <1>2, <1>3, <1>4, LinkAssumption
<1> QED
  BY <1>2, <1>3, <1>4, <1>5 DEF a, b, ConnectsIssued

-----------------------------------------------------------------------------
(* The steps of the driver's task.                                         *)

LEMMA DriverHas ==
  ASSUME AmigaInv, task_pc # "gone"
  PROVE  \E n \in 1 .. StreamIds + 1 :
           /\ KnownIds \subseteq 1 .. n - 1 /\ n \in Nat \ {0}
           /\ RingOK(a2r, n) /\ DriverInv(Driver, Port, n, KnownIds)
           /\ PortSound(task_mp, ior, n, ConnectsIssued)
           /\ task_mp \in Seq(Requests) /\ Once(task_mp)
<1>1. PICK n \in 1 .. StreamIds + 1 :
        /\ KnownIds \subseteq 1 .. n - 1 /\ RingOK(a2r, n)
        /\ DriverInv(Driver, Port, n, KnownIds) /\ PortOK(n)
  BY DEF AmigaInv
<1>2. n \in Nat \ {0}
  BY DriverAssumption
<1>3. PortSound(task_mp, ior, n, ConnectsIssued)
  BY <1>1, PortMeans
<1>4. task_mp \in Seq(Requests) /\ Once(task_mp)
  BY <1>3 DEF PortSound
<1> QED
  BY <1>1, <1>2, <1>3, <1>4

\* The driver after a step, as the record that its handler has returned.
LEMMA Became ==
  ASSUME NEW d, Become(d), NEW P, NEW n, NEW W, DriverInv(d, P, n, W)
  PROVE  /\ DriverInv(Driver', P, n, W) /\ RingOK(a2r', n)
         /\ ior' = d.ior
<1> DEFINE e == Driver'
<1>1. /\ DOMAIN e = DriverFields /\ e.sockets = d.sockets /\ e.send_queue = d.send_queue
      /\ e.next_stream_id = d.next_stream_id /\ e.ior = d.ior /\ e.a2r = d.a2r
      /\ a2r' = d.a2r /\ ior' = d.ior
  BY DEF Driver, Become, DriverFields
<1> HIDE DEF e
<1>2. DriverInv(e, P, n, W) /\ RingOK(d.a2r, n)
  BY <1>1, SameDriver, DriverFacts
<1> QED
  BY <1>1, <1>2 DEF e

LEMMA AmigaAfter ==
  ASSUME NEW n \in 1 .. StreamIds + 1, KnownIds' \subseteq 1 .. n - 1, RingOK(a2r', n),
         DriverInv(Driver', Port', n, KnownIds'), task_pc' # "gone",
         PortSound(task_mp', ior', n, ConnectsIssued')
  PROVE  AmigaInv'
<1>1. PortOK(n)'
  BY PortMeans
<1> QED
  BY <1>1 DEF AmigaInv

\* Which requests are in the port, and what they are.
LEMMA InPort ==
  ASSUME NEW n, NEW W, DriverInv(Driver, Port, n, W), task_mp \in Seq(Requests)
  PROVE  /\ \A x : Among(task_mp, x) <=> x \in Port
         /\ \A x \in Port : /\ ior[x] \in Asked /\ ior[x].val \in Nat
                            /\ ior[x].at = "driver" /\ ior[x].command \in Commands
         /\ Plain(Driver) /\ Driver.ior = ior /\ Driver.a2r = a2r
<1>1. \A x : Among(task_mp, x) => x \in Requests
  BY SeqFacts
<1>2. \A x : Among(task_mp, x) <=> x \in Port
  BY <1>1 DEF Port
<1>3. Driver.ior = ior /\ Driver.a2r = a2r /\ DOMAIN Driver = DriverFields
  BY DEF Driver, DriverFields
<1>4. /\ \A x \in Port : ior[x] \in Asked
      /\ ior \in AllRequests
  BY <1>3, DriverFacts
<1>5. \A x \in Port : /\ ior[x].val \in Nat /\ ior[x].at = "driver"
                      /\ ior[x].command \in Commands
  BY <1>4 DEF Asked
<1>6. Plain(Driver)
  BY <1>3, <1>4 DEF Plain, AllRequests
<1> QED
  BY <1>2, <1>3, <1>4, <1>5, <1>6

\* The request that the task takes next, and the id that its CONNECT would get.
LEMMA NextRequest ==
  ASSUME Sound, FreshIds, TakeRequest
  PROVE  \E n \in 1 .. StreamIds + 1 :
           /\ KnownIds \subseteq 1 .. n - 1 /\ n \in Nat \ {0}
           /\ DriverInv(Driver, Port, n, KnownIds) /\ Head(task_mp) \in Port
           /\ PortSound(task_mp, ior, n, ConnectsIssued)
           /\ task_mp \in Seq(Requests) /\ Once(task_mp)
           /\ Connects(Driver, Driver.ior[Head(task_mp)]) =>
                n \in 1 .. StreamIds /\ n \notin KnownIds
<1> DEFINE d == Driver
           r == Head(task_mp)
           rest == Tail(task_mp)
           c == ConnectsIssued
<1>1. task_pc = "requests" /\ task_mp # <<>>
  BY DEF TakeRequest
<1>2. PICK n \in 1 .. StreamIds + 1 :
        /\ KnownIds \subseteq 1 .. n - 1 /\ n \in Nat \ {0}
        /\ DriverInv(d, Port, n, KnownIds)
        /\ PortSound(task_mp, ior, n, ConnectsIssued)
        /\ task_mp \in Seq(Requests) /\ Once(task_mp)
  BY <1>1, DriverHas DEF Sound
<1>3. /\ \A x : Among(task_mp, x) <=> x \in Port
      /\ \A x \in Port : ior[x].val \in Nat /\ ior[x].command \in Commands
      /\ d.ior = ior
  BY <1>2, InPort
<1>4. r \in Port
  BY <1>1, <1>2, <1>3, TailFacts
<1>5. c \in Nat /\ c <= StreamIds
  BY IssuedFacts DEF FreshIds, Sound, ConnectsIssued
<1>6. Connects(d, d.ior[r]) => ior[r].command = "CONNECT"
  BY <1>3 DEF Connects
<1>7. /\ \A x : Among(task_mp, x) => ior[x].val \in Nat
      /\ ior[r].command \in Commands /\ r = Head(task_mp) /\ rest = Tail(task_mp)
      /\ PortSound(task_mp, ior, n, c)
  BY <1>2, <1>3, <1>4
<1> HIDE DEF d, r, rest, c
<1>8. ior[r].command = "CONNECT" => n <= c
  <2>1. PortSound(rest, ior, n, c) /\ (ior[Head(task_mp)].command = "CONNECT" => n <= c)
    BY ONLY <1>1, <1>2, <1>5, <1>7, PortTaken
  <2> QED
    BY <1>7, <2>1
<1>9. Connects(d, d.ior[r]) => n \in 1 .. StreamIds /\ n \notin KnownIds
  BY <1>2, <1>5, <1>6, <1>8, DriverAssumption
<1> QED
  BY <1>2, <1>4, <1>9 DEF d, r

LEMMA TakeRequestKeeps ==
  ASSUME Sound, FreshIds, TakeRequest, UNCHANGED <<workload, daemonVars>>
  PROVE  AmigaInv' /\ DaemonSide'
<1> DEFINE d == Driver
           r == Head(task_mp)
           e == HandleAppRequest(d, r)
<1>1. /\ task_pc = "requests" /\ task_mp # <<>> /\ task_mp' = Tail(task_mp)
      /\ Become(e) /\ task_pc' = task_pc /\ r2a' = r2a /\ r2a_freed' = r2a_freed
      /\ budget' = budget
  BY DEF TakeRequest
<1>2. DaemonSide' /\ KnownIds' = KnownIds
  <2>1. UNCHANGED daemonTables
    BY <1>1 DEF daemonTables, daemonVars
  <2> QED
    BY <2>1, DaemonStays DEF Sound
<1>3. PICK n \in 1 .. StreamIds + 1 :
        /\ KnownIds \subseteq 1 .. n - 1 /\ n \in Nat \ {0}
        /\ DriverInv(d, Port, n, KnownIds) /\ r \in Port
        /\ PortSound(task_mp, ior, n, ConnectsIssued)
        /\ task_mp \in Seq(Requests) /\ Once(task_mp)
        /\ Connects(d, d.ior[r]) => n \in 1 .. StreamIds /\ n \notin KnownIds
  BY NextRequest
<1>4. /\ \A x : Among(task_mp, x) <=> x \in Port
      /\ \A x \in Port : /\ ior[x].val \in Nat /\ ior[x].at = "driver"
                         /\ ior[x].command \in Commands
      /\ Plain(d) /\ d.ior = ior
  BY <1>3, InPort
<1> DEFINE rest == Tail(task_mp)
<1>5. /\ rest \in Seq(Requests) /\ Once(rest) /\ ~Among(rest, r) /\ r \in Requests
      /\ \A y : Among(task_mp, y) <=> Among(rest, y) \/ y = r
  BY <1>1, <1>3, TailFacts
<1>6. r \in Port /\ \A y : Among(rest, y) <=> y \in Port /\ y # r
  BY <1>4, <1>5
<1>7. Port' = Port \ {r}
  <2>1. Port' = {x \in Requests : Among(rest, x)}
    BY <1>1 DEF Port
  <2>2. Port \subseteq Requests
    BY DEF Port
  <2> HIDE DEF r, rest
  <2> QED
    BY <1>6, <2>1, <2>2
<1> DEFINE c == ConnectsIssued
           m == IF Connects(d, d.ior[r]) THEN n + 1 ELSE n
<1>8. c \in Nat /\ c <= StreamIds /\ ConnectsIssued' = c
  BY <1>1, IssuedFacts DEF FreshIds, Sound, ConnectsIssued
<1>9. Connects(d, d.ior[r]) => ior[r].command = "CONNECT"
  BY <1>4 DEF Connects
<1>10. m = n \/ (ior[r].command = "CONNECT" /\ m = n + 1)
  BY <1>9
<1>11. /\ \A x : Among(task_mp, x) => ior[x].val \in Nat
       /\ ior[r].command \in Commands /\ r = Head(task_mp) /\ rest = Tail(task_mp)
       /\ e = HandleAppRequest(d, r)
  BY <1>4, <1>6
<1> HIDE DEF d, r, e, rest, c, m
<1>12. PortSound(task_mp, ior, n, c)
  BY <1>3 DEF c
<1>14. Connects(d, d.ior[r]) => n \in 1 .. StreamIds /\ n \notin KnownIds
  BY <1>3
<1>15. DriverInv(e, Port', m, KnownIds)
  <2>1. m = IF Connects(d, d.ior[r]) THEN n + 1 ELSE n
    BY DEF m
  <2>2. DriverInv(e, Port \ {r}, m, KnownIds)
    BY ONLY <1>3, <1>6, <1>11, <1>14, <2>1, RequestKeeps
  <2> QED
    BY <1>7, <2>2
<1>16. DriverInv(Driver', Port', m, KnownIds) /\ RingOK(a2r', m) /\ ior' = e.ior
  BY <1>1, <1>15, Became
<1>17. \A x : Among(rest, x) => ior'[x] = ior[x]
  <2>1. Answers(d, e)
    BY <1>4, <1>11, RequestAnswers
  <2>2. \A x \in Port' : x \in Requests /\ e.ior[x].at = "driver"
    BY <1>15 DEF DriverInv
  <2>3. \A x \in Requests : e.ior[x] = ior[x] \/ e.ior[x] = AtApplication
    BY <1>4, <2>1 DEF Answers
  <2>4. AtApplication.at # "driver"
    BY DEF AtApplication
  <2>5. \A x : Among(rest, x) => x \in Port'
    BY <1>6, <1>7
  <2> QED
    BY <1>16, <2>2, <2>3, <2>4, <2>5
<1>18. PortSound(rest, ior', m, c)
  <2>1. m = n \/ (ior[Head(task_mp)].command = "CONNECT" /\ m = n + 1)
    BY <1>10, <1>11 DEF m
  <2>2. n \in Nat
    BY <1>3
  <2> DEFINE new == ior'
  <2>3. \A x : Among(rest, x) => new[x] = ior[x]
    BY <1>17
  <2>4. /\ task_mp # <<>> /\ rest = Tail(task_mp)
        /\ \A x : Among(task_mp, x) => ior[x].val \in Nat
    BY <1>1, <1>11
  <2> HIDE DEF new
  <2>5. PortSound(rest, new, m, c)
    BY ONLY <1>8, <1>12, <2>1, <2>2, <2>3, <2>4, PortTaken
  <2> QED
    BY <2>5 DEF new
<1>19. m \in 1 .. StreamIds + 1 /\ KnownIds \subseteq 1 .. m - 1
  BY <1>3, <1>14, DriverAssumption DEF m
<1>20. AmigaInv'
  <2>1. PortSound(task_mp', ior', m, ConnectsIssued')
    BY <1>1, <1>8, <1>11, <1>18
  <2> QED
    BY <1>1, <1>2, <1>16, <1>19, <2>1, AmigaAfter
<1> QED
  BY <1>2, <1>20

\* A step of the task that leaves the port alone.
LEMMA TaskKeeps ==
  ASSUME Shared, NEW n \in 1 .. StreamIds + 1, KnownIds \subseteq 1 .. n - 1,
         DriverInv(Driver, Port, n, KnownIds), task_mp \in Seq(Requests),
         PortSound(task_mp, ior, n, ConnectsIssued),
         UNCHANGED <<task_mp, workload, budget>>, task_pc' # "gone",
         NEW e, Become(e), Answers(Driver, e), DriverInv(e, Port, n, KnownIds),
         KnownIds' \subseteq KnownIds
  PROVE  AmigaInv'
<1>1. DriverInv(Driver', Port, n, KnownIds) /\ RingOK(a2r', n) /\ ior' = e.ior
  BY Became
<1>2. DOMAIN Driver' = DriverFields
  BY DEF Driver, DriverFields
<1>3. DriverInv(Driver', Port, n, KnownIds')
  <2> DEFINE f == Driver'
             W == KnownIds'
  <2>1. DriverInv(f, Port, n, KnownIds) /\ DOMAIN f = DriverFields
    BY <1>1, <1>2
  <2>2. \A id \in W : id \in KnownIds \/ HasId(f.a2r, id)
    OBVIOUS
  <2> HIDE DEF f, W
  <2>3. DriverInv(f, Port, n, W)
    BY <2>1, <2>2, KnownKeeps
  <2> QED
    BY <2>3 DEF f, W
<1>4. /\ \A x : Among(task_mp, x) <=> x \in Port
      /\ \A x \in Port : ior[x].at = "driver"
      /\ Driver.ior = ior
  BY InPort
<1>5. \A x : Among(task_mp, x) => ior'[x] = ior[x]
  <2>1. \A x \in Port : x \in Requests /\ e.ior[x].at = "driver"
    BY DEF DriverInv
  <2>2. \A x \in Requests : e.ior[x] = ior[x] \/ e.ior[x] = AtApplication
    BY <1>4 DEF Answers
  <2>3. AtApplication.at # "driver"
    BY DEF AtApplication
  <2> QED
    BY <1>1, <1>4, <2>1, <2>2, <2>3
<1>6. PortSound(task_mp', ior', n, ConnectsIssued')
  <2> DEFINE new == ior'
             c == ConnectsIssued
  <2>1. \A x : Among(task_mp, x) => new[x] = ior[x]
    BY <1>5
  <2>2. ConnectsIssued' = c /\ task_mp' = task_mp /\ PortSound(task_mp, ior, n, c)
    BY DEF ConnectsIssued
  <2> HIDE DEF new, c
  <2>3. PortSound(task_mp, new, n, c)
    BY <2>1, <2>2, PortStays
  <2> QED
    BY <2>2, <2>3 DEF new
<1>7. Port' = Port
  BY DEF Port
<1> QED
  BY <1>1, <1>3, <1>6, <1>7, AmigaAfter

\* e is p but for what no table depends on, and the packets in R2A.
LEMMA RingTables ==
  ASSUME NEW p, NEW V, NEW X, DaemonInv(p, V, X), NEW e, DOMAIN e = DaemonFields,
         e.channels = p.channels, e.send_queue = p.send_queue,
         e.services = p.services, e.connections = p.connections,
         e.stream_ids = p.stream_ids, e.exited = p.exited,
         Packets(e.r2a, V), e.r2a_freed \in Nat,
         Bytes(e.r2a) + e.r2a_freed <= RingSize - 1
  PROVE  DaemonInv(e, V, X)
<1>1. TablesOK(e, V)
  BY DaemonFacts DEF TablesOK
<1>2. DQueueOK(e, V) /\ StreamsDistinct(e)
  BY DaemonFacts DEF DQueueOK, StreamsDistinct
<1>3. ASSUME NEW id \in DOMAIN e.channels PROVE ChannelOK(e, id, X)
  <2>1. /\ ChannelOK(p, id, X) /\ e.channels = p.channels
        /\ e.send_queue = p.send_queue /\ e.connections = p.connections
        /\ e.stream_ids = p.stream_ids
    BY DaemonFacts
  <2> QED
    BY ONLY <2>1 DEF ChannelOK
<1> QED
  BY <1>1, <1>2, <1>3 DEF DaemonInv

LEMMA TakePacketKeeps ==
  ASSUME Sound, TakePacket, UNCHANGED <<workload, daemonVars>>
  PROVE  AmigaInv' /\ DaemonSide'
<1> DEFINE p == Head(r2a)
           e == HandleR2aPacket(Driver, p)
<1>1. /\ task_pc # "gone" /\ r2a # <<>> /\ r2a' = Tail(r2a)
      /\ r2a_freed' = r2a_freed + (HeaderBytes + p.len)
      /\ Become(e) /\ task_pc' # "gone" /\ task_mp' = task_mp /\ budget' = budget
  BY DEF TakePacket, NoMoreRequests, Size
<1>2. DaemonInv(Daemon("EPIPE"), KnownIds, {})
  BY DEF Sound, DaemonSide
<1>3. /\ Packets(r2a, KnownIds) /\ r2a_freed \in Nat
      /\ Bytes(r2a) + r2a_freed <= RingSize - 1
  BY <1>2, DaemonFacts DEF TablesOK, Daemon
<1> DEFINE rest == Tail(r2a)
<1>4. /\ Packets(rest, KnownIds) /\ Bytes(rest) \in Nat /\ Bytes(r2a) \in Nat
      /\ p.type \in R2aTypes /\ p.id \in KnownIds /\ p.len \in Nat
      /\ Bytes(r2a) = Bytes(rest) + (HeaderBytes + p.len)
  BY <1>1, <1>3, PacketsTail
<1>5. r2a_freed' \in Nat /\ Bytes(rest) + r2a_freed' <= RingSize - 1
  <2> DEFINE b == Bytes(r2a)
             x == Bytes(rest)
             l == p.len
             f == r2a_freed
             g == r2a_freed'
  <2>1. /\ b \in Nat /\ x \in Nat /\ l \in Nat /\ f \in Nat /\ b = x + (HeaderBytes + l)
        /\ g = f + (HeaderBytes + l) /\ b + f <= RingSize - 1
    BY <1>1, <1>3, <1>4
  <2> HIDE DEF b, x, l, f, g
  <2>2. g \in Nat /\ x + g <= RingSize - 1
    BY <2>1, LinkAssumption DEF HeaderBytes
  <2> QED
    BY <2>2 DEF x, g
<1>6. DaemonSide' /\ KnownIds' \subseteq KnownIds
  <2> DEFINE old == Daemon("EPIPE")
             new == Daemon("EPIPE")'
  <2>1. /\ DOMAIN new = DaemonFields
        /\ new.channels = old.channels /\ new.send_queue = old.send_queue
        /\ new.services = old.services /\ new.connections = old.connections
        /\ new.stream_ids = old.stream_ids /\ new.exited = old.exited
        /\ new.r2a = rest /\ new.r2a_freed = r2a_freed'
    BY <1>1 DEF daemonVars, Daemon, DaemonFields
  <2>2. DaemonInv(old, KnownIds, {}) /\ KnownIds' = KnownBy(new)
    BY <1>2, Known
  <2> HIDE DEF old, new, rest
  <2>3. DaemonInv(new, KnownIds, {})
    BY <1>4, <1>5, <2>1, <2>2, RingTables
  <2>4. DaemonInv(new, KnownIds', {}) /\ KnownIds' \subseteq KnownIds
    BY <2>2, <2>3, OnlyKnown
  <2> QED
    BY <2>4 DEF DaemonSide, new
<1>7. PICK n \in 1 .. StreamIds + 1 :
        /\ KnownIds \subseteq 1 .. n - 1
        /\ DriverInv(Driver, Port, n, KnownIds)
        /\ PortSound(task_mp, ior, n, ConnectsIssued) /\ task_mp \in Seq(Requests)
  BY <1>1, DriverHas DEF Sound
<1>8. Plain(Driver)
  BY <1>7, InPort
<1>9. e = HandleR2aPacket(Driver, p)
  OBVIOUS
<1> HIDE DEF e, p
<1>10. DriverInv(e, Port, n, KnownIds)
  BY <1>4, <1>7, <1>9, R2aPacketKeeps
<1>11. Answers(Driver, e)
  BY <1>4, <1>8, <1>9, PacketAnswers
<1>12. AmigaInv'
  BY <1>1, <1>6, <1>7, <1>10, <1>11, TaskKeeps DEF Sound
<1> QED
  BY <1>6, <1>12

LEMMA SendOneKeeps ==
  ASSUME Sound, SendOneQueued, UNCHANGED <<workload, daemonVars>>
  PROVE  AmigaInv' /\ DaemonSide'
<1> DEFINE e == SendQueued(Driver)
<1>1. /\ task_pc # "gone" /\ HeadFits(Driver) /\ Become(e) /\ task_pc' # "gone"
      /\ r2a' = r2a /\ r2a_freed' = r2a_freed /\ task_mp' = task_mp /\ budget' = budget
  BY DEF SendOneQueued, R2aSeenEmpty, NoMoreRequests
<1>2. DaemonSide' /\ KnownIds' = KnownIds
  <2>1. UNCHANGED daemonTables
    BY <1>1 DEF daemonTables, daemonVars
  <2> QED
    BY <2>1, DaemonStays DEF Sound
<1>3. PICK n \in 1 .. StreamIds + 1 :
        /\ KnownIds \subseteq 1 .. n - 1
        /\ DriverInv(Driver, Port, n, KnownIds)
        /\ PortSound(task_mp, ior, n, ConnectsIssued) /\ task_mp \in Seq(Requests)
  BY <1>1, DriverHas DEF Sound
<1>4. Plain(Driver) /\ e = SendQueued(Driver)
  BY <1>3, InPort
<1> HIDE DEF e
<1>5. DriverInv(e, Port, n, KnownIds)
  BY <1>1, <1>3, <1>4, SendQueuedKeeps
<1>6. Answers(Driver, e)
  BY <1>4, QueuedAnswers
<1>7. AmigaInv'
  BY <1>1, <1>2, <1>3, <1>5, <1>6, TaskKeeps DEF Sound
<1> QED
  BY <1>2, <1>7

\* TaskStart, Wake and WaitOrGoOn.
LEMMA OtherStepsKeep ==
  ASSUME Sound, TaskStart \/ Wake \/ WaitOrGoOn, UNCHANGED <<workload, daemonVars>>
  PROVE  AmigaInv' /\ DaemonSide'
<1>1. /\ UNCHANGED driverKeeps /\ a2r' = a2r /\ r2a' = r2a /\ r2a_freed' = r2a_freed
      /\ task_pc # "gone" /\ task_pc' # "gone"
  <2>1. CASE TaskStart
    BY <2>1 DEF TaskStart, driverKeeps
  <2>2. CASE Wake
    BY <2>2 DEF Wake, driverKeeps, linkVars
  <2>3. CASE WaitOrGoOn
    BY <2>3 DEF WaitOrGoOn, driverKeeps, R2aSeenEmpty, NoMoreRequests
  <2> QED
    BY <2>1, <2>2, <2>3
<1>2. DaemonSide' /\ KnownIds' = KnownIds
  <2>1. UNCHANGED daemonTables
    BY <1>1 DEF daemonTables, daemonVars
  <2> QED
    BY <2>1, DaemonStays DEF Sound
<1>3. AmigaInv'
  BY <1>1, <1>2, AmigaStays DEF Sound
<1> QED
  BY <1>2, <1>3

LEMMA RebootKeeps ==
  ASSUME Sound, Reboot, UNCHANGED <<workload, daemonVars>>
  PROVE  AmigaInv' /\ DaemonSide'
<1>1. DaemonSide' /\ KnownIds' = KnownIds
  <2>1. UNCHANGED daemonTables
    BY DEF daemonTables, daemonVars, Reboot, linkVars
  <2> QED
    BY <2>1, DaemonStays DEF Sound
<1>2. PICK n \in 1 .. StreamIds + 1 : KnownIds \subseteq 1 .. n - 1 /\ RingOK(a2r, n)
  BY DEF Sound, AmigaInv
<1>3. NoDriver' /\ task_pc' = "gone" /\ a2r' = a2r
  BY DEF Reboot, NoDriver, linkVars
<1>4. AmigaInv'
  BY <1>1, <1>2, <1>3 DEF AmigaInv
<1> QED
  BY <1>1, <1>4

LEMMA SubmitStepKeeps ==
  ASSUME Sound, NEW r \in Requests, NEW c \in Commands, NEW k \in Keys,
         NEW len \in Nat, NEW name \in Names \cup {NoName}, c = "EOS" => len = 0,
         Submit(r, c, k, len, name), UNCHANGED <<workload, daemonVars>>
  PROVE  AmigaInv' /\ DaemonSide'
<1> DEFINE q == [at |-> "driver", command |-> c, key |-> k, len |-> len,
                 val |-> Issued(c), name |-> name]
<1>1. /\ task_pc # "gone" /\ task_pc' = task_pc /\ ior[r] = AtApplication
      /\ budget[c] > 0 /\ budget' = [budget EXCEPT ![c] = @ - 1]
      /\ ior' = [ior EXCEPT ![r] = q] /\ task_mp' = Append(task_mp, r)
      /\ sockets' = sockets /\ send_queue' = send_queue /\ a2r' = a2r
      /\ next_stream_id' = next_stream_id /\ r2a' = r2a /\ r2a_freed' = r2a_freed
  BY DEF Submit, Running, linkVars
<1>2. DaemonSide' /\ KnownIds' = KnownIds
  <2>1. UNCHANGED daemonTables
    BY <1>1 DEF daemonTables, daemonVars
  <2> QED
    BY <2>1, DaemonStays DEF Sound
<1>3. PICK n \in 1 .. StreamIds + 1 :
        /\ KnownIds \subseteq 1 .. n - 1 /\ n \in Nat \ {0} /\ RingOK(a2r, n)
        /\ DriverInv(Driver, Port, n, KnownIds)
        /\ PortSound(task_mp, ior, n, ConnectsIssued) /\ task_mp \in Seq(Requests)
  BY <1>1, DriverHas DEF Sound
<1>4. /\ \A x : Among(task_mp, x) <=> x \in Port
      /\ \A x \in Port : ior[x].val \in Nat /\ ior[x].at = "driver"
      /\ Plain(Driver) /\ Driver.ior = ior
  BY <1>3, InPort
<1>5. r \notin Port /\ Driver.ior[r].at # "driver"
  BY <1>1, <1>4 DEF AtApplication
<1>6. /\ Issued(c) \in Nat
      /\ c = "CONNECT" => Issued(c) = ConnectsIssued + 1 /\ Issued(c) \in Conversations
  <2> DEFINE a == workload.amiga[c]
             b == budget[c]
  <2>1. workload \in Workload /\ workload.amiga["CONNECT"] <= MaxConv
    BY WorkloadAssumption DEF Sound, Shared
  <2>2. a \in Nat /\ b \in Nat /\ b <= a /\ b > 0 /\ Issued(c) = a - b + 1
    BY <1>1, <2>1 DEF Workload, Sound, Shared, Issued
  <2>3. c = "CONNECT" => a <= MaxConv /\ ConnectsIssued = a - b
    BY <2>1 DEF ConnectsIssued
  <2> HIDE DEF a, b
  <2>4. a - b + 1 \in Nat /\ (a <= MaxConv => a - b + 1 \in 1 .. MaxConv)
    BY <2>2, LinkAssumption
  <2> QED
    BY <2>2, <2>3, <2>4 DEF Conversations
<1>7. q \in Asked
  <2> DEFINE v == Issued(c)
  <2>1. v \in Nat /\ (c = "CONNECT" => v \in Conversations)
    BY <1>6
  <2> HIDE DEF v
  <2>2. [at |-> "driver", command |-> c, key |-> k, len |-> len, val |-> v,
         name |-> name] \in Asked
    BY <2>1 DEF Asked
  <2> QED
    BY <2>2 DEF v
<1>8. /\ q.command = c /\ q.val = Issued(c)
  OBVIOUS
<1> HIDE DEF q
<1> DEFINE e == [Driver EXCEPT !.ior[r] = q]
<1>9. DriverInv(e, Port \cup {r}, n, KnownIds)
  BY <1>3, <1>5, <1>7, SubmitKeeps
<1>10. /\ DOMAIN e = DriverFields /\ e.sockets = sockets /\ e.send_queue = send_queue
       /\ e.next_stream_id = next_stream_id /\ e.a2r = a2r /\ e.ior = ior'
  BY <1>1 DEF Driver, DriverFields
<1>11. Port' = Port \cup {r}
  <2>1. {x \in Requests : Among(Append(task_mp, r), x)}
          = {x \in Requests : Among(task_mp, x)} \cup {r}
    BY <1>3, PortGrows
  <2> QED
    BY <1>1, <2>1 DEF Port
<1>12. DriverInv(Driver', Port', n, KnownIds')
  <2> DEFINE f == Driver'
  <2>1. /\ DOMAIN f = DriverFields /\ f.sockets = e.sockets
        /\ f.send_queue = e.send_queue /\ f.next_stream_id = e.next_stream_id
        /\ f.ior = e.ior /\ f.a2r = e.a2r
    BY <1>1, <1>10 DEF Driver, DriverFields
  <2> HIDE DEF f, e
  <2>2. DriverInv(f, Port \cup {r}, n, KnownIds)
    BY <1>9, <2>1, SameDriver
  <2> QED
    BY <1>2, <1>11, <2>2 DEF f
<1>13. PortSound(task_mp', ior', n, ConnectsIssued')
  <2> DEFINE new == ior'
             b == ConnectsIssued
             b2 == ConnectsIssued'
             longer == Append(task_mp, r)
  <2>1. b \in Nat /\ n \in Nat
    BY <1>3, IssuedFacts DEF Sound
  <2>2. new = [ior EXCEPT ![r] = q] /\ r \in DOMAIN ior
    BY <1>1, <1>4 DEF Plain
  <2>3. new[r] = q /\ \A x : Among(task_mp, x) => new[x] = ior[x]
    <3> HIDE DEF new
    <3>1. \A x : Among(task_mp, x) => x \in DOMAIN ior /\ x # r
      BY <1>4, <1>5 DEF Plain, Port
    <3> QED
      BY <2>2, <3>1
  <2>4. \/ new[r].command # "CONNECT" /\ b2 = b
        \/ new[r].command = "CONNECT" /\ new[r].val = b + 1 /\ b2 = b + 1
    <3>1. budget \in [Commands -> Nat] /\ "CONNECT" \in Commands
      BY DEF Sound, Shared, Commands
    <3>2. CASE c # "CONNECT"
      <4>1. budget'["CONNECT"] = budget["CONNECT"]
        BY <1>1, <3>1, <3>2
      <4> QED
        BY <1>8, <2>3, <3>2, <4>1 DEF ConnectsIssued
    <3>3. CASE c = "CONNECT"
      <4> DEFINE x == budget["CONNECT"]
                 a == workload.amiga["CONNECT"]
      <4>1. budget'["CONNECT"] = x - 1 /\ x \in Nat /\ a \in Nat
        BY <1>1, <3>1, <3>3, IssuedFacts DEF Sound
      <4>2. b = a - x /\ b2 = a - (x - 1)
        BY <4>1 DEF ConnectsIssued
      <4>3. new[r].val = b + 1 /\ new[r].command = "CONNECT"
        BY <1>6, <1>8, <2>3, <3>3
      <4> HIDE DEF x, a, b, b2, new
      <4>4. b2 = b + 1
        BY <4>1, <4>2
      <4> QED
        BY <4>3, <4>4
    <3> QED
      BY <3>2, <3>3
  <2>5. PortSound(task_mp, ior, n, b) /\ ~Among(task_mp, r)
        /\ \A x : Among(task_mp, x) => ior[x].val \in Nat
    BY <1>3, <1>4, <1>5
  <2>6. longer = Append(task_mp, r) /\ \A x : Among(task_mp, x) => new[x] = ior[x]
    BY <2>3
  <2> HIDE DEF new, b, b2, longer
  <2>7. PortSound(longer, new, n, b2)
    BY ONLY <2>1, <2>4, <2>5, <2>6, r \in Requests, PortJoined
  <2> QED
    BY <1>1, <2>7 DEF new, b2, longer
<1>14. AmigaInv'
  BY <1>1, <1>2, <1>3, <1>12, <1>13, AmigaAfter
<1> QED
  BY <1>2, <1>14

-----------------------------------------------------------------------------
(* The steps of the clients.                                               *)

LEMMA LinkStays ==
  ASSUME Sound, DaemonSide', KnownIds' = KnownIds, a2r' = a2r,
         UNCHANGED <<workload, driverVars>>
  PROVE  AmigaInv'
<1>1. UNCHANGED driverKeeps /\ (task_pc = "gone" <=> task_pc' = "gone")
  BY DEF driverVars, driverKeeps
<1> QED
  BY <1>1, AmigaStays DEF Sound

\* A client connects, or closes its end.
LEMMA ConnectionKeeps ==
  ASSUME Sound, NEW c \in Clients, Accept(c) \/ ClientCloses(c),
         UNCHANGED <<workload, driverVars>>
  PROVE  AmigaInv' /\ DaemonSide' /\ FromClients'
<1> DEFINE p == Daemon("EPIPE")
           e == Daemon("EPIPE")'
<1>1. PICK s \in Alive : connections' = [connections EXCEPT ![c] = s]
  BY DEF Accept, ClientCloses, Alive
<1>2. /\ a2r' = a2r /\ from_client' = from_client
      /\ UNCHANGED <<channels, d_send_queue, services, stream_ids, exited, r2a, r2a_freed>>
  BY DEF Accept, ClientCloses, linkVars, daemonRest, clientVars
<1>3. /\ DOMAIN e = DaemonFields
      /\ e.channels = p.channels /\ e.send_queue = p.send_queue
      /\ e.services = p.services /\ e.stream_ids = p.stream_ids
      /\ e.r2a = p.r2a /\ e.r2a_freed = p.r2a_freed /\ e.exited = p.exited
      /\ e.connections = [p.connections EXCEPT ![c] = s] /\ KnownIds' = KnownIds
  BY <1>1, <1>2 DEF Daemon, DaemonFields, KnownIds
<1>4. DaemonInv(p, KnownIds, {})
  BY DEF Sound, DaemonSide
<1> HIDE DEF p, e
<1>5. p.connections \in [Clients -> {"unused", "open", "gone", "closed"}]
  BY <1>4, DaemonFacts DEF TablesOK
<1>6. /\ e.connections \in [Clients -> {"unused", "open", "gone", "closed"}]
      /\ \A x \in Clients : p.connections[x] \in Alive => e.connections[x] \in Alive
  BY <1>3, <1>5 DEF Alive
<1>7. DaemonInv(e, KnownIds, {})
  <2>1. TablesOK(p, KnownIds)
    BY <1>4, DaemonFacts
  <2>2. TablesOK(e, KnownIds)
    BY <1>3, <1>6, <2>1 DEF TablesOK
  <2>3. DQueueOK(e, KnownIds) /\ StreamsDistinct(e)
    BY <1>3, <1>4, DaemonFacts DEF DQueueOK, StreamsDistinct
  <2>4. ASSUME NEW id \in DOMAIN e.channels PROVE ChannelOK(e, id, {})
    <3>1. /\ ChannelOK(p, id, {}) /\ e.channels = p.channels
          /\ e.send_queue = p.send_queue /\ e.stream_ids = p.stream_ids
      BY <1>3, <1>4, <2>4, DaemonFacts
    <3> QED
      BY ONLY <1>6, <3>1 DEF ChannelOK
  <2> QED
    BY <2>2, <2>3, <2>4 DEF DaemonInv, ChannelOK
<1>8. DaemonSide'
  BY <1>3, <1>7 DEF DaemonSide, e
<1>9. FromClients'
  BY <1>2 DEF Sound, FromClients
<1>10. AmigaInv'
  BY <1>2, <1>3, <1>8, LinkStays
<1> QED
  BY <1>8, <1>9, <1>10

LEMMA MessagesAppend ==
  ASSUME NEW q, Messages(q), NEW m, MessageOK(m), NEW r, r = Append(q, m)
  PROVE  Messages(r)
<1> DEFINE S == {q[i] : i \in DOMAIN q} \cup {m}
           n == Len(q)
<1>1. q \in Seq({q[i] : i \in DOMAIN q})
  BY DEF Messages
<1>2. q \in Seq(S) /\ m \in S
  BY <1>1, SeqDef
<1> HIDE DEF S
<1>3. /\ r \in Seq(S) /\ Len(r) = n + 1 /\ n \in Nat /\ r[n + 1] = m
      /\ \A i \in 1 .. n : r[i] = q[i]
  BY <1>2, AppendProperties, LenProperties
<1> HIDE DEF n
<1>4. \A i \in 1 .. n + 1 : i \in 1 .. n \/ i = n + 1
  BY <1>3
<1>5. \A i \in 1 .. Len(r) : MessageOK(r[i])
  BY <1>3, <1>4 DEF Messages, n
<1> DEFINE T == {r[i] : i \in DOMAIN r}
<1>6. DOMAIN r = 1 .. n + 1 /\ r = [i \in 1 .. n + 1 |-> r[i]]
  BY <1>3, LenProperties
<1>7. r \in [1 .. n + 1 -> T]
  <2>1. \A i \in 1 .. n + 1 : r[i] \in T
    BY <1>6
  <2> HIDE DEF T
  <2> QED
    BY <1>6, <2>1
<1>8. r \in Seq(T)
  <2> HIDE DEF T
  <2> DEFINE l == n + 1
  <2>1. l \in Nat /\ r \in [1 .. l -> T]
    BY <1>3, <1>7
  <2> HIDE DEF l
  <2> QED
    BY <2>1, SeqDef
<1> QED
  BY <1>5, <1>8 DEF Messages

LEMMA SendsKeeps ==
  ASSUME Sound, NEW c \in Clients, NEW m, MessageOK(m), ClientSends(c, m),
         UNCHANGED <<workload, driverVars>>
  PROVE  AmigaInv' /\ DaemonSide' /\ FromClients'
<1>1. /\ from_client' = [from_client EXCEPT ![c] = Append(@, m)] /\ a2r' = a2r
      /\ UNCHANGED daemonTables
  BY DEF ClientSends, linkVars, daemonRest, daemonTables
<1>2. DaemonSide' /\ KnownIds' = KnownIds
  BY <1>1, DaemonStays DEF Sound
<1>3. Messages(Append(from_client[c], m))
  BY MessagesAppend DEF Sound, FromClients
<1>4. FromClients'
  <2> DEFINE new == Append(from_client[c], m)
  <2>1. from_client' = [from_client EXCEPT ![c] = new] /\ Messages(new)
    BY <1>1, <1>3
  <2> HIDE DEF new
  <2> QED
    BY <2>1 DEF Sound, FromClients
<1> QED
  BY <1>1, <1>2, <1>4, LinkStays

LEMMA TalksKeeps ==
  ASSUME Sound, NEW c \in Clients, ClientTalks(c), UNCHANGED <<workload, driverVars>>
  PROVE  AmigaInv' /\ DaemonSide' /\ FromClients'
<1>1. ASSUME NEW n, NEW a \in {"REGISTER", "DEREGISTER"},
             ClientSends(c, [type |-> a, val |-> n])
      PROVE  AmigaInv' /\ DaemonSide' /\ FromClients'
  <2>1. MessageOK([type |-> a, val |-> n])
    BY DEF MessageOK, MessageTypes
  <2> QED
    BY <1>1, <2>1, SendsKeeps
<1>2. ASSUME NEW type \in MessageTypes, NEW sid, NEW len \in Nat, NEW val, NEW conv,
             ClientSends(c, StreamMessage(type, sid, len, val, conv))
      PROVE  AmigaInv' /\ DaemonSide' /\ FromClients'
  <2>1. MessageOK(StreamMessage(type, sid, len, val, conv))
    BY DEF MessageOK, StreamMessage
  <2> QED
    BY <1>2, <2>1, SendsKeeps
<1>3. CASE ClientRegisters(c)
  BY <1>1, <1>3 DEF ClientRegisters
<1>4. ASSUME NEW sid, NEW result, ClientAnswers(c, sid, result)
      PROVE  AmigaInv' /\ DaemonSide' /\ FromClients'
  <2>1. "RESPONSE" \in MessageTypes /\ 1 \in Nat
    BY DEF MessageTypes
  <2> QED
    BY <1>2, <1>4, <2>1 DEF ClientAnswers
<1>5. ASSUME NEW sid, NEW type \in {"DATA", "EOS", "RESET"}, NEW len \in Nat,
             ClientSpeaks(c, sid, type, len)
      PROVE  AmigaInv' /\ DaemonSide' /\ FromClients'
  <2>1. type \in MessageTypes
    BY DEF MessageTypes
  <2> QED
    BY <1>2, <1>5, <2>1 DEF ClientSpeaks
<1>6. \A len \in DataLens : len \in Nat
  BY DaemonAssumption
<1> QED
  BY <1>3, <1>4, <1>5, <1>6 DEF ClientTalks

LEMMA ReceivesKeeps ==
  ASSUME Sound, NEW c \in Clients, ClientReceives(c), UNCHANGED <<workload, driverVars>>
  PROVE  AmigaInv' /\ DaemonSide' /\ FromClients'
<1>1. /\ from_client' = from_client /\ a2r' = a2r /\ UNCHANGED daemonTables
  BY DEF ClientReceives, daemonRest, daemonTables
<1>2. DaemonSide' /\ KnownIds' = KnownIds
  BY <1>1, DaemonStays DEF Sound
<1>3. FromClients'
  BY <1>1 DEF Sound, FromClients
<1> QED
  BY <1>1, <1>2, <1>3, LinkStays

-----------------------------------------------------------------------------
(* The invariant of the whole holds from the start and in every step.      *)

LEMMA NoneIn ==
  /\ Len(<<>>) = 0 /\ DOMAIN <<>> = {} /\ \A S : <<>> \in Seq(S)
  /\ Once(<<>>) /\ \A x : ~Among(<<>>, x)
<1> DEFINE none == <<>>
<1>1. Len(none) = 0 /\ \A S : none \in Seq(S)
  BY EmptySeq
<1>2. DOMAIN none = {}
  BY <1>1, LenProperties
<1> HIDE DEF none
<1>3. Once(none) /\ \A x : ~Among(none, x)
  BY <1>1 DEF Once, Among
<1> QED
  BY <1>1, <1>2, <1>3 DEF none

LEMMA InitDriver ==
  ASSUME DriverInit, workload \in Workloads, a2r = <<>>, KnownIds = {}
  PROVE  DriverInv(Driver, Port, 1, KnownIds) /\ PortOK(1)
<1> DEFINE d == Driver
<1>1. /\ DOMAIN d = DriverFields /\ d.sockets = <<>> /\ d.send_queue = <<>>
      /\ d.next_stream_id = 1 /\ d.a2r = <<>>
      /\ d.ior = [r \in Requests |-> AtApplication]
  BY DEF DriverInit, Driver, DriverFields
<1> HIDE DEF d
<1>2. Port = {} /\ PortOK(1)
  <2>1. task_mp = <<>> /\ ConnectsIssued = workload.amiga["CONNECT"] - budget["CONNECT"]
    BY DEF DriverInit, ConnectsIssued
  <2>2. budget = workload.amiga
    BY DEF DriverInit
  <2>3. 1 <= ConnectsIssued + 1
    <3> DEFINE a == workload.amiga["CONNECT"]
    <3>1. a \in Nat
      BY WorkloadAssumption DEF Workload, Commands
    <3>2. ConnectsIssued = a - a
      BY <2>1, <2>2
    <3> HIDE DEF a
    <3> QED
      BY <3>1, <3>2
  <2> QED
    BY <2>1, <2>3, NoneIn DEF Port, PortOK
<1>3. QueueOK(d) /\ RingOK(d.a2r, 1) /\ IdsOK(d, 1)
  BY <1>1, NoneIn, EmptyRing, DriverAssumption DEF QueueOK, IdsOK
<1>4. d.ior \in AllRequests /\ \A r \in Requests : d.ior[r].at # "driver"
  BY <1>1 DEF AllRequests, AtApplication
<1>5. \A k \in Keys : KeyOK(d, k, {}, KnownIds)
  BY <1>1, <1>4, NoneIn DEF KeyOK
<1> QED
  BY <1>2, <1>3, <1>4, <1>5 DEF DriverInv, d

LEMMA InitDaemon ==
  ASSUME DaemonInit, LinkInit
  PROVE  DaemonSide /\ KnownIds = {} /\ FromClients
<1> DEFINE p == Daemon("EPIPE")
<1>1. /\ DOMAIN p = DaemonFields /\ p.channels = <<>> /\ p.send_queue = <<>>
      /\ p.services = <<>> /\ p.connections = [c \in Clients |-> "unused"]
      /\ p.stream_ids = [c \in Clients |-> 1] /\ p.exited = "no"
      /\ p.r2a = <<>> /\ p.r2a_freed = 0
  BY DEF DaemonInit, LinkInit, Daemon, DaemonFields
<1>2. KnownIds = {}
  BY NoneIn DEF DaemonInit, LinkInit, KnownIds
<1> HIDE DEF p
<1>3. TablesOK(p, {})
  <2>1. Packets(p.r2a, {}) /\ Bytes(p.r2a) + p.r2a_freed <= RingSize - 1
    BY <1>1, PacketsEmpty, BytesOfNone, LinkAssumption DEF HeaderBytes
  <2> QED
    BY <1>1, <2>1, NoneIn DEF TablesOK, Exits
<1>4. DQueueOK(p, {}) /\ StreamsDistinct(p)
  BY <1>1, NoneIn DEF DQueueOK, StreamsDistinct
<1>5. DaemonInv(p, {}, {})
  BY <1>1, <1>3, <1>4, NoneIn DEF DaemonInv
<1>6. FromClients
  BY NoMessages DEF DaemonInit, FromClients
<1> QED
  BY <1>2, <1>5, <1>6 DEF DaemonSide, p

LEMMA InitSound == ASSUME Init PROVE SystemInv
<1>1. DaemonSide /\ KnownIds = {} /\ FromClients
  BY InitDaemon DEF Init
<1>2. workload \in Workloads /\ budget = workload.amiga /\ a2r = <<>> /\ task_pc = "off"
  BY DEF Init, LinkInit, DriverInit
<1>3. DriverInv(Driver, Port, 1, KnownIds) /\ PortOK(1)
  BY <1>1, <1>2, InitDriver DEF Init
<1>4. AmigaInv
  <2>1. 1 \in 1 .. StreamIds + 1 /\ RingOK(a2r, 1)
    BY <1>2, EmptyRing, DriverAssumption
  <2> QED
    BY <1>1, <1>2, <1>3, <2>1 DEF AmigaInv
<1>5. Shared
  <2>1. workload \in Workload
    BY <1>2, WorkloadAssumption
  <2>2. budget \in [Commands -> Nat]
    BY <1>2, <2>1 DEF Workload
  <2>3. \A c \in Commands : budget[c] <= workload.amiga[c]
    BY <1>2, <2>2
  <2>4. a_events = {} /\ irq_fds = <<>>
    BY DEF Init, LinkInit
  <2> QED
    BY <1>2, <2>2, <2>3, <2>4, NoneIn DEF Shared
<1> QED
  BY <1>1, <1>4, <1>5 DEF SystemInv, DaemonSide

Events == {"R2A_TAIL", "A2R_HEAD"}
Pcs == {"off", "wait", "requests", "packets", "room", "gone"}

\* No step gives back what has been spent.
LEMMA DriverShared ==
  ASSUME Shared, DriverNext, UNCHANGED workload
  PROVE  Shared' /\ budget'["CONNECT"] <= budget["CONNECT"]
<1>1. /\ workload \in Workloads /\ budget \in [Commands -> Nat]
      /\ \A c \in Commands : budget[c] <= workload.amiga[c]
      /\ task_pc \in Pcs /\ a_events \subseteq Events
      /\ irq_fds \in Seq({"STARTED", "MOVED"})
  BY DEF Shared, Pcs, Events
<1>2. "CONNECT" \in Commands /\ Commands = {"CONNECT", "READ", "WRITE", "EOS", "RESET"}
  BY DEF Commands
<1>3. CASE budget' = budget
  <2>1. task_pc' \in Pcs /\ a_events' \subseteq Events
        /\ irq_fds' \in Seq({"STARTED", "MOVED"})
    <3>1. CASE TaskStart
      BY <1>1, <3>1 DEF TaskStart, Pcs
    <3>2. CASE Wake
      BY <1>1, <3>2 DEF Wake, Pcs, linkVars
    <3>3. CASE TakeRequest
      BY <1>1, <3>3 DEF TakeRequest
    <3>4. CASE TakePacket
      BY <1>1, <3>4 DEF TakePacket, Pcs
    <3>5. CASE SendOneQueued
      BY <1>1, <3>5 DEF SendOneQueued, Pcs
    <3>6. CASE WaitOrGoOn
      <4>1. Notify(irq_fds, "MOVED") \in Seq({"STARTED", "MOVED"})
        BY <1>1 DEF Notify
      <4> QED
        BY <1>1, <3>6, <4>1 DEF WaitOrGoOn, Pcs
    <3>7. CASE Reboot
      BY <1>1, <3>7 DEF Reboot, Pcs, linkVars
    <3>8. CASE Application
      BY <1>1, <3>8 DEF Application, Submit, linkVars
    <3> QED
      BY <3>1, <3>2, <3>3, <3>4, <3>5, <3>6, <3>7, <3>8 DEF DriverNext, TaskStep
  <2>2. budget["CONNECT"] \in Nat
    BY <1>1, <1>2
  <2> QED
    BY <1>1, <1>3, <2>1, <2>2 DEF Shared, Pcs, Events
<1>4. ASSUME NEW c \in Commands, budget[c] > 0,
             budget' = [budget EXCEPT ![c] = @ - 1],
             UNCHANGED <<task_pc, a_events, irq_fds>>
      PROVE  Shared' /\ budget'["CONNECT"] <= budget["CONNECT"]
  <2>1. ASSUME NEW x \in Commands
        PROVE  /\ budget'[x] \in Nat /\ budget'[x] <= budget[x]
               /\ budget'[x] <= workload.amiga[x]
    <3> DEFINE b == budget[x]
               a == workload.amiga[x]
    <3>1. b \in Nat /\ b <= a /\ (x = c => b > 0)
      BY <1>1, <1>4
    <3>2. budget'[x] = IF x = c THEN b - 1 ELSE b
      BY <1>1, <1>4
    <3>3. a \in Nat
      BY <1>1, WorkloadAssumption DEF Workload
    <3> HIDE DEF a, b
    <3>4. budget'[x] \in Nat /\ budget'[x] <= b /\ budget'[x] <= a
      BY <3>1, <3>2, <3>3
    <3> QED
      BY <3>4 DEF a, b
  <2>2. budget' \in [Commands -> Nat]
    BY <1>1, <1>4, <2>1
  <2> QED
    BY <1>1, <1>2, <1>4, <2>1, <2>2 DEF Shared, Pcs, Events
<1>5. CASE Application
  <2>1. PICK c \in Commands : budget[c] > 0 /\ budget' = [budget EXCEPT ![c] = @ - 1]
                              /\ UNCHANGED <<task_pc, a_events, irq_fds>>
    BY <1>2, <1>5 DEF Application, Submit, linkVars
  <2> QED
    BY <1>4, <2>1
<1>6. CASE ~Application
  <2>1. budget' = budget
    BY <1>6 DEF DriverNext, TaskStep, TaskStart, Wake, TakeRequest, TakePacket,
                SendOneQueued, WaitOrGoOn, Reboot
  <2> QED
    BY <1>3, <2>1
<1> QED
  BY <1>5, <1>6

LEMMA DaemonShared ==
  ASSUME Shared, DaemonStep \/ ClientStep, UNCHANGED <<workload, driverVars>>
  PROVE  Shared' /\ budget' = budget
<1>1. /\ workload \in Workloads /\ budget \in [Commands -> Nat]
      /\ \A c \in Commands : budget[c] <= workload.amiga[c]
      /\ task_pc \in Pcs /\ a_events \subseteq Events
      /\ irq_fds \in Seq({"STARTED", "MOVED"})
  BY DEF Shared, Pcs, Events
<1>2. budget' = budget /\ task_pc' = task_pc
  BY DEF driverVars
<1>3. ASSUME NEW p, NEW b, Publish(p, b) PROVE a_events' \subseteq Events
  BY <1>1, <1>3 DEF Publish, Events
<1>4. a_events' \subseteq Events /\ irq_fds' \in Seq({"STARTED", "MOVED"})
  <2>1. CASE HandleA314Irq
    <3>1. a_events' \subseteq Events
      BY <1>3, <2>1 DEF HandleA314Irq
    <3>2. irq_fds # <<>> /\ irq_fds' = Tail(irq_fds)
      BY <2>1 DEF HandleA314Irq
    <3> QED
      BY <1>1, <3>1, <3>2, HeadTailProperties
  <2>2. ASSUME NEW c \in Clients, HandleClientInput(c) \/ HandleClientError(c)
                                  \/ HandleClientOutput(c)
        PROVE  a_events' \subseteq Events /\ irq_fds' = irq_fds
    BY <1>3, <2>2 DEF HandleClientInput, HandleClientError, HandleClientOutput
  <2>3. ASSUME NEW c \in Clients, Accept(c) \/ ClientTalks(c) \/ ClientReceives(c)
                                  \/ ClientCloses(c)
        PROVE  a_events' = a_events /\ irq_fds' = irq_fds
    BY <2>3 DEF Accept, ClientTalks, ClientReceives, ClientCloses, ClientRegisters,
                ClientAnswers, ClientSpeaks, ClientSends, linkVars
  <2> QED
    BY <1>1, <2>1, <2>2, <2>3 DEF DaemonStep, ClientStep
<1> QED
  BY <1>1, <1>2, <1>4 DEF Shared, Pcs, Events

\* Whoever steps, and when nobody does, the two sides stay sound.
LEMMA DriverKeeps ==
  ASSUME Sound, FreshIds, DriverNext, UNCHANGED <<workload, daemonVars>>
  PROVE  AmigaInv' /\ DaemonSide'
<1>1. CASE Application
  <2>1. PICK r \in Requests, k \in Keys :
          \/ \E n \in Names : Submit(r, "CONNECT", k, NameLen, n)
          \/ \E len \in ReadLens : Submit(r, "READ", k, len, NoName)
          \/ \E len \in WriteLens : Submit(r, "WRITE", k, len, NoName)
          \/ Submit(r, "EOS", k, 0, NoName)
          \/ Submit(r, "RESET", k, 0, NoName)
    BY <1>1 DEF Application
  <2>2. PICK c \in Commands, len \in Nat, name \in Names \cup {NoName} :
          Submit(r, c, k, len, name) /\ (c = "EOS" => len = 0)
    <3>1. /\ NameLen \in Nat /\ 0 \in Nat /\ ReadLens \subseteq Nat
          /\ WriteLens \subseteq Nat
      BY LinkAssumption, DriverAssumption
    <3>2. /\ "CONNECT" \in Commands /\ "READ" \in Commands /\ "WRITE" \in Commands
          /\ "EOS" \in Commands /\ "RESET" \in Commands
      BY DEF Commands
    <3>3. CASE \E n \in Names : Submit(r, "CONNECT", k, NameLen, n)
      BY <3>1, <3>2, <3>3, Zenon
    <3>4. CASE \E len \in ReadLens : Submit(r, "READ", k, len, NoName)
      BY <3>1, <3>2, <3>4, Zenon
    <3>5. CASE \E len \in WriteLens : Submit(r, "WRITE", k, len, NoName)
      BY <3>1, <3>2, <3>5, Zenon
    <3>6. CASE Submit(r, "EOS", k, 0, NoName) \/ Submit(r, "RESET", k, 0, NoName)
      BY <3>1, <3>2, <3>6, Zenon
    <3> QED
      BY ONLY <2>1, <3>3, <3>4, <3>5, <3>6
  <2> QED
    BY <2>2, SubmitStepKeeps
<1>2. CASE ~Application
  <2>1. \/ TakeRequest \/ TakePacket \/ SendOneQueued \/ Reboot
        \/ (TaskStart \/ Wake \/ WaitOrGoOn)
    BY <1>2 DEF DriverNext, TaskStep
  <2> QED
    BY <2>1, TakeRequestKeeps, TakePacketKeeps, SendOneKeeps, RebootKeeps, OtherStepsKeep
<1> QED
  BY <1>1, <1>2

LEMMA DaemonKeeps ==
  ASSUME Sound, DaemonStep \/ ClientStep, UNCHANGED <<workload, driverVars>>
  PROVE  AmigaInv' /\ DaemonSide' /\ FromClients'
<1>1. CASE HandleA314Irq
  <2>1. from_client' = from_client
    BY <1>1 DEF HandleA314Irq
  <2> QED
    BY <1>1, <2>1, IrqKeeps DEF Sound, FromClients
<1>2. ASSUME NEW c \in Clients,
             HandleClientInput(c) \/ HandleClientError(c) \/ HandleClientOutput(c)
      PROVE  AmigaInv' /\ DaemonSide' /\ FromClients'
  BY <1>2, InputKeeps, ErrorKeeps, OutputKeeps
<1>3. ASSUME NEW c \in Clients,
             Accept(c) \/ ClientTalks(c) \/ ClientReceives(c) \/ ClientCloses(c)
      PROVE  AmigaInv' /\ DaemonSide' /\ FromClients'
  BY <1>3, ConnectionKeeps, TalksKeeps, ReceivesKeeps
<1>4. \/ HandleA314Irq
      \/ \E c \in Clients : HandleClientInput(c) \/ HandleClientError(c)
                            \/ HandleClientOutput(c)
      \/ \E c \in Clients : Accept(c) \/ ClientTalks(c) \/ ClientReceives(c)
                            \/ ClientCloses(c)
  BY DEF DaemonStep, ClientStep
<1> QED
  BY <1>1, <1>2, <1>3, <1>4

LEMMA NothingKeeps ==
  ASSUME Sound, UNCHANGED vars
  PROVE  Sound'
<1>1. /\ UNCHANGED daemonTables /\ UNCHANGED driverKeeps /\ a2r' = a2r
      /\ task_pc' = task_pc /\ from_client' = from_client
      /\ UNCHANGED <<a_events, irq_fds, workload, budget>>
  BY DEF vars, daemonTables, driverKeeps, linkVars, driverVars, daemonVars, clientVars
<1>2. DaemonSide' /\ KnownIds' = KnownIds
  BY <1>1, DaemonStays DEF Sound
<1>3. AmigaInv'
  BY <1>1, <1>2, AmigaStays DEF Sound
<1>4. FromClients' /\ Shared'
  BY <1>1 DEF Sound, FromClients, Shared
<1> QED
  BY <1>2, <1>3, <1>4 DEF Sound

LEMMA StepShared ==
  ASSUME Shared, [Next]_vars
  PROVE  Shared' /\ workload' = workload /\ budget'["CONNECT"] <= budget["CONNECT"]
<1>1. CASE DriverNext /\ UNCHANGED workload
  BY <1>1, DriverShared
<1>2. CASE (DaemonStep \/ ClientStep) /\ UNCHANGED <<workload, driverVars>>
  <2>1. Shared' /\ budget' = budget
    BY <1>2, DaemonShared
  <2>2. budget["CONNECT"] \in Nat
    BY IssuedFacts
  <2> QED
    BY <1>2, <2>1, <2>2
<1>3. CASE UNCHANGED vars
  <2>1. Shared' /\ budget' = budget /\ workload' = workload
    BY <1>3 DEF Shared, vars, linkVars, driverVars
  <2>2. budget["CONNECT"] \in Nat
    BY IssuedFacts
  <2> QED
    BY <2>1, <2>2
<1> QED
  BY <1>1, <1>2, <1>3 DEF Next

\* Ids that are fresh after a step were fresh before it.
LEMMA FreshBefore ==
  ASSUME Shared, [Next]_vars, FreshIds'
  PROVE  FreshIds
<1> DEFINE a == workload.amiga["CONNECT"]
           b == budget["CONNECT"]
           c == budget'["CONNECT"]
<1>1. a \in Nat /\ b \in Nat
  BY IssuedFacts
<1>2. c \in Nat /\ c <= b /\ workload' = workload
  BY StepShared DEF Shared, Commands
<1>3. FreshIds' <=> a - c <= StreamIds
  BY <1>2 DEF FreshIds
<1>4. FreshIds <=> a - b <= StreamIds
  BY DEF FreshIds
<1> HIDE DEF a, b, c
<1>5. StreamIds \in Nat
  BY DriverAssumption
<1> QED
  BY <1>1, <1>2, <1>3, <1>4, <1>5

LEMMA SystemStep ==
  ASSUME SystemInv, [Next]_vars
  PROVE  SystemInv'
<1>1. Shared /\ (FreshIds => Sound)
  BY DEF SystemInv, Sound, DaemonSide
<1>2. SystemInv' <=> Shared' /\ (FreshIds' => AmigaInv' /\ FromClients' /\ DaemonSide')
  BY DEF SystemInv, DaemonSide
<1>3. Shared'
  BY <1>1, StepShared
<1>4. FreshIds' => FreshIds
  BY <1>1, FreshBefore
<1>5. ASSUME Sound, FreshIds
      PROVE  AmigaInv' /\ FromClients' /\ DaemonSide'
  <2>1. CASE DriverNext /\ UNCHANGED <<workload, daemonVars>>
    <3>1. from_client' = from_client
      BY <2>1 DEF daemonVars, clientVars
    <3>2. FromClients'
      BY <1>5, <3>1 DEF Sound, FromClients
    <3>3. AmigaInv' /\ DaemonSide'
      BY <1>5, <2>1, DriverKeeps
    <3> QED
      BY <3>2, <3>3
  <2>2. CASE (DaemonStep \/ ClientStep) /\ UNCHANGED <<workload, driverVars>>
    BY <1>5, <2>2, DaemonKeeps
  <2>3. CASE UNCHANGED vars
    BY <1>5, <2>3, NothingKeeps DEF Sound
  <2> QED
    BY <2>1, <2>2, <2>3 DEF Next
<1> QED
  BY <1>1, <1>2, <1>3, <1>4, <1>5

\* What the proofs about the whole rest on: in every state of every behaviour, both
\* sides' tables and queues agree with each other and with the rings between them.
THEOREM SidesAlwaysAgree == Spec => []SystemInv
<1>1. Init => SystemInv
  BY InitSound
<1>2. SystemInv /\ [Next]_vars => SystemInv'
  BY SystemStep
<1> QED
  BY <1>1, <1>2, PTL DEF Spec

-----------------------------------------------------------------------------
(* What the invariant says of the properties that the runs check.          *)

LEMMA Elements ==
  ASSUME NEW S, NEW q \in Seq(S)
  PROVE  /\ \A x : x \in ToSet(q) <=> Among(q, x)
         /\ ToSet(q) \subseteq S
<1>1. DOMAIN q = 1 .. Len(q) /\ \A i \in 1 .. Len(q) : q[i] \in S
  BY SeqFacts
<1> QED
  BY <1>1 DEF ToSet, Among

\* The driver is gone, or its tables are sound.
LEMMA DriverSides ==
  ASSUME AmigaInv
  PROVE  /\ task_pc = "gone" => NoDriver
         /\ task_pc # "gone" =>
              /\ \E n \in 1 .. StreamIds + 1 : DriverInv(Driver, Port, n, KnownIds)
              /\ task_mp \in Seq(Requests) /\ Once(task_mp)
         /\ KnownIds \subseteq 1 .. StreamIds /\ Bytes(a2r) <= RingSize - 1
<1>1. PICK n \in 1 .. StreamIds + 1 :
        /\ KnownIds \subseteq 1 .. n - 1 /\ RingOK(a2r, n)
        /\ IF task_pc = "gone" THEN NoDriver
           ELSE DriverInv(Driver, Port, n, KnownIds) /\ PortOK(n)
  BY DEF AmigaInv
<1>2. n \in Nat /\ n - 1 <= StreamIds /\ StreamIds \in Nat
  BY DriverAssumption
<1>3. 1 .. n - 1 \subseteq 1 .. StreamIds
  BY <1>2
<1> QED
  BY <1>1, <1>3 DEF RingOK, PortOK

\* What the driver's tables are when it runs.
LEMMA Tables ==
  ASSUME NEW n, DriverInv(Driver, Port, n, KnownIds)
  PROVE  /\ DOMAIN sockets \subseteq Keys /\ ior \in AllRequests
         /\ send_queue \in Seq(Keys) /\ Once(send_queue)
         /\ next_stream_id \in 1 .. StreamIds
         /\ \A r \in Port : ior[r].at = "driver"
         /\ \A j, k \in DOMAIN sockets :
              sockets[j].stream_id = sockets[k].stream_id => j = k
         /\ \A k \in Keys :
              /\ k \notin DOMAIN sockets => ~Among(send_queue, k)
              /\ k \in DOMAIN sockets =>
                   /\ SocketOK(sockets[k], k, ior, Among(send_queue, k))
                   /\ sockets[k].stream_id \in 1 .. StreamIds
              /\ \A r \in Requests :
                   ior[r].at = "driver" /\ ior[r].key = k =>
                     (r \in Port <=> ~InSlot(Driver, k, r))
<1> DEFINE d == Driver
<1>1. /\ d.sockets = sockets /\ d.send_queue = send_queue /\ d.ior = ior
      /\ d.next_stream_id = next_stream_id
  BY DEF Driver
<1> HIDE DEF d
<1>2. DriverInv(d, Port, n, KnownIds)
  BY DEF d
<1>3. /\ QueueOK(d) /\ IdsOK(d, n) /\ d.ior \in AllRequests
      /\ \A r \in Port : d.ior[r].at = "driver"
      /\ \A k \in Keys : KeyOK(d, k, Port, KnownIds)
  BY <1>2 DEF DriverInv
<1>4. next_stream_id \in 1 .. StreamIds
  <2>1. next_stream_id = (IF n = StreamIds + 1 THEN 1 ELSE n) /\ n \in 1 .. StreamIds + 1
    BY <1>1, <1>3 DEF IdsOK
  <2> QED
    BY <2>1, DriverAssumption
<1>5. \A k \in DOMAIN sockets : sockets[k].stream_id \in 1 .. StreamIds
  BY <1>1, <1>2, SocketFacts
<1>6. \A j, k \in DOMAIN sockets : sockets[j].stream_id = sockets[k].stream_id => j = k
  BY <1>1, <1>3 DEF IdsOK
<1>7. ASSUME NEW k \in Keys
      PROVE  /\ k \notin DOMAIN sockets => ~Among(send_queue, k)
             /\ k \in DOMAIN sockets => SocketOK(sockets[k], k, ior, Among(send_queue, k))
             /\ \A r \in Requests :
                  ior[r].at = "driver" /\ ior[r].key = k =>
                    (r \in Port <=> ~InSlot(d, k, r))
  <2>1. KeyOK(d, k, Port, KnownIds)
    BY <1>3
  <2> QED
    BY ONLY <1>1, <2>1 DEF KeyOK
<1>8. DOMAIN sockets \subseteq Keys /\ send_queue \in Seq(Keys) /\ Once(send_queue)
  BY <1>1, <1>3 DEF QueueOK
<1> QED
  BY <1>1, <1>3, <1>4, <1>5, <1>6, <1>7, <1>8 DEF d

LEMMA DaemonTables ==
  ASSUME DaemonSide
  PROVE  /\ DOMAIN channels \subseteq KnownIds
         /\ d_send_queue \in Seq(KnownIds) /\ Once(d_send_queue)
         /\ \A id : Among(d_send_queue, id) => id \in DOMAIN channels
         /\ \A id \in DOMAIN channels : ChannelOK(Daemon("EPIPE"), id, {})
         /\ StreamsDistinct(Daemon("EPIPE"))
         /\ \A n \in DOMAIN services :
              services[n] \in Clients /\ connections[services[n]] \in Alive
         /\ connections \in [Clients -> {"unused", "open", "gone", "closed"}]
         /\ exited \in Exits /\ Bytes(r2a) + r2a_freed <= RingSize - 1
<1> DEFINE p == Daemon("EPIPE")
<1>1. /\ p.channels = channels /\ p.send_queue = d_send_queue /\ p.services = services
      /\ p.connections = connections /\ p.exited = exited /\ p.r2a = r2a
      /\ p.r2a_freed = r2a_freed
  BY DEF Daemon
<1> HIDE DEF p
<1>2. DaemonInv(p, KnownIds, {})
  BY DEF DaemonSide, p
<1>3. DQueueOK(p, KnownIds) /\ TablesOK(p, KnownIds) /\ StreamsDistinct(p)
      /\ \A id \in DOMAIN channels : ChannelOK(p, id, {})
  BY <1>1, <1>2 DEF DaemonInv
<1> QED
  BY <1>1, <1>3 DEF DQueueOK, TablesOK, p

LEMMA TypesOfSound ==
  ASSUME Shared, AmigaInv, DaemonSide
  PROVE  TypeOK
<1>1. /\ task_pc \in {"off", "wait", "requests", "packets", "room", "gone"}
      /\ a_events \subseteq {"R2A_TAIL", "A2R_HEAD"}
      /\ ToSet(irq_fds) \subseteq {"STARTED", "MOVED"}
  BY Elements DEF Shared
<1>2. /\ DOMAIN channels \subseteq 1 .. StreamIds
      /\ Bytes(a2r) <= RingSize - 1 /\ Bytes(r2a) + r2a_freed <= RingSize - 1
      /\ \A c \in Clients : connections[c] \in {"unused", "open", "gone", "closed"}
      /\ exited \in {"no", "write", "connect", "bound"}
  BY DriverSides, DaemonTables DEF Exits
<1>3. /\ DOMAIN sockets \subseteq Keys /\ next_stream_id \in 1 .. StreamIds
      /\ \A k \in DOMAIN sockets :
           /\ \A f \in Slots : sockets[k][f] \in Requests \cup {NoRequest}
           /\ sockets[k].stream_id \in 1 .. StreamIds
           /\ sockets[k].conv \in Conversations
      /\ ToSet(task_mp) \subseteq Requests
      /\ \A r \in Requests : ior[r].at \in {"application", "driver"}
  <2>1. CASE task_pc = "gone"
    <3>1. NoDriver
      BY <2>1, DriverSides
    <3>2. DOMAIN sockets = {} /\ task_mp \in Seq(Requests)
      BY <3>1, NoneIn DEF NoDriver
    <3>3. 1 \in 1 .. StreamIds
      BY DriverAssumption
    <3> QED
      <4>1. sockets = <<>> /\ next_stream_id = 1 /\ \A r \in Requests : ior[r] = AtApplication
        BY <3>1 DEF NoDriver
      <4>2. \A r \in Requests : ior[r].at \in {"application", "driver"}
        BY <4>1 DEF AtApplication
      <4>3. ToSet(task_mp) \subseteq Requests
        BY <3>2, Elements
      <4> QED
        BY <3>2, <3>3, <4>1, <4>2, <4>3
  <2>2. CASE task_pc # "gone"
    <3>1. PICK n : DriverInv(Driver, Port, n, KnownIds)
      BY <2>2, DriverSides
    <3>2. task_mp \in Seq(Requests)
      BY <2>2, DriverSides
    <3>3. ASSUME NEW k \in DOMAIN sockets
          PROVE  /\ \A f \in Slots : sockets[k][f] \in Requests \cup {NoRequest}
                 /\ sockets[k].stream_id \in 1 .. StreamIds
                 /\ sockets[k].conv \in Conversations
      <4>1. k \in Keys
        BY <3>1, Tables
      <4>2. /\ SocketOK(sockets[k], k, ior, Among(send_queue, k))
            /\ sockets[k].stream_id \in 1 .. StreamIds
        BY <3>1, <4>1, Tables
      <4> QED
        BY <4>2 DEF SocketOK, SlotsOK, Held, Slots
    <3>4. ior \in AllRequests
      BY <3>1, Tables
    <3>5. \A r \in Requests : ior[r].at \in {"application", "driver"}
      BY <3>4 DEF AllRequests, Asked, AtApplication
    <3> QED
      <4>1. ToSet(task_mp) \subseteq Requests
        BY <3>2, Elements
      <4>2. DOMAIN sockets \subseteq Keys /\ next_stream_id \in 1 .. StreamIds
        BY <3>1, Tables
      <4> QED
        BY <3>3, <3>5, <4>1, <4>2
  <2> QED
    BY <2>1, <2>2
<1> QED
  BY <1>1, <1>2, <1>3 DEF TypeOK

LEMMA DaemonOfSound ==
  ASSUME DaemonSide
  PROVE  DaemonSound
<1> DEFINE p == Daemon("EPIPE")
<1>1. p.channels = channels /\ p.send_queue = d_send_queue /\ p.connections = connections
  BY DEF Daemon
<1> HIDE DEF p
<1>2. \A id \in DOMAIN channels : ChannelOK(p, id, {})
  BY DaemonTables DEF p
<1>3. DaemonQueueExact
  <2>1. DOMAIN d_send_queue = 1 .. Len(d_send_queue)
    BY DaemonTables, SeqFacts
  <2>2. \A i, j \in DOMAIN d_send_queue : d_send_queue[i] = d_send_queue[j] => i = j
    BY <2>1, DaemonTables DEF Once
  <2>3. \A id \in DOMAIN channels :
          Among(d_send_queue, id) <=> channels[id].packet_queue # <<>>
    BY <1>1, <1>2 DEF ChannelOK
  <2>4. \A id : id \in ToSet(d_send_queue) <=> Among(d_send_queue, id)
    BY DaemonTables, Elements
  <2>5. \A id : Among(d_send_queue, id) => id \in DOMAIN channels
    BY DaemonTables
  <2> QED
    BY <2>2, <2>3, <2>4, <2>5 DEF DaemonQueueExact
<1>4. NoDanglingConnection
  <2>1. \A n \in DOMAIN services : connections[services[n]] \in {"open", "gone"}
    BY DaemonTables DEF Alive
  <2>2. ASSUME NEW id \in DOMAIN channels, channels[id].association # NoClient
        PROVE  /\ connections[channels[id].association] \in {"open", "gone"}
               /\ ChannelsOf(p, channels[id].association, channels[id].stream_id) = {id}
    <3>1. connections[channels[id].association] \in {"open", "gone"}
      BY <1>1, <1>2, <2>2 DEF ChannelOK, Alive
    <3>2. StreamsDistinct(p)
      BY DaemonTables DEF p
    <3>3. \A j \in DOMAIN channels :
            /\ channels[j].association = channels[id].association
            /\ channels[j].stream_id = channels[id].stream_id
            => j = id
      BY <1>1, <2>2, <3>2 DEF StreamsDistinct
    <3> QED
      BY <1>1, <3>1, <3>3 DEF ChannelsOf, Associations
  <2> QED
    BY <2>1, <2>2 DEF NoDanglingConnection, p
<1> QED
  BY <1>3, <1>4 DEF DaemonSound

LEMMA QueueOfSound ==
  ASSUME Shared, FreshIds => AmigaInv
  PROVE  SendQueueConsistent
<1> SUFFICES ASSUME AmigaInv
             PROVE  /\ \A i, j \in DOMAIN send_queue : send_queue[i] = send_queue[j] => i = j
                    /\ ToSet(send_queue) =
                         {k \in DOMAIN sockets : "IN_SEND_QUEUE" \in sockets[k].flags}
                    /\ \A k \in ToSet(send_queue) :
                         sockets[k].required_length = WaitsToSend(k)
                    /\ \A k \in DOMAIN sockets :
                         \/ sockets[k].pending_write # NoRequest
                         \/ "SHOULD_SEND_RESET" \in sockets[k].flags
                         => k \in ToSet(send_queue)
  BY DEF SendQueueConsistent
<1>1. CASE task_pc = "gone"
  <2>1. sockets = <<>> /\ send_queue = <<>>
    BY <1>1, DriverSides DEF NoDriver
  <2>2. DOMAIN sockets = {} /\ DOMAIN send_queue = {}
    BY <2>1, NoneIn
  <2>3. ToSet(send_queue) = {}
    BY <2>2 DEF ToSet
  <2> QED
    BY <2>2, <2>3
<1>2. CASE task_pc # "gone"
  <2>1. PICK n : DriverInv(Driver, Port, n, KnownIds)
    BY <1>2, DriverSides
  <2>2. /\ send_queue \in Seq(Keys) /\ Once(send_queue) /\ DOMAIN sockets \subseteq Keys
        /\ \A k \in Keys :
             /\ k \notin DOMAIN sockets => ~Among(send_queue, k)
             /\ k \in DOMAIN sockets =>
                  SocketOK(sockets[k], k, ior, Among(send_queue, k))
    BY <2>1, Tables
  <2>3. /\ DOMAIN send_queue = 1 .. Len(send_queue)
        /\ \A k : k \in ToSet(send_queue) <=> Among(send_queue, k)
        /\ ToSet(send_queue) \subseteq Keys
    BY <2>2, SeqFacts, Elements
  <2>4. \A i, j \in DOMAIN send_queue : send_queue[i] = send_queue[j] => i = j
    BY <2>2, <2>3 DEF Once
  <2>5. \A k \in DOMAIN sockets :
          /\ Among(send_queue, k) <=> "IN_SEND_QUEUE" \in sockets[k].flags
          /\ \/ sockets[k].pending_write # NoRequest
             \/ "SHOULD_SEND_RESET" \in sockets[k].flags
             => Among(send_queue, k)
          /\ Among(send_queue, k) => sockets[k].required_length = WaitsToSend(k)
    <3> SUFFICES ASSUME NEW k \in DOMAIN sockets
                 PROVE  /\ Among(send_queue, k) <=> "IN_SEND_QUEUE" \in sockets[k].flags
                        /\ \/ sockets[k].pending_write # NoRequest
                           \/ "SHOULD_SEND_RESET" \in sockets[k].flags
                           => Among(send_queue, k)
                        /\ Among(send_queue, k) =>
                             sockets[k].required_length = WaitsToSend(k)
      OBVIOUS
    <3>1. SocketOK(sockets[k], k, ior, Among(send_queue, k))
      BY <2>2
    <3> QED
      BY <3>1 DEF SocketOK, WaitsToSend, WaitLen, Waiting
  <2>6. \A k \in ToSet(send_queue) : k \in DOMAIN sockets
    BY <2>2, <2>3
  <2> QED
    BY <2>3, <2>4, <2>5, <2>6
<1> QED
  BY <1>1, <1>2

\* A request that the driver has is in the port or in one slot, and in no other.
LEMMA HeldOnceOfSound ==
  ASSUME AmigaInv
  PROVE  RequestsHeldOnce
<1> SUFFICES ASSUME NEW r \in Requests
             PROVE  Cardinality(Holders(r)) = IF ior[r].at = "driver" THEN 1 ELSE 0
  BY DEF RequestsHeldOnce
<1>1. ASSUME NEW h, Holders(r) = {h} PROVE Cardinality(Holders(r)) = 1
  BY <1>1, FS_Singleton
<1>2. ASSUME Holders(r) = {} PROVE Cardinality(Holders(r)) = 0
  BY <1>2, FS_EmptySet
<1>3. CASE task_pc = "gone"
  <2>1. sockets = <<>> /\ task_mp = <<>> /\ ior[r] = AtApplication
    BY <1>3, DriverSides DEF NoDriver
  <2>2. DOMAIN sockets = {} /\ DOMAIN task_mp = {} /\ ior[r].at = "application"
    BY <2>1, NoneIn DEF AtApplication
  <2>3. Holders(r) = {}
    BY <2>2 DEF Holders
  <2> QED
    BY <1>2, <2>2, <2>3
<1>4. CASE task_pc # "gone"
  <2>1. PICK n : DriverInv(Driver, Port, n, KnownIds)
    BY <1>4, DriverSides
  <2>2. /\ task_mp \in Seq(Requests) /\ Once(task_mp)
        /\ DOMAIN task_mp = 1 .. Len(task_mp) /\ r # NoRequest
    BY <1>4, DriverSides, SeqFacts, DriverAssumption
  <2>3. /\ DOMAIN sockets \subseteq Keys /\ ior[r] \in Asked \cup {AtApplication}
        /\ r \in Port => ior[r].at = "driver"
        /\ \A k \in DOMAIN sockets : SocketOK(sockets[k], k, ior, Among(send_queue, k))
        /\ \A k \in Keys : ior[r].at = "driver" /\ ior[r].key = k =>
                             (r \in Port <=> ~InSlot(Driver, k, r))
    BY <2>1, Tables DEF AllRequests
  \* Where the request is: its command decides the slot, and its key the socket.
  <2>4. \A k \in DOMAIN sockets :
          /\ sockets[k].pending_connect = r =>
               ior[r].at = "driver" /\ ior[r].key = k /\ ior[r].command = "CONNECT"
          /\ sockets[k].pending_read = r =>
               ior[r].at = "driver" /\ ior[r].key = k /\ ior[r].command = "READ"
          /\ sockets[k].pending_write = r =>
               /\ ior[r].at = "driver" /\ ior[r].key = k
               /\ ior[r].command \in {"WRITE", "EOS"}
    BY <2>2, <2>3 DEF SocketOK, SlotsOK, Held
  <2>5. \A k : InSlot(Driver, k, r) <=>
                 k \in DOMAIN sockets /\ \E f \in Slots : sockets[k][f] = r
    BY DEF InSlot, Driver, Slots
  <2>6. \A j, k \in DOMAIN sockets, f, g \in Slots :
          sockets[j][f] = r /\ sockets[k][g] = r => j = k /\ f = g
    BY <2>4 DEF Slots
  <2>7. r \in Port <=> \E i \in DOMAIN task_mp : task_mp[i] = r
    BY <2>2 DEF Port, Among
  <2>8. \A h : h \in Holders(r) <=>
          \/ \E i \in DOMAIN task_mp : task_mp[i] = r /\ h = <<"port", i>>
          \/ \E k \in DOMAIN sockets, f \in Slots : sockets[k][f] = r /\ h = <<k, f>>
    BY <2>3 DEF Holders
  <2>9. CASE ior[r].at # "driver"
    <3>1. r \notin Port /\ \A k \in DOMAIN sockets, f \in Slots : sockets[k][f] # r
      BY <2>3, <2>4, <2>9 DEF Slots
    <3>2. Holders(r) = {}
      BY <2>7, <2>8, <3>1
    <3> QED
      BY <1>2, <2>9, <3>2
  <2>10. CASE ior[r].at = "driver"
    <3>1. ior[r].key \in Keys
      BY <2>3, <2>10 DEF Asked, AtApplication
    <3>2. r \in Port <=> ~InSlot(Driver, ior[r].key, r)
      BY <2>3, <2>10, <3>1
    <3>3. CASE r \in Port
      <4>1. PICK i \in DOMAIN task_mp : task_mp[i] = r
        BY <2>7, <3>3
      <4>2. \A j \in DOMAIN task_mp : task_mp[j] = r => j = i
        BY <2>2, <4>1 DEF Once
      <4>3. \A k \in DOMAIN sockets, f \in Slots : sockets[k][f] # r
        BY <2>4, <2>5, <3>2, <3>3 DEF Slots
      <4>4. Holders(r) = {<<"port", i>>}
        BY <2>8, <4>1, <4>2, <4>3
      <4> QED
        BY <1>1, <2>10, <4>4
    <3>4. CASE r \notin Port
      <4>1. PICK k \in DOMAIN sockets, f \in Slots : sockets[k][f] = r
        BY <2>5, <3>2, <3>4
      <4>2. Holders(r) = {<<k, f>>}
        BY <2>6, <2>7, <2>8, <3>4, <4>1
      <4> QED
        BY <1>1, <2>10, <4>2
    <3> QED
      BY <3>3, <3>4
  <2> QED
    BY <2>9, <2>10
<1> QED
  BY <1>3, <1>4

LEMMA SocketsOfSound ==
  ASSUME AmigaInv
  PROVE  ClosedSocketsIdle /\ StreamIdsDistinct
<1>1. CASE task_pc = "gone"
  <2>1. DOMAIN sockets = {}
    BY <1>1, DriverSides, NoneIn DEF NoDriver
  <2> QED
    BY <2>1 DEF ClosedSocketsIdle, StreamIdsDistinct
<1>2. CASE task_pc # "gone"
  <2>1. PICK n : DriverInv(Driver, Port, n, KnownIds)
    BY <1>2, DriverSides
  <2>2. \A k \in DOMAIN sockets : SocketOK(sockets[k], k, ior, Among(send_queue, k))
    BY <2>1, Tables
  <2>3. ClosedSocketsIdle
    BY <2>2 DEF ClosedSocketsIdle, SocketOK, NonePending, Slots
  <2> QED
    BY <2>1, <2>3, Tables DEF StreamIdsDistinct
<1> QED
  BY <1>1, <1>2

\* As long as no stream id has been given out twice, sockets, requests, channels,
\* connections and rings are where the program can have them: ids in range, slots
\* with requests, never more bytes in a ring than fit (a314driver.c, a314.cc).
THEOREM StateIsTyped == Spec => [](FreshIds => TypeOK)
<1>1. SystemInv => (FreshIds => TypeOK)
  BY TypesOfSound DEF SystemInv, DaemonSide
<1> QED
  BY <1>1, SidesAlwaysAgree, PTL

\* The daemon's send queue lists exactly the channels with packets, and its tables
\* point at no connection it has closed, in whatever order clients and channels end.
THEOREM TablesPointAtTheLiving == Spec => [](FreshIds => DaemonSound)
<1>1. SystemInv => (FreshIds => DaemonSound)
  BY DaemonOfSound DEF SystemInv, DaemonSide
<1> QED
  BY <1>1, SidesAlwaysAgree, PTL

\* The driver's send queue and the flags of its sockets agree, and nothing that waits
\* for room is forgotten.
THEOREM QueueMatchesFlags == Spec => []SendQueueConsistent
<1>1. SystemInv => SendQueueConsistent
  BY QueueOfSound DEF SystemInv
<1> QED
  BY <1>1, SidesAlwaysAgree, PTL

\* Every request the driver has is in one place until it is replied, closed sockets
\* hold none, and no two sockets are the same stream.
THEOREM RequestsNeverLost ==
  Spec => [](FreshIds => RequestsHeldOnce /\ ClosedSocketsIdle /\ StreamIdsDistinct)
<1>1. SystemInv =>
        (FreshIds => RequestsHeldOnce /\ ClosedSocketsIdle /\ StreamIdsDistinct)
  BY HeldOnceOfSound, SocketsOfSound DEF SystemInv
<1> QED
  BY <1>1, SidesAlwaysAgree, PTL

-----------------------------------------------------------------------------
(* A CONNECT is answered at most once.  Until then the right to answer it is *)
(* with the client of its channel, or the answer is in the queue of the      *)
(* channel, or in R2A.                                                       *)

IsAnswer(x) == x.type = "CONNECT_RESPONSE"
NoAnswer(q) == \A i \in 1 .. Len(q) : ~IsAnswer(q[i])
OneAnswer(q) == \A i, j \in 1 .. Len(q) : IsAnswer(q[i]) /\ IsAnswer(q[j]) => i = j

InRing(p, id) == \E i \in 1 .. Len(p.r2a) : IsAnswer(p.r2a[i]) /\ p.r2a[i].id = id

\* U holds the streams of clients that may still be answered, T the stream ids
\* whose sockets wait for an answer.
ChannelAnswers(p, id, U, T) ==
  LET ch == p.channels[id] IN
  /\ OneAnswer(ch.packet_queue)
  /\ ch.association # NoClient /\ <<ch.association, ch.stream_id>> \in U =>
       NoAnswer(ch.packet_queue) /\ ~InRing(p, id) /\ id \in T
  /\ ~NoAnswer(ch.packet_queue) => ~InRing(p, id) /\ id \in T

RingAnswers(p, T) ==
  /\ \A i, j \in 1 .. Len(p.r2a) :
       /\ IsAnswer(p.r2a[i]) /\ IsAnswer(p.r2a[j])
       /\ p.r2a[i].id = p.r2a[j].id
       => i = j
  /\ \A id : InRing(p, id) => id \in T

AnswersOK(p, U, T) ==
  /\ p.exited # "connect" /\ RingAnswers(p, T)
  /\ \A id \in DOMAIN p.channels : ChannelAnswers(p, id, U, T)

Listed(q) == \E S : q \in Seq(S)
Shaped(p) ==
  /\ DOMAIN p = DaemonFields
  /\ \A id \in DOMAIN p.channels :
       DOMAIN p.channels[id] = ChannelFields /\ Listed(p.channels[id].packet_queue)

\* A channel that keeps at most the client and the answer it had.
Tamer(a, b) ==
  /\ \/ b.association = NoClient
     \/ b.association = a.association /\ b.stream_id = a.stream_id
  /\ NoAnswer(a.packet_queue) => NoAnswer(b.packet_queue)
  /\ OneAnswer(a.packet_queue) => OneAnswer(b.packet_queue)

Calmer(p, e) ==
  /\ Shaped(e) /\ e.r2a = p.r2a
  /\ e.exited = "connect" => p.exited = "connect"
  /\ \A id \in DOMAIN e.channels :
       id \in DOMAIN p.channels /\ Tamer(p.channels[id], e.channels[id])

LEMMA CalmerKeeps ==
  ASSUME NEW p, NEW U, NEW T, AnswersOK(p, U, T), NEW e, Calmer(p, e),
         NEW W \in SUBSET U
  PROVE  AnswersOK(e, W, T) /\ KnownBy(e) \subseteq KnownBy(p)
<1>1. RingAnswers(e, T) /\ e.exited # "connect" /\ \A id : InRing(e, id) <=> InRing(p, id)
  BY DEF Calmer, AnswersOK, RingAnswers, InRing
<1>2. ASSUME NEW id \in DOMAIN e.channels PROVE ChannelAnswers(e, id, W, T)
  <2>1. ChannelAnswers(p, id, U, T) /\ Tamer(p.channels[id], e.channels[id])
    BY DEF Calmer, AnswersOK
  <2> QED
    BY <1>1, <2>1 DEF ChannelAnswers, Tamer
<1>3. KnownBy(e) \subseteq KnownBy(p)
  BY DEF Calmer, KnownBy
<1> QED
  BY <1>1, <1>2, <1>3 DEF AnswersOK

LEMMA CalmerAgain ==
  ASSUME NEW p, NEW q, NEW e, Calmer(p, q), Calmer(q, e)
  PROVE  Calmer(p, e)
BY DEF Calmer, Tamer

LEMMA NoAnswers == NoAnswer(<<>>) /\ OneAnswer(<<>>) /\ Listed(<<>>)
BY NoneIn DEF NoAnswer, OneAnswer, Listed

LEMMA AppendAnswers ==
  ASSUME NEW q, Listed(q), NEW x, NEW r, r = Append(q, x)
  PROVE  /\ Listed(r)
         /\ ~IsAnswer(x) /\ NoAnswer(q) => NoAnswer(r)
         /\ ~IsAnswer(x) /\ OneAnswer(q) => OneAnswer(r)
         /\ NoAnswer(q) => OneAnswer(r)
         /\ \A i \in 1 .. Len(r) : i = Len(r) \/ (i \in 1 .. Len(q) /\ r[i] = q[i])
         /\ r[Len(r)] = x /\ Len(r) \in 1 .. Len(r)
<1>1. PICK S : q \in Seq(S)
  BY DEF Listed
<1> DEFINE R == S \cup {x}
<1>2. q \in Seq(R) /\ x \in R
  BY <1>1, SeqFacts, SeqDef
<1> HIDE DEF R
<1>3. /\ r \in Seq(R) /\ Len(r) = Len(q) + 1 /\ Len(q) \in Nat
      /\ \A i \in 1 .. Len(q) : r[i] = q[i]
      /\ r[Len(q) + 1] = x
  BY <1>2, AppendFacts, SeqFacts
<1> DEFINE n == Len(q)
<1>4. Len(r) = n + 1 /\ \A i \in 1 .. n + 1 : i = n + 1 \/ i \in 1 .. n
  BY <1>3
<1>5. n + 1 \in 1 .. n + 1
  BY <1>3
<1>6. /\ ~IsAnswer(x) /\ NoAnswer(q) => NoAnswer(r)
      /\ ~IsAnswer(x) /\ OneAnswer(q) => OneAnswer(r)
      /\ NoAnswer(q) => OneAnswer(r)
  <2> HIDE DEF n
  <2>1. /\ NoAnswer(q) <=> \A i \in 1 .. n : ~IsAnswer(q[i])
        /\ NoAnswer(r) <=> \A i \in 1 .. n + 1 : ~IsAnswer(r[i])
        /\ OneAnswer(q) <=>
             \A i, j \in 1 .. n : IsAnswer(q[i]) /\ IsAnswer(q[j]) => i = j
        /\ OneAnswer(r) <=>
             \A i, j \in 1 .. n + 1 : IsAnswer(r[i]) /\ IsAnswer(r[j]) => i = j
        /\ \A i \in 1 .. n : r[i] = q[i]
        /\ r[n + 1] = x
    BY <1>3, <1>4 DEF NoAnswer, OneAnswer, n
  <2> QED
    BY ONLY <1>4, <2>1
<1> QED
  BY <1>3, <1>4, <1>5, <1>6 DEF Listed

LEMMA TailAnswers ==
  ASSUME NEW q, Listed(q), q # <<>>, NEW r, r = Tail(q)
  PROVE  /\ Listed(r)
         /\ NoAnswer(q) => NoAnswer(r) /\ ~IsAnswer(Head(q))
         /\ OneAnswer(q) => OneAnswer(r)
         /\ OneAnswer(q) /\ IsAnswer(Head(q)) => NoAnswer(r)
         /\ \A i \in 1 .. Len(r) : r[i] = q[i + 1] /\ i + 1 \in 1 .. Len(q) /\ i # i + 1
         /\ \A i, j \in 1 .. Len(r) : i + 1 = j + 1 => i = j
         /\ Head(q) = q[1] /\ 1 \in 1 .. Len(q)
<1>1. PICK S : q \in Seq(S)
  BY DEF Listed
<1>2. /\ r \in Seq(S) /\ Len(r) = Len(q) - 1 /\ Len(q) \in Nat \ {0}
      /\ \A i \in 1 .. Len(r) : r[i] = q[i + 1] /\ i + 1 \in 1 .. Len(q)
      /\ Head(q) = q[1] /\ 1 \in 1 .. Len(q)
  BY <1>1, TailFacts
<1> DEFINE n == Len(r)
<1>3. /\ n \in Nat /\ \A i \in 1 .. n : i + 1 # 1 /\ i # i + 1
      /\ \A i, j \in 1 .. n : i + 1 = j + 1 => i = j
  BY <1>2
<1> HIDE DEF n
<1>4. /\ NoAnswer(q) => NoAnswer(r) /\ ~IsAnswer(q[1])
      /\ OneAnswer(q) => OneAnswer(r)
      /\ OneAnswer(q) /\ IsAnswer(q[1]) => NoAnswer(r)
  BY <1>2, <1>3 DEF NoAnswer, OneAnswer, n
<1> QED
  BY <1>2, <1>3, <1>4 DEF Listed, n

\* A step that changes at most one channel, or erases some.
LEMMA OneCalm ==
  ASSUME NEW p, Shaped(p), NEW e, DOMAIN e = DaemonFields, e.r2a = p.r2a,
         e.exited = "connect" => p.exited = "connect",
         \/ e.channels = p.channels
         \/ \E ch : \E id \in DOMAIN p.channels :
              /\ e.channels = [p.channels EXCEPT ![id] = ch]
              /\ DOMAIN ch = ChannelFields /\ Listed(ch.packet_queue)
              /\ Tamer(p.channels[id], ch)
         \/ \E A : e.channels = [j \in DOMAIN p.channels \ A |-> p.channels[j]]
  PROVE  Calmer(p, e)
<1>1. \A id \in DOMAIN p.channels : Tamer(p.channels[id], p.channels[id])
  BY DEF Tamer
<1>2. CASE e.channels = p.channels
  BY <1>1, <1>2 DEF Calmer, Shaped
<1>3. ASSUME NEW ch, NEW id \in DOMAIN p.channels,
             e.channels = [p.channels EXCEPT ![id] = ch],
             DOMAIN ch = ChannelFields, Listed(ch.packet_queue),
             Tamer(p.channels[id], ch)
      PROVE  Calmer(p, e)
  <2>1. /\ DOMAIN e.channels = DOMAIN p.channels
        /\ \A j \in DOMAIN p.channels :
             e.channels[j] = IF j = id THEN ch ELSE p.channels[j]
    BY <1>3
  <2> QED
    BY <1>1, <1>3, <2>1 DEF Calmer, Shaped
<1>4. ASSUME NEW A, e.channels = [j \in DOMAIN p.channels \ A |-> p.channels[j]]
      PROVE  Calmer(p, e)
  BY <1>1, <1>4 DEF Calmer, Shaped
<1> QED
  BY <1>2, <1>3, <1>4

LEMMA InvShaped ==
  ASSUME NEW p, NEW V, NEW X, DaemonInv(p, V, X)
  PROVE  Shaped(p)
<1>1. ASSUME NEW id \in DOMAIN p.channels
      PROVE  DOMAIN p.channels[id] = ChannelFields /\ Listed(p.channels[id].packet_queue)
  <2> DEFINE q == p.channels[id].packet_queue
  <2>1. DOMAIN p.channels[id] = ChannelFields /\ Packets(q, {id})
    BY DaemonFacts DEF ChannelOK
  <2> HIDE DEF q
  <2>2. Listed(q)
    BY <2>1 DEF Packets, Listed
  <2> QED
    BY <2>1, <2>2 DEF q
<1> QED
  BY <1>1, DaemonFacts DEF Shaped

LEMMA AsideCalm ==
  ASSUME NEW p, Shaped(p), NEW e, Aside(p, e)
  PROVE  Calmer(p, e) /\ Shaped(e) /\ e.channels = p.channels
<1>1. /\ DOMAIN e = DaemonFields /\ e.channels = p.channels /\ e.r2a = p.r2a
      /\ e.exited = "connect" => p.exited = "connect"
  BY DEF Aside, DaemonFields
<1>2. Calmer(p, e)
  BY <1>1, OneCalm
<1> QED
  BY <1>1, <1>2 DEF Calmer

LEMMA RemoveAssociationCalm ==
  ASSUME NEW p, Shaped(p), NEW id \in DOMAIN p.channels,
         NEW e, e = RemoveAssociation(p, id)
  PROVE  Calmer(p, e) /\ Shaped(e) /\ DOMAIN e.channels = DOMAIN p.channels
<1> DEFINE ch == [p.channels[id] EXCEPT !.association = NoClient, !.stream_id = 0]
<1>1. DOMAIN p.channels[id] = ChannelFields /\ Listed(p.channels[id].packet_queue)
  BY DEF Shaped
<1>2. /\ DOMAIN e = DaemonFields /\ e.r2a = p.r2a /\ e.exited = p.exited
      /\ e.channels = [p.channels EXCEPT ![id] = ch]
  BY <1>1 DEF RemoveAssociation, Shaped, DaemonFields
<1>3. /\ DOMAIN ch = ChannelFields /\ ch.association = NoClient
      /\ ch.packet_queue = p.channels[id].packet_queue
  BY <1>1 DEF ChannelFields
<1> HIDE DEF ch
<1>4. Tamer(p.channels[id], ch)
  BY <1>3 DEF Tamer
<1>5. Calmer(p, e)
  BY <1>1, <1>2, <1>3, <1>4, OneCalm
<1> QED
  BY <1>2, <1>5 DEF Calmer

LEMMA ClearCalm ==
  ASSUME NEW p, Shaped(p), NEW id \in DOMAIN p.channels,
         NEW e, e = ClearPacketQueue(p, id)
  PROVE  Calmer(p, e) /\ Shaped(e) /\ DOMAIN e.channels = DOMAIN p.channels
<1> DEFINE none == <<>>
           ch == [p.channels[id] EXCEPT !.packet_queue = none]
<1>1. DOMAIN p.channels[id] = ChannelFields
  BY DEF Shaped
<1>2. /\ DOMAIN e = DaemonFields /\ e.r2a = p.r2a /\ e.exited = p.exited
      /\ e.channels = [p.channels EXCEPT ![id] = ch] \/ e.channels = p.channels
  BY <1>1 DEF ClearPacketQueue, Shaped, DaemonFields
<1>3. NoAnswer(none) /\ OneAnswer(none) /\ Listed(none)
  BY NoAnswers
<1> HIDE DEF none
<1>4. /\ DOMAIN ch = ChannelFields /\ ch.association = p.channels[id].association
      /\ ch.stream_id = p.channels[id].stream_id /\ ch.packet_queue = none
  BY <1>1 DEF ChannelFields
<1> HIDE DEF ch
<1>5. Tamer(p.channels[id], ch)
  BY <1>3, <1>4 DEF Tamer
<1>6. Calmer(p, e)
  BY <1>2, <1>3, <1>4, <1>5, OneCalm
<1> QED
  BY <1>2, <1>6 DEF Calmer

\* What CreateAndEnqueuePacket does: x joins the queue of the channel.
Enqueued(p, e, id, type, ch, x) ==
  /\ DOMAIN e = DaemonFields /\ e.r2a = p.r2a /\ e.exited = p.exited
  /\ e.channels = [p.channels EXCEPT ![id] = ch]
  /\ DOMAIN ch = ChannelFields /\ ch.association = p.channels[id].association
  /\ ch.stream_id = p.channels[id].stream_id
  /\ ch.packet_queue = Append(p.channels[id].packet_queue, x)
  /\ x.type = type /\ x.id = id

LEMMA EnqueueFacts ==
  ASSUME NEW p, Shaped(p), NEW id \in DOMAIN p.channels, NEW type, NEW len, NEW val,
         NEW e, e = CreateAndEnqueuePacket(p, id, type, len, val)
  PROVE  \E ch : \E x : Enqueued(p, e, id, type, ch, x)
<1> DEFINE x == Packet(type, id, len % RingSize, val, p.channels[id].conv)
           pq == Append(p.channels[id].packet_queue, x)
           ch == [p.channels[id] EXCEPT !.packet_queue = pq]
<1>1. DOMAIN p.channels[id] = ChannelFields
  BY DEF Shaped
<1>2. x.type = type /\ x.id = id
  BY DEF Packet
<1> HIDE DEF x
<1>3. /\ DOMAIN e = DaemonFields /\ e.r2a = p.r2a /\ e.exited = p.exited
      /\ e.channels = [p.channels EXCEPT ![id] = ch]
  BY <1>1 DEF CreateAndEnqueuePacket, Shaped, DaemonFields, x
<1>4. /\ DOMAIN ch = ChannelFields /\ ch.association = p.channels[id].association
      /\ ch.stream_id = p.channels[id].stream_id /\ ch.packet_queue = pq
  BY <1>1 DEF ChannelFields
<1> HIDE DEF ch
<1>5. Enqueued(p, e, id, type, ch, x)
  BY <1>2, <1>3, <1>4 DEF Enqueued
<1> QED
  BY <1>5

LEMMA EnqueueCalm ==
  ASSUME NEW p, Shaped(p), NEW id \in DOMAIN p.channels,
         NEW type, type # "CONNECT_RESPONSE", NEW len, NEW val,
         NEW e, e = CreateAndEnqueuePacket(p, id, type, len, val)
  PROVE  Calmer(p, e) /\ Shaped(e) /\ DOMAIN e.channels = DOMAIN p.channels
<1>1. PICK ch : \E x : Enqueued(p, e, id, type, ch, x)
  BY EnqueueFacts
<1>2. PICK x : Enqueued(p, e, id, type, ch, x)
  BY <1>1
<1> DEFINE q == p.channels[id].packet_queue
           r == ch.packet_queue
<1>3. ~IsAnswer(x) /\ Listed(q) /\ r = Append(q, x)
  BY <1>2 DEF IsAnswer, Shaped, Enqueued
<1>4. Listed(ch.packet_queue) /\ Tamer(p.channels[id], ch)
  <2> HIDE DEF q, r
  <2>1. /\ Listed(r)
        /\ NoAnswer(q) => NoAnswer(r)
        /\ OneAnswer(q) => OneAnswer(r)
    BY <1>3, AppendAnswers
  <2> QED
    BY <1>2, <2>1 DEF Tamer, Enqueued, q, r
<1>5. Calmer(p, e)
  BY <1>2, <1>4, OneCalm DEF Enqueued
<1> QED
  BY <1>2, <1>5 DEF Calmer, Enqueued

LEMMA RemoveDoneCalm ==
  ASSUME NEW p, Shaped(p), NEW id, NEW e, e = RemoveChannelIfDone(p, id)
  PROVE  Calmer(p, e)
<1>1. /\ DOMAIN e = DaemonFields /\ e.r2a = p.r2a /\ e.exited = p.exited
      /\ \/ e.channels = p.channels
         \/ e.channels = [j \in DOMAIN p.channels \ {id} |-> p.channels[j]]
  BY DEF RemoveChannelIfDone, Shaped, DaemonFields
<1> QED
  BY <1>1, OneCalm

\* got_eos_from_client or got_eos_from_ami is set, and hist may change.
LEMMA GotEosCalm ==
  ASSUME NEW p, Shaped(p), NEW id \in DOMAIN p.channels,
         NEW f \in {"got_eos_from_client", "got_eos_from_ami"}, NEW e,
         DOMAIN e = DaemonFields, e.r2a = p.r2a, e.exited = p.exited,
         e.channels = [p.channels EXCEPT ![id] = [@ EXCEPT ![f] = TRUE]]
  PROVE  Calmer(p, e) /\ Shaped(e) /\ DOMAIN e.channels = DOMAIN p.channels
<1> DEFINE ch == [p.channels[id] EXCEPT ![f] = TRUE]
<1>1. DOMAIN p.channels[id] = ChannelFields /\ Listed(p.channels[id].packet_queue)
  BY DEF Shaped
<1>2. /\ DOMAIN ch = ChannelFields /\ ch.association = p.channels[id].association
      /\ ch.stream_id = p.channels[id].stream_id
      /\ ch.packet_queue = p.channels[id].packet_queue
      /\ e.channels = [p.channels EXCEPT ![id] = ch]
  BY <1>1 DEF ChannelFields
<1> HIDE DEF ch
<1>3. Tamer(p.channels[id], ch)
  BY <1>2 DEF Tamer
<1>4. Calmer(p, e)
  BY <1>1, <1>2, <1>3, OneCalm
<1> QED
  BY <1>2, <1>4 DEF Calmer

\* Nothing but the services changes, and a message may be sent.
LEMMA ServiceMessageCalm ==
  ASSUME NEW p, Shaped(p), NEW c, NEW m,
         NEW e, \/ e = HandleMsgRegisterReq(p, c, m)
                \/ e = HandleMsgDeregisterReq(p, c, m)
  PROVE  Calmer(p, e)
<1> DEFINE a == [p EXCEPT !.services = With(@, m.val, c)]
           rest == [n \in DOMAIN p.services \ {m.val} |-> p.services[n]]
           b == [p EXCEPT !.services = rest]
<1>1. PICK q \in {p, a, b} : \E w : e = CreateAndSendMsg(q, c, w)
  BY DEF HandleMsgRegisterReq, HandleMsgDeregisterReq
<1>2. /\ DOMAIN q = DaemonFields /\ q.channels = p.channels /\ q.r2a = p.r2a
      /\ q.exited = p.exited
  BY DEF Shaped, DaemonFields
<1> HIDE DEF a, b
<1>3. Calmer(p, q)
  BY <1>2, OneCalm
<1>4. Shaped(q)
  BY <1>3 DEF Calmer
<1>5. Aside(q, e)
  BY <1>1, <1>2, SendFacts
<1>6. Calmer(q, e)
  BY <1>4, <1>5, AsideCalm
<1> QED
  BY <1>3, <1>6, CalmerAgain

LEMMA DataMsgCalm ==
  ASSUME NEW p, Shaped(p), NEW id \in DOMAIN p.channels, NEW m,
         NEW e, e = HandleMsgData(p, id, m)
  PROVE  Calmer(p, e)
<1> DEFINE a == CreateAndEnqueuePacket(p, id, "DATA", m.len, m.val)
<1>1. e = [a EXCEPT !.hist[m.conv].sent = Append(@, m.val)]
  BY DEF HandleMsgData
<1>2. Calmer(p, a) /\ Shaped(a)
  BY EnqueueCalm
<1> HIDE DEF a
<1>3. Aside(a, e)
  BY <1>1, <1>2 DEF Aside, DaemonFields, Shaped
<1>4. Calmer(a, e)
  BY <1>2, <1>3, AsideCalm
<1> QED
  BY <1>2, <1>4, CalmerAgain

LEMMA EosMsgCalm ==
  ASSUME NEW p, Shaped(p), NEW id \in DOMAIN p.channels, NEW m,
         NEW e, e = HandleMsgEos(p, id, m)
  PROVE  Calmer(p, e)
<1> DEFINE a == CreateAndEnqueuePacket(p, id, "EOS", 0, 0)
           b == [a EXCEPT !.channels[id].got_eos_from_client = TRUE,
                          !.hist[m.conv].sent_eos = Len(p.hist[m.conv].sent)]
           c == RemoveAssociation(b, id)
<1>1. e \in {p, b, c}
  BY DEF HandleMsgEos
<1>2. Calmer(p, a) /\ Shaped(a) /\ id \in DOMAIN a.channels
  BY EnqueueCalm
<1> HIDE DEF a
<1>3. /\ DOMAIN b = DaemonFields /\ b.r2a = a.r2a /\ b.exited = a.exited
      /\ b.channels = [a.channels EXCEPT ![id] = [@ EXCEPT !["got_eos_from_client"] = TRUE]]
  BY <1>2 DEF Shaped, DaemonFields
<1> HIDE DEF b
<1>4. Calmer(a, b) /\ Shaped(b) /\ id \in DOMAIN b.channels
  BY <1>2, <1>3, GotEosCalm
<1>5. Calmer(p, b)
  BY <1>2, <1>4, CalmerAgain
<1>6. Calmer(b, c)
  BY <1>4, RemoveAssociationCalm
<1> HIDE DEF c
<1>7. Calmer(p, c)
  BY <1>5, <1>6, CalmerAgain
<1>8. Calmer(p, p)
  BY OneCalm DEF Shaped
<1> QED
  BY <1>1, <1>5, <1>7, <1>8

LEMMA ResetChannelCalm ==
  ASSUME NEW p, Shaped(p), NEW id \in DOMAIN p.channels,
         NEW e, e = ResetChannel(p, id)
  PROVE  Calmer(p, e) /\ DOMAIN e.channels = DOMAIN p.channels
<1> DEFINE a == RemoveAssociation(p, id)
           b == ClearPacketQueue(a, id)
           c == CreateAndEnqueuePacket(b, id, "RESET", 0, 0)
<1>1. e = [c EXCEPT !.hist[p.channels[id].conv].client_reset = TRUE]
  BY DEF ResetChannel
<1>2. Calmer(p, a) /\ Shaped(a) /\ DOMAIN a.channels = DOMAIN p.channels
  BY RemoveAssociationCalm
<1> HIDE DEF a
<1>3. Calmer(a, b) /\ Shaped(b) /\ DOMAIN b.channels = DOMAIN p.channels
  BY <1>2, ClearCalm
<1> HIDE DEF b
<1>4. Calmer(b, c) /\ Shaped(c) /\ DOMAIN c.channels = DOMAIN p.channels
  BY <1>3, EnqueueCalm
<1> HIDE DEF c
<1>5. Aside(c, e)
  BY <1>1, <1>4 DEF Aside, DaemonFields, Shaped
<1>6. Calmer(c, e) /\ e.channels = c.channels
  BY <1>4, <1>5, AsideCalm
<1> QED
  BY <1>2, <1>3, <1>4, <1>6, CalmerAgain

\* The client's answer takes its right to answer away.
LEMMA ResponseKeepsAnswers ==
  ASSUME NEW p, Shaped(p), NEW U, NEW T, AnswersOK(p, U, T),
         NEW id \in DOMAIN p.channels, p.channels[id].association # NoClient,
         <<p.channels[id].association, p.channels[id].stream_id>> \in U,
         NEW W \in SUBSET U,
         <<p.channels[id].association, p.channels[id].stream_id>> \notin W,
         NEW m, NEW e, e = HandleMsgConnectResponse(p, id, m)
  PROVE  AnswersOK(e, W, T) /\ Shaped(e) /\ KnownBy(e) \subseteq KnownBy(p)
<1> DEFINE a == CreateAndEnqueuePacket(p, id, "CONNECT_RESPONSE", 1, m.val)
           b == RemoveAssociation(a, id)
           old == p.channels[id]
<1>1. e = a \/ e = b
  BY DEF HandleMsgConnectResponse
<1>2. PICK ch : \E x : Enqueued(p, a, id, "CONNECT_RESPONSE", ch, x)
  BY EnqueueFacts
<1>3. PICK x : Enqueued(p, a, id, "CONNECT_RESPONSE", ch, x)
  BY <1>2
<1> HIDE DEF a
<1>4. /\ DOMAIN a = DaemonFields /\ a.r2a = p.r2a /\ a.exited = p.exited
      /\ a.channels = [p.channels EXCEPT ![id] = ch]
      /\ DOMAIN ch = ChannelFields /\ ch.association = old.association
      /\ ch.stream_id = old.stream_id
      /\ ch.packet_queue = Append(old.packet_queue, x)
  BY <1>3 DEF Enqueued
<1>5. /\ DOMAIN a.channels = DOMAIN p.channels /\ a.channels[id] = ch
      /\ \A j \in DOMAIN p.channels : j # id => a.channels[j] = p.channels[j]
  BY <1>4
<1>6. NoAnswer(old.packet_queue) /\ ~InRing(p, id) /\ id \in T
  BY DEF AnswersOK, ChannelAnswers
<1>7. Listed(ch.packet_queue) /\ OneAnswer(ch.packet_queue)
  <2> DEFINE q == old.packet_queue
             r == ch.packet_queue
  <2>1. Listed(q) /\ NoAnswer(q) /\ r = Append(q, x)
    BY <1>4, <1>6 DEF Shaped
  <2> HIDE DEF q, r
  <2>2. Listed(r) /\ OneAnswer(r)
    BY <2>1, AppendAnswers
  <2> QED
    BY <2>2 DEF r
<1>8. Shaped(a)
  BY <1>4, <1>5, <1>7 DEF Shaped
<1>9. AnswersOK(a, W, T)
  <2>1. RingAnswers(a, T) /\ \A j : InRing(a, j) <=> InRing(p, j)
    BY <1>4 DEF AnswersOK, RingAnswers, InRing
  <2>2. ASSUME NEW j \in DOMAIN a.channels PROVE ChannelAnswers(a, j, W, T)
    <3>1. CASE j = id
      BY <1>4, <1>5, <1>6, <1>7, <2>1, <3>1 DEF ChannelAnswers
    <3>2. CASE j # id
      <4>1. ChannelAnswers(p, j, U, T) /\ a.channels[j] = p.channels[j]
        BY <1>5, <3>2 DEF AnswersOK
      <4> QED
        BY <2>1, <4>1 DEF ChannelAnswers
    <3> QED
      BY <3>1, <3>2
  <2> QED
    BY <1>4, <2>1, <2>2 DEF AnswersOK
<1>10. KnownBy(a) = KnownBy(p)
  BY <1>4, <1>5 DEF KnownBy
<1>11. Calmer(a, b)
  BY <1>5, <1>8, RemoveAssociationCalm
<1> HIDE DEF b
<1>12. AnswersOK(b, W, T) /\ KnownBy(b) \subseteq KnownBy(a) /\ Shaped(b)
  <2>1. W \in SUBSET W
    OBVIOUS
  <2> QED
    BY <1>9, <1>11, <2>1, CalmerKeeps DEF Calmer
<1> QED
  BY <1>1, <1>8, <1>9, <1>10, <1>12

LEMMA MessageKeepsAnswers ==
  ASSUME NEW p, NEW V, NEW X, DaemonInv(p, V, X), NEW U, NEW T, AnswersOK(p, U, T),
         NEW c \in Clients, NEW m, MessageOK(m), NEW W \in SUBSET U,
         m.type = "RESPONSE" =>
           /\ m.sid \in Nat => <<c, m.sid>> \in U
           /\ <<c, m.sid>> \notin W,
         NEW e, e = HandleReceivedMessage(p, c, m)
  PROVE  AnswersOK(e, W, T) /\ KnownBy(e) \subseteq KnownBy(p)
<1> DEFINE id == CHOOSE id \in ChannelsOf(p, c, m.sid) : TRUE
<1>1. Shaped(p)
  BY InvShaped
<1>2. Calmer(p, p)
  BY <1>1, OneCalm DEF Shaped
<1>3. /\ m.type \in MessageTypes
      /\ e = IF m.type = "REGISTER" THEN HandleMsgRegisterReq(p, c, m)
             ELSE IF m.type = "DEREGISTER" THEN HandleMsgDeregisterReq(p, c, m)
             ELSE IF ChannelsOf(p, c, m.sid) = {} THEN p
             ELSE CASE m.type = "RESPONSE" -> HandleMsgConnectResponse(p, id, m)
                    [] m.type = "DATA"     -> HandleMsgData(p, id, m)
                    [] m.type = "EOS"      -> HandleMsgEos(p, id, m)
                    [] m.type = "RESET"    -> ResetChannel(p, id)
  BY DEF HandleReceivedMessage, MessageOK
<1>4. ChannelsOf(p, c, m.sid) # {} =>
        /\ id \in DOMAIN p.channels /\ p.channels[id].association = c
        /\ p.channels[id].stream_id = m.sid
  <2> SUFFICES ASSUME ChannelsOf(p, c, m.sid) # {}
               PROVE  /\ id \in DOMAIN p.channels /\ p.channels[id].association = c
                      /\ p.channels[id].stream_id = m.sid
    OBVIOUS
  <2>1. id \in ChannelsOf(p, c, m.sid)
    OBVIOUS
  <2> HIDE DEF id
  <2> QED
    BY <2>1 DEF ChannelsOf, Associations
<1> HIDE DEF id
<1>5. CASE ChannelsOf(p, c, m.sid) # {} /\ e = HandleMsgConnectResponse(p, id, m)
           /\ m.type = "RESPONSE"
  <2>1. id \in DOMAIN p.channels /\ p.channels[id].association = c
        /\ p.channels[id].stream_id = m.sid /\ c # NoClient
    BY <1>4, <1>5, DaemonAssumption
  <2>2. m.sid \in Nat
    BY <2>1, DaemonFacts DEF ChannelOK
  <2>3. <<c, m.sid>> \in U /\ <<c, m.sid>> \notin W
    BY <1>5, <2>2
  <2> QED
    BY <1>1, <1>5, <2>1, <2>3, ResponseKeepsAnswers
<1>6. CASE Calmer(p, e)
  BY <1>6, CalmerKeeps
<1>7. e = HandleMsgRegisterReq(p, c, m) \/ e = HandleMsgDeregisterReq(p, c, m) =>
        Calmer(p, e)
  BY <1>1, ServiceMessageCalm
<1>8. ASSUME ChannelsOf(p, c, m.sid) # {}
      PROVE  /\ e = HandleMsgData(p, id, m) => Calmer(p, e)
             /\ e = HandleMsgEos(p, id, m) => Calmer(p, e)
             /\ e = ResetChannel(p, id) => Calmer(p, e)
  <2>1. id \in DOMAIN p.channels
    BY <1>4, <1>8
  <2>2. e = HandleMsgData(p, id, m) => Calmer(p, e)
    BY <1>1, <2>1, DataMsgCalm
  <2>3. e = HandleMsgEos(p, id, m) => Calmer(p, e)
    BY <1>1, <2>1, EosMsgCalm
  <2>4. e = ResetChannel(p, id) => Calmer(p, e)
    BY <1>1, <2>1, ResetChannelCalm
  <2> QED
    BY <2>2, <2>3, <2>4
<1> QED
  BY <1>2, <1>3, <1>5, <1>6, <1>7, <1>8 DEF MessageTypes

\* A channel is made: without packets, or without a client.
LEMMA NewChannelAnswers ==
  ASSUME NEW p, Shaped(p), NEW U, NEW T, AnswersOK(p, U, T), NEW id \in T,
         id \notin DOMAIN p.channels, ~InRing(p, id),
         NEW e, DOMAIN e = DaemonFields, e.r2a = p.r2a,
         e.exited = "connect" => p.exited = "connect",
         DOMAIN e.channels = DOMAIN p.channels \cup {id},
         \A j \in DOMAIN p.channels : e.channels[j] = p.channels[j],
         DOMAIN e.channels[id] = ChannelFields,
         Listed(e.channels[id].packet_queue), OneAnswer(e.channels[id].packet_queue),
         \/ e.channels[id].association = NoClient
         \/ NoAnswer(e.channels[id].packet_queue)
  PROVE  /\ AnswersOK(e, U, T) /\ Shaped(e)
         /\ KnownBy(e) \subseteq KnownBy(p) \cup {id}
<1>1. RingAnswers(e, T) /\ \A j : InRing(e, j) <=> InRing(p, j)
  BY DEF AnswersOK, RingAnswers, InRing
<1>2. ASSUME NEW j \in DOMAIN e.channels PROVE ChannelAnswers(e, j, U, T)
  <2>1. CASE j = id
    BY <1>1, <2>1 DEF ChannelAnswers
  <2>2. CASE j # id
    <3>1. ChannelAnswers(p, j, U, T) /\ e.channels[j] = p.channels[j]
      BY <2>2 DEF AnswersOK
    <3> QED
      BY <1>1, <3>1 DEF ChannelAnswers
  <2> QED
    BY <2>1, <2>2
<1>3. AnswersOK(e, U, T)
  BY <1>1, <1>2 DEF AnswersOK
<1>4. Shaped(e)
  BY DEF Shaped
<1>5. KnownBy(e) \subseteq KnownBy(p) \cup {id}
  BY DEF KnownBy
<1> QED
  BY <1>3, <1>4, <1>5

\* What Associate does to p: the channel gets a client, and a message is sent.
LEMMA AssociateChannels ==
  ASSUME NEW p, Shaped(p), NEW id \in DOMAIN p.channels, NEW c, NEW name,
         NEW e, e = Associate(p, id, c, name)
  PROVE  /\ DOMAIN e = DaemonFields /\ e.r2a = p.r2a
         /\ e.exited = "connect" => p.exited = "connect"
         /\ DOMAIN e.channels = DOMAIN p.channels
         /\ \A j \in DOMAIN p.channels : j # id => e.channels[j] = p.channels[j]
         /\ DOMAIN e.channels[id] = ChannelFields
         /\ e.channels[id].packet_queue = p.channels[id].packet_queue
<1> DEFINE sid == p.stream_ids[c]
           a == [p EXCEPT !.channels[id].association = c,
                          !.channels[id].stream_id = sid, !.stream_ids[c] = @ + 2]
           m == Message("CONNECT", sid, name, p.channels[id].conv)
           ch == [p.channels[id] EXCEPT !.association = c, !.stream_id = sid]
<1>1. e = CreateAndSendMsg(a, c, m)
  BY DEF Associate
<1>2. DOMAIN p = DaemonFields /\ DOMAIN p.channels[id] = ChannelFields
  BY DEF Shaped
<1>3. /\ DOMAIN a = DaemonFields /\ a.r2a = p.r2a /\ a.exited = p.exited
      /\ DOMAIN a.channels = DOMAIN p.channels
      /\ \A j \in DOMAIN p.channels : j # id => a.channels[j] = p.channels[j]
      /\ a.channels[id] = ch
  BY <1>2 DEF DaemonFields, ChannelFields
<1>4. DOMAIN ch = ChannelFields /\ ch.packet_queue = p.channels[id].packet_queue
  BY <1>2 DEF ChannelFields
<1> HIDE DEF a, ch
<1>5. Aside(a, e)
  BY <1>1, <1>3, SendFacts
<1>6. /\ DOMAIN e = DaemonFields /\ e.channels = a.channels /\ e.r2a = a.r2a
      /\ e.exited = "connect" => a.exited = "connect"
  BY <1>5 DEF Aside, DaemonFields
<1> QED
  BY <1>3, <1>4, <1>6

LEMMA PktConnectAnswers ==
  ASSUME NEW p, Shaped(p), NEW U, NEW T, AnswersOK(p, U, T), NEW pkt,
         pkt.id \in T, pkt.id \notin DOMAIN p.channels, ~InRing(p, pkt.id),
         NEW e, e = HandlePktConnect(p, pkt)
  PROVE  /\ AnswersOK(e, U, T) /\ Shaped(e)
         /\ KnownBy(e) \subseteq KnownBy(p) \cup {pkt.id}
<1> DEFINE id == pkt.id
           ch == NewChannel(pkt.conv)
           new == [p EXCEPT !.channels = With(@, id, ch)]
           unused == {x \in Clients : p.connections[x] = "unused"}
           c == CHOOSE x \in unused : TRUE
           n == pkt.val
           bound == [p EXCEPT !.exited = "bound"]
           cs == [new.connections EXCEPT ![c] = "open"]
           sv == With(new.services, n, c)
           started == [new EXCEPT !.connections = cs, !.services = sv]
           refused == CreateAndEnqueuePacket(new, id, "CONNECT_RESPONSE", 1,
                                             "CONNECT_UNKNOWN_SERVICE")
           served == Associate(new, id, p.services[n], n)
           demanded == Associate(started, id, c, n)
<1>1. e \in {bound, refused, served, demanded}
  BY DEF HandlePktConnect
<1>2. DOMAIN p = DaemonFields
  BY DEF Shaped
<1>3. /\ DOMAIN ch = ChannelFields /\ ch.association = NoClient
      /\ ch.packet_queue = <<>>
  BY DEF NewChannel, ChannelFields
<1>4. /\ Listed(ch.packet_queue) /\ NoAnswer(ch.packet_queue)
      /\ OneAnswer(ch.packet_queue)
  BY <1>3, NoAnswers
<1>5. /\ DOMAIN new = DaemonFields /\ new.r2a = p.r2a /\ new.exited = p.exited
      /\ DOMAIN new.channels = DOMAIN p.channels \cup {id} /\ new.channels[id] = ch
      /\ \A j \in DOMAIN p.channels : new.channels[j] = p.channels[j]
  BY <1>2 DEF DaemonFields, With
<1>6. /\ DOMAIN started = DaemonFields /\ started.r2a = p.r2a
      /\ started.exited = p.exited /\ started.channels = new.channels
  BY <1>5 DEF DaemonFields
<1>7. /\ DOMAIN bound = DaemonFields /\ bound.r2a = p.r2a
      /\ bound.exited # "connect" /\ bound.channels = p.channels
  BY <1>2 DEF DaemonFields
<1> HIDE DEF ch, new, started, bound
<1>8. Shaped(new) /\ Shaped(started)
  BY <1>3, <1>4, <1>5, <1>6 DEF Shaped
<1>9. CASE e = bound
  <2>1. Calmer(p, e)
    BY <1>7, <1>9, OneCalm
  <2>2. U \in SUBSET U
    OBVIOUS
  <2> QED
    BY <2>1, <2>2, CalmerKeeps DEF Calmer
<1>10. ASSUME NEW q \in {new, started}, NEW x, e = Associate(q, id, x, n)
       PROVE  /\ AnswersOK(e, U, T) /\ Shaped(e)
              /\ KnownBy(e) \subseteq KnownBy(p) \cup {id}
  <2>1. /\ Shaped(q) /\ q.channels = new.channels /\ q.r2a = p.r2a
        /\ q.exited = p.exited /\ id \in DOMAIN q.channels
    BY <1>5, <1>6, <1>8
  <2> HIDE DEF id, n
  <2>2. /\ DOMAIN e = DaemonFields /\ e.r2a = q.r2a
        /\ e.exited = "connect" => q.exited = "connect"
        /\ DOMAIN e.channels = DOMAIN q.channels
        /\ \A j \in DOMAIN q.channels : j # id => e.channels[j] = q.channels[j]
        /\ DOMAIN e.channels[id] = ChannelFields
        /\ e.channels[id].packet_queue = q.channels[id].packet_queue
    BY <1>10, <2>1, AssociateChannels
  <2>3. id \in T /\ id \notin DOMAIN p.channels /\ ~InRing(p, id)
    BY DEF id
  <2>4. /\ DOMAIN e.channels = DOMAIN p.channels \cup {id}
        /\ \A j \in DOMAIN p.channels : e.channels[j] = p.channels[j]
        /\ Listed(e.channels[id].packet_queue)
        /\ NoAnswer(e.channels[id].packet_queue)
        /\ OneAnswer(e.channels[id].packet_queue)
    BY <1>4, <1>5, <2>1, <2>2, <2>3
  <2> QED
    BY <2>1, <2>2, <2>3, <2>4, NewChannelAnswers
<1>11. CASE e = refused
  <2>1. id \in DOMAIN new.channels
    BY <1>5
  <2> HIDE DEF id
  <2>2. PICK x : \E y : Enqueued(new, e, id, "CONNECT_RESPONSE", x, y)
    BY <1>8, <1>11, <2>1, EnqueueFacts
  <2>3. PICK y : Enqueued(new, e, id, "CONNECT_RESPONSE", x, y)
    BY <2>2
  <2>4. /\ DOMAIN e = DaemonFields /\ e.r2a = p.r2a /\ e.exited = p.exited
        /\ DOMAIN e.channels = DOMAIN new.channels /\ e.channels[id] = x
        /\ \A j \in DOMAIN new.channels : j # id => e.channels[j] = new.channels[j]
        /\ DOMAIN x = ChannelFields /\ x.association = NoClient
    BY <1>3, <1>5, <2>1, <2>3 DEF Enqueued
  <2>5. Listed(x.packet_queue) /\ OneAnswer(x.packet_queue)
    <3> DEFINE q == ch.packet_queue
               r == x.packet_queue
    <3>1. Listed(q) /\ NoAnswer(q) /\ r = Append(q, y)
      BY <1>4, <1>5, <2>3 DEF Enqueued
    <3> HIDE DEF q, r
    <3>2. Listed(r) /\ OneAnswer(r)
      BY <3>1, AppendAnswers
    <3> QED
      BY <3>2 DEF r
  <2>6. id \in T /\ id \notin DOMAIN p.channels /\ ~InRing(p, id)
    BY DEF id
  <2>7. /\ DOMAIN e.channels = DOMAIN p.channels \cup {id}
        /\ \A j \in DOMAIN p.channels : e.channels[j] = p.channels[j]
    BY <1>5, <2>4, <2>6
  <2> QED
    BY <2>4, <2>5, <2>6, <2>7, NewChannelAnswers DEF id
<1> QED
  BY <1>1, <1>9, <1>10, <1>11

LEMMA SendOnStreamCalm ==
  ASSUME NEW p, Shaped(p), NEW id, NEW type, NEW val,
         NEW e, e = SendOnStream(p, id, type, val)
  PROVE  Calmer(p, e) /\ Shaped(e) /\ e.channels = p.channels
<1>1. Aside(p, e)
  BY SendOnStreamFacts DEF Shaped
<1> QED
  BY <1>1, AsideCalm

LEMMA PktEosCalm ==
  ASSUME NEW p, Shaped(p), NEW pkt, NEW e, e = HandlePktEos(p, pkt)
  PROVE  Calmer(p, e)
<1> DEFINE id == pkt.id
           a == SendOnStream(p, id, "EOS", 0)
           b == [a EXCEPT !.channels[id].got_eos_from_ami = TRUE]
           c == RemoveAssociation(b, id)
<1>1. CASE ~Open(p, id)
  BY <1>1, OneCalm DEF HandlePktEos, Shaped
<1>2. CASE Open(p, id)
  <2>1. e = b \/ e = c
    BY <1>2 DEF HandlePktEos
  <2>2. id \in DOMAIN p.channels
    BY <1>2 DEF Open
  <2>3. Calmer(p, a) /\ Shaped(a) /\ id \in DOMAIN a.channels
    BY <2>2, SendOnStreamCalm
  <2> HIDE DEF a
  <2>4. /\ DOMAIN b = DaemonFields /\ b.r2a = a.r2a /\ b.exited = a.exited
        /\ b.channels = [a.channels EXCEPT ![id] = [@ EXCEPT !["got_eos_from_ami"] = TRUE]]
    BY <2>3 DEF Shaped, DaemonFields
  <2> HIDE DEF b
  <2>5. Calmer(a, b) /\ Shaped(b) /\ id \in DOMAIN b.channels
    BY <2>3, <2>4, GotEosCalm
  <2>6. Calmer(b, c)
    BY <2>5, RemoveAssociationCalm
  <2> HIDE DEF c
  <2> QED
    BY <2>1, <2>3, <2>5, <2>6, CalmerAgain
<1> QED
  BY <1>1, <1>2

LEMMA PktResetCalm ==
  ASSUME NEW p, Shaped(p), NEW pkt, NEW e, e = HandlePktReset(p, pkt)
  PROVE  Calmer(p, e)
<1> DEFINE id == pkt.id
           a == ClearPacketQueue(p, id)
           b == SendOnStream(a, id, "RESET", 0)
           c == RemoveAssociation(b, id)
<1>1. CASE id \notin DOMAIN p.channels
  BY <1>1, OneCalm DEF HandlePktReset, Shaped
<1>2. CASE id \in DOMAIN p.channels
  <2>1. e = a \/ e = c
    BY <1>2 DEF HandlePktReset
  <2>2. Calmer(p, a) /\ Shaped(a) /\ id \in DOMAIN a.channels
    BY <1>2, ClearCalm
  <2> HIDE DEF a
  <2>3. Calmer(a, b) /\ Shaped(b) /\ id \in DOMAIN b.channels
    BY <2>2, SendOnStreamCalm
  <2> HIDE DEF b
  <2>4. Calmer(b, c)
    BY <2>3, RemoveAssociationCalm
  <2> HIDE DEF c
  <2> QED
    BY <2>1, <2>2, <2>3, <2>4, CalmerAgain
<1> QED
  BY <1>1, <1>2

\* A CONNECT comes on an id that the daemon does not know and whose socket waits.
LEMMA PktKeepsAnswers ==
  ASSUME NEW p, Shaped(p), NEW U, NEW T, AnswersOK(p, U, T), NEW pkt,
         pkt.type \in {"CONNECT", "DATA", "EOS", "RESET"},
         pkt.type = "CONNECT" =>
           pkt.id \in T /\ pkt.id \notin DOMAIN p.channels /\ ~InRing(p, pkt.id),
         NEW e, e = HandleReceivedPkt(p, pkt)
  PROVE  /\ AnswersOK(e, U, T)
         /\ \A id \in KnownBy(e) :
              id \in KnownBy(p) \/ (pkt.type = "CONNECT" /\ id = pkt.id)
<1> DEFINE a == CASE pkt.type = "CONNECT" -> HandlePktConnect(p, pkt)
                  [] pkt.type = "DATA"    -> HandlePktData(p, pkt)
                  [] pkt.type = "EOS"     -> HandlePktEos(p, pkt)
                  [] pkt.type = "RESET"   -> HandlePktReset(p, pkt)
<1>1. e = p \/ e = RemoveChannelIfDone(a, pkt.id)
  BY DEF HandleReceivedPkt
<1>2. U \in SUBSET U
  OBVIOUS
<1>3. Calmer(p, p)
  BY OneCalm DEF Shaped
<1>4. CASE pkt.type = "CONNECT"
  <2>1. a = HandlePktConnect(p, pkt)
    BY <1>4
  <2> HIDE DEF a
  <2>2. /\ AnswersOK(a, U, T) /\ Shaped(a)
        /\ KnownBy(a) \subseteq KnownBy(p) \cup {pkt.id}
    BY <1>4, <2>1, PktConnectAnswers
  <2> DEFINE b == RemoveChannelIfDone(a, pkt.id)
  <2>3. Calmer(a, b)
    BY <2>2, RemoveDoneCalm
  <2> HIDE DEF b
  <2>4. AnswersOK(b, U, T) /\ KnownBy(b) \subseteq KnownBy(a)
    BY <1>2, <2>2, <2>3, CalmerKeeps
  <2> QED
    BY <1>1, <1>4, <2>2, <2>4 DEF b
<1>5. ASSUME Calmer(p, a)
      PROVE  AnswersOK(e, U, T) /\ KnownBy(e) \subseteq KnownBy(p)
  <2> DEFINE b == RemoveChannelIfDone(a, pkt.id)
  <2> HIDE DEF a
  <2>1. Calmer(a, b)
    BY <1>5, RemoveDoneCalm DEF Calmer
  <2> HIDE DEF b
  <2>2. Calmer(p, b)
    BY <1>5, <2>1, CalmerAgain
  <2>3. Calmer(p, e)
    BY <1>1, <1>3, <2>2 DEF b
  <2> QED
    BY <1>2, <2>3, CalmerKeeps
<1>6. CASE pkt.type = "DATA"
  <2> DEFINE w == SendOnStream(p, pkt.id, "DATA", pkt.val)
  <2>1. a = p \/ a = w
    BY <1>6 DEF HandlePktData
  <2>2. Calmer(p, w)
    BY SendOnStreamCalm
  <2> HIDE DEF w
  <2>3. Calmer(p, a)
    BY <1>3, <2>1, <2>2
  <2> QED
    BY <1>5, <2>3
<1>7. CASE pkt.type = "EOS"
  <2>1. a = HandlePktEos(p, pkt)
    BY <1>7
  <2> HIDE DEF a
  <2>2. Calmer(p, a)
    BY <2>1, PktEosCalm
  <2> QED
    BY <1>5, <2>2
<1>8. CASE pkt.type = "RESET"
  <2>1. a = HandlePktReset(p, pkt)
    BY <1>8
  <2> HIDE DEF a
  <2>2. Calmer(p, a)
    BY <2>1, PktResetCalm
  <2> QED
    BY <1>5, <2>2
<1> QED
  BY <1>4, <1>6, <1>7, <1>8

LEMMA CloseAllAnswers ==
  ASSUME NEW p, NEW V, NEW X, DaemonInv(p, V, X), IsFiniteSet(V),
         NEW U, NEW T, AnswersOK(p, U, T),
         NEW e, e = CloseAllLogicalChannels(p)
  PROVE  AnswersOK(e, U, T) /\ KnownBy(e) \subseteq KnownBy(p)
<1> DEFINE A == {id \in DOMAIN p.channels : p.channels[id].association # NoClient}
           ids == ToldIds(p)
           n == Len(ids)
<1>1. IsFiniteSet(A)
  <2>1. DOMAIN p.channels \subseteq V
    BY DaemonFacts
  <2> QED
    BY <2>1, FS_Subset
<1>2. \A id \in A : p.channels[id].stream_id \in Nat
  BY DaemonFacts DEF ChannelOK
<1>3. n \in Nat
  <2>1. ids = InOrder(p, A)
    BY DEF ToldIds
  <2> QED
    BY <1>1, <1>2, <2>1, InOrderFacts
<1>4. PICK f : /\ f[0] = p /\ e = Cleared(f[n])
               /\ \A i \in 1 .. n : f[i] = SendOnStream(f[i - 1], ids[i], "RESET", 0)
  BY <1>3, RestartLoop
<1> HIDE DEF ids, n
<1> DEFINE S == {m \in Nat : m <= n => Calmer(p, f[m])}
<1>5. Shaped(p)
  BY InvShaped
<1>6. 0 \in S
  BY <1>4, <1>5, OneCalm DEF Shaped
<1>7. ASSUME NEW m \in Nat, m \in S PROVE m + 1 \in S
  <2> SUFFICES ASSUME m + 1 <= n PROVE Calmer(p, f[m + 1])
    OBVIOUS
  <2>1. m + 1 \in 1 .. n /\ m + 1 - 1 = m /\ m <= n
    BY <1>3
  <2>2. Calmer(p, f[m]) /\ f[m + 1] = SendOnStream(f[m], ids[m + 1], "RESET", 0)
    BY <1>4, <1>7, <2>1
  <2>3. Calmer(f[m], f[m + 1])
    BY <2>2, SendOnStreamCalm DEF Calmer
  <2> QED
    BY <2>2, <2>3, CalmerAgain
<1> HIDE DEF S
<1>8. n \in S
  BY <1>3, <1>6, <1>7, SetInduction
<1>9. Calmer(p, f[n])
  BY <1>3, <1>8 DEF S
<1> DEFINE q == f[n]
           none == <<>>
<1>10. e = Cleared(q) /\ Shaped(q) /\ Calmer(p, q)
  BY <1>4, <1>9 DEF Calmer
<1> HIDE DEF q
<1>11. /\ DOMAIN e = DaemonFields /\ e.channels = none /\ e.r2a = q.r2a
       /\ e.exited = q.exited
  BY <1>10 DEF Cleared, Shaped, DaemonFields
<1>12. DOMAIN none = {}
  <2>1. none \in Seq({}) /\ Len(none) = 0 /\ DOMAIN none = 1 .. 0
    BY EmptySeq, LenProperties
  <2> QED
    BY <2>1
<1> HIDE DEF none
<1>13. Calmer(q, e)
  BY <1>11, <1>12 DEF Calmer, Shaped
<1>14. Calmer(p, e) /\ U \in SUBSET U
  BY <1>10, <1>13, CalmerAgain
<1> QED
  BY <1>14, CalmerKeeps

LEMMA ResetsKeepAnswers ==
  ASSUME NEW p, Shaped(p), NEW ids, Len(ids) \in Nat,
         \A i \in 1 .. Len(ids) : ids[i] \in DOMAIN p.channels,
         NEW e, e = ResetChannels(p, ids)
  PROVE  Calmer(p, e)
<1> DEFINE n == Len(ids)
<1>1. PICK f : Rounds("resets", p, NoClient, ids, n, f) /\ e = f[n]
  BY ResetsLoop
<1>2. f[0] = p /\ \A i \in 1 .. n : f[i] = ResetChannel(f[i - 1], ids[i])
  BY <1>1 DEF Rounds, Body
<1> DEFINE S == {m \in Nat : m <= n =>
                   Calmer(p, f[m]) /\ DOMAIN f[m].channels = DOMAIN p.channels}
<1>3. 0 \in S
  BY <1>2, OneCalm DEF Shaped
<1>4. ASSUME NEW m \in Nat, m \in S PROVE m + 1 \in S
  <2> SUFFICES ASSUME m + 1 <= n
               PROVE  /\ Calmer(p, f[m + 1])
                      /\ DOMAIN f[m + 1].channels = DOMAIN p.channels
    OBVIOUS
  <2> DEFINE q == f[m]
             r == f[m + 1]
             id == ids[m + 1]
  <2>1. m + 1 \in 1 .. n /\ m + 1 - 1 = m
    OBVIOUS
  <2>2. Calmer(p, q) /\ Shaped(q) /\ DOMAIN q.channels = DOMAIN p.channels
    BY <1>4, <2>1 DEF Calmer
  <2>3. r = ResetChannel(q, id) /\ id \in DOMAIN q.channels
    BY <1>2, <2>1, <2>2
  <2> HIDE DEF q, r, id
  <2>4. Calmer(q, r) /\ DOMAIN r.channels = DOMAIN q.channels
    BY <2>2, <2>3, ResetChannelCalm
  <2>5. Calmer(p, r) /\ DOMAIN r.channels = DOMAIN p.channels
    BY <2>2, <2>4, CalmerAgain
  <2> QED
    BY <2>5 DEF r
<1> HIDE DEF S
<1>5. n \in S
  BY <1>3, <1>4, SetInduction
<1> QED
  BY <1>1, <1>5 DEF S

LEMMA CloseConnectionAnswers ==
  ASSUME NEW p, NEW V, DaemonInv(p, V, {}), IsFiniteSet(V), NEW c \in Clients,
         NEW e, e = CloseAndRemoveConnection(p, c)
  PROVE  Calmer(p, e)
<1> DEFINE A == Associations(p, c)
           rest == [n \in {n \in DOMAIN p.services : p.services[n] # c} |->
                      p.services[n]]
           a == [p EXCEPT !.services = rest, !.connections[c] = "closed",
                          !.message_queue[c] = <<>>]
           ids == InOrder(p, A)
<1>1. e = ResetChannels(a, ids)
  BY DEF CloseAndRemoveConnection
<1>2. DOMAIN p = DaemonFields /\ DOMAIN p.channels \subseteq V
  BY DaemonFacts
<1>3. A \subseteq DOMAIN p.channels /\ IsFiniteSet(A)
  BY <1>2, FS_Subset DEF Associations
<1>4. \A id \in A : p.channels[id].stream_id \in Nat
  BY <1>3, DaemonFacts, DaemonAssumption DEF ChannelOK, Associations
<1>5. /\ DOMAIN a = DaemonFields /\ a.channels = p.channels /\ a.r2a = p.r2a
      /\ a.exited = p.exited
  BY <1>2 DEF DaemonFields
<1> HIDE DEF A, a, ids
<1>6. Shaped(p)
  BY InvShaped
<1>7. Calmer(p, a) /\ Shaped(a)
  BY <1>5, <1>6, OneCalm DEF Calmer
<1>8. Len(ids) \in Nat /\ \A i \in 1 .. Len(ids) : ids[i] \in A
  BY <1>3, <1>4, InOrderFacts DEF ids
<1>9. \A i \in 1 .. Len(ids) : ids[i] \in DOMAIN a.channels
  BY <1>3, <1>5, <1>8
<1>10. Calmer(a, e)
  BY <1>1, <1>7, <1>8, <1>9, ResetsKeepAnswers
<1> QED
  BY <1>7, <1>10, CalmerAgain

\* The head of a channel's queue moves to R2A.
Sent(p, e, id, q, pkt, r) ==
  /\ DOMAIN e = DaemonFields /\ e.exited = p.exited /\ e.r2a = r
  /\ r = Append(p.r2a, pkt) /\ pkt = Head(q) /\ pkt.id = id
  /\ DOMAIN e.channels = DOMAIN p.channels
  /\ \A j \in DOMAIN p.channels : j # id => e.channels[j] = p.channels[j]
  /\ q = p.channels[id].packet_queue /\ q # <<>>
  /\ DOMAIN e.channels[id] = ChannelFields
  /\ e.channels[id].association = p.channels[id].association
  /\ e.channels[id].stream_id = p.channels[id].stream_id
  /\ e.channels[id].packet_queue = Tail(q)

LEMMA SentKeepsAnswers ==
  ASSUME NEW p, Shaped(p), Listed(p.r2a), NEW U, NEW T, AnswersOK(p, U, T),
         NEW id \in DOMAIN p.channels, NEW e, NEW q, NEW pkt, NEW r,
         Sent(p, e, id, q, pkt, r)
  PROVE  AnswersOK(e, U, T) /\ Shaped(e) /\ KnownBy(e) \subseteq KnownBy(p)
<1> DEFINE rest == Tail(q)
           old == p.r2a
<1>1. Listed(q) /\ q # <<>> /\ pkt = Head(q)
  BY DEF Sent, Shaped
<1>2. /\ Listed(rest)
      /\ NoAnswer(q) => NoAnswer(rest) /\ ~IsAnswer(pkt)
      /\ OneAnswer(q) => OneAnswer(rest)
      /\ OneAnswer(q) /\ IsAnswer(pkt) => NoAnswer(rest)
  <2>1. rest = Tail(q)
    OBVIOUS
  <2> HIDE DEF rest
  <2> QED
    BY <1>1, <2>1, TailAnswers
<1> HIDE DEF rest, old
<1>3. /\ \A i \in 1 .. Len(r) : i = Len(r) \/ (i \in 1 .. Len(old) /\ r[i] = old[i])
      /\ r[Len(r)] = pkt /\ Len(r) \in 1 .. Len(r)
  <2>1. Listed(old) /\ r = Append(old, pkt)
    BY DEF Sent, old
  <2> QED
    BY <2>1, AppendAnswers
<1>4. \A i \in 1 .. Len(old) : i \in 1 .. Len(r) /\ r[i] = old[i]
  <2>1. PICK S : old \in Seq(S)
    BY DEF Listed, old
  <2> DEFINE R == S \cup {pkt}
  <2>2. old \in Seq(R) /\ pkt \in R
    BY <2>1, SeqFacts, SeqDef
  <2> HIDE DEF R
  <2>3. /\ Len(r) = Len(old) + 1 /\ Len(old) \in Nat
        /\ \A i \in 1 .. Len(old) : r[i] = old[i]
    <3>1. r = Append(old, pkt)
      BY DEF Sent, old
    <3> QED
      BY <2>2, <3>1, AppendFacts, SeqFacts
  <2> QED
    BY <2>3
<1>5. e.r2a = r /\ p.r2a = old /\ pkt.id = id /\ e.exited = p.exited
  BY DEF Sent, old
<1>6. /\ OneAnswer(q)
      /\ ~NoAnswer(q) => ~InRing(p, id) /\ id \in T
      /\ p.channels[id].association # NoClient
           /\ <<p.channels[id].association, p.channels[id].stream_id>> \in U =>
           NoAnswer(q) /\ ~InRing(p, id) /\ id \in T
  BY DEF AnswersOK, ChannelAnswers, Sent
<1>7. IsAnswer(pkt) => ~NoAnswer(q)
  BY <1>2
<1>8. \A j : InRing(e, j) <=> InRing(p, j) \/ (j = id /\ IsAnswer(pkt))
  BY <1>3, <1>4, <1>5 DEF InRing
<1>9. RingAnswers(e, T)
  <2>1. \A j : InRing(e, j) => j \in T
    BY <1>6, <1>7, <1>8 DEF AnswersOK, RingAnswers
  <2>2. ASSUME NEW i \in 1 .. Len(r), NEW j \in 1 .. Len(r), IsAnswer(r[i]),
               IsAnswer(r[j]), r[i].id = r[j].id
        PROVE  i = j
    <3>1. CASE i \in 1 .. Len(old) /\ j \in 1 .. Len(old)
      BY <1>4, <1>5, <2>2, <3>1 DEF AnswersOK, RingAnswers
    <3>2. CASE i = Len(r) /\ j \in 1 .. Len(old)
      <4>1. IsAnswer(pkt) /\ IsAnswer(old[j]) /\ old[j].id = id
        BY <1>3, <1>4, <1>5, <2>2, <3>2
      <4>2. InRing(p, id)
        BY <1>5, <3>2, <4>1 DEF InRing
      <4> QED
        BY <1>6, <1>7, <4>1, <4>2
    <3>3. CASE j = Len(r) /\ i \in 1 .. Len(old)
      <4>1. IsAnswer(pkt) /\ IsAnswer(old[i]) /\ old[i].id = id
        BY <1>3, <1>4, <1>5, <2>2, <3>3
      <4>2. InRing(p, id)
        BY <1>5, <3>3, <4>1 DEF InRing
      <4> QED
        BY <1>6, <1>7, <4>1, <4>2
    <3> QED
      BY <1>3, <3>1, <3>2, <3>3
  <2> QED
    BY <1>5, <2>1, <2>2 DEF RingAnswers
<1>10. ASSUME NEW j \in DOMAIN e.channels PROVE ChannelAnswers(e, j, U, T)
  <2>1. CASE j # id
    <3>1. ChannelAnswers(p, j, U, T) /\ e.channels[j] = p.channels[j]
      BY <2>1 DEF AnswersOK, Sent
    <3> QED
      BY <1>8, <2>1, <3>1 DEF ChannelAnswers
  <2>2. CASE j = id
    <3>1. /\ e.channels[id].association = p.channels[id].association
          /\ e.channels[id].stream_id = p.channels[id].stream_id
          /\ e.channels[id].packet_queue = rest
      BY DEF Sent, rest
    <3> QED
      BY <1>2, <1>6, <1>7, <1>8, <2>2, <3>1 DEF ChannelAnswers
  <2> QED
    BY <2>1, <2>2
<1>11. AnswersOK(e, U, T)
  BY <1>5, <1>9, <1>10 DEF AnswersOK
<1>12. Shaped(e)
  BY <1>2 DEF Shaped, Sent, rest
<1>13. KnownBy(e) \subseteq KnownBy(p)
  <2>1. DOMAIN r = 1 .. Len(r) /\ DOMAIN old = 1 .. Len(old)
    <3>1. PICK S : old \in Seq(S)
      BY DEF Listed, old
    <3> DEFINE R == S \cup {pkt}
    <3>2. old \in Seq(R) /\ pkt \in R
      BY <3>1, SeqFacts, SeqDef
    <3> HIDE DEF R
    <3>3. r \in Seq(R)
      <4>1. r = Append(old, pkt)
        BY DEF Sent, old
      <4> QED
        BY <3>2, <4>1, AppendFacts
    <3> QED
      BY <3>2, <3>3, LenProperties
  <2>2. \A x \in IdsIn(r) : x \in IdsIn(old) \/ x = id
    BY <1>3, <1>5, <2>1 DEF IdsIn
  <2>3. DOMAIN e.channels = DOMAIN p.channels
    BY DEF Sent
  <2> QED
    BY <1>5, <2>2, <2>3 DEF KnownBy
<1> QED
  BY <1>11, <1>12, <1>13

LEMMA FlushOneAnswers ==
  ASSUME NEW p, NEW V, NEW X, DaemonInv(p, V, X), NEW U, NEW T, AnswersOK(p, U, T),
         NEW e, e = FlushOne(p)
  PROVE  AnswersOK(e, U, T) /\ KnownBy(e) \subseteq KnownBy(p)
<1> DEFINE id == Head(p.send_queue)
           q == p.channels[id].packet_queue
           pkt == Head(q)
           rest == Tail(q)
           left == RingSize - 1 - (Bytes(p.r2a) + p.r2a_freed)
           b == [p EXCEPT !.r2a = Append(@, pkt), !.channels[id].packet_queue = rest,
                          !.send_queue = Tail(@)]
           c == [b EXCEPT !.send_queue = Append(@, id)]
           d == RemoveChannelIfDone(b, id)
<1>1. CASE p.send_queue = <<>>
  BY <1>1 DEF FlushOne
<1>2. CASE p.send_queue # <<>>
  <2>1. e \in {p, c, d}
    BY <1>2 DEF FlushOne
  <2>2. /\ DOMAIN p = DaemonFields /\ p.send_queue \in Seq(V)
        /\ \A j : Among(p.send_queue, j) => j \in DOMAIN p.channels
        /\ TablesOK(p, V) /\ Once(p.send_queue)
    BY DaemonFacts
  <2>3. Among(p.send_queue, id)
    BY <1>2, <2>2, TailFacts
  <2>4. /\ id \in DOMAIN p.channels /\ ChannelOK(p, id, X)
        /\ DOMAIN p.channels[id] = ChannelFields
    BY <2>2, <2>3, DaemonFacts
  <2>5. Packets(q, {id}) /\ q # <<>>
    BY <2>3, <2>4 DEF ChannelOK
  <2>6. pkt.id = id
    <3>1. pkt.id \in {id}
      <4> HIDE DEF id, q
      <4>1. id \in {id}
        OBVIOUS
      <4>2. pkt = q[1] /\ 1 \in 1 .. Len(q)
        <5>1. Listed(q)
          BY <2>5 DEF Packets, Listed
        <5> QED
          BY <2>5, <5>1, TailAnswers
      <4> QED
        BY <2>5, <4>2 DEF Packets
    <3> QED
      BY <3>1
  <2>7. Shaped(p) /\ Listed(p.r2a)
    BY <2>2, InvShaped DEF TablesOK, Packets, Listed
  <2> HIDE DEF id, q, pkt
  <2> DEFINE r == Append(p.r2a, pkt)
             ch == [p.channels[id] EXCEPT !.packet_queue = rest]
  <2>8. /\ DOMAIN b = DaemonFields /\ b.exited = p.exited /\ b.r2a = r
        /\ DOMAIN b.channels = DOMAIN p.channels /\ b.channels[id] = ch
        /\ \A j \in DOMAIN p.channels : j # id => b.channels[j] = p.channels[j]
    BY <2>2, <2>4 DEF DaemonFields
  <2>9. /\ DOMAIN ch = ChannelFields /\ ch.packet_queue = rest
        /\ ch.association = p.channels[id].association
        /\ ch.stream_id = p.channels[id].stream_id
    BY <2>4 DEF ChannelFields
  <2> HIDE DEF b, ch, r
  <2>10. Sent(p, b, id, q, pkt, r)
    BY <2>5, <2>6, <2>8, <2>9 DEF Sent, pkt, q, r
  <2>11. AnswersOK(b, U, T) /\ Shaped(b) /\ KnownBy(b) \subseteq KnownBy(p)
    BY <2>4, <2>7, <2>10, SentKeepsAnswers
  <2>12. Calmer(b, c)
    <3>1. /\ DOMAIN c = DaemonFields /\ c.r2a = b.r2a /\ c.exited = b.exited
          /\ c.channels = b.channels
      BY <2>8 DEF DaemonFields
    <3> HIDE DEF c
    <3> QED
      BY <2>11, <3>1, OneCalm
  <2>13. Calmer(b, d)
    BY <2>11, RemoveDoneCalm
  <2> HIDE DEF c, d
  <2>14. U \in SUBSET U
    OBVIOUS
  <2>15. /\ AnswersOK(c, U, T) /\ KnownBy(c) \subseteq KnownBy(b)
         /\ AnswersOK(d, U, T) /\ KnownBy(d) \subseteq KnownBy(b)
    BY <2>11, <2>12, <2>13, <2>14, CalmerKeeps
  <2> QED
    BY <2>1, <2>11, <2>15
<1> QED
  BY <1>1, <1>2

LEMMA FlushAnswers ==
  ASSUME NEW p, NEW V, NEW X, DaemonInv(p, V, X), NEW U, NEW T, AnswersOK(p, U, T),
         NEW e, e = Flush(p)
  PROVE  AnswersOK(e, U, T) /\ KnownBy(e) \subseteq KnownBy(p)
<1>1. PICK f : \E n \in Nat : Rounds("flush", p, NoClient, <<>>, n, f) /\ e = f[n]
  BY FlushLoop
<1>2. PICK n \in Nat : Rounds("flush", p, NoClient, <<>>, n, f) /\ e = f[n]
  BY <1>1
<1>3. f[0] = p /\ \A i \in 1 .. n : f[i] = FlushOne(f[i - 1])
  BY <1>2 DEF Rounds, Body
<1> DEFINE S == {m \in Nat : m <= n =>
                   /\ DaemonInv(f[m], V, X) /\ AnswersOK(f[m], U, T)
                   /\ KnownBy(f[m]) \subseteq KnownBy(p)}
<1>4. 0 \in S
  BY <1>3
<1>5. ASSUME NEW m \in Nat, m \in S PROVE m + 1 \in S
  <2> SUFFICES ASSUME m + 1 <= n
               PROVE  /\ DaemonInv(f[m + 1], V, X) /\ AnswersOK(f[m + 1], U, T)
                      /\ KnownBy(f[m + 1]) \subseteq KnownBy(p)
    OBVIOUS
  <2> DEFINE q == f[m]
             r == f[m + 1]
  <2>1. m + 1 \in 1 .. n /\ m + 1 - 1 = m /\ m <= n
    OBVIOUS
  <2>2. /\ DaemonInv(q, V, X) /\ AnswersOK(q, U, T) /\ r = FlushOne(q)
        /\ KnownBy(q) \subseteq KnownBy(p)
    BY <1>3, <1>5, <2>1
  <2> HIDE DEF q, r
  <2>3. DaemonInv(r, V, X) /\ AnswersOK(r, U, T) /\ KnownBy(r) \subseteq KnownBy(q)
    BY <2>2, FlushOneKeeps, FlushOneAnswers
  <2> QED
    BY <2>2, <2>3 DEF r
<1> HIDE DEF S
<1>6. n \in S
  BY <1>4, <1>5, SetInduction
<1> QED
  BY <1>2, <1>6 DEF S

-----------------------------------------------------------------------------
(* Whole events of the daemon.                                             *)

LEMMA AnswersLess ==
  ASSUME NEW p, NEW U, NEW T, AnswersOK(p, U, T), NEW e, e.channels = p.channels,
         e.r2a = p.r2a, e.exited = p.exited, NEW W \in SUBSET U, NEW R, T \subseteq R
  PROVE  AnswersOK(e, W, R) /\ KnownBy(e) = KnownBy(p)
<1>1. RingAnswers(e, R) /\ \A id : InRing(e, id) <=> InRing(p, id)
  BY DEF AnswersOK, RingAnswers, InRing
<1>2. ASSUME NEW id \in DOMAIN e.channels PROVE ChannelAnswers(e, id, W, R)
  <2>1. ChannelAnswers(p, id, U, T)
    BY DEF AnswersOK
  <2> QED
    BY <1>1, <2>1 DEF ChannelAnswers
<1> QED
  BY <1>1, <1>2 DEF AnswersOK, KnownBy

LEMMA RingKnown ==
  ASSUME NEW p, NEW V, NEW X, DaemonInv(p, V, X), NEW id, id \notin KnownBy(p)
  PROVE  id \notin DOMAIN p.channels /\ ~InRing(p, id)
<1>1. PICK S : p.r2a \in Seq(S)
  <2>1. Packets(p.r2a, V)
    BY DaemonFacts DEF TablesOK
  <2> QED
    BY <2>1 DEF Packets
<1>2. DOMAIN p.r2a = 1 .. Len(p.r2a)
  BY <1>1, LenProperties
<1> QED
  BY <1>2 DEF InRing, KnownBy, IdsIn

\* The answers of a client that are on their way to the daemon.
IsResponse(m) == m.type = "RESPONSE"
Distinct(q) ==
  \A i, j \in 1 .. Len(q) :
    IsResponse(q[i]) /\ IsResponse(q[j]) /\ q[i].sid = q[j].sid => i = j

LEMMA MessagesKeepAnswers ==
  ASSUME NEW p, NEW V, NEW X, DaemonInv(p, V, X), NEW c \in Clients,
         p.connections[c] \in Alive, NEW msgs, Messages(msgs), Distinct(msgs),
         NEW U, NEW T, AnswersOK(p, U, T),
         \A i \in 1 .. Len(msgs) :
           IsResponse(msgs[i]) /\ msgs[i].sid \in Nat => <<c, msgs[i].sid>> \in U,
         NEW W \in SUBSET U,
         \A i \in 1 .. Len(msgs) : IsResponse(msgs[i]) => <<c, msgs[i].sid>> \notin W,
         NEW e, e = HandleReceivedMessages(p, c, msgs)
  PROVE  AnswersOK(e, W, T) /\ KnownBy(e) \subseteq KnownBy(p)
<1> DEFINE n == Len(msgs)
           Y(m) == {u \in U : \A i \in 1 .. m :
                                IsResponse(msgs[i]) => u # <<c, msgs[i].sid>>}
<1>1. n \in Nat /\ \A i \in 1 .. n : MessageOK(msgs[i])
  BY LenProperties DEF Messages
<1>2. PICK f : Rounds("messages", p, c, msgs, n, f) /\ e = f[n]
  BY <1>1, MessagesLoop
<1>3. f[0] = p /\ \A i \in 1 .. n : f[i] = HandleReceivedMessage(f[i - 1], c, msgs[i])
  BY <1>2 DEF Rounds, Body
<1>4. /\ \A i, j \in 1 .. n :
           IsResponse(msgs[i]) /\ IsResponse(msgs[j]) /\ msgs[i].sid = msgs[j].sid => i = j
      /\ \A i \in 1 .. n :
           IsResponse(msgs[i]) /\ msgs[i].sid \in Nat => <<c, msgs[i].sid>> \in U
      /\ \A i \in 1 .. n : IsResponse(msgs[i]) => <<c, msgs[i].sid>> \notin W
  BY DEF Distinct
<1> HIDE DEF n
<1> DEFINE S == {m \in Nat : m <= n =>
                   /\ DaemonInv(f[m], V, X) /\ f[m].connections = p.connections
                   /\ AnswersOK(f[m], Y(m), T)
                   /\ KnownBy(f[m]) \subseteq KnownBy(p)}
<1>5. 0 \in S
  <2>1. Y(0) = U
    OBVIOUS
  <2> QED
    BY <1>3, <2>1
<1>6. ASSUME NEW m \in Nat, m \in S PROVE m + 1 \in S
  <2> SUFFICES ASSUME m + 1 <= n
               PROVE  /\ DaemonInv(f[m + 1], V, X)
                      /\ f[m + 1].connections = p.connections
                      /\ AnswersOK(f[m + 1], Y(m + 1), T)
                      /\ KnownBy(f[m + 1]) \subseteq KnownBy(p)
    OBVIOUS
  <2> DEFINE q == f[m]
             r == f[m + 1]
             x == msgs[m + 1]
             A == Y(m)
             B == Y(m + 1)
  <2>1. m + 1 \in 1 .. n /\ m + 1 - 1 = m /\ m <= n
    BY <1>1
  <2>2. /\ DaemonInv(q, V, X) /\ q.connections = p.connections
        /\ AnswersOK(q, A, T) /\ KnownBy(q) \subseteq KnownBy(p)
    BY <1>6, <2>1
  <2>3. r = HandleReceivedMessage(q, c, x) /\ MessageOK(x)
    BY <1>1, <1>3, <2>1
  <2>4. B \in SUBSET A
    <3>1. \A i \in 1 .. m : i \in 1 .. m + 1
      OBVIOUS
    <3> QED
      BY <3>1
  <2>5. x.type = "RESPONSE" => /\ x.sid \in Nat => <<c, x.sid>> \in A
                               /\ <<c, x.sid>> \notin B
    <3> SUFFICES ASSUME IsResponse(x)
                 PROVE  /\ x.sid \in Nat => <<c, x.sid>> \in A
                        /\ <<c, x.sid>> \notin B
      BY DEF IsResponse
    <3>1. m + 1 \in 1 .. m + 1
      OBVIOUS
    <3>2. <<c, x.sid>> \notin B
      BY <3>1
    <3>3. ASSUME NEW i \in 1 .. m, IsResponse(msgs[i])
          PROVE  <<c, x.sid>> # <<c, msgs[i].sid>>
      <4>1. i \in 1 .. n /\ i # m + 1
        BY <1>1, <2>1
      <4>2. msgs[i].sid # x.sid
        BY <1>4, <2>1, <3>3, <4>1
      <4> QED
        BY <4>2
    <3>4. x.sid \in Nat => <<c, x.sid>> \in U
      BY <1>4, <2>1
    <3> QED
      BY <3>2, <3>3, <3>4
  <2> HIDE DEF q, r, x, A, B, Y
  <2>6. DaemonInv(r, V, X) /\ r.connections = p.connections
    <3>1. q.connections[c] \in Alive
      BY <2>2
    <3>2. DaemonInv(r, V, X) /\ r.connections = q.connections
      BY ONLY <2>2, <2>3, <3>1, c \in Clients, MessageKeeps
    <3> QED
      BY <2>2, <3>2
  <2>7. AnswersOK(r, B, T) /\ KnownBy(r) \subseteq KnownBy(q)
    BY <2>2, <2>3, <2>4, <2>5, MessageKeepsAnswers
  <2> QED
    BY <2>2, <2>6, <2>7 DEF r, B
<1> HIDE DEF S
<1>7. n \in S
  BY <1>1, <1>5, <1>6, SetInduction
<1>8. AnswersOK(e, Y(n), T) /\ KnownBy(e) \subseteq KnownBy(p)
  BY <1>1, <1>2, <1>7 DEF S, n
<1>9. W \in SUBSET Y(n)
  BY <1>4
<1> HIDE DEF Y
<1>10. AnswersOK(e, W, T)
  BY <1>8, <1>9, AnswersLess
<1> QED
  BY <1>8, <1>10

\* The CONNECTs among the packets of the Amiga are the first of their streams.
NewStreams(q, W, T) ==
  /\ \A i \in 1 .. Len(q) : q[i].type = "CONNECT" => q[i].id \notin W /\ q[i].id \in T
  /\ \A i, j \in 1 .. Len(q) :
       q[i].type = "CONNECT" /\ q[j].type = "CONNECT" /\ q[i].id = q[j].id => i = j

LEMMA PktsKeepAnswers ==
  ASSUME NEW p, NEW V, NEW X, DaemonInv(p, V, X), NEW pkts, Len(pkts) \in Nat,
         \A i \in 1 .. Len(pkts) : FromAmiga(pkts[i], V),
         NEW U, NEW T, AnswersOK(p, U, T), NEW K, K = KnownBy(p),
         NewStreams(pkts, K, T), NEW e, e = HandleReceivedPkts(p, pkts)
  PROVE  AnswersOK(e, U, T)
<1> DEFINE n == Len(pkts)
           New(m, id) == \E i \in 1 .. m : pkts[i].type = "CONNECT" /\ pkts[i].id = id
<1>1. PICK f : Rounds("packets", p, NoClient, pkts, n, f) /\ e = f[n]
  BY PacketsLoop
<1>2. f[0] = p /\ \A i \in 1 .. n : f[i] = HandleReceivedPkt(f[i - 1], pkts[i])
  BY <1>1 DEF Rounds, Body
<1>3. /\ \A i \in 1 .. n : pkts[i].type = "CONNECT" => pkts[i].id \notin K /\ pkts[i].id \in T
      /\ \A i, j \in 1 .. n :
           pkts[i].type = "CONNECT" /\ pkts[j].type = "CONNECT" /\ pkts[i].id = pkts[j].id
             => i = j
  BY DEF NewStreams
<1> DEFINE S == {m \in Nat : m <= n =>
                   /\ DaemonInv(f[m], V, X) /\ AnswersOK(f[m], U, T)
                   /\ \A id \in KnownBy(f[m]) : id \in K \/ New(m, id)}
<1>4. 0 \in S
  BY <1>2
<1>5. ASSUME NEW m \in Nat, m \in S PROVE m + 1 \in S
  <2> SUFFICES ASSUME m + 1 <= n
               PROVE  /\ DaemonInv(f[m + 1], V, X) /\ AnswersOK(f[m + 1], U, T)
                      /\ \A id \in KnownBy(f[m + 1]) : id \in K \/ New(m + 1, id)
    OBVIOUS
  <2> DEFINE q == f[m]
             r == f[m + 1]
             x == pkts[m + 1]
  <2>1. m + 1 \in 1 .. n /\ m + 1 - 1 = m /\ m <= n
    OBVIOUS
  <2>2. /\ DaemonInv(q, V, X) /\ AnswersOK(q, U, T)
        /\ \A id \in KnownBy(q) : id \in K \/ New(m, id)
    BY <1>5, <2>1
  <2>3. r = HandleReceivedPkt(q, x) /\ FromAmiga(x, V)
    BY <1>2, <2>1
  <2>4. x.type = "CONNECT" => x.id \in T /\ x.id \notin KnownBy(q)
    <3> SUFFICES ASSUME x.type = "CONNECT" PROVE x.id \in T /\ x.id \notin KnownBy(q)
      OBVIOUS
    <3>1. x.id \in T /\ x.id \notin K
      BY <1>3, <2>1
    <3>2. ~New(m, x.id)
      <4>1. ASSUME NEW i \in 1 .. m, pkts[i].type = "CONNECT", pkts[i].id = x.id
            PROVE  FALSE
        <5>1. i \in 1 .. n /\ i # m + 1
          BY <2>1
        <5> QED
          BY <1>3, <2>1, <4>1, <5>1
      <4> QED
        BY <4>1
    <3> QED
      BY <2>2, <3>1, <3>2
  <2>5. ASSUME NEW id, New(m, id) \/ (x.type = "CONNECT" /\ id = x.id)
        PROVE  New(m + 1, id)
    <3>1. m + 1 \in 1 .. m + 1 /\ \A i \in 1 .. m : i \in 1 .. m + 1
      OBVIOUS
    <3> QED
      BY <2>5, <3>1
  <2> HIDE DEF q, r, x, New
  <2>6. DaemonInv(r, V, X)
    BY <2>2, <2>3, PktKeeps
  <2>7. Shaped(q) /\ x.type \in {"CONNECT", "DATA", "EOS", "RESET"}
    BY <2>2, <2>3, InvShaped DEF FromAmiga
  <2>8. x.type = "CONNECT" =>
          x.id \in T /\ x.id \notin DOMAIN q.channels /\ ~InRing(q, x.id)
    BY <2>2, <2>4, RingKnown
  <2>9. /\ AnswersOK(r, U, T)
        /\ \A id \in KnownBy(r) :
             id \in KnownBy(q) \/ (x.type = "CONNECT" /\ id = x.id)
    BY <2>2, <2>3, <2>7, <2>8, PktKeepsAnswers
  <2>10. \A id \in KnownBy(r) : id \in K \/ New(m + 1, id)
    BY <2>2, <2>5, <2>9
  <2> QED
    BY <2>6, <2>9, <2>10 DEF r
<1> HIDE DEF S
<1>6. n \in S
  BY <1>4, <1>5, SetInduction
<1> QED
  BY <1>1, <1>6 DEF S
-----------------------------------------------------------------------------
(* A stream is asked for once and answered once.                           *)

AnswerSent(q, sid) == \E i \in 1 .. Len(q) : IsResponse(q[i]) /\ q[i].sid = sid

\* The streams whose client may still answer, or whose answer is under way.
Unanswered ==
  {u \in Clients \X Nat :
     u[2] \notin answered[u[1]] \/ AnswerSent(from_client[u[1]], u[2])}

WaitingIds == {id \in 1 .. StreamIds : Waits(Driver, id)}

ResponsesOK ==
  /\ DOMAIN answered = Clients
  /\ \A c \in Clients :
       /\ Distinct(from_client[c])
       /\ \A i \in 1 .. Len(from_client[c]) :
            IsResponse(from_client[c][i]) => from_client[c][i].sid \in answered[c]

\* At most one answer is still to come for a stream, and a socket waits for it:
\* the client has yet to give it, or it is in from_client, in the channel's
\* packet_queue or in R2A.  A CONNECT in A2R is of a stream the daemon has not seen.
TokenInv ==
  /\ ~serious_error /\ ResponsesOK
  /\ AnswersOK(Daemon("EPIPE"), Unanswered, WaitingIds)
  /\ NewStreams(a2r, KnownIds, WaitingIds)

LEMMA WaitingStays ==
  ASSUME sockets' = sockets
  PROVE  WaitingIds' = WaitingIds
BY DEF WaitingIds, Waits, Driver

LEMMA NewStreamsLess ==
  ASSUME NEW q, NEW W, NEW T, NewStreams(q, W, T), NEW X \in SUBSET W,
         NEW R, T \subseteq R
  PROVE  NewStreams(q, X, R)
BY DEF NewStreams

LEMMA NoNewStreams ==
  ASSUME NEW W, NEW T
  PROVE  NewStreams(<<>>, W, T)
<1>1. \A i \in 1 .. Len(<<>>) : FALSE
  BY NoneIn
<1> QED
  BY <1>1 DEF NewStreams

LEMMA TokenOfDaemon ==
  ASSUME TokenInv, NEW errno, NEW p, p = Daemon(errno), NEW W \in SUBSET Unanswered
  PROVE  AnswersOK(p, W, WaitingIds) /\ KnownBy(p) = KnownIds
<1> DEFINE d == Daemon("EPIPE")
           U == Unanswered
           T == WaitingIds
<1>1. /\ AnswersOK(d, U, T) /\ KnownIds = KnownBy(d)
      /\ p.channels = d.channels /\ p.r2a = d.r2a /\ p.exited = d.exited
  BY Known DEF TokenInv, Daemon
<1>2. W \in SUBSET U /\ T \subseteq T
  OBVIOUS
<1> HIDE DEF d, U, T
<1>3. AnswersOK(p, W, T) /\ KnownBy(p) = KnownBy(d)
  BY <1>1, <1>2, AnswersLess
<1> QED
  BY <1>1, <1>3 DEF T

\* An event of the daemon: what it publishes is p.
LEMMA TokenPublished ==
  ASSUME TokenInv, NEW p, NEW received, Publish(p, received),
         UNCHANGED driverVars, AnswersOK(p, Unanswered', WaitingIds), ResponsesOK',
         a2r' = <<>> \/ (a2r' = a2r /\ KnownBy(p) \subseteq KnownIds)
  PROVE  TokenInv'
<1> DEFINE e == Daemon("EPIPE")'
           U == Unanswered'
           T == WaitingIds
<1>1. e.channels = p.channels /\ e.r2a = p.r2a /\ e.exited = p.exited
  BY DEF Publish, BecomeDaemon, Daemon
<1>2. KnownIds' = KnownBy(e) /\ WaitingIds' = T /\ ~serious_error'
  BY Known, WaitingStays DEF driverVars, TokenInv
<1>3. U \in SUBSET U /\ T \subseteq T /\ AnswersOK(p, U, T)
  OBVIOUS
<1>4. NewStreams(a2r, KnownIds, T)
  BY DEF TokenInv
<1>5. TokenInv' <=> /\ ~serious_error' /\ ResponsesOK' /\ AnswersOK(e, U, WaitingIds')
                    /\ NewStreams(a2r', KnownIds', WaitingIds')
  BY DEF TokenInv
<1> HIDE DEF e, U, T
<1>6. AnswersOK(e, U, T) /\ KnownBy(e) = KnownBy(p)
  BY <1>1, <1>3, AnswersLess
<1>7. NewStreams(a2r', KnownIds', T)
  <2>1. CASE a2r' = <<>>
    BY <2>1, NoNewStreams
  <2>2. CASE a2r' = a2r /\ KnownBy(p) \subseteq KnownIds
    <3>1. KnownIds' \in SUBSET KnownIds /\ T \subseteq T
      BY <1>2, <1>6, <2>2
    <3>2. NewStreams(a2r, KnownIds', T)
      BY <1>4, <3>1, NewStreamsLess
    <3> QED
      BY <2>2, <3>2
  <2> QED
    BY <2>1, <2>2
<1> QED
  BY <1>2, <1>5, <1>6, <1>7

\* A step that touches neither channels nor rings.
LEMMA TokenStays ==
  ASSUME TokenInv, UNCHANGED <<channels, exited, r2a, a2r, serious_error>>,
         Unanswered' \subseteq Unanswered, WaitingIds \subseteq WaitingIds', ResponsesOK'
  PROVE  TokenInv'
<1> DEFINE d == Daemon("EPIPE")
           e == Daemon("EPIPE")'
           U == Unanswered
           W == Unanswered'
           T == WaitingIds
           R == WaitingIds'
<1>1. e.channels = d.channels /\ e.r2a = d.r2a /\ e.exited = d.exited
  BY DEF Daemon
<1>2. /\ KnownIds' = KnownIds /\ ~serious_error'
      /\ AnswersOK(d, U, T) /\ NewStreams(a2r, KnownIds, T)
  BY DEF KnownIds, TokenInv
<1>3. W \in SUBSET U /\ T \subseteq R
  OBVIOUS
<1>4. TokenInv' <=> /\ ~serious_error' /\ ResponsesOK' /\ AnswersOK(e, W, R)
                    /\ NewStreams(a2r', KnownIds', R)
  BY DEF TokenInv
<1> HIDE DEF d, e, U, W, T, R
<1>5. AnswersOK(e, W, R)
  BY <1>1, <1>2, <1>3, AnswersLess
<1>6. NewStreams(a2r', KnownIds', R)
  <2>1. KnownIds' \in SUBSET KnownIds
    BY <1>2
  <2> QED
    BY <1>2, <1>3, <2>1, NewStreamsLess
<1> QED
  BY <1>2, <1>4, <1>5, <1>6

LEMMA SameResponses ==
  ASSUME ResponsesOK, UNCHANGED <<from_client, answered>>
  PROVE  ResponsesOK' /\ Unanswered' = Unanswered
BY DEF ResponsesOK, Unanswered, Distinct, AnswerSent, IsResponse

\* The daemon has read everything that the client sent.
LEMMA ReadResponses ==
  ASSUME ResponsesOK, DOMAIN from_client = Clients, NEW c \in Clients,
         from_client' = [from_client EXCEPT ![c] = <<>>], answered' = answered
  PROVE  /\ ResponsesOK' /\ Unanswered' \subseteq Unanswered
         /\ \A sid : AnswerSent(from_client[c], sid) => <<c, sid>> \notin Unanswered'
         /\ \A sid \in Nat : AnswerSent(from_client[c], sid) => <<c, sid>> \in Unanswered
<1>1. \A i \in 1 .. Len(<<>>) : FALSE
  BY NoneIn
<1>2. \A x \in Clients : from_client'[x] = IF x = c THEN <<>> ELSE from_client[x]
  OBVIOUS
<1>3. Distinct(<<>>) /\ \A sid : ~AnswerSent(<<>>, sid)
  BY <1>1 DEF Distinct, AnswerSent
<1>4. ResponsesOK'
  <2>1. ASSUME NEW x \in Clients
        PROVE  /\ Distinct(from_client'[x])
               /\ \A i \in 1 .. Len(from_client'[x]) :
                    IsResponse(from_client'[x][i]) =>
                      from_client'[x][i].sid \in answered[x]
    <3>1. CASE x = c
      BY <1>1, <1>2, <1>3, <3>1
    <3>2. CASE x # c
      BY <1>2, <3>2 DEF ResponsesOK
    <3> QED
      BY <3>1, <3>2
  <2>2. DOMAIN answered' = Clients
    BY DEF ResponsesOK
  <2> QED
    BY <2>1, <2>2 DEF ResponsesOK, Distinct, IsResponse
<1>5. \A x \in Clients : \A sid : AnswerSent(from_client'[x], sid) =>
                                AnswerSent(from_client[x], sid) /\ x # c
  BY <1>2, <1>3
<1>6. Unanswered' = {u \in Clients \X Nat :
                       u[2] \notin answered[u[1]] \/ AnswerSent(from_client'[u[1]], u[2])}
  BY DEF Unanswered, AnswerSent, IsResponse
<1>7. Unanswered' \subseteq Unanswered
  BY <1>5, <1>6 DEF Unanswered
<1>8. \A sid : AnswerSent(from_client[c], sid) => sid \in answered[c]
  BY DEF ResponsesOK, AnswerSent
<1> QED
  BY <1>4, <1>5, <1>6, <1>7, <1>8 DEF Unanswered

LEMMA IrqKeepsToken ==
  ASSUME Sound, TokenInv, HandleA314Irq, UNCHANGED <<workload, driverVars>>
  PROVE  TokenInv'
<1> DEFINE V == KnownIds \cup IdsIn(a2r)
           started == Head(irq_fds) = "STARTED"
           p(n) == IF started THEN CloseAllLogicalChannels(Daemon(n)) ELSE Daemon(n)
           z(n) == [p(n) EXCEPT !.r2a_freed = 0]
           q(n) == HandleReceivedPkts(z(n), a2r)
           U == Unanswered'
           T == WaitingIds
<1>1. PICK n \in Errnos : IF device_started' THEN Publish(Flush(q(n)), a2r # <<>>)
                          ELSE Publish(p(n), FALSE)
  BY DEF HandleA314Irq
<1>2. /\ IsFiniteSet(V) /\ Len(a2r) \in Nat
      /\ \A i \in 1 .. Len(a2r) : FromAmiga(a2r[i], V)
  BY IdsInReach DEF Sound
<1>3. KnownIds \subseteq V
  OBVIOUS
<1>4. ResponsesOK' /\ U \in SUBSET Unanswered
  BY SameResponses DEF HandleA314Irq, TokenInv
<1>5. DaemonInv(Daemon(n), V, {})
  <2> HIDE DEF V
  <2> QED
    BY <1>3, AnyErrno DEF Sound
<1>6. AnswersOK(Daemon(n), U, T) /\ KnownBy(Daemon(n)) = KnownIds
  <2> HIDE DEF U
  <2> QED
    BY <1>4, TokenOfDaemon
<1> DEFINE f == Daemon(n)
           g == CloseAllLogicalChannels(f)
           a == p(n)
           b == z(n)
           c == q(n)
           d == Flush(c)
<1>7. /\ b = [a EXCEPT !.r2a_freed = 0] /\ c = HandleReceivedPkts(b, a2r)
      /\ g = CloseAllLogicalChannels(f) /\ (a = f \/ (a = g /\ device_started'))
      /\ d = Flush(c)
  BY DEF HandleA314Irq
<1>8. /\ IF device_started' THEN Publish(d, a2r # <<>>) ELSE Publish(a, FALSE)
      /\ a2r' = IF device_started' THEN <<>> ELSE a2r
  BY <1>1 DEF HandleA314Irq
<1>9. /\ DaemonInv(f, V, {}) /\ AnswersOK(f, U, T) /\ KnownBy(f) = KnownIds
      /\ NewStreams(a2r, KnownIds, T)
  BY <1>5, <1>6 DEF TokenInv
<1>10. U = Unanswered' /\ T = WaitingIds
  OBVIOUS
<1> HIDE DEF a, b, c, d, f, g, V, U, T
<1>11. AnswersOK(g, U, T) /\ KnownBy(g) \subseteq KnownIds /\ DaemonInv(g, V, {})
  BY <1>2, <1>7, <1>9, CloseAllAnswers, CloseAllKeeps
<1>12. DaemonInv(a, V, {}) /\ AnswersOK(a, U, T) /\ KnownBy(a) \subseteq KnownIds
  BY <1>7, <1>9, <1>11
<1>13. DOMAIN a = DaemonFields /\ a.exited \in Exits
  BY <1>12, DaemonFacts DEF TablesOK
<1>14. /\ DOMAIN b = DaemonFields
       /\ b.channels = a.channels /\ b.send_queue = a.send_queue
       /\ b.services = a.services /\ b.connections = a.connections
       /\ b.stream_ids = a.stream_ids /\ b.r2a = a.r2a /\ b.exited = a.exited
       /\ b.r2a_freed = 0
  BY <1>7, <1>13 DEF DaemonFields
<1>15. DaemonInv(b, V, {})
  BY <1>12, <1>13, <1>14, SameTables
<1>16. AnswersOK(b, U, T) /\ KnownBy(b) = KnownBy(a)
  <2>1. U \in SUBSET U /\ T \subseteq T
    OBVIOUS
  <2> QED
    BY <1>12, <1>14, <2>1, AnswersLess
<1>17. NewStreams(a2r, KnownBy(b), T)
  <2>1. KnownBy(b) \in SUBSET KnownIds /\ T \subseteq T
    BY <1>12, <1>16
  <2> QED
    BY <1>9, <2>1, NewStreamsLess
<1>18. DaemonInv(c, V, {}) /\ AnswersOK(c, U, T)
  <2>1. DaemonInv(c, V, {})
    BY <1>2, <1>7, <1>15, PktsKeep
  <2>2. AnswersOK(c, U, T)
    BY <1>2, <1>7, <1>15, <1>16, <1>17, PktsKeepAnswers
  <2> QED
    BY <2>1, <2>2
<1>19. AnswersOK(d, U, T)
  BY <1>7, <1>18, FlushAnswers
<1>20. CASE device_started'
  BY <1>4, <1>8, <1>10, <1>19, <1>20, TokenPublished
<1>21. CASE ~device_started'
  BY <1>4, <1>8, <1>10, <1>12, <1>21, TokenPublished
<1> QED
  BY <1>20, <1>21

LEMMA InputKeepsToken ==
  ASSUME Sound, TokenInv, NEW c \in Clients, HandleClientInput(c),
         UNCHANGED <<workload, driverVars>>
  PROVE  TokenInv'
<1> DEFINE V == KnownIds \cup IdsIn(a2r)
           msgs == from_client[c]
           p(n) == HandleReceivedMessages(Daemon(n), c, msgs)
           q(n) == IF connections[c] = "gone" /\ p(n).exited = "no"
                   THEN CloseAndRemoveConnection(p(n), c) ELSE p(n)
           U == Unanswered
           W == Unanswered'
           T == WaitingIds
<1>1. PICK n \in Errnos : Publish(Flush(q(n)), FALSE)
  BY DEF HandleClientInput
<1>2. IsFiniteSet(V) /\ KnownIds \subseteq V
  <2>1. IsFiniteSet(V)
    BY IdsInReach DEF Sound
  <2> QED
    BY <2>1
<1>3. connections[c] \in Alive /\ Messages(msgs) /\ a2r' = a2r
  BY DEF HandleClientInput, InputFrom, Alive, Sound, FromClients
<1>4. ResponsesOK /\ Distinct(msgs)
  BY DEF TokenInv, ResponsesOK
<1>5. /\ ResponsesOK' /\ W \in SUBSET U
      /\ \A sid : AnswerSent(msgs, sid) => <<c, sid>> \notin W
      /\ \A sid \in Nat : AnswerSent(msgs, sid) => <<c, sid>> \in U
  BY <1>4, ReadResponses DEF HandleClientInput, Sound, FromClients
<1>6. \A i \in 1 .. Len(msgs) : IsResponse(msgs[i]) => AnswerSent(msgs, msgs[i].sid)
  BY DEF AnswerSent
<1>7. AnswersOK(Daemon(n), U, T) /\ KnownBy(Daemon(n)) = KnownIds
  <2>1. U \in SUBSET Unanswered
    OBVIOUS
  <2> QED
    BY <2>1, TokenOfDaemon
<1> DEFINE d == Daemon(n)
           a == p(n)
           b == CloseAndRemoveConnection(a, c)
           e == q(n)
           f == Flush(e)
<1>8. /\ Publish(f, FALSE) /\ f = Flush(e)
      /\ a = HandleReceivedMessages(d, c, msgs) /\ (e = a \/ e = b)
      /\ d = Daemon(n) /\ b = CloseAndRemoveConnection(a, c)
      /\ W = Unanswered' /\ T = WaitingIds
      /\ AnswersOK(d, U, T) /\ KnownBy(d) = KnownIds
  BY <1>1, <1>7
<1> HIDE DEF V, msgs, p, q, d, a, b, e, f, U, W, T
<1>9. DaemonInv(d, V, {})
  BY <1>2, <1>8, AnyErrno DEF Sound
<1>10. d.connections[c] \in Alive
  BY <1>3, <1>8 DEF Daemon
<1>11. DaemonInv(a, V, {})
  BY <1>3, <1>8, <1>9, <1>10, MessagesKeep
<1>12. AnswersOK(a, W, T) /\ KnownBy(a) \subseteq KnownIds
  <2>1. \A i \in 1 .. Len(msgs) :
          IsResponse(msgs[i]) /\ msgs[i].sid \in Nat => <<c, msgs[i].sid>> \in U
    BY <1>5, <1>6
  <2>2. \A i \in 1 .. Len(msgs) : IsResponse(msgs[i]) => <<c, msgs[i].sid>> \notin W
    BY <1>5, <1>6
  <2> QED
    BY ONLY <1>3, <1>4, <1>5, <1>8, <1>9, <1>10, <2>1, <2>2, c \in Clients,
            MessagesKeepAnswers
<1>13. AnswersOK(b, W, T) /\ KnownBy(b) \subseteq KnownIds /\ DaemonInv(b, V, {})
  <2>1. Calmer(a, b)
    BY <1>2, <1>8, <1>11, CloseConnectionAnswers
  <2>2. W \in SUBSET W
    OBVIOUS
  <2>3. AnswersOK(b, W, T) /\ KnownBy(b) \subseteq KnownBy(a)
    BY <1>12, <2>1, <2>2, CalmerKeeps
  <2> QED
    BY <1>2, <1>8, <1>11, <1>12, <2>3, CloseConnectionKeeps
<1>14. DaemonInv(e, V, {}) /\ AnswersOK(e, W, T) /\ KnownBy(e) \subseteq KnownIds
  BY <1>8, <1>11, <1>12, <1>13
<1>15. AnswersOK(f, W, T) /\ KnownBy(f) \subseteq KnownBy(e)
  BY <1>8, <1>14, FlushAnswers
<1> QED
  BY <1>3, <1>5, <1>8, <1>14, <1>15, TokenPublished

LEMMA ErrorKeepsToken ==
  ASSUME Sound, TokenInv, NEW c \in Clients, HandleClientError(c),
         UNCHANGED <<workload, driverVars>>
  PROVE  TokenInv'
<1> DEFINE V == KnownIds \cup IdsIn(a2r)
           d == Daemon("EPIPE")
           b == CloseAndRemoveConnection(d, c)
           f == Flush(b)
           W == Unanswered'
           T == WaitingIds
<1>1. IsFiniteSet(V) /\ KnownIds \subseteq V
  <2>1. IsFiniteSet(V)
    BY IdsInReach DEF Sound
  <2> QED
    BY <2>1
<1>2. a2r' = a2r /\ ResponsesOK' /\ W \in SUBSET Unanswered
  BY ReadResponses DEF HandleClientError, Sound, FromClients, TokenInv
<1>3. /\ Publish(f, FALSE) /\ f = Flush(b) /\ b = CloseAndRemoveConnection(d, c)
      /\ d = Daemon("EPIPE") /\ W = Unanswered' /\ T = WaitingIds
  BY DEF HandleClientError
<1>4. AnswersOK(d, W, T) /\ KnownBy(d) = KnownIds
  <2> HIDE DEF W, d
  <2> QED
    BY <1>2, <1>3, TokenOfDaemon
<1> HIDE DEF V, d, b, f, W, T
<1>5. DaemonInv(d, V, {})
  BY <1>1, <1>3, AnyErrno DEF Sound
<1>6. DaemonInv(b, V, {}) /\ Calmer(d, b)
  BY <1>1, <1>3, <1>5, CloseConnectionKeeps, CloseConnectionAnswers
<1>7. AnswersOK(b, W, T) /\ KnownBy(b) \subseteq KnownIds
  <2>1. W \in SUBSET W
    OBVIOUS
  <2> QED
    BY <1>4, <1>6, <2>1, CalmerKeeps
<1>8. AnswersOK(f, W, T) /\ KnownBy(f) \subseteq KnownBy(b)
  BY <1>3, <1>6, <1>7, FlushAnswers
<1> QED
  BY <1>2, <1>3, <1>7, <1>8, TokenPublished

LEMMA OutputKeepsToken ==
  ASSUME Sound, TokenInv, NEW c \in Clients, HandleClientOutput(c),
         UNCHANGED <<workload, driverVars>>
  PROVE  TokenInv'
<1> DEFINE d == Daemon("EPIPE")
           room == workload.sock_cap - Len(to_client[c])
           q == message_queue[c]
           k == IF Len(q) < room THEN Len(q) ELSE room
           b == [d EXCEPT !.to_client[c] = @ \o SubSeq(q, 1, k),
                          !.message_queue[c] = SubSeq(q, k + 1, Len(q))]
           f == Flush(b)
           W == Unanswered'
           T == WaitingIds
<1>1. a2r' = a2r /\ ResponsesOK' /\ W \in SUBSET Unanswered
  BY SameResponses DEF HandleClientOutput, TokenInv
<1>2. /\ Publish(f, FALSE) /\ f = Flush(b) /\ d = Daemon("EPIPE")
      /\ W = Unanswered' /\ T = WaitingIds
  BY DEF HandleClientOutput
<1>3. AnswersOK(d, W, T) /\ KnownBy(d) = KnownIds
  <2> HIDE DEF W, d
  <2> QED
    BY <1>1, <1>2, TokenOfDaemon
<1>4. /\ DOMAIN b = DaemonFields
      /\ b.channels = d.channels /\ b.send_queue = d.send_queue
      /\ b.services = d.services /\ b.connections = d.connections
      /\ b.stream_ids = d.stream_ids /\ b.r2a = d.r2a /\ b.exited = d.exited
      /\ b.r2a_freed = d.r2a_freed
  BY DEF Daemon, DaemonFields
<1> HIDE DEF d, b, f, W, T
<1>5. DaemonInv(b, KnownIds, {})
  <2>1. DaemonInv(d, KnownIds, {})
    BY <1>2, AnyErrno DEF Sound
  <2>2. d.exited \in Exits
    BY <2>1, DaemonFacts DEF TablesOK
  <2> QED
    BY <1>4, <2>1, <2>2, SameTables
<1>6. AnswersOK(b, W, T) /\ KnownBy(b) = KnownBy(d)
  <2>1. W \in SUBSET W /\ T \subseteq T
    OBVIOUS
  <2> QED
    BY <1>3, <1>4, <2>1, AnswersLess
<1>7. AnswersOK(f, W, T) /\ KnownBy(f) \subseteq KnownBy(b)
  BY <1>2, <1>5, <1>6, FlushAnswers
<1> QED
  BY <1>1, <1>2, <1>3, <1>6, <1>7, TokenPublished

\* A client sends a message: if it is an answer, then the first for its stream.
LEMMA SpeakResponses ==
  ASSUME ResponsesOK, FromClients, NEW c \in Clients, NEW m,
         from_client' = [from_client EXCEPT ![c] = Append(@, m)],
         \/ ~IsResponse(m) /\ answered' = answered
         \/ /\ IsResponse(m) /\ m.sid \notin answered[c]
            /\ answered' = [answered EXCEPT ![c] = @ \cup {m.sid}]
  PROVE  ResponsesOK' /\ Unanswered' \subseteq Unanswered
<1> DEFINE q == from_client[c]
           r == Append(q, m)
           old == answered[c]
           new == answered'[c]
<1>1. /\ \A x \in Clients : from_client'[x] = IF x = c THEN r ELSE from_client[x]
      /\ \A x \in Clients : x # c => answered'[x] = answered[x]
      /\ DOMAIN answered' = Clients /\ old \subseteq new
      /\ IsResponse(m) => m.sid \notin old /\ new = old \cup {m.sid}
      /\ ~IsResponse(m) => new = old
  BY DEF FromClients, ResponsesOK
<1>2. Listed(q) /\ r = Append(q, m)
  BY DEF FromClients, Messages, Listed
<1>3. /\ Distinct(q)
      /\ \A i \in 1 .. Len(q) : IsResponse(q[i]) => q[i].sid \in old
  BY DEF ResponsesOK
<1>4. ResponsesOK' <=> /\ DOMAIN answered' = Clients
                       /\ \A x \in Clients :
                            /\ Distinct(from_client'[x])
                            /\ \A i \in 1 .. Len(from_client'[x]) :
                                 IsResponse(from_client'[x][i]) =>
                                   from_client'[x][i].sid \in answered'[x]
  BY DEF ResponsesOK, Distinct, IsResponse
<1>5. Unanswered' = {u \in Clients \X Nat : \/ u[2] \notin answered'[u[1]]
                                            \/ AnswerSent(from_client'[u[1]], u[2])}
  BY DEF Unanswered, AnswerSent, IsResponse
<1> HIDE DEF q, r, old, new
<1>6. /\ \A i \in 1 .. Len(r) : i = Len(r) \/ (i \in 1 .. Len(q) /\ r[i] = q[i])
      /\ r[Len(r)] = m
  BY <1>2, AppendAnswers
<1>7. \A i \in 1 .. Len(r) : IsResponse(r[i]) => r[i].sid \in new
  BY <1>1, <1>3, <1>6
<1>8. Distinct(r)
  <2>1. ASSUME NEW i \in 1 .. Len(r), NEW j \in 1 .. Len(r), IsResponse(r[i]),
               IsResponse(r[j]), r[i].sid = r[j].sid
        PROVE  i = j
    BY <1>1, <1>3, <1>6, <2>1 DEF Distinct
  <2> QED
    BY <2>1 DEF Distinct
<1>9. ResponsesOK'
  <2>1. ASSUME NEW x \in Clients
        PROVE  /\ Distinct(from_client'[x])
               /\ \A i \in 1 .. Len(from_client'[x]) :
                    IsResponse(from_client'[x][i]) =>
                      from_client'[x][i].sid \in answered'[x]
    <3>1. CASE x = c
      BY <1>1, <1>7, <1>8, <3>1 DEF new
    <3>2. CASE x # c
      BY <1>1, <3>2 DEF ResponsesOK
    <3> QED
      BY <3>1, <3>2
  <2> QED
    BY <1>1, <1>4, <2>1
<1>10. \A sid : AnswerSent(r, sid) => AnswerSent(q, sid) \/ sid \notin old
  BY <1>1, <1>6 DEF AnswerSent
<1>11. ASSUME NEW u \in Unanswered' PROVE u \in Unanswered
  <2> DEFINE x == u[1]
             sid == u[2]
  <2>1. u \in Clients \X Nat /\ x \in Clients
    BY <1>5
  <2>2. sid \notin answered'[x] \/ AnswerSent(from_client'[x], sid)
    BY <1>5
  <2> HIDE DEF x, sid
  <2>3. sid \notin answered[x] \/ AnswerSent(from_client[x], sid)
    <3>1. CASE x = c
      BY <1>1, <1>10, <2>2, <3>1 DEF q, old, new
    <3>2. CASE x # c
      BY <1>1, <2>1, <2>2, <3>2
    <3> QED
      BY <3>1, <3>2
  <2> QED
    BY <2>1, <2>3 DEF Unanswered, x, sid
<1> QED
  BY <1>9, <1>11

LEMMA ClientKeepsToken ==
  ASSUME Sound, TokenInv, NEW c \in Clients,
         Accept(c) \/ ClientTalks(c) \/ ClientReceives(c) \/ ClientCloses(c),
         UNCHANGED <<workload, driverVars>>
  PROVE  TokenInv'
<1>1. UNCHANGED <<channels, exited, r2a, a2r, serious_error, sockets>>
  <2>1. CASE Accept(c)
    BY <2>1 DEF Accept, linkVars, daemonRest, driverVars
  <2>2. ASSUME NEW m, ClientSends(c, m)
        PROVE  UNCHANGED <<channels, exited, r2a, a2r, serious_error, sockets>>
    BY <2>2 DEF ClientSends, linkVars, daemonRest, driverVars
  <2>3. CASE ClientTalks(c)
    BY <2>2, <2>3 DEF ClientTalks, ClientRegisters, ClientAnswers, ClientSpeaks
  <2>4. CASE ClientReceives(c)
    BY <2>4 DEF ClientReceives, daemonRest, driverVars
  <2>5. CASE ClientCloses(c)
    BY <2>5 DEF ClientCloses, linkVars, daemonRest, driverVars
  <2> QED
    BY <2>1, <2>3, <2>4, <2>5
<1>2. ResponsesOK /\ FromClients
  BY DEF TokenInv, Sound
<1>3. ResponsesOK' /\ Unanswered' \subseteq Unanswered
  <2>1. CASE Accept(c) \/ ClientReceives(c) \/ ClientCloses(c)
    BY <1>2, <2>1, SameResponses DEF Accept, ClientReceives, ClientCloses, clientVars
  <2>2. ASSUME NEW m, ClientSends(c, m),
               \/ ~IsResponse(m) /\ answered' = answered
               \/ /\ IsResponse(m) /\ m.sid \notin answered[c]
                  /\ answered' = [answered EXCEPT ![c] = @ \cup {m.sid}]
        PROVE  ResponsesOK' /\ Unanswered' \subseteq Unanswered
    BY <1>2, <2>2, SpeakResponses DEF ClientSends
  <2>3. CASE ClientRegisters(c)
    <3>1. PICK n \in Names, a \in {"REGISTER", "DEREGISTER"} :
            ClientSends(c, [type |-> a, val |-> n]) /\ answered' = answered
      BY <2>3 DEF ClientRegisters
    <3>2. ~IsResponse([type |-> a, val |-> n])
      BY DEF IsResponse
    <3> QED
      BY <2>2, <3>1, <3>2
  <2>4. ASSUME NEW sid, NEW result, ClientAnswers(c, sid, result)
        PROVE  ResponsesOK' /\ Unanswered' \subseteq Unanswered
    <3> DEFINE m == StreamMessage("RESPONSE", sid, 1, result, streams[c][sid])
    <3>1. IsResponse(m) /\ m.sid = sid
      BY DEF IsResponse, StreamMessage
    <3>2. /\ ClientSends(c, m) /\ sid \notin answered[c]
          /\ answered' = [answered EXCEPT ![c] = @ \cup {sid}]
      BY <2>4 DEF ClientAnswers
    <3> HIDE DEF m
    <3> QED
      BY <2>2, <3>1, <3>2
  <2>5. ASSUME NEW sid, NEW type \in {"DATA", "EOS", "RESET"}, NEW len,
               ClientSpeaks(c, sid, type, len)
        PROVE  ResponsesOK' /\ Unanswered' \subseteq Unanswered
    <3> DEFINE m == StreamMessage(type, sid, len, client_budget[type], streams[c][sid])
    <3>1. ~IsResponse(m)
      BY DEF IsResponse, StreamMessage
    <3>2. ClientSends(c, m) /\ answered' = answered
      BY <2>5 DEF ClientSpeaks
    <3> HIDE DEF m
    <3> QED
      BY <2>2, <3>1, <3>2
  <2>6. CASE ClientTalks(c)
    BY <2>3, <2>4, <2>5, <2>6 DEF ClientTalks
  <2> QED
    BY <2>1, <2>6
<1>4. WaitingIds' = WaitingIds
  BY <1>1, WaitingStays
<1> QED
  BY <1>1, <1>3, <1>4, TokenStays

LEMMA DaemonKeepsToken ==
  ASSUME Sound, TokenInv, DaemonStep \/ ClientStep, UNCHANGED <<workload, driverVars>>
  PROVE  TokenInv'
<1>1. CASE HandleA314Irq
  BY <1>1, IrqKeepsToken
<1>2. ASSUME NEW c \in Clients,
             HandleClientInput(c) \/ HandleClientError(c) \/ HandleClientOutput(c)
      PROVE  TokenInv'
  BY <1>2, InputKeepsToken, ErrorKeepsToken, OutputKeepsToken
<1>3. ASSUME NEW c \in Clients,
             Accept(c) \/ ClientTalks(c) \/ ClientReceives(c) \/ ClientCloses(c)
      PROVE  TokenInv'
  BY <1>3, ClientKeepsToken
<1>4. \/ HandleA314Irq
      \/ \E c \in Clients : HandleClientInput(c) \/ HandleClientError(c)
                            \/ HandleClientOutput(c)
      \/ \E c \in Clients : Accept(c) \/ ClientTalks(c) \/ ClientReceives(c)
                            \/ ClientCloses(c)
  BY DEF DaemonStep, ClientStep
<1> QED
  BY <1>1, <1>2, <1>3, <1>4

\* The task takes a packet of R2A: if it is an answer, its stream waits no more.
LEMMA TakenAnswers ==
  ASSUME NEW p, NEW U, NEW T, AnswersOK(p, U, T), Listed(p.r2a), p.r2a # <<>>,
         NEW x, x = Head(p.r2a), NEW e, e.channels = p.channels, e.exited = p.exited,
         e.r2a = Tail(p.r2a), NEW R, \A id \in T : id \in R \/ (IsAnswer(x) /\ id = x.id)
  PROVE  /\ AnswersOK(e, U, R) /\ KnownBy(e) \subseteq KnownBy(p)
         /\ IsAnswer(x) => x.id \in T
<1> DEFINE q == p.r2a
           r == Tail(q)
<1>1. /\ Listed(q) /\ q # <<>> /\ r = Tail(q) /\ x = Head(q) /\ e.r2a = r
      /\ \A id : InRing(p, id) <=> \E i \in 1 .. Len(q) : IsAnswer(q[i]) /\ q[i].id = id
      /\ \A id : InRing(e, id) <=> \E i \in 1 .. Len(r) : IsAnswer(r[i]) /\ r[i].id = id
  BY DEF InRing
<1>2. RingAnswers(p, T) <=>
        /\ \A i, j \in 1 .. Len(q) :
             IsAnswer(q[i]) /\ IsAnswer(q[j]) /\ q[i].id = q[j].id => i = j
        /\ \A id : InRing(p, id) => id \in T
  BY DEF RingAnswers
<1>3. RingAnswers(e, R) <=>
        /\ \A i, j \in 1 .. Len(r) :
             IsAnswer(r[i]) /\ IsAnswer(r[j]) /\ r[i].id = r[j].id => i = j
        /\ \A id : InRing(e, id) => id \in R
  BY DEF RingAnswers
<1>4. RingAnswers(p, T)
  BY DEF AnswersOK
<1>5. /\ KnownBy(e) = DOMAIN p.channels \cup IdsIn(r)
      /\ KnownBy(p) = DOMAIN p.channels \cup IdsIn(q)
  BY DEF KnownBy
<1> HIDE DEF q, r
<1>6. /\ \A i \in 1 .. Len(r) : r[i] = q[i + 1] /\ i + 1 \in 1 .. Len(q)
      /\ \A i, j \in 1 .. Len(r) : i + 1 = j + 1 => i = j
      /\ x = q[1] /\ 1 \in 1 .. Len(q) /\ Listed(r)
  BY ZenonT(60), <1>1, TailAnswers
<1>7. \A i \in 1 .. Len(r) : i + 1 # 1
  OBVIOUS
<1>8. \A id : InRing(e, id) => InRing(p, id)
  BY <1>1, <1>6
<1>9. IsAnswer(x) => InRing(p, x.id) /\ x.id \in T /\ ~InRing(e, x.id)
  <2>1. ASSUME IsAnswer(x) PROVE InRing(p, x.id) /\ x.id \in T
    BY <1>1, <1>2, <1>4, <1>6, <2>1
  <2>2. ASSUME IsAnswer(x), NEW i \in 1 .. Len(r), IsAnswer(r[i]), r[i].id = x.id
        PROVE  FALSE
    BY <1>2, <1>4, <1>6, <1>7, <2>2
  <2> QED
    BY <1>1, <2>1, <2>2
<1>10. RingAnswers(e, R)
  <2>1. ASSUME NEW i \in 1 .. Len(r), NEW j \in 1 .. Len(r), IsAnswer(r[i]),
               IsAnswer(r[j]), r[i].id = r[j].id
        PROVE  i = j
    BY <1>2, <1>4, <1>6, <2>1
  <2>2. \A id : InRing(e, id) => id \in R
    BY <1>2, <1>4, <1>8, <1>9
  <2> QED
    BY <1>3, <2>1, <2>2
<1>11. ASSUME NEW id \in DOMAIN p.channels PROVE ChannelAnswers(e, id, U, R)
  <2>1. ChannelAnswers(p, id, U, T)
    BY DEF AnswersOK
  <2>2. ~InRing(p, id) /\ id \in T => ~InRing(e, id) /\ id \in R
    BY <1>8, <1>9
  <2> QED
    BY <2>1, <2>2 DEF ChannelAnswers
<1>12. KnownBy(e) \subseteq KnownBy(p)
  <2>1. DOMAIN q = 1 .. Len(q) /\ DOMAIN r = 1 .. Len(r)
    BY <1>1, <1>6, LenProperties DEF Listed
  <2>2. IdsIn(r) \subseteq IdsIn(q)
    BY <1>6, <2>1 DEF IdsIn
  <2> QED
    BY <1>5, <2>2
<1> QED
  BY <1>9, <1>10, <1>11, <1>12 DEF AnswersOK

LEMMA NewStreamsAppend ==
  ASSUME NEW q, Listed(q), NEW W, NEW T, NewStreams(q, W, T), NEW p,
         p.type = "CONNECT" => p.id \notin W /\ p.id \in T /\ ~HasId(q, p.id),
         NEW r, r = Append(q, p)
  PROVE  NewStreams(r, W, T)
<1>1. /\ \A i \in 1 .. Len(r) : i = Len(r) \/ (i \in 1 .. Len(q) /\ r[i] = q[i])
      /\ r[Len(r)] = p
  BY AppendAnswers
<1>2. \A i \in 1 .. Len(q) : HasId(q, q[i].id)
  BY DEF HasId
<1>3. \A i \in 1 .. Len(r) : r[i].type = "CONNECT" => r[i].id \notin W /\ r[i].id \in T
  BY <1>1 DEF NewStreams
<1>4. ASSUME NEW i \in 1 .. Len(r), NEW j \in 1 .. Len(r),
             r[i].type = "CONNECT", r[j].type = "CONNECT", r[i].id = r[j].id
      PROVE  i = j
  BY <1>1, <1>2, <1>4 DEF NewStreams
<1> QED
  BY <1>3, <1>4 DEF NewStreams

\* Ids that the daemon knows need not wait.
LEMMA NewStreamsOf ==
  ASSUME NEW q, NEW W, NEW T, NewStreams(q, W, T), NEW X \in SUBSET W, NEW R,
         \A id \in T : id \in R \/ id \in W
  PROVE  NewStreams(q, X, R)
BY DEF NewStreams

LEMMA RingListed ==
  ASSUME NEW q, NEW n, RingOK(q, n)
  PROVE  Listed(q) /\ \A i \in 1 .. Len(q) : q[i].id \in 1 .. StreamIds
<1>1. q \in Seq(AmigaPacket) /\ \A i \in 1 .. Len(q) : q[i] \in AmigaPacket
  BY SeqFacts DEF RingOK
<1> QED
  BY <1>1 DEF Listed, AmigaPacket

\* A step of the task that takes nothing from R2A.
LEMMA TokenStepped ==
  ASSUME AmigaInv, TokenInv, AmigaInv', NEW e, Become(e),
         Says(Driver, e) \/ Asks(Driver, e, KnownIds), UNCHANGED <<daemonVars, r2a>>
  PROVE  TokenInv'
<1> DEFINE d == Daemon("EPIPE")
           f == Daemon("EPIPE")'
           U == Unanswered
           T == WaitingIds
           R == WaitingIds'
           K == KnownIds
<1>1. f.channels = d.channels /\ f.r2a = d.r2a /\ f.exited = d.exited /\ KnownIds' = K
  BY DEF Daemon, daemonVars, KnownIds
<1>2. ResponsesOK' /\ Unanswered' = U
  BY SameResponses DEF daemonVars, clientVars, TokenInv
<1>3. /\ a2r' = e.a2r /\ serious_error' = e.serious_error /\ sockets' = e.sockets
      /\ Driver.a2r = a2r /\ Driver.serious_error = serious_error
  BY DEF Become, Driver
<1>4. R = {id \in 1 .. StreamIds : Waits(e, id)}
  BY <1>3 DEF WaitingIds, Waits, Driver
<1>5. T \subseteq R
  <2>1. \A id : Waits(Driver, id) => Waits(e, id)
    BY WaitsOn
  <2> QED
    BY <1>4, <2>1 DEF WaitingIds
<1>6. ~serious_error'
  BY <1>3 DEF TokenInv, Says, Evolves, Asks
<1>7. AnswersOK(d, U, T) /\ NewStreams(a2r, K, T)
  BY DEF TokenInv
<1>8. TokenInv' <=> /\ ~serious_error' /\ ResponsesOK' /\ AnswersOK(f, Unanswered', R)
                    /\ NewStreams(a2r', KnownIds', R)
  BY DEF TokenInv
<1>9. \/ a2r' = a2r
      \/ \E p : p.type # "CONNECT" /\ a2r' = Append(a2r, p)
      \/ \E p : FirstPacket(Driver, e, p, K)
  BY <1>3 DEF Says, Asks
<1> HIDE DEF d, f, U, T, R, K
<1>10. AnswersOK(f, U, R)
  <2>1. U \in SUBSET U
    OBVIOUS
  <2> QED
    BY <1>1, <1>5, <1>7, <2>1, AnswersLess
<1>11. NewStreams(a2r, K, R)
  <2>1. K \in SUBSET K
    OBVIOUS
  <2> QED
    BY <1>5, <1>7, <2>1, NewStreamsLess
<1>12. Listed(a2r) /\ \E n : RingOK(a2r', n)
  <2>1. PICK n : RingOK(a2r, n)
    BY DEF AmigaInv
  <2>2. \E m : RingOK(a2r', m)
    BY DEF AmigaInv
  <2> QED
    BY <2>1, <2>2, RingListed
<1>13. NewStreams(a2r', K, R)
  <2>1. CASE a2r' = a2r
    BY <1>11, <2>1
  <2>2. CASE \E p : p.type # "CONNECT" /\ a2r' = Append(a2r, p)
    BY <1>11, <1>12, <2>2, NewStreamsAppend
  <2>3. CASE \E p : FirstPacket(Driver, e, p, K)
    <3>1. PICK p : FirstPacket(Driver, e, p, K)
      BY <2>3
    <3>2. /\ a2r' = Append(a2r, p) /\ p.id \notin K /\ ~HasId(a2r, p.id)
          /\ Waits(e, p.id)
      BY <1>3, <3>1 DEF FirstPacket
    <3>3. p.id \in 1 .. StreamIds
      <4> DEFINE r == a2r'
      <4>1. \A i \in 1 .. Len(r) : r[i].id \in 1 .. StreamIds
        BY <1>12, RingListed
      <4>2. r = Append(a2r, p)
        BY <3>2
      <4> HIDE DEF r
      <4>3. r[Len(r)] = p /\ Len(r) \in 1 .. Len(r)
        BY <1>12, <4>2, AppendAnswers
      <4> QED
        BY <4>1, <4>3
    <3>4. p.id \in R
      BY <1>4, <3>2, <3>3
    <3> QED
      BY <1>11, <1>12, <3>2, <3>4, NewStreamsAppend
  <2> QED
    BY <1>9, <2>1, <2>2, <2>3
<1> QED
  BY <1>1, <1>2, <1>6, <1>8, <1>10, <1>13

LEMMA TakeRequestKeepsToken ==
  ASSUME Sound, FreshIds, TokenInv, AmigaInv', TakeRequest,
         UNCHANGED <<workload, daemonVars>>
  PROVE  TokenInv'
<1> DEFINE r == Head(task_mp)
           e == HandleAppRequest(Driver, r)
<1>1. Become(e) /\ r2a' = r2a /\ e = HandleAppRequest(Driver, r)
  BY DEF TakeRequest
<1>2. PICK n : /\ DriverInv(Driver, Port, n, KnownIds) /\ r \in Port
               /\ Connects(Driver, Driver.ior[r]) => n \in 1 .. StreamIds /\ n \notin KnownIds
  BY NextRequest
<1> HIDE DEF r, e
<1>3. Says(Driver, e) \/ Asks(Driver, e, KnownIds)
  BY <1>1, <1>2, RequestSays
<1>4. UNCHANGED <<daemonVars, r2a>> /\ AmigaInv
  BY <1>1 DEF Sound
<1> QED
  BY <1>1, <1>3, <1>4, TokenStepped

LEMMA SendOneKeepsToken ==
  ASSUME Sound, TokenInv, AmigaInv', SendOneQueued, UNCHANGED <<workload, daemonVars>>
  PROVE  TokenInv'
<1> DEFINE e == SendQueued(Driver)
<1>1. /\ task_pc # "gone" /\ HeadFits(Driver) /\ Become(e) /\ r2a' = r2a
      /\ e = SendQueued(Driver)
  BY DEF SendOneQueued, R2aSeenEmpty, NoMoreRequests
<1>2. PICK n : DriverInv(Driver, Port, n, KnownIds)
  BY <1>1, DriverHas DEF Sound
<1> HIDE DEF e
<1>3. Says(Driver, e) \/ Asks(Driver, e, KnownIds)
  BY <1>1, <1>2, QueuedSays
<1>4. UNCHANGED <<daemonVars, r2a>> /\ AmigaInv
  BY <1>1 DEF Sound
<1> QED
  BY <1>1, <1>3, <1>4, TokenStepped

LEMMA TakePacketKeepsToken ==
  ASSUME Sound, TokenInv, TakePacket, UNCHANGED <<workload, daemonVars>>
  PROVE  TokenInv'
<1> DEFINE x == Head(r2a)
           e == HandleR2aPacket(Driver, x)
           d == Daemon("EPIPE")
           f == Daemon("EPIPE")'
           U == Unanswered
           T == WaitingIds
           R == WaitingIds'
           K == KnownIds
<1>1. /\ task_pc # "gone" /\ r2a # <<>> /\ r2a' = Tail(r2a)
      /\ Become(e) /\ e = HandleR2aPacket(Driver, x)
  BY DEF TakePacket, NoMoreRequests
<1>2. /\ f.channels = d.channels /\ f.exited = d.exited /\ d.r2a = r2a
      /\ f.r2a = Tail(d.r2a) /\ KnownIds' = KnownBy(f) /\ K = KnownBy(d)
  BY <1>1, Known DEF Daemon, daemonVars
<1>3. ResponsesOK' /\ Unanswered' = U
  BY SameResponses DEF daemonVars, clientVars, TokenInv
<1>4. /\ a2r' = e.a2r /\ serious_error' = e.serious_error /\ sockets' = e.sockets
      /\ Driver.a2r = a2r /\ Driver.serious_error = serious_error
  BY <1>1 DEF Become, Driver
<1>5. /\ T = {id \in 1 .. StreamIds : Waits(Driver, id)}
      /\ R = {id \in 1 .. StreamIds : Waits(e, id)}
  BY <1>4 DEF WaitingIds, Waits, Driver
<1>6. AnswersOK(d, U, T) /\ NewStreams(a2r, K, T) /\ ~serious_error
  BY DEF TokenInv
<1>7. TokenInv' <=> /\ ~serious_error' /\ ResponsesOK' /\ AnswersOK(f, Unanswered', R)
                    /\ NewStreams(a2r', KnownIds', R)
  BY DEF TokenInv
<1>8. Packets(r2a, K)
  BY DaemonFacts DEF TablesOK, Daemon, Sound, DaemonSide
<1>9. Listed(a2r)
  <2>1. PICK n : RingOK(a2r, n)
    BY DEF Sound, AmigaInv
  <2> QED
    BY <2>1, RingListed
<1>10. PICK n : DriverInv(Driver, Port, n, K)
  BY <1>1, DriverHas DEF Sound
<1> HIDE DEF d, e, f, x, U, T, R, K
<1>11. x.type \in R2aTypes /\ x.id \in K /\ Listed(r2a)
  <2>1. Head(r2a).type \in R2aTypes /\ Head(r2a).id \in K
    BY <1>1, <1>8, PacketsTail
  <2>2. Listed(r2a)
    BY <1>8 DEF Packets, Listed
  <2> QED
    BY <2>1, <2>2 DEF x
<1>12. Formed(Driver)
  BY <1>10, DriverFacts, SocketFacts DEF Formed
<1>13. IsAnswer(x) => x.id \in T
  <2>1. /\ \A id \in T : id \in T \/ (IsAnswer(x) /\ id = x.id)
        /\ Listed(d.r2a) /\ d.r2a # <<>> /\ x = Head(d.r2a)
    BY <1>1, <1>2, <1>11 DEF x
  <2> QED
    BY <1>2, <1>6, <2>1, TakenAnswers
<1>14. \/ Says(Driver, e)
       \/ IsAnswer(x) /\ AnswerTaken(Driver, e, x.id)
  <2>1. x.type = "CONNECT_RESPONSE" => Waits(Driver, x.id)
    BY <1>5, <1>13 DEF IsAnswer
  <2> QED
    BY <1>1, <1>11, <1>12, <2>1, PacketSays DEF IsAnswer
<1>15. \A id \in T : id \in R \/ (IsAnswer(x) /\ id = x.id)
  <2>1. ASSUME NEW id \in T, ~(IsAnswer(x) /\ id = x.id) PROVE id \in R
    <3>1. id \in 1 .. StreamIds /\ Waits(Driver, id)
      BY <1>5
    <3>2. Waits(e, id)
      BY <1>14, <2>1, <3>1, WaitsOn
    <3> QED
      BY <1>5, <3>1, <3>2
  <2> QED
    BY <2>1
<1>16. AnswersOK(f, U, R) /\ KnownBy(f) \subseteq K
  <2>1. Listed(d.r2a) /\ d.r2a # <<>> /\ x = Head(d.r2a)
    BY <1>1, <1>2, <1>11 DEF x
  <2>2. AnswersOK(f, U, R) /\ KnownBy(f) \subseteq KnownBy(d)
    BY <1>2, <1>6, <1>15, <2>1, TakenAnswers
  <2> QED
    BY <1>2, <2>2
<1>17. ~serious_error'
  BY <1>4, <1>6, <1>14 DEF Says, Evolves, AnswerTaken
<1>18. NewStreams(a2r', KnownIds', R)
  <2>1. KnownIds' \in SUBSET K /\ \A id \in T : id \in R \/ id \in K
    BY <1>2, <1>11, <1>15, <1>16
  <2>2. NewStreams(a2r, KnownIds', R)
    BY <1>6, <2>1, NewStreamsOf
  <2>3. a2r' = a2r \/ \E p : p.type # "CONNECT" /\ a2r' = Append(a2r, p)
    BY <1>4, <1>14 DEF Says, AnswerTaken
  <2> QED
    BY <1>9, <2>2, <2>3, NewStreamsAppend
<1> QED
  BY <1>3, <1>7, <1>16, <1>17, <1>18

\* TaskStart, Wake, WaitOrGoOn, Reboot and what applications do.
LEMMA RestKeepsToken ==
  ASSUME TokenInv, UNCHANGED <<daemonVars, r2a, a2r, serious_error>>,
         sockets' = sockets \/ sockets' = <<>>
  PROVE  TokenInv'
<1>1. ResponsesOK' /\ Unanswered' \subseteq Unanswered
  BY SameResponses DEF daemonVars, clientVars, TokenInv
<1>2. WaitingIds \subseteq WaitingIds'
  <2>1. CASE sockets' = sockets
    BY <2>1, WaitingStays
  <2>2. CASE sockets' = <<>>
    <3>1. DOMAIN sockets' = {}
      BY <2>2, NoneIn
    <3>2. WaitingIds' = 1 .. StreamIds
      BY <3>1 DEF WaitingIds, Waits, Driver
    <3> QED
      BY <3>2 DEF WaitingIds
  <2> QED
    BY <2>1, <2>2
<1>3. UNCHANGED <<channels, exited, r2a, a2r, serious_error>>
  BY DEF daemonVars
<1> QED
  BY <1>1, <1>2, <1>3, TokenStays

LEMMA DriverKeepsToken ==
  ASSUME Sound, FreshIds, TokenInv, AmigaInv', DriverNext,
         UNCHANGED <<workload, daemonVars>>
  PROVE  TokenInv'
<1>1. CASE TaskStart \/ Wake \/ WaitOrGoOn \/ Reboot \/ Application
  <2>1. /\ UNCHANGED <<daemonVars, r2a, a2r, serious_error>>
        /\ sockets' = sockets \/ sockets' = <<>>
    <3>1. CASE TaskStart \/ Wake \/ Reboot
      BY <3>1 DEF TaskStart, Wake, Reboot, linkVars
    <3>2. CASE WaitOrGoOn
      BY <3>2 DEF WaitOrGoOn, R2aSeenEmpty, NoMoreRequests
    <3>3. CASE Application
      BY <3>3 DEF Application, Submit, linkVars
    <3> QED
      BY <1>1, <3>1, <3>2, <3>3
  <2> QED
    BY <2>1, RestKeepsToken
<1>2. CASE TakeRequest
  BY <1>2, TakeRequestKeepsToken
<1>3. CASE TakePacket
  BY <1>3, TakePacketKeepsToken
<1>4. CASE SendOneQueued
  BY <1>4, SendOneKeepsToken
<1> QED
  BY <1>1, <1>2, <1>3, <1>4 DEF DriverNext, TaskStep

LEMMA InitToken ==
  ASSUME Init
  PROVE  TokenInv
<1>1. /\ channels = <<>> /\ exited = "no" /\ r2a = <<>> /\ a2r = <<>> /\ ~serious_error
      /\ from_client = [c \in Clients |-> <<>>] /\ answered = [c \in Clients |-> {}]
  BY DEF Init, LinkInit, DriverInit, DaemonInit
<1>2. (\A i \in 1 .. Len(<<>>) : FALSE) /\ DOMAIN <<>> = {}
  BY NoneIn
<1>3. ResponsesOK
  BY <1>1, <1>2 DEF ResponsesOK, Distinct
<1>4. AnswersOK(Daemon("EPIPE"), Unanswered, WaitingIds)
  <2> DEFINE d == Daemon("EPIPE")
  <2>1. d.channels = <<>> /\ d.exited = "no" /\ d.r2a = <<>>
    BY <1>1 DEF Daemon
  <2> HIDE DEF d
  <2>2. AnswersOK(d, Unanswered, WaitingIds)
    BY <1>2, <2>1 DEF AnswersOK, RingAnswers, InRing
  <2> QED
    BY <2>2 DEF d
<1>5. NewStreams(a2r, KnownIds, WaitingIds)
  BY <1>1, NoNewStreams
<1> QED
  BY <1>1, <1>3, <1>4, <1>5 DEF TokenInv

LEMMA TokenStep ==
  ASSUME SystemInv, FreshIds => TokenInv, [Next]_vars, FreshIds'
  PROVE  TokenInv'
<1>1. Shared /\ (FreshIds => Sound)
  BY DEF SystemInv, Sound, DaemonSide
<1>2. FreshIds
  BY <1>1, FreshBefore
<1>3. Sound /\ TokenInv
  BY <1>1, <1>2
<1>4. AmigaInv'
  BY SystemStep DEF SystemInv
<1>5. CASE DriverNext /\ UNCHANGED <<workload, daemonVars>>
  BY <1>2, <1>3, <1>4, <1>5, DriverKeepsToken
<1>6. CASE (DaemonStep \/ ClientStep) /\ UNCHANGED <<workload, driverVars>>
  BY <1>3, <1>6, DaemonKeepsToken
<1>7. CASE UNCHANGED vars
  <2>1. UNCHANGED <<daemonVars, r2a, a2r, serious_error, sockets>>
    BY <1>7 DEF vars, linkVars, driverVars
  <2> QED
    BY <1>3, <2>1, RestKeepsToken
<1> QED
  BY <1>5, <1>6, <1>7 DEF Next

\* Every stream is asked for once and answered at most once, and its answer finds a
\* socket that waits for it, through both rings and whatever client, application
\* or Amiga comes or goes.
THEOREM AnsweredOnce == Spec => [](SystemInv /\ (FreshIds => TokenInv))
<1> DEFINE I == SystemInv /\ (FreshIds => TokenInv)
<1>1. Init => I
  BY InitSound, InitToken
<1>2. I /\ [Next]_vars => I'
  <2> SUFFICES ASSUME I, [Next]_vars PROVE I'
    OBVIOUS
  <2>1. SystemInv'
    BY SystemStep
  <2>2. FreshIds' => TokenInv'
    BY TokenStep
  <2> QED
    BY <2>1, <2>2
<1> QED
  BY <1>1, <1>2, PTL DEF Spec

\* The driver's queues and flags agree however a stream ends, and no line that logs
\* SERIOUS ERROR is reached: a CONNECT_RESPONSE finds a pending CONNECT, and a queued
\* socket has something to send (sockets.c).
THEOREM SocketsAlwaysSound == Spec => [](FreshIds => SocketsSound)
<1>1. SystemInv /\ (FreshIds => TokenInv) => (FreshIds => SocketsSound)
  <2> SUFFICES ASSUME SystemInv, FreshIds, TokenInv PROVE SocketsSound
    OBVIOUS
  <2>1. AmigaInv
    BY DEF SystemInv
  <2>2. SendQueueConsistent
    BY QueueOfSound DEF SystemInv
  <2>3. RequestsHeldOnce /\ ClosedSocketsIdle /\ StreamIdsDistinct
    BY <2>1, HeldOnceOfSound, SocketsOfSound
  <2>4. FreshIds => ~serious_error
    BY DEF TokenInv
  <2> QED
    BY <2>2, <2>3, <2>4 DEF SocketsSound
<1> QED
  BY <1>1, AnsweredOnce, PTL
=============================================================================
