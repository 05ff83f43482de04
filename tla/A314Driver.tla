----------------------------- MODULE A314Driver -----------------------------
(***************************************************************************)
(* The task of a314.device (a314driver.c) and its sockets (sockets.c).     *)
(* Applications send it IORequests: CONNECT, READ, WRITE, EOS and RESET on *)
(* a socket they name by their task and a number (a key).  It turns them   *)
(* into packets of A2R, answers them when packets arrive in R2A, and       *)
(* queues the sockets whose next packet does not fit in A2R.               *)
(*                                                                         *)
(* A handler is an operator from the driver's state, as a record, to its   *)
(* next state; the actions at the end are the steps of task_main, and the  *)
(* applications, which are outside src/ and may call anything in any order.*)
(***************************************************************************)
EXTENDS A314Link

CONSTANTS
  Keys,        \* the sockets applications name: (task, socket number)
  Requests,    \* the IORequests applications have
  NoRequest,
  StreamIds,   \* how many stream ids there are: 128 odd bytes in the code
  ReadLens,    \* sizes of the buffers applications read into
  WriteLens    \* lengths of what they write

ASSUME DriverAssumption ==
  /\ NoRequest \notin Requests
  /\ StreamIds \in Nat \ {0}
  /\ ReadLens \subseteq Nat /\ WriteLens \subseteq Nat

VARIABLES
  task_pc,         \* where task_main is
  sockets,         \* active_sockets, by key
  send_queue,      \* the keys of the sockets waiting for room in A2R
  next_stream_id,
  task_mp,         \* the requests in the task's message port
  ior,             \* where each request is, and what it asks for
  moved,           \* has this round of task_main moved an index of a ring?
  serious_error,   \* has a line that logs SERIOUS ERROR been reached?
  budget           \* what applications may still issue

driverVars == <<task_pc, sockets, send_queue, next_stream_id, task_mp, ior,
                moved, serious_error, budget>>

\* Between sockets and requests everything is a field of one record.
Driver == [sockets |-> sockets, send_queue |-> send_queue,
           next_stream_id |-> next_stream_id, ior |-> ior, a2r |-> a2r,
           serious_error |-> serious_error, hist |-> hist]

Become(d) ==
  /\ sockets' = d.sockets /\ send_queue' = d.send_queue
  /\ next_stream_id' = d.next_stream_id /\ ior' = d.ior /\ a2r' = d.a2r
  /\ serious_error' = d.serious_error /\ hist' = d.hist

AtApplication == [at |-> "application"]

-----------------------------------------------------------------------------
(* sockets.c                                                               *)

NewSocket(id, conv) ==
  [stream_id |-> id, conv |-> conv, flags |-> {},
   pending_connect |-> NoRequest, pending_read |-> NoRequest,
   pending_write |-> NoRequest, required_length |-> 0, rq |-> <<>>]

IdsInUse(d) == {d.sockets[k].stream_id : k \in DOMAIN d.sockets}

KeysOfStream(d, id) ==
  {k \in DOMAIN d.sockets : d.sockets[k].stream_id = id}

\* next_stream_id is tried, and the next one, and the next ...; the ids wrap.
NextId(id) == IF id = StreamIds THEN 1 ELSE id + 1
\* Mutated AllocatedId: takes the next id without looking for one that is free.
NextIdOnly(d) == d.next_stream_id

AllocatedId(d) ==
  LET after == [n \in 0 .. StreamIds - 1 |->
                  ((d.next_stream_id - 1 + n) % StreamIds) + 1]
      n == CHOOSE n \in DOMAIN after :
             /\ after[n] \notin IdsInUse(d)
             /\ \A m \in 0 .. n - 1 : after[m] \in IdsInUse(d)
  IN after[n]

CreateSocket(d, k, conv) ==
  LET id == AllocatedId(d)
  IN [d EXCEPT !.sockets = With(@, k, NewSocket(id, conv)),
               !.next_stream_id = NextId(id)]

DeleteSocket(d, k) ==
  [d EXCEPT !.sockets = [j \in DOMAIN @ \ {k} |-> @[j]]]

AddToSendQueue(d, k, len) ==
  [d EXCEPT !.sockets[k].required_length = len, !.send_queue = Append(@, k),
            !.sockets[k].flags = @ \cup {"IN_SEND_QUEUE"}]

RemoveFromSendQueue(d, k) ==
  IF "IN_SEND_QUEUE" \in d.sockets[k].flags
  THEN [d EXCEPT !.send_queue = RemoveFirst(@, k),
                 !.sockets[k].flags = @ \ {"IN_SEND_QUEUE"}]
  ELSE d

-----------------------------------------------------------------------------
(* Replies, packets and the end of a socket.                               *)

Reply(d, r) == [d EXCEPT !.ior[r] = AtApplication]

AppendPacket(d, k, type, len, val) ==
  LET s == d.sockets[k]
  IN [d EXCEPT !.a2r = Append(@, Packet(type, s.stream_id, len, val, s.conv))]

\* Mutated MaySendNow: fills the ring to its last byte.
MaySendNowFull(d, len) ==
  d.send_queue = <<>> /\ Bytes(d.a2r) + HeaderBytes + len <= RingSize

MaySendNow(d, len) == d.send_queue = <<>> /\ Room(d.a2r, len)

AnswerPending(d, k) ==
  LET s == d.sockets[k]
      pending == {s.pending_connect, s.pending_read, s.pending_write}
  IN [d EXCEPT !.ior = [r \in Requests |->
                          IF r \in pending THEN AtApplication ELSE @[r]]]

\* What is pending is answered, what is queued or received is dropped.
Emptied(d, k, should_send_reset) ==
  [RemoveFromSendQueue(AnswerPending(d, k), k) EXCEPT
     !.sockets[k].pending_connect = NoRequest,
     !.sockets[k].pending_read = NoRequest,
     !.sockets[k].pending_write = NoRequest,
     !.sockets[k].rq = <<>>,
     !.sockets[k].flags = @ \cup {"CLOSED"},
     !.hist[d.sockets[k].conv].app_reset = @ \/ should_send_reset]

\* The socket lives on only while a RESET of its own waits for room.
CloseSocket(d, k, should_send_reset) ==
  LET c == Emptied(d, k, should_send_reset)
  IN IF ~should_send_reset
     THEN DeleteSocket(c, k)
     ELSE IF MaySendNow(c, 0)
     THEN DeleteSocket(AppendPacket(c, k, "RESET", 0, 0), k)
     ELSE AddToSendQueue(
            [c EXCEPT !.sockets[k].flags = @ \cup {"SHOULD_SEND_RESET"}], k, 0)

\* EOS has gone both ways, or only one way so far.
CloseIfBothEos(d, k) ==
  IF {"SENT_EOS_TO_APP", "SENT_EOS_TO_RPI"} \subseteq d.sockets[k].flags
  THEN CloseSocket(d, k, FALSE)
  ELSE d

EosToApp(d, k) ==
  CloseIfBothEos(
    [d EXCEPT !.sockets[k].flags = @ \cup {"SENT_EOS_TO_APP"},
              !.hist[d.sockets[k].conv].read_eos = TRUE], k)

EosToRpi(d, k) ==
  CloseIfBothEos(
    [AppendPacket(d, k, "EOS", 0, 0) EXCEPT
       !.sockets[k].flags = @ \cup {"SENT_EOS_TO_RPI"}], k)

DataToRpi(d, k, q) ==
  [AppendPacket(d, k, "DATA", q.len, q.val) EXCEPT
     !.hist[d.sockets[k].conv].written = Append(@, q.val)]

-----------------------------------------------------------------------------
(* Requests of applications: r is the request, q what it asks for.         *)

\* The socket exists, or the name is too long for any packet.
ConnectRefused(d, q) ==
  q.key \in DOMAIN d.sockets \/ q.len + HeaderBytes > RingSize - 1

HandleAppConnect(d, r, q) ==
  IF ConnectRefused(d, q)
  THEN Reply(d, r)
  ELSE LET e == CreateSocket(d, q.key, q.val)
           f == [e EXCEPT !.sockets[q.key].pending_connect = r]
       IN IF MaySendNow(f, q.len)
          THEN AppendPacket(f, q.key, "CONNECT", q.len, q.name)
          ELSE AddToSendQueue(f, q.key, q.len)

\* Mutated NoOpenSocket: a closed socket is as good as any.
NoSocketAtAll(d, k) == k \notin DOMAIN d.sockets

\* A request on no socket, or on one that only waits to send its RESET.
NoOpenSocket(d, k) ==
  k \notin DOMAIN d.sockets \/ "CLOSED" \in d.sockets[k].flags

\* Mutated Misuse: the Raspberry is not told.
MisuseUntold(d, r, k) == CloseSocket(Reply(d, r), k, FALSE)

\* A request that breaks the rules ends the stream.
Misuse(d, r, k) == CloseSocket(Reply(d, r), k, TRUE)

\* Mutated HandleAppRead: does not look at the data that came before the EOS.
HandleAppReadEosFirst(d, r, q) ==
  IF NoOpenSocket(d, q.key) THEN Reply(d, r)
  ELSE IF d.sockets[q.key].pending_read # NoRequest THEN Misuse(d, r, q.key)
  ELSE IF "RCVD_EOS_FROM_RPI" \in d.sockets[q.key].flags
  THEN EosToApp(Reply(d, r), q.key)
  ELSE [d EXCEPT !.sockets[q.key].pending_read = r]

HandleAppRead(d, r, q) ==
  LET s == d.sockets[q.key] IN
  IF NoOpenSocket(d, q.key)
  THEN Reply(d, r)
  ELSE IF s.pending_connect # NoRequest \/ s.pending_read # NoRequest
  THEN Misuse(d, r, q.key)
  ELSE IF s.rq # <<>>
  THEN IF q.len < Head(s.rq).len
       THEN Misuse(d, r, q.key)
       ELSE [Reply(d, r) EXCEPT
               !.sockets[q.key].rq = Tail(@),
               !.hist[s.conv].read = Append(@, Head(s.rq).val)]
  ELSE IF "RCVD_EOS_FROM_RPI" \in s.flags
  THEN EosToApp(Reply(d, r), q.key)
  ELSE [d EXCEPT !.sockets[q.key].pending_read = r]

\* Neither a WRITE nor an EOS may follow an EOS, or overtake what is pending.
MayNotWrite(s) ==
  \/ s.pending_connect # NoRequest \/ s.pending_write # NoRequest
  \/ "RCVD_EOS_FROM_APP" \in s.flags

HandleAppWrite(d, r, q) ==
  IF NoOpenSocket(d, q.key)
  THEN Reply(d, r)
  ELSE IF MayNotWrite(d.sockets[q.key]) \/ q.len + HeaderBytes > RingSize - 1
  THEN Misuse(d, r, q.key)
  ELSE IF MaySendNow(d, q.len)
  THEN DataToRpi(Reply(d, r), q.key, q)
  ELSE AddToSendQueue([d EXCEPT !.sockets[q.key].pending_write = r], q.key, q.len)

HandleAppEos(d, r, q) ==
  IF NoOpenSocket(d, q.key)
  THEN Reply(d, r)
  ELSE IF MayNotWrite(d.sockets[q.key])
  THEN Misuse(d, r, q.key)
  ELSE LET e == [d EXCEPT !.sockets[q.key].flags = @ \cup {"RCVD_EOS_FROM_APP"}]
       IN IF MaySendNow(e, 0)
          THEN EosToRpi(Reply(e, r), q.key)
          ELSE AddToSendQueue([e EXCEPT !.sockets[q.key].pending_write = r], q.key, 0)

HandleAppReset(d, r, q) ==
  IF NoOpenSocket(d, q.key) THEN Reply(d, r) ELSE Misuse(d, r, q.key)

HandleAppRequest(d, r) ==
  LET q == d.ior[r] IN
  CASE q.command = "CONNECT" -> HandleAppConnect(d, r, q)
    [] q.command = "READ"    -> HandleAppRead(d, r, q)
    [] q.command = "WRITE"   -> HandleAppWrite(d, r, q)
    [] q.command = "EOS"     -> HandleAppEos(d, r, q)
    [] q.command = "RESET"   -> HandleAppReset(d, r, q)

-----------------------------------------------------------------------------
(* Packets from the Raspberry.                                             *)

R2aConnectResponse(d, k, p) ==
  LET r == d.sockets[k].pending_connect
      e == [Reply(d, r) EXCEPT !.sockets[k].pending_connect = NoRequest]
  IN IF r = NoRequest
     THEN [d EXCEPT !.serious_error = TRUE]
     ELSE IF p.val = "CONNECT_OK" THEN e ELSE CloseSocket(e, k, FALSE)

R2aData(d, k, p) ==
  LET s == d.sockets[k]
      r == s.pending_read
  IN IF r = NoRequest
     THEN [d EXCEPT !.sockets[k].rq = Append(@, p)]
     ELSE IF d.ior[r].len < p.len
     THEN CloseSocket(d, k, TRUE)
     ELSE [Reply(d, r) EXCEPT !.sockets[k].pending_read = NoRequest,
                              !.hist[s.conv].read = Append(@, p.val)]

R2aEos(d, k) ==
  LET e == [d EXCEPT !.sockets[k].flags = @ \cup {"RCVD_EOS_FROM_RPI"}]
      r == d.sockets[k].pending_read
  IN IF r = NoRequest
     THEN e
     ELSE EosToApp([Reply(e, r) EXCEPT !.sockets[k].pending_read = NoRequest], k)

\* A packet of no socket, or of a closed one, is ignored, but for RESET.
HandleR2aPacket(d, p) ==
  IF KeysOfStream(d, p.id) = {}
  THEN d
  ELSE LET k == CHOOSE k \in KeysOfStream(d, p.id) : TRUE
           s == d.sockets[k]
       IN IF p.type = "RESET"
          THEN CloseSocket([d EXCEPT !.hist[s.conv].told_app =
                                         @ \/ "CLOSED" \notin s.flags], k, FALSE)
          ELSE IF "CLOSED" \in s.flags
          THEN d
          ELSE CASE p.type = "CONNECT_RESPONSE" -> R2aConnectResponse(d, k, p)
                 [] p.type = "DATA"             -> R2aData(d, k, p)
                 [] p.type = "EOS"              -> R2aEos(d, k)

\* There is room for what the head of the send queue waits to send.
HeadFits(d) ==
  /\ d.send_queue # <<>>
  /\ Room(d.a2r, d.sockets[Head(d.send_queue)].required_length)

\* The body of the loop in handle_room_in_a2r.
SendQueued(d) ==
  LET k == Head(d.send_queue)
      e == RemoveFromSendQueue(d, k)
      s == d.sockets[k]
      r == s.pending_write
      f == [Reply(e, r) EXCEPT !.sockets[k].pending_write = NoRequest]
  IN IF s.pending_connect # NoRequest
     THEN AppendPacket(e, k, "CONNECT", d.ior[s.pending_connect].len,
                       d.ior[s.pending_connect].name)
     ELSE IF r # NoRequest
     THEN IF d.ior[r].command = "WRITE"
          THEN DataToRpi(f, k, d.ior[r])
          ELSE EosToRpi(f, k)
     ELSE IF "SHOULD_SEND_RESET" \in s.flags
     THEN DeleteSocket(AppendPacket(e, k, "RESET", 0, 0), k)
     ELSE [e EXCEPT !.serious_error = TRUE]

-----------------------------------------------------------------------------
(* task_main.  A round begins with a signal: requests first, if any came;  *)
(* then R2A is emptied and the send queue served until neither can go on.  *)

Size(p) == HeaderBytes + p.len

DriverInit ==
  /\ task_pc = "off" /\ sockets = <<>> /\ send_queue = <<>>
  /\ next_stream_id = 1 /\ task_mp = <<>>
  /\ ior = [r \in Requests |-> AtApplication]
  /\ moved = FALSE /\ serious_error = FALSE
  /\ budget = workload.amiga

\* The device is opened for the first time: task_start.  ComArea is left as
\* it is, but for the events.  An Amiga takes seconds to boot: by then the
\* daemon has handled what was rung before.
TaskStart ==
  /\ task_pc = "off" /\ irq_fds = <<>>
  /\ task_pc' = "wait" /\ a_events' = {} /\ irq_fds' = Append(irq_fds, "STARTED")
  /\ UNCHANGED <<a2r, r2a, r2a_freed, hist, sockets, send_queue, next_stream_id,
                 task_mp, ior, moved, serious_error, budget>>

\* Mutated AEnable: room in A2R never wakes the task.
AEnableTailOnly == {"R2A_TAIL"}

\* What a_enable holds while the task waits.
AEnable == {"R2A_TAIL"} \cup (IF send_queue = <<>> THEN {} ELSE {"A2R_HEAD"})

Wake ==
  /\ task_pc = "wait"
  /\ task_pc' = IF task_mp # <<>> THEN "requests" ELSE "packets"
  /\ task_mp # <<>> \/ a_events \cap AEnable # {}
  /\ moved' = FALSE
  /\ UNCHANGED <<linkVars, sockets, send_queue, next_stream_id, task_mp, ior,
                 serious_error, budget>>

\* allocate_stream_id looks for an id for ever when there is none.
Stuck ==
  /\ task_pc = "requests" /\ task_mp # <<>>
  /\ LET q == ior[Head(task_mp)]
     IN q.command = "CONNECT" /\ ~ConnectRefused(Driver, q)
  /\ IdsInUse(Driver) = 1 .. StreamIds

TakeRequest ==
  /\ task_pc = "requests" /\ task_mp # <<>> /\ ~Stuck
  /\ task_mp' = Tail(task_mp)
  /\ LET d == HandleAppRequest(Driver, Head(task_mp))
     IN Become(d) /\ moved' = (moved \/ Len(d.a2r) # Len(a2r))
  /\ UNCHANGED <<task_pc, r2a, r2a_freed, a_events, irq_fds, budget>>

NoMoreRequests == task_pc = "requests" /\ task_mp = <<>>

\* handle_packets_received_r2a, one packet.
TakePacket ==
  /\ task_pc = "packets" \/ NoMoreRequests
  /\ r2a # <<>>
  /\ r2a' = Tail(r2a) /\ r2a_freed' = r2a_freed + Size(Head(r2a))
  /\ Become(HandleR2aPacket(Driver, Head(r2a)))
  /\ moved' = TRUE /\ task_pc' = "packets"
  /\ UNCHANGED <<a_events, irq_fds, task_mp, budget>>

R2aSeenEmpty ==
  task_pc = "room" \/ (r2a = <<>> /\ (task_pc = "packets" \/ NoMoreRequests))

\* handle_room_in_a2r, one packet.
SendOneQueued ==
  /\ R2aSeenEmpty /\ HeadFits(Driver)
  /\ Become(SendQueued(Driver))
  /\ moved' = TRUE /\ task_pc' = "room"
  /\ UNCHANGED <<r2a, r2a_freed, a_events, irq_fds, task_mp, budget>>

\* The end of the inner loop: the events are discarded, and if R2A is empty
\* the task tells the daemon what it moved and waits.
WaitOrGoOn ==
  /\ R2aSeenEmpty /\ ~HeadFits(Driver)
  /\ a_events' = {}
  /\ task_pc' = IF r2a = <<>> THEN "wait" ELSE "packets"
  /\ irq_fds' = IF r2a = <<>> /\ moved THEN Notify(irq_fds, "MOVED") ELSE irq_fds
  /\ UNCHANGED <<a2r, r2a, r2a_freed, hist, sockets, send_queue, next_stream_id,
                 task_mp, ior, moved, serious_error, budget>>

\* The device's task exists.
Running == task_pc \notin {"off", "gone"}

\* The Amiga is reset: its memory is gone, ComArea and the daemon are not.  The
\* device does not start again while the emulator runs: task_start would look
\* for the a314 board, and the autoconfig chain has gone past it.
Reboot ==
  /\ workload.reboot /\ Running
  /\ task_pc' = "gone"
  /\ sockets' = <<>> /\ send_queue' = <<>> /\ next_stream_id' = 1
  /\ task_mp' = <<>> /\ ior' = [r \in Requests |-> AtApplication]
  /\ moved' = FALSE
  /\ UNCHANGED <<linkVars, serious_error, budget>>

\* Applications (external): any request at any time; a CONNECT's value is the
\* number of the conversation it may begin, a WRITE's the number of the write.
Issued(c) == workload.amiga[c] - budget[c] + 1

Submit(r, c, k, len, name) ==
  /\ Running /\ ior[r] = AtApplication /\ budget[c] > 0
  /\ budget' = [budget EXCEPT ![c] = @ - 1]
  /\ ior' = [ior EXCEPT ![r] = [at |-> "driver", command |-> c, key |-> k,
                                len |-> len, val |-> Issued(c), name |-> name]]
  /\ task_mp' = Append(task_mp, r)
  /\ UNCHANGED <<linkVars, task_pc, sockets, send_queue, next_stream_id, moved,
                 serious_error>>

NoName == "no name"

Application ==
  \E r \in Requests, k \in Keys :
    \/ \E n \in Names : Submit(r, "CONNECT", k, NameLen, n)
    \/ \E len \in ReadLens : Submit(r, "READ", k, len, NoName)
    \/ \E len \in WriteLens : Submit(r, "WRITE", k, len, NoName)
    \/ Submit(r, "EOS", k, 0, NoName)
    \/ Submit(r, "RESET", k, 0, NoName)

TaskStep == Wake \/ TakeRequest \/ TakePacket \/ SendOneQueued \/ WaitOrGoOn

DriverNext == TaskStart \/ TaskStep \/ Reboot \/ Application
=============================================================================
