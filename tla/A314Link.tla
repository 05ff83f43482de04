------------------------------ MODULE A314Link ------------------------------
(***************************************************************************)
(* What the driver of a314.device and the a314 daemon share: the packets   *)
(* of the two rings of struct ComArea, the event bytes, and the streams    *)
(* the packets belong to.  A ring is the sequence of the packets written   *)
(* and not yet read; how packets become bytes and indices is A314Ring's    *)
(* subject, and how no wake-up is lost A314Doorbell's.                     *)
(*                                                                         *)
(* A stream has a number, its conversation, that the program does not      *)
(* have: packets, sockets, channels and messages carry it so that          *)
(* properties can tell two streams with the same stream id apart.  It and  *)
(* hist are read by properties only.                                       *)
(***************************************************************************)
EXTENDS Integers, Sequences, SequencesExt, FiniteSets

CONSTANTS
  RingSize,   \* bytes of a ring, 256 in the code; a byte counts modulo it too
  Names,      \* the service names applications ask for
  NameLen,    \* the length of a service name
  MaxConv,    \* bound on the CONNECT requests applications issue
  Workloads   \* bound on what happens outside src/: see Workload

HeaderBytes == 3

Commands == {"CONNECT", "READ", "WRITE", "EOS", "RESET"}
ClientActs == {"REGISTER", "DEREGISTER", "RESPONSE", "DATA", "EOS", "RESET", "CLOSE"}

\* A workload: how often applications issue each command, and clients send each
\* message or close; whether the Amiga may be rebooted (once); the messages the
\* kernel holds for a client before EAGAIN; the services a314d.conf names.
Workload ==
  [amiga : [Commands -> Nat], clients : [ClientActs -> Nat], reboot : BOOLEAN,
   sock_cap : Nat \ {0}, on_demand : SUBSET Names]

ASSUME WorkloadAssumption ==
  /\ Workloads \subseteq Workload
  /\ \A w \in Workloads : w.amiga["CONNECT"] <= MaxConv

ASSUME LinkAssumption ==
  /\ RingSize \in Nat /\ RingSize > HeaderBytes + NameLen
  /\ NameLen \in Nat /\ MaxConv \in Nat

VARIABLES
  workload,      \* what the two sides are put to; it never changes
  a2r, r2a,      \* the packets in the rings
  r2a_freed,     \* bytes read from R2A since the daemon last read r2a_head
  a_events,      \* what the daemon has told the Amiga and it has not cleared
  irq_fds,       \* the events the Amiga has written, in the socket pair
  hist           \* what each conversation has carried so far

linkVars == <<a2r, r2a, r2a_freed, a_events, irq_fds, hist>>

\* The table f with an entry for k.
With(f, k, v) == [j \in DOMAIN f \cup {k} |-> IF j = k THEN v ELSE f[j]]

Packet(type, id, len, val, conv) ==
  [type |-> type, id |-> id, len |-> len, val |-> val, conv |-> conv]

\* The bytes a sequence of packets takes, and whether one more packet fits
\* behind them: a ring is never filled to its last byte.
Bytes(q) == FoldLeft(LAMBDA n, p : n + HeaderBytes + p.len, 0, q)
Room(q, len) == Bytes(q) + HeaderBytes + len <= RingSize - 1

\* The events of R2A's tail and A2R's head; a second byte of the same kind in
\* the socket pair tells the daemon nothing new.
Notify(q, e) == IF q # <<>> /\ Last(q) = e THEN q ELSE Append(q, e)

Conversations == 1 .. MaxConv

\* written, got: what the application wrote and the client was given; sent,
\* read: the other direction; sent_eos: how much was sent before the client's
\* EOS; the rest says who ended the stream and who was told.
NoEos == 99
NewConversation ==
  [written |-> <<>>, got |-> <<>>, got_eos |-> FALSE,
   sent |-> <<>>, sent_eos |-> NoEos, read |-> <<>>, read_eos |-> FALSE,
   app_reset |-> FALSE, told_client |-> FALSE,
   client_reset |-> FALSE, told_app |-> FALSE]

LinkInit ==
  /\ workload \in Workloads
  /\ a2r = <<>> /\ r2a = <<>> /\ r2a_freed = 0
  /\ a_events = {} /\ irq_fds = <<>>
  /\ hist = [v \in Conversations |-> NewConversation]
=============================================================================
