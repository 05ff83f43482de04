---------------------------- MODULE A314Streams ----------------------------
(***************************************************************************)
(* What a314 promises its users, without rings, sockets, channels or       *)
(* queues: a stream is two pipes between an application and a client.      *)
(* What one end writes the other is given in order; the end of a pipe is   *)
(* seen after all that was written to it; a RESET is told to the other end *)
(* and to nobody else.  A314System implements it (ImplementsStreams).      *)
(***************************************************************************)
EXTENDS Integers, Sequences, SequencesExt

CONSTANTS
  Conversations,  \* the streams there may be
  Values,         \* what is written to them
  NoEos           \* no length of a pipe: its end has not been sent

VARIABLE streams  \* what each stream has carried, as hist in A314Link

NewStream ==
  [written |-> <<>>, got |-> <<>>, got_eos |-> FALSE,
   sent |-> <<>>, sent_eos |-> NoEos, read |-> <<>>, read_eos |-> FALSE,
   app_reset |-> FALSE, told_client |-> FALSE,
   client_reset |-> FALSE, told_app |-> FALSE]

SetField(v, f, x) == streams' = [streams EXCEPT ![v] = [@ EXCEPT ![f] = x]]

Init == streams = [v \in Conversations |-> NewStream]

\* The application writes, unless its end is gone.
AppWrites(v) ==
  /\ ~streams[v].app_reset /\ ~streams[v].told_app /\ ~streams[v].got_eos
  /\ \E x \in Values : SetField(v, "written", Append(streams[v].written, x))

\* The client is given the next piece, and at last the end.
ClientGets(v) ==
  LET s == streams[v] IN
  /\ ~s.told_client /\ Len(s.got) < Len(s.written)
  /\ SetField(v, "got", Append(s.got, s.written[Len(s.got) + 1]))

ClientGetsEos(v) ==
  /\ streams[v].got = streams[v].written
  /\ SetField(v, "got_eos", TRUE)

\* The application reads the next piece, and at last the end.  What a client
\* sends after its EOS, which the daemon does not stop, is read after it.
AppReads(v) ==
  LET s == streams[v] IN
  /\ ~s.told_app /\ Len(s.read) < Len(s.sent)
  /\ SetField(v, "read", Append(s.read, s.sent[Len(s.read) + 1]))

AppReadsEos(v) ==
  /\ streams[v].sent_eos <= Len(streams[v].read)
  /\ SetField(v, "read_eos", TRUE)

\* The application ends the stream at once; the client learns of it.
AppResets(v)   == SetField(v, "app_reset", TRUE)
ClientTold(v)  == streams[v].app_reset /\ SetField(v, "told_client", TRUE)
AppTold(v)     == streams[v].client_reset /\ SetField(v, "told_app", TRUE)

\* The client's end: a turn of the daemon takes all it has sent, in one step,
\* to any of its streams.  There is one EOS, at the place it was sent.
Spoken(s, t) ==
  /\ IsPrefix(s.sent, t.sent)
  /\ s.client_reset => t.client_reset
  /\ \/ t.sent_eos = s.sent_eos
     \/ s.sent_eos = NoEos /\ t.sent_eos \in Len(s.sent) .. Len(t.sent)
  /\ t = [s EXCEPT !.sent = t.sent, !.sent_eos = t.sent_eos,
                   !.client_reset = t.client_reset]

ClientSpeaks ==
  /\ DOMAIN streams' = Conversations
  /\ \A v \in Conversations : Spoken(streams[v], streams'[v])

Next ==
  \/ \E v \in Conversations :
       \/ AppWrites(v) \/ ClientGets(v) \/ ClientGetsEos(v)
       \/ AppReads(v) \/ AppReadsEos(v)
       \/ AppResets(v) \/ ClientTold(v) \/ AppTold(v)
  \/ ClientSpeaks

Spec == Init /\ [][Next]_streams
=============================================================================
