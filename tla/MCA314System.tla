---------------------------- MODULE MCA314System ----------------------------
(***************************************************************************)
(* Small instances of A314System for TLC.                                  *)
(***************************************************************************)
EXTENDS A314System

CONSTANTS k1, k2, r1, r2, c1, c2, svc

Commands5(connect, read, write, eos, reset) ==
  ("CONNECT" :> connect @@ "READ" :> read @@ "WRITE" :> write
     @@ "EOS" :> eos @@ "RESET" :> reset)

Acts7(register, deregister, response, data, eos, reset, close) ==
  ("REGISTER" :> register @@ "DEREGISTER" :> deregister @@ "RESPONSE" :> response
     @@ "DATA" :> data @@ "EOS" :> eos @@ "RESET" :> reset @@ "CLOSE" :> close)

\* The driver treats all requests alike, and all keys.
Symmetry == Permutations(Requests) \cup Permutations(Keys)

Bound(amiga, clients, cap) ==
  [amiga |-> amiga, clients |-> clients, reboot |-> FALSE, sock_cap |-> cap,
   on_demand |-> Names]

\* One stream, ended in order by both sides.
Graceful == Bound(Commands5(1, 2, 1, 1, 0), Acts7(0, 0, 1, 1, 1, 0, 0), 1)

\* A stream ended by whoever comes first, and the next one.
Resets == Bound(Commands5(2, 1, 1, 0, 1), Acts7(0, 0, 2, 0, 0, 1, 0), 2)

\* Two streams that want the same ring, and one of them reset meanwhile.
Two == Bound(Commands5(2, 0, 2, 0, 0), Acts7(0, 0, 1, 1, 0, 0, 0), 1)
TwoReset == Bound(Commands5(2, 0, 1, 0, 1), Acts7(0, 0, 1, 1, 0, 0, 0), 1)

\* More streams than ids: an id is used again when its stream was reset.
Wrap == Bound(Commands5(3, 0, 0, 0, 2), Acts7(0, 0, 1, 0, 0, 1, 0), 4)

\* An id is used again after a stream that ended in order, while the daemon has a
\* packet queued for it: DATA that its client sent after EOS,
LateData == Bound(Commands5(2, 1, 0, 1, 0), Acts7(0, 0, 1, 1, 1, 0, 0), 2)

\* or the RESET of a client that closed its connection.
LateClose == Bound(Commands5(2, 1, 0, 1, 0), Acts7(0, 0, 1, 0, 1, 0, 1), 2)

\* Services that come and go with their clients.
ServicesOnly == [Bound(Commands5(1, 0, 1, 0, 0), Acts7(2, 1, 0, 1, 0, 0, 1), 2)
                   EXCEPT !.on_demand = {}]

\* The Amiga restarts in the middle of a stream; buffers may be too short.
Reboots == [Bound(Commands5(2, 1, 0, 0, 0), Acts7(0, 0, 1, 1, 0, 0, 0), 2)
              EXCEPT !.reboot = TRUE]

\* A small stream that both sides end, or a misuse does, for liveness.
Small == Bound(Commands5(1, 1, 1, 1, 0), Acts7(0, 0, 1, 0, 1, 0, 0), 1)

StreamWorkloads == {Graceful, Resets}
CrowdWorkloads == {Two, TwoReset, Wrap, ServicesOnly, Reboots}
ReuseWorkloads == {LateData, LateClose}
LiveWorkloads == {Small}
=============================================================================
