----------------------------- MODULE PacketLink -----------------------------
(***************************************************************************)
(* What the rings of an a314 physical channel promise: two first-in        *)
(* first-out links of packets.  A packet is delivered whole, once and in   *)
(* its turn.  The Raspberry sends several packets in one step.             *)
(***************************************************************************)
EXTENDS Sequences, SequencesExt

CONSTANTS AmigaPackets, PiPackets   \* the packets each side sends

VARIABLES
  a2r, r2a,              \* the packets on their way
  pi_got, amiga_got      \* the last packet delivered on each side

vars == <<a2r, r2a, pi_got, amiga_got>>

Init == a2r = <<>> /\ r2a = <<>> /\ pi_got = <<>> /\ amiga_got = <<>>

AmigaSends ==
  /\ \E p \in AmigaPackets : a2r' = Append(a2r, p)
  /\ UNCHANGED <<r2a, pi_got, amiga_got>>

PiReceives ==
  /\ a2r # <<>>
  /\ pi_got' = Head(a2r)
  /\ a2r' = Tail(a2r)
  /\ UNCHANGED <<r2a, amiga_got>>

PiSends ==
  /\ IsStrictPrefix(r2a, r2a')
  /\ \A i \in Len(r2a) + 1 .. Len(r2a') : r2a'[i] \in PiPackets
  /\ UNCHANGED <<a2r, pi_got, amiga_got>>

AmigaReceives ==
  /\ r2a # <<>>
  /\ amiga_got' = Head(r2a)
  /\ r2a' = Tail(r2a)
  /\ UNCHANGED <<a2r, pi_got>>

Next == AmigaSends \/ PiReceives \/ PiSends \/ AmigaReceives

Spec == Init /\ [][Next]_vars
=============================================================================
