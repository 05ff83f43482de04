--------------------------- MODULE MCA314Doorbell ---------------------------
(***************************************************************************)
(* Small instances of A314Doorbell for TLC.                                *)
(***************************************************************************)
EXTENDS A314Doorbell

\* Packets of a bare header: with Size = 6 a ring holds one, and two of them go
\* round it once.
MCPacketBytes == {HeaderBytes}
=============================================================================
