----------------------------- MODULE MCA314Ring -----------------------------
(***************************************************************************)
(* Small instances of A314Ring for TLC.                                    *)
(***************************************************************************)
EXTENDS A314Ring

\* Two packets that differ in length and in every byte.  Their lengths, 3 and
\* 4, take the indices of a ring of 8 bytes to every place.
MCPackets == {<<0, 1, 2>>, <<1, 3, 4, 5>>}

MCHeader == {<<0, 1, 2>>}
=============================================================================
