----------------------------- MODULE MCEnc28j60 -----------------------------
(***************************************************************************)
(* Enc28j60 on a ring of 12 bytes in a memory of 16: frames of 4 and 6     *)
(* bytes fill it, wrap over its end and end exactly at it.                 *)
(***************************************************************************)
EXTENDS Enc28j60
CONSTANTS p1, p2
MCFrameSizes == {4, 6}
MCJunkPtrs == {5, 15}
MCJunkLens == {0, 3}
MCBufLens == {2}
MCPackets == {p1, p2}
MCOnePacket == {p1}
=============================================================================
