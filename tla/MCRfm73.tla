------------------------------- MODULE MCRfm73 -------------------------------
(***************************************************************************)
(* Rfm73 with FIFOs of three messages, as in the radio, of two sizes.      *)
(***************************************************************************)
EXTENDS Rfm73
MCSizes == {1, 32}
MCJunkSizes == {255}
=============================================================================
