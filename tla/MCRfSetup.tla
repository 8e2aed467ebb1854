------------------------------ MODULE MCRfSetup ------------------------------
(***************************************************************************)
(* RfSetup with every documented argument and one above each limit.        *)
(***************************************************************************)
EXTENDS RfSetup
MCRates == 0 .. 3
MCLevels == 0 .. 4
=============================================================================
