------------------------------ MODULE MCEncSpi ------------------------------
(***************************************************************************)
(* EncSpi with registers that share the index 2 in all four banks (EWRPTL, *)
(* EHT2, MACON3, MAADR3), ECON1, and the two bytes of ERXRDPT.             *)
(***************************************************************************)
EXTENDS EncSpi
MCAddresses == {31, 2, 34, 194, 226, 12, 13}
MCVolatile == {31}
MCChipBits == {3}
MCMacLocations == {<<2, 2>>, <<3, 2>>}
MCValues == {{}, {0, 3}}
=============================================================================
