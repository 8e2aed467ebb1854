------------------------------- MODULE RfSetup -------------------------------
(***************************************************************************)
(* The register RF_SETUP, which four functions of rfm73.c share: each      *)
(* reads it, changes its own bits and writes it back.  The register is the *)
(* set of its bits that are 1, so & is an intersection and | is a union.   *)
(***************************************************************************)
EXTENDS Integers

CONSTANTS Rates, Levels   \* arguments of rfm73_air_data_rate and rfm73_power

VARIABLES
  rf_setup,   \* the register
  rate        \* history: the data rate last asked for

vars == <<rf_setup, rate>>

Bit(b, when) == IF when THEN {b} ELSE {}
AtMost(n, max) == IF n > max THEN max ELSE n

\* The entry of Bank0_Reg: 0x07, 1 Mbit, 5 dBm, LNA gain high.
Bank0_Reg == {0, 1, 2}

rfm73_init == rf_setup' = Bank0_Reg /\ rate' = 1

rfm73_air_data_rate(r) ==
  /\ rf_setup' = (rf_setup \cap {0, 1, 2}) \cup Bit(5, r = 0) \cup Bit(3, r > 1)
  /\ rate' = AtMost(r, 2)

rfm73_power(level) ==
  LET l == AtMost(level, 3)
  IN  /\ rf_setup' = (rf_setup \cap {0, 3}) \cup {4, 5} \cup Bit(1, l % 2 = 1) \cup Bit(2, l > 1)
      /\ UNCHANGED rate

rfm73_lna_high == rf_setup' = rf_setup \cup {0} /\ UNCHANGED rate
rfm73_lna_low == rf_setup' = rf_setup \ {0} /\ UNCHANGED rate

-----------------------------------------------------------------------------

\* rfm73_init comes before every other function.
Init == rf_setup = Bank0_Reg /\ rate = 1

Next ==
  \/ rfm73_init
  \/ \E r \in Rates : rfm73_air_data_rate(r)
  \/ \E level \in Levels : rfm73_power(level)
  \/ rfm73_lna_high \/ rfm73_lna_low

Spec == Init /\ [][Next]_vars

-----------------------------------------------------------------------------

\* The data rate that bits 5 and 3 stand for (3: none), as rfm73.h lists them.
DataRate ==
  IF 5 \in rf_setup THEN IF 3 \in rf_setup THEN 3 ELSE 0
  ELSE IF 3 \in rf_setup THEN 2 ELSE 1

\* The radio has the air data rate that rfm73_air_data_rate, or rfm73_init, gave
\* it last: no other setting changes it.
DataRateHolds == DataRate = rate
=============================================================================
