---------------------------- MODULE RfSetupProofs ----------------------------
(***************************************************************************)
(* What rfm73_power does to the data rate, for every argument, and that no *)
(* other function does it.                                                 *)
(***************************************************************************)
EXTENDS RfSetup, TLAPS

\* After any rfm73_power the radio is at 250 Kbps, or at no rate rfm73.h lists.
THEOREM PowerSetsRate ==
  ASSUME NEW level \in Nat, rfm73_power(level)
  PROVE  DataRate' \in {0, 3}
<1>1. 5 \in rf_setup'
  BY DEF rfm73_power
<1>2. QED
  BY <1>1 DEF DataRate

\* A radio whose power is never set keeps the data rate it was given, whatever
\* rates and gains are set in whatever order.
THEOREM OnlyPowerBreaksRate ==
  ASSUME Rates \subseteq Nat, Levels = {}
  PROVE  Spec => []DataRateHolds
<1>1. Init => DataRateHolds
  BY DEF Init, Bank0_Reg, DataRateHolds, DataRate
<1>2. ASSUME DataRateHolds, [Next]_vars
      PROVE  DataRateHolds'
  <2>1. CASE rfm73_init
    BY <2>1 DEF rfm73_init, Bank0_Reg, DataRateHolds, DataRate
  <2>2. CASE \E r \in Rates : rfm73_air_data_rate(r)
    <3>1. PICK r \in Rates : rfm73_air_data_rate(r)
      BY <2>2
    <3>2. r \in Nat
      OBVIOUS
    <3>3. 5 \in rf_setup' <=> r = 0
      BY <3>1 DEF rfm73_air_data_rate, Bit
    <3>4. 3 \in rf_setup' <=> r > 1
      BY <3>1 DEF rfm73_air_data_rate, Bit
    <3>5. rate' = IF r > 2 THEN 2 ELSE r
      BY <3>1 DEF rfm73_air_data_rate, AtMost
    <3>6. QED
      BY <3>2, <3>3, <3>4, <3>5 DEF DataRateHolds, DataRate
  <2>3. CASE rfm73_lna_high \/ rfm73_lna_low
    <3>1. (5 \in rf_setup' <=> 5 \in rf_setup) /\ (3 \in rf_setup' <=> 3 \in rf_setup)
      BY <2>3 DEF rfm73_lna_high, rfm73_lna_low
    <3>2. rate' = rate
      BY <2>3 DEF rfm73_lna_high, rfm73_lna_low
    <3>3. QED
      BY <1>2, <3>1, <3>2 DEF DataRateHolds, DataRate
  <2>4. CASE UNCHANGED vars
    BY <1>2, <2>4 DEF vars, DataRateHolds, DataRate
  <2>5. QED
    BY <1>2, <2>1, <2>2, <2>3, <2>4 DEF Next
<1>3. QED
  BY <1>1, <1>2, PTL DEF Spec
=============================================================================
