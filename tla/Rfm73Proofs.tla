----------------------------- MODULE Rfm73Proofs -----------------------------
(***************************************************************************)
(* Proofs about the radio driver, for FIFOs of any depth and messages of   *)
(* any sizes.                                                              *)
(***************************************************************************)
EXTENDS Rfm73, TLAPS

-----------------------------------------------------------------------------
\* The scripts.

LEMMA CallNames ==
  Calls = {"init", "is_present", "mode_receive", "mode_transmit", "mode_standby",
           "mode_powerdown", "air_data_rate", "power", "crc_length", "rssi_level",
           "transmit_message", "receive", "other"}
BY DEF Calls, Script

\* How many accesses each makes.
LEMMA Lengths ==
  /\ Len(Script["init"]) = 14
  /\ Len(Script["is_present"]) = 4
  /\ Len(Script["mode_receive"]) = 7
  /\ Len(Script["mode_transmit"]) = 7
  /\ Len(Script["mode_standby"]) = 3
  /\ Len(Script["mode_powerdown"]) = 3
  /\ Len(Script["air_data_rate"]) = 4
  /\ Len(Script["power"]) = 4
  /\ Len(Script["crc_length"]) = 3
  /\ Len(Script["rssi_level"]) = 5
  /\ Len(Script["transmit_message"]) = 1
  /\ Len(Script["receive"]) = 4
  /\ Len(Script["other"]) = 2
BY DEF Script, rfm73_init, rfm73_is_present, rfm73_mode_receive, rfm73_mode_transmit,
   rfm73_mode_standby, rfm73_mode_powerdown, rfm73_air_data_rate, rfm73_power, rfm73_crc_length,
   rfm73_rssi_level, rfm73_transmit_message, rfm73_receive, OtherSetting

\* Where each access is made.
LEMMA Places ==
  ASSUME TypeOK
  PROVE  /\ At("ce0") => \/ call \in {"init", "mode_standby", "mode_powerdown",
                                     "air_data_rate", "power"} /\ k = 1
                         \/ call \in {"mode_receive", "mode_transmit"} /\ k = 4
         /\ At("rdStatus") => \/ call = "init" /\ k \in {2, 10, 13}
                              \/ call = "is_present" /\ k \in {1, 3}
                              \/ call \in {"mode_receive", "mode_transmit"} /\ k = 2
                              \/ call = "rssi_level" /\ k \in {1, 4}
         /\ At("bank0") => \/ call = "init" /\ k \in {3, 14}
                           \/ call = "rssi_level" /\ k = 5
         /\ At("table") => call = "init" /\ k = 4
         /\ At("rdFeature") => call = "init" /\ k = 5
         /\ At("activate") => call = "init" /\ k = 6
         /\ At("reg0") => \/ call = "init" /\ k \in {7, 9}
                          \/ call \in {"air_data_rate", "power"} /\ k \in {2, 3}
                          \/ call = "crc_length" /\ k = 2
                          \/ call = "other" /\ k \in {1, 2}
         /\ At("feature") => call = "init" /\ k = 8
         /\ At("bank1") => \/ call = "init" /\ k = 11
                           \/ call = "rssi_level" /\ k = 2
         /\ At("reg1") => \/ call = "init" /\ k = 12
                          \/ call = "rssi_level" /\ k = 3
         /\ At("toggle") => call = "is_present" /\ k \in {2, 4}
         /\ At("flushRx") => \/ call = "mode_receive" /\ k = 1
                             \/ call = "receive" /\ k = 4
         /\ At("wrStatus") => call \in {"mode_receive", "mode_transmit"} /\ k = 3
         /\ At("rdConfig") => \/ call \in {"mode_receive", "mode_transmit"} /\ k = 5
                              \/ call \in {"mode_standby", "mode_powerdown"} /\ k = 2
                              \/ call = "crc_length" /\ k = 1
         /\ At("cfgRx") => call = "mode_receive" /\ k = 6
         /\ At("ce1") => \/ call \in {"mode_receive", "mode_transmit"} /\ k = 7
                         \/ call \in {"air_data_rate", "power"} /\ k = 4
         /\ At("flushTx") => call = "mode_transmit" /\ k = 1
         /\ At("cfgTx") => call = "mode_transmit" /\ k = 6
         /\ At("cfgUp") => call = "mode_standby" /\ k = 3
         /\ At("cfgDown") => call = "mode_powerdown" /\ k = 3
         /\ At("cfgSame") => call = "crc_length" /\ k = 3
         /\ At("payload") => call = "transmit_message" /\ k = 1
         /\ At("rdFifo") => call = "receive" /\ k = 1
         /\ At("rdLength") => call = "receive" /\ k = 2
         /\ At("rdPayload") => call = "receive" /\ k = 3
<1>1. call \in Calls => k \in 1 .. Len(Script[call])
  BY CallNames DEF TypeOK
<1>2. CASE call = "init"
  <2>1. Script[call] = rfm73_init /\ (call \in Calls => k \in 1 .. 14)
    BY <1>1, <1>2, Lengths DEF Script
  <2>2. QED
    BY <1>2, <2>1 DEF At, rfm73_init
<1>3. CASE call = "is_present"
  <2>1. Script[call] = rfm73_is_present /\ (call \in Calls => k \in 1 .. 4)
    BY <1>1, <1>3, Lengths DEF Script
  <2>2. QED
    BY <1>3, <2>1 DEF At, rfm73_is_present
<1>4. CASE call = "mode_receive"
  <2>1. Script[call] = rfm73_mode_receive /\ (call \in Calls => k \in 1 .. 7)
    BY <1>1, <1>4, Lengths DEF Script
  <2>2. QED
    BY <1>4, <2>1 DEF At, rfm73_mode_receive
<1>5. CASE call = "mode_transmit"
  <2>1. Script[call] = rfm73_mode_transmit /\ (call \in Calls => k \in 1 .. 7)
    BY <1>1, <1>5, Lengths DEF Script
  <2>2. QED
    BY <1>5, <2>1 DEF At, rfm73_mode_transmit
<1>6. CASE call = "mode_standby"
  <2>1. Script[call] = rfm73_mode_standby /\ (call \in Calls => k \in 1 .. 3)
    BY <1>1, <1>6, Lengths DEF Script
  <2>2. QED
    BY <1>6, <2>1 DEF At, rfm73_mode_standby
<1>7. CASE call = "mode_powerdown"
  <2>1. Script[call] = rfm73_mode_powerdown /\ (call \in Calls => k \in 1 .. 3)
    BY <1>1, <1>7, Lengths DEF Script
  <2>2. QED
    BY <1>7, <2>1 DEF At, rfm73_mode_powerdown
<1>8. CASE call = "air_data_rate"
  <2>1. Script[call] = rfm73_air_data_rate /\ (call \in Calls => k \in 1 .. 4)
    BY <1>1, <1>8, Lengths DEF Script
  <2>2. QED
    BY <1>8, <2>1 DEF At, rfm73_air_data_rate
<1>9. CASE call = "power"
  <2>1. Script[call] = rfm73_power /\ (call \in Calls => k \in 1 .. 4)
    BY <1>1, <1>9, Lengths DEF Script
  <2>2. QED
    BY <1>9, <2>1 DEF At, rfm73_power
<1>10. CASE call = "crc_length"
  <2>1. Script[call] = rfm73_crc_length /\ (call \in Calls => k \in 1 .. 3)
    BY <1>1, <1>10, Lengths DEF Script
  <2>2. QED
    BY <1>10, <2>1 DEF At, rfm73_crc_length
<1>11. CASE call = "rssi_level"
  <2>1. Script[call] = rfm73_rssi_level /\ (call \in Calls => k \in 1 .. 5)
    BY <1>1, <1>11, Lengths DEF Script
  <2>2. QED
    BY <1>11, <2>1 DEF At, rfm73_rssi_level
<1>12. CASE call = "transmit_message"
  <2>1. Script[call] = rfm73_transmit_message /\ (call \in Calls => k \in 1 .. 1)
    BY <1>1, <1>12, Lengths DEF Script
  <2>2. QED
    BY <1>12, <2>1 DEF At, rfm73_transmit_message
<1>13. CASE call = "receive"
  <2>1. Script[call] = rfm73_receive /\ (call \in Calls => k \in 1 .. 4)
    BY <1>1, <1>13, Lengths DEF Script
  <2>2. QED
    BY <1>13, <2>1 DEF At, rfm73_receive
<1>14. CASE call = "other"
  <2>1. Script[call] = OtherSetting /\ (call \in Calls => k \in 1 .. 2)
    BY <1>1, <1>14, Lengths DEF Script
  <2>2. QED
    BY <1>14, <2>1 DEF At, OtherSetting
<1>15. QED
  BY <1>2, <1>3, <1>4, <1>5, <1>6, <1>7, <1>8, <1>9,
     <1>10, <1>11, <1>12, <1>13, <1>14, CallNames DEF At

\* Which access is made at the places the invariants speak of.
LEMMA Accesses ==
  /\ Script["init"][2] = "rdStatus" /\ Script["init"][3] = "bank0"
  /\ Script["init"][10] = "rdStatus" /\ Script["init"][11] = "bank1"
  /\ Script["init"][13] = "rdStatus" /\ Script["init"][14] = "bank0"
  /\ Script["init"][5] = "rdFeature"
  /\ Script["is_present"][2] = "toggle" /\ Script["is_present"][4] = "toggle"
  /\ Script["rssi_level"][1] = "rdStatus" /\ Script["rssi_level"][2] = "bank1"
  /\ Script["rssi_level"][4] = "rdStatus" /\ Script["rssi_level"][5] = "bank0"
  /\ Script["receive"][1] = "rdFifo" /\ Script["receive"][2] = "rdLength"
  /\ Script["mode_transmit"][1] = "flushTx" /\ Script["mode_transmit"][2] = "rdStatus"
  /\ Script["mode_transmit"][3] = "wrStatus"
  /\ Script["mode_transmit"][6] = "cfgTx" /\ Script["mode_transmit"][7] = "ce1"
  /\ Script["mode_receive"][6] = "cfgRx" /\ Script["mode_receive"][7] = "ce1"
  /\ Script["mode_powerdown"][3] = "cfgDown" /\ Script["mode_standby"][3] = "cfgUp"
  /\ Script["mode_standby"][1] = "ce0" /\ Script["init"][1] = "ce0"
  /\ Script["init"][4] = "table"
  /\ Script["crc_length"][1] = "rdConfig"
  /\ Script["power"][1] = "ce0" /\ Script["power"][4] = "ce1"
  /\ Script["air_data_rate"][1] = "ce0" /\ Script["air_data_rate"][4] = "ce1"
BY DEF Script, rfm73_init, rfm73_is_present, rfm73_rssi_level, rfm73_receive,
   rfm73_mode_transmit, rfm73_mode_receive, rfm73_mode_powerdown, rfm73_mode_standby,
   rfm73_crc_length, rfm73_power, rfm73_air_data_rate

-----------------------------------------------------------------------------
\* A step from one access to the next.

\* Where an access at op may lead: the next one of the script, or its end.
LEMMA Moved ==
  ASSUME TypeOK, NEW op, At(op), Advance
  PROVE  /\ call \in Calls /\ k \in 1 .. Len(Script[call]) /\ Script[call][k] = op
         /\ Len(Script[call]) \in Nat
         /\ \/ /\ call' = call /\ k' = k + 1 /\ k < Len(Script[call]) /\ asked' = asked
            \/ /\ call' = "idle" /\ k' = 0 /\ k = Len(Script[call])
               /\ asked' = AskedAfter(call)
<1>1. call \in Calls /\ k \in 1 .. Len(Script[call]) /\ Script[call][k] = op
  BY CallNames DEF TypeOK, At
<1>2. Len(Script[call]) \in Nat
  BY <1>1, CallNames, Lengths
<1>3. QED
  BY <1>1, <1>2 DEF Advance

LEMMA MovedType ==
  ASSUME TypeOK, NEW op, At(op), Advance
  PROVE  /\ \/ call' \in {"idle", "off"} /\ k' = 0
            \/ call' \in Calls /\ k' \in 1 .. Len(Script[call'])
         /\ asked' \in Asked
<1>1. asked \in Asked
  BY DEF TypeOK
<1>2. AskedAfter(call) \in Asked
  BY <1>1 DEF AskedAfter, ModeOf, Asked
<1>3. QED
  BY <1>1, <1>2, Moved

\* The bank stays known as long as only rfm73_bank and rfm73_is_present toggle it.
LEMMA BankKept ==
  ASSUME TypeOK, BankInv, NEW op, At(op), Advance,
         op \notin {"bank0", "bank1", "toggle"},
         chip'.bank = chip.bank, op = "rdStatus" => seen'.bank = chip.bank
  PROVE  BankInv'
<1>1. CASE call = "init"
  BY <1>1, Moved, Lengths, Accesses, CallNames DEF BankInv
<1>2. CASE call = "is_present"
  BY <1>2, Moved, Lengths, Accesses, CallNames DEF BankInv
<1>3. CASE call = "rssi_level"
  BY <1>3, Moved, Lengths, Accesses, CallNames DEF BankInv
<1>4. CASE call \notin {"init", "is_present", "rssi_level"}
  BY <1>4, Moved, CallNames DEF BankInv
<1>5. QED
  BY <1>1, <1>2, <1>3, <1>4

LEMMA FeatureKept ==
  ASSUME TypeOK, NEW op, At(op), Advance, op # "rdFeature"
  PROVE  FeatureInv'
BY Moved, Accesses, CallNames DEF FeatureInv

LEMMA ReceiveKept ==
  ASSUME TypeOK, NEW op, At(op), Advance, op \notin {"rdFifo", "rdLength"}
  PROVE  ReceiveInv'
BY Moved, Accesses, Lengths, CallNames DEF ReceiveInv

LEMMA BlockKept ==
  ASSUME TypeOK, BlockInv, NEW op, At(op), Advance,
         op \notin {"flushTx", "rdStatus", "wrStatus"},
         call = "mode_transmit" => chip'.txcount = chip.txcount /\ chip'.maxrt = chip.maxrt
  PROVE  BlockInv'
BY Moved, Accesses, Lengths, CallNames DEF BlockInv

LEMMA ModeKept ==
  ASSUME TypeOK, ModeInv, NEW op, At(op), Advance,
         op \notin {"ce0", "ce1", "rdConfig", "cfgRx", "cfgTx", "cfgUp", "cfgDown",
                    "cfgSame", "table"},
         chip'.ce = chip.ce, chip'.config = chip.config,
         call = "crc_length" => call' = "idle" \/ seen'.config = seen.config
  PROVE  ModeInv'
<1>1. CASE call = "mode_receive"
  BY <1>1, Moved, Accesses, Lengths, CallNames DEF ModeInv, ModeCalls
<1>1a. CASE call = "mode_transmit"
  BY <1>1a, Moved, Accesses, Lengths, CallNames DEF ModeInv, ModeCalls
<1>1b. CASE call = "mode_powerdown"
  BY <1>1b, Moved, Accesses, Lengths, CallNames DEF ModeInv, ModeCalls
<1>2. CASE call = "mode_standby"
  BY <1>2, Moved, Accesses, Lengths, CallNames DEF ModeInv, ModeCalls
<1>3. CASE call = "init"
  <2>1. k \in 2 .. 14 /\ k # 4
    BY <1>3, Moved, Accesses, Lengths
  <2>2. ~chip.ce /\ (k >= 5 => chip.config.up /\ chip.config.rx)
    BY <1>3, <2>1 DEF ModeInv
  <2>3. CASE call' = call
    BY <1>3, <2>1, <2>2, <2>3, Moved DEF ModeInv, ModeCalls
  <2>4. CASE call' # call
    <3>1. call' = "idle" /\ asked' = "init" /\ k = 14
      BY <1>3, <2>4, Moved, Lengths DEF AskedAfter, ModeCalls, ModeOf
    <3>2. QED
      BY <2>2, <3>1 DEF ModeInv, ConfigHolds, CEHolds
  <2>5. QED
    BY <2>3, <2>4
<1>4. CASE call \in Leaving
  <2>1. Len(Script[call]) = 4 /\ k \in {2, 3}
    <3>1. Len(Script[call]) = 4 /\ Script[call][1] = "ce0" /\ Script[call][4] = "ce1"
      BY <1>4, Accesses, Lengths DEF Leaving
    <3>2. k \in 1 .. 4 /\ Script[call][k] = op
      BY <3>1, Moved
    <3>3. k # 1 /\ k # 4
      BY <3>1, <3>2
    <3>4. QED
      BY <3>1, <3>2, <3>3
  <2>2. asked' = asked /\ call' = call /\ k' >= 2
    BY <2>1, Moved
  <2>3. call \in Calls \ ModeCalls
    BY <1>4, CallNames DEF Leaving, ModeCalls
  <2>4. ConfigHolds' /\ CEHolds'
    BY <1>4, <2>2, <2>3 DEF ModeInv, ConfigHolds, CEHolds
  <2>5. QED
    BY <1>4, <2>2, <2>4 DEF ModeInv, Leaving
<1>5. CASE call = "crc_length"
  <2>1. call \in Calls \ ModeCalls /\ call \notin Leaving
    BY <1>5, CallNames DEF Leaving, ModeCalls
  <2>2. asked' = asked /\ call' \in {call, "idle"}
    BY <2>1, Moved DEF AskedAfter
  <2>3. ConfigHolds' /\ CEHolds'
    BY <1>5, <2>1, <2>2 DEF ModeInv, ConfigHolds, CEHolds, Leaving
  <2>4. k >= 2
    BY <1>5, Moved, Accesses, Lengths
  <2>5. QED
    BY <1>5, <2>2, <2>3, <2>4 DEF ModeInv
<1>6. CASE call \in Calls \ (ModeCalls \cup Leaving \cup {"crc_length"})
  <2>1. asked' = asked /\ call' \in {call, "idle"}
    BY <1>6, Moved DEF AskedAfter
  <2>2. ConfigHolds' /\ CEHolds'
    BY <1>6, <2>1 DEF ModeInv, ConfigHolds, CEHolds, Leaving
  <2>3. QED
    BY <1>6, <2>1, <2>2 DEF ModeInv, ModeCalls
<1>7. QED
  BY <1>1, <1>1a, <1>1b, <1>2, <1>3, <1>4, <1>5, <1>6, Moved DEF ModeCalls

-----------------------------------------------------------------------------
\* Writes.

LEMMA WriteEffect ==
  ASSUME TypeOK, NEW op, NEW c, Write(op, c)
  PROVE  /\ At(op) /\ Advance /\ chip' = c
         /\ seen' \in Seen
         /\ call' = "idle" \/ seen' = seen
<1>1. At(op) /\ Advance /\ chip' = c
  BY DEF Write
<1>2. Unread \in Seen
  BY DEF Unread, Seen, Config, Down
<1>3. QED
  BY <1>1, <1>2, Moved DEF Write, TypeOK

LEMMA WriteType ==
  ASSUME TypeOK, NEW op, NEW c \in Chip, Write(op, c)
  PROVE  TypeOK'
BY WriteEffect, MovedType DEF TypeOK

\* A write that changes nothing the invariants speak of.
LEMMA WriteKept ==
  ASSUME RfmInv, NEW op, NEW c \in Chip, Write(op, c),
         op \in {"reg0", "reg1", "feature", "activate", "flushRx", "payload", "rdPayload"},
         c.bank = chip.bank, c.ce = chip.ce, c.config = chip.config,
         call = "mode_transmit" => c.txcount = chip.txcount /\ c.maxrt = chip.maxrt
  PROVE  RfmInv'
<1>1. /\ TypeOK /\ At(op) /\ Advance /\ chip' = c
      /\ call' = "idle" \/ seen' = seen
  BY WriteEffect DEF RfmInv
<1>2. TypeOK'
  BY <1>1, WriteType
<1>3. BankInv'
  BY <1>1, BankKept DEF RfmInv
<1>4. FeatureInv' /\ ReceiveInv'
  BY <1>1, FeatureKept, ReceiveKept
<1>5. BlockInv'
  BY <1>1, BlockKept DEF RfmInv
<1>6. ModeInv'
  BY <1>1, ModeKept DEF RfmInv
<1>7. QED
  BY <1>2, <1>3, <1>4, <1>5, <1>6 DEF RfmInv

LEMMA PlainWriteInv ==
  ASSUME RfmInv, Other \/ WriteFeature \/ Activate \/ FlushRx \/ WritePayload \/ ReadPayload
  PROVE  RfmInv'
<1>1. TypeOK /\ chip \in Chip
  BY DEF RfmInv, TypeOK
<1>2. CASE Other
  BY <1>1, <1>2, WriteKept DEF Other
<1>3. CASE WriteFeature
  <2> DEFINE c == [chip EXCEPT !.feature = @ \/ chip.activated]
  <2>1. c \in Chip /\ c.bank = chip.bank /\ c.ce = chip.ce /\ c.config = chip.config
        /\ c.txcount = chip.txcount /\ c.maxrt = chip.maxrt
    BY <1>1 DEF Chip
  <2>2. Write("feature", c)
    BY <1>3 DEF WriteFeature
  <2> HIDE DEF c
  <2>3. QED
    BY <2>1, <2>2, WriteKept
<1>4. CASE Activate
  <2> DEFINE c == IF seen.feature THEN chip ELSE [chip EXCEPT !.activated = ~@]
  <2>1. c \in Chip /\ c.bank = chip.bank /\ c.ce = chip.ce /\ c.config = chip.config
        /\ c.txcount = chip.txcount /\ c.maxrt = chip.maxrt
    BY <1>1 DEF Chip
  <2>2. Write("activate", c)
    BY <1>4 DEF Activate
  <2> HIDE DEF c
  <2>3. QED
    BY <2>1, <2>2, WriteKept
<1>5. CASE FlushRx
  <2> DEFINE none == <<>>
             c == [chip EXCEPT !.rxfifo = none]
  <2>1. none \in Seq(Sizes)
    OBVIOUS
  <2>2. Write("flushRx", c)
    BY <1>5 DEF FlushRx
  <2> HIDE DEF none
  <2>3. c \in Chip /\ c.bank = chip.bank /\ c.ce = chip.ce /\ c.config = chip.config
        /\ c.txcount = chip.txcount /\ c.maxrt = chip.maxrt
    BY <1>1, <2>1 DEF Chip
  <2> HIDE DEF c
  <2>4. QED
    BY <2>2, <2>3, WriteKept
<1>6. CASE WritePayload
  <2> DEFINE c == IF chip.txcount < FifoDepth THEN [chip EXCEPT !.txcount = @ + 1] ELSE chip
  <2>1. c \in Chip /\ c.bank = chip.bank /\ c.ce = chip.ce /\ c.config = chip.config
    BY <1>1, RadioAssumption DEF Chip
  <2>2. Write("payload", c)
    BY <1>6 DEF WritePayload
  <2>3. call # "mode_transmit"
    BY <1>1, <2>2, Places DEF Write
  <2> HIDE DEF c
  <2>4. QED
    BY <2>1, <2>2, <2>3, WriteKept
<1>7. CASE ReadPayload
  <2> DEFINE rest == IF chip.rxfifo = <<>> THEN chip.rxfifo ELSE Tail(chip.rxfifo)
             c == [chip EXCEPT !.rxfifo = rest]
  <2>1. chip.rxfifo \in Seq(Sizes)
    BY <1>1 DEF Chip
  <2>2. rest \in Seq(Sizes)
    BY <2>1
  <2>3. Write("rdPayload", c)
    BY <1>7 DEF ReadPayload
  <2> HIDE DEF rest
  <2>4. c \in Chip /\ c.bank = chip.bank /\ c.ce = chip.ce /\ c.config = chip.config
        /\ c.txcount = chip.txcount /\ c.maxrt = chip.maxrt
    BY <1>1, <2>2 DEF Chip
  <2> HIDE DEF c
  <2>5. QED
    BY <2>3, <2>4, WriteKept
<1>8. QED
  BY <1>2, <1>3, <1>4, <1>5, <1>6, <1>7

\* rfm73_bank's toggle leaves the bank asked for.
LEMMA SelectInv ==
  ASSUME RfmInv, NEW b \in {0, 1}, Select(b)
  PROVE  RfmInv'
<1> DEFINE op == IF b = 0 THEN "bank0" ELSE "bank1"
           c == IF seen.bank # b THEN ToggleBank ELSE chip
<1>1. TypeOK /\ chip \in Chip /\ seen \in Seen /\ Write(op, c)
  BY DEF RfmInv, TypeOK, Select
<1>2. /\ chip.bank \in {0, 1} /\ seen.bank \in {0, 1}
      /\ c \in Chip /\ c.ce = chip.ce /\ c.config = chip.config
      /\ c.bank = IF seen.bank # b THEN 1 - chip.bank ELSE chip.bank
  BY <1>1 DEF Chip, Seen, ToggleBank
<1>3. At(op) /\ op \in {"bank0", "bank1"} /\ (op = "bank0" <=> b = 0)
  BY <1>1 DEF Write
<1> HIDE DEF c, op
<1>4. At(op) /\ Advance /\ chip' = c /\ (call' = "idle" \/ seen' = seen)
  BY <1>1, WriteEffect
<1>5. \/ call = "init" /\ k \in {3, 11, 14}
      \/ call = "rssi_level" /\ k \in {2, 5}
  BY <1>1, <1>3, Places
<1>6. b = 0 <=> \/ call = "init" /\ k \in {3, 14}
                \/ call = "rssi_level" /\ k = 5
  BY <1>1, <1>3, Places
<1>7. chip'.bank = b
  BY <1>2, <1>4, <1>5 DEF RfmInv, BankInv
<1>8. BankInv'
  <2>1. CASE call = "init"
    BY <2>1, <1>1, <1>4, <1>5, <1>6, <1>7, Moved, Lengths, CallNames DEF BankInv
  <2>2. CASE call = "rssi_level"
    BY <2>2, <1>1, <1>4, <1>5, <1>6, <1>7, Moved, Lengths, CallNames DEF BankInv
  <2>3. QED
    BY <1>5, <2>1, <2>2
<1>9. TypeOK'
  BY <1>1, <1>2, WriteType
<1>10. FeatureInv' /\ ReceiveInv'
  BY <1>1, <1>3, <1>4, FeatureKept, ReceiveKept
<1>11. BlockInv'
  BY <1>1, <1>3, <1>4, <1>5, BlockKept DEF RfmInv
<1>12. ModeInv'
  BY <1>1, <1>2, <1>3, <1>4, <1>5, ModeKept DEF RfmInv
<1>13. QED
  BY <1>8, <1>9,
     <1>10, <1>11, <1>12 DEF RfmInv

LEMMA ToggleInv ==
  ASSUME RfmInv, Toggle
  PROVE  RfmInv'
<1>1. TypeOK /\ chip \in Chip /\ Write("toggle", ToggleBank)
  BY DEF RfmInv, TypeOK, Toggle
<1>2. /\ chip.bank \in {0, 1} /\ ToggleBank \in Chip
      /\ ToggleBank.ce = chip.ce /\ ToggleBank.config = chip.config
      /\ ToggleBank.bank = 1 - chip.bank
  BY <1>1 DEF Chip, ToggleBank
<1>3. At("toggle") /\ Advance /\ chip' = ToggleBank /\ (call' = "idle" \/ seen' = seen)
  BY <1>1, WriteEffect
<1>4. call = "is_present" /\ k \in {2, 4}
  BY <1>1, <1>3, Places
<1>5. BankInv'
  BY <1>1, <1>2, <1>3, <1>4, Moved, Lengths, CallNames DEF RfmInv, BankInv
<1>6. TypeOK'
  BY <1>1, <1>2, WriteType
<1>7. FeatureInv' /\ ReceiveInv' /\ BlockInv'
  BY <1>1, <1>3, <1>4, FeatureKept, ReceiveKept, BlockKept DEF RfmInv
<1>8. ModeInv'
  BY <1>1, <1>2, <1>3, <1>4, ModeKept DEF RfmInv
<1>9. QED
  BY <1>5, <1>6, <1>7, <1>8 DEF RfmInv

LEMMA CEInv ==
  ASSUME RfmInv, CE
  PROVE  RfmInv'
<1>1. PICK level \in BOOLEAN, op \in {"ce0", "ce1"} :
        Write(op, [chip EXCEPT !.ce = level]) /\ (level <=> op = "ce1")
  BY DEF CE
<1> DEFINE c == [chip EXCEPT !.ce = level]
<1>2. /\ TypeOK /\ c \in Chip /\ c.ce = level /\ c.bank = chip.bank /\ c.config = chip.config
      /\ c.txcount = chip.txcount /\ c.maxrt = chip.maxrt
  BY DEF RfmInv, TypeOK, Chip
<1> HIDE DEF c
<1>3. At(op) /\ Advance /\ chip' = c /\ (call' = "idle" \/ seen' = seen)
  BY <1>1, <1>2, WriteEffect DEF c
<1>4. TypeOK'
  BY <1>1, <1>2, WriteType DEF c
<1>5. BankInv' /\ FeatureInv' /\ ReceiveInv'
  BY <1>1, <1>2, <1>3, BankKept, FeatureKept, ReceiveKept DEF RfmInv
<1>6. BlockInv'
  BY <1>1, <1>2, <1>3, BlockKept DEF RfmInv
<1>7. ModeInv'
  <2>1. CASE op = "ce0"
    <3>1. \/ call \in {"init", "mode_standby", "mode_powerdown",
                                     "air_data_rate", "power"} /\ k = 1
          \/ call \in {"mode_receive", "mode_transmit"} /\ k = 4
      BY <1>2, <1>3, <2>1, Places
    <3>2. call' = call /\ k' = k + 1 /\ asked' = asked
      <4>1. CASE call \in {"mode_receive", "mode_transmit"}
        <5>1. Len(Script[call]) = 7 /\ k = 4
          BY <3>1, <4>1, Lengths
        <5>2. QED
          BY <1>2, <1>3, <5>1, Moved
      <4>2. CASE call \notin {"mode_receive", "mode_transmit"}
        <5>1. Len(Script[call]) \in {3, 4, 14} /\ k = 1
          BY <3>1, <4>2, Lengths
        <5>2. k # Len(Script[call])
          BY <5>1
        <5>3. QED
          BY <1>2, <1>3, <5>2, Moved
      <4>3. QED
        BY <4>1, <4>2
    <3>3. CASE call \in {"air_data_rate", "power"}
      <4>1. call \in Calls \ ModeCalls /\ k' = 2
        BY <3>1, <3>2, <3>3, CallNames DEF ModeCalls
      <4>2. ConfigHolds' /\ CEHolds'
        BY <1>1, <1>2, <1>3, <2>1, <3>2, <3>3, <4>1
           DEF RfmInv, ModeInv, ConfigHolds, CEHolds, Leaving
      <4>3. QED
        BY <3>2, <3>3, <4>1, <4>2 DEF ModeInv
    <3>4. CASE call \notin {"air_data_rate", "power"}
      BY <1>1, <1>2, <1>3, <2>1, <3>1, <3>2, <3>4 DEF ModeInv, ModeCalls
    <3>5. QED
      BY <3>3, <3>4
  <2>2. CASE op = "ce1"
    <3>1. \/ call \in {"mode_receive", "mode_transmit"} /\ k = 7
          \/ call \in {"air_data_rate", "power"} /\ k = 4
      BY <1>2, <1>3, <2>2, Places
    <3>2. call' = "idle" /\ asked' = AskedAfter(call)
      <4>1. k = Len(Script[call])
        BY <3>1, Lengths
      <4>2. QED
        BY <1>2, <1>3, <4>1, Moved
    <3>3. chip'.ce
      BY <1>1, <1>2, <1>3, <2>2
    <3>4. CASE call \in {"air_data_rate", "power"}
      <4>1. call \in Calls \ ModeCalls
        BY <3>4, CallNames DEF ModeCalls
      <4>2. asked' = IF asked \in {"init", "standby"} THEN "left" ELSE asked
        BY <3>2, <3>4, <4>1 DEF AskedAfter, Leaving
      <4>3. ConfigHolds' /\ CEHolds'
        BY <1>2, <1>3, <3>3, <4>1, <4>2 DEF RfmInv, ModeInv, ConfigHolds, CEHolds
      <4>4. QED
        BY <3>2, <3>3, <4>3 DEF ModeInv
    <3>5. CASE call \in {"mode_receive", "mode_transmit"}
      <4>1. asked' = IF call = "mode_receive" THEN "rx" ELSE "tx"
        BY <3>2, <3>5 DEF AskedAfter, ModeCalls, ModeOf
      <4>2. ConfigHolds' /\ CEHolds'
        BY <1>2, <1>3, <3>1, <3>3, <3>5, <4>1 DEF RfmInv, ModeInv, ConfigHolds, CEHolds
      <4>3. QED
        BY <3>2, <3>3, <4>2 DEF ModeInv
    <3>6. QED
      BY <3>1, <3>4, <3>5
  <2>3. QED
    BY <1>1, <2>1, <2>2
<1>8. QED
  BY <1>4, <1>5, <1>6, <1>7 DEF RfmInv

LEMMA WriteTableInv ==
  ASSUME RfmInv, WriteTable
  PROVE  RfmInv'
<1> DEFINE c == [chip EXCEPT !.config = [up |-> TRUE, rx |-> TRUE]]
<1>1. /\ TypeOK /\ c \in Chip /\ c.bank = chip.bank
      /\ c.txcount = chip.txcount /\ c.maxrt = chip.maxrt
  BY DEF RfmInv, TypeOK, Chip, Config
<1>2. Write("table", c)
  BY DEF WriteTable
<1> HIDE DEF c
<1>3. At("table") /\ Advance /\ chip' = c /\ (call' = "idle" \/ seen' = seen)
  BY <1>1, <1>2, WriteEffect
<1>4. call = "init" /\ k = 4
  BY <1>1, <1>3, Places
<1>5. TypeOK' /\ BankInv' /\ FeatureInv' /\ ReceiveInv' /\ BlockInv'
  BY <1>1, <1>2, <1>3, <1>4, WriteType, BankKept, FeatureKept, ReceiveKept, BlockKept DEF RfmInv
<1>6. call' = "init" /\ k' = 5
  BY <1>1, <1>3, <1>4, Moved, Lengths
<1>7. ModeInv'
  <2>1. c.ce = chip.ce /\ c.config.up /\ c.config.rx
    BY <1>1 DEF c, TypeOK, Chip
  <2>2. ~chip.ce
    BY <1>4 DEF RfmInv, ModeInv
  <2>3. QED
    BY <1>3, <1>6, <2>1, <2>2 DEF ModeInv, ModeCalls
<1>8. QED
  BY <1>5, <1>7 DEF RfmInv

LEMMA FlushTxInv ==
  ASSUME RfmInv, FlushTx
  PROVE  RfmInv'
<1> DEFINE c == [chip EXCEPT !.txcount = 0]
<1>1. /\ TypeOK /\ c \in Chip /\ c.bank = chip.bank /\ c.ce = chip.ce /\ c.config = chip.config
      /\ c.txcount = 0
  BY RadioAssumption DEF RfmInv, TypeOK, Chip
<1>2. Write("flushTx", c)
  BY DEF FlushTx
<1> HIDE DEF c
<1>3. At("flushTx") /\ Advance /\ chip' = c /\ (call' = "idle" \/ seen' = seen)
  BY <1>1, <1>2, WriteEffect
<1>4. call = "mode_transmit" /\ k = 1
  BY <1>1, <1>3, Places
<1>5. TypeOK' /\ BankInv' /\ FeatureInv' /\ ReceiveInv'
  BY <1>1, <1>2, <1>3, WriteType, BankKept, FeatureKept, ReceiveKept DEF RfmInv
<1>6. ModeInv'
  BY <1>1, <1>3, <1>4, ModeKept DEF RfmInv
<1>7. BlockInv'
  BY <1>1, <1>3, <1>4, Moved, Lengths DEF BlockInv
<1>8. QED
  BY <1>5, <1>6, <1>7 DEF RfmInv

\* What the status read showed is cleared; in rfm73_mode_transmit nothing was
\* left that could have set it since.
LEMMA ClearStatusInv ==
  ASSUME RfmInv, ClearStatus
  PROVE  RfmInv'
<1> DEFINE c == [chip EXCEPT !.maxrt = @ /\ ~seen.maxrt]
<1>1. TypeOK /\ chip.maxrt \in BOOLEAN /\ seen.maxrt \in BOOLEAN
  BY DEF RfmInv, TypeOK, Chip, Seen
<1>2. (chip.maxrt /\ ~seen.maxrt) \in BOOLEAN
  BY <1>1
<1>3. /\ c \in Chip /\ c.bank = chip.bank /\ c.ce = chip.ce /\ c.config = chip.config
      /\ c.txcount = chip.txcount /\ c.maxrt = (chip.maxrt /\ ~seen.maxrt)
  BY <1>1, <1>2 DEF TypeOK, Chip
<1>4. Write("wrStatus", c)
  BY DEF ClearStatus
<1> HIDE DEF c
<1>5. At("wrStatus") /\ Advance /\ chip' = c /\ (call' = "idle" \/ seen' = seen)
  BY <1>1, <1>4, WriteEffect
<1>6. call \in {"mode_receive", "mode_transmit"} /\ k = 3
  BY <1>1, <1>5, Places
<1>7. TypeOK' /\ BankInv' /\ FeatureInv' /\ ReceiveInv'
  BY <1>1, <1>3, <1>4, <1>5, WriteType, BankKept, FeatureKept, ReceiveKept DEF RfmInv
<1>8. ModeInv'
  BY <1>1, <1>3, <1>5, <1>6, ModeKept DEF RfmInv
<1>9. call' = call /\ k' = 4
  <2>1. k # Len(Script[call])
    BY <1>6, Lengths
  <2>2. QED
    BY <1>1, <1>5, <1>6, <2>1, Moved
<1>10. BlockInv'
  <2>1. SUFFICES ASSUME call = "mode_transmit"
                 PROVE  chip'.txcount = 0 /\ ~chip'.maxrt
    BY <1>9 DEF BlockInv
  <2>2. chip.txcount = 0 /\ (chip.maxrt => seen.maxrt)
    BY <1>6, <2>1 DEF RfmInv, BlockInv
  <2>3. QED
    BY <1>3, <1>5, <2>2
<1>11. QED
  BY <1>7, <1>8, <1>10 DEF RfmInv

LEMMA WriteConfigInv ==
  ASSUME RfmInv, WriteConfig
  PROVE  RfmInv'
<1>1. PICK op \in {"cfgRx", "cfgTx", "cfgUp", "cfgDown", "cfgSame"} :
        Write(op, [chip EXCEPT !.config = NewConfig(op)])
  BY DEF WriteConfig
<1> DEFINE c == [chip EXCEPT !.config = NewConfig(op)]
<1>2. TypeOK /\ seen.config \in Config
  BY DEF RfmInv, TypeOK, Seen
<1>3. /\ NewConfig(op) \in Config
      /\ NewConfig(op).up = (IF op = "cfgSame" THEN seen.config.up ELSE op # "cfgDown")
      /\ NewConfig(op).rx = (IF op = "cfgRx" THEN TRUE
                             ELSE IF op = "cfgTx" THEN FALSE ELSE seen.config.rx)
  BY <1>2 DEF NewConfig, Config
<1>4. /\ c \in Chip /\ c.bank = chip.bank /\ c.ce = chip.ce /\ c.config = NewConfig(op)
      /\ c.txcount = chip.txcount /\ c.maxrt = chip.maxrt
  BY <1>2, <1>3 DEF TypeOK, Chip
<1> HIDE DEF c
<1>5. At(op) /\ Advance /\ chip' = c /\ (call' = "idle" \/ seen' = seen)
  BY <1>1, <1>2, WriteEffect DEF c
<1>6. TypeOK' /\ BankInv' /\ FeatureInv' /\ ReceiveInv'
  BY <1>1, <1>2, <1>4, <1>5, WriteType, BankKept, FeatureKept, ReceiveKept DEF RfmInv, c
<1>7. BlockInv'
  BY <1>1, <1>2, <1>4, <1>5, BlockKept DEF RfmInv
<1>8. ModeInv'
  <2>1. CASE op = "cfgRx"
    <3>1. call = "mode_receive" /\ k = 6
      BY <1>2, <1>5, <2>1, Places
    <3>2. call' = "mode_receive"
      BY <1>2, <1>5, <3>1, Moved, Lengths
    <3>3. QED
      BY <1>3, <1>4, <1>5, <2>1, <3>2 DEF ModeInv, ModeCalls
  <2>2. CASE op = "cfgTx"
    <3>1. call = "mode_transmit" /\ k = 6
      BY <1>2, <1>5, <2>2, Places
    <3>2. call' = "mode_transmit"
      BY <1>2, <1>5, <3>1, Moved, Lengths
    <3>3. QED
      BY <1>3, <1>4, <1>5, <2>2, <3>2 DEF ModeInv, ModeCalls
  <2>3. CASE op \in {"cfgUp", "cfgDown"}
    <3>1. (op = "cfgUp" => call = "mode_standby" /\ k = 3)
          /\ (op = "cfgDown" => call = "mode_powerdown" /\ k = 3)
      BY <1>2, <1>5, Places
    <3>2. call' = "idle" /\ asked' = IF op = "cfgUp" THEN "standby" ELSE "down"
      <4>1. k = Len(Script[call])
        BY <2>3, <3>1, Lengths
      <4>2. call' = "idle" /\ asked' = AskedAfter(call)
        BY <1>2, <1>5, <4>1, Moved
      <4>3. QED
        BY <2>3, <3>1, <4>2 DEF AskedAfter, ModeCalls, ModeOf
    <3>3. op = "cfgUp" => ~chip.ce
      BY <3>1 DEF RfmInv, ModeInv
    <3>4. QED
      BY <1>3, <1>4, <1>5, <2>3, <3>2, <3>3 DEF ModeInv, ConfigHolds, CEHolds
  <2>4. CASE op = "cfgSame"
    <3>1. call = "crc_length" /\ k = 3
      BY <1>2, <1>5, <2>4, Places
    <3>2. call' = "idle" /\ asked' = asked /\ call \in Calls \ (ModeCalls \cup Leaving)
      BY <1>2, <1>5, <3>1, Moved, Lengths, CallNames DEF AskedAfter, Leaving, ModeCalls
    <3>3. seen.config = chip.config /\ ConfigHolds /\ CEHolds
      BY <3>1, <3>2 DEF RfmInv, ModeInv
    <3>4. ConfigHolds' /\ CEHolds'
      BY <1>3, <1>4, <1>5, <2>4, <3>2, <3>3 DEF ConfigHolds, CEHolds
    <3>5. QED
      BY <3>2, <3>4 DEF ModeInv
  <2>5. QED
    BY <2>1, <2>2, <2>3, <2>4
<1>9. QED
  BY <1>6, <1>7, <1>8 DEF RfmInv

-----------------------------------------------------------------------------
\* Reads.

LEMMA ReadEffect ==
  ASSUME TypeOK, NEW op, NEW s \in Seen, Read(op, s)
  PROVE  At(op) /\ Advance /\ chip' = chip /\ seen' = s /\ TypeOK'
<1>1. At(op) /\ Advance /\ chip' = chip /\ seen' = s
  BY DEF Read
<1>2. QED
  BY <1>1, MovedType DEF TypeOK

\* The status read shows the bank, and whether MAX_RT blocks the transmitter.
LEMMA ReadStatusInv ==
  ASSUME RfmInv, ReadStatus
  PROVE  RfmInv'
<1> DEFINE s == [seen EXCEPT !.bank = chip.bank, !.maxrt = chip.maxrt]
<1>1. TypeOK /\ seen \in Seen /\ chip.bank \in {0, 1} /\ chip.maxrt \in BOOLEAN
  BY DEF RfmInv, TypeOK, Chip
<1>2. s \in Seen /\ s.bank = chip.bank /\ s.maxrt = chip.maxrt /\ s.config = seen.config
  BY <1>1 DEF Seen
<1>3. Read("rdStatus", s)
  BY DEF ReadStatus
<1> HIDE DEF s
<1>4. At("rdStatus") /\ Advance /\ chip' = chip /\ seen' = s /\ TypeOK'
  BY <1>1, <1>2, <1>3, ReadEffect
<1>5. BankInv' /\ FeatureInv' /\ ReceiveInv'
  BY <1>1, <1>2, <1>4, BankKept, FeatureKept, ReceiveKept DEF RfmInv
<1>6. ModeInv'
  BY <1>1, <1>2, <1>4, ModeKept DEF RfmInv
<1>7. BlockInv'
  <2>1. SUFFICES ASSUME call' = "mode_transmit"
                 PROVE  k' = 3 /\ chip.txcount = 0
    BY <1>2, <1>4 DEF BlockInv
  <2>2. call = "mode_transmit" /\ k' = k + 1
    BY <1>1, <1>4, <2>1, Moved
  <2>3. k = 2
    BY <1>1, <1>4, <2>2, Places
  <2>4. QED
    BY <2>2, <2>3 DEF RfmInv, BlockInv
<1>8. QED
  BY <1>4, <1>5, <1>6, <1>7 DEF RfmInv

LEMMA ReadFeatureInv ==
  ASSUME RfmInv, ReadFeature
  PROVE  RfmInv'
<1> DEFINE s == [seen EXCEPT !.feature = Enabled]
<1>1. TypeOK /\ seen \in Seen /\ Enabled \in BOOLEAN
  BY DEF RfmInv, TypeOK, Chip, Enabled
<1>2. s \in Seen /\ s.feature = Enabled /\ s.config = seen.config
  BY <1>1 DEF Seen
<1>3. Read("rdFeature", s)
  BY DEF ReadFeature
<1> HIDE DEF s
<1>4. At("rdFeature") /\ Advance /\ chip' = chip /\ seen' = s /\ TypeOK'
  BY <1>1, <1>2, <1>3, ReadEffect
<1>5. BankInv' /\ ReceiveInv' /\ BlockInv'
  BY <1>1, <1>4, BankKept, ReceiveKept, BlockKept DEF RfmInv
<1>6. ModeInv'
  BY <1>1, <1>2, <1>4, ModeKept DEF RfmInv
<1>7. FeatureInv'
  BY <1>2, <1>4 DEF FeatureInv, Enabled
<1>8. QED
  BY <1>4, <1>5, <1>6, <1>7 DEF RfmInv

\* CONFIG is read by the mode functions, and by rfm73_crc_length, which writes it back.
LEMMA ReadConfigInv ==
  ASSUME RfmInv, ReadConfig
  PROVE  RfmInv'
<1> DEFINE s == [seen EXCEPT !.config = chip.config]
<1>1. TypeOK /\ seen \in Seen /\ chip.config \in Config
  BY DEF RfmInv, TypeOK, Chip
<1>2. s \in Seen /\ s.config = chip.config
  BY <1>1 DEF Seen
<1>3. Read("rdConfig", s)
  BY DEF ReadConfig
<1> HIDE DEF s
<1>4. At("rdConfig") /\ Advance /\ chip' = chip /\ seen' = s /\ TypeOK'
  BY <1>1, <1>2, <1>3, ReadEffect
<1>5. BankInv' /\ FeatureInv' /\ ReceiveInv' /\ BlockInv'
  BY <1>1, <1>4, BankKept, FeatureKept, ReceiveKept, BlockKept DEF RfmInv
<1>6. ModeInv'
  <2>1. \/ call = "mode_receive" /\ k = 5
        \/ call = "mode_transmit" /\ k = 5
        \/ call \in {"mode_standby", "mode_powerdown"} /\ k = 2
        \/ call = "crc_length" /\ k = 1
    BY <1>1, <1>4, Places
  <2>2. call' = call /\ k' = k + 1 /\ asked' = asked
    <3>1. k # Len(Script[call])
      <4>1. CASE call \in {"mode_receive", "mode_transmit"}
        <5>1. Len(Script[call]) = 7 /\ k = 5
          BY <2>1, <4>1, Lengths
        <5>2. QED
          BY <5>1
      <4>2. CASE call \in {"mode_standby", "mode_powerdown"}
        <5>1. Len(Script[call]) = 3 /\ k = 2
          BY <2>1, <4>2, Lengths
        <5>2. QED
          BY <5>1
      <4>3. CASE call = "crc_length"
        BY <2>1, <4>3, Lengths
      <4>4. QED
        BY <2>1, <4>1, <4>2, <4>3
    <3>2. QED
      BY <1>1, <1>4, <3>1, Moved
  <2>3. CASE call = "crc_length"
    <3>1. call \in Calls \ (ModeCalls \cup Leaving)
      BY <2>3, CallNames DEF Leaving, ModeCalls
    <3>2. ConfigHolds /\ CEHolds
      BY <2>3, <3>1 DEF RfmInv, ModeInv
    <3>3. ConfigHolds' /\ CEHolds'
      BY <1>4, <2>2, <3>1, <3>2 DEF ConfigHolds, CEHolds
    <3>4. QED
      BY <1>2, <1>4, <2>2, <2>3, <3>3 DEF ModeInv
  <2>4. CASE call # "crc_length"
    <3>1. call = "mode_standby" => ~chip.ce
      BY <2>1 DEF RfmInv, ModeInv
    <3>2. QED
      BY <1>4, <2>1, <2>2, <2>4, <3>1 DEF ModeInv, ModeCalls
  <2>5. QED
    BY <2>3, <2>4
<1>7. QED
  BY <1>4, <1>5, <1>6 DEF RfmInv

\* rfm73_receive goes on only if there is a message.
LEMMA ReadFifoInv ==
  ASSUME RfmInv, ReadFifo
  PROVE  RfmInv'
<1>1. TypeOK /\ At("rdFifo") /\ chip' = chip /\ seen' = seen
  BY DEF RfmInv, ReadFifo
<1>2. call = "receive" /\ k = 1
  BY <1>1, Places
<1>3. call \in Calls \ (ModeCalls \cup {"power", "air_data_rate", "init",
                                       "is_present", "rssi_level"})
  BY <1>2, CallNames DEF ModeCalls
<1>4. chip.bank = 0 /\ ConfigHolds /\ CEHolds /\ call \notin Leaving
  BY <1>3 DEF RfmInv, BankInv, ModeInv, Leaving
<1>5. CASE chip.rxfifo = <<>>
  <2>1. call' = "idle" /\ k' = 0 /\ asked' = asked
    BY <1>5 DEF ReadFifo
  <2>2. TypeOK'
    BY <1>1, <2>1 DEF TypeOK
  <2>3. BankInv' /\ FeatureInv' /\ ReceiveInv' /\ BlockInv'
    BY <1>1, <1>4, <2>1 DEF BankInv, FeatureInv, ReceiveInv, BlockInv
  <2>4. ModeInv'
    BY <1>1, <1>4, <2>1 DEF ModeInv, ConfigHolds, CEHolds, Leaving
  <2>5. QED
    BY <2>2, <2>3, <2>4 DEF RfmInv
<1>6. CASE chip.rxfifo # <<>>
  <2>1. Advance
    BY <1>6 DEF ReadFifo
  <2>2. TypeOK'
    BY <1>1, <2>1, MovedType DEF TypeOK
  <2>3. BankInv' /\ FeatureInv' /\ BlockInv'
    BY <1>1, <2>1, BankKept, FeatureKept, BlockKept DEF RfmInv
  <2>4. ModeInv'
    BY <1>1, <2>1, ModeKept DEF RfmInv
  <2>5. k' = 2
    BY <1>1, <1>2, <2>1, Moved, Lengths
  <2>6. ReceiveInv'
    BY <1>1, <1>6, <2>5 DEF ReceiveInv
  <2>7. QED
    BY <2>2, <2>3, <2>4, <2>6 DEF RfmInv
<1>7. QED
  BY <1>5, <1>6

LEMMA ReadLengthInv ==
  ASSUME RfmInv, ReadLength
  PROVE  RfmInv'
<1>1. TypeOK /\ seen \in Seen /\ chip.rxfifo \in Seq(Sizes)
  BY DEF RfmInv, TypeOK, Chip
<1>2. PICK n \in IF Enabled /\ chip.rxfifo # <<>> THEN {Head(chip.rxfifo)} ELSE JunkSizes :
        Read("rdLength", [seen EXCEPT !.size = n])
  BY DEF ReadLength
<1>3. n \in Nat
  <2>1. CASE Enabled /\ chip.rxfifo # <<>>
    <3>1. n = Head(chip.rxfifo)
      BY <1>2, <2>1
    <3>2. Head(chip.rxfifo) \in Sizes
      BY <1>1, <2>1
    <3>3. QED
      BY <3>1, <3>2, RadioAssumption
  <2>2. CASE ~(Enabled /\ chip.rxfifo # <<>>)
    BY <1>2, <2>2, RadioAssumption
  <2>3. QED
    BY <2>1, <2>2
<1> DEFINE s == [seen EXCEPT !.size = n]
<1>4. s \in Seen /\ s.size = n /\ s.config = seen.config
  BY <1>1, <1>3 DEF Seen
<1>5. Read("rdLength", s)
  BY <1>2
<1> HIDE DEF s
<1>6. At("rdLength") /\ Advance /\ chip' = chip /\ seen' = s /\ TypeOK'
  BY <1>1, <1>4, <1>5, ReadEffect
<1>7. BankInv' /\ FeatureInv' /\ BlockInv'
  BY <1>1, <1>6, BankKept, FeatureKept, BlockKept DEF RfmInv
<1>8. ModeInv'
  BY <1>1, <1>4, <1>6, ModeKept DEF RfmInv
<1>9. call = "receive" /\ k = 2
  BY <1>1, <1>6, Places
<1>10. chip.rxfifo # <<>>
  BY <1>9 DEF RfmInv, ReceiveInv
<1>11. ReceiveInv'
  BY <1>4, <1>6, <1>10 DEF ReceiveInv, Enabled
<1>12. QED
  BY <1>6, <1>7, <1>8, <1>11 DEF RfmInv

-----------------------------------------------------------------------------
\* A call begins, the radio works, the processor restarts.

LEMMA CallInv ==
  ASSUME RfmInv, NEW c \in Calls, Call(c)
  PROVE  RfmInv'
<1>1. /\ call = "idle" \/ (call = "off" /\ c = "init")
      /\ call' = c /\ k' = 1 /\ chip' = chip /\ seen' = seen /\ asked' = asked
  BY DEF Call
<1>2. TypeOK'
  <2>1. Len(Script[c]) \in 1 .. 14
    BY CallNames, Lengths
  <2>2. 1 \in 1 .. Len(Script[c])
    <3>1. \A n \in 1 .. 14 : 1 \in 1 .. n
      OBVIOUS
    <3>2. QED
      BY <2>1, <3>1, Zenon
  <2>3. call' \in Calls /\ k' \in 1 .. Len(Script[call'])
    BY <1>1, <2>2, Zenon
  <2>4. QED
    BY <1>1, <2>3 DEF RfmInv, TypeOK
<1>3. c # "init" => chip.bank = 0 /\ call = "idle" /\ ConfigHolds /\ CEHolds
  BY <1>1 DEF RfmInv, BankInv, ModeInv
<1>4. BankInv' /\ FeatureInv' /\ ReceiveInv' /\ BlockInv'
  BY <1>1, <1>3 DEF BankInv, FeatureInv, ReceiveInv, BlockInv
<1>5. ModeInv'
  BY <1>1, <1>3 DEF ModeInv, ConfigHolds, CEHolds, Leaving, ModeCalls
<1>6. QED
  BY <1>2, <1>4, <1>5 DEF RfmInv

\* A message that arrives leaves the head of the FIFO as it is.
LEMMA ArriveInv ==
  ASSUME RfmInv, NEW n \in Sizes, Arrive(n)
  PROVE  RfmInv'
<1> DEFINE p == chip.rxfifo
           q == Append(p, n)
           c == [chip EXCEPT !.rxfifo = q]
<1>1. chip \in Chip /\ chip.rxfifo \in Seq(Sizes)
  BY DEF RfmInv, TypeOK, Chip
<1>2. q \in Seq(Sizes) /\ q # <<>> /\ (p # <<>> => Head(q) = Head(p))
  <2>1. p \in Seq(Sizes)
    BY <1>1
  <2> HIDE DEF p
  <2>2. q \in Seq(Sizes) /\ Len(q) = Len(p) + 1 /\ Len(p) \in Nat
    BY <2>1
  <2>3. p # <<>> => q[1] = p[1]
    BY <2>1
  <2>4. QED
    BY <2>1, <2>2, <2>3
<1>3. chip' = c /\ call' = call /\ k' = k /\ seen' = seen /\ asked' = asked
  BY DEF Arrive
<1> HIDE DEF q
<1>4. /\ c \in Chip /\ c.rxfifo = q /\ c.bank = chip.bank /\ c.ce = chip.ce
      /\ c.config = chip.config /\ c.activated = chip.activated /\ c.feature = chip.feature
      /\ c.txcount = chip.txcount /\ c.maxrt = chip.maxrt
  BY <1>1, <1>2 DEF Chip
<1> HIDE DEF c
<1>5. TypeOK' /\ BankInv' /\ FeatureInv' /\ BlockInv'
  BY <1>3, <1>4 DEF RfmInv, TypeOK, BankInv, FeatureInv, BlockInv, Enabled
<1>6. ReceiveInv'
  BY <1>2, <1>3, <1>4 DEF RfmInv, ReceiveInv, Enabled
<1>7. ModeInv'
  BY <1>3, <1>4 DEF RfmInv, ModeInv, ConfigHolds, CEHolds
<1>8. QED
  BY <1>5, <1>6, <1>7 DEF RfmInv

\* Once rfm73_mode_transmit has flushed the FIFO nothing is sent.
LEMMA TransmitInv ==
  ASSUME RfmInv, NEW acked \in BOOLEAN, Transmit(acked)
  PROVE  RfmInv'
<1>1. chip \in Chip /\ chip.txcount \in 1 .. FifoDepth
  BY RadioAssumption DEF RfmInv, TypeOK, Chip, Transmit, Sending
<1> DEFINE c == IF acked THEN [chip EXCEPT !.txcount = @ - 1]
                ELSE [chip EXCEPT !.maxrt = TRUE]
<1>2. /\ chip' = c /\ c \in Chip
      /\ c.rxfifo = chip.rxfifo /\ c.bank = chip.bank /\ c.ce = chip.ce
      /\ c.config = chip.config /\ c.activated = chip.activated /\ c.feature = chip.feature
  <2>1. chip' = c
    BY DEF Transmit
  <2>2. chip.txcount - 1 \in 0 .. FifoDepth
    BY <1>1, RadioAssumption
  <2>3. QED
    BY <1>1, <2>1, <2>2 DEF Chip
<1> HIDE DEF c
<1>3. call' = call /\ k' = k /\ seen' = seen /\ asked' = asked
  BY DEF Transmit
<1>4. TypeOK' /\ BankInv' /\ FeatureInv' /\ ReceiveInv'
  BY <1>2, <1>3 DEF RfmInv, TypeOK, BankInv, FeatureInv, ReceiveInv, Enabled
<1>5. ~(call = "mode_transmit" /\ k >= 2)
  BY <1>1 DEF RfmInv, BlockInv
<1>6. call = "mode_transmit" => k = 1
  BY <1>5, Lengths, CallNames DEF RfmInv, TypeOK
<1>7. BlockInv'
  BY <1>3, <1>6 DEF BlockInv
<1>8. ModeInv'
  BY <1>2, <1>3 DEF RfmInv, ModeInv, ConfigHolds, CEHolds
<1>9. QED
  BY <1>4, <1>7, <1>8 DEF RfmInv

LEMMA RestartInv ==
  ASSUME RfmInv, Restart
  PROVE  RfmInv'
<1>1. PICK level \in BOOLEAN : chip' = [chip EXCEPT !.ce = level]
  BY DEF Restart
<1>2. call' = "off" /\ k' = 0 /\ asked' = "none" /\ seen' = Unread
  BY DEF Restart
<1>3. chip' \in Chip
  BY <1>1 DEF RfmInv, TypeOK, Chip
<1>4. Unread \in Seen
  BY DEF Unread, Seen, Config, Down
<1>5. TypeOK'
  BY <1>2, <1>3, <1>4 DEF TypeOK, Asked
<1>6. BankInv' /\ FeatureInv' /\ ReceiveInv' /\ BlockInv' /\ ModeInv'
  BY <1>2, CallNames DEF BankInv, FeatureInv, ReceiveInv, BlockInv, ModeInv, ModeCalls
<1>7. QED
  BY <1>5, <1>6 DEF RfmInv

LEMMA InitInv ==
  ASSUME Init
  PROVE  RfmInv
<1>1. /\ Unread \in Seen /\ Down \in Config
      /\ <<>> \in Seq(Sizes) /\ 0 \in 0 .. FifoDepth
  BY RadioAssumption DEF Unread, Seen, Config, Down
<1>2. TypeOK
  BY <1>1 DEF Init, TypeOK, Asked, Chip
<1>3. BankInv /\ FeatureInv /\ ReceiveInv /\ BlockInv /\ ModeInv
  BY CallNames DEF Init, BankInv, FeatureInv, ReceiveInv, BlockInv, ModeInv, ModeCalls
<1>4. QED
  BY <1>2, <1>3 DEF RfmInv

LEMMA StepInv ==
  ASSUME RfmInv, [Next]_vars
  PROVE  RfmInv'
<1>1. CASE Access
  BY <1>1, PlainWriteInv, SelectInv, ToggleInv, CEInv, WriteTableInv, FlushTxInv,
     ClearStatusInv, WriteConfigInv, ReadStatusInv, ReadFeatureInv, ReadConfigInv,
     ReadFifoInv, ReadLengthInv DEF Access
<1>2. CASE \E c \in Calls : Call(c)
  BY <1>2, CallInv
<1>3. CASE Radio
  BY <1>3, ArriveInv, TransmitInv DEF Radio
<1>4. CASE Restart
  BY <1>4, RestartInv
<1>5. CASE UNCHANGED vars
  BY <1>5 DEF vars, RfmInv, TypeOK, BankInv, FeatureInv, ReceiveInv, BlockInv, ModeInv,
     ConfigHolds, CEHolds, Enabled
<1>6. QED
  BY <1>1, <1>2, <1>3, <1>4, <1>5 DEF Next

\* What a step may rely on.
LEMMA Invariance == Spec => []RfmInv
<1>1. Init => RfmInv
  BY InitInv
<1>2. RfmInv /\ [Next]_vars => RfmInv'
  BY StepInv
<1>3. QED
  BY <1>1, <1>2, PTL DEF Spec

-----------------------------------------------------------------------------
\* The theorems.

\* The program counter of the driver stays within the scripts and the radio within
\* its FIFOs.
THEOREM TypeCorrect == Spec => []TypeOK
<1>1. RfmInv => TypeOK
  BY DEF RfmInv
<1>2. QED
  BY <1>1, Invariance, PTL

\* Every access of the driver finds the bank selected that it is meant for,
\* whichever bank a restart at any access left selected.
THEOREM BankAlwaysAsMeant == Spec => []BankAsMeant
<1>1. RfmInv => BankAsMeant
  <2>1. SUFFICES ASSUME RfmInv PROVE BankAsMeant
    OBVIOUS
  <2>2. TypeOK /\ BankInv
    BY <2>1 DEF RfmInv
  <2>3. call = "idle" => chip.bank = 0
    BY <2>2 DEF BankInv
  <2>4. At("reg0") => chip.bank = 0
    BY <2>2, Places, CallNames DEF BankInv
  <2>5. At("table") \/ At("rdFeature") \/ At("feature") \/ At("rdFifo") => chip.bank = 0
    BY <2>2, Places, CallNames DEF BankInv
  <2>6. At("rdConfig") \/ At("cfgRx") \/ At("cfgTx") => chip.bank = 0
    BY <2>2, Places, CallNames DEF BankInv
  <2>7. At("cfgUp") \/ At("cfgDown") \/ At("cfgSame") => chip.bank = 0
    BY <2>2, Places, CallNames DEF BankInv
  <2>8. At("reg1") => chip.bank = 1
    BY <2>2, Places, CallNames DEF BankInv
  <2>9. QED
    BY <2>3, <2>4, <2>5, <2>6, <2>7, <2>8 DEF BankAsMeant
<1>2. QED
  BY <1>1, Invariance, PTL

\* Between calls CE and CONFIG are those of the mode last asked for; a standby,
\* rfm73_init's included, lasts until rfm73_power or rfm73_air_data_rate ends it.
THEOREM ModesHold == Spec => []ModeHolds
<1>1. RfmInv => ModeHolds
  BY DEF RfmInv, ModeInv, ConfigHolds, CEHolds, Leaving, ModeHolds, Listening
<1>2. QED
  BY <1>1, Invariance, PTL

\* When rfm73_receive reads a message there is one, and while the extra features
\* are in force the length it read before is that message's.
THEOREM LengthsMatch == Spec => []LengthMatches
<1>1. RfmInv => LengthMatches
  BY Places DEF RfmInv, ReceiveInv, LengthMatches
<1>2. QED
  BY <1>1, Invariance, PTL

\* The extra features of the radio, once in force, are never toggled off, though
\* rfm73_init may be broken off by a restart at any access and run again.
THEOREM FeaturesStay == Spec => EnabledForGood
<1>1. RfmInv /\ [Next]_vars => (Enabled => Enabled')
  <2>1. SUFFICES ASSUME RfmInv, [Next]_vars, Enabled
                 PROVE  Enabled'
    OBVIOUS
  <2>2. /\ TypeOK /\ chip \in Chip /\ chip.activated /\ chip.feature
    BY <2>1 DEF RfmInv, TypeOK, Enabled
  <2>3. CASE Activate
    <3>1. At("activate") /\ chip' = (IF seen.feature THEN chip
                                     ELSE [chip EXCEPT !.activated = ~@])
      BY <2>3 DEF Activate, Write
    <3>2. seen.feature
      BY <2>1, <2>2, <3>1, Places DEF RfmInv, FeatureInv
    <3>3. QED
      BY <2>1, <3>1, <3>2 DEF Enabled
  <2>4. CASE Other \/ CE \/ Toggle \/ (\E b \in {0, 1} : Select(b))
    BY <2>1, <2>2, <2>4 DEF Other, CE, Toggle, Select, ToggleBank, Write, Enabled, Chip
  <2>5. CASE WriteTable \/ WriteFeature \/ FlushRx \/ FlushTx \/ ClearStatus
    BY <2>1, <2>2, <2>5 DEF WriteTable, WriteFeature, FlushRx, FlushTx, ClearStatus,
       Write, Enabled, Chip
  <2>6. CASE WriteConfig \/ WritePayload \/ ReadPayload
    BY <2>1, <2>2, <2>6 DEF WriteConfig, WritePayload, ReadPayload, Write, Enabled, Chip
  <2>7. CASE ReadStatus \/ ReadFeature \/ ReadConfig \/ ReadFifo \/ ReadLength
    BY <2>1, <2>7 DEF ReadStatus, ReadFeature, ReadConfig, ReadFifo, ReadLength, Read, Enabled
  <2>8. CASE (\E c \in Calls : Call(c)) \/ UNCHANGED vars
    BY <2>1, <2>8 DEF Call, vars, Enabled
  <2>9. CASE Radio \/ Restart
    BY <2>1, <2>2, <2>9 DEF Radio, Arrive, Transmit, Restart, Enabled, Chip
  <2>10. QED
    BY <2>1, <2>3, <2>4, <2>5, <2>6, <2>7, <2>8, <2>9 DEF Next, Access
<1>2. RfmInv /\ [Next]_vars => [Enabled => Enabled']_vars
  BY <1>1
<1>3. QED
  BY <1>2, Invariance, PTL DEF Spec, EnabledForGood

\* However late a transmission is given up, rfm73_mode_transmit ends with MAX_RT
\* cleared.
THEOREM TransmitsUnblock == Spec => TransmitUnblocks
<1>1. RfmInv /\ [Next]_vars =>
        (call = "mode_transmit" /\ call' = "idle" => ~chip'.maxrt)
  <2>1. SUFFICES ASSUME RfmInv, [Next]_vars, call = "mode_transmit", call' = "idle"
                 PROVE  ~chip'.maxrt
    OBVIOUS
  <2>2. TypeOK /\ chip \in Chip
    BY <2>1 DEF RfmInv, TypeOK
  <2>3. CASE Access
    <3>1. PICK op : At(op) /\ (Advance \/ op = "rdFifo")
      BY <2>3 DEF Access, Other, CE, ReadStatus, Toggle, Select, WriteTable, ReadFeature,
         Activate, WriteFeature, FlushRx, FlushTx, ClearStatus, ReadConfig, WriteConfig,
         WritePayload, ReadFifo, ReadLength, ReadPayload, Write, Read
    <3>2. op # "rdFifo"
      BY <2>1, <2>2, <3>1, Places
    <3>3. k = 7 /\ op = "ce1"
      <4>1. Len(Script[call]) = 7
        BY <2>1, Lengths
      <4>2. k = 7 /\ Script[call][k] = op
        BY <2>1, <2>2, <3>1, <3>2, <4>1, Moved
      <4>3. QED
        BY <2>1, <4>2, Accesses
    <3>4. ~chip.maxrt
      BY <2>1, <3>3 DEF RfmInv, BlockInv
    <3>5. chip' = [chip EXCEPT !.ce = TRUE]
      <4>1. \A o : At(o) => o = "ce1"
        BY <3>1, <3>3 DEF At
      <4>2. QED
        BY <2>3, <4>1 DEF Access, Other, CE, ReadStatus, Toggle, Select, WriteTable,
           ReadFeature, Activate, WriteFeature, FlushRx, FlushTx, ClearStatus, ReadConfig,
           WriteConfig, WritePayload, ReadFifo, ReadLength, ReadPayload, Write, Read
    <3>6. QED
      BY <2>2, <3>4, <3>5 DEF Chip
  <2>4. CASE (\E c \in Calls : Call(c)) \/ Radio \/ Restart \/ UNCHANGED vars
    BY <2>1, <2>4 DEF Call, Radio, Arrive, Transmit, Restart, vars
  <2>5. QED
    BY <2>1, <2>3, <2>4 DEF Next
<1>2. RfmInv /\ [Next]_vars =>
        [call = "mode_transmit" /\ call' = "idle" => ~chip'.maxrt]_vars
  BY <1>1
<1>3. QED
  BY <1>2, Invariance, PTL DEF Spec, TransmitUnblocks
=============================================================================
