-------------------------------- MODULE Rfm73 --------------------------------
(***************************************************************************)
(* The RFM73 radio driver (RFM73/rfm73.c) and the radio.                   *)
(*                                                                         *)
(* A function of the driver is a script, the accesses it makes to the      *)
(* radio in order; each access is a step of its own.  Between two of them  *)
(* the radio receives and transmits, and the processor may restart while   *)
(* the radio keeps its power: its register bank and the activation of its  *)
(* extra features are toggled by commands, so the driver must find out     *)
(* where they stand.                                                       *)
(*                                                                         *)
(* The radio is not part of the repository: it is modelled by what the     *)
(* driver and rfm73.h say of it.  An operator named Bug... is a mistake    *)
(* the definition after it could have held; the specification does not     *)
(* use it.                                                                 *)
(***************************************************************************)
EXTENDS Integers, Sequences

CONSTANTS
  FifoDepth,    \* messages each FIFO of the radio holds
  Sizes,        \* sizes of a message
  JunkSizes     \* sizes read while dynamic payloads are off (a sample)

ASSUME RadioAssumption ==
  /\ FifoDepth \in Nat \ {0}
  /\ Sizes \subseteq Nat /\ JunkSizes \subseteq Nat /\ JunkSizes # {}

-----------------------------------------------------------------------------
\* The scripts.  "reg0" and "reg1" are reads and writes of registers of bank 0
\* and 1 that hold nothing modelled here.

\* rfm73_bank(0) is "rdStatus", "bank0", and rfm73_bank(1) "rdStatus", "bank1".

BugAssumeBank0 ==
  <<"ce0", "table", "rdFeature", "activate", "reg0", "feature", "reg0",
    "rdStatus", "bank1", "reg1", "rdStatus", "bank0">>

\* The last line is rfm73_init_bank1.
rfm73_init ==
  <<"ce0", "rdStatus", "bank0", "table",
    "rdFeature", "activate", "reg0", "feature", "reg0",
    "rdStatus", "bank1", "reg1", "rdStatus", "bank0">>

rfm73_is_present == <<"rdStatus", "toggle", "rdStatus", "toggle">>

rfm73_mode_receive ==
  <<"flushRx", "rdStatus", "wrStatus", "ce0", "rdConfig", "cfgRx", "ce1">>

BugFlushLast ==
  <<"rdStatus", "wrStatus", "flushTx", "ce0", "rdConfig", "cfgTx", "ce1">>

rfm73_mode_transmit ==
  <<"flushTx", "rdStatus", "wrStatus", "ce0", "rdConfig", "cfgTx", "ce1">>

rfm73_mode_standby == <<"ce0", "rdConfig", "cfgUp">>

rfm73_mode_powerdown == <<"ce0", "rdConfig", "cfgDown">>

rfm73_air_data_rate == <<"ce0", "reg0", "reg0", "ce1">>

rfm73_power == <<"ce0", "reg0", "reg0", "ce1">>

rfm73_crc_length == <<"rdConfig", "reg0", "cfgSame">>

rfm73_rssi_level == <<"rdStatus", "bank1", "reg1", "rdStatus", "bank0">>

rfm73_transmit_message == <<"payload">>

BugNoEmptyTest == <<"rdLength", "rdPayload", "flushRx">>

rfm73_receive == <<"rdFifo", "rdLength", "rdPayload", "flushRx">>

\* The other settings and queries: addresses, channel, pipes, LNA, counters.
OtherSetting == <<"reg0", "reg0">>

Script ==
  [init |-> rfm73_init, is_present |-> rfm73_is_present,
   mode_receive |-> rfm73_mode_receive, mode_transmit |-> rfm73_mode_transmit,
   mode_standby |-> rfm73_mode_standby, mode_powerdown |-> rfm73_mode_powerdown,
   air_data_rate |-> rfm73_air_data_rate, power |-> rfm73_power,
   crc_length |-> rfm73_crc_length, rssi_level |-> rfm73_rssi_level,
   transmit_message |-> rfm73_transmit_message, receive |-> rfm73_receive,
   other |-> OtherSetting]

Calls == DOMAIN Script

\* The mode asked for by each function that sets one; rfm73_init's is its own,
\* ready to receive with CE low.
ModeOf(c) == IF c = "mode_receive" THEN "rx"
             ELSE IF c = "mode_transmit" THEN "tx"
             ELSE IF c = "mode_powerdown" THEN "down"
             ELSE IF c = "mode_standby" THEN "standby"
             ELSE "init"

ModeCalls == {"init", "mode_receive", "mode_transmit", "mode_standby", "mode_powerdown"}

\* The settings that set CE whatever it was: they take a radio out of standby.
Leaving == {"air_data_rate", "power"}

Asked == {"none", "init", "rx", "tx", "standby", "down", "left"}

VARIABLES
  call, k,   \* the running call and its next access; "idle", or "off" after a restart
  seen,      \* what it has read: status, FEATURE, CONFIG, a message's length
  chip,      \* the radio; of its status flags only MAX_RT has an effect
  asked      \* history: the mode the last mode function asked for, or "left" when
             \* rfm73_power or rfm73_air_data_rate has ended a standby

vars == <<call, k, seen, chip, asked>>

Config == [up : BOOLEAN, rx : BOOLEAN]
Down == [up |-> FALSE, rx |-> FALSE]

Seen == [bank : {0, 1}, maxrt : BOOLEAN, feature : BOOLEAN, config : Config, size : Nat]

\* A call's locals, before it reads anything; every script reads before it uses.
Unread == [bank |-> 0, maxrt |-> FALSE, feature |-> FALSE, config |-> Down, size |-> 0]

Chip == [bank : {0, 1}, activated : BOOLEAN, feature : BOOLEAN, ce : BOOLEAN,
         config : Config, maxrt : BOOLEAN, rxfifo : Seq(Sizes), txcount : 0 .. FifoDepth]

Listening == chip.ce /\ chip.config.up /\ chip.config.rx
Sending == chip.ce /\ chip.config.up /\ ~chip.config.rx /\ chip.txcount > 0

\* The extra features (dynamic payload length) are in force.
Enabled == chip.activated /\ chip.feature

-----------------------------------------------------------------------------
\* One access of the running call.

At(op) == call \in Calls /\ Script[call][k] = op

\* What is asked of the radio once c has returned.
AskedAfter(c) ==
  IF c \in ModeCalls THEN ModeOf(c)
  ELSE IF c \in Leaving /\ asked \in {"init", "standby"} THEN "left" ELSE asked

BugOneStepMore == k' = k + 1 /\ UNCHANGED <<call, asked>>

Advance ==
  IF k < Len(Script[call])
  THEN k' = k + 1 /\ UNCHANGED <<call, asked>>
  ELSE call' = "idle" /\ k' = 0 /\ asked' = AskedAfter(call)

Write(op, c) ==
  /\ At(op) /\ chip' = c /\ Advance
  /\ seen' = IF k < Len(Script[call]) THEN seen ELSE Unread

Read(op, s) == At(op) /\ seen' = s /\ Advance /\ UNCHANGED chip

Other == \E op \in {"reg0", "reg1"} : Write(op, chip)

CE == Write("ce0", [chip EXCEPT !.ce = FALSE]) \/ Write("ce1", [chip EXCEPT !.ce = TRUE])

ReadStatus == Read("rdStatus", [seen EXCEPT !.bank = chip.bank, !.maxrt = chip.maxrt])

ToggleBank == [chip EXCEPT !.bank = 1 - @]

Toggle == Write("toggle", ToggleBank)

\* The second half of rfm73_bank: toggle if the status read shows the other bank.
Select(b) == Write(IF b = 0 THEN "bank0" ELSE "bank1",
                   IF seen.bank # b THEN ToggleBank ELSE chip)

\* The table of rfm73_init and the addresses; of these CONFIG is modelled.
WriteTable == Write("table", [chip EXCEPT !.config = [up |-> TRUE, rx |-> TRUE]])

ReadFeature == Read("rdFeature", [seen EXCEPT !.feature = Enabled])

BugActivateAlways == Write("activate", [chip EXCEPT !.activated = ~@])

Activate == Write("activate", IF seen.feature THEN chip
                              ELSE [chip EXCEPT !.activated = ~@])

\* FEATURE can be written only while the features are activated (radio).
WriteFeature == Write("feature", [chip EXCEPT !.feature = @ \/ chip.activated])

FlushRx == Write("flushRx", [chip EXCEPT !.rxfifo = <<>>])

FlushTx == Write("flushTx", [chip EXCEPT !.txcount = 0])

\* Writing back the status read clears the flags that were set in it.
ClearStatus == Write("wrStatus", [chip EXCEPT !.maxrt = @ /\ ~seen.maxrt])

ReadConfig == Read("rdConfig", [seen EXCEPT !.config = chip.config])

BugKeepRxBit(op) ==
  [up |-> IF op = "cfgSame" THEN seen.config.up ELSE op # "cfgDown",
   rx |-> IF op = "cfgRx" THEN TRUE ELSE seen.config.rx]

NewConfig(op) ==
  [up |-> IF op = "cfgSame" THEN seen.config.up ELSE op # "cfgDown",
   rx |-> IF op = "cfgRx" THEN TRUE
          ELSE IF op = "cfgTx" THEN FALSE ELSE seen.config.rx]

WriteConfig == \E op \in {"cfgRx", "cfgTx", "cfgUp", "cfgDown", "cfgSame"} :
                 Write(op, [chip EXCEPT !.config = NewConfig(op)])

\* A payload written to a full FIFO is lost (radio).
WritePayload ==
  Write("payload", IF chip.txcount < FifoDepth THEN [chip EXCEPT !.txcount = @ + 1]
                   ELSE chip)

\* rfm73_receive returns at once if the FIFO is empty.
ReadFifo ==
  /\ At("rdFifo")
  /\ IF chip.rxfifo = <<>>
     THEN call' = "idle" /\ k' = 0 /\ UNCHANGED asked
     ELSE Advance
  /\ UNCHANGED <<seen, chip>>

ReadLength ==
  \E n \in IF Enabled /\ chip.rxfifo # <<>> THEN {Head(chip.rxfifo)} ELSE JunkSizes :
    Read("rdLength", [seen EXCEPT !.size = n])

ReadPayload ==
  Write("rdPayload", [chip EXCEPT !.rxfifo = IF @ = <<>> THEN @ ELSE Tail(@)])

Call(c) ==
  /\ call = "idle" \/ (call = "off" /\ c = "init")
  /\ call' = c /\ k' = 1
  /\ UNCHANGED <<seen, chip, asked>>

-----------------------------------------------------------------------------
\* The radio, and the processor's restart.

\* MAX_RT blocks any communication.
Arrive(n) ==
  /\ Listening /\ ~chip.maxrt /\ Len(chip.rxfifo) < FifoDepth
  /\ chip' = [chip EXCEPT !.rxfifo = Append(@, n)]
  /\ UNCHANGED <<call, k, seen, asked>>

\* A message is acknowledged, or given up after the last retransmission; then
\* it stays at the head of the FIFO.
Transmit(acked) ==
  /\ Sending /\ ~chip.maxrt
  /\ chip' = IF acked THEN [chip EXCEPT !.txcount = @ - 1]
             ELSE [chip EXCEPT !.maxrt = TRUE]
  /\ UNCHANGED <<call, k, seen, asked>>

\* The processor restarts; its pin that drives CE is undefined until rfm73_init.
Restart ==
  /\ call # "off"
  /\ call' = "off" /\ k' = 0 /\ asked' = "none" /\ seen' = Unread
  /\ \E level \in BOOLEAN : chip' = [chip EXCEPT !.ce = level]

-----------------------------------------------------------------------------

Init ==
  /\ call = "off" /\ k = 0 /\ asked = "none" /\ seen = Unread
  /\ chip = [bank |-> 0, activated |-> FALSE, feature |-> FALSE, ce |-> FALSE,
             config |-> Down, maxrt |-> FALSE, rxfifo |-> <<>>, txcount |-> 0]

Access == \/ Other \/ CE \/ ReadStatus \/ Toggle \/ (\E b \in {0, 1} : Select(b))
          \/ WriteTable \/ ReadFeature \/ Activate \/ WriteFeature
          \/ FlushRx \/ FlushTx \/ ClearStatus \/ ReadConfig \/ WriteConfig
          \/ WritePayload \/ ReadFifo \/ ReadLength \/ ReadPayload

Radio == (\E n \in Sizes : Arrive(n)) \/ (\E acked \in BOOLEAN : Transmit(acked))

Next == Access \/ (\E c \in Calls : Call(c)) \/ Radio \/ Restart

Spec == Init /\ [][Next]_vars

-----------------------------------------------------------------------------
\* Properties.

TypeOK ==
  /\ \/ call \in {"idle", "off"} /\ k = 0
     \/ call \in Calls /\ k \in 1 .. Len(Script[call])
  /\ seen \in Seen /\ chip \in Chip
  /\ asked \in Asked

\* Every register is accessed in its own bank, though the bank can only be
\* toggled and a restart may leave either one selected.  The commands and
\* STATUS work in both banks.
BankAsMeant ==
  /\ call = "idle" => chip.bank = 0
  /\ \A op \in {"reg0", "table", "rdFeature", "feature", "rdConfig", "rdFifo",
                "cfgRx", "cfgTx", "cfgUp", "cfgDown", "cfgSame"} :
       At(op) => chip.bank = 0
  /\ At("reg1") => chip.bank = 1

\* Between calls the radio is in the mode last asked for, whatever settings and
\* queries were called since: CE and CONFIG, which other functions change too, are
\* those of the mode.  With one exception: rfm73_power and rfm73_air_data_rate end
\* the standby of rfm73_mode_standby and of rfm73_init, and leave the radio running
\* ("left"), although rfm73.h has them set only the power and the data rate.  And
\* rfm73_init leaves CE low, although rfm73.h says it ends in receive mode.
ModeHolds ==
  call = "idle" =>
    /\ asked = "rx" => Listening
    /\ asked = "tx" => chip.ce /\ chip.config.up /\ ~chip.config.rx
    /\ asked = "down" => ~chip.config.up
    /\ asked = "standby" => chip.config.up /\ ~chip.ce
    /\ asked = "init" => chip.config.up /\ chip.config.rx /\ ~chip.ce
    /\ asked = "left" => chip.config.up /\ chip.ce

\* When rfm73_receive reads a message there is one, whatever arrived or was sent
\* since it looked; and while the extra features are in force, the length it read
\* before is that message's.  Without them, which InitEnables shows to be possible
\* after rfm73_init, the radio gives any length.
LengthMatches ==
  At("rdPayload") =>
    /\ chip.rxfifo # <<>>
    /\ Enabled => seen.size = Head(chip.rxfifo)

\* Features once in force stay in force: rfm73_init may run again, after a
\* restart at any point or without one, and never toggles them off.
EnabledForGood == [][Enabled => Enabled']_vars

\* rfm73_mode_transmit leaves a transmitter that is not blocked by MAX_RT, also
\* when a transmission is given up while it runs.
TransmitUnblocks ==
  [][call = "mode_transmit" /\ call' = "idle" => ~chip'.maxrt]_vars

\* A message leaves the receive FIFO only when it is retrieved by rfm73_receive or
\* when rfm73_mode_receive, as documented, flushes the queue.
MessagesKept ==
  [][chip.rxfifo # chip'.rxfifo =>
       \/ Len(chip'.rxfifo) > Len(chip.rxfifo)
       \/ At("rdPayload") \/ call = "mode_receive"]_vars

\* After rfm73_init the extra features, which it is to activate, are in force.
InitEnables == call = "idle" => Enabled

-----------------------------------------------------------------------------
\* What the proofs rest on: where each script stands.

\* The bank, and when the status read tells it.
BankInv ==
  /\ call \in {"idle"} \cup (Calls \ {"init", "is_present", "rssi_level"}) => chip.bank = 0
  /\ call = "init" => /\ k \in 4 .. 11 => chip.bank = 0
                      /\ k \in 12 .. 14 => chip.bank = 1
                      /\ k \in {3, 11, 14} => seen.bank = chip.bank
  /\ call = "is_present" => chip.bank = IF k <= 2 THEN 0 ELSE 1
  /\ call = "rssi_level" => /\ chip.bank = IF k <= 2 THEN 0 ELSE 1
                            /\ k \in {2, 5} => seen.bank = chip.bank

\* rfm73_init has read whether the features are in force.
FeatureInv == call = "init" /\ k = 6 => seen.feature = Enabled

\* rfm73_receive has a message to read, and its length.
ReceiveInv ==
  call = "receive" => /\ k \in {2, 3} => chip.rxfifo # <<>>
                      /\ k = 3 /\ Enabled => seen.size = Head(chip.rxfifo)

\* rfm73_mode_transmit has nothing left to send that could set MAX_RT again.
BlockInv ==
  call = "mode_transmit" => /\ k >= 2 => chip.txcount = 0
                            /\ k = 3 /\ chip.maxrt => seen.maxrt
                            /\ k >= 4 => ~chip.maxrt

\* CONFIG and CE are as asked for, except while CE is low for a setting.
ConfigHolds ==
  /\ asked = "rx" => chip.config.up /\ chip.config.rx
  /\ asked = "tx" => chip.config.up /\ ~chip.config.rx
  /\ asked = "down" => ~chip.config.up
  /\ asked \in {"standby", "left"} => chip.config.up
  /\ asked = "init" => chip.config.up /\ chip.config.rx

CEHolds ==
  /\ asked \in {"rx", "tx", "left"} /\ ~(call \in Leaving /\ k >= 2) => chip.ce
  /\ asked \in {"init", "standby"} => ~chip.ce

ModeInv ==
  /\ call \in {"idle"} \cup (Calls \ ModeCalls) => ConfigHolds /\ CEHolds
  /\ call = "crc_length" /\ k >= 2 => seen.config = chip.config
  /\ call = "mode_receive" /\ k = 7 => chip.config.up /\ chip.config.rx
  /\ call = "mode_transmit" /\ k = 7 => chip.config.up /\ ~chip.config.rx
  /\ call \in {"init", "mode_standby"} /\ k >= 2 => ~chip.ce
  /\ call = "init" /\ k >= 5 => chip.config.up /\ chip.config.rx

RfmInv == TypeOK /\ BankInv /\ FeatureInv /\ ReceiveInv /\ BlockInv /\ ModeInv
=============================================================================
