------------------------------- MODULE EncSpi -------------------------------
(***************************************************************************)
(* The register accesses of the ENC28J60 driver, SPI transfer by SPI       *)
(* transfer.  A register is reached in three transfers: clear the bank     *)
(* bits of ECON1, set them, access.  ECON1 holds bits the chip changes by  *)
(* itself meanwhile, other registers share their five address bits with    *)
(* registers of other banks, and the processor may restart between two     *)
(* transfers with any bank selected.                                       *)
(*                                                                         *)
(* Enc28j60 takes each access as one step.  That it may is what this       *)
(* module is about: EncSpi implements RegisterFile.                        *)
(*                                                                         *)
(* A Bug... operator is a mistake the definition after it could hold.      *)
(***************************************************************************)
EXTENDS Integers

CONSTANTS
  Addresses,     \* the register addresses used, as enc28j60.h encodes them
  Volatile,      \* registers the chip changes by itself
  ChipBits,      \* the bits of them it changes
  MacLocations,  \* where the chip sends a dummy byte before the value
  Values,        \* values written and read, as sets of bits
  NoCall

ECON1 == 31
ERXRDPTL == 12
BankBits == {0, 1}

\* The parts of an address (ADDR_MASK, BANK_MASK, SPRD_MASK).
Index(a) == a % 32
Bank(a) == (a \div 32) % 4
Sprd(a) == a >= 128

\* The register the chip accesses: the five last ones are in every bank.
Location(bank, index) == IF index >= 27 THEN <<0, index>> ELSE <<bank, index>>
Locations == (0 .. 3) \X (0 .. 31)
Loc(a) == Location(Bank(a), Index(a))

Registers == Addresses \ {ERXRDPTL, ERXRDPTL + 1}

ASSUME AddressAssumption ==
  /\ Addresses \subseteq 0 .. 255 /\ {ECON1, ERXRDPTL, ERXRDPTL + 1} \subseteq Addresses
  /\ \A a, b \in Addresses : Loc(a) = Loc(b) => a = b
  /\ \A a \in Addresses : Sprd(a) <=> Loc(a) \in MacLocations
  /\ Volatile \subseteq Registers /\ ChipBits \cap BankBits = {}

Bits == 0 .. 7
ASSUME ValueAssumption == {} \in Values /\ Values \subseteq SUBSET Bits /\ ChipBits \subseteq Bits

VARIABLES
  call,    \* the register function running, and its arguments
  half,    \* enc_wcr2 has come to its second byte
  phase,   \* the transfer made next: "clear", "set", "access"
  result,  \* what the last enc_rcr returned
  reg,     \* the chip's registers by location
  rdpt     \* its pointer ERXRDPT, which takes both bytes when the high one comes

chip == <<reg, rdpt>>
vars == <<call, half, phase, result, chip>>

\* The driver sets and clears bits of Ethernet registers only; it writes the
\* pointer as a pair.
Calls ==
  [op : {"rcr", "wcr"}, addr : Registers, data : Values, high : Values]
  \cup [op : {"bfs", "bfc"}, addr : {a \in Registers : ~Sprd(a)}, data : Values,
        high : Values]
  \cup [op : {"wcr2"}, addr : {ERXRDPTL}, data : Values, high : Values]

ASSUME NoCallAssumption == NoCall \notin Calls

Econ1 == reg[Loc(ECON1)]
Selected == (IF 0 \in Econ1 THEN 1 ELSE 0) + (IF 1 \in Econ1 THEN 2 ELSE 0)
BitsOf(bank) == {i \in BankBits : bank \in IF i = 0 THEN {1, 3} ELSE {2, 3}}

-----------------------------------------------------------------------------

Init ==
  /\ call = NoCall /\ half = 0 /\ phase = "clear" /\ result = {}
  /\ reg = [l \in Locations |-> {}] /\ rdpt = <<{}, {}>>

Begin(c) ==
  /\ call = NoCall
  /\ call' = c
  /\ half' = 0 /\ phase' = "clear"
  /\ UNCHANGED <<result, chip>>

BugHighFirst == IF call.op = "wcr2" THEN call.addr + 1 - half ELSE call.addr

\* The address, operation and byte of the access being made.
Addr == call.addr + half
Op == IF call.op = "wcr2" THEN "wcr" ELSE call.op
Data == IF Addr = ERXRDPTL + 1 THEN call.high ELSE call.data

BugBankNotCleared ==
  /\ call # NoCall /\ phase = "clear"
  /\ phase' = "set"
  /\ UNCHANGED <<call, half, result, chip>>

\* enc_bank_select, in two transfers.
BankClear ==
  /\ call # NoCall /\ phase = "clear"
  /\ reg' = [reg EXCEPT ![Loc(ECON1)] = @ \ BankBits]
  /\ phase' = "set"
  /\ UNCHANGED <<call, half, result, rdpt>>

BankSet ==
  /\ call # NoCall /\ phase = "set"
  /\ reg' = [reg EXCEPT ![Loc(ECON1)] = @ \cup BitsOf(Bank(Addr))]
  /\ phase' = "access"
  /\ UNCHANGED <<call, half, result, rdpt>>

Reached == Location(Selected, Index(Addr))

\* The byte enc_rcr returns: it skips one if the address says so.
BytesRead(l) == IF Sprd(Addr) <=> l \in MacLocations THEN {reg[l]} ELSE Values

Changed(op, data, v) ==
  IF op = "bfs" THEN v \cup data
  ELSE IF op = "bfc" THEN v \ data
  ELSE IF op = "wcr" THEN data ELSE v

\* The transfer that accesses the register, the last of the call except for
\* the low byte of a pair.
Access ==
  /\ call # NoCall /\ phase = "access"
  /\ reg' = [reg EXCEPT ![Reached] = Changed(Op, Data, @)]
  /\ rdpt' = IF Reached = Loc(ERXRDPTL + 1) /\ Op # "rcr"
             THEN <<reg[Loc(ERXRDPTL)], reg'[Reached]>> ELSE rdpt
  /\ IF Op = "rcr" THEN result' \in BytesRead(Reached) ELSE UNCHANGED result
  /\ phase' = "clear"
  /\ IF call.op = "wcr2" /\ half = 0
     THEN half' = 1 /\ UNCHANGED call
     ELSE half' = 0 /\ call' = NoCall

\* enc_reset: a transfer that needs no bank.
Reset ==
  /\ call = NoCall
  /\ reg' = [l \in Locations |-> {}] /\ rdpt' = <<{}, {}>>
  /\ UNCHANGED <<call, half, phase, result>>

\* The chip changes bits by itself: it clears TXRTS, counts frames.
ChipStep(a, bits) ==
  /\ reg' = [reg EXCEPT ![Loc(a)] = (@ \ ChipBits) \cup bits]
  /\ UNCHANGED <<call, half, phase, result, rdpt>>

\* The processor restarts; the chip keeps its registers and its bank.
Restart ==
  /\ call' = NoCall /\ half' = 0 /\ phase' = "clear"
  /\ UNCHANGED <<result, chip>>

Next ==
  \/ \E c \in Calls : Begin(c)
  \/ BankClear \/ BankSet \/ Access
  \/ Reset
  \/ \E a \in Volatile, bits \in SUBSET ChipBits : ChipStep(a, bits)
  \/ Restart

Spec == Init /\ [][Next]_vars

-----------------------------------------------------------------------------
\* Properties.

TypeOK ==
  /\ call \in Calls \cup {NoCall}
  /\ half \in {0, 1} /\ phase \in {"clear", "set", "access"}
  /\ reg \in [Locations -> SUBSET Bits]
  /\ result \in SUBSET Bits
  /\ rdpt \in (SUBSET Bits) \X (SUBSET Bits)

\* When a register is accessed its bank is selected, whatever bank an
\* interrupted call left and whatever the chip did to ECON1 since.
BankSelected == call # NoCall /\ phase = "access" => Reached = Loc(Addr)

\* A register function does in one step what its name says and nothing else:
\* no bank select disturbs a bit of ECON1 other than the bank's,
\* no register of another bank is touched, and the receiver never sees half of
\* a new ERXRDPT.
Contents == [a \in Registers |-> reg[Loc(a)]]
File == INSTANCE RegisterFile WITH regs <- Contents
ImplementsRegisters == File!Spec
=============================================================================
