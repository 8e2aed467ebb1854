---------------------------- MODULE RegisterFile ----------------------------
(***************************************************************************)
(* What the register functions of the Ethernet driver promise: the chip is *)
(* a set of registers, each call reads or changes the one it names in one  *)
(* step, and nothing else of the chip changes by it but the bits of one    *)
(* register that select banks.                                             *)
(***************************************************************************)

CONSTANTS
  Registers,  \* those with a value of their own
  ECON1,      \* the register with the bank bits
  BankBits,   \* the bank bits
  Volatile,   \* those among them the chip changes by itself
  ChipBits,   \* the bits it changes
  Values,     \* values written and read, as sets of bits
  Calls,      \* calls of the register functions
  NoCall

VARIABLES
  regs,    \* each register's value
  rdpt,    \* the pointer ERXRDPT, low and high byte
  call,    \* the call in progress
  result   \* what the last enc_rcr returned

vars == <<regs, rdpt, call, result>>

\* What a call makes of the register it names.
Changed(op, data, v) ==
  IF op = "bfs" THEN v \cup data
  ELSE IF op = "bfc" THEN v \ data
  ELSE IF op = "wcr" THEN data ELSE v

Init ==
  /\ regs = [r \in Registers |-> {}] /\ rdpt = <<{}, {}>>
  /\ call = NoCall /\ result = {}

Begin(c) == call = NoCall /\ call' = c /\ UNCHANGED <<regs, rdpt, result>>

Serve ==
  /\ call # NoCall /\ call' = NoCall
  /\ IF call.op = "wcr2"
     THEN rdpt' = <<call.data, call.high>> /\ UNCHANGED <<regs, result>>
     ELSE /\ regs' = [regs EXCEPT ![call.addr] = Changed(call.op, call.data, @)]
          /\ result' = IF call.op = "rcr" THEN regs[call.addr] ELSE result
          /\ UNCHANGED rdpt

SelectBank(bits) ==
  /\ regs' = [regs EXCEPT ![ECON1] = (@ \ BankBits) \cup bits]
  /\ UNCHANGED <<rdpt, call, result>>

\* The chip works on; enc_reset clears it; the processor drops a call.
ChipStep(r, bits) ==
  /\ regs' = [regs EXCEPT ![r] = (@ \ ChipBits) \cup bits]
  /\ UNCHANGED <<rdpt, call, result>>

Reset == /\ call = NoCall
         /\ regs' = [r \in Registers |-> {}] /\ rdpt' = <<{}, {}>>
         /\ UNCHANGED <<call, result>>

Drop == call' = NoCall /\ UNCHANGED <<regs, rdpt, result>>

Next ==
  \/ \E c \in Calls : Begin(c)
  \/ Serve
  \/ \E bits \in SUBSET BankBits : SelectBank(bits)
  \/ \E r \in Volatile, bits \in SUBSET ChipBits : ChipStep(r, bits)
  \/ Reset
  \/ Drop

Spec == Init /\ [][Next]_vars
=============================================================================
