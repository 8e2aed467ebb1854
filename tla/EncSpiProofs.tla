---------------------------- MODULE EncSpiProofs ----------------------------
(***************************************************************************)
(* EncSpi implements RegisterFile, for every set of registers and values.  *)
(***************************************************************************)
EXTENDS EncSpi, TLAPS

-----------------------------------------------------------------------------
\* Addresses and locations.

LEMMA LocType ==
  ASSUME NEW a \in Addresses
  PROVE  /\ a \in 0 .. 255 /\ Index(a) \in 0 .. 31 /\ Bank(a) \in 0 .. 3
         /\ Loc(a) \in Locations
<1>1. a \in 0 .. 255
  BY AddressAssumption
<1>2. Index(a) \in 0 .. 31 /\ Bank(a) \in 0 .. 3
  BY <1>1 DEF Index, Bank
<1>3. Loc(a) \in Locations
  BY <1>2 DEF Loc, Location, Locations
<1>4. QED
  BY <1>1, <1>2, <1>3

\* The bank bits say which bank is selected.
LEMMA SelectedBank ==
  ASSUME NEW v, v \cap BankBits = {}, NEW b \in 0 .. 3, Econ1 = v \cup BitsOf(b)
  PROVE  Selected = b
<1>1. (0 \in Econ1) <=> b \in {1, 3}
  BY DEF BankBits, BitsOf
<1>2. (1 \in Econ1) <=> b \in {2, 3}
  BY DEF BankBits, BitsOf
<1>3. QED
  BY <1>1, <1>2 DEF Selected

\* The registers seen from outside change with the one location written.
LEMMA ContentsWrite ==
  ASSUME reg \in [Locations -> SUBSET Bits], NEW a \in Registers, NEW v,
         reg' = [reg EXCEPT ![Loc(a)] = v]
  PROVE  Contents' = [Contents EXCEPT ![a] = v]
<1>1. \A b \in Registers : Loc(b) \in Locations /\ (Loc(b) = Loc(a) => b = a)
  BY LocType, AddressAssumption DEF Registers
<1>2. \A b \in Registers : reg'[Loc(b)] = IF b = a THEN v ELSE reg[Loc(b)]
  BY <1>1
<1>3. QED
  BY <1>2 DEF Contents

\* Those of the pair ERXRDPT are not among them.
LEMMA ContentsPair ==
  ASSUME reg \in [Locations -> SUBSET Bits], NEW a \in {ERXRDPTL, ERXRDPTL + 1}, NEW v,
         reg' = [reg EXCEPT ![Loc(a)] = v]
  PROVE  Contents' = Contents
<1>1. a \in Addresses
  BY AddressAssumption
<1>2. \A b \in Registers : Loc(b) \in Locations /\ Loc(b) # Loc(a)
  BY <1>1, LocType, AddressAssumption DEF Registers
<1>3. \A b \in Registers : reg'[Loc(b)] = reg[Loc(b)]
  BY <1>2
<1>4. QED
  BY <1>3 DEF Contents

-----------------------------------------------------------------------------
\* The inductive invariant: what the transfers made so far have brought about.

BankInv ==
  call # NoCall => /\ phase = "set" => Econ1 \cap BankBits = {}
                   /\ phase = "access" => Selected = Bank(Addr)

PairInv ==
  half = 1 => /\ call # NoCall /\ call.op = "wcr2"
              /\ reg[Loc(ERXRDPTL)] = call.data

SpiInv == TypeOK /\ BankInv /\ PairInv

LEMMA CallTypes ==
  ASSUME SpiInv, call # NoCall
  PROVE  /\ call \in Calls /\ Addr \in Addresses /\ Data \in SUBSET Bits
         /\ call.op \in {"rcr", "wcr", "bfs", "bfc", "wcr2"}
         /\ call.data \in SUBSET Bits /\ call.high \in SUBSET Bits
         /\ call.op = "wcr2" => call.addr = ERXRDPTL /\ Addr = ERXRDPTL + half
         /\ call.op # "wcr2" => /\ call.addr \in Registers /\ half = 0
                                /\ Addr = call.addr /\ Addr # ERXRDPTL + 1
<1>1. call \in Calls /\ half \in {0, 1}
  BY DEF SpiInv, TypeOK
<1>2. /\ call.op \in {"rcr", "wcr", "bfs", "bfc", "wcr2"}
      /\ call.data \in Values /\ call.high \in Values
      /\ call.op = "wcr2" => call.addr = ERXRDPTL
      /\ call.op # "wcr2" => call.addr \in Registers
  BY <1>1 DEF Calls
<1>3. call.op # "wcr2" => half = 0
  BY <1>1 DEF SpiInv, PairInv
<1>4. \A a \in Registers : a \in Int /\ a \in Addresses /\ a # ERXRDPTL + 1
  <2>1. \A a \in Registers : a \in Addresses /\ a \notin {ERXRDPTL, ERXRDPTL + 1}
    BY DEF Registers
  <2>2. \A a \in Addresses : a \in 0 .. 255
    BY LocType
  <2>3. ASSUME NEW a \in Registers PROVE a \in Int
    <3>1. a \in 0 .. 255
      BY <2>1, <2>2
    <3>2. QED
      BY <3>1
  <2>4. QED
    BY <2>1, <2>3
<1>5. call.op # "wcr2" => Addr = call.addr
  BY <1>2, <1>3, <1>4 DEF Addr
<1>6. call.op = "wcr2" => Addr \in {ERXRDPTL, ERXRDPTL + 1} /\ Addr = ERXRDPTL + half
  BY <1>1, <1>2 DEF Addr, ERXRDPTL
<1>7. Addr \in Addresses
  BY <1>2, <1>4, <1>5, <1>6, AddressAssumption
<1>8. call.data \in SUBSET Bits /\ call.high \in SUBSET Bits /\ Data \in SUBSET Bits
  BY <1>2, ValueAssumption DEF Data
<1>9. QED
  BY <1>1, <1>2, <1>3, <1>4, <1>5, <1>6, <1>7, <1>8

LEMMA ReachedIsMeant ==
  ASSUME SpiInv, call # NoCall, phase = "access"
  PROVE  Reached = Loc(Addr)
BY DEF SpiInv, BankInv, Reached, Loc

LEMMA SpiInit == Init => SpiInv
<1> SUFFICES ASSUME Init PROVE SpiInv
  OBVIOUS
<1>1. TypeOK
  BY DEF Init, TypeOK
<1>2. QED
  BY <1>1 DEF Init, SpiInv, BankInv, PairInv

LEMMA FixedLocations ==
  /\ ECON1 \in Addresses /\ ERXRDPTL \in Addresses /\ ERXRDPTL + 1 \in Addresses
  /\ Loc(ECON1) \in Locations /\ Loc(ERXRDPTL) \in Locations
  /\ Loc(ERXRDPTL + 1) \in Locations
  /\ Loc(ECON1) # Loc(ERXRDPTL) /\ Loc(ERXRDPTL) # Loc(ERXRDPTL + 1)
  /\ Loc(ECON1) # Loc(ERXRDPTL + 1) /\ ECON1 \in Registers
<1>1. /\ ECON1 \in Addresses /\ ERXRDPTL \in Addresses /\ ERXRDPTL + 1 \in Addresses
  BY AddressAssumption
<1>2. ECON1 # ERXRDPTL /\ ECON1 # ERXRDPTL + 1 /\ ERXRDPTL # ERXRDPTL + 1
  BY DEF ECON1, ERXRDPTL
<1>3. QED
  BY <1>1, <1>2, LocType, AddressAssumption DEF Registers

-----------------------------------------------------------------------------
\* Every transfer preserves the invariant.

LEMMA ChangedType ==
  ASSUME NEW op, NEW data \in SUBSET Bits, NEW v \in SUBSET Bits
  PROVE  Changed(op, data, v) \in SUBSET Bits
BY DEF Changed

LEMMA AccessEffect ==
  ASSUME SpiInv, Access
  PROVE  /\ reg' = [reg EXCEPT ![Loc(Addr)] = Changed(Op, Data, reg[Loc(Addr)])]
         /\ reg'[Loc(Addr)] = Changed(Op, Data, reg[Loc(Addr)])
         /\ reg' \in [Locations -> SUBSET Bits]
         /\ Op = "rcr" => result' = reg[Loc(Addr)]
<1>1. /\ call # NoCall /\ phase = "access" /\ Reached = Loc(Addr)
      /\ Addr \in Addresses /\ Data \in SUBSET Bits /\ Loc(Addr) \in Locations
      /\ reg \in [Locations -> SUBSET Bits]
  BY ReachedIsMeant, CallTypes, LocType DEF Access, SpiInv, TypeOK
<1>2. reg' = [reg EXCEPT ![Loc(Addr)] = Changed(Op, Data, reg[Loc(Addr)])]
  BY <1>1 DEF Access
<1>3. Changed(Op, Data, reg[Loc(Addr)]) \in SUBSET Bits
  BY <1>1, ChangedType
<1>4. /\ reg'[Loc(Addr)] = Changed(Op, Data, reg[Loc(Addr)])
      /\ reg' \in [Locations -> SUBSET Bits]
  BY <1>1, <1>2, <1>3
<1>5. BytesRead(Loc(Addr)) = {reg[Loc(Addr)]}
  BY <1>1, AddressAssumption DEF BytesRead
<1>6. Op = "rcr" => result' = reg[Loc(Addr)]
  BY <1>1, <1>5 DEF Access
<1>7. QED
  BY <1>2, <1>4, <1>6

LEMMA SpiStep == SpiInv /\ [Next]_vars => SpiInv'
<1> SUFFICES ASSUME SpiInv, [Next]_vars PROVE SpiInv'
  OBVIOUS
<1>0. reg \in [Locations -> SUBSET Bits] /\ BankBits = {0, 1} /\ BankBits \subseteq Bits
  BY DEF SpiInv, TypeOK, BankBits, Bits
<1>1. ASSUME NEW c \in Calls, Begin(c) PROVE SpiInv'
  <2>1. TypeOK'
    BY <1>1 DEF Begin, SpiInv, TypeOK, chip
  <2>2. BankInv' /\ PairInv'
    BY <1>1 DEF Begin, BankInv, PairInv
  <2>3. QED
    BY <2>1, <2>2 DEF SpiInv
<1>2. CASE BankClear
  <2> DEFINE v == Econ1 \ BankBits
  <2>1. reg' = [reg EXCEPT ![Loc(ECON1)] = v] /\ v \in SUBSET Bits
    BY <1>0, <1>2, FixedLocations DEF BankClear, Econ1
  <2>2. Econ1' = v /\ reg' \in [Locations -> SUBSET Bits]
        /\ reg'[Loc(ERXRDPTL)] = reg[Loc(ERXRDPTL)]
    BY <1>0, <2>1, FixedLocations DEF Econ1
  <2>3. TypeOK'
    BY <1>2, <2>2 DEF BankClear, SpiInv, TypeOK
  <2>4. BankInv' /\ PairInv'
    BY <1>2, <2>2 DEF BankClear, BankInv, SpiInv, PairInv
  <2>5. QED
    BY <2>3, <2>4 DEF SpiInv
<1>3. CASE BankSet
  <2> DEFINE v == Econ1 \cup BitsOf(Bank(Addr))
  <2>1. /\ call # NoCall /\ Bank(Addr) \in 0 .. 3 /\ Econ1 \cap BankBits = {}
        /\ UNCHANGED <<call, half>> /\ phase' = "access"
    BY <1>3, CallTypes, LocType DEF BankSet, SpiInv, BankInv
  <2>2. v \in SUBSET Bits
    BY <1>0, FixedLocations DEF Econ1, BitsOf
  <2>3. reg' = [reg EXCEPT ![Loc(ECON1)] = v]
    BY <1>3 DEF BankSet, Econ1
  <2>4. Econ1' = v /\ reg' \in [Locations -> SUBSET Bits]
        /\ reg'[Loc(ERXRDPTL)] = reg[Loc(ERXRDPTL)]
    BY <1>0, <2>2, <2>3, FixedLocations DEF Econ1
  <2>5. TypeOK'
    BY <1>3, <2>4 DEF BankSet, SpiInv, TypeOK
  <2>6. Selected' = Bank(Addr)
    <3>1. /\ (0 \in Econ1') <=> Bank(Addr) \in {1, 3}
          /\ (1 \in Econ1') <=> Bank(Addr) \in {2, 3}
      BY <1>0, <2>1, <2>4 DEF BitsOf
    <3>2. QED
      BY <2>1, <3>1 DEF Selected
  <2>7. Addr' = Addr
    BY <2>1 DEF Addr
  <2>8. BankInv' /\ PairInv'
    BY <2>1, <2>4, <2>6, <2>7 DEF BankInv, SpiInv, PairInv
  <2>9. QED
    BY <2>5, <2>8 DEF SpiInv
<1>4. CASE Access
  <2>1. /\ call # NoCall /\ phase' = "clear" /\ half \in {0, 1}
        /\ IF call.op = "wcr2" /\ half = 0
           THEN half' = 1 /\ UNCHANGED call
           ELSE half' = 0 /\ call' = NoCall
    BY <1>4 DEF Access, SpiInv, TypeOK
  <2>2. /\ Addr \in Addresses /\ Data \in SUBSET Bits
        /\ call.op = "wcr2" => Addr = ERXRDPTL + half
    BY <2>1, CallTypes
  <2>3. /\ reg' \in [Locations -> SUBSET Bits]
        /\ reg'[Loc(Addr)] = Changed(Op, Data, reg[Loc(Addr)])
        /\ Op = "rcr" => result' = reg[Loc(Addr)]
    BY <1>4, AccessEffect
  <2>4. result' \in SUBSET Bits
    <3>1. CASE Op = "rcr"
      <4>1. Loc(Addr) \in Locations
        BY <2>2, LocType
      <4>2. reg[Loc(Addr)] \in SUBSET Bits
        BY <1>0, <4>1
      <4>3. QED
        BY <2>3, <3>1, <4>2
    <3>2. CASE Op # "rcr"
      BY <1>4, <3>2 DEF Access, SpiInv, TypeOK
    <3>3. QED
      BY <3>1, <3>2
  <2>5. rdpt' \in (SUBSET Bits) \X (SUBSET Bits)
    <3>1. Reached = Loc(Addr) /\ Loc(Addr) \in Locations
      BY <1>4, <2>1, <2>2, ReachedIsMeant, LocType DEF Access
    <3>2. rdpt' \in {<<reg[Loc(ERXRDPTL)], reg'[Loc(Addr)]>>, rdpt}
      BY <1>4, <3>1 DEF Access
    <3>3. reg[Loc(ERXRDPTL)] \in SUBSET Bits /\ reg'[Loc(Addr)] \in SUBSET Bits
      BY <1>0, <2>3, <3>1, FixedLocations
    <3>4. QED
      BY <3>2, <3>3 DEF SpiInv, TypeOK
  <2>6. TypeOK'
    BY <2>1, <2>3, <2>4, <2>5 DEF SpiInv, TypeOK
  <2>7. PairInv'
    <3>1. CASE call.op = "wcr2" /\ half = 0
      <4>1. Addr = ERXRDPTL /\ Op = "wcr" /\ Data = call.data
        BY <2>2, <3>1 DEF Op, Data, ERXRDPTL
      <4>2. reg'[Loc(ERXRDPTL)] = call.data
        BY <2>3, <4>1 DEF Changed
      <4>3. QED
        BY <2>1, <3>1, <4>2 DEF PairInv
    <3>2. CASE ~(call.op = "wcr2" /\ half = 0)
      BY <2>1, <3>2 DEF PairInv
    <3>3. QED
      BY <3>1, <3>2
  <2>8. BankInv'
    BY <2>1 DEF BankInv
  <2>9. QED
    BY <2>6, <2>7, <2>8 DEF SpiInv
<1>5. CASE Reset
  <2>1. TypeOK'
    BY <1>5 DEF Reset, SpiInv, TypeOK
  <2>2. BankInv' /\ PairInv'
    BY <1>5 DEF Reset, SpiInv, BankInv, PairInv
  <2>3. QED
    BY <2>1, <2>2 DEF SpiInv
<1>6. ASSUME NEW a \in Volatile, NEW bits \in SUBSET ChipBits, ChipStep(a, bits)
      PROVE  SpiInv'
  <2> DEFINE v == (reg[Loc(a)] \ ChipBits) \cup bits
  <2>1. /\ a \in Registers /\ a \in Addresses /\ Loc(a) \in Locations
        /\ Loc(a) # Loc(ERXRDPTL) /\ (Loc(a) = Loc(ECON1) => a = ECON1)
        /\ bits \cap BankBits = {} /\ ChipBits \cap BankBits = {}
    BY FixedLocations, LocType, AddressAssumption DEF Registers
  <2>2. v \in SUBSET Bits /\ reg' = [reg EXCEPT ![Loc(a)] = v]
        /\ UNCHANGED <<call, half, phase, result, rdpt>>
    BY <1>0, <1>6, <2>1, ValueAssumption DEF ChipStep
  <2>3. /\ reg' \in [Locations -> SUBSET Bits]
        /\ reg'[Loc(ERXRDPTL)] = reg[Loc(ERXRDPTL)]
        /\ Econ1' = IF a = ECON1 THEN v ELSE Econ1
    BY <1>0, <2>1, <2>2, FixedLocations DEF Econ1
  <2>4. Econ1' \cap BankBits = Econ1 \cap BankBits
    BY <2>1, <2>3 DEF Econ1
  <2>5. Selected' = Selected
    BY <1>0, <2>4 DEF Selected
  <2>6. TypeOK'
    BY <2>2, <2>3 DEF SpiInv, TypeOK
  <2>7. BankInv' /\ PairInv'
    BY <2>2, <2>3, <2>4, <2>5 DEF SpiInv, BankInv, PairInv, Addr
  <2>8. QED
    BY <2>6, <2>7 DEF SpiInv
<1>7. CASE Restart
  BY <1>7 DEF Restart, SpiInv, TypeOK, BankInv, PairInv, chip
<1>8. CASE UNCHANGED vars
  BY <1>8 DEF vars, chip, SpiInv, TypeOK, BankInv, PairInv, Selected, Econ1, Addr
<1>9. QED
  BY <1>1, <1>2, <1>3, <1>4, <1>5, <1>6, <1>7, <1>8 DEF Next

LEMMA SpiInvariant == Spec => []SpiInv
BY SpiInit, SpiStep, PTL DEF Spec

\* An access finds its bank selected, whatever a restart left.
THEOREM BankAlwaysSelected == Spec => []BankSelected
<1>1. SpiInv => BankSelected
  BY ReachedIsMeant DEF BankSelected
<1>2. QED
  BY <1>1, SpiInvariant, PTL

-----------------------------------------------------------------------------
\* The refinement.

LEMMA AccessServes ==
  ASSUME SpiInv, Access
  PROVE  File!Serve \/ UNCHANGED <<Contents, rdpt, call, result>>
<1>1. /\ call # NoCall /\ phase = "access" /\ half \in {0, 1}
      /\ reg \in [Locations -> SUBSET Bits]
  BY DEF Access, SpiInv, TypeOK
<1>2. Reached = Loc(Addr)
  BY <1>1, ReachedIsMeant
<1>3. CASE call.op = "wcr2" /\ half = 0
  <2>1. Addr = ERXRDPTL /\ Op = "wcr"
    BY <1>1, <1>3, CallTypes DEF Op, ERXRDPTL
  <2>2. Contents' = Contents
    BY <1>1, <2>1, AccessEffect, ContentsPair
  <2>3. UNCHANGED <<rdpt, call, result>>
    BY <1>2, <1>3, <2>1, FixedLocations DEF Access
  <2>4. QED
    BY <2>2, <2>3
<1>4. CASE call.op = "wcr2" /\ half = 1
  <2>1. /\ Addr = ERXRDPTL + 1 /\ Op = "wcr" /\ Data = call.high
        /\ reg[Loc(ERXRDPTL)] = call.data
    BY <1>1, <1>4, CallTypes DEF Op, Data, SpiInv, PairInv
  <2>2. Contents' = Contents
    BY <1>1, <2>1, AccessEffect, ContentsPair
  <2>3. reg'[Reached] = call.high
    BY <1>2, <2>1, AccessEffect DEF Changed
  <2>4. rdpt' = <<call.data, call.high>> /\ call' = NoCall /\ UNCHANGED result
    BY <1>2, <1>4, <2>1, <2>3 DEF Access
  <2>5. QED
    BY <1>1, <1>4, <2>2, <2>4 DEF File!Serve
<1>5. CASE call.op # "wcr2"
  <2>1. /\ call.addr \in Registers /\ Addr = call.addr /\ Addr # ERXRDPTL + 1
        /\ Op = call.op /\ Data = call.data /\ Addr \in Addresses
    BY <1>1, <1>5, CallTypes DEF Op, Data
  <2>2. Contents' = [Contents EXCEPT ![call.addr] =
                       Changed(call.op, call.data, reg[Loc(call.addr)])]
    BY <1>1, <2>1, AccessEffect, ContentsWrite
  <2>3. Contents[call.addr] = reg[Loc(call.addr)]
    BY <2>1 DEF Contents
  <2>4. Loc(Addr) # Loc(ERXRDPTL + 1)
    BY <2>1, FixedLocations, AddressAssumption
  <2>5. rdpt' = rdpt /\ call' = NoCall
    BY <1>2, <1>5, <2>4 DEF Access
  <2>6. result' = IF call.op = "rcr" THEN Contents[call.addr] ELSE result
    BY <2>1, <2>3, AccessEffect DEF Access
  <2>7. Contents' = [Contents EXCEPT ![call.addr] =
                       File!Changed(call.op, call.data, Contents[call.addr])]
    BY <2>2, <2>3 DEF Changed, File!Changed
  <2>8. QED
    BY <1>1, <1>5, <2>5, <2>6, <2>7 DEF File!Serve
<1>6. QED
  BY <1>1, <1>3, <1>4, <1>5

LEMMA StepMaps ==
  ASSUME SpiInv, [Next]_vars
  PROVE  [File!Next]_(File!vars)
<1>0. reg \in [Locations -> SUBSET Bits] /\ ECON1 \in Registers
      /\ Contents[ECON1] = Econ1
  BY FixedLocations DEF SpiInv, TypeOK, Contents, Econ1
<1>1. ASSUME NEW c \in Calls, Begin(c) PROVE File!Next
  <2>1. File!Begin(c)
    BY <1>1 DEF Begin, File!Begin, chip, Contents
  <2>2. QED
    BY <2>1 DEF File!Next
<1>2. CASE BankClear
  <2>1. Contents' = [Contents EXCEPT ![ECON1] = (Econ1 \ BankBits) \cup {}]
    BY <1>0, <1>2, ContentsWrite DEF BankClear, Econ1
  <2>2. File!SelectBank({})
    BY <1>0, <1>2, <2>1 DEF BankClear, File!SelectBank
  <2>3. QED
    BY <2>2 DEF File!Next
<1>3. CASE BankSet
  <2> DEFINE b == BitsOf(Bank(Addr))
  <2>1. Econ1 \cap BankBits = {} /\ b \in SUBSET BankBits
    BY <1>3 DEF BankSet, SpiInv, BankInv, BitsOf
  <2>2. Contents' = [Contents EXCEPT ![ECON1] = Econ1 \cup b]
    BY <1>0, <1>3, ContentsWrite DEF BankSet, Econ1
  <2> HIDE DEF b
  <2>3. Econ1 \cup b = (Econ1 \ BankBits) \cup b
    BY <2>1
  <2>4. File!SelectBank(b)
    BY <1>0, <1>3, <2>2, <2>3 DEF BankSet, File!SelectBank
  <2>5. QED
    BY <2>1, <2>4 DEF File!Next
<1>4. CASE Access
  BY <1>4, AccessServes DEF File!Next, File!vars
<1>5. CASE Reset
  <2>1. Contents' = [a \in Registers |-> {}]
    BY <1>5, LocType DEF Reset, Contents, Registers
  <2>2. File!Reset
    BY <1>5, <2>1 DEF Reset, File!Reset
  <2>3. QED
    BY <2>2 DEF File!Next
<1>6. ASSUME NEW a \in Volatile, NEW bits \in SUBSET ChipBits, ChipStep(a, bits)
      PROVE  File!Next
  <2>1. a \in Registers
    BY AddressAssumption
  <2>2. Contents' = [Contents EXCEPT ![a] = (Contents[a] \ ChipBits) \cup bits]
    BY <1>0, <1>6, <2>1, ContentsWrite DEF ChipStep, Contents
  <2>3. File!ChipStep(a, bits)
    BY <1>6, <2>2 DEF ChipStep, File!ChipStep
  <2>4. QED
    BY <2>3 DEF File!Next
<1>7. CASE Restart
  <2>1. File!Drop
    BY <1>7 DEF Restart, chip, File!Drop, Contents
  <2>2. QED
    BY <2>1 DEF File!Next
<1>8. CASE UNCHANGED vars
  BY <1>8 DEF vars, chip, File!vars, Contents
<1>9. QED
  BY <1>1, <1>2, <1>3, <1>4, <1>5, <1>6, <1>7, <1>8 DEF Next

\* The register functions are atomic: three or six transfers, between which the
\* chip works and the processor may restart, act as one step on one register.
THEOREM RegistersRefinement == Spec => ImplementsRegisters
<1>1. Init => File!Init
  <2> SUFFICES ASSUME Init PROVE File!Init
    OBVIOUS
  <2>1. Contents = [a \in Registers |-> {}]
    BY LocType DEF Init, Contents, Registers
  <2>2. QED
    BY <2>1 DEF Init, File!Init
<1>2. SpiInv /\ [Next]_vars => [File!Next]_(File!vars)
  BY StepMaps
<1>3. QED
  BY <1>1, <1>2, SpiInvariant, PTL DEF Spec, ImplementsRegisters, File!Spec
=============================================================================
