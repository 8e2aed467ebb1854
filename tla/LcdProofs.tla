------------------------------ MODULE LcdProofs ------------------------------
(***************************************************************************)
(* Proofs about Lcd for every size of the screen and its memory and every  *)
(* text.                                                                   *)
(***************************************************************************)
EXTENDS Lcd, LcdFormatProofs, TLAPS

LEMMA Nibbles ==
  ASSUME NEW v \in Char
  PROVE  /\ v \div 16 \in 0 .. 15 /\ v % 16 \in 0 .. 15
         /\ 16 * (v \div 16) + (v % 16) = v
<1>1. v \in Int /\ 0 <= v /\ v < 256
  BY DEF Char
<1>2. v % 16 \in 0 .. 15
  BY <1>1
<1>3. v \div 16 \in Int
  BY <1>1
<1>4. 16 * (v \div 16) + (v % 16) = v
  BY <1>1
<1>5. v \div 16 \in 0 .. 15
  BY <1>1, <1>2, <1>3, <1>4
<1>6. QED
  BY <1>2, <1>4, <1>5

\* The commands are no characters, and all different.
Bytes == {FunctionSet, DisplayOn, Clear, Home, ShiftRight}

LEMMA BytesDiffer ==
  /\ \A b \in Bytes : ~b.char /\ b \in [char : BOOLEAN, value : Char]
  /\ FunctionSet \notin {DisplayOn, Clear, Home, ShiftRight}
  /\ DisplayOn \notin {Clear, Home, ShiftRight}
  /\ Clear \notin {Home, ShiftRight} /\ Home # ShiftRight
  /\ Commands[1] = FunctionSet /\ Commands[2] = DisplayOn /\ Commands[3] = Clear
  /\ Commands[4] = Home
<1>1. /\ FunctionSet.value = 40 /\ DisplayOn.value = 12 /\ Clear.value = 1
      /\ Home.value = 2 /\ ShiftRight.value = 20
  BY DEF FunctionSet, DisplayOn, Clear, Home, ShiftRight, Command
<1>2. \A b \in Bytes : ~b.char /\ b \in [char : BOOLEAN, value : Char]
  <2>1. \A n \in {40, 12, 1, 2, 20} : n \in Char
    BY DEF Char
  <2>2. \A n \in Char : Command(n) \in [char : BOOLEAN, value : Char] /\ ~Command(n).char
    BY DEF Command
  <2>3. QED
    BY <2>1, <2>2 DEF Bytes, FunctionSet, DisplayOn, Clear, Home, ShiftRight
<1>3. QED
  BY <1>1, <1>2 DEF Commands

LEMMA Memory == 0 \in Places /\ BlankMemory \in [Places -> Char] /\ Home \in [char : BOOLEAN, value : Char]
<1>1. 0 \in Places
  BY ScreenAssumption DEF Places
<1>2. BlankMemory \in [Places -> Char]
  BY DEF BlankMemory, Char, Space
<1>3. QED
  BY <1>1, <1>2 DEF Home, Command, Char

\* Where a character is shown is in the memory, and so is the place after it.
LEMMA PlaceBound ==
  ASSUME TypeOK, pos_y < HEIGHT
  PROVE  Place \in Nat /\ Place \in Places /\ Place + 1 \in Places
<1>1. pos_y \in {0, 1} /\ pos_x \in 0 .. WIDTH - 1
  BY ScreenAssumption DEF TypeOK
<1>2. CASE pos_y = 0
  BY <1>1, <1>2, ScreenAssumption DEF Place, Places
<1>3. CASE pos_y = 1
  BY <1>1, <1>3, ScreenAssumption DEF Place, Places
<1>4. QED
  BY <1>1, <1>2, <1>3

\* What the display does with the bytes of the driver.
LEMMA Effect ==
  ASSUME TypeOK, ByteInv, Execute(byte.char, byte.value)
  PROVE  /\ byte.char => /\ ddram' = [ddram EXCEPT ![ac] = byte.value] /\ ac' = NextPlace
                         /\ UNCHANGED <<two, on>>
         /\ byte = FunctionSet => two' = TRUE /\ UNCHANGED <<ddram, ac, on>>
         /\ byte = DisplayOn => on' = TRUE /\ UNCHANGED <<ddram, ac, two>>
         /\ byte = Clear => ddram' = BlankMemory /\ ac' = 0 /\ UNCHANGED <<two, on>>
         /\ byte = Home => ac' = 0 /\ UNCHANGED <<ddram, two, on>>
         /\ byte = ShiftRight => ac' = NextPlace /\ UNCHANGED <<ddram, two, on>>
<1>1. ASSUME NEW n \in {40, 12, 1, 2, 20}, byte = Command(n)
      PROVE  ~byte.char /\ byte.value = n
  BY <1>1 DEF Command
<1>2. CASE byte.char
  <2>1. byte \notin Bytes
    BY <1>2, BytesDiffer
  <2>2. QED
    BY <1>2, <2>1 DEF Execute, Bytes
<1>3. CASE byte = FunctionSet
  <2>1. ~byte.char /\ byte.value = 40
    BY <1>1, <1>3 DEF FunctionSet
  <2>2. two' = (40 % 16 >= 8) /\ UNCHANGED <<ddram, ac, on>>
    BY <2>1 DEF Execute
  <2>3. (40 % 16 >= 8) = TRUE
    OBVIOUS
  <2>4. two' = TRUE
    BY <2>2, <2>3, Zenon
  <2>5. QED
    BY <1>3, <2>1, <2>2, <2>4, BytesDiffer DEF Bytes
<1>4. CASE byte = DisplayOn
  <2>1. ~byte.char /\ byte.value = 12
    BY <1>1, <1>4 DEF DisplayOn
  <2>2. on' = (12 >= 12) /\ UNCHANGED <<ddram, ac, two>>
    BY <2>1 DEF Execute
  <2>3. (12 >= 12) = TRUE
    OBVIOUS
  <2>4. on' = TRUE
    BY <2>2, <2>3, Zenon
  <2>5. QED
    BY <1>4, <2>1, <2>2, <2>4, BytesDiffer DEF Bytes
<1>5. CASE byte = Clear
  <2>1. ~byte.char /\ byte.value = 1
    BY <1>1, <1>5 DEF Clear
  <2>2. ddram' = BlankMemory /\ ac' = 0 /\ UNCHANGED <<two, on>>
    BY <2>1 DEF Execute
  <2>3. QED
    BY <1>5, <2>1, <2>2, BytesDiffer DEF Bytes
<1>6. CASE byte = Home
  <2>1. ~byte.char /\ byte.value = 2
    BY <1>1, <1>6 DEF Home
  <2>2. ac' = 0 /\ UNCHANGED <<ddram, two, on>>
    BY <2>1 DEF Execute
  <2>3. QED
    BY <1>6, <2>1, <2>2, BytesDiffer DEF Bytes
<1>7. CASE byte = ShiftRight
  <2>1. ~byte.char /\ byte.value = 20
    BY <1>1, <1>7 DEF ShiftRight
  <2>2. ac' = NextPlace /\ UNCHANGED <<ddram, two, on>>
    BY <2>1 DEF Execute
  <2>3. QED
    BY <1>7, <2>1, <2>2, BytesDiffer DEF Bytes
<1>8. QED
  BY <1>2, <1>3, <1>4, <1>5, <1>6, <1>7 DEF ByteInv

LEMMA InitInv == Init => LcdInv
<1> SUFFICES ASSUME Init PROVE LcdInv
  OBVIOUS
<1>1. TypeOK
  <2>1. TextOK
    BY DEF Init, TextOK
  <2>2. /\ call \in {"off", "init", "print", "idle"}
        /\ seen \in BOOLEAN /\ four \in BOOLEAN /\ busy \in BOOLEAN
        /\ two \in BOOLEAN /\ on \in BOOLEAN
    BY DEF Init
  <2>3. /\ command \in 1 .. NoCommand
        /\ shifts \in Nat /\ pos_x \in 0 .. WIDTH - 1 /\ pos_y \in Nat
        /\ step \in {"idle", "nibble", "next", "high", "low", "busy", "rest"}
        /\ half \in {NoHalf, ReadHalf} \cup 0 .. 15
    BY ScreenAssumption DEF Init, NoCommand
  <2>4. byte \in [char : BOOLEAN, value : Char] /\ ac \in Places /\ ddram \in [Places -> Char]
    BY Memory DEF Init
  <2>5. QED
    BY <2>1, <2>2, <2>3, <2>4 DEF TypeOK
<1> USE ScreenAssumption DEF Init, BlankMemory, Command, Space, Char, NoHalf, NoCommand
<1>2. InStep
  BY DEF InStep, FunctionSetDue
<1>3. CallInv
  BY DEF CallInv
<1>4. ByteInv
  BY DEF ByteInv, Writing, Executed, Home, Clear, DisplayOn, FunctionSet, ShiftRight
<1>5. PlaceInv
  BY DEF PlaceInv
<1>6. TextInv
  BY DEF TextInv, Home
<1>7. QED
  BY <1>1, <1>2, <1>3, <1>4, <1>5, <1>6 DEF LcdInv

LEMMA InitCallInv ==
  ASSUME LcdInv, InitCall
  PROVE  LcdInv'
<1> USE ScreenAssumption DEF LcdInv
<1>0. /\ call = "off" /\ call' = "init" /\ step' = "nibble" /\ command' = 1 /\ ~busy
      /\ UNCHANGED <<items, text, next, shifts, byte, seen, pos_x, pos_y, four, half, busy, two, on, ac, ddram>>
  BY BytesDiffer DEF InitCall, display, TypeOK
<1>1. TypeOK'
  <2>1. TextOK'
    BY <1>0 DEF TypeOK, TextOK
  <2>2. QED
    BY <1>0, <2>1, BytesDiffer DEF TypeOK, NoCommand, Bytes
<1>2. InStep'
  BY <1>0, Nibbles, BytesDiffer
     DEF InStep, FunctionSetDue, CallInv, ByteInv, TypeOK, NoHalf, ReadHalf, NoCommand, Bytes
<1>3. CallInv'
  BY <1>0, BytesDiffer DEF CallInv, InStep, NoCommand, TypeOK
<1>4. ByteInv'
  BY <1>0, BytesDiffer DEF ByteInv, CallInv, Executed, Writing, NoCommand, Bytes, TypeOK
<1>5. PlaceInv'
  BY <1>0, BytesDiffer DEF PlaceInv, Place, CallInv, ByteInv, Writing, NoCommand, TypeOK
<1>6. TextInv'
  BY <1>0, BytesDiffer DEF TextInv, CallInv, Writing, NoCommand, Bytes, TypeOK, TextOK
<1>7. QED
  BY <1>1, <1>2, <1>3, <1>4, <1>5, <1>6

LEMMA InitNibbleInv ==
  ASSUME LcdInv, InitNibble
  PROVE  LcdInv'
<1> USE ScreenAssumption DEF LcdInv
<1>0. /\ step = "nibble" /\ step' = "next" /\ four' = TRUE /\ two' \in BOOLEAN /\ busy' = TRUE
      /\ UNCHANGED <<call, items, text, next, command, shifts, byte, seen, pos_x, pos_y, half, on, ac, ddram>>
  BY BytesDiffer DEF InitNibble, Written, program, CallInv, TypeOK
<1>1. TypeOK'
  <2>1. TextOK'
    BY <1>0 DEF TypeOK, TextOK
  <2>2. QED
    BY <1>0, <2>1, BytesDiffer DEF TypeOK, NoCommand, Bytes
<1>2. InStep'
  BY <1>0, Nibbles, BytesDiffer
     DEF InStep, FunctionSetDue, CallInv, ByteInv, TypeOK, NoHalf, ReadHalf, NoCommand, Bytes
<1>3. CallInv'
  BY <1>0, BytesDiffer DEF CallInv, InStep, NoCommand, TypeOK
<1>4. ByteInv'
  BY <1>0, BytesDiffer DEF ByteInv, CallInv, Executed, Writing, NoCommand, Bytes, TypeOK
<1>5. PlaceInv'
  BY <1>0, BytesDiffer DEF PlaceInv, Place, CallInv, ByteInv, Writing, NoCommand, TypeOK
<1>6. TextInv'
  BY <1>0, BytesDiffer DEF TextInv, CallInv, Writing, NoCommand, Bytes, TypeOK, TextOK
<1>7. QED
  BY <1>1, <1>2, <1>3, <1>4, <1>5, <1>6

LEMMA ReturnInv ==
  ASSUME LcdInv, Return
  PROVE  LcdInv'
<1> USE ScreenAssumption DEF LcdInv
<1>0. /\ step = "next" /\ shifts = 0 /\ command = NoCommand /\ call \in {"init", "print"}
      /\ call = "print" => next > Len(text)
      /\ call' = "idle" /\ step' = "idle"
      /\ UNCHANGED <<items, text, next, command, shifts, byte, seen, pos_x, pos_y, four, half, busy, two, on, ac, ddram>>
  BY BytesDiffer DEF Return, display, TypeOK
<1>1. TypeOK'
  <2>1. TextOK'
    BY <1>0 DEF TypeOK, TextOK
  <2>2. QED
    BY <1>0, <2>1, BytesDiffer DEF TypeOK, NoCommand, Bytes
<1>2. InStep'
  BY <1>0, Nibbles, BytesDiffer
     DEF InStep, FunctionSetDue, CallInv, ByteInv, TypeOK, NoHalf, ReadHalf, NoCommand, Bytes
<1>3. CallInv'
  BY <1>0, BytesDiffer DEF CallInv, InStep, NoCommand, TypeOK
<1>4. ByteInv'
  BY <1>0, BytesDiffer DEF ByteInv, CallInv, Executed, Writing, NoCommand, Bytes, TypeOK
<1>5. PlaceInv'
  BY <1>0, BytesDiffer DEF PlaceInv, Place, CallInv, ByteInv, Writing, NoCommand, TypeOK
<1>6. TextInv'
  <2>1. next = Len(text) + 1
    <3>1. CASE call = "init"
      BY <3>1 DEF TextInv
    <3>2. CASE call = "print"
      <4>1. Len(text) \in Nat /\ next \in 1 .. Len(text) + 1 /\ next > Len(text)
        BY <1>0, <3>2 DEF TypeOK, TextOK
      <4>2. QED
        BY <4>1
    <3>3. QED
      BY <1>0, <3>1, <3>2
  <2>2. QED
    BY <1>0, <2>1 DEF TextInv
<1>7. QED
  BY <1>1, <1>2, <1>3, <1>4, <1>5, <1>6

LEMMA WriteHighEffect ==
  ASSUME LcdInv, WriteHigh
  PROVE  /\ step = "high" /\ step' = "low" /\ half' = byte.value \div 16
         /\ UNCHANGED <<call, items, text, next, command, shifts, byte, seen, pos_x, pos_y, four, busy, two, on, ac, ddram>>
BY BytesDiffer DEF WriteHigh, Written, program, InStep, CallInv, NoHalf, ReadHalf, TypeOK, LcdInv

LEMMA WriteHighInv ==
  ASSUME LcdInv, WriteHigh
  PROVE  LcdInv'
<1> USE ScreenAssumption DEF LcdInv
<1>0. /\ step = "high" /\ step' = "low" /\ half' = byte.value \div 16
      /\ UNCHANGED <<call, items, text, next, command, shifts, byte, seen, pos_x, pos_y, four, busy, two, on, ac, ddram>>
  BY WriteHighEffect
<1>1. TypeOK'
  <2>1. TextOK'
    BY <1>0 DEF TypeOK, TextOK
  <2>2. half' \in 0 .. 15
    <3>1. byte.value \in Char
      BY DEF TypeOK
    <3>2. QED
      BY <1>0, <3>1, Nibbles
  <2>3. QED
    BY <1>0, <2>1, <2>2 DEF TypeOK, NoCommand
<1>2. InStep'
  BY <1>0, Nibbles, BytesDiffer
     DEF InStep, FunctionSetDue, CallInv, ByteInv, TypeOK, NoHalf, ReadHalf, NoCommand, Bytes
<1>3. CallInv'
  BY <1>0, BytesDiffer DEF CallInv, InStep, NoCommand, TypeOK
<1>4. ByteInv'
  BY <1>0, BytesDiffer DEF ByteInv, CallInv, Executed, Writing, NoCommand, Bytes, TypeOK
<1>5. PlaceInv'
  BY <1>0, BytesDiffer DEF PlaceInv, Place, CallInv, ByteInv, Writing, NoCommand, TypeOK
<1>6. TextInv'
  BY <1>0, BytesDiffer DEF TextInv, CallInv, Writing, NoCommand, Bytes, TypeOK, TextOK
<1>7. QED
  BY <1>1, <1>2, <1>3, <1>4, <1>5, <1>6

LEMMA WriteLowEffect ==
  ASSUME LcdInv, WriteLow
  PROVE  /\ step = "low" /\ step' = "busy" /\ half' = NoHalf /\ busy' = TRUE
         /\ \/ Execute(byte.char, byte.value)
            \/ byte = FunctionSet /\ UNCHANGED <<two, on, ac, ddram>>
         /\ UNCHANGED <<call, items, text, next, command, shifts, byte, seen, pos_x, pos_y, four>>
<1>1. byte.value \in Char
  BY DEF LcdInv, TypeOK
<1>2. step = "low" /\ step' = "busy" /\ half = byte.value \div 16 /\ four
  BY DEF WriteLow, LcdInv, InStep, CallInv
<1>3. busy => byte = FunctionSet
  BY <1>2 DEF LcdInv, InStep, FunctionSetDue
<1>4. half \in 0 .. 15 /\ 16 * half + (byte.value % 16) = byte.value
  BY <1>1, <1>2, Nibbles
<1>5. half # NoHalf /\ half # ReadHalf
  BY <1>4 DEF NoHalf, ReadHalf
<1>6. /\ half' = NoHalf /\ UNCHANGED four
      /\ \/ busy' = TRUE /\ Execute(byte.char, 16 * half + (byte.value % 16))
         \/ busy /\ UNCHANGED <<busy, two, on, ac, ddram>>
  BY <1>2, <1>5 DEF WriteLow, Written
<1>7. busy => busy = TRUE
  BY DEF LcdInv, TypeOK
<1>8. QED
  BY <1>2, <1>3, <1>4, <1>6, <1>7 DEF WriteLow, program

LEMMA WriteLowInv ==
  ASSUME LcdInv, WriteLow
  PROVE  LcdInv'
<1> USE ScreenAssumption DEF LcdInv
<1>0. /\ step = "low" /\ step' = "busy" /\ half' = NoHalf /\ busy' = TRUE
      /\ \/ Execute(byte.char, byte.value)
         \/ byte = FunctionSet /\ UNCHANGED <<two, on, ac, ddram>>
      /\ UNCHANGED <<call, items, text, next, command, shifts, byte, seen, pos_x, pos_y, four>>
  BY WriteLowEffect
<1>e. /\ byte.char => /\ ddram' = [ddram EXCEPT ![ac] = byte.value] /\ ac' = NextPlace
                      /\ UNCHANGED <<two, on>>
      /\ byte = FunctionSet => two' \in BOOLEAN /\ UNCHANGED <<ddram, ac, on>>
      /\ byte = DisplayOn => on' = TRUE /\ UNCHANGED <<ddram, ac, two>>
      /\ byte = Clear => ddram' = BlankMemory /\ ac' = 0 /\ UNCHANGED <<two, on>>
      /\ byte = Home => ac' = 0 /\ UNCHANGED <<ddram, two, on>>
      /\ byte = ShiftRight => ac' = NextPlace /\ UNCHANGED <<ddram, two, on>>
  <2>1. CASE Execute(byte.char, byte.value)
    BY <2>1, Effect
  <2>2. CASE byte = FunctionSet /\ UNCHANGED <<two, on, ac, ddram>>
    BY <2>2, BytesDiffer DEF Bytes, TypeOK
  <2>3. QED
    BY <1>0, <2>1, <2>2
<1>b. byte.char \/ byte \in Bytes
  BY DEF ByteInv, Bytes
<1>n. NextPlace \in Places
  BY Memory DEF NextPlace
<1>1. TypeOK'
  <2>1. TextOK'
    BY <1>0 DEF TypeOK, TextOK
  <2>2. byte.value \in Char /\ ac \in Places /\ ddram \in [Places -> Char]
    BY DEF TypeOK
  <2>3. ddram' \in [Places -> Char] /\ ac' \in Places
    BY <2>2, <1>e, <1>b, <1>n, Memory DEF Bytes
  <2>4. two' \in BOOLEAN /\ on' \in BOOLEAN
    BY <1>e, <1>b DEF Bytes, TypeOK
  <2>5. QED
    BY <1>0, <2>1, <2>3, <2>4 DEF TypeOK, NoCommand
<1>2. InStep'
  BY <1>0, Nibbles, BytesDiffer
     DEF InStep, FunctionSetDue, CallInv, ByteInv, TypeOK, NoHalf, ReadHalf, NoCommand, Bytes
<1>3. CallInv'
  BY <1>0, BytesDiffer DEF CallInv, InStep, NoCommand, TypeOK
<1>4. ByteInv'
  BY <1>0, <1>e, <1>b, BytesDiffer DEF ByteInv, CallInv, Executed, Writing, NoCommand, Bytes, TypeOK
<1>5. PlaceInv'
  <2> SUFFICES ASSUME call # "off", command = NoCommand, pos_y < HEIGHT
               PROVE  (byte.char => ac' = Place + 1) /\ (~byte.char => ac' + shifts = Place)
    BY <1>0 DEF PlaceInv, Place
  <2>1. Place \in Nat /\ Place \in Places /\ Place + 1 \in Places /\ shifts \in Nat /\ ac \in Places
    BY PlaceBound DEF TypeOK
  <2>2. CASE byte.char
    BY <1>0, <1>e, <2>1, <2>2 DEF PlaceInv, NextPlace
  <2>3. CASE byte = Home
    <3>1. shifts = Place
      BY <1>0, <2>3 DEF PlaceInv
    <3>2. QED
      BY <1>e, <2>1, <2>3, <3>1, BytesDiffer DEF Bytes
  <2>4. CASE byte = ShiftRight
    <3>1. ac + 1 + shifts = Place
      BY <1>0, <2>4 DEF PlaceInv
    <3>2. ac + 1 \in Places
      BY <2>1, <3>1, ScreenAssumption DEF Places
    <3>3. ac' = ac + 1
      BY <1>e, <2>4, <3>2 DEF NextPlace
    <3>4. ~byte.char
      BY <2>4, BytesDiffer DEF Bytes
    <3>5. QED
      BY <3>1, <3>3, <3>4
  <2>5. byte \notin {FunctionSet, DisplayOn, Clear}
    BY BytesDiffer DEF ByteInv, NoCommand
  <2>6. QED
    BY <1>b, <2>2, <2>3, <2>4, <2>5 DEF Bytes
<1>6. TextInv'
  BY <1>0, BytesDiffer DEF TextInv, CallInv, Writing, NoCommand, Bytes, TypeOK, TextOK
<1>7. QED
  BY <1>1, <1>2, <1>3, <1>4, <1>5, <1>6

LEMMA ReadHighInv ==
  ASSUME LcdInv, ReadHigh
  PROVE  LcdInv'
<1> USE ScreenAssumption DEF LcdInv
<1>0. /\ step = "busy" /\ step' = "rest" /\ seen' = busy /\ half' = ReadHalf
      /\ UNCHANGED <<call, items, text, next, command, shifts, byte, pos_x, pos_y, four, busy, two, on, ac, ddram>>
  BY BytesDiffer DEF ReadHigh, ReadPulse, program, InStep, TypeOK
<1>1. TypeOK'
  <2>1. TextOK'
    BY <1>0 DEF TypeOK, TextOK
  <2>2. QED
    BY <1>0, <2>1, BytesDiffer DEF TypeOK, NoCommand, Bytes
<1>2. InStep'
  BY <1>0, Nibbles, BytesDiffer
     DEF InStep, FunctionSetDue, CallInv, ByteInv, TypeOK, NoHalf, ReadHalf, NoCommand, Bytes
<1>3. CallInv'
  BY <1>0, BytesDiffer DEF CallInv, InStep, NoCommand, TypeOK
<1>4. ByteInv'
  BY <1>0, BytesDiffer DEF ByteInv, CallInv, Executed, Writing, NoCommand, Bytes, TypeOK
<1>5. PlaceInv'
  BY <1>0, BytesDiffer DEF PlaceInv, Place, CallInv, ByteInv, Writing, NoCommand, TypeOK
<1>6. TextInv'
  BY <1>0, BytesDiffer DEF TextInv, CallInv, Writing, NoCommand, Bytes, TypeOK, TextOK
<1>7. QED
  BY <1>1, <1>2, <1>3, <1>4, <1>5, <1>6

LEMMA ReadLowInv ==
  ASSUME LcdInv, ReadLow
  PROVE  LcdInv'
<1> USE ScreenAssumption DEF LcdInv
<1>0. /\ step = "rest" /\ half' = NoHalf
      /\ \/ seen /\ step' = "busy" /\ UNCHANGED <<byte, shifts, pos_x, pos_y>>
         \/ ~seen /\ byte.char /\ Advance
         \/ ~seen /\ ~byte.char /\ step' = "next" /\ UNCHANGED <<byte, shifts, pos_x, pos_y>>
      /\ UNCHANGED <<call, items, text, next, command, seen, four, busy, two, on, ac, ddram>>
  BY BytesDiffer DEF ReadLow, ReadPulse, program, InStep, NoHalf, ReadHalf, TypeOK
<1>t. TextOK'
  BY <1>0 DEF TypeOK, TextOK
<1>1. CASE seen
  <2>0. step' = "busy" /\ UNCHANGED <<byte, shifts, pos_x, pos_y>>
    BY <1>0, <1>1
  <2>1. TypeOK'
    BY <1>0, <1>t, <2>0 DEF TypeOK, NoCommand
  <2>2. InStep'
    BY <1>0, <1>1, <2>0, BytesDiffer
       DEF InStep, FunctionSetDue, CallInv, ByteInv, NoHalf, ReadHalf, NoCommand, Bytes, TypeOK
  <2>3. CallInv'
    BY <1>0, <1>1, <2>0 DEF CallInv, ByteInv, Writing, NoCommand, TypeOK
  <2>4. ByteInv'
    BY <1>0, <1>1, <2>0, BytesDiffer DEF ByteInv, CallInv, Executed, Writing, NoCommand, Bytes, TypeOK
  <2>5. PlaceInv'
    BY <1>0, <2>0 DEF PlaceInv, Place
  <2>6. TextInv'
    BY <1>0, <2>0, BytesDiffer DEF TextInv, CallInv, ByteInv, Writing, NoCommand, Bytes, TypeOK, TextOK
  <2>7. QED
    BY <2>1, <2>2, <2>3, <2>4, <2>5, <2>6
<1>2. CASE ~seen /\ ~byte.char
  <2>0. step' = "next" /\ UNCHANGED <<byte, shifts, pos_x, pos_y>>
    BY <1>0, <1>2
  <2>1. TypeOK'
    BY <1>0, <1>t, <2>0 DEF TypeOK, NoCommand
  <2>2. InStep'
    BY <1>0, <1>2, <2>0, BytesDiffer
       DEF InStep, FunctionSetDue, CallInv, ByteInv, NoHalf, ReadHalf, NoCommand, Bytes, TypeOK
  <2>3. CallInv'
    BY <1>0, <1>2, <2>0 DEF CallInv, ByteInv, Writing, NoCommand, TypeOK
  <2>4. ByteInv'
    BY <1>0, <1>2, <2>0, BytesDiffer DEF ByteInv, CallInv, Executed, Writing, NoCommand, Bytes, TypeOK
  <2>5. PlaceInv'
    BY <1>0, <1>2, <2>0 DEF PlaceInv, Place
  <2>6. TextInv'
    BY <1>0, <2>0, BytesDiffer DEF TextInv, CallInv, ByteInv, Writing, NoCommand, Bytes, TypeOK, TextOK
  <2>7. QED
    BY <2>1, <2>2, <2>3, <2>4, <2>5, <2>6
<1>3. CASE ~seen /\ byte.char /\ pos_x + 1 # WIDTH
  <2>0. /\ step' = "next" /\ pos_x' = pos_x + 1
        /\ UNCHANGED <<byte, shifts, pos_y>>
    BY <1>0, <1>3 DEF Advance
  <2>1. TypeOK'
    <3>1. pos_x' \in 0 .. WIDTH - 1
      BY <1>3, <2>0 DEF TypeOK
    <3>2. QED
      BY <1>0, <1>t, <2>0, <3>1 DEF TypeOK, NoCommand
  <2>2. InStep'
    BY <1>0, <1>3, <2>0, BytesDiffer
       DEF InStep, FunctionSetDue, CallInv, ByteInv, NoHalf, ReadHalf, NoCommand, Bytes, TypeOK
  <2>3. CallInv'
    BY <1>0, <1>3, <2>0 DEF CallInv, ByteInv, Writing, NoCommand, TypeOK
  <2>4. ByteInv'
    BY <1>0, <1>3, <2>0, BytesDiffer DEF ByteInv, CallInv, Executed, Writing, NoCommand, Bytes, TypeOK
  <2>5. PlaceInv'
    <3> SUFFICES ASSUME call # "off", command = NoCommand, pos_y < HEIGHT
                 PROVE  ac + shifts = Place'
      BY <1>0, <2>0 DEF PlaceInv
    <3>1. shifts = 0 /\ ac = Place + 1
      BY <1>0, <1>3 DEF PlaceInv, ByteInv, Writing
    <3>2. Place' = Place + 1
      <4>1. pos_x \in Nat /\ LineLength * pos_y \in Nat
        BY DEF TypeOK
      <4>2. QED
        BY <1>0, <2>0, <4>1 DEF Place
    <3>3. QED
      BY <3>1, <3>2 DEF TypeOK, Places
  <2>6. TextInv'
    BY <1>0, <2>0, BytesDiffer DEF TextInv, CallInv, ByteInv, Writing, NoCommand, Bytes, TypeOK, TextOK
  <2>7. QED
    BY <2>1, <2>2, <2>3, <2>4, <2>5, <2>6
<1>4. CASE ~seen /\ byte.char /\ pos_x + 1 = WIDTH
  <2>0. /\ step' = "high" /\ byte' = Home /\ pos_x' = 0 /\ pos_y' = pos_y + 1
        /\ shifts' = LineLength * (pos_y + 1) /\ LineLength * (pos_y + 1) \in Nat
    <3>1. LineLength * (pos_y + 1) \in Nat
      BY DEF TypeOK
    <3>2. QED
      BY <1>0, <1>4, <3>1 DEF Advance, LCD_SetCursor, LCD_Write
  <2>1. TypeOK'
    BY <1>0, <1>t, <2>0, Memory DEF TypeOK, NoCommand
  <2>2. InStep'
    BY <1>0, <1>4, <2>0, BytesDiffer
       DEF InStep, FunctionSetDue, CallInv, ByteInv, NoHalf, ReadHalf, NoCommand, Bytes, TypeOK
  <2>3. CallInv'
    BY <1>0, <1>4, <2>0 DEF CallInv, ByteInv, Writing, NoCommand, TypeOK
  <2>4. ByteInv'
    BY <1>0, <1>4, <2>0, BytesDiffer DEF ByteInv, CallInv, Executed, Writing, NoCommand, Bytes, TypeOK
  <2>5. PlaceInv'
    <3>1. ~byte'.char /\ byte' # ShiftRight
      BY <2>0, BytesDiffer DEF Bytes
    <3>2. Place' = LineLength * (pos_y + 1)
      BY <2>0 DEF Place
    <3>3. QED
      BY <1>0, <2>0, <3>1, <3>2 DEF PlaceInv
  <2>6. TextInv'
    BY <1>0, <2>0, BytesDiffer DEF TextInv, CallInv, ByteInv, Writing, NoCommand, Bytes, TypeOK, TextOK
  <2>7. QED
    BY <2>1, <2>2, <2>3, <2>4, <2>5, <2>6
<1>5. QED
  BY <1>0, <1>1, <1>2, <1>3, <1>4

LEMMA WriteShiftInv ==
  ASSUME LcdInv, WriteShift
  PROVE  LcdInv'
<1> USE ScreenAssumption DEF LcdInv
<1>0. /\ step = "next" /\ step' = "high" /\ shifts > 0 /\ shifts' = shifts - 1 /\ byte' = ShiftRight
      /\ UNCHANGED <<call, items, text, next, command, seen, pos_x, pos_y, four, half, busy, two, on, ac, ddram>>
  BY BytesDiffer DEF WriteShift, LCD_Write, program, display, TypeOK
<1>1. TypeOK'
  <2>1. TextOK'
    BY <1>0 DEF TypeOK, TextOK
  <2>2. QED
    BY <1>0, <2>1, BytesDiffer DEF TypeOK, NoCommand, Bytes
<1>2. InStep'
  BY <1>0, Nibbles, BytesDiffer
     DEF InStep, FunctionSetDue, CallInv, ByteInv, TypeOK, NoHalf, ReadHalf, NoCommand, Bytes
<1>3. CallInv'
  BY <1>0, BytesDiffer DEF CallInv, InStep, NoCommand, TypeOK
<1>4. ByteInv'
  BY <1>0, BytesDiffer DEF ByteInv, CallInv, Executed, Writing, NoCommand, Bytes, TypeOK
<1>5. PlaceInv'
  <2>1. ~byte'.char /\ byte' # Home
    BY <1>0, BytesDiffer DEF Bytes
  <2> SUFFICES ASSUME call # "off", command = NoCommand, pos_y < HEIGHT
               PROVE  ac + 1 + (shifts - 1) = Place
    BY <1>0, <2>1 DEF PlaceInv, Place
  <2>2. ac + shifts = Place
    BY <1>0 DEF PlaceInv
  <2>3. QED
    BY <2>2 DEF TypeOK, Places
<1>6. TextInv'
  BY <1>0, BytesDiffer DEF TextInv, CallInv, Writing, NoCommand, Bytes, TypeOK, TextOK
<1>7. QED
  BY <1>1, <1>2, <1>3, <1>4, <1>5, <1>6

LEMMA WriteCommandInv ==
  ASSUME LcdInv, WriteCommand
  PROVE  LcdInv'
<1> USE ScreenAssumption DEF LcdInv
<1>0. /\ step = "next" /\ step' = "high" /\ shifts = 0 /\ command \in 1 .. 4 /\ command' = command + 1
      /\ byte' = Commands[command]
      /\ \/ command = 4 /\ pos_x' = 0 /\ pos_y' = 0 /\ shifts' = 0
         \/ command < 4 /\ UNCHANGED <<pos_x, pos_y, shifts>>
      /\ UNCHANGED <<call, items, text, next, seen, four, half, busy, two, on, ac, ddram>>
  BY BytesDiffer DEF WriteCommand, LCD_Write, LCD_SetCursor, program, display, NoCommand, TypeOK
<1>1. TypeOK'
  <2>1. TextOK'
    BY <1>0 DEF TypeOK, TextOK
  <2>2. QED
    BY <1>0, <2>1, BytesDiffer DEF TypeOK, NoCommand, Bytes
<1>2. InStep'
  BY <1>0, Nibbles, BytesDiffer
     DEF InStep, FunctionSetDue, CallInv, ByteInv, TypeOK, NoHalf, ReadHalf, NoCommand, Bytes
<1>3. CallInv'
  BY <1>0, BytesDiffer DEF CallInv, InStep, NoCommand, TypeOK
<1>4. ByteInv'
  BY <1>0, BytesDiffer DEF ByteInv, CallInv, Executed, Writing, NoCommand, Bytes, TypeOK
<1>5. PlaceInv'
  <2> SUFFICES ASSUME command' = NoCommand
               PROVE  Place' = 0 /\ shifts' = 0 /\ byte' = Home
    BY <1>0, BytesDiffer DEF PlaceInv, Bytes
  <2>1. command = 4
    BY <1>0 DEF NoCommand
  <2>2. byte' = Home
    BY <1>0, <2>1, BytesDiffer
  <2>3. LineLength * 0 + 0 = 0
    BY ScreenAssumption
  <2>4. QED
    BY <1>0, <2>1, <2>2, <2>3 DEF Place
<1>6. TextInv'
  BY <1>0, BytesDiffer DEF TextInv, CallInv, Writing, NoCommand, Bytes, TypeOK, TextOK
<1>7. QED
  BY <1>1, <1>2, <1>3, <1>4, <1>5, <1>6

LEMMA TextNewlineInv ==
  ASSUME LcdInv, TextNewline
  PROVE  LcdInv'
<1> USE ScreenAssumption DEF LcdInv
<1>0. /\ step = "next" /\ step' = "high" /\ shifts = 0 /\ command = NoCommand /\ call = "print"
      /\ next <= Len(text) /\ next' = next + 1
      /\ byte' = Home /\ pos_x' = 0 /\ pos_y' = pos_y + 1 /\ shifts' = LineLength * (pos_y + 1)
      /\ UNCHANGED <<call, items, text, command, seen, four, half, busy, two, on, ac, ddram>>
  BY BytesDiffer DEF TextNewline, Character, LCD_Write, LCD_SetCursor, program, display, TypeOK
<1>1. TypeOK'
  <2>1. TextOK'
    BY <1>0 DEF TypeOK, TextOK
  <2>2. QED
    BY <1>0, <2>1, BytesDiffer DEF TypeOK, NoCommand, Bytes
<1>2. InStep'
  BY <1>0, Nibbles, BytesDiffer
     DEF InStep, FunctionSetDue, CallInv, ByteInv, TypeOK, NoHalf, ReadHalf, NoCommand, Bytes
<1>3. CallInv'
  BY <1>0, BytesDiffer DEF CallInv, InStep, NoCommand, TypeOK
<1>4. ByteInv'
  BY <1>0, BytesDiffer DEF ByteInv, CallInv, Executed, Writing, NoCommand, Bytes, TypeOK
<1>5. PlaceInv'
  <2>1. ~byte'.char /\ byte' # ShiftRight
    BY <1>0, BytesDiffer DEF Bytes
  <2>2. LineLength * (pos_y + 1) \in Nat
    BY ScreenAssumption DEF TypeOK
  <2>3. Place' = LineLength * (pos_y + 1)
    BY <1>0, <2>2 DEF Place
  <2>4. QED
    BY <1>0, <2>1, <2>3 DEF PlaceInv
<1>6. TextInv'
  BY <1>0, BytesDiffer DEF TextInv, CallInv, Writing, NoCommand, Bytes, TypeOK, TextOK
<1>7. QED
  BY <1>1, <1>2, <1>3, <1>4, <1>5, <1>6

LEMMA LCD_WriteCharInv ==
  ASSUME LcdInv, LCD_WriteChar
  PROVE  LcdInv'
<1> USE ScreenAssumption DEF LcdInv
<1>0. /\ step = "next" /\ shifts = 0 /\ command = NoCommand /\ call = "print"
      /\ next <= Len(text) /\ next' = next + 1 /\ text[next] # Newline
      /\ \/ pos_y >= HEIGHT /\ UNCHANGED <<byte, step>>
         \/ pos_y < HEIGHT /\ byte' = [char |-> TRUE, value |-> text[next]] /\ step' = "high"
      /\ UNCHANGED <<call, items, text, command, shifts, seen, pos_x, pos_y, four, half, busy, two, on, ac, ddram>>
  BY BytesDiffer DEF LCD_WriteChar, Character, LCD_Write, program, display, TypeOK
<1>1. TypeOK'
  <2>1. TextOK'
    BY <1>0 DEF TypeOK, TextOK
  <2>2. text[next] \in Char
    BY <1>0 DEF TypeOK, TextOK
  <2>3. byte' \in [char : BOOLEAN, value : Char]
    <3>1. [char |-> TRUE, value |-> text[next]] \in [char : BOOLEAN, value : Char]
      BY <2>2
    <3>2. byte' = byte \/ byte' = [char |-> TRUE, value |-> text[next]]
      BY <1>0
    <3>3. QED
      BY <3>1, <3>2 DEF TypeOK
  <2>4. QED
    BY <1>0, <2>1, <2>3 DEF TypeOK, NoCommand
<1>2. InStep'
  BY <1>0, Nibbles, BytesDiffer
     DEF InStep, FunctionSetDue, CallInv, ByteInv, TypeOK, NoHalf, ReadHalf, NoCommand, Bytes
<1>3. CallInv'
  BY <1>0, BytesDiffer DEF CallInv, InStep, NoCommand, TypeOK
<1>4. ByteInv'
  BY <1>0, BytesDiffer DEF ByteInv, CallInv, Executed, Writing, NoCommand, Bytes, TypeOK
<1>5. PlaceInv'
  <2> SUFFICES ASSUME pos_y < HEIGHT
               PROVE  ac = Place /\ byte'.char /\ byte' \notin {Home, ShiftRight} /\ step' = "high"
    BY <1>0 DEF PlaceInv, Place
  <2>1. byte' = [char |-> TRUE, value |-> text[next]] /\ step' = "high"
    BY <1>0, ScreenAssumption DEF TypeOK
  <2>2. byte'.char /\ byte' \notin {Home, ShiftRight}
    BY <2>1, BytesDiffer DEF Bytes
  <2>3. ac + shifts = Place
    BY <1>0 DEF PlaceInv, CallInv
  <2>4. QED
    BY <1>0, <2>1, <2>2, <2>3 DEF TypeOK, Places
<1>6. TextInv'
  <2>1. next \in Nat /\ next >= 1 /\ next' > 1 /\ next' - 1 = next
    BY <1>0 DEF TypeOK, TextOK
  <2>2. text'[next' - 1] = text[next]
    BY <1>0, <2>1
  <2>3. step' \in {"high", "low"} => byte'.value = text[next]
    BY <1>0
  <2>4. call' = "print" /\ command' = NoCommand /\ text' = text /\ text[next] # Newline
    BY <1>0
  <2>5. text \in {LCD_printf(i) : i \in Calls}
    BY <1>0 DEF TextInv
  <2> HIDE DEF LcdInv
  <2>6. QED
    BY <2>1, <2>2, <2>3, <2>4, <2>5 DEF TextInv
<1>7. QED
  BY <1>1, <1>2, <1>3, <1>4, <1>5, <1>6

LEMMA ReadyInv ==
  ASSUME LcdInv, Ready
  PROVE  LcdInv'
<1> USE ScreenAssumption DEF LcdInv
<1>0. /\ busy' = FALSE
      /\ UNCHANGED <<call, items, text, next, command, shifts, byte, step, seen, pos_x, pos_y, four, half, two, on, ac, ddram>>
  BY BytesDiffer DEF Ready, program, driver, TypeOK
<1>1. TypeOK'
  <2>1. TextOK'
    BY <1>0 DEF TypeOK, TextOK
  <2>2. QED
    BY <1>0, <2>1 DEF TypeOK
<1>2. InStep'
  BY <1>0, Nibbles, BytesDiffer
     DEF InStep, FunctionSetDue, CallInv, ByteInv, TypeOK, NoHalf, ReadHalf, NoCommand, Bytes
<1>3. CallInv'
  BY <1>0, BytesDiffer DEF CallInv, InStep, NoCommand, TypeOK
<1>4. ByteInv'
  BY <1>0, BytesDiffer DEF ByteInv, CallInv, Executed, Writing, NoCommand, Bytes, TypeOK
<1>5. PlaceInv'
  BY <1>0, BytesDiffer DEF PlaceInv, Place, CallInv, ByteInv, Writing, NoCommand, TypeOK
<1>6. TextInv'
  BY <1>0, BytesDiffer DEF TextInv, CallInv, Writing, NoCommand, Bytes, TypeOK, TextOK
<1>7. QED
  BY <1>1, <1>2, <1>3, <1>4, <1>5, <1>6

LEMMA PowerUpInv ==
  ASSUME LcdInv, PowerUp
  PROVE  LcdInv'
<1> USE ScreenAssumption DEF LcdInv
<1>0. /\ call' = "off" /\ step' = "idle" /\ items' = <<>> /\ text' = <<>> /\ next' = 1
      /\ command' = NoCommand /\ shifts' = 0 /\ byte' = Home /\ seen' = FALSE /\ pos_x' = 0 /\ pos_y' = 0
      /\ four' = FALSE /\ half' = NoHalf /\ busy' = FALSE /\ two' = FALSE /\ on' = FALSE
      /\ ac' = 0 /\ ddram' = BlankMemory
  BY BytesDiffer DEF PowerUp, Begin, TypeOK
<1>1. TypeOK'
  <2>1. TextOK'
    BY <1>0 DEF TextOK
  <2>2. /\ call' \in {"off", "init", "print", "idle"}
        /\ seen' \in BOOLEAN /\ four' \in BOOLEAN /\ busy' \in BOOLEAN
        /\ two' \in BOOLEAN /\ on' \in BOOLEAN
    BY <1>0
  <2>3. /\ command' \in 1 .. NoCommand
        /\ shifts' \in Nat /\ pos_x' \in 0 .. WIDTH - 1 /\ pos_y' \in Nat
        /\ step' \in {"idle", "nibble", "next", "high", "low", "busy", "rest"}
        /\ half' \in {NoHalf, ReadHalf} \cup 0 .. 15
    BY <1>0, ScreenAssumption DEF NoCommand
  <2>4. byte' \in [char : BOOLEAN, value : Char] /\ ac' \in Places /\ ddram' \in [Places -> Char]
    BY <1>0, Memory
  <2>5. QED
    BY <2>1, <2>2, <2>3, <2>4 DEF TypeOK
<1>2. InStep'
  BY <1>0, Nibbles, BytesDiffer
     DEF InStep, FunctionSetDue, CallInv, ByteInv, TypeOK, NoHalf, ReadHalf, NoCommand, Bytes
<1>3. CallInv'
  BY <1>0, BytesDiffer DEF CallInv, InStep, NoCommand, TypeOK
<1>4. ByteInv'
  BY <1>0, BytesDiffer DEF ByteInv, CallInv, Executed, Writing, NoCommand, Bytes, TypeOK
<1>5. PlaceInv'
  BY <1>0, BytesDiffer DEF PlaceInv, Place, CallInv, ByteInv, Writing, NoCommand, TypeOK
<1>6. TextInv'
  BY <1>0, BytesDiffer DEF TextInv, CallInv, Writing, NoCommand, Bytes, TypeOK, TextOK
<1>7. QED
  BY <1>1, <1>2, <1>3, <1>4, <1>5, <1>6

LEMMA PrintCallInv ==
  ASSUME LcdInv, NEW i \in Calls, PrintCall(i)
  PROVE  LcdInv'
<1> USE ScreenAssumption DEF LcdInv
<1>0. /\ call = "idle" /\ call' = "print" /\ step' = "next" /\ command' = 3 /\ next' = 1
      /\ items' = i /\ text' = LCD_printf(i)
      /\ UNCHANGED <<shifts, byte, seen, pos_x, pos_y, four, half, busy, two, on, ac, ddram>>
  BY BytesDiffer DEF PrintCall, display, TypeOK
<1>1. TypeOK'
  <2>1. TextOK'
    BY <1>0, CallAssumption DEF TypeOK, TextOK, Char
  <2>2. QED
    BY <1>0, <2>1, BytesDiffer DEF TypeOK, NoCommand, Bytes
<1>2. InStep'
  BY <1>0, Nibbles, BytesDiffer
     DEF InStep, FunctionSetDue, CallInv, ByteInv, TypeOK, NoHalf, ReadHalf, NoCommand, Bytes
<1>3. CallInv'
  BY <1>0, BytesDiffer DEF CallInv, InStep, NoCommand, TypeOK
<1>4. ByteInv'
  BY <1>0, BytesDiffer DEF ByteInv, CallInv, Executed, Writing, NoCommand, Bytes, TypeOK
<1>5. PlaceInv'
  BY <1>0, BytesDiffer DEF PlaceInv, Place, CallInv, ByteInv, Writing, NoCommand, TypeOK
<1>6. TextInv'
  BY <1>0, BytesDiffer DEF TextInv, CallInv, Writing, NoCommand, Bytes, TypeOK, TextOK
<1>7. QED
  BY <1>1, <1>2, <1>3, <1>4, <1>5, <1>6

LEMMA StepInv == LcdInv /\ [Next]_vars => LcdInv'
<1> SUFFICES ASSUME LcdInv, [Next]_vars PROVE LcdInv'
  OBVIOUS
<1>1. CASE Run
  BY <1>1, InitCallInv, InitNibbleInv, ReturnInv, WriteHighInv, WriteLowInv, ReadHighInv,
     ReadLowInv, WriteShiftInv, WriteCommandInv, TextNewlineInv, LCD_WriteCharInv DEF Run
<1>2. CASE Ready
  BY <1>2, ReadyInv
<1>3. CASE PowerUp
  BY <1>3, PowerUpInv
<1>4. CASE \E i \in Calls : PrintCall(i)
  BY <1>4, PrintCallInv
<1>5. CASE UNCHANGED vars
  BY <1>5 DEF vars, program, driver, display, LcdInv, TypeOK, TextOK, InStep, CallInv, ByteInv,
              FunctionSetDue, PlaceInv, Place, TextInv, Writing, Executed
<1>6. QED
  BY <1>1, <1>2, <1>3, <1>4, <1>5 DEF Next

LEMMA AlwaysInv == Spec => []LcdInv
<1>1. QED
  BY InitInv, StepInv, PTL DEF Spec

-----------------------------------------------------------------------------
\* Driver and display never disagree on which half of a byte comes next, and no
\* byte is sent to a busy display, except perhaps the function set of LCD_Init, which
\* follows the first pulse at once: LCD_WriteCommand, LCD_WriteChar and LCD_Init, for a
\* display that keeps count of the halves while it is busy.
THEOREM AlwaysInStep == Spec => []InStep
<1>1. LcdInv => InStep
  BY DEF LcdInv
<1>2. QED
  BY <1>1, AlwaysInv, PTL

\* Every character is written to the place LCD_WriteChar counts it to be at, for
\* every size of the screen and of a line of the memory.
THEOREM CursorAlwaysAgrees == Spec => []CursorAgrees
<1>1. LcdInv => CursorAgrees
  <2> SUFFICES ASSUME LcdInv, step = "high", byte.char
               PROVE  ac = LineLength * pos_y + pos_x /\ pos_x < WIDTH /\ pos_y < HEIGHT
    BY DEF CursorAgrees
  <2>1. command = NoCommand /\ pos_y < HEIGHT /\ call # "off"
    BY DEF LcdInv, ByteInv, Writing
  <2>2. pos_x < WIDTH
    BY ScreenAssumption DEF LcdInv, TypeOK
  <2>3. QED
    BY <2>1, <2>2 DEF LcdInv, PlaceInv, Place
<1>2. QED
  BY <1>1, AlwaysInv, PTL

-----------------------------------------------------------------------------
\* The refinement: what is seen, as a function of the display's memory.

Show(m, o, n) ==
  [l \in 0 .. HEIGHT - 1 |->
     [c \in 0 .. WIDTH - 1 |-> IF o /\ l < n THEN m[LineLength * l + c] ELSE Space]]

Store(m, p, v) == [m EXCEPT ![p] = v]
Overwrite(w, l, c, v) == [w EXCEPT ![l] = [@ EXCEPT ![c] = v]]

LEMMA InMemory ==
  ASSUME NEW l \in 0 .. HEIGHT - 1, NEW c \in 0 .. WIDTH - 1
  PROVE  LineLength * l + c \in Places
<1>1. l \in {0, 1}
  BY ScreenAssumption
<1>2. CASE l = 0
  BY <1>2, ScreenAssumption DEF Places
<1>3. CASE l = 1
  BY <1>3, ScreenAssumption DEF Places
<1>4. QED
  BY <1>1, <1>2, <1>3

LEMMA DifferentPlaces ==
  ASSUME NEW l \in 0 .. HEIGHT - 1, NEW c \in 0 .. WIDTH - 1,
         NEW k \in 0 .. HEIGHT - 1, NEW d \in 0 .. WIDTH - 1,
         LineLength * l + c = LineLength * k + d
  PROVE  l = k /\ c = d
<1>1. l \in {0, 1} /\ k \in {0, 1}
  BY ScreenAssumption
<1>2. CASE l = 0 /\ k = 0
  BY <1>2, ScreenAssumption
<1>3. CASE l = 1 /\ k = 1
  BY <1>3, ScreenAssumption
<1>4. CASE l = 0 /\ k = 1
  BY <1>4, ScreenAssumption
<1>5. CASE l = 1 /\ k = 0
  BY <1>5, ScreenAssumption
<1>6. QED
  BY <1>1, <1>2, <1>3, <1>4, <1>5

LEMMA ShowBlank ==
  ASSUME NEW o, NEW k
  PROVE  Show(BlankMemory, o, k) = Terminal!Blank
<1>1. \A l \in 0 .. HEIGHT - 1, c \in 0 .. WIDTH - 1 : BlankMemory[LineLength * l + c] = Space
  BY InMemory DEF BlankMemory
<1>2. QED
  BY <1>1 DEF Show, Terminal!Blank

LEMMA ShowPut ==
  ASSUME NEW m \in [Places -> Char], NEW shown \in 1 .. HEIGHT, NEW v \in Char,
         NEW l \in 0 .. HEIGHT - 1, NEW c \in 0 .. WIDTH - 1
  PROVE  Show(Store(m, LineLength * l + c, v), TRUE, shown)
           = IF l < shown THEN Overwrite(Show(m, TRUE, shown), l, c, v) ELSE Show(m, TRUE, shown)
<1> DEFINE n == [m EXCEPT ![LineLength * l + c] = v]
           Cell(x, k, d) == IF k < shown THEN x[LineLength * k + d] ELSE Space
           A == Show(n, TRUE, shown)
           S == Show(m, TRUE, shown)
           B == [S EXCEPT ![l] = [S[l] EXCEPT ![c] = v]]
<1>1. \A k \in 0 .. HEIGHT - 1, d \in 0 .. WIDTH - 1 :
        n[LineLength * k + d] = IF k = l /\ d = c THEN v ELSE m[LineLength * k + d]
  BY InMemory, DifferentPlaces
<1> HIDE DEF n
<1>2. \A k \in 0 .. HEIGHT - 1, d \in 0 .. WIDTH - 1 :
        Cell(n, k, d) = IF k = l /\ d = c /\ l < shown THEN v ELSE Cell(m, k, d)
  BY <1>1
<1>3. /\ A = [k \in 0 .. HEIGHT - 1 |-> [d \in 0 .. WIDTH - 1 |-> Cell(n, k, d)]]
      /\ S = [k \in 0 .. HEIGHT - 1 |-> [d \in 0 .. WIDTH - 1 |-> Cell(m, k, d)]]
  BY DEF Show
<1>4. \A k \in 0 .. HEIGHT - 1 : S[k] = [d \in 0 .. WIDTH - 1 |-> Cell(m, k, d)]
  BY <1>3
<1>5. S = [k \in 0 .. HEIGHT - 1 |-> S[k]]
  BY <1>3
<1> HIDE DEF S, A, Cell
<1>6. B = [k \in 0 .. HEIGHT - 1 |-> IF k = l THEN [S[l] EXCEPT ![c] = v] ELSE S[k]]
  BY <1>5
<1>7. CASE l < shown
  <2>1. ASSUME NEW k \in 0 .. HEIGHT - 1
        PROVE  [d \in 0 .. WIDTH - 1 |-> Cell(n, k, d)]
                 = IF k = l THEN [S[l] EXCEPT ![c] = v] ELSE S[k]
    <3>1. CASE k = l
      <4>1. S[l] = [d \in 0 .. WIDTH - 1 |-> Cell(m, l, d)]
        BY <1>4
      <4>2. [S[l] EXCEPT ![c] = v]
              = [d \in 0 .. WIDTH - 1 |-> IF d = c THEN v ELSE Cell(m, l, d)]
        BY <4>1
      <4>3. \A d \in 0 .. WIDTH - 1 : Cell(n, l, d) = IF d = c THEN v ELSE Cell(m, l, d)
        BY <1>2, <1>7
      <4>4. [d \in 0 .. WIDTH - 1 |-> Cell(n, l, d)] = [S[l] EXCEPT ![c] = v]
        BY <4>2, <4>3
      <4>5. QED
        BY <3>1, <4>4
    <3>2. CASE k # l
      <4>1. \A d \in 0 .. WIDTH - 1 : Cell(n, k, d) = Cell(m, k, d)
        BY <1>2, <3>2
      <4>2. QED
        BY <1>4, <3>2, <4>1
    <3>3. QED
      BY <3>1, <3>2
  <2>2. A = B
    BY <1>3, <1>6, <2>1
  <2>3. QED
    BY <1>7, <2>2 DEF n, S, A, Store, Overwrite
<1>8. CASE ~(l < shown)
  <2>1. \A k \in 0 .. HEIGHT - 1, d \in 0 .. WIDTH - 1 : Cell(n, k, d) = Cell(m, k, d)
    BY <1>2, <1>8
  <2>2. A = S
    BY <1>3, <2>1
  <2>3. QED
    BY <1>8, <2>2 DEF n, S, A, Store
<1>9. QED
  BY <1>7, <1>8

\* A step that shows nothing new.
LEMMA Unseen ==
  ASSUME UNCHANGED <<ddram, two, on, text, Line, Column, Position>>
  PROVE  UNCHANGED Terminal!vars
<1>1. UNCHANGED Window
  BY DEF Window, Lines
<1>2. QED
  BY <1>1 DEF Terminal!vars, Lines

\* Up to the end of LCD_Init the screen is blank and there is no text.
Starting == call \in {"off", "init"}
NothingShown ==
  Window = Terminal!Blank /\ Line = 0 /\ Column = 0 /\ text = <<>> /\ Position = 1

LEMMA BeforeTexts == LcdInv /\ Starting => NothingShown
<1> SUFFICES ASSUME LcdInv, call \in {"off", "init"} PROVE NothingShown
  BY DEF Starting
<1>1. /\ ddram = BlankMemory /\ ~byte.char /\ ~Pending
      /\ text = <<>> /\ next = 1 /\ pos_x = 0 /\ pos_y = 0
  BY DEF LcdInv, ByteInv, TextInv, Pending
<1>2. Window = Terminal!Blank
  <2>1. Window = Show(ddram, on, Lines)
    BY DEF Window, Show
  <2>2. QED
    BY <1>1, <2>1, ShowBlank
<1>3. Line = 0 /\ Column = 0 /\ Position = 1
  BY <1>1 DEF Line, Column, Shown, Position
<1>4. QED
  BY <1>1, <1>2, <1>3 DEF NothingShown

LEMMA LinesShown == Lines \in 1 .. HEIGHT
BY ScreenAssumption DEF Lines

\* Between the commands of LCD_WriteText and its return.
LEMMA AtText ==
  ASSUME command = NoCommand
  PROVE  /\ ~Cleared /\ ~Pending
         /\ ~Shown => Line = pos_y /\ Column = pos_x
         /\ Position = IF byte.char /\ step \in {"high", "low"} THEN next - 1 ELSE next
BY DEF Cleared, Pending, Line, Column, Position

LEMMA PutMaps ==
  ASSUME LcdInv, WriteLow, call = "print", byte.char
  PROVE  Terminal!Put
<1>0. /\ step = "low" /\ step' = "busy"
      /\ UNCHANGED <<call, text, next, command, byte, pos_x, pos_y>>
  BY WriteLowEffect
<1>1. ddram' = [ddram EXCEPT ![ac] = byte.value] /\ UNCHANGED <<two, on>>
  <2>1. byte # FunctionSet
    BY BytesDiffer DEF Bytes
  <2>2. QED
    BY <2>1, WriteLowEffect, Effect DEF LcdInv
<1>2. /\ on /\ command = NoCommand /\ ac = Place /\ pos_y \in 0 .. HEIGHT - 1
      /\ pos_x \in 0 .. WIDTH - 1 /\ byte.value \in Char /\ ddram \in [Places -> Char]
  BY <1>0, ScreenAssumption
     DEF LcdInv, TypeOK, CallInv, ByteInv, Writing, PlaceInv, NoCommand
<1>3. on = TRUE
  BY <1>2 DEF LcdInv, TypeOK
<1>4. Window = Show(ddram, TRUE, Lines) /\ Window' = Show(ddram', TRUE, Lines) /\ Lines' = Lines
  BY <1>1, <1>3 DEF Window, Show, Lines
<1>5. Window' = IF pos_y < Lines THEN [Window EXCEPT ![pos_y][pos_x] = byte.value] ELSE Window
  <2>1. ddram' = Store(ddram, LineLength * pos_y + pos_x, byte.value)
    BY <1>1, <1>2 DEF Place, Store
  <2>2. Show(Store(ddram, LineLength * pos_y + pos_x, byte.value), TRUE, Lines)
          = IF pos_y < Lines THEN Overwrite(Show(ddram, TRUE, Lines), pos_y, pos_x, byte.value)
                             ELSE Show(ddram, TRUE, Lines)
    BY <1>2, ShowPut, LinesShown
  <2>3. QED
    BY <1>4, <2>1, <2>2 DEF Overwrite
<1>6. /\ next \in 2 .. Len(text) + 1 /\ text[next - 1] = byte.value /\ byte.value # Newline
      /\ Len(text) \in Nat
  BY <1>0, <1>2 DEF LcdInv, TypeOK, TextOK, TextInv
<1>7. Line = pos_y /\ Column = pos_x /\ Position = next - 1
  BY <1>0, <1>2, AtText DEF Shown
<1>8. ~Cleared' /\ ~Pending' /\ Shown' /\ Position' = next
  BY <1>0, <1>2 DEF Cleared, Pending, Shown, Position
<1>9. /\ Line' = (IF pos_x + 1 = WIDTH THEN pos_y + 1 ELSE pos_y)
       /\ Column' = (IF pos_x + 1 = WIDTH THEN 0 ELSE pos_x + 1)
  BY <1>0, <1>8 DEF Line, Column
<1>10. Terminal!Character /\ text[Position] = byte.value
  <2>1. Position \in 1 .. Len(text) /\ Position' = Position + 1
    BY <1>6, <1>7, <1>8
  <2>2. QED
    BY <1>0, <1>1, <1>6, <1>7, <2>1 DEF Terminal!Character, Lines
<1>11. Line < HEIGHT
  BY <1>2, <1>7, ScreenAssumption
<1>12. Window' = IF Line < Lines THEN [Window EXCEPT ![Line][Column] = text[Position]] ELSE Window
  BY <1>5, <1>7, <1>10
<1>13. UNCHANGED Lines
  BY <1>4
<1>14. QED
  BY <1>12, <1>6, <1>7, <1>9, <1>10, <1>11, <1>13 DEF Terminal!Put

LEMMA WriteLowMaps ==
  ASSUME LcdInv, WriteLow, call = "print"
  PROVE  [Terminal!Next]_(Terminal!vars)
<1>0. /\ step = "low" /\ step' = "busy"
      /\ UNCHANGED <<call, text, next, command, byte, pos_x, pos_y>>
  BY WriteLowEffect
<1>1. CASE byte.char
  BY <1>1, PutMaps DEF Terminal!Next
<1>2. CASE byte = Clear
  <2>1. command = 4 /\ ddram' = BlankMemory /\ UNCHANGED two
    BY <1>2, BytesDiffer, WriteLowEffect, Effect DEF LcdInv, ByteInv
  <2>2. next = 1 /\ ~byte.char
    BY <1>2, <2>1, BytesDiffer DEF LcdInv, TextInv, NoCommand, Bytes
  <2>3. Position = 0
    BY <1>0, <2>1 DEF Position, Pending, Cleared, Done, NoCommand
  <2>4. Cleared' /\ Position' = 1 /\ Line' = 0 /\ Column' = 0
    BY <1>0, <1>2, <2>1, <2>2 DEF Position, Pending, Cleared, Done, Line, Column, NoCommand
  <2>5. Window' = Terminal!Blank
    <3>1. Window' = Show(ddram', on', Lines')
      BY DEF Window, Show
    <3>2. QED
      BY <2>1, <3>1, ShowBlank
  <2>6. Terminal!Clear
    BY <1>0, <2>1, <2>3, <2>4, <2>5 DEF Terminal!Clear, Lines
  <2>7. QED
    BY <2>6 DEF Terminal!Next
<1>3. CASE byte \in {Home, ShiftRight}
  <2>1. ~byte.char /\ byte \notin {FunctionSet, DisplayOn, Clear}
    BY <1>3, BytesDiffer DEF Bytes
  <2>2. UNCHANGED <<ddram, two, on>>
    BY <1>3, <2>1, WriteLowEffect, Effect DEF LcdInv
  <2>3. UNCHANGED <<Line, Column, Position>>
    BY <1>0, <2>1 DEF Line, Column, Position, Pending, Cleared, Done, Shown
  <2>4. QED
    BY <1>0, <2>2, <2>3, Unseen
<1>4. byte \notin {FunctionSet, DisplayOn}
  BY <1>0 DEF LcdInv, CallInv, ByteInv
<1>5. QED
  BY <1>1, <1>2, <1>3, <1>4 DEF LcdInv, ByteInv

LEMMA ReadLowMaps ==
  ASSUME LcdInv, ReadLow
  PROVE  UNCHANGED Terminal!vars
<1>1. /\ step = "rest" /\ UNCHANGED <<call, text, next, command, ddram, two, on>>
      /\ \/ seen /\ step' = "busy" /\ UNCHANGED <<byte, shifts, pos_x, pos_y>>
         \/ ~seen /\ byte.char /\ Advance
         \/ ~seen /\ ~byte.char /\ step' = "next" /\ UNCHANGED <<byte, shifts, pos_x, pos_y>>
  BY DEF ReadLow, ReadPulse, program
<1>2. CASE UNCHANGED <<byte, pos_x, pos_y>> /\ (step' = "busy" \/ (step' = "next" /\ ~byte.char))
  <2>1. UNCHANGED <<Cleared, Shown>>
    BY <1>1, <1>2 DEF Cleared, Done, Shown
  <2>2. UNCHANGED <<Line, Column, Position>>
    BY <1>1, <1>2, <2>1 DEF Line, Column, Position, Pending
  <2>3. QED
    BY <1>1, <2>2, Unseen
<1>3. CASE byte.char /\ Advance
  <2>1. ~Cleared /\ Shown /\ command = NoCommand
    BY <1>1, <1>3, BytesDiffer DEF Cleared, Done, Shown, Bytes, LcdInv, ByteInv, Writing
  <2>2. ~Pending /\ ~Pending' /\ Position = next
    BY <1>1, <2>1 DEF Pending, Position
  <2>3. CASE pos_x + 1 = WIDTH
    <3>1. step' = "high" /\ byte' = Home /\ ~byte'.char /\ pos_x' = 0 /\ pos_y' = pos_y + 1
      BY <1>3, <2>3, BytesDiffer DEF Advance, LCD_SetCursor, LCD_Write, Bytes
    <3>2. ~Cleared' /\ ~Shown'
      BY <3>1 DEF Cleared, Done, Shown
    <3>3. UNCHANGED <<Line, Column, Position>>
      BY <1>1, <2>1, <2>2, <2>3, <3>1, <3>2 DEF Line, Column, Position
    <3>4. QED
      BY <1>1, <3>3, Unseen
  <2>4. CASE pos_x + 1 # WIDTH
    <3>1. step' = "next" /\ pos_x' = pos_x + 1 /\ UNCHANGED <<byte, pos_y>>
      BY <1>3, <2>4 DEF Advance
    <3>2. ~Cleared' /\ ~Shown'
      BY <1>3, <3>1, BytesDiffer DEF Cleared, Done, Shown, Bytes
    <3>3. UNCHANGED <<Line, Column, Position>>
      BY <1>1, <2>1, <2>2, <2>4, <3>1, <3>2 DEF Line, Column, Position
    <3>4. QED
      BY <1>1, <3>3, Unseen
  <2>5. QED
    BY <2>3, <2>4
<1>4. QED
  BY <1>1, <1>2, <1>3

LEMMA WriteCommandMaps ==
  ASSUME LcdInv, WriteCommand, call = "print"
  PROVE  UNCHANGED Terminal!vars
<1>1. /\ command \in 3 .. 4 /\ step = "next" /\ step' = "high" /\ command' = command + 1
      /\ byte' = Commands[command]
      /\ \/ command = 4 /\ pos_x' = 0 /\ pos_y' = 0
         \/ command # 4 /\ UNCHANGED <<pos_x, pos_y>>
      /\ UNCHANGED <<call, text, next, ddram, two, on>>
  BY BytesDiffer DEF WriteCommand, LCD_Write, LCD_SetCursor, LcdInv, TypeOK, CallInv,
                     NoCommand, Bytes, display
<1>2. ~Cleared' /\ ~Shown /\ ~Shown'
  BY <1>1 DEF Cleared, Done, Shown
<1>3. Cleared <=> command = 4
  BY <1>1 DEF Cleared, Done, LcdInv, ByteInv, NoCommand
<1>4. UNCHANGED <<Line, Column>>
  BY <1>1, <1>2, <1>3 DEF Line, Column
<1>5. CASE command = 3
  <2>1. Pending /\ Pending'
    BY <1>1, <1>2, <1>3, <1>5 DEF Pending, NoCommand
  <2>2. QED
    BY <1>1, <1>4, <2>1, Unseen DEF Position
<1>6. CASE command = 4
  <2>1. ~Pending /\ ~Pending'
    BY <1>1, <1>3, <1>6 DEF Pending, NoCommand
  <2>2. ~byte'.char
    BY <1>1, <1>6, BytesDiffer DEF Bytes
  <2>3. Position = next /\ Position' = next
    BY <1>1, <2>1, <2>2 DEF Position
  <2>4. QED
    BY <1>1, <1>4, <2>3, Unseen
<1>7. QED
  BY <1>1, <1>5, <1>6

LEMMA TextMaps ==
  ASSUME LcdInv, WriteShift \/ TextNewline \/ LCD_WriteChar
  PROVE  [Terminal!Next]_(Terminal!vars)
<1>1. /\ step = "next" /\ command = NoCommand /\ command' = NoCommand /\ ~Shown
      /\ UNCHANGED <<call, text, ddram, two, on>>
  BY ScreenAssumption
     DEF WriteShift, TextNewline, LCD_WriteChar, Character, display, Shown, LcdInv, TypeOK, CallInv,
         program
<1>2. /\ Line = pos_y /\ Column = pos_x /\ Position = next
      /\ ~Cleared' /\ ~Pending'
  BY <1>1, AtText DEF Cleared, Pending
<1>3. UNCHANGED Window
  BY <1>1 DEF Window, Lines
<1>4. CASE WriteShift
  <2>1. UNCHANGED <<next, pos_x, pos_y>> /\ step' = "high" /\ byte' = ShiftRight /\ ~byte'.char
    BY <1>4, BytesDiffer DEF WriteShift, LCD_Write, program, Bytes
  <2>2. ~Shown'
    BY <2>1 DEF Shown
  <2>3. UNCHANGED <<Line, Column, Position>>
    BY <1>2, <2>1, <2>2 DEF Line, Column, Position
  <2>4. QED
    BY <1>1, <2>3, Unseen
<1>5. ASSUME Character
      PROVE  next \in 1 .. Len(text) /\ next' = next + 1
  BY <1>5 DEF Character, LcdInv, TypeOK, TextOK
<1>6. CASE TextNewline
  <2>1. /\ step' = "high" /\ byte' = Home /\ ~byte'.char /\ pos_x' = 0 /\ pos_y' = pos_y + 1
        /\ next \in 1 .. Len(text) /\ next' = next + 1 /\ text[next] = Newline
    BY <1>5, <1>6, BytesDiffer DEF TextNewline, LCD_SetCursor, LCD_Write, Bytes
  <2>2. ~Shown'
    BY <2>1 DEF Shown
  <2>3. Line' = pos_y + 1 /\ Column' = 0 /\ Position' = next + 1
    BY <1>2, <2>1, <2>2 DEF Line, Column, Position
  <2>4. Terminal!NextLine
    BY <1>1, <1>2, <1>3, <2>1, <2>3 DEF Terminal!NextLine, Terminal!Character, Lines
  <2>5. QED
    BY <2>4 DEF Terminal!Next
<1>7. CASE LCD_WriteChar /\ pos_y >= HEIGHT
  <2>1. /\ UNCHANGED <<step, byte, pos_x, pos_y>> /\ text[next] # Newline
        /\ next \in 1 .. Len(text) /\ next' = next + 1
    BY <1>5, <1>7, ScreenAssumption DEF LCD_WriteChar, LcdInv, TypeOK
  <2>2. ~Shown'
    BY <1>1, <2>1 DEF Shown
  <2>3. Line' = pos_y /\ Column' = pos_x /\ Position' = next + 1
    BY <1>1, <1>2, <2>1, <2>2 DEF Line, Column, Position
  <2>4. Terminal!LeaveOut
    BY <1>1, <1>2, <1>3, <1>7, <2>1, <2>3 DEF Terminal!LeaveOut, Terminal!Character, Lines
  <2>5. QED
    BY <2>4 DEF Terminal!Next
<1>8. CASE LCD_WriteChar /\ ~(pos_y >= HEIGHT)
  <2>1. /\ step' = "high" /\ byte' = [char |-> TRUE, value |-> text[next]]
        /\ UNCHANGED <<pos_x, pos_y>> /\ next \in 1 .. Len(text) /\ next' = next + 1
    BY <1>5, <1>8 DEF LCD_WriteChar, LCD_Write
  <2>2. ~Shown' /\ byte'.char /\ next' - 1 = next
    BY <2>1 DEF Shown
  <2>3. UNCHANGED <<Line, Column, Position>>
    BY <1>2, <2>1, <2>2 DEF Line, Column, Position
  <2>4. QED
    BY <1>1, <2>3, Unseen
<1>9. QED
  BY <1>4, <1>6, <1>7, <1>8

LEMMA StepMaps ==
  ASSUME LcdInv, [Next]_vars
  PROVE  [Terminal!Next]_(Terminal!vars)
<1>0. LcdInv'
  BY StepInv
<1>1. CASE Starting'
  <2>1. NothingShown'
    BY <1>0, <1>1, BeforeTexts, PTL
  <2>2. Lines' \in 1 .. HEIGHT
    BY ScreenAssumption DEF Lines
  <2>3. Terminal!SetUp
    BY <2>1, <2>2 DEF NothingShown, Terminal!SetUp
  <2>4. QED
    BY <2>3 DEF Terminal!Next
<1>2. CASE ~Starting' /\ Run
  <2>1. CASE InitCall \/ InitNibble
    BY <1>2, <2>1 DEF InitCall, InitNibble, program, LcdInv, CallInv, Starting
  <2>2. CASE Return
    <3>1. /\ step = "next" /\ step' = "idle" /\ command = NoCommand
          /\ UNCHANGED <<command, next, text, byte, pos_x, pos_y, ddram, two, on>>
      BY <2>2 DEF Return, display
    <3>2. Line = pos_y /\ Column = pos_x /\ Position = next
      BY <3>1, AtText DEF Shown
    <3>3. UNCHANGED <<Line, Column, Position>>
      BY <3>1, <3>2 DEF Line, Column, Position, Pending, Cleared, Shown
    <3>4. QED
      BY <3>1, <3>3, Unseen
  <2>3. CASE WriteHigh
    <3>1. /\ step = "high" /\ step' = "low"
          /\ UNCHANGED <<call, command, next, text, byte, pos_x, pos_y, ddram, two, on>>
      BY <2>3, WriteHighEffect
    <3>2. UNCHANGED <<Line, Column, Position>>
      BY <3>1 DEF Line, Column, Position, Pending, Cleared, Done, Shown
    <3>3. QED
      BY <3>1, <3>2, Unseen
  <2>4. CASE WriteLow
    <3>1. call = "print"
      BY <1>2, <2>4, WriteLowEffect DEF LcdInv, TypeOK, CallInv, Starting
    <3>2. QED
      BY <2>4, <3>1, WriteLowMaps
  <2>5. CASE ReadHigh
    <3>1. /\ step = "busy" /\ step' = "rest"
          /\ UNCHANGED <<call, command, next, text, byte, pos_x, pos_y, ddram, two, on>>
      BY <2>5 DEF ReadHigh, ReadPulse, program
    <3>2. UNCHANGED <<Line, Column, Position>>
      BY <3>1 DEF Line, Column, Position, Pending, Cleared, Done, Shown
    <3>3. QED
      BY <3>1, <3>2, Unseen
  <2>6. CASE ReadLow
    BY <2>6, ReadLowMaps
  <2>7. CASE WriteCommand
    <3>1. call = "print"
      BY <1>2, <2>7 DEF WriteCommand, LcdInv, TypeOK, CallInv, Starting
    <3>2. QED
      BY <2>7, <3>1, WriteCommandMaps
  <2>8. CASE WriteShift \/ TextNewline \/ LCD_WriteChar
    BY <2>8, TextMaps
  <2>9. QED
    BY <1>2, <2>1, <2>2, <2>3, <2>4, <2>5, <2>6, <2>7, <2>8 DEF Run
<1>3. CASE Ready \/ UNCHANGED vars
  <2>1. UNCHANGED <<call, step, command, next, text, byte, pos_x, pos_y, ddram, two, on>>
    BY <1>3 DEF Ready, vars, program, driver, display
  <2>2. UNCHANGED <<Line, Column, Position>>
    BY <2>1 DEF Line, Column, Position, Pending, Cleared, Done, Shown
  <2>3. QED
    BY <2>1, <2>2, Unseen
<1>4. CASE PowerUp
  BY <1>1, <1>4 DEF PowerUp, Begin, Starting
<1>5. ASSUME NEW i \in Calls, PrintCall(i)
      PROVE  [Terminal!Next]_(Terminal!vars)
  <2>1. /\ call = "idle" /\ call' = "print" /\ step = "idle" /\ step' = "next"
        /\ command = NoCommand /\ command' = 3 /\ text' = LCD_printf(i)
        /\ UNCHANGED <<pos_x, pos_y, ddram, two, on, byte>>
    BY <1>5 DEF PrintCall, display, LcdInv, CallInv
  <2>2. byte # Clear
    BY <2>1 DEF LcdInv, ByteInv, NoCommand
  <2>3. Line = pos_y /\ Column = pos_x /\ Position = next
    BY <2>1, AtText DEF Shown
  <2>4. Line' = pos_y /\ Column' = pos_x /\ Position' = 0
    BY <2>1, <2>2 DEF Line, Column, Position, Pending, Cleared, Done, Shown, NoCommand
  <2>5. next > Len(text)
    BY <2>1 DEF LcdInv, TypeOK, TextOK, TextInv
  <2>6. UNCHANGED Window
    BY <2>1 DEF Window, Lines
  <2>7. Terminal!Call
    BY <2>1, <2>3, <2>4, <2>5, <2>6 DEF Terminal!Call, Lines
  <2>8. QED
    BY <2>7 DEF Terminal!Next
<1>6. QED
  BY <1>1, <1>2, <1>3, <1>4, <1>5 DEF Next

\* However the text of LCD_printf gets to the display, pulse by pulse, what is seen
\* is that text, written to a cleared screen character by character, on the lines
\* the display was set up for: LCD_printf implements Screen.
THEOREM ScreenRefinement == Spec => ImplementsScreen
<1>1. Init => Terminal!Init
  <2> SUFFICES ASSUME Init PROVE Terminal!Init
    OBVIOUS
  <2>1. Window = Terminal!Blank /\ Line = 0 /\ Column = 0 /\ text = <<>> /\ Position = 1
    BY InitInv, BeforeTexts DEF Init, Starting, NothingShown
  <2>2. Lines \in 1 .. HEIGHT
    BY LinesShown
  <2>3. QED
    BY <2>1, <2>2 DEF Terminal!Init
<1>2. LcdInv /\ [Next]_vars => [Terminal!Next]_(Terminal!vars)
  BY StepMaps
<1>3. QED
  BY <1>1, <1>2, AlwaysInv, PTL DEF Spec, ImplementsScreen, Terminal!Spec

-----------------------------------------------------------------------------
\* What is printed.

\* text[] holds what LCD_printf has made of its arguments, until it returns.
PrintInv == call = "print" => items \in Calls /\ text = LCD_printf(items)

LEMMA StepPrint ==
  ASSUME PrintInv, [Next]_vars
  PROVE  PrintInv'
<1>1. CASE \E i \in Calls : PrintCall(i)
  <2>1. PICK i \in Calls : PrintCall(i)
    BY <1>1
  <2>2. items' = i /\ text' = LCD_printf(i)
    BY <2>1 DEF PrintCall
  <2>3. text' = LCD_printf(items')
    BY <2>2
  <2>4. QED
    BY <2>2, <2>3 DEF PrintInv
<1>2. CASE UNCHANGED <<call, items, text>>
  BY <1>2 DEF PrintInv
<1>3. CASE call' # "print"
  BY <1>3 DEF PrintInv
<1>4. CASE Run
  <2>1. InitCall \/ Return => call' # "print"
    BY DEF InitCall, Return
  <2>2. InitNibble \/ WriteHigh \/ WriteLow \/ ReadHigh \/ ReadLow \/ WriteShift
        => UNCHANGED <<call, items, text>>
    BY DEF InitNibble, WriteHigh, WriteLow, ReadHigh, ReadLow, WriteShift, program
  <2>3. WriteCommand \/ TextNewline \/ LCD_WriteChar => UNCHANGED <<call, items, text>>
    BY DEF WriteCommand, TextNewline, LCD_WriteChar, Character
  <2>4. QED
    BY <1>2, <1>3, <1>4, <2>1, <2>2, <2>3 DEF Run
<1>5. CASE Ready
  BY <1>2, <1>5 DEF Ready, program
<1>6. CASE PowerUp
  BY <1>3, <1>6 DEF PowerUp, Begin
<1>7. CASE UNCHANGED vars
  BY <1>2, <1>7 DEF vars, program
<1>8. QED
  BY <1>1, <1>4, <1>5, <1>6, <1>7 DEF Next

\* What LCD_printf shows is what printf would, whatever the format and the texts,
\* as long as no number is negative and every %f gets an int of thousandths, which
\* is what the code reads, and not the float or double of the README.
THEOREM NotNegativeAsPrintf ==
  ASSUME \A i \in Calls : Len(i) \in Nat /\ NotNegative(i)
  PROVE  Spec => []PrintsAsPrintf
<1>1. Init => PrintInv
  BY DEF Init, PrintInv
<1>2. PrintInv /\ [Next]_vars => PrintInv'
  BY StepPrint
<1>3. PrintInv => PrintsAsPrintf
  <2>1. SUFFICES ASSUME PrintInv, call = "print"
                 PROVE  text = printf(items)
    BY DEF PrintsAsPrintf
  <2>2. LCD_printf(items) = printf(items)
    BY <2>1, PrintfAsPrintf DEF PrintInv
  <2>3. QED
    BY <2>1, <2>2 DEF PrintInv
<1>4. QED
  BY <1>1, <1>2, <1>3, PTL DEF Spec
=============================================================================
