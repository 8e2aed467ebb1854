-------------------------------- MODULE Lcd --------------------------------
(***************************************************************************)
(* The HD44780 driver (hd44780.c) and the display it drives over four data *)
(* pins, one step per pulse of the pin E.  A byte takes two pulses and so  *)
(* does a reading of the busy flag; driver and display must agree which of *)
(* the two comes next, and nothing on the wire says so.  The driver knows  *)
(* where the display writes only by its own count, and moves it by Home    *)
(* and as many shifts as there are places before the new one.              *)
(*                                                                         *)
(* A Bug... operator is a mistake the definition after it could hold.      *)
(***************************************************************************)
EXTENDS LcdFormat

CONSTANTS
  WIDTH, HEIGHT,  \* the screen
  LineLength,     \* places of a line in the display's memory, 40
  Calls           \* the formats LCD_printf is called with

Space == 32
Newline == 10
Char == 0 .. 255

ASSUME ScreenAssumption ==
  /\ WIDTH \in Nat \ {0} /\ HEIGHT \in 1 .. 2
  /\ LineLength \in Nat /\ LineLength > WIDTH

\* Characters are characters, and the text fits into text[50].
ASSUME CallAssumption ==
  \A items \in Calls :
    LCD_printf(items) \in Seq(Char \ {0}) /\ Len(LCD_printf(items)) < 50

VARIABLES
  call,            \* "off" before LCD_Init; "init", "print"; "idle"
  items,           \* the arguments of LCD_printf
  text, next,      \* its text[], and the character to be shown next
  command,         \* the command to be written before that, in Commands
  shifts,          \* shifts left of LCD_SetCursor
  byte,            \* the byte written: a character or a command
  step,            \* the pulse to come
  seen,            \* the busy flag as read last
  pos_x, pos_y,
  \* the display: interface, settings, memory
  four, half, busy, two, on, ac, ddram

program == <<call, items, text, next, command>>
driver == <<shifts, byte, step, seen, pos_x, pos_y>>
display == <<four, half, busy, two, on, ac, ddram>>
vars == <<program, driver, display>>

Command(n) == [char |-> FALSE, value |-> n]
Clear == Command(1)
Home == Command(2)
DisplayOn == Command(12)
ShiftRight == Command(20)
FunctionSet == Command(40)

\* LCD_Init writes them all, LCD_WriteText the last two; Home is the one of
\* LCD_SetCursor(0, 0).
Commands == <<FunctionSet, DisplayOn, Clear, Home>>
NoCommand == 5

-----------------------------------------------------------------------------
\* The display.

Places == 0 .. 2 * LineLength - 1
NoHalf == -1     \* the next pulse begins a byte
ReadHalf == 16   \* it ends a reading; 0 .. 15: it ends the byte begun with this
BlankMemory == [p \in Places |-> Space]

NextPlace == IF ac + 1 \in Places THEN ac + 1 ELSE 0

\* A byte has come in.  Commands the driver does not use change nothing here.
Execute(char, n) ==
  \/ /\ char
     /\ ddram' = [ddram EXCEPT ![ac] = n]
     /\ ac' = NextPlace
     /\ UNCHANGED <<two, on>>
  \/ /\ ~char /\ n = 1
     /\ ddram' = BlankMemory /\ ac' = 0
     /\ UNCHANGED <<two, on>>
  \/ /\ ~char /\ n \in 2 .. 3
     /\ ac' = 0
     /\ UNCHANGED <<ddram, two, on>>
  \/ /\ ~char /\ n \in 8 .. 15
     /\ on' = (n >= 12)
     /\ UNCHANGED <<ddram, ac, two>>
  \/ /\ ~char /\ n \in 20 .. 23
     /\ ac' = NextPlace
     /\ UNCHANGED <<ddram, two, on>>
  \/ /\ ~char /\ n \in 32 .. 47
     /\ two' = (n % 16 >= 8)
     /\ UNCHANGED <<ddram, ac, on>>
  \/ /\ ~char /\ n \notin {1, 2, 3} \cup 8 .. 15 \cup 20 .. 23 \cup 32 .. 47
     /\ UNCHANGED <<ddram, ac, two, on>>

\* A pulse that writes the four bits n.  What a display makes of a byte that ends
\* while it is still busy is not defined: it may take it or miss it.
Written(char, n) ==
  IF ~four
  THEN \* 8-bit interface, of which four pins are connected: 2 is a function set
       /\ four' = (n = 2)
       /\ two' \in BOOLEAN
       /\ busy' = TRUE
       /\ UNCHANGED <<half, on, ac, ddram>>
  ELSE /\ UNCHANGED four
       /\ \/ half = NoHalf /\ half' = n /\ UNCHANGED <<busy, two, on, ac, ddram>>
          \/ half \in 0 .. 15 /\ half' = NoHalf
             /\ \/ busy' = TRUE /\ Execute(char, 16 * half + n)
                \/ busy /\ UNCHANGED <<busy, two, on, ac, ddram>>
          \/ half = ReadHalf /\ half' \in {NoHalf, n} /\ UNCHANGED <<busy, two, on, ac, ddram>>

\* A pulse that reads.  Out of step, the bit read is not the busy flag.
ReadPulse ==
  /\ half' \in IF half = NoHalf THEN {ReadHalf}
               ELSE IF half = ReadHalf THEN {NoHalf} ELSE {NoHalf, ReadHalf}
  /\ UNCHANGED <<four, busy, two, on, ac, ddram>>

\* The display has done what it was told.
Ready ==
  /\ busy /\ busy' = FALSE
  /\ UNCHANGED <<program, driver, four, half, two, on, ac, ddram>>

-----------------------------------------------------------------------------
\* Writing a byte: LCD_WriteDPort twice, then LCD_ReadBusyFlag until not busy.

LCD_Write(b) == byte' = b /\ step' = "high"

WriteHigh ==
  /\ step = "high" /\ step' = "low"
  /\ Written(byte.char, byte.value \div 16)
  /\ UNCHANGED <<program, shifts, byte, seen, pos_x, pos_y>>

WriteLow ==
  /\ step = "low" /\ step' = "busy"
  /\ Written(byte.char, byte.value % 16)
  /\ UNCHANGED <<program, shifts, byte, seen, pos_x, pos_y>>

ReadHigh ==
  /\ step = "busy" /\ step' = "rest"
  /\ seen' \in IF half = NoHalf THEN {busy} ELSE BOOLEAN
  /\ ReadPulse
  /\ UNCHANGED <<program, shifts, byte, pos_x, pos_y>>

\* LCD_SetCursor: Home, and the shifts counted in shifts.
LCD_SetCursor(x, y) ==
  pos_x' = x /\ pos_y' = y /\ shifts' = LineLength * y + x /\ LCD_Write(Home)

BugWrapOnly ==
  IF pos_x + 1 = WIDTH
  THEN pos_x' = 0 /\ pos_y' = pos_y + 1 /\ step' = "next" /\ UNCHANGED <<byte, shifts>>
  ELSE pos_x' = pos_x + 1 /\ step' = "next" /\ UNCHANGED <<pos_y, byte, shifts>>

\* The end of LCD_WriteChar.
Advance ==
  IF pos_x + 1 = WIDTH
  THEN LCD_SetCursor(0, pos_y + 1)
  ELSE pos_x' = pos_x + 1 /\ step' = "next" /\ UNCHANGED <<pos_y, byte, shifts>>

BugNoWait ==
  /\ step = "rest" /\ UNCHANGED seen
  /\ \/ byte.char /\ Advance
     \/ ~byte.char /\ step' = "next" /\ UNCHANGED <<byte, shifts, pos_x, pos_y>>
  /\ ReadPulse
  /\ UNCHANGED program

BugWaitForBusy ==
  /\ step = "rest" /\ UNCHANGED seen
  /\ \/ ~seen /\ step' = "busy" /\ UNCHANGED <<byte, shifts, pos_x, pos_y>>
     \/ seen /\ byte.char /\ Advance
     \/ seen /\ ~byte.char /\ step' = "next" /\ UNCHANGED <<byte, shifts, pos_x, pos_y>>
  /\ ReadPulse
  /\ UNCHANGED program

\* The other half of the reading, and the loop's condition.
ReadLow ==
  /\ step = "rest" /\ UNCHANGED seen
  /\ \/ seen /\ step' = "busy" /\ UNCHANGED <<byte, shifts, pos_x, pos_y>>
     \/ ~seen /\ byte.char /\ Advance
     \/ ~seen /\ ~byte.char /\ step' = "next" /\ UNCHANGED <<byte, shifts, pos_x, pos_y>>
  /\ ReadPulse
  /\ UNCHANGED program

-----------------------------------------------------------------------------
\* LCD_Init and LCD_printf, up to the next byte they write.

\* The delay before the first pulse is longer than any command takes.
InitCall ==
  /\ call = "off" /\ ~busy
  /\ call' = "init" /\ step' = "nibble"
  /\ command' = 1
  /\ UNCHANGED <<items, text, next, shifts, byte, seen, pos_x, pos_y, display>>

\* LCD_WriteDPort(0x02): one pulse, since the interface may still be 8 bits wide.
InitNibble ==
  /\ step = "nibble" /\ step' = "next"
  /\ Written(FALSE, 2)
  /\ UNCHANGED <<program, shifts, byte, seen, pos_x, pos_y>>

\* LCD_printf up to LCD_WriteText's loop.
PrintCall(i) ==
  /\ call = "idle"
  /\ call' = "print" /\ items' = i
  /\ text' = LCD_printf(i) /\ next' = 1
  /\ command' = 3
  /\ step' = "next"
  /\ UNCHANGED <<shifts, byte, seen, pos_x, pos_y, display>>

WriteShift ==
  /\ step = "next" /\ shifts > 0
  /\ shifts' = shifts - 1
  /\ LCD_Write(ShiftRight)
  /\ UNCHANGED <<program, seen, pos_x, pos_y, display>>

\* The next command.
WriteCommand ==
  /\ step = "next" /\ shifts = 0 /\ command # NoCommand
  /\ command' = command + 1
  /\ IF Commands[command] = Home
     THEN LCD_SetCursor(0, 0)
     ELSE LCD_Write(Commands[command]) /\ UNCHANGED <<shifts, pos_x, pos_y>>
  /\ UNCHANGED <<call, items, text, next, seen, display>>

Character ==
  /\ step = "next" /\ shifts = 0 /\ command = NoCommand
  /\ call = "print" /\ next <= Len(text)
  /\ next' = next + 1
  /\ UNCHANGED <<call, items, text, command, seen, display>>

\* '\n' in LCD_WriteText.
TextNewline ==
  /\ Character /\ text[next] = Newline
  /\ LCD_SetCursor(0, pos_y + 1)

BugNoLimit ==
  /\ Character /\ text[next] # Newline
  /\ LCD_Write([char |-> TRUE, value |-> text[next]]) /\ UNCHANGED shifts
  /\ UNCHANGED <<pos_x, pos_y>>

\* LCD_WriteChar: nothing below the last line.
LCD_WriteChar ==
  /\ Character /\ text[next] # Newline
  /\ \/ pos_y >= HEIGHT /\ UNCHANGED <<shifts, byte, step>>
     \/ pos_y < HEIGHT /\ LCD_Write([char |-> TRUE, value |-> text[next]]) /\ UNCHANGED shifts
  /\ UNCHANGED <<pos_x, pos_y>>

Return ==
  /\ step = "next" /\ shifts = 0 /\ command = NoCommand
  /\ call = "init" \/ (call = "print" /\ next > Len(text))
  /\ call' = "idle" /\ step' = "idle"
  /\ UNCHANGED <<items, text, next, command, shifts, byte, seen, pos_x, pos_y, display>>

-----------------------------------------------------------------------------

Init ==
  /\ call = "off" /\ step = "idle"
  /\ items = <<>> /\ text = <<>> /\ next = 1 /\ command = NoCommand /\ shifts = 0
  /\ byte = Home /\ seen = FALSE /\ pos_x = 0 /\ pos_y = 0
  /\ four = FALSE /\ half = NoHalf /\ busy = FALSE
  /\ two = FALSE /\ on = FALSE /\ ac = 0 /\ ddram = BlankMemory

\* The program begins again, its variables at 0.
Begin ==
  /\ call' = "off" /\ step' = "idle"
  /\ items' = <<>> /\ text' = <<>> /\ next' = 1 /\ command' = NoCommand /\ shifts' = 0
  /\ byte' = Home /\ seen' = FALSE /\ pos_x' = 0 /\ pos_y' = 0

\* The power fails and returns.
PowerUp ==
  /\ Begin
  /\ four' = FALSE /\ half' = NoHalf /\ busy' = FALSE
  /\ two' = FALSE /\ on' = FALSE /\ ac' = 0 /\ ddram' = BlankMemory

\* The processor alone restarts.
Restart == Begin /\ UNCHANGED display

Run ==
  \/ InitCall \/ InitNibble \/ Return
  \/ WriteHigh \/ WriteLow \/ ReadHigh \/ ReadLow
  \/ WriteShift \/ WriteCommand \/ TextNewline \/ LCD_WriteChar

Next == Run \/ Ready \/ PowerUp \/ \E i \in Calls : PrintCall(i)

Spec == Init /\ [][Next]_vars

\* Nothing preempts the program for good, and the display does what it is told.
FairSpec == Spec /\ WF_vars(Run) /\ WF_vars(Ready)

RestartSpec == Init /\ [][Next \/ Restart]_vars

-----------------------------------------------------------------------------
\* Properties.

TextOK ==
  items \in Calls \cup {<<>>} /\ text \in Seq(Char) /\ next \in 1 .. Len(text) + 1

TypeOK ==
  /\ TextOK
  /\ call \in {"off", "init", "print", "idle"}
  /\ command \in 1 .. NoCommand
  /\ shifts \in Nat /\ pos_x \in 0 .. WIDTH - 1 /\ pos_y \in Nat
  /\ byte \in [char : BOOLEAN, value : Char]
  /\ step \in {"idle", "nibble", "next", "high", "low", "busy", "rest"}
  /\ seen \in BOOLEAN /\ four \in BOOLEAN /\ busy \in BOOLEAN
  /\ two \in BOOLEAN /\ on \in BOOLEAN
  /\ half \in {NoHalf, ReadHalf} \cup 0 .. 15
  /\ ac \in Places /\ ddram \in [Places -> Char]

\* The bytes that LCD_Init sends without having waited for the display: the
\* function set that follows its single pulse at once.
FunctionSetDue ==
  \/ step = "next" /\ command = 1
  \/ step \in {"high", "low"} /\ byte = FunctionSet

\* Driver and display agree on the half that comes next, and no pulse of a byte
\* comes while the display is still busy with the last one: the busy flag has been
\* waited for before every byte except the function set of LCD_Init.
InStep ==
  /\ step \in {"low", "rest"} <=> half # NoHalf
  /\ step = "low" => half = byte.value \div 16
  /\ step = "rest" => half = ReadHalf
  /\ step \in {"nibble", "next", "high", "low", "idle"} /\ ~FunctionSetDue => ~busy

\* Whenever the next character is written, the display writes where the driver
\* counts it to be.
CursorAgrees ==
  step = "high" /\ byte.char => /\ ac = LineLength * pos_y + pos_x
                                /\ pos_x < WIDTH /\ pos_y < HEIGHT

\* LCD_printf shows what printf shows: a %d, and the number that is meant by a %f.
PrintsAsPrintf == call = "print" => text = printf(items)

\* The screen shows the text of the last call as Screen says, on as many lines as
\* the display was set up for, whatever it takes to get it there.
Lines == IF two THEN HEIGHT ELSE 1
Window ==
  [l \in 0 .. HEIGHT - 1 |->
     [c \in 0 .. WIDTH - 1 |->
        IF on /\ l < Lines THEN ddram[LineLength * l + c] ELSE Space]]

\* Where the next character goes: the driver counts after the display has done it.
Done(b) == byte = b /\ step \in {"busy", "rest", "next"}
Cleared == Done(Clear) /\ command # NoCommand
Shown == byte.char /\ step \in {"busy", "rest"}
Line == IF Cleared THEN 0 ELSE IF Shown /\ pos_x + 1 = WIDTH THEN pos_y + 1 ELSE pos_y
Column == IF Cleared THEN 0
          ELSE IF ~Shown THEN pos_x ELSE IF pos_x + 1 = WIDTH THEN 0 ELSE pos_x + 1

\* The character of the text that comes next: counted in next before it is written.
Pending == call = "print" /\ command # NoCommand /\ ~Cleared
Position ==
  IF Pending THEN 0 ELSE IF byte.char /\ step \in {"high", "low"} THEN next - 1 ELSE next

Terminal == INSTANCE Screen WITH
  Width <- WIDTH, Height <- HEIGHT, Texts <- {LCD_printf(i) : i \in Calls},
  screen <- Window, lines <- Lines,
  line <- Line, column <- Column, next <- Position
ImplementsScreen == Terminal!Spec

\* Every call returns, unless the power fails.
CallsReturn == call \in {"init", "print"} ~> call \in {"idle", "off"}

\* LCD_Init leaves the display with four bits, on, and in step.
InitSetsUp == call = "idle" => four /\ on /\ half = NoHalf

-----------------------------------------------------------------------------
\* What the proofs rest on: InStep and CursorAgrees with what makes them hold
\* from step to step.

Executed == step \in {"busy", "rest", "next"}
Writing == step \in {"high", "low", "busy", "rest"}

\* Where a call stands.
CallInv ==
  /\ step = "idle" <=> call \in {"off", "idle"}
  /\ step = "nibble" => call = "init" /\ command = 1
  /\ four <=> call # "off" /\ step # "nibble"
  /\ call = "print" => command >= 3
  /\ call \in {"off", "idle"} => command = NoCommand /\ shifts = 0
  /\ command = 1 => step \in {"nibble", "next"}
  /\ command # NoCommand => shifts = 0
  /\ step = "rest" /\ ~seen => ~busy

\* The byte on the wire, and what the display owes to it.
ByteInv ==
  /\ byte.char => /\ call \in {"print", "idle"}
                  /\ Writing => command = NoCommand /\ shifts = 0 /\ pos_y < HEIGHT
  /\ ~byte.char => byte \in {FunctionSet, DisplayOn, Clear, Home, ShiftRight}
  /\ byte = FunctionSet => command = 2
  /\ byte = DisplayOn => command = 3 /\ call = "init"
  /\ byte = Clear => command = 4
  /\ command = 2 => byte = FunctionSet
  /\ command = 3 /\ call = "init" => byte = DisplayOn /\ (Executed => on)
  /\ command = 3 /\ call = "print" => step = "next"
  /\ command = 4 => byte = Clear
  /\ call # "off" /\ (command >= 4 \/ call # "init") => on
  /\ call \in {"off", "init"} => ddram = BlankMemory

\* Where the display writes, and will write after the shifts still to come.
Place == LineLength * pos_y + pos_x
PlaceInv ==
  call # "off" /\ command = NoCommand /\ pos_y < HEIGHT =>
    /\ step \in {"next", "idle"} => ac + shifts = Place
    /\ step \in {"high", "low"} /\ byte = Home => shifts = Place
    /\ step \in {"high", "low"} /\ byte = ShiftRight => ac + 1 + shifts = Place
    /\ step \in {"high", "low"} /\ byte.char => ac = Place
    /\ step \in {"busy", "rest"} /\ byte.char => ac = Place + 1
    /\ step \in {"busy", "rest"} /\ ~byte.char => ac + shifts = Place

\* The text, and the character of it that is on the wire.
TextInv ==
  /\ call \in {"off", "init"} => text = <<>> /\ next = 1 /\ pos_x = 0 /\ pos_y = 0
  /\ call = "idle" => next = Len(text) + 1
  /\ call = "print" /\ command # NoCommand => next = 1
  /\ call = "print" => text \in {LCD_printf(i) : i \in Calls}
  /\ byte.char /\ step \in {"high", "low"} =>
       /\ call = "print" /\ next > 1
       /\ text[next - 1] = byte.value /\ byte.value # Newline

LcdInv == TypeOK /\ InStep /\ CallInv /\ ByteInv /\ PlaceInv /\ TextInv
=============================================================================
