------------------------------- MODULE Screen -------------------------------
(***************************************************************************)
(* What LCD_printf makes of the display: each call has a text, the screen  *)
(* is cleared, and the characters of that text are then written to it one  *)
(* after the other.  A newline, and the end of a line, lead to the next    *)
(* line; there is no scrolling, and what comes after the last line is left *)
(* out.  Of its Height lines a display shows as many as it was set up for. *)
(***************************************************************************)
EXTENDS Integers, Sequences

CONSTANTS Width, Height, Texts, Space, Newline

VARIABLES
  screen,        \* what is seen
  lines,         \* how many lines of it the display shows
  line, column,  \* where the next character goes
  text, next     \* the text of the last call, and its next character: 0 before
                 \* the screen is cleared

vars == <<screen, lines, line, column, text, next>>

Blank == [l \in 0 .. Height - 1 |-> [c \in 0 .. Width - 1 |-> Space]]

Init ==
  /\ screen = Blank /\ lines \in 1 .. Height
  /\ line = 0 /\ column = 0 /\ text = <<>> /\ next = 1

\* The display is set up, or loses power.
SetUp ==
  /\ screen' = Blank /\ lines' \in 1 .. Height
  /\ line' = 0 /\ column' = 0 /\ text' = <<>> /\ next' = 1

Call ==
  /\ next > Len(text)
  /\ text' \in Texts /\ next' = 0
  /\ UNCHANGED <<screen, lines, line, column>>

Clear ==
  /\ next = 0 /\ next' = 1
  /\ screen' = Blank /\ line' = 0 /\ column' = 0
  /\ UNCHANGED <<lines, text>>

Character == next \in 1 .. Len(text) /\ next' = next + 1 /\ UNCHANGED <<lines, text>>

NextLine ==
  /\ Character /\ text[next] = Newline
  /\ line' = line + 1 /\ column' = 0 /\ UNCHANGED screen

Put ==
  /\ Character /\ text[next] # Newline /\ line < Height
  /\ screen' = IF line < lines THEN [screen EXCEPT ![line][column] = text[next]] ELSE screen
  /\ IF column + 1 = Width THEN line' = line + 1 /\ column' = 0
                           ELSE column' = column + 1 /\ UNCHANGED line

LeaveOut ==
  /\ Character /\ text[next] # Newline /\ line >= Height
  /\ UNCHANGED <<screen, line, column>>

Next == SetUp \/ Call \/ Clear \/ NextLine \/ Put \/ LeaveOut

Spec == Init /\ [][Next]_vars
=============================================================================
