# A verification development for stm32-libraries

TLA+ models, TLC runs and TLAPS proofs kept beside the drivers of this
repository: the ENC28J60 Ethernet driver with a small UDP/ARP stack
(`Network/`), the HD44780 character display (`HD47780/`), the RFM73 radio
(`RFM73/`) and a USART (`USART/`).

All of it is C for one thread on an STM32.  There is no operating system and no
interrupt handler, and the repository has no tests.  The concurrency that makes
these drivers hard is between the processor and the chip it drives: the chip
receives, transmits and updates its registers between any two accesses of the
driver, and it keeps its state when the processor restarts.

## Inventory

| Component | State it keeps | Operations | Hard behaviour | What makes it correct |
|---|---|---|---|---|
| ENC28J60 driver (`Network/enc28j60.c`) | `next_packet_ptr`; the chip's receive ring (`ERXWRPT`, `ERXRDPT`, `ERDPT`, `EPKTCNT`), its transmitter (`TXRTS`, `TXERIF`, `ETXND`), `RXEN`, `MISTAT_BUSY` | `enc_init`, `enc_send`, `enc_recv` | frames arriving during a call; the ring full, empty, wrapping; transmissions that fail or stall; restart of the processor alone | frames delivered once, in order and whole; no unread frame overwritten; a packet not touched while it is sent; every call returns |
| ARP table (`Network/arp.c`) | `arp_table`, `ptr_entry` | `arp_table_get_mac`, `arp_table_set_entry`, frame builders | the table at its limit; an entry set twice; lookups of unused slots | stays in its bounds; a lookup returns what was last set |
| Network (`network.c`, `ip.c`, `udp.c`, `ethernet.c`) | none of its own | `network_send_data_packet`, `network_send_arp_ask`, `network_send_arp_answer`, `ip_checksum` | data dropped in favour of an ARP request; frame of a fixed size; checksum arithmetic | data reaches `enc_send` once the address is known; the header sums to the ones' complement of zero |
| HD44780 (`HD47780/hd44780.c`) | `pos_x`, `pos_y`; the display's memory, address counter, and nibble phase | `LCD_Init`, `LCD_printf` and the functions below it | half-written commands, restart of the processor alone, counters against the hardware's address, formatting at the edges | the display shows the text, line by line; software cursor and hardware cursor agree |
| RFM73 (`RFM73/rfm73.c`) | the radio's register bank, activation of features, mode, FIFOs, status flags | `rfm73_init`, modes, settings, `rfm73_transmit_message`, `rfm73_receive` | toggled banks and features against restarts; frames arriving between the accesses of a call; registers shared by several settings | accesses go to the bank meant; a setting changes only what it names; a message received is not lost |
| USART (`USART/usart.c`) | none | set-up, send a byte, receive a byte | none: register set-up and busy waiting | - |

How they interact: `network.c` calls `enc_init` and `enc_send`, looks addresses
up with `arp_table_get_mac` and builds headers with `ip.c`, `udp.c` and
`ethernet.c`.  Nothing in the repository calls `enc_recv`, `arp_table_set_entry`
or `network_send_arp_answer`: the application does, with what it receives.  The
display, the radio and the USART are used by the application directly.

The hazards, each at the line where it bites, are listed in `PROJECT.json` with
the properties that cover them.

## Plan

Done, in this order; each module with its runs:

1. `Enc28j60`: the Ethernet driver with its chip, and the proofs in
   `Enc28j60Proofs`.  It comes first because everything the network stack does
   rests on it, and because a receive ring shared with hardware is where tests
   help least.
2. `FrameQueue`: what the receiver promises, implemented by `Enc28j60`
   (`Enc28j60Refinement`).
3. `EncSpi` implementing `RegisterFile`: one register access, transfer by
   transfer, the level below `Enc28j60` (`EncSpiProofs`).
4. `Network` over `IpHeader`, implementing `AddressBook`: stations that run the
   stack on a network that loses and repeats frames (`NetworkProofs`).
5. `Lcd` over `LcdFormat`, implementing `Screen`: the display and its driver,
   pulse by pulse (`LcdFormatProofs`, `LcdProofs`).
6. `Rfm73`: the radio's banks, features, modes, FIFOs and `MAX_RT`
   (`Rfm73Proofs`); `RfSetup`: one register that four settings share
   (`RfSetupProofs`).

Every safety invariant, action property and refinement that a passing run checks
is proved.  Left: the other registers of the radio's settings, bit by bit like
`RfSetup`.

How the levels fit together:

    Network --enc_send--> Enc28j60 --register access--> EncSpi
       |                      |                            |
    AddressBook           FrameQueue                  RegisterFile

    Lcd (texts made by LcdFormat) -- Screen          Rfm73, RfSetup

Each lower name is the abstract specification that the module above it is
shown to implement.  `RegisterFile` justifies that `Enc28j60` takes a register
access as one step; `FrameQueue` and the transmit properties of `Enc28j60`
justify that `Network` takes `enc_send`, and a frame's way to the application,
as one step each.

## Enc28j60: the Ethernet driver and its chip

### What the model is

`Enc28j60.tla` has one action per access of `enc_init`, `enc_send` and
`enc_recv` to the chip.  `pc` is the access the running call makes next, `idle`
between calls, `off` before `enc_init`.  The other driver variables are
`next_packet_ptr`, the locals and arguments of the running call, and the number
of PHY writes done.

| Action | Code |
|---|---|
| `InitReset`, `InitRegs` | `enc_init` up to the PHY set-up: `enc_reset`, the pointers, `next_packet_ptr` |
| `PhyWrite`, `PhyWait` | one `enc_wphy`, three times |
| `InitRxEnable` | the last line of `enc_init` |
| `SendCall`, `SendPollRts`, `SendPollErr`, `SendReset`, `SendUnreset` | the loop that waits for the transmitter and resets it |
| `SendFill`, `SendPointers`, `SendRequest` | the packet, `ETXST`/`ETXND`, `TXRTS` |
| `RecvCall`, `RecvCount` | the test of `EPKTCNT` |
| `RecvSeek`, `RecvNext`, `RecvLen`, `RecvStatus` | `ERDPT` and the three header fields |
| `RecvData`, `RecvFree`, `RecvDecrement` | the data, `ERXRDPT`, `PKTDEC` |

The chip is not in the repository; these actions model it by what the driver
relies on, and `PROJECT.json` marks them external:

- `RxStore`: a frame arrives and is stored if `RXEN` is set, `EPKTCNT` is below
  its limit and writing it does not make `ERXWRPT` meet `ERXRDPT`.  A frame that
  is dropped changes nothing.  `ok` is the status bit the driver tests.
- `TxEnd`: the transmission ends; or is aborted, which clears `TXRTS` and sets
  `TXERIF`; or stalls with both set, the case `enc_send`'s loop is written for.
- `MiiDone`: the PHY write is finished.

`Restart` is a restart of the processor alone: the program begins again, the
variables are zero, the chip carries on until `enc_init` resets it.

Abstractions.  The memory records for each byte which frame was stored over it
last; that is all the properties tell apart.  A read where no frame begins
returns any value of a sample (`JunkPtrs`, `JunkLens`), so that the model goes
on after the driver has lost its place.  A packet to send is a model value.  A
register access is atomic here; `EncSpi`, below, shows that it may be.  MAC
address, filters, inter-frame gaps and the like do not change what is modelled.
`enc_rphy` is never called.

### The queue it implements

`FrameQueue.tla` is what a caller of `enc_recv` may count on: a queue of the
frames that arrived; each call that finds one takes the oldest and, if it was
received well, gives the caller its data without header and CRC, cut off at his
buffer.  `ImplementsQueue` says that `Enc28j60` implements it under the mapping
at the end of the module: `Mode` is `down` until `enc_init` has returned, then
`up`, and from the moment `ERXRDPT` is written outside the ring (see
`enc_wrap`) `broken` until the next restart, the one case in which the promise
ends; `Unread` is the sequence of frames that arrived and were neither handed
over nor passed over yet, and `Got` is what callers were given.  A length that wraps around, a header read at the
wrong place, a frame skipped or delivered twice: each would be a step that the
queue cannot take.

### What is checked

| Run | Shows |
|---|---|
| `enc_rx` | `UnreadIntact`, `ReceiverInSync`, `DeliveredInOrder`, `NeverWedged`, `NoBufferOverrun`, `TypeOK` and `ImplementsQueue` over all interleavings of calls, arriving frames and restarts |
| `enc_tx` | `TxBufferStable`, `TxWholePacket`, and `CallsReturn` under fairness |
| `enc_wrap` | `UnreadNeverOverwritten` is violated (see below) |

The ring of the runs has 12 bytes in a memory of 16, frames take 4 or 6 bytes
(header of 2, CRC of 1).  The two sizes make frames that wrap over the end of
the ring, frames that end exactly at it (the next begins at 0), and every
amount of room from none to all.  Five frames between two resets are enough to
fill the ring, empty it, come round to address 0, fill the ring again and
overwrite an unread frame.  `EPKTCNT` saturates at 3, so that the counter's
limit is reached too, although only two or three frames fit.  `enc_tx` needs
only one frame, two packets and all outcomes of a transmission.

Every property of a passing run has a mutant in `PROJECT.json`: a `Bug...`
operator of the module, a mistake the code could have had, under which TLC
finds the property violated.

Fairness (`FairSpec`): a call that has begun keeps running, because nothing
preempts the program for good; the chip ends a transmission and a PHY write it
has begun.  Nothing is assumed of how often calls are made or frames arrive.
`CallsReturn` allows a restart in place of the return.

### What the runs found

`enc_wrap`: the value written to `ERXRDPT` is
`(next_packet_ptr - 1) & ENC28J60_BUFEND`.  The mask is the end of the chip's
whole memory (`0x1FFF`), not of the receive ring (`0x19FF`).  When a frame ends
exactly at the end of the ring the next one begins at 0, and the driver writes
`0x1FFF`: an address the receiver never meets.  Nothing then stops it from
going round the ring over frames that have not been read, and the driver reads
headers that are no headers.  The trace takes a few frames; on hardware it
needs a frame to end at that byte, rarely, and a full ring at that moment.
`UnreadIntact`, which passes and is proved, shows that this write is the only
way to lose an unread frame.

Also seen in the model and not counted as a violation, since nothing in the
repository promises otherwise: `TXERIF` is never cleared by the driver, so once
a transmission has failed without stalling, a later `enc_send` that finds
`TXRTS` set resets a transmission that is in good health.  No property covers
this; that such a reset neither mixes nor changes packets is `TxWholePacket` and
`TxBufferStable`.

### What is proved

`Enc28j60Proofs.tla` proves for every ring and memory size, every set of frame
sizes and packets that satisfies `GeometryAssumption` and `InputAssumption`,
and for any number of frames and restarts:

| Theorem | States |
|---|---|
| `TypeCorrect` | `Spec => []TypeOK` |
| `UnreadSafe` | `Spec => []UnreadIntact` |
| `InSync` | `Spec => []ReceiverInSync` |
| `InOrder` | `Spec => []DeliveredInOrder` |
| `WithinBuffer` | `Spec => []NoBufferOverrun` |
| `RoomWhenRead` | `Spec => []NeverWedged` |
| `WholePacket` | `Spec => []TxWholePacket` |
| `BufferStable` | `Spec => TxBufferStable` |
| `QueueRefinement` (`Enc28j60Refinement.tla`) | `Spec => ImplementsQueue` |

The assumptions are those of the code's constants: the ring is a proper part of
the memory (`0x1A00 < 0x2000`), and a frame with its header takes at least the
header and the CRC and leaves at least two bytes of the ring free (the longest
Ethernet frame takes some 1530 of `0x1A00` bytes).  `MaxFrames` is any natural
number, so the bound of the runs is no bound of the theorems.

The argument.  None of these properties is inductive alone: a state in which
`ERXRDPT` guards nothing may satisfy them all.  `EncInv` adds, in named parts
(all defined at the end of `Enc28j60.tla`, with what they say):

- `BlankInv`, `CountInv`: before `RXEN` nothing was received; `EPKTCNT` is the
  number of unread frames, one more just before `PKTDEC`.  `TypeOK` needs this.
- `ChainInv`: each frame stored begins where the one before it ends.
- `GuardInv`: measured from the oldest unread frame round the ring (`Dist`), the
  unread frames come in order and without overlap before `ERXWRPT`, and
  `ERXRDPT` stands just before the oldest one, or at 0 when that begins at 0.
- `CursorInv`: where `next_packet_ptr` and `ERDPT` point at each step of
  `enc_recv`.

`FitsBound` turns the chip's test into a bound on distances; `StoreKeepsRing`
(a frame is stored) and `ReleaseKeepsRing` (a frame is given back) are the two
steps with content; `HeaderRead` says that `enc_recv` reads the header of the
oldest unread frame.  The transmitter has an invariant of its own, `TxInv`.
`TLC` checked `EncInv` and `TxInv` on the instance of `enc_rx` and `enc_tx`
before they were proved.

The refinement rests on `EncInv`: `HeaderRead` gives the head of the queue its
fields, `DataDelivered` says that the bytes copied are those of that frame, and
`UnreadFromTail` and `UnreadFromAppend` say what the two ends of the ring do to
the mapped sequence.  Every other step is a stutter (`NoQueueStep`).

Only model-checked: `CallsReturn`, which is liveness under fairness.

## EncSpi: one register access

`Enc28j60` takes a register access as one step.  `EncSpi.tla` is the level
below: `enc_rcr`, `enc_wcr`, `enc_bfs`, `enc_bfc` and `enc_wcr2`, one action per
SPI transfer.

| Action | Code |
|---|---|
| `Begin` | the call of a register function |
| `BankClear`, `BankSet` | the two transfers of `enc_bank_select` |
| `Access` | the command and its byte; the second byte of `enc_wcr2` begins again with `BankClear` |
| `Reset` | `enc_reset` |
| `ChipStep` | external: the chip changes bits of `ECON1` and the like by itself |
| `Restart` | external: the processor restarts between two transfers, the bank stays |

The chip has 4 banks of 32 registers, the last five common to all (`Location`);
it sends a dummy byte first for MAC and MII registers (`BytesRead`), and takes
both bytes of `ERXRDPT` when the high one is written, so the receiver must never
see half of a new pointer.

`RegisterFile.tla` is the promise: a call reads or changes the register it names,
in one step, and all else that may change is the bank bits.
`ImplementsRegisters` maps its registers to the chip's by bank and index.  This
is what lets `Enc28j60` have no bank at all, and write `ERXRDPT` in one step
(`RecvFree`).

Run `enc_spi` checks `BankSelected` and `ImplementsRegisters` on four registers
that share the index 2, one in each bank and two of them with a dummy byte,
`ECON1`, which holds the bank bits themselves and a bit the chip changes, and
the `ERXRDPT` pair; the values set and clear a bank bit and another one.  Any
bank may be selected at any access, so a fifth register would show nothing new.

`EncSpiProofs.tla` proves both for all addresses, values and volatile registers
that satisfy `AddressAssumption` and `ValueAssumption` (what `enc28j60.h`
encodes: no two addresses are the same register, the high bit marks the MAC and
MII registers, bank bits are the driver's alone): `BankAlwaysSelected`,
`RegistersRefinement`.  The invariant `SpiInv` adds to the types that the bank
bits are clear after the first transfer and select the bank after the second
(`BankInv`), and that the low byte of a pointer is in place when its high byte
is sent (`PairInv`); `FixedLocations` says that bank selection, in whatever
bank, reaches the one `ECON1`.

## Network: the stack on a network

### What the model is

`Network.tla` has several stations that run `network.c` and `arp.c`.  A call of
the stack is one step; there is nothing in it to interleave with, since it hands
at most one frame to `enc_send`.

| Action | Code |
|---|---|
| `Send` = `SendData` or `SendAsk` | `network_send_data_packet`: the data if the address is in the table, else `network_send_arp_ask` |
| `ReceiveAsk` | the application answers with `network_send_arp_answer` |
| `ReceiveAnswer` | the application calls `arp_table_set_entry`, always or only for a new address |
| `ReceiveData` | data arrives |
| `Lose`, and every `Receive` that leaves the frame on the network | the network loses, repeats, reorders |
| `Restart` | a station restarts, perhaps with another adapter |

The application is not in the repository: that it answers questions, enters
answers and sends again when 0 is returned is what the stack's functions leave
to it.  `arp_table_set_entry` past the end of the table writes over whatever
follows it: `overrun` records that, and the station does nothing from then on
but restart.

`IpHeader.tla` holds the headers as sequences of 16-bit words as the processor
reads them, and `ip_checksum` with its end-around carry; `Verifies` is what a
receiver computes, in the other byte order, from RFC 791.

`AddressBook.tla` is what the table is for: a station sends to the address it
learned first and asks when it has learned none.  `ImplementsBook` maps the book
to lookups in the table of each station.

### What is checked

Run `network`: `HeadersVerify`, `LengthsAgree`, `DataToOwner`, `TableSuffices`,
`ImplementsBook` and, under fairness, `DataSent`.

Three stations, one of which sends to the two others; the second may come back
with another adapter, so that entries grow stale.  Both tables and network are
small on purpose: `TableSize` is 2, so that two entries fill it and one repeated
entry overruns it; `MaxNet` is 3, so that a question, an answer and data are
there at once.  One message is empty, the other is of the longest that fits
(1475 bytes, so that every length has two bytes that are not zero), and the IP
addresses are chosen so that the sum carries.

Fairness (`Fairness`): the application calls `network_send_data_packet` again
while it has something to send (weak, `Send`); a question or an answer sent
again and again is delivered at some time (strong, `AskFrom`, `AnswerFrom`: the
network may lose each one many times but not all).  Nothing makes data arrive,
and `DataSent` does not say it does: UDP promises no more.

### What is proved

`NetworkProofs.tla`, for any number of stations, messages and frames:

| Theorem | States |
|---|---|
| `ChecksumVerifies` | ten words with `ip_checksum` of the rest in the sixth place add up to all ones in network byte order, as a receiver adds them, if the first word is not 0 (a header's never is) |
| `HeaderVerifies` | `Verifies` of every header that `ip_set_data_length` completes, for all addresses and lengths |
| `HeadersAlwaysVerify`, `LengthsAlwaysAgree` | `Spec => []HeadersVerify`, `Spec => []LengthsAgree` |
| `TypeCorrect`, `OwnersOnly` | `Spec => []TypeOK`, `Spec => []DataToOwner` |
| `BookRefinement` | `Spec => ImplementsBook` |
| `TableAlwaysSuffices` | `Spec => []TableSuffices`, if the table has room for all stations but one |

`ChecksumIsZero` says it of the sum as the processor computes it, for any ten
words.  That the byte order does not matter is a lemma of its own
(`ChecksumIsReceivers`): swapping bytes is multiplication by 256 modulo 65535
(`SwapIs`), and end-around sums are sums modulo 65535 (`Sum5Is`, `EndAroundIs`).
`AddWordCommutes` carries the checksum's word from its place in the header to
the end of the sum, where `AddComplement` meets it.  `OwnersOnly` needs `NetworkInv`: entries are filled from the front, every
address in a table or on the network has been its station's.

`TableAlwaysSuffices` counts.  It has a hypothesis of its own, that there are at
most `TableSize + 1` stations: with more, a station that talks to all the others
needs more entries than there are.  Its invariant `TablesInv` (checked by `TLC`
first) says that the entries of a station whose application never enters an
address twice name different stations, none of them the station itself.  Were
such a table full, it would name all other stations (`RoomForAnother`, by the
pigeonhole principle of the library); so an answer from a station that is not
known yet finds a free entry (`EntryRoom`).

Only model-checked: `DataSent`.

### Also seen

An entry is never replaced: after a station comes back with another adapter,
data goes on to the old one until the sender restarts.  `AddressBook` says so
(the first address stands).  An application that enters every answer it gets
overruns the table after ten of them (`ARP_TABLE_SIZE`), even with two
stations: an answer repeated by the network is enough.

## Lcd: the display

### What the model is

`Lcd.tla` has one action per pulse of the pin E, and the steps of `LCD_Init` and
`LCD_printf` that choose the next byte.

| Action | Code |
|---|---|
| `InitCall`, `InitNibble` | `LCD_Init` up to its first pulse, `LCD_WriteDPort(0x02)` |
| `PrintCall` | `LCD_printf` up to `LCD_WriteText` |
| `WriteCommand` | the commands of `LCD_Init` and of `LCD_WriteText`, in order |
| `TextNewline`, `LCD_WriteChar` | one turn of `LCD_WriteText`'s loop |
| `WriteHigh`, `WriteLow` | the two halves of `LCD_WriteCommand` or `LCD_WriteChar` |
| `ReadHigh`, `ReadLow` | `LCD_ReadBusyFlag`, the loop on it, and the end of `LCD_WriteChar` (`Advance`) |
| `WriteShift` | one turn of `LCD_SetCursor`'s loop |
| `Return` | the end of a call |

The display is external, modelled by what the driver relies on: an interface of
8 or 4 bits, which of a byte's halves comes next (`half`), a busy flag that goes
away at some time (`Ready`), memory with an address counter that counts on, and
the commands the driver uses.  It is busy after each command, the first pulse of
`LCD_Init` included, for as long as it likes.  A byte that ends while it is busy it
takes or misses; which of the two is not defined, and the model allows both.  A
reading out of step returns any bit.  One thing is assumed of a busy display: it
still counts the pulses, so a byte it misses is missed as a whole.  Were it to
miss half a byte, nothing after it would be in step.  The delay before the first pulse
is taken to be longer than any command.  `PowerUp` is a loss of power at any
moment, `Restart` (only in `RestartSpec`) a restart of the processor alone.

`LcdFormat.tla` holds the conversions: a format is a sequence of items, and
`printf` is the reference they are compared with, digit by digit.  Numbers are
C's `int`, of 32 bits.  A `%f` has two numbers: `value`, the one that is meant and
that `printf` shows, and `arg`, the `int` that `va_arg` finds.  An application
that passes thousandths as an `int`, the convention of the code, makes them equal
(`Fix`).  One that passes a double, as the driver's `README.md` allows, makes `arg`
any `int` (`Double`).

`Screen.tla` is the promise: each `LCD_printf` has a text and clears the screen;
then exactly the characters of that text are written in order, a full line and
a newline lead to the next, what comes below the last line is left out, and the
next call begins only when the text is done.  `lines` is how many lines the
display was set up to show.  `ImplementsScreen` maps the screen to the part of
the memory that is seen (`Window`), `line` and `column` to the driver's count and
`next` to its place in the text, set forward at the pulse with which the display
has executed the byte (`Line`, `Column`, `Position`), and `text` to what
`LCD_printf` has made of its format.

### What is checked

| Run | Shows |
|---|---|
| `lcd` | `InStep`, `CursorAgrees`, `PrintsAsPrintf`, `ImplementsScreen`, and `CallsReturn` under fairness |
| `lcd_restart` | `InitSetsUp` is violated |
| `lcd_format` | `PrintsAsPrintf` is violated for a negative number and for a `%f` of a double |

`InStep` has an exception, `FunctionSetDue`: before the function set of `LCD_Init`
the driver does not wait, so of that byte it says only that the halves agree.
`PrintsAsPrintf` passes in `lcd` for formats without negative numbers, whose `%f`
get ints of thousandths; `lcd_format` has one call with both of the other kinds,
`LCD_printf("%d %f", -5, 1.5)`.

A screen of two by two in a memory of three places a line: the smallest that has
a line end, a last line and places that are not seen.  Every text of up to four
characters out of two letters and a new line, so every line is full, not full,
or left early, followed by another or not, and texts run below the screen; the
numbers have one to five digits, with and without padding, with a multiple of
ten and a `%`.

Fairness: nothing preempts the program for good (weak, `Run`), and the display
finishes what it was told (weak, `Ready`).  Power failures are not fair and may
stand in place of a return.

### What the runs found

`lcd_restart`: the first pulse of `LCD_Init` switches an interface of 8 bits to
4.  A display that is in 4-bit mode already, after a restart of the processor
alone, takes it as half a byte; from there on each byte is made of the halves of
two, and `LCD_Init` returns with the display not set up.  (The data sheet's
sequence for this case begins with three times `0x03`.)

`lcd_format` shows two disagreements with the driver's `README.md`, which says that
`LCD_printf` works like the standard `printf` and takes int, float and double.
`intToStr` adds `x % 10` to `'0'`, and that is negative in C when x is: `%d` of -5
shows `+`.  For a `%f` the code takes an `int` from the arguments and shows it as
thousandths; where a double was passed, that `int` has nothing to do with it.

Also seen, and not counted: the first pulse of `LCD_Init` is a command, and line 32
sends the next one, `0x28`, without a delay and without reading the busy flag.  A
display that is still busy may miss it (`Written`).  It is then in 4-bit mode, and
everything after it works, but with the number of lines the first pulse happened to
set (two of the pins it reads it from are not connected): the second line may never
be seen, though the comment of that line and the driver's `README.md` say two.  The
properties hold all the same: `InStep` excepts that byte, and `ImplementsScreen` has
`lines` equal to one.

### What is proved

`LcdProofs.tla`, for a screen of any width and one or two lines, and any texts
that fit (`ScreenAssumption`, `CallAssumption`):

| Theorem | States |
|---|---|
| `AlwaysInStep` | `Spec => []InStep` |
| `CursorAlwaysAgrees` | `Spec => []CursorAgrees` |
| `ScreenRefinement` | `Spec => ImplementsScreen` |
| `NotNegativeAsPrintf` | `Spec => []PrintsAsPrintf`, if no number is negative and every `%f` gets an `int` of thousandths |

`AlwaysInStep` rests on the assumption about busy displays above, and excepts the
function set as `InStep` does.

`LcdInv` (checked by `TLC` first) makes them inductive: `CallInv` says where a
call stands, `ByteInv` which byte is on the wire and what of the set-up has been
done by then, `PlaceInv` that the display's counter plus the shifts still to
come is the place the driver counts, `TextInv` which character of the text is on
the wire.  In the refinement everything up to the end of `LCD_Init` is `SetUp`
(`BeforeTexts`); after it, `PutMaps` is the step with content.  `Effect` states what each byte the driver
writes does to the display, `ShowPut` what a character written at a place does
to the window; `DifferentPlaces` says that no other place of the window is the
same byte of memory.

`LcdFormatProofs.tla` is about the conversions, for every `int`:

| Theorem | States |
|---|---|
| `BuffersSuffice` | `intToStr` makes 1 to 10 characters, `doubleToStr` 5 to 11, of their `tempBuf[20]` |
| `DecimalAsPrintf`, `FixedAsPrintf` | `%d`, and `%f` of an `int` of thousandths, show what `printf` does for every number from 0 up, and for no other: what `lcd_format` shows for one number holds for all negative ones |
| `PrintfAsPrintf` | so does `LCD_printf` for a whole format |
| `TextFits` | formats whose items take less than 50 characters, ten for a `%d` and eleven for a `%f`, satisfy `CallAssumption` |

`intToStr` is a recursive function, and the library's induction theorems take a
predicate, which the provers cannot instantiate.  `Induction` is the same with a
set in its place, from the well-foundedness of the natural numbers.  With it
`DigitwiseUpTo` builds the function up to any bound, so that `IntToStrStep` may
unfold one call; `IntToStrDigits` then goes from a number of `n` digits to one
of `n + 1`, and `IntToStrLength` does so for negative numbers too, whose text is
one character short of printf's.  For `doubleToStr`, `Padded` and
`DigitOfThousands` say that padding and cutting leave the digits in their
places.  `PrintInv` connects this to `Lcd`: during `LCD_printf`, `text` is made
of its arguments.

Only model-checked: `CallsReturn`.

### Also seen

A line that is filled exactly is left at once, so a new line after it leaves a
blank line; `Screen` says so.  Text longer than 49 characters overruns `text[50]`, and a `%` at the
end of a format runs past its terminator; both are excluded by
`CallAssumption` and by what an item is.

## Rfm73: the radio driver and its radio

### What the model is

`Rfm73.tla` holds each function of the driver as a script, the accesses it makes
to the radio in order (`Script`, with one definition per function, named as in
the code).  `call` is the running function and `k` its next access; `seen` is
what it has read so far; `chip` is the radio.  There is one action per kind of
access (`Select` is the second half of `rfm73_bank`, `Activate` the conditional
command of `rfm73_init`, `ClearStatus` the write of `STATUS`, `NewConfig` what
each function makes of the `CONFIG` it read, and so on), so a script is run one
access at a time.  Functions are called in any order once `rfm73_init` has
returned, which `rfm73.h` asks for.

The radio is external.  `Arrive` receives a message when the radio listens, is
not blocked and has room; `Transmit` has one acknowledged or given up, which
sets `MAX_RT`.  The registers of features can be written only once they are
activated, and `FEATURE` reads 0 until then.  `Restart` is a restart of the
processor alone, at any access; the pin that drives CE has any level after it.

Abstractions.  Writes of registers that hold nothing modelled are one access
(`reg0`, `reg1`), the tables that `rfm73_init` writes included.  The settings and
queries that only read or write such registers are `OtherSetting`.  Of the
status flags only `MAX_RT` has an effect: there is no interrupt handler.
`rfm73_channel_payload_size` can turn dynamic length off for one pipe; that is
not modelled, `LengthMatches` is about pipes as `rfm73_init` leaves them.
`rfm73_transmit_message_once` is `rfm73_transmit_message` with the outcome that
is acknowledged.

### What is checked

| Run | Shows |
|---|---|
| `rfm73` | `BankAsMeant`, `ModeHolds`, `LengthMatches`, `EnabledForGood`, `TransmitUnblocks`, `TypeOK` |
| `rfm73_features` | `InitEnables` is violated |
| `rfm73_flush` | `MessagesKept` is violated |
| `rfm73_power` | `DataRateHolds` of `RfSetup` is violated |

FIFOs hold three messages, as in the radio, of two sizes; nothing else is
bounded.  `ModeHolds` is about all five modes: receiving, transmitting, power down,
standby, and the one `rfm73_init` leaves, which is ready to receive with CE low.
It says where the code departs from `rfm73.h`: the last two end with `rfm73_power`
or `rfm73_air_data_rate` (`"left"`), see below.  `LengthMatches` says that there is a message whenever one is read, and
speaks of its length only while the extra features are in force: without them
the radio returns any length, and `rfm73_features` shows how that comes about.

### What the runs found

`rfm73_features`: `rfm73_init` activates the extra features if `FEATURE` reads
0.  It reads 0 also when they have been activated and `FEATURE` has not been
written yet.  After a restart at that moment the next `rfm73_init` toggles the
features off, its write of `FEATURE` is lost and dynamic payload length stays
off until `rfm73_init` is called once more.

`rfm73_flush`: `rfm73_receive` flushes the receive FIFO after the message it
returns, so messages that wait behind it, or arrive during the call, are lost
after the radio acknowledged them.

Also seen, and not counted:

`rfm73_power` and `rfm73_air_data_rate` take CE low, write `RF_SETUP` and set CE,
whatever it was before (lines 403 and 277).  `rfm73.h` says of them that they set
the power and the data rate, and of `rfm73_mode_standby` that it puts the radio in
standby I to save power; after it either of them takes the radio out of standby,
and depending on `CONFIG` it listens again.  `ModeHolds` states this exception.

`rfm73.h` (369-372) says that `rfm73_init` leaves the radio in receive mode.
`CONFIG` is that of the receive mode, but CE is low (line 479), and the radio hears
nothing until `rfm73_mode_receive`, or until one of the two settings above.

`rfm73_mode_receive`, called while a transmission fails, may leave `MAX_RT` set after the status it clears was read,
which blocks the receiver.  `rfm73_mode_transmit` is free of this because it
flushes the transmit FIFO first (`TransmitUnblocks`).

### What is proved

`Rfm73Proofs.tla`, for FIFOs of any depth and messages of any sizes
(`RadioAssumption`):

| Theorem | States |
|---|---|
| `TypeCorrect` | `Spec => []TypeOK` |
| `BankAlwaysAsMeant` | `Spec => []BankAsMeant` |
| `ModesHold` | `Spec => []ModeHolds` |
| `LengthsMatch` | `Spec => []LengthMatches` |
| `FeaturesStay` | `Spec => EnabledForGood` |
| `TransmitsUnblock` | `Spec => TransmitUnblocks` |

None of these is inductive: what an access may do depends on where in which
script the driver stands.  `RfmInv` (at the end of `Rfm73.tla`, checked by `TLC`
first) says it.  `BankInv` gives the bank at each place of the scripts that
toggle it, and when the status read still shows it; `FeatureInv` that
`rfm73_init` knows whether the features are in force when it activates them;
`ReceiveInv` that the message whose length was read stays at the head of the
FIFO; `BlockInv` that `rfm73_mode_transmit` has emptied the transmit FIFO before
it reads the flags it clears, so that none is set afterwards; `ModeInv` what
`CONFIG` and CE are while settings come and go.

`Lengths`, `Places` and `Accesses` turn the scripts into facts about the program
counter, `Moved` says where an access leads, and one lemma per part of the
invariant (`BankKept` to `ModeKept`) dismisses the accesses that do not concern
it; what remains is one lemma per action.  Everything the `rfm73` run checks is
proved.  `InitEnables` and `MessagesKept` do not hold, see above.

`RfSetupProofs.tla` puts `rfm73_power` (below) in its place: `PowerSetsRate`
says that bit 5 is set after it whatever its argument and the register before,
and `OnlyPowerBreaksRate` that `DataRateHolds` is an invariant of a program that
never calls it.

### RfSetup: a register that settings share

`RfSetup.tla` is the register `RF_SETUP` bit by bit, with the functions that read
it, change bits and write it back: `rfm73_air_data_rate`, `rfm73_power`,
`rfm73_lna_high`, `rfm73_lna_low`, and `rfm73_init`.  They are single steps,
since nothing but the driver writes the register.

`rfm73_power`: the function keeps bits 3 and 0 and sets bits 4 and 5.  Bit 5 is
the low data rate: after any call of it the radio is at 250 Kbps, or, when it
was at 2 Mbps, at a combination that `rfm73.h` does not list, and two radios
that were set to the same rate no longer hear each other unless both changed
their power.  Arguments are all documented ones and one above each limit.

Seen while reading and not modelled: `rfm73_channel` masks with `0x7E` where
`rfm73.h` says that only the highest bit is ignored, so odd channels become even
ones; `rfm73_crc_length` compares the register instead of the length with 2, and
enables auto-acknowledge with the CRC although `rfm73.h` says it does not.

## Not modelled

- Timing: delay loops, clock set-up, GPIO modes.  They have no state that the
  properties speak of; the one delay that matters (`LCD_Init`) is in `InitCall`.
- `enc_rphy`, which is never called, and `enc_rcr2`, whose result `enc_init`
  discards.  `enc_bfs` and `enc_bfc` are called on Ethernet registers only,
  which is why `EncSpi` has no such call on MAC registers.
- The USART driver: register set-up and busy waiting for one byte; it keeps no
  state and takes no decision.
- The values that the radio's other settings write (channel, CRC length,
  addresses, pipes): `Rfm73` has their accesses, not their bits.
- What the program does once `arp_table`, `frame[1518]` or `text[50]` is
  overrun: it is undefined.
- Proofs of liveness: `CallsReturn` and `DataSent` are checked by `TLC` only.
