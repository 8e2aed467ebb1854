------------------------------ MODULE Enc28j60 ------------------------------
(***************************************************************************)
(* The ENC28J60 Ethernet driver (Network/enc28j60.c) and the chip it       *)
(* drives over SPI.                                                        *)
(*                                                                         *)
(* One thread of the program calls enc_init, enc_send and enc_recv; each   *)
(* of their accesses to a chip register or to the chip's memory is a step  *)
(* of its own, because the chip works on meanwhile: it stores frames in    *)
(* the receive ring, ends or fails the transmission in progress, and       *)
(* finishes PHY writes.  The processor may restart at any moment without   *)
(* the chip noticing.                                                      *)
(*                                                                         *)
(* The chip is not part of the repository.  It is modelled by what the     *)
(* driver relies on, and marked "chip" below.                              *)
(*                                                                         *)
(* An operator named Bug... is a mistake the definition after it could     *)
(* have held.  The specification does not use it: it is there to show that *)
(* a property notices the mistake.                                         *)
(***************************************************************************)
EXTENDS Integers, Sequences

CONSTANTS
  RxSize,      \* ENC28J60_RXSIZE: the receive ring is 0 .. RxSize-1
  BufSize,     \* ENC28J60_BUFSIZE: the transmit area is RxSize .. BufSize-1
  HdrLen,      \* bytes of the header stored before a frame (3 * uint16_t)
  CrcLen,      \* bytes of CRC at the end of a received frame
  FrameSizes,  \* bytes a received frame may take in the ring, header included
  MaxFrames,   \* bound: frames stored between two resets of the chip
  MaxPktCnt,   \* the value at which EPKTCNT saturates and frames are dropped
  JunkPtrs,    \* pointers read where no header is stored (a sample of uint16_t)
  JunkLens,    \* lengths read where no header is stored (a sample of uint16_t)
  BufLens,     \* buffer sizes a caller gives enc_recv
  Packets      \* packets a caller gives enc_send

ASSUME GeometryAssumption ==
  /\ RxSize \in Nat \ {0} /\ BufSize \in Nat /\ RxSize < BufSize
  /\ HdrLen \in Nat \ {0} /\ CrcLen \in Nat
  /\ FrameSizes \subseteq HdrLen + CrcLen .. RxSize - 2

ASSUME InputAssumption ==
  /\ MaxFrames \in Nat /\ MaxPktCnt \in Nat
  /\ JunkPtrs \subseteq 0 .. BufSize - 1 /\ JunkPtrs # {}
  /\ JunkLens \subseteq Nat /\ JunkLens # {}
  /\ BufLens \subseteq Nat
  /\ Packets # {}

\* Addresses and lengths are of type uint16_t.
W16 == 65536
ASSUME WidthAssumption == BufSize <= W16

RXSTART == 0
Ring == 0 .. RxSize - 1
Addr == 0 .. BufSize - 1

VARIABLES
  \* the driver
  pc,               \* the next access the running call makes; "idle" between calls
  next_packet_ptr,  \* the file-scope variable of that name
  rxlen, status,    \* enc_recv's locals
  buflen, packet,   \* the arguments of the running enc_recv or enc_send
  phyWrites,        \* enc_wphy calls enc_init has completed
  \* the chip
  rxen,             \* ECON1.RXEN
  erxwrpt,          \* ERXWRPT: where the next frame is stored
  erxrdpt,          \* ERXRDPT: the byte the receiver may not reach
  erdpt,            \* ERDPT: where reads of the memory begin
  epktcnt,          \* EPKTCNT
  mem,              \* for each byte of the ring, the frame last stored over it
  tx,               \* "none", or TXRTS is set and transmission is "busy" or "stalled"
  txerif,           \* EIR.TXERIF
  txbuf, etxnd,     \* the packet in transmit memory, the one ETXND marks the end of
  miibusy,          \* MISTAT.BUSY
  \* history, since the last reset of the chip
  accepted,         \* the frames stored in the ring
  retired,          \* how many of them enc_recv has given back to the chip
  got,              \* what enc_recv handed to its callers
  escaped           \* ERXRDPT has been set to an address outside the ring

driverVars == <<pc, next_packet_ptr, rxlen, status, buflen, packet, phyWrites>>
rxVars == <<rxen, erxwrpt, erxrdpt, erdpt, epktcnt, mem>>
txVars == <<tx, txerif, txbuf, etxnd>>
rxHistory == <<accepted, retired, got, escaped>>
vars == <<driverVars, rxVars, txVars, miibusy, rxHistory>>

InitPcs == {"off", "i_regs", "i_phy", "i_phywait", "i_rxen"}
SendPcs == {"s_rts", "s_err", "s_rst", "s_unrst", "s_fill", "s_ptrs", "s_go"}
RecvPcs == {"r_cnt", "r_erdpt", "r_next", "r_len", "r_status", "r_data",
            "r_free", "r_dec"}

-----------------------------------------------------------------------------
\* The ring.  Addresses advance by less than RxSize and wrap at its end.

Step(a, k) == IF a + k >= RxSize THEN a + k - RxSize ELSE a + k

Frame == [id : Nat, start : Ring, size : FrameSizes, ok : BOOLEAN]
NoFrame == [id |-> 0, start |-> BufSize, size |-> 0, ok |-> FALSE]

Cells(f) == {Step(f.start, k) : k \in 0 .. f.size - 1}

Intact(f) == \A a \in Cells(f) : mem[a] = f

\* Where the i-th frame stored begins, or will begin.  The first unread one is
\* the one after those enc_recv has given back.
StartOf(i) == IF i <= Len(accepted) THEN accepted[i].start ELSE erxwrpt
OldestUnread == StartOf(retired + 1)

\* The chip stores a frame of n bytes only if ERXWRPT does not meet ERXRDPT on
\* the way.  A pointer outside the ring is never met.
Fits(n) == \A k \in 1 .. n : Step(erxwrpt, k) # erxrdpt

\* The header fields a read of the memory at ERDPT can return.
HasHeader == erdpt \in Ring /\ mem[erdpt].start = erdpt
NextsAt == IF HasHeader THEN {Step(erdpt, mem[erdpt].size)} ELSE JunkPtrs
LensAt == IF HasHeader THEN {mem[erdpt].size - HdrLen} ELSE JunkLens
StatusesAt == IF HasHeader THEN {mem[erdpt].ok} ELSE BOOLEAN

-----------------------------------------------------------------------------
\* enc_init.

InitReset ==
  /\ pc = "off"
  /\ pc' = "i_regs"
  /\ rxen' = FALSE /\ epktcnt' = 0
  /\ mem' = [a \in Ring |-> NoFrame]
  /\ tx' = "none" /\ txerif' = FALSE /\ miibusy' = FALSE
  /\ accepted' = <<>> /\ retired' = 0 /\ got' = <<>>
  /\ escaped' = FALSE
  /\ UNCHANGED <<next_packet_ptr, rxlen, status, buflen, packet, phyWrites,
                 erxwrpt, erxrdpt, erdpt, txbuf, etxnd>>

BugKeepReadPointer ==
  /\ pc = "i_regs"
  /\ pc' = "i_phy"
  /\ erxwrpt' = RXSTART
  /\ next_packet_ptr' = RXSTART
  /\ phyWrites' = 0
  /\ UNCHANGED <<rxlen, status, buflen, packet, rxen, erxrdpt, erdpt, epktcnt,
                 mem, txVars, miibusy, rxHistory>>

\* Writing ERXST also sets ERXWRPT (chip).
InitRegs ==
  /\ pc = "i_regs"
  /\ pc' = "i_phy"
  /\ erxwrpt' = RXSTART /\ erxrdpt' = RXSTART
  /\ next_packet_ptr' = RXSTART
  /\ phyWrites' = 0
  /\ UNCHANGED <<rxlen, status, buflen, packet, rxen, erdpt, epktcnt, mem,
                 txVars, miibusy, rxHistory>>

PhyWrite ==
  /\ pc = "i_phy"
  /\ pc' = "i_phywait"
  /\ miibusy' = TRUE
  /\ UNCHANGED <<next_packet_ptr, rxlen, status, buflen, packet, phyWrites,
                 rxVars, txVars, rxHistory>>

PhyWait ==
  /\ pc = "i_phywait"
  /\ ~miibusy
  /\ phyWrites' = phyWrites + 1
  /\ pc' = IF phyWrites + 1 = 3 THEN "i_rxen" ELSE "i_phy"
  /\ UNCHANGED <<next_packet_ptr, rxlen, status, buflen, packet,
                 rxVars, txVars, miibusy, rxHistory>>

InitRxEnable ==
  /\ pc = "i_rxen"
  /\ pc' = "idle"
  /\ rxen' = TRUE
  /\ UNCHANGED <<next_packet_ptr, rxlen, status, buflen, packet, phyWrites,
                 erxwrpt, erxrdpt, erdpt, epktcnt, mem,
                 txVars, miibusy, rxHistory>>

-----------------------------------------------------------------------------
\* enc_send.

\* A step of enc_send that touches nothing but the transmitter.
SendStep(from, to) ==
  /\ pc = from
  /\ pc' = to
  /\ UNCHANGED <<next_packet_ptr, rxlen, status, buflen, phyWrites,
                 rxVars, miibusy, rxHistory>>

SendCall(p) ==
  /\ SendStep("idle", "s_rts")
  /\ packet' = p
  /\ UNCHANGED txVars

BugNoWait ==
  /\ SendStep("s_rts", "s_fill")
  /\ UNCHANGED <<packet, txVars>>

SendPollRts ==
  /\ SendStep("s_rts", IF tx = "none" THEN "s_fill" ELSE "s_err")
  /\ UNCHANGED <<packet, txVars>>

BugResetNever ==
  /\ SendStep("s_err", "s_rts")
  /\ UNCHANGED <<packet, txVars>>

SendPollErr ==
  /\ SendStep("s_err", IF txerif THEN "s_rst" ELSE "s_rts")
  /\ UNCHANGED <<packet, txVars>>

\* The reset of the transmitter ends whatever transmission is in progress; the
\* chip may or may not drop TXERIF with it.
SendReset ==
  /\ SendStep("s_rst", "s_unrst")
  /\ tx' = "none"
  /\ txerif' \in {txerif, FALSE}
  /\ UNCHANGED <<packet, txbuf, etxnd>>

SendUnreset ==
  /\ SendStep("s_unrst", "s_rts")
  /\ UNCHANGED <<packet, txVars>>

BugNoPointers ==
  /\ SendStep("s_fill", "s_go")
  /\ txbuf' = packet
  /\ UNCHANGED <<packet, tx, txerif, etxnd>>

SendFill ==
  /\ SendStep("s_fill", "s_ptrs")
  /\ txbuf' = packet
  /\ UNCHANGED <<packet, tx, txerif, etxnd>>

SendPointers ==
  /\ SendStep("s_ptrs", "s_go")
  /\ etxnd' = packet
  /\ UNCHANGED <<packet, tx, txerif, txbuf>>

SendRequest ==
  /\ SendStep("s_go", "idle")
  /\ tx' = "busy"
  /\ UNCHANGED <<packet, txerif, txbuf, etxnd>>

-----------------------------------------------------------------------------
\* enc_recv.

\* A step of enc_recv that leaves the transmitter alone.
RecvStep(from, to) ==
  /\ pc = from
  /\ pc' = to
  /\ UNCHANGED <<packet, phyWrites, rxen, erxwrpt, mem, txVars, miibusy,
                 accepted>>

RecvCall(n) ==
  /\ RecvStep("idle", "r_cnt")
  /\ buflen' = n
  /\ UNCHANGED <<next_packet_ptr, rxlen, status, erxrdpt, erdpt, epktcnt,
                 retired, got, escaped>>

BugNoCount ==
  /\ RecvStep("r_cnt", "r_erdpt")
  /\ UNCHANGED <<next_packet_ptr, rxlen, status, buflen, erxrdpt, erdpt,
                 epktcnt, retired, got, escaped>>

RecvCount ==
  /\ RecvStep("r_cnt", IF epktcnt = 0 THEN "idle" ELSE "r_erdpt")
  /\ UNCHANGED <<next_packet_ptr, rxlen, status, buflen, erxrdpt, erdpt,
                 epktcnt, retired, got, escaped>>

RecvSeek ==
  /\ RecvStep("r_erdpt", "r_next")
  /\ erdpt' = next_packet_ptr
  /\ UNCHANGED <<next_packet_ptr, rxlen, status, buflen, erxrdpt, epktcnt,
                 retired, got, escaped>>

RecvNext ==
  /\ RecvStep("r_next", "r_len")
  /\ next_packet_ptr' \in NextsAt
  /\ UNCHANGED <<rxlen, status, buflen, erxrdpt, erdpt, epktcnt,
                 retired, got, escaped>>

RecvLen ==
  /\ RecvStep("r_len", "r_status")
  /\ rxlen' \in LensAt
  /\ UNCHANGED <<next_packet_ptr, status, buflen, erxrdpt, erdpt, epktcnt,
                 retired, got, escaped>>

BugReturnOnError ==
  /\ status' \in StatusesAt
  /\ RecvStep("r_status", IF status' THEN "r_data" ELSE "idle")
  /\ UNCHANGED <<next_packet_ptr, rxlen, buflen, erxrdpt, erdpt, epktcnt,
                 retired, got, escaped>>

BugIgnoreStatus ==
  /\ status' \in StatusesAt
  /\ RecvStep("r_status", "r_data")
  /\ UNCHANGED <<next_packet_ptr, rxlen, buflen, erxrdpt, erdpt, epktcnt,
                 retired, got, escaped>>

RecvStatus ==
  /\ status' \in StatusesAt
  /\ RecvStep("r_status", IF status' THEN "r_data" ELSE "r_free")
  /\ UNCHANGED <<next_packet_ptr, rxlen, buflen, erxrdpt, erdpt, epktcnt,
                 retired, got, escaped>>

BugClampFirst == ((IF rxlen > buflen THEN buflen ELSE rxlen) - CrcLen) % W16

BugKeepCrc == LET len == (rxlen - HdrLen) % W16
              IN  IF len > buflen THEN buflen ELSE len

\* len = rxlen - 4 in uint16_t, at most buflen.
DataLen == LET len == (rxlen - CrcLen) % W16
           IN  IF len > buflen THEN buflen ELSE len

\* What the bytes read are: those of a stored frame, or of none (id 0).
DataId == IF HasHeader /\ Intact(mem[erdpt]) THEN mem[erdpt].id ELSE 0

RecvData ==
  /\ RecvStep("r_data", "r_free")
  /\ got' = Append(got, [id |-> DataId, len |-> DataLen, buf |-> buflen])
  /\ UNCHANGED <<next_packet_ptr, rxlen, status, buflen, erxrdpt, erdpt, epktcnt,
                 retired, escaped>>

BugOnePast == (next_packet_ptr + 1) % BufSize

\* The value enc_recv writes to ERXRDPT: (next_packet_ptr - 1) & ENC28J60_BUFEND.
FreeUpTo == (next_packet_ptr - 1) % BufSize

RecvFree ==
  /\ RecvStep("r_free", "r_dec")
  /\ erxrdpt' = FreeUpTo
  /\ escaped' = (escaped \/ FreeUpTo \notin Ring)
  /\ retired' = retired + 1
  /\ UNCHANGED <<next_packet_ptr, rxlen, status, buflen, erdpt, epktcnt, got>>

RecvDecrement ==
  /\ RecvStep("r_dec", "idle")
  /\ epktcnt' = epktcnt - 1
  /\ UNCHANGED <<next_packet_ptr, rxlen, status, buflen, erxrdpt, erdpt,
                 retired, got, escaped>>

-----------------------------------------------------------------------------
\* The chip.

\* A frame of n bytes arrives and is stored.  One that does not fit, or that
\* arrives when EPKTCNT is at its limit, is dropped: nothing changes.
RxStore(n, ok) ==
  LET f == [id |-> Len(accepted) + 1, start |-> erxwrpt, size |-> n, ok |-> ok]
  IN  /\ rxen
      /\ Len(accepted) < MaxFrames
      /\ epktcnt < MaxPktCnt
      /\ Fits(n)
      /\ mem' = [a \in Ring |-> IF a \in Cells(f) THEN f ELSE mem[a]]
      /\ erxwrpt' = Step(erxwrpt, n)
      /\ epktcnt' = epktcnt + 1
      /\ accepted' = Append(accepted, f)
      /\ UNCHANGED <<driverVars, rxen, erxrdpt, erdpt, txVars, miibusy,
                     retired, got, escaped>>

\* The transmission ends well; or it is aborted, which clears TXRTS; or the
\* transmit logic stalls with TXRTS set, which is what enc_send's loop mends.
TxEnd(outcome) ==
  /\ tx = "busy"
  /\ tx' = IF outcome = "stall" THEN "stalled" ELSE "none"
  /\ txerif' = (txerif \/ outcome # "done")
  /\ UNCHANGED <<driverVars, rxVars, txbuf, etxnd, miibusy, rxHistory>>

MiiDone ==
  /\ miibusy
  /\ miibusy' = FALSE
  /\ UNCHANGED <<driverVars, rxVars, txVars, rxHistory>>

\* The processor restarts; the program begins again and calls enc_init.  The
\* chip keeps its power.
Restart ==
  /\ pc # "off"
  /\ pc' = "off"
  /\ next_packet_ptr' = 0
  /\ rxlen' = 0 /\ status' = FALSE /\ phyWrites' = 0
  /\ UNCHANGED <<buflen, packet, rxVars, txVars, miibusy, rxHistory>>

-----------------------------------------------------------------------------

Init ==
  /\ pc = "off" /\ next_packet_ptr = 0
  /\ rxlen = 0 /\ status = FALSE /\ phyWrites = 0
  /\ buflen \in BufLens /\ packet \in Packets
  /\ rxen = FALSE /\ erxwrpt = 0 /\ erxrdpt = 0 /\ erdpt = 0 /\ epktcnt = 0
  /\ mem = [a \in Ring |-> NoFrame]
  /\ tx = "none" /\ txerif = FALSE /\ txbuf = packet /\ etxnd = packet
  /\ miibusy = FALSE
  /\ accepted = <<>> /\ retired = 0 /\ got = <<>>
  /\ escaped = FALSE

EncInit == InitReset \/ InitRegs \/ PhyWrite \/ PhyWait \/ InitRxEnable

EncSend == \/ SendPollRts \/ SendPollErr \/ SendReset \/ SendUnreset
           \/ SendFill \/ SendPointers \/ SendRequest

EncRecv == \/ RecvCount \/ RecvSeek \/ RecvNext \/ RecvLen \/ RecvStatus
           \/ RecvData \/ RecvFree \/ RecvDecrement

Call == (\E p \in Packets : SendCall(p)) \/ (\E n \in BufLens : RecvCall(n))

TxSome == \E outcome \in {"done", "abort", "stall"} : TxEnd(outcome)

Chip == \/ \E n \in FrameSizes, ok \in BOOLEAN : RxStore(n, ok)
        \/ TxSome
        \/ MiiDone

Next == EncInit \/ EncSend \/ EncRecv \/ Call \/ Chip \/ Restart

Spec == Init /\ [][Next]_vars

\* A call that has begun keeps running; the chip ends what it has begun.
Fairness ==
  /\ WF_vars(EncInit) /\ WF_vars(EncSend) /\ WF_vars(EncRecv)
  /\ WF_vars(TxSome) /\ WF_vars(MiiDone)

FairSpec == Spec /\ Fairness

-----------------------------------------------------------------------------
\* Properties.

TypeOK ==
  /\ pc \in InitPcs \cup SendPcs \cup RecvPcs \cup {"idle"}
  /\ next_packet_ptr \in Addr
  /\ rxlen \in Nat /\ status \in BOOLEAN
  /\ buflen \in BufLens /\ packet \in Packets
  /\ phyWrites \in Nat
  /\ rxen \in BOOLEAN
  /\ erxwrpt \in Ring /\ erxrdpt \in Addr /\ erdpt \in Addr
  /\ epktcnt \in 0 .. MaxPktCnt
  /\ mem \in [Ring -> Frame \cup {NoFrame}]
  /\ tx \in {"none", "busy", "stalled"} /\ txerif \in BOOLEAN
  /\ txbuf \in Packets /\ etxnd \in Packets
  /\ miibusy \in BOOLEAN
  /\ accepted \in Seq(Frame) /\ retired \in Nat
  /\ got \in Seq([id : Nat, len : Nat, buf : BufLens])
  /\ escaped \in BOOLEAN

\* The receiver never overwrites a frame that enc_recv has not given back.  This
\* is what ERXRDPT is for; nothing in the code weakens it.
UnreadNeverOverwritten ==
  \A i \in retired + 1 .. Len(accepted) : Intact(accepted[i])

\* The same, for as long as every ERXRDPT value written lay in the ring: the
\* write at the end of enc_recv is the only way to lose an unread frame.
UnreadIntact == ~escaped => UnreadNeverOverwritten

\* Between two calls the driver's next_packet_ptr is where the chip stored the
\* oldest unread frame (or will store the next one), and EPKTCNT counts the
\* frames the driver has still to read, whatever arrived during the calls and
\* whenever the processor restarted.
ReceiverInSync ==
  pc = "idle" => /\ epktcnt = Len(accepted) - retired
                 /\ ~escaped => next_packet_ptr = OldestUnread

\* enc_recv delivers the frames received without error, each once, in the
\* order they arrived, and no other bytes: got lists the good ones among the
\* frames read so far.  A restart cuts a delivery short (pc = "off").
DeliveredInOrder ==
  pc # "off" /\ ~escaped =>
    LET read == IF pc = "r_free" THEN retired + 1 ELSE retired
    IN  /\ {got[i].id : i \in 1 .. Len(got)} = {i \in 1 .. read : accepted[i].ok}
        /\ \A i, j \in 1 .. Len(got) : i < j => got[i].id < got[j].id

\* Reception is a queue of frames: seen from its callers, enc_recv takes one
\* frame at a time off the front and hands over exactly its data, whatever the
\* chip stores between two accesses of the call.
Read == IF pc = "r_free" THEN retired + 1 ELSE retired
Up == pc \notin InitPcs /\ ~escaped
Plain(f) == [id |-> f.id, size |-> f.size, ok |-> f.ok]
UnreadFrom(r) == [i \in 1 .. Len(accepted) - r |-> Plain(accepted[r + i])]
Mode == IF pc \in InitPcs THEN "down" ELSE IF escaped THEN "broken" ELSE "up"
Arrived == IF Up THEN Len(accepted) ELSE 0
Unread == IF Up THEN UnreadFrom(Read) ELSE <<>>
Got == IF Up THEN got ELSE <<>>
Queue == INSTANCE FrameQueue WITH mode <- Mode, arrived <- Arrived, queue <- Unread,
                                  got <- Got, Overhead <- HdrLen + CrcLen
ImplementsQueue == Queue!Spec

\* Once every frame is read the ring has room for a frame of any size: the
\* ERXRDPT the driver leaves behind never blocks the receiver for good.
NeverWedged ==
  rxen /\ ~escaped /\ retired = Len(accepted) => \A n \in FrameSizes : Fits(n)

\* enc_recv never stores more bytes than its caller's buffer holds, not even
\* when the length it read is junk and len = rxlen - 4 wraps around.
NoBufferOverrun == \A i \in 1 .. Len(got) : got[i].len <= got[i].buf

\* enc_send never touches the transmit memory or its end pointer while the chip
\* still reads them for an earlier packet.
TxBufferStable == [][tx # "none" => UNCHANGED <<txbuf, etxnd>>]_vars

\* What the chip is transmitting is one whole packet: its bytes and its end
\* pointer belong together, whatever aborts and restarts came before.
TxWholePacket == tx # "none" => txbuf = etxnd

\* Every call returns (or the processor restarts): enc_send does not wait
\* forever for a stalled transmitter, nor enc_init for the PHY.
CallsReturn == pc \notin {"idle", "off"} ~> pc \in {"idle", "off"}

-----------------------------------------------------------------------------
\* The inductive invariant the proofs rest on, in named parts.

\* How far the address a lies after b, going round the ring.
Dist(a, b) == IF a >= b THEN a - b ELSE a - b + RxSize

\* Until the chip has been initialized it has received nothing.
BlankInv ==
  /\ ~rxen => /\ accepted = <<>> /\ retired = 0 /\ got = <<>>
              /\ epktcnt = 0 /\ ~escaped
  /\ pc \notin InitPcs => rxen
  /\ pc \in InitPcs \ {"off"} => ~rxen

\* EPKTCNT counts the unread frames, and one more before PKTDEC is written.
CountInv ==
  /\ retired <= Len(accepted)
  /\ pc # "off" => epktcnt = Len(accepted) - retired + (IF pc = "r_dec" THEN 1 ELSE 0)
  /\ pc \in RecvPcs \ {"r_cnt", "r_dec"} => retired < Len(accepted)

\* The frames stored follow one another round the ring.
ChainInv ==
  \A i \in 1 .. Len(accepted) :
    /\ accepted[i].id = i
    /\ StartOf(i + 1) = Step(accepted[i].start, accepted[i].size)

\* The unread ones lie in this order behind OldestUnread and before ERXWRPT,
\* and ERXRDPT stands where it keeps the receiver from coming round to them.
GuardInv ==
  LET off(a) == Dist(a, OldestUnread)
  IN  /\ \A i \in retired + 1 .. Len(accepted) :
          /\ off(accepted[i].start) + accepted[i].size <= off(erxwrpt)
          /\ \A j \in i + 1 .. Len(accepted) :
               off(accepted[i].start) + accepted[i].size <= off(accepted[j].start)
      /\ IF OldestUnread = 0
         THEN erxrdpt = 0
         ELSE erxrdpt = OldestUnread - 1 /\ off(erxwrpt) <= RxSize - 2

\* enc_recv's pointers while it reads the oldest unread frame.
CursorInv ==
  /\ pc \notin {"off", "i_regs", "r_len", "r_status", "r_data", "r_free"} =>
       next_packet_ptr = OldestUnread
  /\ pc \in {"r_len", "r_status", "r_data", "r_free"} =>
       next_packet_ptr = StartOf(retired + 2)
  /\ pc \in {"r_next", "r_len", "r_status", "r_data"} => erdpt = OldestUnread
  /\ pc = "r_data" => accepted[retired + 1].ok

\* The ring is in order from the time enc_init has set the pointers until an
\* ERXRDPT outside the ring is written.
RingInv ==
  /\ rxen \/ pc \notin {"off", "i_regs"} => ChainInv
  /\ ~escaped /\ (rxen \/ pc \notin {"off", "i_regs"}) =>
       GuardInv /\ UnreadNeverOverwritten /\ CursorInv

RxInv == BlankInv /\ CountInv /\ RingInv

\* The transmitter.
TxInv ==
  /\ tx # "none" => txbuf = etxnd
  /\ pc \in {"s_fill", "s_ptrs", "s_go"} => tx = "none"
  /\ pc \in {"s_ptrs", "s_go"} => txbuf = packet
  /\ pc = "s_go" => etxnd = packet
=============================================================================
