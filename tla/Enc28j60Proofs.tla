--------------------------- MODULE Enc28j60Proofs ---------------------------
(***************************************************************************)
(* Proofs about Enc28j60 for every ring, buffer size, frame size and       *)
(* packet.                                                                 *)
(***************************************************************************)
EXTENDS Enc28j60, TLAPS

-----------------------------------------------------------------------------
\* Arithmetic of the ring.

\* Advancing by at most the size of the ring stays in the ring.
LEMMA StepInRing ==
  ASSUME NEW a \in Ring, NEW k \in 0 .. RxSize
  PROVE  Step(a, k) \in Ring
BY GeometryAssumption DEF Ring, Step

\* A distance is less than the ring's size.
LEMMA DistRange ==
  ASSUME NEW a \in Ring, NEW b \in Ring
  PROVE  Dist(a, b) \in 0 .. RxSize - 1
BY GeometryAssumption DEF Ring, Dist

\* Two addresses at the same distance are the same.
LEMMA DistInjective ==
  ASSUME NEW a \in Ring, NEW b \in Ring, NEW c \in Ring, Dist(a, c) = Dist(b, c)
  PROVE  a = b
BY GeometryAssumption DEF Ring, Dist

\* Advancing an address advances its distance, short of a whole round.
LEMMA DistStep ==
  ASSUME NEW a \in Ring, NEW b \in Ring, NEW k \in Nat, Dist(a, b) + k < RxSize
  PROVE  Dist(Step(a, k), b) = Dist(a, b) + k
BY GeometryAssumption DEF Ring, Dist, Step

\* Advancing the origin shortens the distance to what lies beyond it.
LEMMA DistMove ==
  ASSUME NEW a \in Ring, NEW b \in Ring, NEW k \in 0 .. RxSize - 1, k <= Dist(a, b)
  PROVE  Dist(a, Step(b, k)) = Dist(a, b) - k
BY GeometryAssumption DEF Ring, Dist, Step

\* What enc_recv writes to ERXRDPT is the address before next_packet_ptr, and
\* the end of the whole memory when there is none before it.
LEMMA FreeUpToValue ==
  ASSUME next_packet_ptr \in Addr
  PROVE  FreeUpTo = IF next_packet_ptr = 0 THEN BufSize - 1 ELSE next_packet_ptr - 1
BY GeometryAssumption DEF Addr, FreeUpTo

\* len is a natural number that the caller's buffer can hold.
LEMMA DataLenBound ==
  ASSUME rxlen \in Nat, buflen \in Nat
  PROVE  DataLen \in Nat /\ DataLen <= buflen
BY GeometryAssumption DEF DataLen, W16

-----------------------------------------------------------------------------
\* Types, and the ledger of frames: what TypeOK says of EPKTCNT needs CountInv.

BaseInv == TypeOK /\ BlankInv /\ CountInv

\* A read of a header returns values of the type of the variables they go to.
LEMMA HeaderTypes ==
  ASSUME TypeOK
  PROVE  NextsAt \subseteq Addr /\ LensAt \subseteq Nat /\ StatusesAt \subseteq BOOLEAN
         /\ DataId \in Nat
<1> USE GeometryAssumption, InputAssumption DEF TypeOK
<1>1. CASE HasHeader
  <2>1. mem[erdpt] \in Frame /\ erdpt \in Ring
    BY <1>1 DEF HasHeader, NoFrame, Ring
  <2>2. /\ mem[erdpt].id \in Nat /\ mem[erdpt].ok \in BOOLEAN
        /\ mem[erdpt].size \in FrameSizes
    BY <2>1 DEF Frame
  <2>3. mem[erdpt].size \in 0 .. RxSize /\ mem[erdpt].size - HdrLen \in Nat
    <3>1. mem[erdpt].size \in HdrLen + CrcLen .. RxSize - 2
      BY <2>2
    <3>2. QED
      BY <3>1
  <2>4. Step(erdpt, mem[erdpt].size) \in Ring
    BY <2>1, <2>3, StepInRing
  <2>5. Ring \subseteq Addr
    BY DEF Ring, Addr
  <2>6. QED
    BY <1>1, <2>2, <2>3, <2>4, <2>5 DEF NextsAt, LensAt, StatusesAt, DataId
<1>2. CASE ~HasHeader
  BY <1>2 DEF NextsAt, LensAt, StatusesAt, DataId, Addr
<1>3. QED
  BY <1>1, <1>2

LEMMA BaseInit == Init => BaseInv
<1> SUFFICES ASSUME Init PROVE BaseInv
    OBVIOUS
<1> USE GeometryAssumption, InputAssumption DEF Init
<1>1. TypeOK
  <2>1. mem \in [Ring -> Frame \cup {NoFrame}]
    OBVIOUS
  <2>2. accepted \in Seq(Frame) /\ got \in Seq([id : Nat, len : Nat, buf : BufLens])
    OBVIOUS
  <2>3. /\ status \in BOOLEAN /\ rxen \in BOOLEAN /\ txerif \in BOOLEAN
        /\ miibusy \in BOOLEAN /\ escaped \in BOOLEAN
    BY Zenon
  <2>4. QED
    BY <2>1, <2>2, <2>3 DEF TypeOK, InitPcs, Ring, Addr
<1>2. BlankInv
  BY DEF BlankInv, InitPcs
<1>3. CountInv
  BY DEF CountInv, RecvPcs
<1>4. QED
  BY <1>1, <1>2, <1>3 DEF BaseInv

LEMMA BaseStep == BaseInv /\ [Next]_vars => BaseInv'
<1> SUFFICES ASSUME BaseInv, [Next]_vars PROVE BaseInv'
    OBVIOUS
<1> USE GeometryAssumption, InputAssumption DEF BaseInv
<1> DEFINE Pcs == InitPcs \cup SendPcs \cup RecvPcs \cup {"idle"}
<1>1. CASE InitReset
  <2> USE <1>1 DEF InitReset, rxVars, txVars, rxHistory
  <2>1. TypeOK'
    <3>1. mem' \in [Ring -> Frame \cup {NoFrame}]
      OBVIOUS
    <3>2. accepted' \in Seq(Frame) /\ got' \in Seq([id : Nat, len : Nat, buf : BufLens])
      OBVIOUS
    <3>3. /\ rxen' \in BOOLEAN /\ txerif' \in BOOLEAN /\ miibusy' \in BOOLEAN
         /\ escaped' \in BOOLEAN
      BY Zenon
    <3>4. QED
      BY <3>1, <3>2, <3>3 DEF TypeOK, InitPcs, SendPcs, RecvPcs
  <2>2. BlankInv'
    BY DEF TypeOK, BlankInv, InitPcs, SendPcs, RecvPcs
  <2>3. CountInv'
    BY DEF TypeOK, BlankInv, CountInv, InitPcs, SendPcs, RecvPcs
  <2>4. QED
    BY <2>1, <2>2, <2>3
<1>2. CASE InitRegs
  <2> USE <1>2 DEF InitRegs, rxVars, txVars, rxHistory, Ring, Addr, RXSTART
  <2>1. TypeOK'
    BY DEF TypeOK, InitPcs, SendPcs, RecvPcs
  <2>2. BlankInv'
    BY DEF TypeOK, BlankInv, InitPcs, SendPcs, RecvPcs
  <2>3. CountInv'
    BY DEF TypeOK, BlankInv, CountInv, InitPcs, SendPcs, RecvPcs
  <2>4. QED
    BY <2>1, <2>2, <2>3
<1>3. CASE PhyWrite
  <2> USE <1>3 DEF PhyWrite, rxVars, txVars, rxHistory
  <2>1. TypeOK'
    BY DEF TypeOK, InitPcs, SendPcs, RecvPcs
  <2>2. BlankInv'
    BY DEF TypeOK, BlankInv, InitPcs, SendPcs, RecvPcs
  <2>3. CountInv'
    BY DEF TypeOK, BlankInv, CountInv, InitPcs, SendPcs, RecvPcs
  <2>4. QED
    BY <2>1, <2>2, <2>3
<1>4. CASE PhyWait
  <2> USE <1>4 DEF PhyWait, rxVars, txVars, rxHistory
  <2>1. TypeOK'
    BY DEF TypeOK, InitPcs, SendPcs, RecvPcs
  <2>2. BlankInv'
    BY DEF TypeOK, BlankInv, InitPcs, SendPcs, RecvPcs
  <2>3. CountInv'
    BY DEF TypeOK, BlankInv, CountInv, InitPcs, SendPcs, RecvPcs
  <2>4. QED
    BY <2>1, <2>2, <2>3
<1>5. CASE InitRxEnable
  <2> USE <1>5 DEF InitRxEnable, rxVars, txVars, rxHistory
  <2>1. TypeOK'
    BY DEF TypeOK, InitPcs, SendPcs, RecvPcs
  <2>2. BlankInv'
    BY DEF TypeOK, BlankInv, InitPcs, SendPcs, RecvPcs
  <2>3. CountInv'
    BY DEF TypeOK, BlankInv, CountInv, InitPcs, SendPcs, RecvPcs
  <2>4. QED
    BY <2>1, <2>2, <2>3
<1>6. CASE SendPollRts
  <2> USE <1>6 DEF SendPollRts, rxVars, txVars, rxHistory, SendStep
  <2>1. TypeOK'
    BY DEF TypeOK, InitPcs, SendPcs, RecvPcs
  <2>2. BlankInv'
    BY DEF TypeOK, BlankInv, InitPcs, SendPcs, RecvPcs
  <2>3. CountInv'
    BY DEF TypeOK, BlankInv, CountInv, InitPcs, SendPcs, RecvPcs
  <2>4. QED
    BY <2>1, <2>2, <2>3
<1>7. CASE SendPollErr
  <2> USE <1>7 DEF SendPollErr, rxVars, txVars, rxHistory, SendStep
  <2>1. TypeOK'
    BY DEF TypeOK, InitPcs, SendPcs, RecvPcs
  <2>2. BlankInv'
    BY DEF TypeOK, BlankInv, InitPcs, SendPcs, RecvPcs
  <2>3. CountInv'
    BY DEF TypeOK, BlankInv, CountInv, InitPcs, SendPcs, RecvPcs
  <2>4. QED
    BY <2>1, <2>2, <2>3
<1>8. CASE SendReset
  <2> USE <1>8 DEF SendReset, rxVars, txVars, rxHistory, SendStep
  <2>1. TypeOK'
    BY DEF TypeOK, InitPcs, SendPcs, RecvPcs
  <2>2. BlankInv'
    BY DEF TypeOK, BlankInv, InitPcs, SendPcs, RecvPcs
  <2>3. CountInv'
    BY DEF TypeOK, BlankInv, CountInv, InitPcs, SendPcs, RecvPcs
  <2>4. QED
    BY <2>1, <2>2, <2>3
<1>9. CASE SendUnreset
  <2> USE <1>9 DEF SendUnreset, rxVars, txVars, rxHistory, SendStep
  <2>1. TypeOK'
    BY DEF TypeOK, InitPcs, SendPcs, RecvPcs
  <2>2. BlankInv'
    BY DEF TypeOK, BlankInv, InitPcs, SendPcs, RecvPcs
  <2>3. CountInv'
    BY DEF TypeOK, BlankInv, CountInv, InitPcs, SendPcs, RecvPcs
  <2>4. QED
    BY <2>1, <2>2, <2>3
<1>10. CASE SendFill
  <2> USE <1>10 DEF SendFill, rxVars, txVars, rxHistory, SendStep
  <2>1. TypeOK'
    BY DEF TypeOK, InitPcs, SendPcs, RecvPcs
  <2>2. BlankInv'
    BY DEF TypeOK, BlankInv, InitPcs, SendPcs, RecvPcs
  <2>3. CountInv'
    BY DEF TypeOK, BlankInv, CountInv, InitPcs, SendPcs, RecvPcs
  <2>4. QED
    BY <2>1, <2>2, <2>3
<1>11. CASE SendPointers
  <2> USE <1>11 DEF SendPointers, rxVars, txVars, rxHistory, SendStep
  <2>1. TypeOK'
    BY DEF TypeOK, InitPcs, SendPcs, RecvPcs
  <2>2. BlankInv'
    BY DEF TypeOK, BlankInv, InitPcs, SendPcs, RecvPcs
  <2>3. CountInv'
    BY DEF TypeOK, BlankInv, CountInv, InitPcs, SendPcs, RecvPcs
  <2>4. QED
    BY <2>1, <2>2, <2>3
<1>12. CASE SendRequest
  <2> USE <1>12 DEF SendRequest, rxVars, txVars, rxHistory, SendStep
  <2>1. TypeOK'
    BY DEF TypeOK, InitPcs, SendPcs, RecvPcs
  <2>2. BlankInv'
    BY DEF TypeOK, BlankInv, InitPcs, SendPcs, RecvPcs
  <2>3. CountInv'
    BY DEF TypeOK, BlankInv, CountInv, InitPcs, SendPcs, RecvPcs
  <2>4. QED
    BY <2>1, <2>2, <2>3
<1>13. CASE RecvCount
  <2> USE <1>13 DEF RecvCount, rxVars, txVars, rxHistory, RecvStep
  <2>1. TypeOK'
    BY DEF TypeOK, InitPcs, SendPcs, RecvPcs
  <2>2. BlankInv'
    BY DEF TypeOK, BlankInv, InitPcs, SendPcs, RecvPcs
  <2>3. CountInv'
    BY DEF TypeOK, BlankInv, CountInv, InitPcs, SendPcs, RecvPcs
  <2>4. QED
    BY <2>1, <2>2, <2>3
<1>14. CASE RecvSeek
  <2> USE <1>14 DEF RecvSeek, rxVars, txVars, rxHistory, RecvStep
  <2>1. TypeOK'
    BY DEF TypeOK, InitPcs, SendPcs, RecvPcs
  <2>2. BlankInv'
    BY DEF TypeOK, BlankInv, InitPcs, SendPcs, RecvPcs
  <2>3. CountInv'
    BY DEF TypeOK, BlankInv, CountInv, InitPcs, SendPcs, RecvPcs
  <2>4. QED
    BY <2>1, <2>2, <2>3
<1>15. CASE RecvNext
  <2> USE <1>15 DEF RecvNext, rxVars, txVars, rxHistory, RecvStep
  <2>1. TypeOK'
    <3>1. next_packet_ptr' \in Addr
      BY HeaderTypes DEF TypeOK
    <3>2. QED
      BY <3>1 DEF TypeOK, InitPcs, SendPcs, RecvPcs
  <2>2. BlankInv'
    BY DEF TypeOK, BlankInv, InitPcs, SendPcs, RecvPcs
  <2>3. CountInv'
    BY DEF TypeOK, BlankInv, CountInv, InitPcs, SendPcs, RecvPcs
  <2>4. QED
    BY <2>1, <2>2, <2>3
<1>16. CASE RecvLen
  <2> USE <1>16 DEF RecvLen, rxVars, txVars, rxHistory, RecvStep
  <2>1. TypeOK'
    <3>1. rxlen' \in Nat
      BY HeaderTypes DEF TypeOK
    <3>2. QED
      BY <3>1 DEF TypeOK, InitPcs, SendPcs, RecvPcs
  <2>2. BlankInv'
    BY DEF TypeOK, BlankInv, InitPcs, SendPcs, RecvPcs
  <2>3. CountInv'
    BY DEF TypeOK, BlankInv, CountInv, InitPcs, SendPcs, RecvPcs
  <2>4. QED
    BY <2>1, <2>2, <2>3
<1>17. CASE RecvStatus
  <2> USE <1>17 DEF RecvStatus, rxVars, txVars, rxHistory, RecvStep
  <2>1. TypeOK'
    <3>1. status' \in BOOLEAN
      BY HeaderTypes DEF TypeOK
    <3>2. pc' \in {"r_data", "r_free"}
      OBVIOUS
    <3>3. QED
      BY <3>1, <3>2 DEF TypeOK, InitPcs, SendPcs, RecvPcs
  <2>2. BlankInv'
    BY DEF TypeOK, BlankInv, InitPcs, SendPcs, RecvPcs
  <2>3. CountInv'
    BY DEF TypeOK, BlankInv, CountInv, InitPcs, SendPcs, RecvPcs
  <2>4. QED
    BY <2>1, <2>2, <2>3
<1>18. CASE RecvData
  <2> USE <1>18 DEF RecvData, rxVars, txVars, rxHistory, RecvStep
  <2>1. TypeOK'
    <3>1. DataLen \in Nat
      BY DataLenBound DEF TypeOK
    <3>2. DataId \in Nat
      BY HeaderTypes DEF TypeOK
    <3>3. [id |-> DataId, len |-> DataLen, buf |-> buflen] \in [id : Nat, len : Nat, buf : BufLens]
      BY <3>1, <3>2 DEF TypeOK
    <3>4. got' \in Seq([id : Nat, len : Nat, buf : BufLens])
      BY <3>3 DEF TypeOK
    <3>5. QED
      BY <3>1, <3>2, <3>3, <3>4 DEF TypeOK, InitPcs, SendPcs, RecvPcs
  <2>2. BlankInv'
    BY DEF TypeOK, BlankInv, InitPcs, SendPcs, RecvPcs
  <2>3. CountInv'
    BY DEF TypeOK, BlankInv, CountInv, InitPcs, SendPcs, RecvPcs
  <2>4. QED
    BY <2>1, <2>2, <2>3
<1>19. CASE RecvFree
  <2> USE <1>19 DEF RecvFree, rxVars, txVars, rxHistory, RecvStep
  <2>1. TypeOK'
    <3>1. FreeUpTo \in Addr
      BY FreeUpToValue DEF TypeOK, Addr
    <3>2. escaped' \in BOOLEAN
      BY Zenon DEF TypeOK
    <3>3. QED
      BY <3>1, <3>2 DEF TypeOK, InitPcs, SendPcs, RecvPcs
  <2>2. BlankInv'
    BY DEF TypeOK, BlankInv, InitPcs, SendPcs, RecvPcs
  <2>3. CountInv'
    BY DEF TypeOK, BlankInv, CountInv, InitPcs, SendPcs, RecvPcs
  <2>4. QED
    BY <2>1, <2>2, <2>3
<1>20. CASE RecvDecrement
  <2> USE <1>20 DEF RecvDecrement, rxVars, txVars, rxHistory, RecvStep
  <2>1. TypeOK'
    <3>1. epktcnt' \in 0 .. MaxPktCnt
      BY DEF TypeOK, CountInv, RecvPcs
    <3>2. QED
      BY <3>1 DEF TypeOK, InitPcs, SendPcs, RecvPcs
  <2>2. BlankInv'
    BY DEF TypeOK, BlankInv, InitPcs, SendPcs, RecvPcs
  <2>3. CountInv'
    BY DEF TypeOK, BlankInv, CountInv, InitPcs, SendPcs, RecvPcs
  <2>4. QED
    BY <2>1, <2>2, <2>3
<1>21. ASSUME NEW p \in Packets, SendCall(p) PROVE BaseInv'
  <2> USE <1>21 DEF SendCall, SendStep, rxVars, txVars, rxHistory
  <2>1. TypeOK'
    BY DEF TypeOK, InitPcs, SendPcs, RecvPcs
  <2>2. BlankInv'
    BY DEF TypeOK, BlankInv, InitPcs, SendPcs, RecvPcs
  <2>3. CountInv'
    BY DEF TypeOK, BlankInv, CountInv, InitPcs, SendPcs, RecvPcs
  <2>4. QED
    BY <2>1, <2>2, <2>3
<1>22. ASSUME NEW n \in BufLens, RecvCall(n) PROVE BaseInv'
  <2> USE <1>22 DEF RecvCall, RecvStep, txVars
  <2>1. TypeOK'
    BY DEF TypeOK, InitPcs, SendPcs, RecvPcs
  <2>2. BlankInv'
    BY DEF TypeOK, BlankInv, InitPcs, SendPcs, RecvPcs
  <2>3. CountInv'
    BY DEF TypeOK, BlankInv, CountInv, InitPcs, SendPcs, RecvPcs
  <2>4. QED
    BY <2>1, <2>2, <2>3
<1>23. ASSUME NEW n \in FrameSizes, NEW ok \in BOOLEAN, RxStore(n, ok) PROVE BaseInv'
  <2> USE <1>23 DEF RxStore, driverVars, txVars
  <2> DEFINE f == [id |-> Len(accepted) + 1, start |-> erxwrpt, size |-> n, ok |-> ok]
  <2>1. TypeOK'
    <3>1. f \in Frame
      BY DEF TypeOK, Frame
    <3>2. mem' \in [Ring -> Frame \cup {NoFrame}]
      BY <3>1 DEF TypeOK
    <3>3. accepted' \in Seq(Frame)
      BY <3>1 DEF TypeOK
    <3>4. erxwrpt' \in Ring
      BY StepInRing DEF TypeOK
    <3>5. epktcnt' \in 0 .. MaxPktCnt
      BY DEF TypeOK
    <3>6. QED
      BY <3>2, <3>3, <3>4, <3>5 DEF TypeOK
  <2>2. BlankInv'
    BY DEF TypeOK, BlankInv, InitPcs, SendPcs, RecvPcs
  <2>3. CountInv'
    BY DEF TypeOK, BlankInv, CountInv, InitPcs, SendPcs, RecvPcs
  <2>4. QED
    BY <2>1, <2>2, <2>3
<1>24. ASSUME NEW outcome \in {"done", "abort", "stall"}, TxEnd(outcome) PROVE BaseInv'
  <2> USE <1>24 DEF TxEnd, driverVars, rxVars, rxHistory
  <2>1. TypeOK'
    BY DEF TypeOK, InitPcs, SendPcs, RecvPcs
  <2>2. BlankInv'
    BY DEF TypeOK, BlankInv, InitPcs, SendPcs, RecvPcs
  <2>3. CountInv'
    BY DEF TypeOK, BlankInv, CountInv, InitPcs, SendPcs, RecvPcs
  <2>4. QED
    BY <2>1, <2>2, <2>3
<1>25. CASE MiiDone
  <2> USE <1>25 DEF MiiDone, driverVars, rxVars, txVars, rxHistory
  <2>1. TypeOK'
    <3>1. miibusy' \in BOOLEAN
      BY Zenon
    <3>2. QED
      BY <3>1 DEF TypeOK, InitPcs, SendPcs, RecvPcs
  <2>2. BlankInv'
    BY DEF TypeOK, BlankInv, InitPcs, SendPcs, RecvPcs
  <2>3. CountInv'
    BY DEF TypeOK, BlankInv, CountInv, InitPcs, SendPcs, RecvPcs
  <2>4. QED
    BY <2>1, <2>2, <2>3
<1>26. CASE Restart
  <2> USE <1>26 DEF Restart, rxVars, txVars, rxHistory
  <2>1. TypeOK'
    <3>1. status' \in BOOLEAN
      BY Zenon
    <3>2. next_packet_ptr' \in Addr /\ rxlen' \in Nat /\ phyWrites' \in Nat
      BY DEF Addr
    <3>3. QED
      BY <3>1, <3>2 DEF TypeOK, InitPcs, SendPcs, RecvPcs
  <2>2. BlankInv'
    BY DEF TypeOK, BlankInv, InitPcs, SendPcs, RecvPcs
  <2>3. CountInv'
    BY DEF TypeOK, BlankInv, CountInv, InitPcs, SendPcs, RecvPcs
  <2>4. QED
    BY <2>1, <2>2, <2>3
<1>27. CASE UNCHANGED vars
  <2> USE <1>27 DEF vars, driverVars, rxVars, txVars, rxHistory
  <2>1. TypeOK'
    BY DEF TypeOK, InitPcs, SendPcs, RecvPcs
  <2>2. BlankInv'
    BY DEF TypeOK, BlankInv, InitPcs, SendPcs, RecvPcs
  <2>3. CountInv'
    BY DEF TypeOK, BlankInv, CountInv, InitPcs, SendPcs, RecvPcs
  <2>4. QED
    BY <2>1, <2>2, <2>3
<1>28. QED
    BY <1>1, <1>2, <1>3, <1>4, <1>5, <1>6, <1>7, <1>8, <1>9, <1>10, <1>11, <1>12, <1>13, <1>14, <1>15, <1>16, <1>17, <1>18, <1>19, <1>20, <1>21, <1>22, <1>23, <1>24, <1>25, <1>26, <1>27
    DEF Next, EncInit, EncSend, EncRecv, Call, Chip, TxSome

-----------------------------------------------------------------------------
\* The ring.

\* The variables ChainInv, GuardInv and UnreadNeverOverwritten are about.
ringVars == <<erxwrpt, erxrdpt, mem, accepted, retired>>

\* What is stored is well formed.
LEMMA AcceptedTypes ==
  ASSUME TypeOK
  PROVE  /\ Len(accepted) \in Nat
         /\ \A i \in 1 .. Len(accepted) :
              /\ accepted[i] \in Frame
              /\ accepted[i].start \in Ring /\ accepted[i].ok \in BOOLEAN
              /\ accepted[i].size \in Nat
              /\ accepted[i].size \in HdrLen + CrcLen .. RxSize - 2
              /\ accepted[i].size \in 1 .. RxSize - 1
         /\ \A i \in Nat \ {0} : StartOf(i) \in Ring
<1> USE GeometryAssumption
<1>1. accepted \in Seq(Frame) /\ erxwrpt \in Ring
  BY DEF TypeOK
<1>2. \A i \in 1 .. Len(accepted) : accepted[i] \in Frame
  BY <1>1
<1>3. \A i \in 1 .. Len(accepted) :
        /\ accepted[i].start \in Ring /\ accepted[i].ok \in BOOLEAN
        /\ accepted[i].size \in HdrLen + CrcLen .. RxSize - 2
  BY <1>2 DEF Frame
<1>4. \A i \in 1 .. Len(accepted) :
        accepted[i].size \in Nat /\ accepted[i].size \in 1 .. RxSize - 1
  BY <1>3
<1>5. \A i \in Nat \ {0} : StartOf(i) \in Ring
  BY <1>1, <1>3 DEF StartOf
<1>6. QED
  BY <1>1, <1>2, <1>3, <1>4, <1>5

\* The bytes of a frame lie between the distances of its two ends.
LEMMA CellDist ==
  ASSUME NEW f \in Frame, NEW b \in Ring, Dist(f.start, b) + f.size < RxSize,
         NEW a \in Cells(f)
  PROVE  /\ a \in Ring
         /\ Dist(f.start, b) <= Dist(a, b) /\ Dist(a, b) < Dist(f.start, b) + f.size
<1> USE GeometryAssumption
<1>1. f.start \in Ring /\ f.size \in Nat /\ f.size \in 1 .. RxSize - 1
  <2>1. f.start \in Ring /\ f.size \in HdrLen + CrcLen .. RxSize - 2
    BY DEF Frame
  <2>2. QED
    BY <2>1
<1>2. PICK k \in 0 .. f.size - 1 : a = Step(f.start, k)
  BY DEF Cells
<1>3. k \in Nat /\ k \in 0 .. RxSize /\ k < f.size
  BY <1>1, <1>2
<1>4. Dist(f.start, b) \in Nat
  BY <1>1, DistRange
<1>5. Dist(a, b) = Dist(f.start, b) + k
  BY <1>1, <1>2, <1>3, <1>4, DistStep
<1>6. a \in Ring
  BY <1>1, <1>2, <1>3, StepInRing
<1>7. QED
  BY <1>1, <1>3, <1>4, <1>5, <1>6

\* A frame that fits ends before the receiver would come round to the guard.
LEMMA FitsBound ==
  ASSUME TypeOK, CountInv, GuardInv, NEW n \in FrameSizes, Fits(n)
  PROVE  /\ Dist(erxwrpt, OldestUnread) + n <= RxSize - 1
         /\ OldestUnread # 0 => Dist(erxwrpt, OldestUnread) + n <= RxSize - 2
<1> USE GeometryAssumption
<1> DEFINE H == OldestUnread
           w == Dist(erxwrpt, H)
<1>1. H \in Ring /\ erxwrpt \in Ring
  <2>1. retired + 1 \in Nat \ {0} /\ erxwrpt \in Ring
    BY DEF TypeOK
  <2>2. QED
    BY <2>1, AcceptedTypes DEF OldestUnread
<1>2. w \in 0 .. RxSize - 1
  BY <1>1, DistRange
<1>3. n \in Nat
  OBVIOUS
<1> HIDE DEF H
<1>4. CASE H = 0
  <2>1. erxrdpt = 0 /\ w = erxwrpt
    BY <1>1, <1>4 DEF GuardInv, H, Dist, Ring
  <2>2. SUFFICES ASSUME w + n > RxSize - 1 PROVE FALSE
    BY <1>2, <1>3, <1>4 DEF H
  <2>3. RxSize - w \in 1 .. n
    BY <1>2, <1>3, <2>2
  <2>4. Step(erxwrpt, RxSize - w) = 0
    BY <1>1, <1>2, <2>1 DEF Step, Ring
  <2>5. QED
    BY <2>1, <2>3, <2>4 DEF Fits
<1>5. CASE H # 0
  <2>1. erxrdpt = H - 1 /\ w <= RxSize - 2
    BY <1>5 DEF GuardInv, H
  <2>2. SUFFICES ASSUME w + n > RxSize - 2 PROVE FALSE
    BY <1>2, <1>3 DEF H
  <2>3. RxSize - 1 - w \in 1 .. n
    BY <1>2, <1>3, <2>1, <2>2
  <2>4. Step(erxwrpt, RxSize - 1 - w) = H - 1
    BY <1>1, <1>2, <1>5 DEF Step, Dist, Ring
  <2>5. QED
    BY <2>1, <2>3, <2>4 DEF Fits
<1>6. QED
  BY <1>4, <1>5

\* A step that leaves the receiver alone keeps the order of the ring.
LEMMA RingUnchanged ==
  ASSUME UNCHANGED ringVars
  PROVE  /\ ChainInv => ChainInv'
         /\ GuardInv => GuardInv'
         /\ UnreadNeverOverwritten => UnreadNeverOverwritten'
         /\ OldestUnread' = OldestUnread
         /\ StartOf(retired + 2)' = StartOf(retired + 2)
<1> USE DEF ringVars
<1>1. \A k : StartOf(k)' = StartOf(k)
  BY DEF StartOf
<1>2. OldestUnread' = OldestUnread /\ StartOf(retired + 2)' = StartOf(retired + 2)
  BY DEF OldestUnread, StartOf
<1>3. ChainInv => ChainInv'
  BY <1>1 DEF ChainInv
<1>4. GuardInv => GuardInv'
  BY <1>2 DEF GuardInv
<1>5. UnreadNeverOverwritten => UnreadNeverOverwritten'
  BY DEF UnreadNeverOverwritten, Intact
<1>6. QED
  BY <1>2, <1>3, <1>4, <1>5

\* Storing a frame keeps the order of the ring and overwrites nothing unread.
LEMMA StoreKeepsRing ==
  ASSUME BaseInv, ChainInv, NEW n \in FrameSizes, NEW ok \in BOOLEAN, RxStore(n, ok)
  PROVE  /\ ChainInv'
         /\ OldestUnread' = OldestUnread
         /\ retired < Len(accepted) => StartOf(retired + 2)' = StartOf(retired + 2)
         /\ GuardInv /\ UnreadNeverOverwritten =>
              GuardInv' /\ UnreadNeverOverwritten'
<1> USE GeometryAssumption
<1> DEFINE f == [id |-> Len(accepted) + 1, start |-> erxwrpt, size |-> n, ok |-> ok]
           L == Len(accepted)
<1>1. /\ L \in Nat /\ retired \in Nat /\ retired <= L /\ erxwrpt \in Ring
      /\ accepted \in Seq(Frame) /\ mem \in [Ring -> Frame \cup {NoFrame}]
      /\ n \in Nat /\ n \in 1 .. RxSize - 1
  BY AcceptedTypes DEF BaseInv, TypeOK, CountInv
<1>2. f \in Frame
  BY <1>1 DEF Frame
<1>3. /\ accepted' = Append(accepted, f) /\ retired' = retired
      /\ erxwrpt' = Step(erxwrpt, n) /\ erxrdpt' = erxrdpt
      /\ mem' = [a \in Ring |-> IF a \in Cells(f) THEN f ELSE mem[a]]
  BY DEF RxStore
<1> HIDE DEF f
<1>4. /\ Len(accepted') = L + 1 /\ accepted'[L + 1] = f
      /\ \A i \in 1 .. L : accepted'[i] = accepted[i]
  BY <1>1, <1>2, <1>3
<1>5. \A i \in 1 .. L + 1 : StartOf(i)' = StartOf(i)
  <2>1. f.start = erxwrpt
    BY DEF f
  <2>2. QED
    BY <1>1, <1>4, <2>1 DEF StartOf
<1>6. StartOf(L + 2)' = Step(f.start, f.size)
  BY <1>1, <1>3, <1>4 DEF StartOf, f
<1>7. ChainInv'
  <2> SUFFICES ASSUME NEW i \in 1 .. L + 1
               PROVE  /\ accepted'[i].id = i
                      /\ StartOf(i + 1)' = Step(accepted'[i].start, accepted'[i].size)
    BY <1>4 DEF ChainInv
  <2>1. CASE i \in 1 .. L
    <3>1. /\ accepted[i].id = i
          /\ StartOf(i + 1) = Step(accepted[i].start, accepted[i].size)
      BY <2>1 DEF ChainInv
    <3>2. i + 1 \in 1 .. L + 1
      BY <1>1, <2>1
    <3>3. QED
      BY <1>4, <1>5, <2>1, <3>1, <3>2
  <2>2. CASE i = L + 1
    <3>1. accepted'[i] = f /\ f.id = i
      BY <1>4, <2>2 DEF f
    <3>2. i + 1 = L + 2
      BY <1>1, <2>2
    <3>3. StartOf(i + 1)' = StartOf(L + 2)'
      BY <1>4, <1>6, <3>2 DEF StartOf
    <3>4. QED
      BY <1>6, <3>1, <3>3
  <2>3. QED
    BY <1>1, <2>1, <2>2
<1>8. OldestUnread' = OldestUnread
  <2>1. retired + 1 \in 1 .. L + 1
    BY <1>1
  <2>2. QED
    BY <1>3, <1>5, <2>1 DEF OldestUnread
<1>9. ASSUME retired < L PROVE StartOf(retired + 2)' = StartOf(retired + 2)
  <2>1. retired + 2 \in 1 .. L + 1
    BY <1>1, <1>9
  <2>2. QED
    BY <1>3, <1>5, <2>1
<1>10. ASSUME GuardInv, UnreadNeverOverwritten
       PROVE  GuardInv' /\ UnreadNeverOverwritten'
  <2> DEFINE H == OldestUnread
             w == Dist(erxwrpt, H)
  <2>1. H \in Ring /\ w \in 0 .. RxSize - 1
    <3>1. retired + 1 \in Nat \ {0}
      BY <1>1
    <3>2. H \in Ring
      BY <3>1, AcceptedTypes DEF OldestUnread, BaseInv
    <3>3. QED
      BY <1>1, <3>2, DistRange
  <2>2. w + n <= RxSize - 1 /\ (H # 0 => w + n <= RxSize - 2)
    BY <1>10, FitsBound DEF RxStore, BaseInv
  <2>3. Dist(erxwrpt', H) = w + n
    BY <1>1, <1>3, <2>1, <2>2, DistStep
  <2>4. \A i \in retired + 1 .. L :
          /\ accepted[i] \in Frame /\ accepted[i].start \in Ring
          /\ accepted[i].size \in Nat
          /\ Dist(accepted[i].start, H) \in Nat
          /\ Dist(accepted[i].start, H) + accepted[i].size <= w
          /\ \A j \in i + 1 .. L :
               Dist(accepted[i].start, H) + accepted[i].size <= Dist(accepted[j].start, H)
    <3> SUFFICES ASSUME NEW i \in retired + 1 .. L
                 PROVE  /\ accepted[i] \in Frame /\ accepted[i].start \in Ring
                        /\ accepted[i].size \in Nat
                        /\ Dist(accepted[i].start, H) \in Nat
                        /\ Dist(accepted[i].start, H) + accepted[i].size <= w
                        /\ \A j \in i + 1 .. L :
                             Dist(accepted[i].start, H) + accepted[i].size
                               <= Dist(accepted[j].start, H)
      OBVIOUS
    <3>1. i \in 1 .. L
      BY <1>1
    <3>2. /\ accepted[i] \in Frame /\ accepted[i].start \in Ring
          /\ accepted[i].size \in Nat
      BY <3>1, AcceptedTypes DEF BaseInv
    <3>3. Dist(accepted[i].start, H) \in Nat
      BY <2>1, <3>2, DistRange
    <3>4. QED
      BY <1>10, <3>2, <3>3 DEF GuardInv
  <2>5. f.start = erxwrpt /\ f.size = n
    BY DEF f
  <2> HIDE DEF H, w
  <2>6. GuardInv'
    <3>1. OldestUnread' = H
      BY <1>8 DEF H
    <3>2. ASSUME NEW i \in retired + 1 .. L + 1
          PROVE  /\ Dist(accepted'[i].start, H) + accepted'[i].size <= Dist(erxwrpt', H)
                 /\ \A j \in i + 1 .. L + 1 :
                      Dist(accepted'[i].start, H) + accepted'[i].size
                        <= Dist(accepted'[j].start, H)
      <4>1. CASE i = L + 1
        <5>1. \A j \in i + 1 .. L + 1 : FALSE
          BY <1>1, <4>1
        <5>2. Dist(accepted'[i].start, H) + accepted'[i].size = w + n
          BY <1>4, <2>5, <4>1 DEF w
        <5>3. QED
          BY <1>1, <2>1, <2>3, <5>1, <5>2
      <4>2. CASE i # L + 1
        <5>1. i \in retired + 1 .. L /\ i \in 1 .. L
          BY <1>1, <4>2
        <5>2. accepted'[i] = accepted[i]
          BY <1>4, <5>1
        <5>3. Dist(accepted'[i].start, H) + accepted'[i].size <= w + n
          BY <1>1, <2>1, <2>4, <5>1, <5>2
        <5>4. ASSUME NEW j \in i + 1 .. L + 1
              PROVE  Dist(accepted'[i].start, H) + accepted'[i].size
                       <= Dist(accepted'[j].start, H)
          <6>1. CASE j = L + 1
            BY <1>4, <2>4, <2>5, <5>1, <5>2, <6>1 DEF w
          <6>2. CASE j # L + 1
            <7>1. j \in i + 1 .. L /\ j \in 1 .. L
              BY <1>1, <5>1, <6>2
            <7>2. QED
              BY <1>4, <2>4, <5>1, <5>2, <7>1
          <6>3. QED
            BY <6>1, <6>2
        <5>5. QED
          BY <2>3, <5>3, <5>4
      <4>3. QED
        BY <4>1, <4>2
    <3>3. IF H = 0 THEN erxrdpt' = 0
          ELSE erxrdpt' = H - 1 /\ Dist(erxwrpt', H) <= RxSize - 2
      BY <1>3, <1>10, <2>2, <2>3 DEF GuardInv, H
    <3>4. QED
      BY <1>3, <1>4, <3>1, <3>2, <3>3 DEF GuardInv
  <2>7. ASSUME NEW i \in retired + 1 .. L + 1, NEW a \in Cells(accepted'[i])
        PROVE  mem'[a] = accepted'[i]
    <3>1. CASE i = L + 1
      <4>1. a \in Cells(f)
        BY <1>4, <2>7, <3>1
      <4>2. Dist(f.start, H) + f.size < RxSize
        BY <1>1, <2>1, <2>2, <2>5 DEF w
      <4>3. a \in Ring
        BY <1>2, <2>1, <4>1, <4>2, CellDist
      <4>4. QED
        BY <1>3, <1>4, <3>1, <4>1, <4>3
    <3>2. CASE i # L + 1
      <4>1. i \in retired + 1 .. L /\ i \in 1 .. L
        BY <1>1, <3>2
      <4>2. accepted'[i] = accepted[i]
        BY <1>4, <4>1
      <4>3. Dist(accepted[i].start, H) + accepted[i].size < RxSize
        BY <1>1, <2>1, <2>4, <4>1
      <4>4. a \in Ring /\ Dist(a, H) < w
        <5>1. a \in Ring /\ Dist(a, H) < Dist(accepted[i].start, H) + accepted[i].size
          BY <2>1, <2>4, <2>7, <4>1, <4>2, <4>3, CellDist
        <5>2. Dist(a, H) \in Nat
          BY <2>1, <5>1, DistRange
        <5>3. QED
          BY <2>1, <2>4, <4>1, <5>1, <5>2
      <4>5. a \notin Cells(f)
        <5>1. SUFFICES ASSUME a \in Cells(f) PROVE FALSE
          OBVIOUS
        <5>2. Dist(f.start, H) = w /\ w + f.size < RxSize
          BY <1>1, <2>1, <2>2, <2>5 DEF w
        <5>3. w <= Dist(a, H)
          BY <1>2, <2>1, <5>1, <5>2, CellDist
        <5>4. Dist(a, H) \in Nat
          BY <2>1, <4>4, DistRange
        <5>5. QED
          BY <2>1, <4>4, <5>3, <5>4
      <4>6. mem[a] = accepted[i]
        BY <1>10, <2>7, <4>1, <4>2 DEF UnreadNeverOverwritten, Intact
      <4>7. QED
        BY <1>3, <4>2, <4>4, <4>5, <4>6
    <3>3. QED
      BY <3>1, <3>2
  <2>8. UnreadNeverOverwritten'
    BY <1>3, <1>4, <2>7 DEF UnreadNeverOverwritten, Intact, Cells
  <2>9. QED
    BY <2>6, <2>8
<1>11. QED
  BY <1>7, <1>8, <1>9, <1>10

\* Giving back the oldest frame moves the guard up to the next one.
LEMMA ReleaseKeepsRing ==
  ASSUME BaseInv, ChainInv, GuardInv, UnreadNeverOverwritten, RecvFree, ~escaped',
         next_packet_ptr = StartOf(retired + 2)
  PROVE  /\ GuardInv' /\ UnreadNeverOverwritten'
         /\ OldestUnread' = next_packet_ptr
<1> USE GeometryAssumption
<1> DEFINE L == Len(accepted)
           H == OldestUnread
           G == StartOf(retired + 2)
           size == accepted[retired + 1].size
           w == Dist(erxwrpt, H)
<1>1. /\ L \in Nat /\ retired \in Nat /\ retired < L /\ erxwrpt \in Ring
  BY AcceptedTypes DEF BaseInv, TypeOK, CountInv, RecvFree, RecvStep, RecvPcs
<1>2. retired + 1 \in 1 .. L /\ retired + 1 \in Nat \ {0} /\ retired + 2 \in Nat \ {0}
  BY <1>1
<1>3. H = accepted[retired + 1].start /\ H \in Ring /\ G \in Ring
  BY <1>1, <1>2, AcceptedTypes DEF OldestUnread, StartOf, BaseInv
<1>4. size \in 1 .. RxSize - 1 /\ G = Step(H, size)
  <2>1. StartOf(retired + 1 + 1) = Step(H, size)
    BY <1>2, <1>3 DEF ChainInv
  <2>2. retired + 1 + 1 = retired + 2
    BY <1>1
  <2>3. QED
    BY <1>2, <2>1, <2>2, AcceptedTypes DEF BaseInv
<1>5. /\ retired' = retired + 1 /\ erxrdpt' = FreeUpTo
      /\ UNCHANGED <<accepted, erxwrpt, mem>>
      /\ FreeUpTo \in Ring
  BY DEF RecvFree, RecvStep
<1>6. G # 0 /\ erxrdpt' = G - 1
  <2>1. G \in Addr
    BY <1>3 DEF Ring, Addr
  <2>2. FreeUpTo = IF G = 0 THEN BufSize - 1 ELSE G - 1
    BY <2>1, FreeUpToValue
  <2>3. QED
    BY <1>5, <2>2 DEF Ring
<1>7. OldestUnread' = G
  <2>1. OldestUnread' = StartOf(retired + 1 + 1)
    BY <1>5 DEF OldestUnread, StartOf
  <2>2. QED
    BY <1>1, <2>1
<1>8. Dist(H, H) = 0 /\ w \in 0 .. RxSize - 1
  BY <1>1, <1>3, DistRange DEF Dist, Ring
<1>9. /\ size <= w
      /\ \A j \in retired + 2 .. L : size <= Dist(accepted[j].start, H)
  <2>1. retired + 1 \in retired + 1 .. L
    BY <1>1
  <2>2. retired + 1 + 1 = retired + 2
    BY <1>1
  <2>3. /\ Dist(H, H) + size <= w
        /\ \A j \in retired + 1 + 1 .. L :
             Dist(H, H) + size <= Dist(accepted[j].start, H)
    BY <1>3, <2>1 DEF GuardInv
  <2>4. QED
    BY <1>4, <1>8, <2>2, <2>3
<1>10. Dist(erxwrpt, G) = w - size
  BY <1>1, <1>3, <1>4, <1>9, DistMove
<1>11. ASSUME NEW j \in retired + 2 .. L
       PROVE  /\ Dist(accepted[j].start, G) = Dist(accepted[j].start, H) - size
              /\ Dist(accepted[j].start, H) \in Nat
              /\ accepted[j].size \in Nat /\ j \in retired + 1 .. L
  <2>1. j \in 1 .. L /\ j \in retired + 1 .. L
    BY <1>1
  <2>2. accepted[j].start \in Ring /\ accepted[j].size \in Nat
    BY <2>1, AcceptedTypes DEF BaseInv
  <2>3. size \in 0 .. RxSize - 1
    BY <1>4
  <2>4. Dist(accepted[j].start, G) = Dist(accepted[j].start, H) - size
    BY <1>3, <1>4, <1>9, <2>2, <2>3, DistMove
  <2>5. QED
    BY <1>3, <2>1, <2>2, <2>4, DistRange
<1> HIDE DEF H, G, w, size
<1>12. GuardInv'
  <2>1. ASSUME NEW i \in retired + 2 .. L
        PROVE  /\ Dist(accepted[i].start, G) + accepted[i].size <= Dist(erxwrpt, G)
               /\ \A j \in i + 1 .. L :
                    Dist(accepted[i].start, G) + accepted[i].size
                      <= Dist(accepted[j].start, G)
    <3>1. /\ Dist(accepted[i].start, H) + accepted[i].size <= w
          /\ \A j \in i + 1 .. L :
               Dist(accepted[i].start, H) + accepted[i].size
                 <= Dist(accepted[j].start, H)
      BY <1>11 DEF GuardInv, H, w
    <3>2. Dist(accepted[i].start, G) + accepted[i].size <= Dist(erxwrpt, G)
      BY <1>4, <1>8, <1>10, <1>11, <3>1
    <3>3. ASSUME NEW j \in i + 1 .. L
          PROVE  Dist(accepted[i].start, G) + accepted[i].size
                   <= Dist(accepted[j].start, G)
      <4>1. j \in retired + 2 .. L
        BY <1>1
      <4>2. Dist(accepted[i].start, H) + accepted[i].size <= Dist(accepted[j].start, H)
        BY <3>1
      <4>3. /\ Dist(accepted[i].start, G) = Dist(accepted[i].start, H) - size
            /\ Dist(accepted[j].start, G) = Dist(accepted[j].start, H) - size
            /\ Dist(accepted[i].start, H) \in Nat /\ Dist(accepted[j].start, H) \in Nat
            /\ accepted[i].size \in Nat /\ size \in Nat
        BY <1>4, <1>11, <4>1
      <4>4. QED
        BY <4>2, <4>3
    <3>4. QED
      BY <3>2, <3>3
  <2>2. Dist(erxwrpt, G) <= RxSize - 2
    BY <1>4, <1>8, <1>10
  <2>3. retired' + 1 = retired + 2
    BY <1>1, <1>5
  <2>4. QED
    BY <1>5, <1>6, <1>7, <2>1, <2>2, <2>3 DEF GuardInv, Dist
<1>13. UnreadNeverOverwritten'
  <2>1. \A i \in retired' + 1 .. Len(accepted') : i \in retired + 1 .. L
    BY <1>1, <1>5
  <2>2. QED
    BY <1>5, <2>1 DEF UnreadNeverOverwritten, Intact, Cells
<1>14. QED
  BY <1>7, <1>12, <1>13 DEF G

\* While enc_recv reads, the memory at ERDPT holds the oldest unread frame.
LEMMA HeaderRead ==
  ASSUME BaseInv, UnreadNeverOverwritten, retired < Len(accepted), erdpt = OldestUnread
  PROVE  /\ HasHeader
         /\ mem[erdpt] = accepted[retired + 1]
         /\ Intact(mem[erdpt])
<1> USE GeometryAssumption
<1> DEFINE f == accepted[retired + 1]
<1>1. retired + 1 \in 1 .. Len(accepted) /\ retired + 1 \in retired + 1 .. Len(accepted)
      /\ retired + 1 <= Len(accepted)
  BY AcceptedTypes DEF BaseInv, TypeOK
<1>2. f.start \in Ring /\ f.size \in 1 .. RxSize - 1
  BY <1>1, AcceptedTypes DEF BaseInv
<1>3. erdpt = f.start
  BY <1>1 DEF OldestUnread, StartOf
<1>4. Intact(f)
  BY <1>1 DEF UnreadNeverOverwritten
<1> HIDE DEF f
<1>5. f.start \in Cells(f)
  <2>1. 0 \in 0 .. f.size - 1 /\ Step(f.start, 0) = f.start
    BY <1>2 DEF Step, Ring
  <2>2. QED
    BY <2>1 DEF Cells
<1>6. mem[erdpt] = f
  BY <1>3, <1>4, <1>5 DEF Intact
<1>7. QED
  BY <1>2, <1>3, <1>4, <1>6 DEF HasHeader, f

-----------------------------------------------------------------------------
\* Every step keeps the ring in order.

LEMMA RingInit == Init => RingInv
BY DEF Init, RingInv

LEMMA RingStep == BaseInv /\ RingInv /\ [Next]_vars => RingInv'
<1> SUFFICES ASSUME BaseInv, RingInv, [Next]_vars PROVE RingInv'
  OBVIOUS
<1> USE GeometryAssumption
<1>1. CASE InitReset
  BY <1>1 DEF InitReset, RingInv
<1>2. CASE InitRegs
  <2>1. accepted' = <<>> /\ retired' = 0 /\ erxwrpt' = 0 /\ erxrdpt' = 0
        /\ next_packet_ptr' = 0 /\ pc' = "i_phy"
    BY <1>2 DEF InitRegs, BaseInv, BlankInv, InitPcs, rxHistory, RXSTART
  <2>2. Len(accepted') = 0 /\ OldestUnread' = 0
    BY <2>1 DEF OldestUnread, StartOf
  <2>3. ChainInv'
    BY <2>2 DEF ChainInv
  <2>4. GuardInv'
    BY <2>1, <2>2 DEF GuardInv, Dist
  <2>5. UnreadNeverOverwritten'
    BY <2>1, <2>2 DEF UnreadNeverOverwritten
  <2>6. CursorInv'
    BY <2>1, <2>2 DEF CursorInv
  <2>7. QED
    BY <2>3, <2>4, <2>5, <2>6 DEF RingInv
<1>3. ASSUME UNCHANGED <<ringVars, escaped, next_packet_ptr, erdpt>>,
             rxen \/ pc \notin {"off", "i_regs"},
             pc' \notin {"off", "i_regs", "r_len", "r_status", "r_data", "r_free"} =>
               pc \notin {"off", "i_regs", "r_len", "r_status", "r_data", "r_free"},
             pc' \in {"r_len", "r_status", "r_data", "r_free"} =>
               pc \in {"r_len", "r_status", "r_data", "r_free"},
             pc' \in {"r_next", "r_len", "r_status", "r_data"} =>
               pc \in {"r_next", "r_len", "r_status", "r_data"},
             pc' = "r_data" => pc = "r_data"
      PROVE  RingInv'
  <2>1. ChainInv'
    BY <1>3, RingUnchanged DEF RingInv
  <2>2. ASSUME ~escaped PROVE GuardInv' /\ UnreadNeverOverwritten'
    BY <1>3, <2>2, RingUnchanged DEF RingInv
  <2>3. ASSUME ~escaped PROVE CursorInv'
    <3>1. CursorInv
      BY <1>3, <2>3 DEF RingInv
    <3>2. OldestUnread' = OldestUnread /\ StartOf(retired + 2)' = StartOf(retired + 2)
      BY <1>3, RingUnchanged
    <3>3. accepted' = accepted /\ retired' = retired
      BY <1>3 DEF ringVars
    <3>4. QED
      BY <1>3, <3>1, <3>2, <3>3 DEF CursorInv
  <2>4. QED
    BY <1>3, <2>1, <2>2, <2>3 DEF RingInv
<1>4. CASE PhyWrite \/ PhyWait \/ InitRxEnable
  BY <1>3, <1>4
     DEF PhyWrite, PhyWait, InitRxEnable, ringVars, rxVars, rxHistory
<1>5. CASE EncSend \/ \E p \in Packets : SendCall(p)
  <2>1. PICK from, to \in SendPcs \cup {"idle"} : SendStep(from, to)
    BY <1>5 DEF EncSend, SendPollRts, SendPollErr, SendReset, SendUnreset, SendFill,
                SendPointers, SendRequest, SendCall, SendPcs
  <2>2. QED
    BY <1>3, <2>1 DEF SendStep, SendPcs, ringVars, rxVars, rxHistory
<1>6. ASSUME NEW n \in BufLens, RecvCall(n) PROVE RingInv'
  BY <1>3, <1>6 DEF RecvCall, RecvStep, ringVars
<1>7. CASE RecvCount
  BY <1>3, <1>7 DEF RecvCount, RecvStep, ringVars
<1>8. CASE RecvLen
  BY <1>3, <1>8 DEF RecvLen, RecvStep, ringVars
<1>9. CASE RecvData
  BY <1>3, <1>9 DEF RecvData, RecvStep, ringVars
<1>10. CASE RecvDecrement
  BY <1>3, <1>10 DEF RecvDecrement, RecvStep, ringVars
<1>11. CASE RecvSeek
  <2>1. UNCHANGED ringVars /\ escaped' = escaped /\ next_packet_ptr' = next_packet_ptr
        /\ erdpt' = next_packet_ptr /\ pc = "r_erdpt" /\ pc' = "r_next"
    BY <1>11 DEF RecvSeek, RecvStep, ringVars
  <2>2. ChainInv' /\ (~escaped => GuardInv' /\ UnreadNeverOverwritten')
    BY <2>1, RingUnchanged DEF RingInv
  <2>3. ASSUME ~escaped PROVE CursorInv'
    <3>1. next_packet_ptr = OldestUnread
      BY <2>1, <2>3 DEF RingInv, CursorInv
    <3>2. QED
      BY <2>1, <3>1, RingUnchanged DEF CursorInv
  <2>4. QED
    BY <2>1, <2>2, <2>3 DEF RingInv
<1>12. CASE RecvNext
  <2>1. UNCHANGED ringVars /\ escaped' = escaped /\ erdpt' = erdpt
        /\ pc = "r_next" /\ pc' = "r_len"
    BY <1>12 DEF RecvNext, RecvStep, ringVars
  <2>2. ChainInv /\ ChainInv' /\ (~escaped => GuardInv' /\ UnreadNeverOverwritten')
    BY <2>1, RingUnchanged DEF RingInv
  <2>3. ASSUME ~escaped PROVE CursorInv'
    <3>1. erdpt = OldestUnread /\ retired < Len(accepted)
      BY <2>1, <2>3 DEF RingInv, CursorInv, BaseInv, CountInv, RecvPcs
    <3>2. HasHeader /\ mem[erdpt] = accepted[retired + 1]
      BY <2>1, <2>3, <3>1, HeaderRead DEF RingInv
    <3>3. next_packet_ptr' = Step(erdpt, accepted[retired + 1].size)
      BY <1>12, <3>2 DEF RecvNext, NextsAt
    <3>4. /\ retired + 1 \in 1 .. Len(accepted) /\ retired + 1 <= Len(accepted)
          /\ retired + 1 + 1 = retired + 2
      BY <3>1, AcceptedTypes DEF BaseInv, TypeOK
    <3>5. erdpt = accepted[retired + 1].start
      BY <3>1, <3>4 DEF OldestUnread, StartOf
    <3>6. next_packet_ptr' = StartOf(retired + 2)
      BY <2>2, <3>3, <3>4, <3>5 DEF ChainInv
    <3>7. QED
      BY <2>1, <3>1, <3>6, RingUnchanged DEF CursorInv
  <2>4. QED
    BY <2>1, <2>2, <2>3 DEF RingInv
<1>13. CASE RecvStatus
  <2>1. /\ UNCHANGED ringVars /\ escaped' = escaped /\ erdpt' = erdpt
        /\ next_packet_ptr' = next_packet_ptr
        /\ pc = "r_status" /\ status' \in StatusesAt
        /\ pc' = IF status' THEN "r_data" ELSE "r_free"
    BY <1>13 DEF RecvStatus, RecvStep, ringVars
  <2>2. ChainInv' /\ (~escaped => GuardInv' /\ UnreadNeverOverwritten')
    BY <2>1, RingUnchanged DEF RingInv
  <2>3. ASSUME ~escaped PROVE CursorInv'
    <3>1. /\ erdpt = OldestUnread /\ retired < Len(accepted)
          /\ next_packet_ptr = StartOf(retired + 2)
      BY <2>1, <2>3 DEF RingInv, CursorInv, BaseInv, CountInv, RecvPcs
    <3>2. HasHeader /\ mem[erdpt] = accepted[retired + 1]
      BY <2>1, <2>3, <3>1, HeaderRead DEF RingInv
    <3>3. pc' = "r_data" => accepted[retired + 1].ok
      BY <2>1, <3>2 DEF StatusesAt
    <3>4. accepted' = accepted /\ retired' = retired /\ pc' \in {"r_data", "r_free"}
      BY <2>1 DEF ringVars
    <3>5. QED
      BY <2>1, <3>1, <3>3, <3>4, RingUnchanged DEF CursorInv
  <2>4. QED
    BY <2>1, <2>2, <2>3 DEF RingInv
<1>14. CASE RecvFree
  <2>1. /\ UNCHANGED <<erxwrpt, mem, accepted>> /\ pc = "r_free" /\ pc' = "r_dec"
        /\ next_packet_ptr' = next_packet_ptr /\ (~escaped' => ~escaped)
    BY <1>14 DEF RecvFree, RecvStep
  <2>2. ChainInv'
    BY <2>1 DEF RingInv, ChainInv, StartOf
  <2>3. ASSUME ~escaped' PROVE GuardInv' /\ UnreadNeverOverwritten' /\ CursorInv'
    <3>1. /\ ChainInv /\ GuardInv /\ UnreadNeverOverwritten
          /\ next_packet_ptr = StartOf(retired + 2)
      BY <2>1, <2>3 DEF RingInv, CursorInv
    <3>2. /\ GuardInv' /\ UnreadNeverOverwritten'
          /\ OldestUnread' = next_packet_ptr
      BY <1>14, <2>3, <3>1, ReleaseKeepsRing
    <3>3. QED
      BY <2>1, <3>2 DEF CursorInv
  <2>4. QED
    BY <2>2, <2>3 DEF RingInv
<1>15. ASSUME NEW n \in FrameSizes, NEW ok \in BOOLEAN, RxStore(n, ok) PROVE RingInv'
  <2>1. /\ rxen /\ escaped' = escaped /\ retired' = retired
        /\ UNCHANGED <<pc, next_packet_ptr, erdpt>>
    BY <1>15 DEF RxStore, driverVars
  <2>2. ChainInv
    BY <2>1 DEF RingInv
  <2>3. ChainInv'
    BY <1>15, <2>2, StoreKeepsRing
  <2>4. ASSUME ~escaped PROVE GuardInv' /\ UnreadNeverOverwritten' /\ CursorInv'
    <3>1. GuardInv /\ UnreadNeverOverwritten /\ CursorInv
      BY <2>1, <2>4 DEF RingInv
    <3>2. /\ GuardInv' /\ UnreadNeverOverwritten' /\ OldestUnread' = OldestUnread
          /\ retired < Len(accepted) => StartOf(retired + 2)' = StartOf(retired + 2)
      BY <1>15, <2>2, <3>1, StoreKeepsRing
    <3>3. pc \in {"r_len", "r_status", "r_data", "r_free"} => retired < Len(accepted)
      BY DEF BaseInv, CountInv, RecvPcs
    <3>4. pc = "r_data" => accepted'[retired + 1] = accepted[retired + 1]
      <4>1. SUFFICES ASSUME pc = "r_data"
                     PROVE  accepted'[retired + 1] = accepted[retired + 1]
        OBVIOUS
      <4>2. retired + 1 \in 1 .. Len(accepted) /\ accepted \in Seq(Frame)
        BY <3>3, <4>1, AcceptedTypes DEF BaseInv, TypeOK
      <4>3. QED
        BY <1>15, <4>2 DEF RxStore
    <3>5. QED
      BY <2>1, <3>1, <3>2, <3>3, <3>4 DEF CursorInv
  <2>5. QED
    BY <2>1, <2>3, <2>4 DEF RingInv
<1>16. CASE TxSome \/ MiiDone \/ UNCHANGED vars
  <2>1. UNCHANGED <<ringVars, escaped, next_packet_ptr, erdpt, pc, rxen>>
    BY <1>16 DEF TxSome, TxEnd, MiiDone, vars, driverVars, rxVars, rxHistory, ringVars
  <2>2. CASE rxen \/ pc \notin {"off", "i_regs"}
    <3>1. CASE pc # "off"
      BY <1>3, <2>1, <2>2, <3>1
    <3>2. CASE pc = "off"
      <4>1. ChainInv' /\ (~escaped => GuardInv' /\ UnreadNeverOverwritten')
        BY <2>1, <2>2, RingUnchanged DEF RingInv
      <4>2. CursorInv'
        BY <2>1, <3>2 DEF CursorInv
      <4>3. QED
        BY <2>1, <4>1, <4>2 DEF RingInv
    <3>3. QED
      BY <3>1, <3>2
  <2>3. CASE ~(rxen \/ pc \notin {"off", "i_regs"})
    BY <2>1, <2>3 DEF RingInv
  <2>4. QED
    BY <2>2, <2>3
<1>17. CASE Restart
  <2>1. UNCHANGED <<ringVars, escaped, rxen>> /\ pc' = "off"
    BY <1>17 DEF Restart, rxVars, rxHistory, ringVars
  <2>2. ASSUME rxen PROVE ChainInv' /\ (~escaped => GuardInv' /\ UnreadNeverOverwritten')
    BY <2>1, <2>2, RingUnchanged DEF RingInv
  <2>3. CursorInv'
    BY <2>1 DEF CursorInv
  <2>4. QED
    BY <2>1, <2>2, <2>3 DEF RingInv
<1>18. QED
  BY <1>1, <1>2, <1>4, <1>5, <1>6, <1>7, <1>8, <1>9, <1>10, <1>11, <1>12, <1>13,
     <1>14, <1>15, <1>16, <1>17
     DEF Next, EncInit, EncSend, EncRecv, Call, Chip

-----------------------------------------------------------------------------
\* What enc_recv has delivered.

DeliveryInv ==
  /\ DeliveredInOrder
  /\ NoBufferOverrun

LEMMA DeliveryInit == Init => DeliveryInv
BY DEF Init, DeliveryInv, DeliveredInOrder, NoBufferOverrun

LEMMA DeliveryStep ==
  BaseInv /\ RingInv /\ RingInv' /\ DeliveryInv /\ [Next]_vars => DeliveryInv'
<1> SUFFICES ASSUME BaseInv, RingInv, RingInv', DeliveryInv, [Next]_vars
             PROVE  DeliveryInv'
  OBVIOUS
<1> DEFINE K == Len(got)
<1>0. /\ K \in Nat /\ got \in Seq([id : Nat, len : Nat, buf : BufLens])
      /\ Len(accepted) \in Nat /\ retired \in Nat /\ accepted \in Seq(Frame)
      /\ rxlen \in Nat /\ buflen \in Nat /\ buflen \in BufLens
  BY InputAssumption, AcceptedTypes DEF BaseInv, TypeOK
<1>1. CASE RecvData
  <2> DEFINE r == [id |-> DataId, len |-> DataLen, buf |-> buflen]
  <2>1. /\ pc = "r_data" /\ pc' = "r_free" /\ got' = Append(got, r)
        /\ UNCHANGED <<accepted, retired, escaped>>
    BY <1>1 DEF RecvData, RecvStep
  <2>2. DataLen \in Nat /\ DataLen <= buflen /\ DataId \in Nat
    BY <1>0, DataLenBound, HeaderTypes DEF BaseInv
  <2>3. r \in [id : Nat, len : Nat, buf : BufLens]
    BY <1>0, <2>2
  <2>4. Len(got') = K + 1 /\ got'[K + 1] = r /\ \A i \in 1 .. K : got'[i] = got[i]
    BY <1>0, <2>1, <2>3
  <2>5. NoBufferOverrun'
    <3> SUFFICES ASSUME NEW i \in 1 .. K + 1 PROVE got'[i].len <= got'[i].buf
      BY <2>4 DEF NoBufferOverrun
    <3>1. CASE i = K + 1
      BY <2>2, <2>4, <3>1
    <3>2. CASE i # K + 1
      <4>1. i \in 1 .. K
        BY <1>0, <3>2
      <4>2. QED
        BY <2>4, <4>1 DEF DeliveryInv, NoBufferOverrun
    <3>3. QED
      BY <3>1, <3>2
  <2>6. ASSUME ~escaped PROVE DeliveredInOrder'
    <3>1. /\ ChainInv /\ UnreadNeverOverwritten /\ erdpt = OldestUnread
          /\ accepted[retired + 1].ok /\ retired < Len(accepted)
      <4>1. rxen \/ pc \notin {"off", "i_regs"}
        BY <2>1
      <4>2. QED
        BY <2>1, <2>6, <4>1 DEF RingInv, CursorInv, BaseInv, CountInv, RecvPcs
    <3>2. DataId = retired + 1
      <4>1. HasHeader /\ mem[erdpt] = accepted[retired + 1] /\ Intact(mem[erdpt])
        BY <3>1, HeaderRead
      <4>2. retired + 1 \in 1 .. Len(accepted)
        BY <1>0, <3>1
      <4>3. QED
        BY <3>1, <4>1, <4>2 DEF DataId, ChainInv
    <3>3. /\ {got[i].id : i \in 1 .. K} = {i \in 1 .. retired : accepted[i].ok}
          /\ \A i, j \in 1 .. K : i < j => got[i].id < got[j].id
      BY <2>1, <2>6 DEF DeliveryInv, DeliveredInOrder
    <3>4. {got'[i].id : i \in 1 .. K + 1} = {i \in 1 .. retired + 1 : accepted[i].ok}
      <4>1. {got'[i].id : i \in 1 .. K + 1} = {got[i].id : i \in 1 .. K} \cup {retired + 1}
        <5>1. 1 .. K + 1 = (1 .. K) \cup {K + 1}
          BY <1>0
        <5>2. QED
          BY <2>4, <3>2, <5>1
      <4>2. 1 .. retired + 1 = (1 .. retired) \cup {retired + 1}
        BY <1>0
      <4>3. QED
        BY <3>1, <3>3, <4>1, <4>2
    <3>5. ASSUME NEW i \in 1 .. K + 1, NEW j \in 1 .. K + 1, i < j
          PROVE  got'[i].id < got'[j].id
      <4>1. i \in 1 .. K /\ got'[i] = got[i]
        BY <1>0, <2>4, <3>5
      <4>2. got[i].id \in 1 .. retired
        BY <3>3, <4>1
      <4>3. CASE j = K + 1
        BY <1>0, <2>4, <3>2, <4>1, <4>2, <4>3
      <4>4. CASE j # K + 1
        <5>1. j \in 1 .. K
          BY <1>0, <4>4
        <5>2. QED
          BY <2>4, <3>3, <3>5, <4>1, <5>1
      <4>5. QED
        BY <4>3, <4>4
    <3>6. QED
      BY <2>1, <2>4, <3>4, <3>5 DEF DeliveredInOrder
  <2>7. ASSUME escaped PROVE DeliveredInOrder'
    BY <2>1, <2>7 DEF DeliveredInOrder
  <2>8. QED
    BY <2>5, <2>6, <2>7 DEF DeliveryInv
<1>2. CASE RecvStatus
  <2>1. /\ pc = "r_status" /\ pc' = IF status' THEN "r_data" ELSE "r_free"
        /\ status' \in StatusesAt
        /\ UNCHANGED <<got, accepted, retired, escaped>>
    BY <1>2 DEF RecvStatus, RecvStep
  <2>2. ASSUME ~escaped, ~status' PROVE DeliveredInOrder'
    <3>1. UnreadNeverOverwritten /\ erdpt = OldestUnread /\ retired < Len(accepted)
      <4>1. rxen \/ pc \notin {"off", "i_regs"}
        BY <2>1
      <4>2. QED
        BY <2>1, <2>2, <4>1 DEF RingInv, CursorInv, BaseInv, CountInv, RecvPcs
    <3>2. ~accepted[retired + 1].ok
      <4>1. HasHeader /\ mem[erdpt] = accepted[retired + 1]
        BY <3>1, HeaderRead
      <4>2. status' = accepted[retired + 1].ok
        BY <2>1, <4>1 DEF StatusesAt
      <4>3. QED
        BY <2>2, <4>2
    <3>3. /\ {got[i].id : i \in 1 .. K} = {i \in 1 .. retired : accepted[i].ok}
          /\ \A i, j \in 1 .. K : i < j => got[i].id < got[j].id
      BY <2>1, <2>2 DEF DeliveryInv, DeliveredInOrder
    <3>4. 1 .. retired + 1 = (1 .. retired) \cup {retired + 1}
      BY <1>0
    <3>5. {i \in 1 .. retired + 1 : accepted[i].ok} = {i \in 1 .. retired : accepted[i].ok}
      BY <3>2, <3>4
    <3>6. pc' = "r_free"
      BY <2>1, <2>2
    <3>7. QED
      BY <2>1, <3>3, <3>5, <3>6 DEF DeliveredInOrder
  <2>3. ASSUME status' PROVE DeliveredInOrder'
    BY <2>1, <2>3 DEF DeliveryInv, DeliveredInOrder
  <2>4. ASSUME escaped PROVE DeliveredInOrder'
    BY <2>1, <2>4 DEF DeliveredInOrder
  <2>5. QED
    BY <2>1, <2>2, <2>3, <2>4 DEF DeliveryInv, NoBufferOverrun
<1>3. CASE RecvFree
  BY <1>3 DEF RecvFree, RecvStep, DeliveryInv, DeliveredInOrder, NoBufferOverrun
<1>4. CASE InitReset
  <2>1. accepted' = <<>> /\ retired' = 0 /\ got' = <<>> /\ pc' = "i_regs"
    BY <1>4 DEF InitReset
  <2>2. Len(got') = 0 /\ 1 .. 0 = {}
    BY <2>1
  <2>3. DeliveredInOrder'
    BY <2>1, <2>2 DEF DeliveredInOrder
  <2>4. QED
    BY <2>2, <2>3 DEF DeliveryInv, NoBufferOverrun
<1>5. ASSUME NEW n \in FrameSizes, NEW ok \in BOOLEAN, RxStore(n, ok)
      PROVE  DeliveryInv'
  <2> DEFINE read == IF pc = "r_free" THEN retired + 1 ELSE retired
             f == [id |-> Len(accepted) + 1, start |-> erxwrpt, size |-> n, ok |-> ok]
  <2>1. /\ UNCHANGED <<pc, retired, got, escaped>> /\ accepted' = Append(accepted, f)
    BY <1>5 DEF RxStore, driverVars
  <2>2. read \in Nat /\ read <= Len(accepted)
    BY <1>0 DEF BaseInv, CountInv, RecvPcs
  <2>3. f \in Frame
    BY <1>0, GeometryAssumption DEF BaseInv, TypeOK, Frame
  <2>4. \A i \in 1 .. Len(accepted) : accepted'[i] = accepted[i]
    BY <1>0, <2>1, <2>3
  <2>5. \A i \in 1 .. read : accepted'[i] = accepted[i]
    BY <1>0, <2>2, <2>4
  <2>6. {i \in 1 .. read : accepted'[i].ok} = {i \in 1 .. read : accepted[i].ok}
    BY <2>5
  <2>7. DeliveredInOrder'
    <3>1. SUFFICES ASSUME pc # "off", ~escaped
                   PROVE  /\ {got[i].id : i \in 1 .. K} = {i \in 1 .. read : accepted'[i].ok}
                          /\ \A i, j \in 1 .. K : i < j => got[i].id < got[j].id
      BY <2>1 DEF DeliveredInOrder
    <3>2. QED
      BY <2>6, <3>1 DEF DeliveryInv, DeliveredInOrder
  <2>8. NoBufferOverrun'
    BY <2>1 DEF DeliveryInv, NoBufferOverrun
  <2>9. QED
    BY <2>7, <2>8 DEF DeliveryInv
<1>6. ASSUME UNCHANGED <<accepted, retired, got, escaped>>,
             pc' # "off" => (pc' = "r_free" <=> pc = "r_free") /\ pc # "off"
      PROVE  DeliveryInv'
  BY <1>6 DEF DeliveryInv, DeliveredInOrder, NoBufferOverrun
<1>7. CASE InitRegs \/ PhyWrite \/ PhyWait \/ InitRxEnable
  BY <1>6, <1>7 DEF InitRegs, PhyWrite, PhyWait, InitRxEnable, rxHistory
<1>8. CASE EncSend \/ \E p \in Packets : SendCall(p)
  <2>1. PICK from, to \in SendPcs \cup {"idle"} : SendStep(from, to)
    BY <1>8 DEF EncSend, SendPollRts, SendPollErr, SendReset, SendUnreset, SendFill,
                SendPointers, SendRequest, SendCall, SendPcs
  <2>2. QED
    BY <1>6, <2>1 DEF SendStep, SendPcs, rxHistory
<1>9. ASSUME NEW n \in BufLens, RecvCall(n) PROVE DeliveryInv'
  BY <1>6, <1>9 DEF RecvCall, RecvStep
<1>10. CASE RecvCount \/ RecvSeek \/ RecvNext \/ RecvLen \/ RecvDecrement
  BY <1>6, <1>10 DEF RecvCount, RecvSeek, RecvNext, RecvLen, RecvDecrement, RecvStep
<1>11. CASE TxSome \/ MiiDone \/ UNCHANGED vars
  BY <1>6, <1>11 DEF TxSome, TxEnd, MiiDone, vars, driverVars, rxHistory
<1>12. CASE Restart
  BY <1>6, <1>12 DEF Restart, rxHistory
<1>13. QED
  BY <1>1, <1>2, <1>3, <1>4, <1>5, <1>7, <1>8, <1>9, <1>10, <1>11, <1>12
     DEF Next, EncInit, EncSend, EncRecv, Call, Chip

-----------------------------------------------------------------------------
\* The theorems about the receiver.

EncInv == BaseInv /\ RingInv /\ DeliveryInv

LEMMA EncInvariant == Spec => []EncInv
<1>1. Init => EncInv
  BY BaseInit, RingInit, DeliveryInit DEF EncInv
<1>2. EncInv /\ [Next]_vars => EncInv'
  BY BaseStep, RingStep, DeliveryStep DEF EncInv
<1>3. QED
  BY <1>1, <1>2, PTL DEF Spec

\* Every variable of the driver and of the chip keeps its type.  EPKTCNT is
\* never decremented below 0, and every pointer read from the ring is an
\* address of the chip's memory.
THEOREM TypeCorrect == Spec => []TypeOK
<1>1. EncInv => TypeOK
  BY DEF EncInv, BaseInv
<1>2. QED
  BY <1>1, EncInvariant, PTL

\* While every ERXRDPT written lay in the ring, no unread frame has been
\* overwritten, whatever the sizes of the frames and the speed of the reader.
THEOREM UnreadSafe == Spec => []UnreadIntact
<1>1. EncInv => UnreadIntact
  <2> SUFFICES ASSUME EncInv, ~escaped PROVE UnreadNeverOverwritten
    BY DEF UnreadIntact
  <2>1. CASE rxen
    BY <2>1 DEF EncInv, RingInv
  <2>2. CASE ~rxen
    BY <2>2 DEF EncInv, BaseInv, BlankInv, UnreadNeverOverwritten
  <2>3. QED
    BY <2>1, <2>2
<1>2. QED
  BY <1>1, EncInvariant, PTL

\* Between calls the driver and the chip agree on where the next frame is and
\* on how many there are.
THEOREM InSync == Spec => []ReceiverInSync
<1>1. EncInv => ReceiverInSync
  <2> SUFFICES ASSUME EncInv, pc = "idle"
               PROVE  /\ epktcnt = Len(accepted) - retired
                      /\ ~escaped => next_packet_ptr = OldestUnread
    BY DEF ReceiverInSync
  <2>1. epktcnt = Len(accepted) - retired
    BY AcceptedTypes DEF EncInv, BaseInv, TypeOK, CountInv
  <2>2. ~escaped => next_packet_ptr = OldestUnread
    BY DEF EncInv, RingInv, CursorInv
  <2>3. QED
    BY <2>1, <2>2
<1>2. QED
  BY <1>1, EncInvariant, PTL

\* enc_recv delivers exactly the frames received without error, in order.
THEOREM InOrder == Spec => []DeliveredInOrder
<1>1. EncInv => DeliveredInOrder
  BY DEF EncInv, DeliveryInv
<1>2. QED
  BY <1>1, EncInvariant, PTL

\* enc_recv stays within its caller's buffer, even when the length it reads is
\* junk: this needs no assumption that ERXRDPT stayed in the ring.
THEOREM WithinBuffer == Spec => []NoBufferOverrun
<1>1. EncInv => NoBufferOverrun
  BY DEF EncInv, DeliveryInv
<1>2. QED
  BY <1>1, EncInvariant, PTL

\* With nothing unread a frame of any size fits.
THEOREM RoomWhenRead == Spec => []NeverWedged
<1>1. EncInv => NeverWedged
  <2> SUFFICES ASSUME EncInv, rxen, ~escaped, retired = Len(accepted),
                      NEW n \in FrameSizes, NEW k \in 1 .. n
               PROVE  Step(erxwrpt, k) # erxrdpt
    BY DEF NeverWedged, Fits
  <2> USE GeometryAssumption
  <2>1. OldestUnread = erxwrpt
    BY AcceptedTypes DEF EncInv, BaseInv, TypeOK, OldestUnread, StartOf
  <2>2. erxwrpt \in Ring /\ n \in HdrLen + CrcLen .. RxSize - 2
    BY DEF EncInv, BaseInv, TypeOK
  <2>3. k \in Nat /\ k <= RxSize - 2
    BY <2>2
  <2>4. IF erxwrpt = 0 THEN erxrdpt = 0 ELSE erxrdpt = erxwrpt - 1
    BY <2>1 DEF EncInv, RingInv, GuardInv
  <2>5. QED
    BY <2>2, <2>3, <2>4 DEF Step, Ring
<1>2. QED
  BY <1>1, EncInvariant, PTL

-----------------------------------------------------------------------------
\* The transmitter.

LEMMA TxInvariant == Spec => []TxInv
<1>1. Init => TxInv
  BY DEF Init, TxInv
<1>2. TxInv /\ [Next]_vars => TxInv'
  <2> SUFFICES ASSUME TxInv, [Next]_vars PROVE TxInv'
    OBVIOUS
  <2> USE DEF TxInv
  <2>1. CASE EncInit
    BY <2>1 DEF EncInit, InitReset, InitRegs, PhyWrite, PhyWait, InitRxEnable, txVars
  <2>2. CASE EncRecv \/ \E n \in BufLens : RecvCall(n)
    BY <2>2 DEF EncRecv, RecvCount, RecvSeek, RecvNext, RecvLen, RecvStatus, RecvData,
                RecvFree, RecvDecrement, RecvCall, RecvStep, txVars
  <2>3. ASSUME NEW p \in Packets, SendCall(p) PROVE TxInv'
    BY <2>3 DEF SendCall, SendStep, txVars
  <2>4. CASE SendPollRts
    BY <2>4 DEF SendPollRts, SendStep, txVars
  <2>5. CASE SendPollErr
    BY <2>5 DEF SendPollErr, SendStep, txVars
  <2>6. CASE SendReset
    BY <2>6 DEF SendReset, SendStep, txVars
  <2>7. CASE SendUnreset
    BY <2>7 DEF SendUnreset, SendStep, txVars
  <2>8. CASE SendFill
    BY <2>8 DEF SendFill, SendStep, txVars
  <2>9. CASE SendPointers
    BY <2>9 DEF SendPointers, SendStep, txVars
  <2>10. CASE SendRequest
    BY <2>10 DEF SendRequest, SendStep, txVars
  <2>11. ASSUME NEW outcome \in {"done", "abort", "stall"}, TxEnd(outcome) PROVE TxInv'
    BY <2>11 DEF TxEnd, driverVars
  <2>12. ASSUME NEW n \in FrameSizes, NEW ok \in BOOLEAN, RxStore(n, ok) PROVE TxInv'
    BY <2>12 DEF RxStore, driverVars, txVars
  <2>13. CASE MiiDone
    BY <2>13 DEF MiiDone, driverVars, txVars
  <2>14. CASE Restart
    BY <2>14 DEF Restart, txVars
  <2>15. CASE UNCHANGED vars
    BY <2>15 DEF vars, driverVars, txVars
  <2>16. QED
    BY <2>1, <2>2, <2>3, <2>4, <2>5, <2>6, <2>7, <2>8, <2>9, <2>10, <2>11, <2>12,
       <2>13, <2>14, <2>15
       DEF Next, EncSend, Call, Chip, TxSome
<1>3. QED
  BY <1>1, <1>2, PTL DEF Spec

\* What the chip transmits is one whole packet.
THEOREM WholePacket == Spec => []TxWholePacket
<1>1. TxInv => TxWholePacket
  BY DEF TxInv, TxWholePacket
<1>2. QED
  BY <1>1, TxInvariant, PTL

\* enc_send leaves the transmit memory alone while the chip reads it.
THEOREM BufferStable == Spec => TxBufferStable
<1>1. TxInv /\ [Next]_vars => [tx # "none" => UNCHANGED <<txbuf, etxnd>>]_vars
  <2> SUFFICES ASSUME TxInv, Next, tx # "none" PROVE UNCHANGED <<txbuf, etxnd>>
    OBVIOUS
  <2>1. CASE EncInit
    BY <2>1 DEF EncInit, InitReset, InitRegs, PhyWrite, PhyWait, InitRxEnable, txVars
  <2>2. CASE EncSend
    BY <2>2 DEF EncSend, SendPollRts, SendPollErr, SendReset, SendUnreset, SendFill,
                SendPointers, SendRequest, SendStep, TxInv, txVars
  <2>3. CASE EncRecv
    BY <2>3 DEF EncRecv, RecvCount, RecvSeek, RecvNext, RecvLen, RecvStatus, RecvData,
                RecvFree, RecvDecrement, RecvStep, txVars
  <2>4. CASE Call
    BY <2>4 DEF Call, SendCall, RecvCall, SendStep, RecvStep, txVars
  <2>5. CASE Chip
    BY <2>5 DEF Chip, TxSome, TxEnd, RxStore, MiiDone, txVars
  <2>6. CASE Restart
    BY <2>6 DEF Restart, txVars
  <2>7. QED
    BY <2>1, <2>2, <2>3, <2>4, <2>5, <2>6 DEF Next
<1>2. QED
  BY <1>1, TxInvariant, PTL DEF Spec, TxBufferStable
=============================================================================
