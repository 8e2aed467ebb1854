------------------------- MODULE Enc28j60Refinement -------------------------
(***************************************************************************)
(* Enc28j60 implements FrameQueue, for every ring, frame size and buffer.  *)
(***************************************************************************)
EXTENDS Enc28j60Proofs, SequenceTheorems

QFrame == [id : Nat, size : FrameSizes, ok : BOOLEAN]

-----------------------------------------------------------------------------
\* The frames from the r+1st on, as a sequence.

LEMMA UnreadFromSeq ==
  ASSUME accepted \in Seq(Frame), NEW r \in 0 .. Len(accepted)
  PROVE  /\ UnreadFrom(r) \in Seq(QFrame)
         /\ Len(UnreadFrom(r)) = Len(accepted) - r
         /\ \A i \in 1 .. Len(accepted) - r : UnreadFrom(r)[i] = Plain(accepted[r + i])
<1> DEFINE n == Len(accepted) - r
<1>1. n \in Nat /\ \A i \in 1 .. n : r + i \in 1 .. Len(accepted)
  BY LenProperties
<1>2. \A i \in 1 .. n : Plain(accepted[r + i]) \in QFrame
  <2>1. TAKE i \in 1 .. n
  <2>2. accepted[r + i] \in Frame
    BY <1>1, ElementOfSeq
  <2>3. QED
    BY <2>2 DEF Frame, Plain, QFrame
<1>3. UnreadFrom(r) \in [1 .. n -> QFrame]
  BY <1>2 DEF UnreadFrom
<1>4. UnreadFrom(r) \in Seq(QFrame)
  BY <1>1, <1>3, SeqDef
<1>5. DOMAIN UnreadFrom(r) = 1 .. n /\ DOMAIN UnreadFrom(r) = 1 .. Len(UnreadFrom(r))
  BY <1>3, <1>4, LenProperties
<1>6. Len(UnreadFrom(r)) = n
  BY <1>1, <1>4, <1>5, LenProperties
<1>7. QED
  BY <1>4, <1>6 DEF UnreadFrom

\* Reading one frame takes the first of them.
LEMMA UnreadFromTail ==
  ASSUME accepted \in Seq(Frame), NEW r \in Nat, r < Len(accepted)
  PROVE  /\ UnreadFrom(r) # <<>>
         /\ Head(UnreadFrom(r)) = Plain(accepted[r + 1])
         /\ Tail(UnreadFrom(r)) = UnreadFrom(r + 1)
<1>1. /\ r \in 0 .. Len(accepted) /\ r + 1 \in 0 .. Len(accepted)
      /\ 1 \in 1 .. Len(accepted) - r
  BY LenProperties
<1> DEFINE u == UnreadFrom(r)
           v == UnreadFrom(r + 1)
<1>2. /\ u \in Seq(QFrame) /\ Len(u) = Len(accepted) - r
      /\ \A i \in 1 .. Len(accepted) - r : u[i] = Plain(accepted[r + i])
  BY <1>1, UnreadFromSeq
<1>3. /\ v \in Seq(QFrame) /\ Len(v) = Len(accepted) - (r + 1)
      /\ \A i \in 1 .. Len(accepted) - (r + 1) : v[i] = Plain(accepted[(r + 1) + i])
  BY <1>1, UnreadFromSeq
<1>4. u # <<>>
  BY <1>1, <1>2, EmptySeq
<1>5. Head(u) = u[1]
  BY <1>2, <1>4
<1>6. /\ Tail(u) \in Seq(QFrame) /\ Len(Tail(u)) = Len(u) - 1
      /\ \A i \in 1 .. Len(Tail(u)) : Tail(u)[i] = u[i + 1]
  BY <1>2, <1>4, HeadTailProperties
<1> HIDE DEF u, v
<1>7. Len(accepted) \in Nat
  BY LenProperties
<1>8. ASSUME NEW i \in 1 .. Len(v) PROVE Tail(u)[i] = v[i]
  <2>1. i + 1 \in 1 .. Len(accepted) - r /\ i \in 1 .. Len(Tail(u))
    BY <1>2, <1>3, <1>6, <1>7
  <2>2. r + (i + 1) = (r + 1) + i
    BY <2>1
  <2>3. QED
    BY <1>2, <1>3, <1>6, <2>1, <2>2
<1>9. Tail(u) = v
  BY <1>2, <1>3, <1>6, <1>7, <1>8, SeqEqual
<1>10. QED
  BY <1>1, <1>2, <1>4, <1>5, <1>9 DEF u, v

\* A frame that is stored goes to the end of them.
LEMMA UnreadFromAppend ==
  ASSUME accepted \in Seq(Frame), NEW f \in Frame, accepted' = Append(accepted, f),
         NEW r \in 0 .. Len(accepted), r' = r
  PROVE  UnreadFrom(r)' = Append(UnreadFrom(r), Plain(f))
<1> DEFINE n == Len(accepted) - r
           u == UnreadFrom(r)
           v == UnreadFrom(r)'
<1>1. /\ u \in Seq(QFrame) /\ Len(u) = n
      /\ \A i \in 1 .. n : u[i] = Plain(accepted[r + i])
  BY UnreadFromSeq
<1>2. /\ accepted' \in Seq(Frame) /\ Len(accepted') = Len(accepted) + 1
      /\ accepted'[Len(accepted) + 1] = f
      /\ \A i \in 1 .. Len(accepted) : accepted'[i] = accepted[i]
  BY AppendProperties
<1>3. n \in Nat /\ Len(accepted) \in Nat
  BY LenProperties
<1>4. Plain(f) \in QFrame
  BY DEF Plain, Frame, QFrame
<1>5. /\ Append(u, Plain(f)) \in Seq(QFrame) /\ Len(Append(u, Plain(f))) = n + 1
      /\ Append(u, Plain(f))[n + 1] = Plain(f)
      /\ \A i \in 1 .. n : Append(u, Plain(f))[i] = u[i]
  BY <1>1, <1>4, AppendProperties
<1>6. v = [i \in 1 .. n + 1 |-> Plain(accepted'[r + i])]
  <2>1. Len(accepted') - r' = n + 1
    BY <1>2, <1>3
  <2>2. QED
    BY <2>1 DEF UnreadFrom, Plain
<1>7. ASSUME NEW i \in 1 .. n + 1 PROVE v[i] = Append(u, Plain(f))[i]
  <2>1. CASE i = n + 1
    <3>1. r + i = Len(accepted) + 1
      BY <1>3, <2>1
    <3>2. QED
      BY <1>2, <1>5, <1>6, <2>1, <3>1
  <2>2. CASE i # n + 1
    <3>1. i \in 1 .. n /\ r + i \in 1 .. Len(accepted)
      BY <1>3, <2>2
    <3>2. QED
      BY <1>1, <1>2, <1>5, <1>6, <3>1
  <2>3. QED
    BY <2>1, <2>2
<1> HIDE DEF u, v
<1>8. v \in Seq(QFrame) /\ Len(v) = n + 1
  <2>1. \A i \in 1 .. n + 1 : Append(u, Plain(f))[i] \in QFrame
    BY <1>5, ElementOfSeq
  <2>2. v \in [1 .. n + 1 -> QFrame]
    BY <1>6, <1>7, <2>1
  <2>3. v \in Seq(QFrame) /\ n + 1 \in Nat
    BY <1>3, <2>2, SeqDef
  <2>4. DOMAIN v = 1 .. n + 1 /\ DOMAIN v = 1 .. Len(v) /\ Len(v) \in Nat
    BY <2>2, <2>3, LenProperties
  <2>5. QED
    BY <1>3, <2>3, <2>4
<1>9. v = Append(u, Plain(f))
  BY <1>5, <1>7, <1>8, SeqEqual
<1>10. QED
  BY <1>9 DEF u, v

-----------------------------------------------------------------------------
\* Once enc_recv has read the length it is that of the oldest unread frame.

LenInv ==
  ~escaped /\ pc \in {"r_status", "r_data"} =>
    rxlen = accepted[retired + 1].size - HdrLen

LEMMA LenStep ==
  ASSUME EncInv, LenInv, [Next]_vars
  PROVE  LenInv'
<1> SUFFICES ASSUME ~escaped', pc' \in {"r_status", "r_data"}
             PROVE  (rxlen = accepted[retired + 1].size - HdrLen)'
  BY DEF LenInv
<1>1. CASE RecvLen
  <2>1. ~escaped /\ pc = "r_len" /\ UNCHANGED <<accepted, retired>>
    BY <1>1 DEF RecvLen, RecvStep
  <2>2. /\ BaseInv /\ UnreadNeverOverwritten /\ retired < Len(accepted)
        /\ erdpt = OldestUnread
    BY <2>1 DEF EncInv, BaseInv, RingInv, BlankInv, InitPcs, CountInv, RecvPcs, CursorInv
  <2>3. LensAt = {accepted[retired + 1].size - HdrLen}
    BY <2>2, HeaderRead DEF LensAt
  <2>4. QED
    BY <1>1, <2>1, <2>3 DEF RecvLen
<1>2. CASE RecvStatus
  BY <1>2 DEF RecvStatus, RecvStep, LenInv
<1>3. ASSUME NEW n \in FrameSizes, NEW ok \in BOOLEAN, RxStore(n, ok)
      PROVE  (rxlen = accepted[retired + 1].size - HdrLen)'
  <2> DEFINE f == [id |-> Len(accepted) + 1, start |-> erxwrpt, size |-> n, ok |-> ok]
  <2>1. /\ accepted' = Append(accepted, f) /\ UNCHANGED <<pc, rxlen, retired, escaped>>
    BY <1>3 DEF RxStore, driverVars
  <2>2. /\ accepted \in Seq(Frame) /\ retired \in Nat /\ erxwrpt \in Ring
        /\ retired < Len(accepted)
    BY <2>1 DEF EncInv, BaseInv, TypeOK, CountInv, RecvPcs
  <2>3. f \in Frame
    BY <2>2, LenProperties DEF Frame
  <2> HIDE DEF f
  <2>4. accepted'[retired + 1] = accepted[retired + 1]
    BY <2>1, <2>2, <2>3, AppendProperties, LenProperties
  <2>5. QED
    BY <2>1, <2>4 DEF LenInv
<1>4. CASE UNCHANGED vars
  BY <1>4 DEF vars, driverVars, rxHistory, LenInv
<1>5. CASE TxSome \/ MiiDone
  BY <1>5 DEF TxSome, TxEnd, MiiDone, driverVars, rxHistory, LenInv
<1>6. QED
  BY <1>1, <1>2, <1>3, <1>4, <1>5
     DEF Next, EncInit, InitReset, InitRegs, PhyWrite, PhyWait, InitRxEnable,
         EncSend, SendPollRts, SendPollErr, SendReset, SendUnreset, SendFill,
         SendPointers, SendRequest, SendStep, EncRecv, RecvCount, RecvSeek, RecvNext,
         RecvData, RecvFree, RecvDecrement, RecvStep, Call, SendCall, RecvCall, Chip,
         Restart

-----------------------------------------------------------------------------
\* Each step is a step of the queue or leaves it as it was.

QueueStep == [Queue!Next]_(Queue!vars)

LEMMA NoQueueStep ==
  ASSUME UNCHANGED <<accepted, got, escaped>>, Read' = Read,
         (pc \in InitPcs) <=> (pc' \in InitPcs)
  PROVE  QueueStep
<1>1. UNCHANGED <<Mode, Arrived, Got>> /\ Up' = Up
  BY DEF Mode, Arrived, Got, Up
<1>2. UNCHANGED Unread
  BY <1>1 DEF Unread, UnreadFrom, Plain
<1>3. QED
  BY <1>1, <1>2 DEF QueueStep, Queue!vars

LEMMA DownBrokenStep ==
  ASSUME ~Up, ~Up', Mode' = Mode
  PROVE  QueueStep
BY DEF QueueStep, Queue!vars, Arrived, Unread, Got

\* The queue is emptied when the processor restarts and when ERXRDPT leaves the
\* ring.
LEMMA StopStep ==
  ASSUME Up \/ Mode = "broken", ~Up'
  PROVE  QueueStep
<1>1. Mode # "down" /\ Mode' \in {"down", "broken"}
  BY DEF Mode, Up
<1>2. Arrived' = 0 /\ Unread' = <<>> /\ Got' = <<>>
  BY DEF Arrived, Unread, Got
<1>3. Queue!Stop(Mode')
  BY <1>1, <1>2 DEF Queue!Stop
<1>4. QED
  BY <1>1, <1>3 DEF QueueStep, Queue!Next

\* Reading a frame takes it off the queue, and delivers it if it is good.
LEMMA TakeStep ==
  ASSUME accepted \in Seq(Frame), retired \in Nat, retired < Len(accepted),
         buflen \in BufLens, Up, Up', UNCHANGED <<accepted, buflen>>,
         Read = retired, Read' = retired + 1,
         got' = IF accepted[retired + 1].ok
                THEN Append(got, Queue!Delivery(Plain(accepted[retired + 1]), buflen))
                ELSE got
  PROVE  QueueStep
<1>1. Mode = "up" /\ Mode' = "up"
  BY DEF Mode, Up
<1>2. /\ Unread = UnreadFrom(retired) /\ Got = got /\ Got' = got'
      /\ Arrived = Len(accepted) /\ Arrived' = Len(accepted)
  BY DEF Unread, Got, Arrived
<1>3. Unread' = UnreadFrom(retired + 1)
  BY DEF Unread, UnreadFrom, Plain
<1>4. /\ Unread # <<>> /\ Head(Unread) = Plain(accepted[retired + 1])
      /\ Tail(Unread) = Unread'
  BY <1>2, <1>3, UnreadFromTail
<1>5. Head(Unread).ok = accepted[retired + 1].ok
  BY <1>4 DEF Plain
<1>6. Queue!Take(buflen)
  BY <1>1, <1>2, <1>4, <1>5 DEF Queue!Take
<1>7. QED
  BY <1>6 DEF QueueStep, Queue!Next

\* The length of a stored frame's data does not wrap around.
LEMMA NoWrap ==
  ASSUME NEW n \in Nat, NEW h \in Nat, NEW c \in Nat, h + c <= n, n < W16
  PROVE  ((n - h) - c) % W16 = n - (h + c)
<1> DEFINE d == n - (h + c)
<1>1. d \in Int /\ 0 <= d /\ d < 65536
  <2>1. d \in Int
    OBVIOUS
  <2>2. 0 <= d
    OBVIOUS
  <2>3. d < 65536
    BY DEF W16
  <2>4. QED
    BY <2>1, <2>2, <2>3
<1>2. (n - h) - c = d
  OBVIOUS
<1> HIDE DEF d
<1>3. d % 65536 = d
  BY <1>1
<1>4. QED
  BY <1>2, <1>3 DEF W16, d

\* What enc_recv delivers of a good frame is its data, as long as its buffer.
LEMMA DataDelivered ==
  ASSUME EncInv, LenInv, RecvData, ~escaped
  PROVE  /\ retired < Len(accepted) /\ accepted[retired + 1].ok
         /\ got' = Append(got, Queue!Delivery(Plain(accepted[retired + 1]), buflen))
<1> USE GeometryAssumption
<1> DEFINE f == accepted[retired + 1]
<1>1. pc = "r_data" /\ rxen
  BY DEF RecvData, RecvStep, EncInv, BaseInv, BlankInv, InitPcs
<1>2. /\ BaseInv /\ UnreadNeverOverwritten /\ retired < Len(accepted)
      /\ erdpt = OldestUnread /\ f.ok
  BY <1>1 DEF EncInv, BaseInv, RingInv, CountInv, RecvPcs, CursorInv
<1>3. retired + 1 \in 1 .. Len(accepted) /\ buflen \in Nat
  BY <1>2, InputAssumption, AcceptedTypes DEF BaseInv, TypeOK
<1>4. f.id = retired + 1 /\ DataId = f.id
  BY <1>1, <1>2, <1>3, HeaderRead DEF EncInv, RingInv, ChainInv, DataId
<1>5. rxlen = f.size - HdrLen /\ f.size \in HdrLen + CrcLen .. RxSize - 2
  BY <1>1, <1>2, <1>3, AcceptedTypes DEF LenInv, BaseInv
<1> HIDE DEF f
<1>6. /\ HdrLen \in Nat /\ CrcLen \in Nat /\ f.size \in Nat
      /\ HdrLen + CrcLen <= f.size /\ f.size < W16
  <2>1. /\ HdrLen \in Nat /\ CrcLen \in Nat /\ RxSize \in Nat /\ BufSize \in Nat
        /\ RxSize < BufSize /\ BufSize <= W16
    BY WidthAssumption
  <2>2. QED
    BY <1>5, <2>1 DEF W16
<1>7. (rxlen - CrcLen) % W16 = f.size - (HdrLen + CrcLen)
  <2>1. ASSUME NEW n \in Nat, HdrLen + CrcLen <= n, n < W16
        PROVE  ((n - HdrLen) - CrcLen) % W16 = n - (HdrLen + CrcLen)
    BY <1>6, <2>1, NoWrap
  <2>2. ((f.size - HdrLen) - CrcLen) % W16 = f.size - (HdrLen + CrcLen)
    BY <1>6, <2>1
  <2>3. QED
    BY <1>5, <2>2
<1>8. DataLen = IF f.size - (HdrLen + CrcLen) > buflen
                THEN buflen ELSE f.size - (HdrLen + CrcLen)
  BY <1>7 DEF DataLen
<1>9. Queue!Delivery(Plain(f), buflen) = [id |-> DataId, buf |-> buflen, len |-> DataLen]
  BY <1>4, <1>8 DEF Queue!Delivery, Plain
<1>10. QED
  BY <1>2, <1>9 DEF RecvData, f

\* A frame that is stored joins the queue, if reception is up.
LEMMA ArriveStep ==
  ASSUME EncInv, NEW n \in FrameSizes, NEW ok \in BOOLEAN, RxStore(n, ok)
  PROVE  QueueStep
<1> DEFINE f == [id |-> Len(accepted) + 1, start |-> erxwrpt, size |-> n, ok |-> ok]
<1>1. /\ accepted' = Append(accepted, f)
      /\ UNCHANGED <<pc, retired, got, escaped>>
  BY DEF RxStore, driverVars
<1>2. /\ accepted \in Seq(Frame) /\ retired \in Nat /\ erxwrpt \in Ring
      /\ retired <= Len(accepted) /\ (pc = "r_free" => retired < Len(accepted))
  BY DEF EncInv, BaseInv, TypeOK, CountInv, RecvPcs
<1>3. f \in Frame /\ Plain(f) = [id |-> Len(accepted) + 1, size |-> n, ok |-> ok]
  BY <1>2, LenProperties DEF Frame, Plain
<1> HIDE DEF f
<1>4. Read \in 0 .. Len(accepted) /\ Read' = Read /\ Up' = Up /\ Mode' = Mode
  BY <1>1, <1>2, LenProperties DEF Read, Up, Mode
<1>5. CASE Up
  <2>1. /\ Mode = "up" /\ Unread = UnreadFrom(Read) /\ Unread' = UnreadFrom(Read)'
        /\ Got' = Got /\ Arrived = Len(accepted) /\ Arrived' = Len(accepted')
    BY <1>1, <1>4, <1>5 DEF Mode, Up, Unread, Got, Arrived
  <2>2. Len(accepted') = Len(accepted) + 1
    BY <1>1, <1>2, <1>3, AppendProperties
  <2>3. UnreadFrom(Read)' = Append(UnreadFrom(Read), Plain(f))
    BY <1>1, <1>2, <1>3, <1>4, UnreadFromAppend
  <2>4. Queue!Arrive(n, ok)
    BY <1>3, <1>4, <2>1, <2>2, <2>3 DEF Queue!Arrive
  <2>5. QED
    BY <2>4 DEF QueueStep, Queue!Next
<1>6. CASE ~Up
  BY <1>4, <1>6, DownBrokenStep
<1>7. QED
  BY <1>5, <1>6

\* enc_init ends with an empty queue.
LEMMA BootStep ==
  ASSUME EncInv, InitRxEnable
  PROVE  QueueStep
<1>1. /\ pc = "i_rxen" /\ pc' = "idle" /\ UNCHANGED <<accepted, retired, got, escaped>>
      /\ accepted = <<>> /\ retired = 0 /\ got = <<>> /\ ~escaped
  BY DEF InitRxEnable, rxHistory, EncInv, BaseInv, BlankInv, InitPcs
<1>2. /\ Mode = "down" /\ Mode' = "up" /\ ~Up /\ Up' /\ Read' = 0
  BY <1>1 DEF Mode, Up, InitPcs, Read
<1>3. Arrived = 0 /\ Arrived' = 0 /\ Got = <<>> /\ Got' = <<>> /\ Unread = <<>>
  BY <1>1, <1>2, EmptySeq DEF Arrived, Got, Unread
<1>4. accepted' \in Seq(Frame) /\ Len(accepted') = 0
  BY <1>1, EmptySeq
<1>5. Unread' = <<>>
  BY <1>2, <1>4 DEF Unread, UnreadFrom
<1>6. Queue!Boot
  BY <1>2, <1>3, <1>5 DEF Queue!Boot
<1>7. QED
  BY <1>6 DEF QueueStep, Queue!Next

\* The steps of enc_recv.
LEMMA RecvStepMaps ==
  ASSUME EncInv, LenInv, EncRecv
  PROVE  QueueStep
<1>0. /\ accepted \in Seq(Frame) /\ retired \in Nat /\ buflen \in BufLens
      /\ BaseInv /\ (pc \in RecvPcs => rxen)
  BY DEF EncInv, BaseInv, TypeOK, BlankInv, InitPcs, RecvPcs
<1>1. CASE RecvCount \/ RecvSeek \/ RecvNext \/ RecvLen \/ RecvDecrement
  BY <1>1, NoQueueStep
     DEF RecvCount, RecvSeek, RecvNext, RecvLen, RecvDecrement, RecvStep, InitPcs, Read
<1>2. CASE RecvStatus
  <2>1. /\ pc = "r_status" /\ pc' = (IF status' THEN "r_data" ELSE "r_free")
        /\ status' \in StatusesAt /\ UNCHANGED <<accepted, retired, got, escaped, buflen>>
    BY <1>2 DEF RecvStatus, RecvStep
  <2>2. CASE escaped
    BY <2>1, <2>2, DownBrokenStep DEF Up, Mode, InitPcs
  <2>3. CASE ~escaped
    <3>1. /\ UnreadNeverOverwritten /\ retired < Len(accepted) /\ erdpt = OldestUnread
      BY <1>0, <2>1, <2>3 DEF EncInv, BaseInv, RingInv, CountInv, RecvPcs, CursorInv
    <3>2. status' = accepted[retired + 1].ok
      BY <1>0, <2>1, <3>1, HeaderRead DEF StatusesAt
    <3>3. CASE status'
      BY <2>1, <3>3, NoQueueStep DEF InitPcs, Read
    <3>4. CASE ~status'
      <4>1. Up /\ Up' /\ Read = retired /\ Read' = retired + 1
        BY <2>1, <2>3, <3>4 DEF Up, InitPcs, Read
      <4>2. QED
        BY <1>0, <2>1, <3>1, <3>2, <3>4, <4>1, TakeStep
    <3>5. QED
      BY <3>3, <3>4
  <2>4. QED
    BY <2>2, <2>3
<1>3. CASE RecvData
  <2>1. /\ pc = "r_data" /\ pc' = "r_free"
        /\ UNCHANGED <<accepted, retired, escaped, buflen>>
    BY <1>3 DEF RecvData, RecvStep
  <2>2. CASE escaped
    BY <2>1, <2>2, DownBrokenStep DEF Up, Mode, InitPcs
  <2>3. CASE ~escaped
    <3>1. Up /\ Up' /\ Read = retired /\ Read' = retired + 1
      BY <2>1, <2>3 DEF Up, InitPcs, Read
    <3>2. QED
      BY <1>0, <1>3, <2>1, <2>3, <3>1, DataDelivered, TakeStep
  <2>4. QED
    BY <2>2, <2>3
<1>4. CASE RecvFree
  <2>1. /\ pc = "r_free" /\ pc' = "r_dec" /\ retired' = retired + 1
        /\ UNCHANGED <<accepted, got>> /\ (escaped => escaped')
    BY <1>4 DEF RecvFree, RecvStep
  <2>2. CASE ~escaped'
    <3>1. UNCHANGED escaped
      BY <1>4, <2>2 DEF RecvFree, EncInv, BaseInv, TypeOK
    <3>2. QED
      BY <2>1, <3>1, NoQueueStep DEF InitPcs, Read
  <2>3. CASE escaped'
    BY <2>1, <2>3, StopStep DEF Up, Mode, InitPcs
  <2>4. QED
    BY <2>2, <2>3
<1>5. QED
  BY <1>1, <1>2, <1>3, <1>4 DEF EncRecv

LEMMA StepMaps ==
  ASSUME EncInv, LenInv, [Next]_vars
  PROVE  QueueStep
<1>1. CASE EncRecv
  BY <1>1, RecvStepMaps
<1>2. CASE InitRxEnable
  BY <1>2, BootStep
<1>3. CASE InitReset
  BY <1>3, DownBrokenStep DEF InitReset, Up, Mode, InitPcs
<1>4. CASE InitRegs \/ PhyWrite \/ PhyWait
  BY <1>4, NoQueueStep DEF InitRegs, PhyWrite, PhyWait, InitPcs, Read, rxHistory
<1>5. CASE EncSend
  BY <1>5, NoQueueStep
     DEF EncSend, SendPollRts, SendPollErr, SendReset, SendUnreset, SendFill,
         SendPointers, SendRequest, SendStep, rxHistory, InitPcs, Read
<1>6. CASE Call
  BY <1>6, NoQueueStep
     DEF Call, SendCall, SendStep, RecvCall, RecvStep, rxHistory, InitPcs, Read
<1>7. CASE TxSome \/ MiiDone
  BY <1>7, NoQueueStep DEF TxSome, TxEnd, MiiDone, driverVars, rxHistory, Read
<1>8. ASSUME NEW n \in FrameSizes, NEW ok \in BOOLEAN, RxStore(n, ok)
      PROVE  QueueStep
  BY <1>8, ArriveStep
<1>9. CASE Restart
  <2>1. pc' = "off" /\ ~Up' /\ Mode' = "down"
    BY <1>9 DEF Restart, Up, Mode, InitPcs
  <2>2. CASE Mode = "down"
    BY <2>1, <2>2, DownBrokenStep DEF Up, Mode
  <2>3. CASE Mode # "down"
    BY <2>1, <2>3, StopStep DEF Up, Mode
  <2>4. QED
    BY <2>2, <2>3
<1>10. CASE UNCHANGED vars
  BY <1>10, NoQueueStep DEF vars, driverVars, rxHistory, Read
<1>11. QED
  BY <1>1, <1>2, <1>3, <1>4, <1>5, <1>6, <1>7, <1>8, <1>9, <1>10
     DEF Next, EncInit, Chip

\* Whatever the chip stores between the accesses of a call, and whenever the
\* processor restarts, enc_recv is a queue of the frames that arrived.
THEOREM QueueRefinement == Spec => ImplementsQueue
<1>1. Init => LenInv
  BY DEF Init, LenInv
<1>2. Init => Queue!Init
  BY DEF Init, Queue!Init, Mode, Arrived, Unread, Got, Up, InitPcs
<1>3. EncInv /\ LenInv /\ [Next]_vars => LenInv'
  BY LenStep
<1>4. EncInv /\ LenInv /\ [Next]_vars => [Queue!Next]_(Queue!vars)
  BY StepMaps DEF QueueStep
<1>5. QED
  BY <1>1, <1>2, <1>3, <1>4, EncInvariant, PTL DEF Spec, ImplementsQueue, Queue!Spec
=============================================================================
