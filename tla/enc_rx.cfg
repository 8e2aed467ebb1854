CONSTANTS
  p1 = p1
  p2 = p2
  RxSize = 12
  BufSize = 16
  HdrLen = 2
  CrcLen = 1
  FrameSizes <- MCFrameSizes
  MaxFrames = 5
  MaxPktCnt = 3
  JunkPtrs <- MCJunkPtrs
  JunkLens <- MCJunkLens
  BufLens <- MCBufLens
  Packets <- MCOnePacket
SPECIFICATION Spec
INVARIANTS TypeOK UnreadIntact ReceiverInSync DeliveredInOrder NeverWedged NoBufferOverrun
PROPERTY ImplementsQueue
