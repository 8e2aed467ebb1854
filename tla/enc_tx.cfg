CONSTANTS
  p1 = p1
  p2 = p2
  RxSize = 12
  BufSize = 16
  HdrLen = 2
  CrcLen = 1
  FrameSizes <- MCFrameSizes
  MaxFrames = 1
  MaxPktCnt = 3
  JunkPtrs <- MCJunkPtrs
  JunkLens <- MCJunkLens
  BufLens <- MCBufLens
  Packets <- MCPackets
SPECIFICATION FairSpec
INVARIANT TxWholePacket
PROPERTIES TxBufferStable CallsReturn
