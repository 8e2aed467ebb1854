CONSTANTS
  FifoDepth = 3
  Sizes <- MCSizes
  JunkSizes <- MCJunkSizes
SPECIFICATION Spec
INVARIANTS TypeOK BankAsMeant  LengthMatches
PROPERTIES EnabledForGood TransmitUnblocks
