CONSTANTS
  FifoDepth = 3
  Sizes <- MCSizes
  JunkSizes <- MCJunkSizes
SPECIFICATION Spec
INVARIANT InitEnables
