CONSTANTS
  WIDTH = 2
  HEIGHT = 2
  LineLength = 3
  MaxText = 4
  Calls <- MCCalls
SPECIFICATION RestartSpec
INVARIANT InitSetsUp
