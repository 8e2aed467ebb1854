CONSTANTS
  WIDTH = 2
  HEIGHT = 2
  LineLength = 3
  MaxText = 4
  Calls <- MCCalls
SPECIFICATION FairSpec
INVARIANTS InStep CursorAgrees PrintsAsPrintf
PROPERTIES ImplementsScreen CallsReturn
