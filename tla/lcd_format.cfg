CONSTANTS
  WIDTH = 2
  HEIGHT = 2
  LineLength = 3
  MaxText = 4
  Calls <- MCStandards
SPECIFICATION Spec
INVARIANT PrintsAsPrintf
