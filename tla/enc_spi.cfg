CONSTANTS
  NoCall = NoCall
  Addresses <- MCAddresses
  Volatile <- MCVolatile
  ChipBits <- MCChipBits
  MacLocations <- MCMacLocations
  Values <- MCValues
SPECIFICATION Spec
INVARIANT BankSelected
PROPERTY ImplementsRegisters
