CONSTANTS
  Rates <- MCRates
  Levels <- MCLevels
SPECIFICATION Spec
INVARIANT DataRateHolds
