SPECIFICATION SweepSpec
CONSTANTS
  Keys <- MCKeys
  Draws <- MCDraws
  Domain = 32
  MaxLen = 1452
  MaxDay = 50000
INVARIANTS
  RoundTrip
  Recognised
  KernelInterop
  MtuFits
  HelpersCorrect
CHECK_DEADLOCK FALSE
