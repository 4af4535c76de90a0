SPECIFICATION SetupFairSpec
CONSTANTS
  MaxRuns = 3
  Ends <- MCAnyEnd
  Offsets <- MCEither
  SlowStarts <- MCEither
INVARIANTS
  SetupTypeOK
  ReadyMeansAligned
  WipeMeansMismatch
PROPERTIES
  RerunCompletes
CHECK_DEADLOCK FALSE
