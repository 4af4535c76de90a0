SPECIFICATION SetupSpec
CONSTANTS
  MaxRuns = 2
  Ends <- MCWholeRun
  Offsets <- MCYes
  SlowStarts <- MCNo
INVARIANTS
  ThreeSites
CHECK_DEADLOCK FALSE
