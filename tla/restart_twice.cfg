SPECIFICATION Spec
CONSTANTS
  Runs = 2
  Delta = 1
  Patience = 2
  Faults <- MCNoFaults
  MaxHead = 4
INVARIANTS
  StoppedMeansStopped
CHECK_DEADLOCK FALSE
