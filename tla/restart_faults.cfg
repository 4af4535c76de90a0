SPECIFICATION Spec
CONSTANTS
  Runs = 2
  Delta = 1
  Patience = 2
  Faults <- MCAllFaults
  MaxHead = 4
INVARIANTS
  TypeOK
  GreenMeansRestarted
  NoSilentLoss
CHECK_DEADLOCK FALSE
