SPECIFICATION Spec
CONSTANTS
  LastBlock = 7
  MaxEntries = 3
  Tables <- MCTables
  Totals = {1, 3, 8}
  CreateEvery = 4
  ProbeEvery = 2
INVARIANTS
  TypeOK
  GeneratesUnlessSkipping
  CouplingInvisible
  ChurnCleared
  TransitionsSampled
  SegmentsProbed
CHECK_DEADLOCK FALSE
