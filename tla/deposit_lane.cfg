SPECIFICATION Spec
CONSTANTS
  Runs = 2
  EthWindow = 2
  VarWindow = 1
  Indices = 2
  MaxTip = 6
  Others = 1
  Spends = 1
INVARIANTS
  TypeOK
  GreenMeansDerived
  RedMeansTrouble
CHECK_DEADLOCK FALSE
