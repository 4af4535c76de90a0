SPECIFICATION Spec
CONSTANTS
  w1 = w1
  w2 = w2
  s1 = s1
  s2 = s2
  PortalFunds = {2000}
  Withdrawals = {w1, w2}
  Scripts = {s1, s2}
  Programs <- MCPairs
  ProofMaturity = 1
  FinalityDelay = 1
  MaxClock = 2
  UnlockDelay = 1
  InitBond = 80
  RootBond = 100
  RebutBond = 120
  ProveBudget = 3
  ClockBudget = 3
  FinalizeBudget = 4
  UnlockBudget = 4
  OutputBudget = 2
  HeadroomBudget = 2
  L2Funds = {5000}
  L2Gas = {0}
  Slow = {s2}
  MaxTime = 8
  MaxL2 = 2
INVARIANTS
  OwnGame
  ProvenIsFinal
PROPERTIES
  KeepsPromise
CHECK_DEADLOCK FALSE
