SPECIFICATION FairSpec
CONSTANTS
  w1 = w1
  w2 = w2
  s1 = s1
  s2 = s2
  PortalFunds = {0, 1900, 2000, 3500}
  Withdrawals = {w1, w2}
  Scripts = {s1}
  Programs <- MCLane
  ProofMaturity = 2
  FinalityDelay = 1
  MaxClock = 4
  UnlockDelay = 1
  InitBond = 80
  RootBond = 100
  RebutBond = 120
  ProveBudget = 4
  ClockBudget = 8
  FinalizeBudget = 10
  UnlockBudget = 3
  OutputBudget = 2
  HeadroomBudget = 2
  L2Funds = {850, 1000, 2100}
  L2Gas = {1, 40}
  Slow = {}
  MaxTime = 50
  MaxL2 = 4
INVARIANTS
  TypeOK
  OnlyRaceFailures
  GreenMeansPaid
PROPERTIES
  LaneEnds
CHECK_DEADLOCK FALSE
