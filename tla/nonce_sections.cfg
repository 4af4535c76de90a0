SPECIFICATION Spec
CONSTANTS
  TxIds <- MCTxIds
  MaxEmpty <- MCMaxEmpty
  MaxLag = 1
  Fees <- MCFees
  FeeMoves <- MCFeeMoves
  Ample = 1000
  Plans = {"boundaries"}
  Retries = 1
  MayCut = TRUE
  SafeWindow = 0
  FinalizedWindow = 1
  OriginBlocks = 2
INVARIANTS
  SectionsAdvance
