SPECIFICATION Spec
CONSTANTS
  Dead = 1
  Reserved = {2, 3, 4, 20}
  None = None
  Pow64 = 4
  Pow192 = 100
  Nibbles = {0, 1, 2}
  Width = 4
  ValueLen <- MCValueLen
  Keccak <- MCKeccak
  Requests <- MCRequests
  HandLines <- MCHandLines
  MaxLines = 5
  Overrides <- MCOverrides
  Passer <- MCPasser
  RollupArgs <- MCRollupArgs
  Renderings <- MCRenderings
INVARIANTS
  TypeOK
  BaseKept
  ApartUnlessOverwritten
  ValidatorSetSound
  RootsAgree
  RootedIsUnambiguous
  OnlyReopenedLose
  DiffTellsApart
CHECK_DEADLOCK FALSE
