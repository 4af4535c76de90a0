SPECIFICATION Spec
CONSTANTS
  c1 = c1
  c2 = c2
  d1 = d1
  d2 = d2
  Cases = {c1, c2}
  Derived = {d1, d2}
  Excluded = {d2}
  MaxVer = 2
  Worlds <- MCWorlds
INVARIANTS
  TypeOK
  RitualSettles
  CheckoutsHeal
PROPERTIES
  GreenCovers
  OwnedClonesKept
SYMMETRY MCSymmetry
CHECK_DEADLOCK FALSE
