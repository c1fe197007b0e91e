SPECIFICATION Spec
CONSTANTS
  Last = 2
  Rounds = 3
  MaxImages = 3
  MaxStray = 1
CHECK_DEADLOCK FALSE
INVARIANTS
  TypeOK
  SealedMeansWhole
  SealedMeansDecoded
  SealedMeansAligned
