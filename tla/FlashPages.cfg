SPECIFICATION FairSpec
CONSTANTS
  MemSize = 12
  PageSize = 3
  BlockSize = 3
  ChipBlock = 6
  MaxOps = 2
  MaxCuts = 1
INVARIANTS
  TypeOK
  DoneAsAsked
  CutTearsOneUnit
PROPERTY OperationsEnd
CHECK_DEADLOCK FALSE
