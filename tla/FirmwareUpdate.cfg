SPECIFICATION FairSpec
CONSTANTS
  v1 = v1
  v8 = v8
  Versions <- MCVersions
  Short <- MCShort
  Exact <- MCExact
  ImageBlocks <- MCImageBlocks
  LastCell = 2
  Sectors = 2
  SectorOf <- MCSectorOf
  Tries = 1
  Factory = Factory
  Blank = Blank
  None = None
  MaxFaults = 3
  MaxReboots = 2
CHECK_DEADLOCK FALSE
INVARIANTS
  TypeOK
  SenderOwnsSlot
  OneValidSlot
  StoresInErasedCells
  AllOrNothing
  LengthCoversImage
  HeaderDiffersOnlyIfBlanked
  SomeSlotFree
PROPERTIES
  SentImageStable
  UpdateCycleSpec
  HandoverEnds
  CommandIsHandedOver
