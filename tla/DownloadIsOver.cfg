SPECIFICATION Spec
CONSTANTS
  v1 = v1
  v8 = v8
  Versions <- MCVersions
  Short <- MCShort
  Exact <- MCExact
  ImageBlocks <- MCImageBlocks
  LastCell = 2
  Sectors = 2
  SectorOf <- MCSectorOf
  Tries = 1
  Factory = Factory
  Blank = Blank
  None = None
  MaxFaults = 3
  MaxReboots = 0
CHECK_DEADLOCK FALSE
INVARIANT DownloadIsOver
