CONSTANTS
  BufSize = 48
  EndpointSize = 16
  Reads = 5
  Resets = 2
  MaxFaults = 2
SPECIFICATION FairSpec
INVARIANTS TypeOK AnswerIsOwn OpenIsRegistered FillPointerWhole
PROPERTY ConnectEnds
