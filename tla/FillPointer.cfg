CONSTANTS
  BufSize = 48
  EndpointSize = 16
  Reads = 5
  Resets = 2
  MaxFaults = 1
SPECIFICATION Spec
INVARIANT FillPointer
