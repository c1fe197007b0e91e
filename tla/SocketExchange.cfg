SPECIFICATION FairSpec
CONSTANTS
  a = a
  b = b
  Files = {a, b}
  ImageBlocks <- TwoSizes
  ReportEvery = 2
  Tries = 2
  Retries = 1
  ReceiveTimeout = 0
  AnswerWait = 0
  RetryWait = 0
  MaxLost = 1
  MaxStray = 2
INVARIANTS TypeOK BacklogIsStray FreshImage ShiftBounded
PROPERTY CallsEnd
