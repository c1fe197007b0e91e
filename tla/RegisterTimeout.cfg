SPECIFICATION Spec
CONSTANTS
  a = a
  b = b
  Files = {a, b}
  ImageBlocks <- TwoSizes
  ReportEvery = 8
  Tries = 5
  Retries = 12
  ReceiveTimeout = 5
  AnswerWait = 3
  RetryWait = 1
  MaxLost = 3
  MaxStray = 0
INVARIANT RegisteredWithin120s
