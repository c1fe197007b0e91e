SPECIFICATION Spec
CONSTANTS
  Numbers = {11, 23, 281, 292}
  Lengths = {0, 2, 13}
  Bytes = {7, 255}
  Payloads = {3}
  MaxAdds = 3
  MaxFailures = 1
INVARIANTS
  TypeOK
  OptionsInOrder
  ReceiverReadsWhatWasSent
  MoreIsWhatWasSent
CHECK_DEADLOCK FALSE
