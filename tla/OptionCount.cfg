SPECIFICATION Spec
CONSTANTS
  Numbers = {11, 23}
  Lengths = {1}
  Bytes = {7}
  Payloads = {3}
  MaxAdds = 2
  MaxFailures = 0
INVARIANT CountIsOfOptions
CHECK_DEADLOCK FALSE
