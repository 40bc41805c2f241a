SPECIFICATION HeadersSpec
CONSTANTS
  MaxLen = 8
  MaxFailures = 2
INVARIANTS EndsAtTerminator LengthFromItsLine
CHECK_DEADLOCK FALSE
