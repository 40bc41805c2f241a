SPECIFICATION Spec
CONSTANTS
  MaxCount = 2
  MaxAttempts = 3
  Nodes = {n1, n2, n3}
  NULL = NULL
  WILD = WILD
INVARIANT FifoOrder
