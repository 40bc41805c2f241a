SPECIFICATION Spec
CONSTANTS
  MaxCount = 2
  MaxAttempts = 5
  Nodes = {n1, n2, n3}
  NULL = NULL
  WILD = WILD
SYMMETRY Addresses
INVARIANTS AssertionsHold CountInv ReaderHoldsLiveNode NeverBackwards
