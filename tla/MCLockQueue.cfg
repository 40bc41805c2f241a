SPECIFICATION Spec
CONSTANTS
  MaxCount = 3
  MaxAttempts = 6
  Nodes = {n1, n2, n3, n4}
  NULL = NULL
SYMMETRY Addresses
INVARIANTS MutualExclusion FifoOrder NoCrash StatsConsistent ListIntact TeardownSafe IndInv
