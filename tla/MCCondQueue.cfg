SPECIFICATION FairSpec
CONSTANTS
  MaxCount = 3
  MaxAttempts = 5
  Nodes = {n1, n2, n3, n4}
  NULL = NULL
INVARIANTS NoLostWakeup QueueSafe
PROPERTIES StopSettles ImplementsFifo
CHECK_DEADLOCK FALSE
