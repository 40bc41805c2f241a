SPECIFICATION Spec
CONSTANTS
  Clients = {"c1", "c2", "c3"}
  MaxFds = 5
  MaxSigints = 2
INVARIANTS DescriptorsOwned StopsServing
PROPERTIES SigintStops QueueServed
CHECK_DEADLOCK FALSE
