SPECIFICATION Spec
CONSTANT MaxBody = 2
INVARIANTS OneAnswer RelayExact ForwardsOriginForm
PROPERTIES Settles KeepsContract
CHECK_DEADLOCK FALSE
