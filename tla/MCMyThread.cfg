SPECIFICATION Spec
CONSTANT N = 3
INVARIANTS LiveMemory JoinedAndReleased
PROPERTY Terminates
CHECK_DEADLOCK FALSE
