SPECIFICATION SignalSpec
CONSTANT MaxSent = 2
INVARIANT SafeDelivery
PROPERTY NoSignalLost
CHECK_DEADLOCK FALSE
