SPECIFICATION SessionSpec
CONSTANTS
    MaxRequests = 4
    MaxAtWork = 2
INVARIANTS SessionTypeOK LoopIsKnown
CHECK_DEADLOCK FALSE
