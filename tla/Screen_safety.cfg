SPECIFICATION FairScreenSpec
CHECK_DEADLOCK FALSE
CONSTANTS
    MaxCaptures = 2
    Workers = {1, 2}
    UpdateLimit = 1
    MaxRetries = 1
    MaxFaults = 1
INVARIANTS ScreenTypeOK KeptUntilSettled
PROPERTIES HeardOrGivenUp
