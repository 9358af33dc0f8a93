SPECIFICATION BuilderSpec
CHECK_DEADLOCK FALSE
CONSTANTS
    LastTime = 2
    MaxOperations = 3
    MaxActions = 5
    MaxObserved = 2
    MaxSegments = 2
    RecentLimit = 3
INVARIANTS BuilderTypeOK EveryOperationOncePerBuild RelationsFit
