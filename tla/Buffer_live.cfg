SPECIFICATION FairSpec
CONSTANTS
    o1 = o1  o2 = o2  o3 = o3
    loop = loop  ctl = ctl
    t1 = t1  t2 = t2  t3 = t3
    None = None
    Operations <- TwoOperations
    Clients <- OneClient
    Timers <- ThreeTimers
    MaxBufferSize = 2
    MaxFailures = 1
    MaxCancels = 1
    MaxStops = 1
PROPERTIES EveryOperationDelivered LockIsHandedOn
CHECK_DEADLOCK FALSE
