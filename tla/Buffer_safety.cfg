SPECIFICATION Spec
CONSTANTS
    o1 = o1  o2 = o2  o3 = o3
    loop = loop  ctl = ctl
    t1 = t1  t2 = t2  t3 = t3
    None = None
    Operations <- ThreeOperations
    Clients <- TwoClients
    Timers <- ThreeTimers
    MaxBufferSize = 3
    MaxFailures = 1
    MaxCancels = 1
    MaxStops = 1
SYMMETRY Symmetric
INVARIANTS TypeOK OneCallback BatchIsOldest PendingIsTimed OneTimer
PROPERTIES ImplementsBatchQueue
CHECK_DEADLOCK FALSE
