SPECIFICATION Spec
CONSTANTS
    o1 = o1  o2 = o2  o3 = o3
    loop = loop  ctl = ctl
    t1 = t1  t2 = t2  t3 = t3
    None = None
    Operations <- TwoOperations
    Clients <- TwoClients
    Timers <- ThreeTimers
    MaxBufferSize = 3
    MaxFailures = 0
    MaxCancels = 0
    MaxStops = 2
SYMMETRY Symmetric
PROPERTIES StopCancelsTimers
CHECK_DEADLOCK FALSE
