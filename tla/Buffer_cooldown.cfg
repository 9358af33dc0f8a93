SPECIFICATION Spec
CONSTANTS
    o1 = o1  o2 = o2  o3 = o3
    loop = loop  ctl = ctl
    t1 = t1  t2 = t2  t3 = t3
    None = None
    Operations <- ThreeOperations
    Clients <- TwoClients
    Timers <- ThreeTimers
    MaxBufferSize = 2
    MaxFailures = 1
    MaxCancels = 0
    MaxStops = 0
SYMMETRY Symmetric
PROPERTIES AddHonoursCooldown
CHECK_DEADLOCK FALSE
