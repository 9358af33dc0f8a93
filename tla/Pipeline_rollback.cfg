SPECIFICATION PipelineSpec
CONSTANTS
    o1 = o1  o2 = o2  o3 = o3
    loop = loop  ctl = ctl
    t1 = t1  t2 = t2  t3 = t3
    None = None
    Operations <- ThreeOperations
    Clients <- BothClients
    Timers <- TwoTimers
    MaxBufferSize = 2
    MaxFailures = 1
    MaxCancels = 0
    MaxStops = 0
    MaxObserved = 2
    WarmupBatches = 2
    GroupSize = 2
    MinNewActivities = 2
    MaxSynthesisFailures = 1
    MaxRestarts = 0
    PeriodicSaves = TRUE
SYMMETRY Symmetric
INVARIANTS PendingWereCreated
