SPECIFICATION PipelineSpec
CONSTANTS
    o1 = o1  o2 = o2  o3 = o3
    loop = loop  ctl = ctl
    t1 = t1  t2 = t2  t3 = t3
    None = None
    Operations <- OneOperation
    Clients <- BothClients
    Timers <- TwoTimers
    MaxBufferSize = 2
    MaxFailures = 0
    MaxCancels = 0
    MaxStops = 0
    MaxObserved = 1
    WarmupBatches = 1
    GroupSize = 1
    MinNewActivities = 2
    MaxSynthesisFailures = 0
    MaxRestarts = 1
    PeriodicSaves = TRUE
SYMMETRY Symmetric
PROPERTIES RestoresCounters
