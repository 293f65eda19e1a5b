CONSTANTS
    worker = worker
    api = api
    w1 = w1
    w2 = w2
    a1 = a1
    Procs <- TwoProcs
    Runners <- ThreeRunners
    ProcOf <- Threads
    Pool <- Pools
    Lanes <- OneLane
    MaxRuns = 2
    MaxCrashes = 1
    MaxDrops = 1
SPECIFICATION FairSpec
INVARIANTS
    TypeOK
    
    LockCoversRun
PROPERTIES
    RunsEnd
CHECK_DEADLOCK FALSE
