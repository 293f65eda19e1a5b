CONSTANTS
    o1 = o1
    o2 = o2
    s1 = s1
    s2 = s2
    Observations <- OneObservation
    Sessions <- TwoSessions
    Worker = s1
    Bars <- FewBars
    Barriers <- AllBarriers
    MaxHold = 2
    Limit = 1
    MaxGap = 1
    Overlap = 1
    Factor <- Doubling
    MaxBars = 3
    MaxActions = 1
    MaxCrashes = 1
SPECIFICATION FairSpec
INVARIANTS
    TypeOK
    ExitIsWorstCase
    OneBasis

    
CHECK_DEADLOCK FALSE
