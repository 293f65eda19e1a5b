CONSTANTS
    w1 = w1
    w2 = w2
    p1 = p1
    p2 = p2
    Items <- OneItem
    Workers <- TwoWorkers
    Producers <- TwoProducers
    MaxLife = 2
    MaxTries = 3
    Lease = 2
    Limit = 1
    MaxCrashes = 2
SPECIFICATION FairSpec
INVARIANTS
    TypeOK
    LeasesBounded
PROPERTIES
    FinalStatusLostOnlyToStaleReader
    LeaseRecovered
    EveryItemEndsOrIsExhausted
