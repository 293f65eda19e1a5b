CONSTANTS
    s1 = s1
    s2 = s2
    Sessions <- TwoSessions
    MaxVersions = 2
    MaxTime = 0
    Horizon = 1
SPECIFICATION Spec
INVARIANTS
    TypeOK
PROPERTIES
    ProductionOnlyByGate
SYMMETRY SessionSymmetry
CHECK_DEADLOCK FALSE
