CONSTANTS
    s1 = s1
    s2 = s2
    Sessions <- OneSession
    MaxVersions = 2
    MaxTime = 1
    Horizon = 1
SPECIFICATION Spec
INVARIANTS
    ManifestOfCurrentVersion
PROPERTIES
    ClimbsTheLadder
CHECK_DEADLOCK FALSE
