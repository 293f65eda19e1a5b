CONSTANTS
    Types <- OneType
    Rules <- MCRules
    Requests <- MCRequests
    MaxPlan = 3
SPECIFICATION Spec
INVARIANTS
    TypeOK
    WindowNeverExceeded
    DailyReserveKept
    OpenPositionsFirst
PROPERTIES
    NextAvailableIsLowerBound
