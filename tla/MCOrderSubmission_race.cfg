CONSTANTS
    s1 = s1
    s2 = s2
    p1 = p1
    p2 = p2
    Signals <- OneSignal
    SymbolOf <- OneSymbol
    Submitters <- TwoSubmitters
    Qty = 1
    MaxGroups = 2
    MaxDays = 0
    Mode = "paper"
    MaxCrashes = 1
    MaxAttempts = 2
SPECIFICATION Spec
INVARIANTS
    TypeOK
    EveryBracketAccountedFor
    TradedSignalNotExecutable
    OneTradePerSubmitter

    
SYMMETRY SubmitterSymmetry
CHECK_DEADLOCK FALSE
