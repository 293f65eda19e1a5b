CONSTANTS
    s1 = s1
    p1 = p1
    r1 = r1
    Signals <- OneSignal
    SymbolOf <- OneSymbol
    Submitters <- OneSubmitter
    Reconcilers <- OneReconciler
    AutoRepair = TRUE
    Qty = 1
    MaxGroups = 2
    MaxDays = 1
    Mode = "paper"
    MaxCrashes = 1
    MaxAttempts = 1
SPECIFICATION FairRSpec
PROPERTIES
    DriftDetected
CHECK_DEADLOCK FALSE
