CONSTANTS
    s1 = s1
    p1 = p1
    r1 = r1
    Signals <- OneSignal
    SymbolOf <- OneSymbol
    Submitters <- OneSubmitter
    Reconcilers <- OneReconciler
    AutoRepair = TRUE
    Qty = 1
    MaxGroups = 2
    MaxDays = 0
    Mode = "paper"
    MaxCrashes = 0
    MaxAttempts = 2
SPECIFICATION RSpec
INVARIANTS
    ReconciliationTypeOK
    

    
CHECK_DEADLOCK FALSE
