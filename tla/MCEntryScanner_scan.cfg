CONSTANTS
    p1 = p1
    p2 = p2
    k1 = k1
    k2 = k2
    Scanners <- OneScanner
    Deployed <- EveryModule
    Keys <- TwoKeys
    SymbolOf <- OneSymbol
    MaxOpen = 1
    MaxSignals = 2
    MaxBars = 1
    MaxCrashes = 1
SPECIFICATION Spec
INVARIANTS
    TypeOK
    
    
    
PROPERTIES
    SymbolCooldownKept
SYMMETRY KeySymmetry
