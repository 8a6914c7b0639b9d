CONSTANTS
    Bodies = {1, 3}
    NoBody = 0
    Categories = {1}
    CategoryOf <- MCCategoryOf
    Flushers = {w1, w2}
    NoFlusher = "none"
    WorksOn <- MCWorksOn
    NEndpoints = 2
    MemCap = 1
    DiskCap = 1
    FailCap = 2
    Oversized = {}
    Unreadable = {3}
    SlowClean = TRUE
    MayExit = FALSE
    MaxCrashes = 1
SPECIFICATION Spec
SYMMETRY MCSymmetry
INVARIANTS TypeOK CleanHoldsHead  
