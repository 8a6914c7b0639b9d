CONSTANTS
    Bodies = {1, 3}
    NoBody = 0
    Categories = {0, 1}
    CategoryOf <- MCCategoryOf
    Flushers = {"w0", "w1"}
    NoFlusher = "none"
    WorksOn <- MCWorksOn
    NEndpoints = 1
    MemCap = 0
    DiskCap = 1
    FailCap = 2
    Oversized = {}
    Unreadable = {}
    SlowClean = FALSE
    MayExit = TRUE
    MaxCrashes = 0
SPECIFICATION FairSpec
PROPERTIES EventuallySettled ExitStopsWorkers
CHECK_DEADLOCK FALSE
