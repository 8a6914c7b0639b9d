CONSTANTS
    Records = {1, 2, 3, 4}
    NoRecord = 0
    LenOf <- MCLenOf
    BatchSize = 3
    Capacity = 4
    MaxDataSize = 2
    Options <- MCBoth
    BufLen = 2
    GarbageLens = {1}
    WriteFails = FALSE
    CrashAnywhere = FALSE
    MaxRestarts = 1
SPECIFICATION FairSpec
INVARIANTS TypeOK CapacityRespected RecoverablePosition ConsumedOnce
PROPERTIES ImplementsFifoQueue EventuallyConsumed GetReturns
