CONSTANTS
    Records = {1, 3, 5}
    NoRecord = 0
    LenOf <- MCLenOf
    BatchSize = 2
    Capacity = 3
    MaxDataSize = 0
    Options <- MCDropping
    BufLen = 2
    GarbageLens = {}
    WriteFails = FALSE
    CrashAnywhere = FALSE
    MaxRestarts = 0
SPECIFICATION Spec
INVARIANTS NoRecordLost
