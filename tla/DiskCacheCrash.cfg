CONSTANTS
    Records = {1, 2, 3}
    NoRecord = 0
    LenOf <- MCLenOf
    BatchSize = 4
    Capacity = 0
    MaxDataSize = 0
    Options <- MCRefusing
    BufLen = 2
    GarbageLens = {0, 1, 3}
    WriteFails = TRUE
    CrashAnywhere = TRUE
    MaxRestarts = 2
SPECIFICATION Spec
INVARIANTS NoRecordLost FirstReadInOrder BoundedRedelivery
