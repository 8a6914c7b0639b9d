CONSTANTS
    Records = {1, 2, 3}
    NoRecord = 0
    LenOf <- MCLenOf
    BatchSize = 5
    Capacity = 0
    MaxDataSize = 0
    Options <- MCRefusing
    BufLen = 1
    GarbageLens = {0, 1}
    WriteFails = FALSE
    CrashAnywhere = FALSE
    MaxRestarts = 1
SPECIFICATION Spec
INVARIANTS RecoverablePosition
