CONSTANTS
    Categories = {"metric", "logging"}
    Compactors = {"metric", "logging"}
    Writes <- MCWrites
    GroupOf <- MCGroupOf
    Sinker = TRUE
    Large = {4, 5}
    Brim = {7}
    PartSize = 2
    Flushers = {"m1", "l1"}
    CatOf <- MCCatOf
    MemCap = 1
    DiskCap = 1
    FailCap = 1
    MaxBodies = 4
    MaxRestarts = 1
    GzipMayChange = FALSE
SPECIFICATION Spec
INVARIANTS TypeOK PostIsOnePart EncodingMatches BodiesOwned
CHECK_DEADLOCK FALSE
