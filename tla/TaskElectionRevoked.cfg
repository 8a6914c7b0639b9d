CONSTANTS
    Names = {"mysql", "redis", "other"}
    Application = {"mysql", "redis"}
    ChanCap = 2
    MayTimeout = FALSE
    MaxChanges = 1
    MaxRestarts = 0
SPECIFICATION FairSpec
PROPERTIES RevokedPaused
