CONSTANTS
    Nodes = {n1, n2}
    NoNode = NoNode
    NInputs = 1
    ChanCap = 1
    MayTimeout = TRUE
    MaxExpiries = 1
    MaxRestarts = 1
    MaxCuts = 1
    Names = {"mysql", "redis", "other"}
    Application = {"mysql", "redis"}
    MaxChanges = 2
SPECIFICATION StartSpec
INVARIANTS TypeOK  RunsOnlyIfElected  TaskInputsConfirmed
PROPERTIES LeaderCollects TaskAllocatedRuns
