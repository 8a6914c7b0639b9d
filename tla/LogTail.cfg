CONSTANTS
    MaxUnits = 4
    Inodes = {1, 2}
    Heads = {1, 2}
    BufSize = 3
    MaxLine = 1
    MaxMultiline = 3
    FromBeginning = FALSE
    Threshold = 3
    MaxFaults = 3
SPECIFICATION FairSpec
INVARIANTS TypeOK FedInOrder 
PROPERTIES  TailerStops
CHECK_DEADLOCK FALSE
