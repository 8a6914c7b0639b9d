CONSTANTS
    Nodes = {n1, n2}
    NoNode = NoNode
    NInputs = 1
    ChanCap = 1
    MayTimeout = FALSE
    MaxExpiries = 1
    MaxRestarts = 0
    MaxCuts = 1
SPECIFICATION FairSpec
PROPERTIES StepsDownWhenCutOff
