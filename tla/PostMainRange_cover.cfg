SPECIFICATION Spec
CONSTANTS
    a = a
    b = b
    Lanes <- OneLane
    Versions = {0, 1}
    MaxCommit = 3
    Bad <- MCBad
    Root = 0
    FailFast = {}
    NumRuns = 3
    WalkLimit = 1
    LaneLimits = TRUE
    Named = {}
    MaxReruns = 1
    MaxCancels = 0
    MaxFaults = 0
PROPERTIES BaseIsNewest CertifiesOnlyWhole
CHECK_DEADLOCK FALSE
