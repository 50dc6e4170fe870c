SPECIFICATION FairSpec
CONSTANTS
    a = a
    b = b
    Lanes <- TwoLanes
    Versions = {0, 1}
    MaxCommit = 2
    Bad <- MCBad
    Root = 0
    FailFast = {a}
    NumRuns = 2
    WalkLimit = 1
    LaneLimits = FALSE
    Named = {{a}}
    MaxReruns = 1
    MaxCancels = 1
    MaxFaults = 1
INVARIANTS RangeInv RedIsGenuine
PROPERTIES VerdictStands BrokenTrunkTurnsRed
CHECK_DEADLOCK FALSE
