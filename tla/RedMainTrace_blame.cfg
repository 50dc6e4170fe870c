SPECIFICATION Spec
CONSTANTS
    job1 = job1
    job2 = job2
    test1 = test1
    test2 = test2
    Jobs = {job1}
    Tests = {test1, test2}
    Ways = {"lint"}
    Infra = "runner lost"
    Needs <- Independent
    MaxCommit = 4
    MaxCandidates = 2
    MaxRevertCommits = 3
    WalkRuns = 2
    ReadTries = 2
    TraceModes = {"revert", "notify"}
    LaneInputs = {TRUE, FALSE}
    MaxReruns = 1
    MaxFlakes = 0
    MaxOutages = 0
    MaxFaults = 1
INVARIANTS WindowInv CulpritIntroducedIt
CHECK_DEADLOCK FALSE
