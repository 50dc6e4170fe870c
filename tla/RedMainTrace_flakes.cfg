SPECIFICATION FairSpec
CONSTANTS
    job1 = job1
    job2 = job2
    test1 = test1
    test2 = test2
    Jobs = {job1, job2}
    Tests = {test1}
    Ways = {"lint"}
    Infra = "runner lost"
    Needs <- SecondWaits
    MaxCommit = 3
    MaxCandidates = 3
    MaxRevertCommits = 3
    WalkRuns = 2
    ReadTries = 2
    TraceModes = {"revert"}
    LaneInputs = {TRUE, FALSE}
    MaxReruns = 0
    MaxFlakes = 2
    MaxOutages = 1
    MaxFaults = 1
INVARIANTS OneOddRunRevertsNothing
PROPERTIES TraceEnds
CHECK_DEADLOCK FALSE
