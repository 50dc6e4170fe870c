SPECIFICATION PollSpec
CONSTANTS
    Flows = {"checks", "release"}
    EventOf <- MCEventOf
    Jobs <- MCJobs
    EventNames = {"pull_request", "merge_group"}
    Readables = {TRUE, FALSE}
    AllowNone = TRUE
    Required = {"build"}
    MaxSuites = 2
    MaxPolls = 3
    MaxMissed = 1
INVARIANTS OkInv FailIsGenuine
PROPERTIES GateEnds
CHECK_DEADLOCK FALSE
