SPECIFICATION FairSpec
CONSTANTS
    NumRuns = 3
    HistoryLimit = 3
    HoldTicks = 2
    Modes = {"enforce", "observe"}
    HoldInputs = {"number", "malformed"}
    MaxReruns = 1
    MaxFaults = 1
    MaxEdits = 1
INVARIANTS GateInv WayBackIsNeverJammed OrdinaryNeverPassesRed
PROPERTIES GateDecides
CHECK_DEADLOCK FALSE
