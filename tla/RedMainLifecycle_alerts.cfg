SPECIFICATION FairSpec
CONSTANTS
    NumRuns = 2
    MaxAttempt = 2
    QueueCap = 3
    MaxFaults = 1
    MaxInterventions = 1
INVARIANTS RecordInv HandledIsRecorded ClosedIsRecovered
PROPERTIES RecordMovesForward RecoveryOverRedIsPending RedIsAlerted GreenIsRecovered
CHECK_DEADLOCK FALSE
