SPECIFICATION FairSpec
CONSTANTS
    Regions <- BothRegions
    MigrationSets <- NoneOrSql
    MaxChanges = 3
    MaxPulls = 2
    Modes = {"revert", "revert_pr_unarmed"}
    Freezes <- Never
    LabelSets <- AllLabels
    WindowInputs <- Always
    Extra = 1
    MaxFaults = 1
    MaxEvents = 1
INVARIANTS RevertInv JumpsApart
PROPERTIES SparedStay RevertRemovesABreak RevertLands
CHECK_DEADLOCK FALSE
