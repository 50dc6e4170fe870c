SPECIFICATION Spec
CONSTANTS
    a1 = a1
    a2 = a2
    r1 = r1
    b1 = b1
    b2 = b2
    b3 = b3
    Attempts = {a1, a2}
    Readers = {r1}
    Builds = {b1, b2, b3}
    Base = b1
    Common <- MCCommon
    MaxParts = 2
    PartCounts = {0, 2}
    Days = {1, 2}
    Scenarios <- MCScenarios
    MaxTime = 3
    Shared = shared
    NoBuild = none
INVARIANTS StoreInv
PROPERTIES ImplementsHandover
CHECK_DEADLOCK FALSE
