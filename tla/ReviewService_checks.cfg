SPECIFICATION Spec
CONSTANTS
    d1 = d1
    d2 = d2
    r1 = r1
    r2 = r2
    Deliveries = {d1, d2}
    Runs = {r1, r2}
    Dispatched = {r2}
    Plans <- MCPlans
    GroupOf <- MCGroupOf
    MaxMoves = 1
    MaxFaults = 2
  
PROPERTIES VerdictIsFinal EveryCheckEnds
CHECK_DEADLOCK FALSE
