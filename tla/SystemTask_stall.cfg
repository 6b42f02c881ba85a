CONSTANTS
    r1 = r1
    r2 = r2
    Runners = {r1, r2}
    NoRunner = NoRunner
    MaxTasks = 1
    MaxFaults = 1
    ClaimStall = TRUE
SPECIFICATION FairSpec
PROPERTY
    ActiveTaskFinishes
CHECK_DEADLOCK FALSE
