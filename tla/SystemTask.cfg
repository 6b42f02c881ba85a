CONSTANTS
    r1 = r1
    r2 = r2
    Runners = {r1, r2}
    NoRunner = NoRunner
    MaxTasks = 2
    MaxFaults = 1
    ClaimStall = FALSE
SPECIFICATION FairSpec
INVARIANTS
    TypeOK
    DispatchedOnce
    RunningHasLock
PROPERTIES
    TerminalIsFinal
    ActiveTaskFinishes
CHECK_DEADLOCK FALSE
