SPECIFICATION Spec
CONSTANTS
    Owners = {o1, o2}
    None = None
    MaxStored = 3
    MaxChunks = 2
    MaxSends = 2
    MaxTweaks = 1
    MaxMoves = 1
INVARIANTS TypeOK OwnAnswer OwnChat
PROPERTIES EndedIsSettled LeavingKeepsChat GenerationEnds
CHECK_DEADLOCK FALSE
