SPECIFICATION FairSpec
CONSTANTS
    CoalesceWindow = 1
    FallbackWake = 3
    DelayRearm = 1
    SliceRearm = 1
    Period = 8
    Jumps = {2}
    MaxOverdue = 8
    MaxRun = 2
    MaxChanges = 1
    MaxFaults = 2
INVARIANTS
    StopsBetweenOccurrences
    NoStaleAlert
PROPERTIES
    DueIsTakenUp
CHECK_DEADLOCK FALSE
