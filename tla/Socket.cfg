SPECIFICATION FairSpec
CONSTANTS
    unit = unit
    byHand = byHand
    compositor = compositor
    Processes <- MCProcesses
    Unit = unit
    StartsOverlap = FALSE
    MaxFaults = 2
    None = None
    Stale = Stale
INVARIANTS
    TypeOK
    ServerReachable
PROPERTIES
    RemovesOnlyDead
    FailedUnitReplaced
    ClientFollows
