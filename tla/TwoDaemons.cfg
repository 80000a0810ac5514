SPECIFICATION FairSpec
CONSTANTS
    unit = unit
    byHand = byHand
    compositor = compositor
    Processes <- MCTwo
    Unit = unit
    StartsOverlap = TRUE
    MaxFaults = 1
    None = None
    Stale = Stale
PROPERTIES
    RemovesOnlyDead
