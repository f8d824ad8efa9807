CONSTANTS
    DeferCap = 1
    DigestCap = 2
    Threshold = 2
    EventCap = 2
    MaxSeq = 2
    MaxUplink = 1
    MaxDown = 1
    MaxCmds = 1
    MaxDrops = 0
    Hiding <- AllOpen
    HiddenSnaps = FALSE
SPECIFICATION Spec
INVARIANT CoverageIsHeld
CHECK_DEADLOCK FALSE
