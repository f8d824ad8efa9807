CONSTANTS
    DeferCap = 1
    DigestCap = 2
    Threshold = 2
    EventCap = 2
    MaxSeq = 3
    MaxUplink = 1
    MaxDown = 1
    MaxCmds = 1
    MaxDrops = 1
    Hiding <- AllOpen
    HiddenSnaps = FALSE
SPECIFICATION Spec
INVARIANT RefusedIsAskedAgain
CHECK_DEADLOCK FALSE
