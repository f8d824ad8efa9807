CONSTANTS
    DeferCap = 1
    DigestCap = 2
    Threshold = 2
    EventCap = 9
    MaxSeq = 2
    MaxUplink = 1
    MaxDown = 1
    MaxCmds = 1
    MaxDrops = 1
    Hiding <- NewAuthorsLateKeys
    HiddenSnaps = TRUE
SPECIFICATION FairSpec
PROPERTIES ParkedFramesOpen CatchesUp
CHECK_DEADLOCK FALSE
