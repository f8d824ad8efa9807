CONSTANTS
    DeferCap = 1
    DigestCap = 1
    Threshold = 1
    EventCap = 2
    MaxSeq = 2
    MaxUplink = 1
    MaxDown = 2
    MaxCmds = 1
    MaxDrops = 1
    Hiding <- NewAuthorsRotations
    HiddenSnaps = TRUE
SPECIFICATION Spec
INVARIANTS TypeOK FrontierBacked SnapshotComplete QuietMeansComplete
CHECK_DEADLOCK FALSE
