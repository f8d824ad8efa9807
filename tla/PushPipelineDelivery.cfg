SPECIFICATION FairSpec
CONSTANTS
    MaxEdits = 1
    MaxFaults = 1
    MaxSessions = 1
    MaxFails = 0
PROPERTY Delivered
CHECK_DEADLOCK FALSE
