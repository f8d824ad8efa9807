SPECIFICATION Spec
CONSTANTS
    MaxEdits = 2
    MaxFaults = 0
    MaxSessions = 1
    MaxFails = 0
INVARIANT UndeliveredIsFlagged
CHECK_DEADLOCK FALSE
