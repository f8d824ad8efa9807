SPECIFICATION Spec
CONSTANTS
    MaxEdits = 2
    MaxFaults = 1
    MaxSessions = 1
    MaxFails = 1
INVARIANTS
    TypeOK
    IdleMeansStored
    NothingForgotten
PROPERTY
    DeliveryImplemented
CHECK_DEADLOCK FALSE
