SPECIFICATION Spec
CONSTANTS
    o = o
    w = w
    x = x
    Client = {o, w, x}
    Creator = o
    Running = {o, w}
    GivenRoles <- JustWriters
    MaxParked = 4
    MaxAhead = 4
    MaxOps = 3
    MaxFrames = 1
    MaxFaults = 1
    MaxTraffic = 1
INVARIANTS TypeOK HoldersWereMembers ChangesLand QuietMeansCurrent
PROPERTIES SealedForMembers LogsOnlyGrow
CHECK_DEADLOCK FALSE
