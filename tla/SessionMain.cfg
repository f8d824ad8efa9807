SPECIFICATION FairSpec
CONSTANTS
    S1 = S1
    S2 = S2
    Spaces = {S1, S2}
    Plans <- Wishes
    MaxEvents = 1
INVARIANTS TypeOK WaitersAreServed DrainedUiAgrees JoinOkMeansLoaded NobodyIsDropped
PROPERTIES CallsEnd SilenceIsNoticed
CHECK_DEADLOCK FALSE
