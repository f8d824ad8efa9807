SPECIFICATION Spec
CONSTANTS
    Profiles <- OneOfEach
    Used = 2
    Names <- OneName
    Hashes <- OneHash
    Stores = {"sqlite", "idb"}
    MaxSpaces = 3
    MaxNotes = 2
    MaxOps = 2
    MaxWaiting = 0
    MaxFaults = 2
INVARIANTS TypeOK TreeOK OwnImagesUnique FlagIsSaved QuietMeansSaved
PROPERTIES DeletingIsRemembered
CHECK_DEADLOCK FALSE
