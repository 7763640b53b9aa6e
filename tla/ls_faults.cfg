SPECIFICATION Spec
CONSTANTS
    FOLDER_MAX_COUNT = 2
    FOLDERS_CREATED = 2
    FILE_MAX_COUNT = 0
    DEBUG = TRUE
    Sizes = {1}
    Faults <- AnyCall
    MaxFaults = 2
    MaxCrashes = 2
    MaxPushes = 5
INVARIANTS
    TypeOK
    ReaderBehindWriter
    UnreadPresent
    NeverFull
    SeeksInv
