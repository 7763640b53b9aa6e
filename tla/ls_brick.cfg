SPECIFICATION Spec
CONSTANTS
    FOLDER_MAX_COUNT = 1
    FOLDERS_CREATED = 1
    FILE_MAX_COUNT = 0
    DEBUG = FALSE
    Sizes = {1}
    Faults <- NoCall
    MaxFaults = 0
    MaxCrashes = 2
    MaxPushes = 1
INVARIANT BootSucceeds
