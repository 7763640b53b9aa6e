SPECIFICATION Spec
CONSTANTS
    FOLDER_MAX_COUNT = 2
    FOLDERS_CREATED = 2
    FILE_MAX_COUNT = 0
    DEBUG = FALSE
    Sizes = {1}
    Faults <- NoCall
    MaxFaults = 0
    MaxCrashes = 0
    MaxPushes = 6
INVARIANT PushSucceeds
