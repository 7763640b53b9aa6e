SPECIFICATION Spec
CONSTANTS
    FOLDER_MAX_COUNT = 1
    FOLDERS_CREATED = 1
    FILE_MAX_COUNT = 0
    DEBUG = FALSE
    Sizes = {1}
    Faults <- CloseOnly
    MaxFaults = 1
    MaxCrashes = 0
    MaxPushes = 1
INVARIANT InfoStored
