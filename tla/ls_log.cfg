SPECIFICATION Spec
CONSTANTS
    FOLDER_MAX_COUNT = 2
    FOLDERS_CREATED = 2
    FILE_MAX_COUNT = 0
    DEBUG = FALSE
    Sizes = {1, 2}
    Faults <- AfterBoot
    MaxFaults = 2
    MaxCrashes = 2
    MaxPushes = 5
INVARIANTS
    SeeksMatchDisk
    PopFindsFile
PROPERTY ImplementsLog
