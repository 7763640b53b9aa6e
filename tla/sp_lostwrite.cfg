SPECIFICATION Spec
CONSTANTS
    PAGE = 2
    SECTOR = 4
    BLOCK = 8
    CHIP_BLOCKS = 1
    KNOWN_SIZE = TRUE
    Calls <- GlueCalls
    Timeout = 3
    Faults <- StatusFault
    MaxFaults = 1
    MaxCalls = 2
INVARIANT WriteDone
