SPECIFICATION FairSpec
CONSTANTS
    PAGE = 2
    SECTOR = 4
    BLOCK = 8
    CHIP_BLOCKS = 1
    KNOWN_SIZE = TRUE
    Calls <- PlainCalls
    Timeout = 3
    Faults <- AnyFault
    MaxFaults = 2
    MaxCalls = 2
INVARIANTS
    TypeOK
    ExactOnIdleChip
    Confined
    FailedWriteIsPrefix
PROPERTY CallsEnd
