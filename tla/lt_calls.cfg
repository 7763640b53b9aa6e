SPECIFICATION FairSpec
CONSTANTS
    Blocks <- SomeBlocks
    Names = {1, 2, 3}
    Files = {"file"}
    MaxFiles = 2
    Spare = 1
    Traps = {}
    Budget <- FourCalls
INVARIANTS
    TypeOK
    Consistent
    Told
    GStateRead
    TreeInUse
    HandlesFresh
PROPERTIES
    CallsAtomic
    RepairsSilent
    CallsEnd
