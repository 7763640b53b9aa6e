SPECIFICATION Spec
CONSTANTS
    Blocks <- SomeBlocks
    Names = {1, 2}
    Files = {"file"}
    MaxFiles = 1
    Spare = 1
    Traps = {"repair"}
    Budget <- ThreeCalls
PROPERTY RepairsSilent
