SPECIFICATION Spec
CONSTANTS
    BlockCount = 7
    BlockSize = 6
    PageSize = 2
    Files = {"a"}
    InlineMax = 2
    Lookahead = 4
    Seed = 0
    Opens <- JustOpen
    Lengths = {1, 5}
    Places = {0, 3, 10}
    Sizes = {7}
    Starts <- OneFile
    MaxCalls <- FiveCalls
    MaxTotal = 5
    MaxBad = 1
    MaxFate = 3
    Traps = {"newblock"}
PROPERTIES
    FilesAreBoxes
CHECK_DEADLOCK FALSE
