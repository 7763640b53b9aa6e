SPECIFICATION Spec
CONSTANTS
    BlockCount = 7
    BlockSize = 6
    PageSize = 2
    Files = {"a"}
    InlineMax = 2
    Lookahead = 4
    Seed = 0
    Opens <- JustOpen
    Lengths = {3}
    Places = {10}
    Sizes = {7}
    Starts <- OneFile
    MaxCalls <- FiveCalls
    MaxTotal = 5
    MaxBad = 0
    MaxFate = 0
    Traps = {"boundary"}
PROPERTIES
    FilesAreBoxes
CHECK_DEADLOCK FALSE
