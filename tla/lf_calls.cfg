SPECIFICATION Spec
CONSTANTS
    BlockCount = 7
    BlockSize = 6
    PageSize = 2
    Files = {"a", "b"}
    InlineMax = 2
    Lookahead = 4
    Seed = 0
    Opens <- AllOpens
    Lengths = {1, 5}
    Places = {0, 10}
    Sizes = {1, 7}
    Starts <- TwoFiles
    MaxCalls <- FiveAndTwo
    MaxTotal = 5
    MaxBad = 1
    MaxFate = 2
    Traps = {}
INVARIANTS
    TypeOK
    LiveUntouched
    CachesFlushed
    BlocksOwned
    RcacheTrue
PROPERTIES
    FilesAreBoxes
CHECK_DEADLOCK FALSE
