SPECIFICATION Spec
CONSTANTS
    MaxCommits = 4
    Blocks <- SomeBlocks
    NewPairs <- SomePairs
    SLOTS = 2
    REVS = 8
    BlockCycles = 1
    StaleRevs = {4}
    MaxBad = 2
    OpenElsewhere = TRUE
PROPERTY AckDurable
