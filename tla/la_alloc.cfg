SPECIFICATION FairSpec
CONSTANTS
    BlockCount = 3
    GrownCounts <- DoubleSize
    LOOKAHEAD = 2
    ScanFails = TRUE
INVARIANTS
    TypeOK
    FormatTakesRoot
    OffersFree
PROPERTIES
    ImplementsPool
    NoSpaceHonest
    AllocEnds
