SPECIFICATION Spec
CONSTANTS
    BlockCount = 4
    GrownCounts <- OneMore
    LOOKAHEAD = 4
    ScanFails = FALSE
INVARIANT OffersFree
