SPECIFICATION FairSpec
CONSTANTS
    K = 2
    Memory = 8
    MaxSent = 8
INVARIANTS
    IInv
PROPERTIES
    ArrivesUnlessHarmed
    FetchesAsWorker
    EofEndsFetch
    WaitsOnlyAtBoundary
CHECK_DEADLOCK FALSE
