SPECIFICATION FairSpec
CONSTANTS
    ShellTells = TRUE
    MaxCrashes = 2
    MaxEdits = 2
INVARIANTS
    IInv
    WholeFileOrDefaults
PROPERTIES
    ServiceReturns
CHECK_DEADLOCK FALSE
