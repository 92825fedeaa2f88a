SPECIFICATION Spec
CONSTANTS
    Fds = {3, 4, 5}
    MaxConns = 2
    Slots = {s1, s2}
    FilesServed = TRUE
    Requests = {"keep", "closed"}
    MaxFaults = 1
SYMMETRY SlotSymmetry
INVARIANTS
    IInv
    NoLeak
    SecondCloseMeetsNoConnection
PROPERTIES
    ResetSparesConnections
    KeepsPromise
CHECK_DEADLOCK FALSE
