SPECIFICATION Spec
CONSTANTS
    Fds = {3, 4, 5}
    MaxConns = 3
    Slots = {s1, s2}
    FilesServed = FALSE
    Requests = {"keep"}
    MaxFaults = 0
SYMMETRY SlotSymmetry
INVARIANTS
    SeparateConnections
CHECK_DEADLOCK FALSE
