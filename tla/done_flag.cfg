SPECIFICATION Spec
CONSTANTS
    Fds = {3, 4, 5}
    MaxConns = 2
    Slots = {s1, s2}
    FilesServed = FALSE
    Requests = {"keep"}
    MaxFaults = 0
SYMMETRY SlotSymmetry
INVARIANTS
    DoneTellsTheEnd
CHECK_DEADLOCK FALSE
