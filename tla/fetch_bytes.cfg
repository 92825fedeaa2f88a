SPECIFICATION Spec
CONSTANTS
    K = 2
    Memory = 8
    MaxSent = 8
INVARIANTS
    ReturnsWhatWasSent
CHECK_DEADLOCK FALSE
