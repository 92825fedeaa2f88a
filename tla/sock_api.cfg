SPECIFICATION Spec
CONSTANTS
    Fds = {3, 4, 5}
    MaxConns = 1
    Objects = {o1, o2}
    MaxNulls = 2
SYMMETRY ObjectSymmetry
INVARIANTS
    OnlyLooseSocketsShare
    ListeningMeansListener
    TalksOnlyMoved
    CounterDrifts
PROPERTIES
    LosesOnlyByMove
CHECK_DEADLOCK FALSE
