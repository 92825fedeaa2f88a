SPECIFICATION FairSpec
CONSTANTS
    Fds = {3, 4, 5}
    MaxConns = 2
    Slots = {s1, s2}
    FilesServed = FALSE
    Requests = {"keep"}
    MaxFaults = 1
ACTION_CONSTRAINT FirstNodeGiven
PROPERTIES
    ListenerRecovers
    BacklogDrains
    ThreadsEnd
CHECK_DEADLOCK FALSE
