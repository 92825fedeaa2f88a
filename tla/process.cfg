SPECIFICATION FairSpec
CONSTANTS
    Workers = {w1, w2}
    MaxMessages = 2
INVARIANTS
    DestroyedAfterItsReaders
    LogKeepsEveryPart
    NoCircularWait
PROPERTIES
    InstancesReturn
CHECK_DEADLOCK FALSE
