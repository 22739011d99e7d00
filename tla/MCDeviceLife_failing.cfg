CONSTANTS
    QueueSize = 2
    MaxStarts = 2
    MaxPowerDowns = 1
    MayFail <- Steps
SPECIFICATION FairSpec
INVARIANTS
    RingsAllocated
    HandlersFindQueues
PROPERTIES
    CallsReturn
    LossesKnown
CHECK_DEADLOCK FALSE
