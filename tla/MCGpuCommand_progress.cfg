CONSTANTS
    b1 = b1
    b2 = b2
    b3 = b3
    d1 = d1
    d2 = d2
    NoBuf = NoBuf
    Worker = Worker
    NoThread = NoThread
    Bufs = {b1, b2}
    Ddi = {}
    CtrlRoom = 2
    CrsrRoom = 1
    CtrlCosts <- TwoDescriptors
    ConfigIsr <- BothBits
    MaxChanges = 3
    Cycles <- Unload
SPECIFICATION FairSpec
PROPERTIES
    EveryAskAnswered
    ChangeHandled
    UnloadEnds
CHECK_DEADLOCK FALSE
