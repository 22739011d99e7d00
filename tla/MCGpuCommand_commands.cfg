CONSTANTS
    b1 = b1
    b2 = b2
    b3 = b3
    d1 = d1
    d2 = d2
    NoBuf = NoBuf
    Worker = Worker
    NoThread = NoThread
    Bufs = {b1, b2, b3}
    Ddi = {d1, d2}
    CtrlRoom = 5
    CrsrRoom = 1
    CtrlCosts <- Attach
    ConfigIsr <- EitherBits
    MaxChanges = 1
    Cycles <- PowerAndUnload
SPECIFICATION Spec
INVARIANTS
    TypeOK
    OnePlace
    NoStaleEvent
    CompletionAccounted
SYMMETRY BufThreadSymmetry
VIEW LiveView
CHECK_DEADLOCK FALSE
