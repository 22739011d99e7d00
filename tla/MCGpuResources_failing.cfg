CONSTANTS
    k1 = k1
    k2 = k2
    k3 = k3
    m1 = m1
    m2 = m2
    Pointer = Pointer
    NoBlock = NoBlock
    NoObj = NoObj
    Modes = {m1}
    Blocks = {k1, k2, k3}
    MaxId = 2
    Bytes <- Sizes
    Outcomes <- MayFail
    CtrlBound = 2
    CrsrBound = 2
    PowerCycles = TRUE
SPECIFICATION Spec
INVARIANTS
    IdAccounting
    ActiveIsLive
    HostFollows
    FreedIsDetached
    HostAccepts
    MdlsFollowObjects
CHECK_DEADLOCK FALSE
SYMMETRY BlockSymmetry
