CONSTANTS
    t1 = t1
    t2 = t2
    t3 = t3
    NoToken = NoToken
    Tokens = {t1, t2, t3}
    Num = 4
    IdxMod = 8
    Shapes <- CursorAttach
    Setups <- TableSetups
SPECIFICATION Spec
INVARIANTS
    TableIntact
    ChainsAsAsked
CHECK_DEADLOCK FALSE
SYMMETRY TokenSymmetry
VIEW LiveView
