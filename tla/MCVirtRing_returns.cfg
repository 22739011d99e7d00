CONSTANTS
    t1 = t1
    t2 = t2
    t3 = t3
    NoToken = NoToken
    Tokens = {t1, t2}
    Num = 2
    IdxMod = 4
    Shapes <- SmallShapes
    Setups <- ViogpuSetup
SPECIFICATION FairSpec
PROPERTIES
    ImplementsQueue
    EveryTokenReturns
CHECK_DEADLOCK FALSE
