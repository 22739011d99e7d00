CONSTANTS
    Width = 3
    Height = 2
    SrcPad = 1
    Rotations = {"identity", "90", "180", "270"}
    CursorSizes <- PointerShapes
    PointerSize = 3
    Room = 2
    MaxDraws = 2
SPECIFICATION Spec
INVARIANTS
    CopiesInside
    FrameBufferFollows
    ScreenFollows
CHECK_DEADLOCK FALSE
