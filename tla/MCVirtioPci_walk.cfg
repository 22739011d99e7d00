CONSTANTS
    Devices <- MCDevices
    Slots <- MCSlots
    Bars <- MCBars
    Iterations = 4
    Word = 65536
    Garbage <- MCGarbage
    MaxStarts = 2
    MaxObjects = 2
    MaxChanges = 2
SPECIFICATION Spec
INVARIANTS
    LastUsableTaken
    AccessesInside
    KicksArrive
    MappingsKnown
    FieldsOfOneMoment
PROPERTIES
    WalkEndsUnlessLooped
CHECK_DEADLOCK FALSE
