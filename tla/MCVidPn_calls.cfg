CONSTANTS
    MaxPaths = 2
    MaxModes = 2
SPECIFICATION Spec
INVARIANTS
    UsesHeld
    NothingHeld
    ModesOffered
    CommitSetsModes
CHECK_DEADLOCK FALSE
