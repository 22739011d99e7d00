CONSTANTS
    HostSizes <- Sizes
    MaxChanges = 2
SPECIFICATION Spec
VIEW Live
INVARIANTS
    OfferedLargeEnough
    NewestFits
    NewestListed
CHECK_DEADLOCK FALSE
