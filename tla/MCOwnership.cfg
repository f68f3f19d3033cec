SPECIFICATION Spec
CONSTANTS
    MaxNodes = 5
    MaxBlocks = 3
    Capacity = 1
CONSTRAINT Worthwhile
INVARIANT TypeOK
INVARIANT SafeUnlessLapse
INVARIANT TrackedIsLive
CHECK_DEADLOCK FALSE
