SPECIFICATION LiveSpec
CONSTANTS
    PipeSize = 1
    OutputMax = 3
    InputMax = 2
    LogLimit = 2
INVARIANT HonestResult
PROPERTY NobodyWaitsForever
CHECK_DEADLOCK FALSE
