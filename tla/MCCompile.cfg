SPECIFICATION Spec
CONSTANTS
    Params <- MCParams
    Returns <- MCReturns
    Chosen <- MCChosen
    Labels <- MCLabels
    Callees <- MCCallees
    AnyCalls = FALSE
    MaxNodes = 2
    MaxBlocks = 2
CONSTRAINT Worthwhile
INVARIANT TypeOK
INVARIANT Sound
INVARIANT RightIsAccepted
INVARIANT BelievedIsTrue
INVARIANT FailuresSeen
CHECK_DEADLOCK FALSE
