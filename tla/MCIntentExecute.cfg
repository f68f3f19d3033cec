SPECIFICATION Spec
CONSTANTS
    Slugs = {"calc"}
    Libs = {"lib"}
    Texts = {"t1", "t2"}
    SpecChoices <- MCSpecs
    MaxGen = 2
    MaxSnaps = 2
INVARIANT TypeOK
INVARIANT IntentNeverLost
INVARIANT OneUndoRevertsMain
INVARIANT SuccessIsVerified
INVARIANT OutcomeMatchesDisk
PROPERTY OnlyVerifierHangs
CHECK_DEADLOCK FALSE
