SPECIFICATION Spec
CONSTANTS
    Slugs = {"calc"}
    Libs = {"lib"}
    Texts = {"t1"}
    SpecChoices <- MCSpecs
    MaxGen = 1
    MaxSnaps = 1
INVARIANT CompletedMeansAllPassed
CHECK_DEADLOCK FALSE
