SPECIFICATION Spec
CONSTANTS
    s1 = s1
    s2 = s2
    Servers = {s1, s2}
    Ids = {"i1"}
    Ops = {"op"}
    Texts <- MCTexts
    Torn = "torn"
    Invalid = "invalid"
    HashOf <- MCHashOf
    Patched <- MCPatched
    MaxUses = 2
SYMMETRY Symmetry
INVARIANT TypeOK
INVARIANT AppliesWhatWasReviewed
INVARIANT DecisionIsFinal
INVARIANT ApprovalUsedOnce
CHECK_DEADLOCK FALSE
