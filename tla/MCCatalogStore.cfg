SPECIFICATION Spec
CONSTANTS
    p1 = p1
    p2 = p2
    c1 = c1
    c2 = c2
    Procs = {p1, p2}
    Catalogs = {c1, c2}
    None = None
    Torn = Torn
    SkipCap = 1
    MaxCalls = 3
    MaxFaults = 1
SYMMETRY Symmetry
INVARIANT TypeOK
INVARIANT ActiveWasApproved
INVARIANT DecisionsRespected
INVARIANT AdoptionAtomic
CHECK_DEADLOCK FALSE
