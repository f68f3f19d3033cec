SPECIFICATION Spec
CONSTANTS
    Attempts = {"a1", "a2", "a3", "a4"}
    ContentCap = 2
    StubPool = 2
    StubMax = 2
    AttemptCap = 2
INVARIANT TypeOK
INVARIANT WithinCaps
INVARIANT MeasuredTree
INVARIANT EvidenceMatchesTree
PROPERTY SettledAtOnce
PROPERTY PersistEnds
CHECK_DEADLOCK FALSE
