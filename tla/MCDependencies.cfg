SPECIFICATION MCSpec
CONSTANTS
    Proc = {p1, p2}
    Module = {m1, m2}
    File = {"f", "g"}
    MaxVersion = 2
    Shipped <- MCShipped
    MaxCalls = 5
    WideCalls = 2
    MaxFaults = 1
    MaxYanks = 1
    Absent = Absent
    Torn = Torn
SYMMETRY Symmetry
CONSTRAINT WideOrNarrow
INVARIANT TypeOK
INVARIANT ConfigKept
INVARIANT WholeStaysLocked
INVARIANT BuildMatchesLock
INVARIANT FrozenKeepsLock
INVARIANT VendorIsCurrent
CHECK_DEADLOCK FALSE
