SPECIFICATION Spec
CONSTANTS
    Proc = {p1}
    Module = {m1}
    File = {"f", "g"}
    MaxVersion = 2
    Shipped <- MCShipped
    MaxCalls = 6
    WideCalls = 6
    MaxFaults = 0
    MaxYanks = 1
    Absent = Absent
    Torn = Torn
INVARIANT InstallFindsDeclared
CHECK_DEADLOCK FALSE
