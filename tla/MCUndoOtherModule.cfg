SPECIFICATION Spec
CONSTANTS
    p1 = p1
    p2 = p2
    lib = lib
    Procs = {p1}
    Main = main
    Modules = {main, lib}
    Versions = {1, 2}
    Torn = Torn
    MaxSeq = 2
INVARIANT UndoRestoresItsModule
CHECK_DEADLOCK FALSE
