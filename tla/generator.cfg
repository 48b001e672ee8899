SPECIFICATION Spec
CONSTANTS
    a = a
    b = b
    v = v
    g1 = g1
    g2 = g2
    Generators = {g1, g2}
    Tables = {a, b}
    Views = {v}
    Reads <- BothTables
    Calls <- MCCalls
    LastNumber = 20
    MaxCalls = 3
    MaxByHand = 1
    MaxFaults = 2
SYMMETRY Symmetry
CHECK_DEADLOCK FALSE
INVARIANTS TypeOK JournalledFilesExist JournalNamesEachOnce JournalledFilesWhole
           NumberIsFresh DependenciesFirst OkMeansCaptured DuplicatesPaidFor
