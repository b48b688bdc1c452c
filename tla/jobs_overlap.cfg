SPECIFICATION Spec
CONSTANTS
    j1 = j1
    j2 = j2
    j3 = j3
    Jobs = {j1, j2}
    KeyOf <- MCKeyOf
    Imports = {}
    Handled = {j1}
    Procs = {p1, p2}
    ImportToken = ImportToken
    NoOwner = NoOwner
    Overlap = TRUE
    DbMayFail = TRUE
    MaxClock = 2
INVARIANTS CompletedByOwner
PROPERTY EndedIsFinal
SYMMETRY MCSymmetry
CHECK_DEADLOCK FALSE
