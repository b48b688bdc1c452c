SPECIFICATION FairSpec
CONSTANTS
    j1 = j1
    j2 = j2
    j3 = j3
    Jobs = {j1, j2, j3}
    KeyOf <- MCKeyOf
    Imports = {j3}
    Handled = {j1}
    Procs = {p1, p2, p3}
    ImportToken = ImportToken
    NoOwner = NoOwner
    Overlap = FALSE
    DbMayFail = TRUE
    MaxClock = 1
 
PROPERTY EveryJobSettles
CHECK_DEADLOCK FALSE
