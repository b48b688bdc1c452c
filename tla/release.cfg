SPECIFICATION Spec
CONSTANTS
    MaxCommit = 2
    MaxSource = 1
    MaxReleases = 1
    MaxTampers = 1
    TamperParts = {"reports", "app"}
    MaxBuilds = 1
    MaxFlat = 1
    Bad = Bad
    Dirty = Dirty
    None = None
INVARIANTS ReportsAreAdopted 
 
CHECK_DEADLOCK FALSE
