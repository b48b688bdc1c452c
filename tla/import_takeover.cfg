SPECIFICATION Spec
CONSTANTS
    Jobs = {j1, j2}
    Workers = {w1, w2}
    Projects = {p1}
    Scans = {s1, s2}
    Files = {f1}
    Resources = {1}
    ResourceSets <- MCOneResource
    ProjectOf <- MCProjectOf
    NoJob = NoJob
    NoScan = NoScan
    NumBatches = 1
    MaxOwners = 2
    MaxRevision = 2
    MayCrash = TRUE
CONSTRAINT MCFocus
SYMMETRY MCSymmetry
INVARIANTS LeaseMatchesFence TerminalHoldsNoLock CurrentIsComplete  CheckpointMatchesFacts
PROPERTIES SupersededChangesNothing
CHECK_DEADLOCK FALSE
