SPECIFICATION FairSpec
CONSTANTS
    Jobs = {j1, j2}
    Workers = {w1, w2}
    Projects = {p1}
    Scans = {s1}
    Files = {f1}
    Resources = {1}
    ResourceSets <- MCOneResource
    ProjectOf <- MCProjectOf
    NoJob = NoJob
    NoScan = NoScan
    NumBatches = 1
    MaxOwners = 2
    MaxRevision = 0
    MayCrash = FALSE
PROPERTIES EveryImportSettles
CHECK_DEADLOCK FALSE
