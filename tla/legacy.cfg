SPECIFICATION Spec
CONSTANTS
    Files = {f1, f2}
    Savers = {s1, s2}
    JobIds = {j1, j2}
    None = None
    MaxSaves = 2
    MaxInjects = 1
    MaxFaults = 1
    MaxRestarts = 1
    Reads = 1
CONSTRAINT MCFocus
SYMMETRY MCSymmetry
INVARIANTS ReadyIsExact OneRunnerPerType 
CHECK_DEADLOCK FALSE
