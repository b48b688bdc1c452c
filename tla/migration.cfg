SPECIFICATION MigrationSpec
CONSTANTS
    Projects = {p1, p2}
    Files = {f1, f2}
    Jobs = {j1}
    Statements = 2
    MaxEdits = 2
    MaxRuns = 3
    None = None
    Ids = {1, 2}
    SourceLines = {l1, l2}
    Nil = Nil
    MaxWrites = 2
    MaxAttempts = 2
    MaxRehearsals = 2
INVARIANTS ResumeIsSound PublishedIsOneSnapshot MigratedIsExact LeavesNothing
PROPERTIES OthersKept
CHECK_DEADLOCK FALSE
