SPECIFICATION ExecutorFairSpec
CONSTANTS
    j1 = j1
    j2 = j2
    j3 = j3
    w1 = w1
    w2 = w2
    b1 = b1
    b2 = b2
    Descriptors = {j1, j2, j3}
    WorkKey <- MCWorkKey
    Reusable <- MCReusable
    Callers = {c1, c2}
    Workers = {w1, w2}
    Buckets = {b1, b2}
    BucketOf <- MCBucketOf
    Capacity = 1
    Budget = 1
    MaxRetained = 1
    NoJob = NoJob
    Nobody = Nobody
    MayStop = TRUE
INVARIANTS BudgetHolds LiveOnce
PROPERTIES EndsOnce ShutdownReturns
CHECK_DEADLOCK FALSE
