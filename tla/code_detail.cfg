SPECIFICATION Spec
CONSTANTS
    Threads = {t1, t2}
    Readers = {t1, t2}
    Conns = {c1, c2}
    MaxConnections = 2
    MaxVersion = 1
    MaxOthers = 1
    None = None
    Missing = Missing
    MaxGeneration = 1
    MaxMetadata = 1
    MaxChunks = 1
    MaxIdentities = 1
    MaxOverlays = 1
    MaxChanges = 1
    Oversize = {"overlay"}
INVARIANTS AnswerIsCurrent PoolBounded WaitersAreServed
SYMMETRY Symmetry
CHECK_DEADLOCK FALSE
