SPECIFICATION FairSpec
CONSTANTS
    t1 = t1
    t2 = t2
    Threads = {t1, t2}
    MaxCommits = 3
    MaxWorkers = 2
INVARIANTS
    TypeOK
    OkIsFresh
    OwnsItsWorker
PROPERTIES
    WorkerIsReplaced
CHECK_DEADLOCK FALSE
