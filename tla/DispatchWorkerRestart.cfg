SPECIFICATION Spec
CONSTANTS
    d1 = d1
    d2 = d2
    t1 = t1
    t2 = t2
    Destinations = {d1, d2}
    Threads = {t1}
    Caller = Caller
    Free = Free
    NoTransaction = NoTransaction
    MaxQueueDepth = 1
    MaxPending = 2
    MaxRetries = 2
    BaseRetryInterval = 1
    MaxRetryInterval = 1
    SlowAttempt = 0
    DrainBudget = 1
    Policies <- OneRefused
    MaxBatch = 1
    MaxTxn = 3
    MaxTime = 1
    MaxBoots = 2
    MaxFaults = 1
SYMMETRY Symmetry
INVARIANTS
    TypeOK
    AcceptedIsDurable
    SettledIsFinal
    NothingIsForgotten
    BacklogIsNotStranded
    QueueIsBounded
CHECK_DEADLOCK FALSE
