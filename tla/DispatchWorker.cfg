SPECIFICATION Spec
CONSTANTS
    d1 = d1
    d2 = d2
    t1 = t1
    t2 = t2
    Destinations = {d1, d2}
    Threads = {t1, t2}
    Caller = Caller
    Free = Free
    NoTransaction = NoTransaction
    MaxQueueDepth = 2
    MaxPending = 2
    MaxRetries = 2
    BaseRetryInterval = 1
    MaxRetryInterval = 1
    SlowAttempt = 0
    DrainBudget = 1
    Policies <- NothingRefused
    MaxBatch = 2
    MaxTxn = 3
    MaxTime = 1
    MaxBoots = 1
    MaxFaults = 1
SYMMETRY Symmetry
INVARIANTS
    SlotsAreHeld
    OneAttemptPerDestination
    AttemptsKeepOrder
    CopyIsCurrent
    DrainIsComplete
CHECK_DEADLOCK FALSE
