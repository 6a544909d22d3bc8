SPECIFICATION Spec
CONSTANTS
    t1 = t1
    t2 = t2
    Threads = {t1, t2}
    MaxCommits = 2
    MaxWorkers = 1
INVARIANTS
    ServedByMainUntilReloaded
CHECK_DEADLOCK FALSE
