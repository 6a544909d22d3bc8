SPECIFICATION FairSpec
CONSTANTS
    u1 = u1
    u2 = u2
    p1 = p1
    p2 = p2
    l1 = l1
    w1 = w1
    w2 = w2
    Users = {u1, u2}
    Polls = {p1, p2}
    UserOf <- OneUserTwice
    LocalWriters = {}
    RemoteWriters = {w1}
    Free = Free
    Audiences <- OnlyFirst
    MaxParked = 1
    MaxParkedPerUser = 1
    SyncThreads = 2
    PoolDepth = 1
    MaxOrdering = 1
    MaxRequests = 2
    MaxBoots = 1
    MaxFaults = 0
PROPERTIES
    EventWakes
    StopEndsPolls
    PollsEnd
CHECK_DEADLOCK FALSE
