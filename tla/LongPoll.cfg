SPECIFICATION Spec
CONSTANTS
    u1 = u1
    u2 = u2
    p1 = p1
    p2 = p2
    l1 = l1
    w1 = w1
    w2 = w2
    Users = {u1, u2}
    Polls = {p1}
    UserOf <- OneUser
    LocalWriters = {l1}
    RemoteWriters = {w1, w2}
    Free = Free
    Audiences <- EitherUser
    MaxParked = 1
    MaxParkedPerUser = 1
    SyncThreads = 1
    PoolDepth = 1
    MaxOrdering = 2
    MaxRequests = 3
    MaxBoots = 2
    MaxFaults = 0
SYMMETRY RemoteSymmetry
INVARIANTS
    TypeOK
    
    NoEventRepeated
    NoMissedWake
    TokensStayValid
CHECK_DEADLOCK FALSE
