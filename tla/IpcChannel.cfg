SPECIFICATION FairSpec
CONSTANTS
    a = a
    o1 = o1
    d1 = d1
    Callers = {a}
    Origins = {o1}
    NoOrigin = NoOrigin
    Digests = {d1}
    MaxCopies = 1
    MaxId = 2
    MaxRelays = 2
    MaxQueue = 1
    MaxInFlight = 1
INVARIANTS
    TypeOK
    NoStrandedCaller
PROPERTIES
    
    RepliesReachCallers
    StopReturns
CHECK_DEADLOCK FALSE
