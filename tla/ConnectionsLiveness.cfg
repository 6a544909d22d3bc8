SPECIFICATION FairSpec
CONSTANTS
    c1 = c1
    c2 = c2
    w1 = w1
    w2 = w2
    k1 = k1
    Conns = {c1, c2}
    Workers = {w1}
    Main = Main
    KeyOf <- ClientOrProxy
    NoKey = NoKey
    NoConn = NoConn
    TlsConns = {c1}
    MaxPerAddress = 1
    MaxNew = 0
    MaxKeptAlive = 1
    MaxRequests = 1
INVARIANTS
    PoolNeverRefuses
PROPERTIES
    RequestsAreServed
    StopClosesEverything
CHECK_DEADLOCK FALSE
