SPECIFICATION Spec
CONSTANTS
    c1 = c1
    c2 = c2
    w1 = w1
    w2 = w2
    k1 = k1
    Conns = {c1, c2}
    Workers = {w1, w2}
    Main = Main
    KeyOf <- ClientOrProxy
    NoKey = NoKey
    NoConn = NoConn
    TlsConns = {}
    MaxPerAddress = 1
    MaxNew = 1
    MaxKeptAlive = 1
    MaxRequests = 2
SYMMETRY WorkerSymmetry
INVARIANTS
    TypeOK
    OneOwner
    SharesAreExact
    ParkedIsBudgeted
    NoMissedWake
CHECK_DEADLOCK FALSE
