SPECIFICATION FairSpec
CONSTANTS
    k1 = k1
    NumServices = 2
    Dead = {1}
    MaxEvents = 2
    MaxItems = 2
    Keys = {k1}
    MaxQueued = 1
    MaxEphemeral = 2
    PerTransaction = 1
    PerDrain = 1
    MaxCrashes = 1
    MaxFaults = 1
INVARIANTS
    TransactionsAreFixed
PROPERTIES
    QueuedIsDelivered
