SPECIFICATION FairSpec
CONSTANTS
    Clients = {c1, c2, c3}
    MaxOps = 1
    BatchSize = 1
    QueueMax = 1
    Faults = {"commit"}
    MaxCrashes = 0
    None = None
PROPERTY EveryCallReturns
CHECK_DEADLOCK FALSE
