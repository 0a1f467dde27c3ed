SPECIFICATION FairSpec
CONSTANTS
    c1 = c1
    c2 = c2
    Clients = {c1, c2}
    Order <- TwoStages
    Needs <- FetchNeedsConvert
    Chunks = 2
    Workers = 1
    Histories <- SmallHistories
    MaxSignals = 2
INVARIANTS DaemonInv CleanExit
PROPERTIES PauseHolds RecoveryAlone ShutdownEnds EveryClientAnswered
CHECK_DEADLOCK FALSE
