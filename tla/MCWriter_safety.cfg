SPECIFICATION FairSpec
CONSTANTS
    Clients = {c1, c2, c3}
    MaxOps = 1
    BatchSize = 2
    QueueMax = 1
    Faults = {"op", "commit", "pragma"}
    MaxCrashes = 1
    None = None
INVARIANTS TypeOK RepliesAreTrue ChangeSeqStrict NobodyLeftBehind
PROPERTIES ImplementsLog OneCallReturns StopReturns
\* a hang is a violation of the temporal properties; a stopped writer is not an error
CHECK_DEADLOCK FALSE
