CONSTANTS
    Projects = {p1, p2}
    BatchLimit = 1
    Threshold = 1
    MaxAttempts = 1
    Faults = {"poll", "limited", "retry", "raise"}
    MaxFaults = 2
    MaxSerial = 3
    MaxCrashes = 1
SPECIFICATION FairSpec
INVARIANTS SyncInv NothingDropped
PROPERTIES CatchesUpUnharmed
CHECK_DEADLOCK FALSE
