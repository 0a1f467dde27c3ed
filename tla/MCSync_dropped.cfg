CONSTANTS
    Projects = {p1, p2}
    BatchLimit = 2
    Threshold = 2
    MaxAttempts = 1
    Faults = {"retry"}
    MaxFaults = 1
    MaxSerial = 2
    MaxCrashes = 0
SPECIFICATION FairSpec
PROPERTIES CatchesUp
CHECK_DEADLOCK FALSE
