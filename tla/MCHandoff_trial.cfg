CONSTANTS
    Items = {1, 2}
    Size <- Sizes12
    Budget = 2
    Limit = 2
    FedMax = 1
    Threshold = 1
    Faults = {"retry"}
    MaxFaults = 2
    MaxStarts = 0
SPECIFICATION FairSpec
PROPERTIES TrialResolves
