CONSTANTS
    Items = {1, 2, 3}
    Size <- Sizes131
    Budget = 2
    Limit = 2
    FedMax = 1
    Threshold = 1
    Faults = {"retry", "skip", "limited", "io", "db", "space", "pause"}
    MaxFaults = 2
    MaxStarts = 1
SPECIFICATION FairSpec
INVARIANTS HandoffInv BudgetHeld DropsOnlyWhenLate
PROPERTIES ShutdownCompletes EveryWheelLeaves
