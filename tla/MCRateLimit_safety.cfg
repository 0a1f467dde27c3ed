CONSTANTS
    index = index
    t1 = t1
    t2 = t2
    files = files
    Callers = {t1, t2}
    Children = {index, files}
    Cost = 2
    Rate = 3
    Burst = 3
    CRate <- Rates
    CBurst <- Bursts
    Penalty = 2
    MaxPenalties = 1
    MaxTime = 4
SPECIFICATION Spec
SYMMETRY Symmetry
INVARIANTS TypeOK GrantsBounded ReserveBounded WaitIsRight
CHECK_DEADLOCK FALSE
