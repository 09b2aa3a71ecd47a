SPECIFICATION Spec
CONSTANTS
    Requests = {r1, r2}
    Amounts = {1}
    Cap = 1
    DayLength = 1
    SessionTtl = 1
    CostTtl = 2
    MaxTime = 2
    MaxIds = 3
    CreateIds = 1
    MaxBills = 3
    MaxDeaths = 1
SYMMETRY MCSymmetry
INVARIANTS
    OvershootBounded
    DailyBalanced
    SessionBalanced
    SessionsCounted
    SessionKeysExpire
CHECK_DEADLOCK FALSE
