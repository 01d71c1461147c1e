SPECIFICATION FairSpec
CONSTANTS
    r1 = r1
    j1 = j1
    s1 = s1
    none = none
    small = small
    big = big
    Requests = {r1}
    Crons = {j1}
    Sweeps = {s1}
    None = none
    Paid = {small, big}
    FirstTier = small
    Period = 2
    Grace = 1
    MaxDay = 2
    MaxFaults = 1
INVARIANTS
    TypeOK
    PeriodChargedOnce
PROPERTIES
    DunningEnds
CHECK_DEADLOCK FALSE
