SPECIFICATION FairSpec
CONSTANTS
    c1 = c1
    c2 = c2
    s1 = s1
    o1 = o1
    none = none
    Callers = {c1, c2}
    Sweepers = {s1}
    Orders = {o1}
    NoOrder = none
    MaxFaults = 3
INVARIANTS
    TypeOK
    ConfirmedInLedger
    SoleAttemptWhileFresh
PROPERTIES
    PaysInOrder
    CapturedIsBooked
