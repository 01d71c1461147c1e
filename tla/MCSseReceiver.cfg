SPECIFICATION FairSpec
CONSTANTS
    a = a
    b = b
    r1 = r1
    r2 = r2
    i1 = i1
    i2 = i2
    none = none
    Streams = {a, b}
    Receivers = {r1, r2}
    Instances = {i1, i2}
    Limit = 1
    MaxFaults = 1
    None = none
INVARIANTS
    TypeOK
    OneReceiver
    TakeoverIsHeard
PROPERTIES
    DeadPlaceIsFreed
CHECK_DEADLOCK FALSE
