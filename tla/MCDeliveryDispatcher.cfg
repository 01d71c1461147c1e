SPECIFICATION FairSpec
CONSTANTS
    w1 = w1
    w2 = w2
    Jobs = {1, 2}
    Workers = {w1, w2}
    MaxAttempts = 3
    BatchSize = 1
    Concurrency = 1
    MaxFaults = 1
INVARIANTS
    TypeOK
    SendsArePaidFor
    ClaimIsExclusive
    UntroubledOnce
    TriesWithinLimit
PROPERTIES
    DeliveredIsFinal
    EventuallySettled
