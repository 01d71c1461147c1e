SPECIFICATION Spec
CONSTANTS
    w1 = w1
    w2 = w2
    Jobs = {1}
    Workers = {w1}
    MaxAttempts = 3
    BatchSize = 1
    Concurrency = 1
    MaxFaults = 0
INVARIANTS
    GivenUpAtLimit
