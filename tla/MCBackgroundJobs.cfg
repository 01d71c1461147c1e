SPECIFICATION FairSpec
CONSTANTS
    w1 = w1
    w2 = w2
    Workers = {w1, w2}
    Jobs = {1, 2, 3}
    Keys = {1, 2}
    KeyOf <- TwinKeys
    Foreign = {1, 3}
    MaxAttempts = 3
    MaxFaults = 2
INVARIANTS
    TypeOK
    ResultOnce
    OneTickPerJob
    AttemptsArePaidFor
PROPERTIES
    SettledJobIsFinal
    JobsSettle
