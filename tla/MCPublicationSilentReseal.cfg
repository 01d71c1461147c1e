SPECIFICATION Spec
CONSTANTS
    w1 = w1
    w2 = w2
    Workers = {w1}
    MaxVersion = 2
    AsyncVersions = {}
    MaxRetries = 2
    Bounds <- VersionBounds
INVARIANTS
    SealIsApproved
CHECK_DEADLOCK FALSE
