SPECIFICATION Spec
CONSTANTS
    w1 = w1
    w2 = w2
    Workers = {w1}
    MaxVersion = 2
    AsyncVersions = {2}
    MaxRetries = 1
    Bounds <- VersionBounds
INVARIANTS
    VersionSentOnce
CHECK_DEADLOCK FALSE
