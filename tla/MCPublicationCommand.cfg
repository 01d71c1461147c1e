SPECIFICATION Spec
CONSTANTS
    w1 = w1
    w2 = w2
    Workers = {w1, w2}
    MaxVersion = 1
    AsyncVersions = {}
    MaxRetries = 2
    Bounds <- RaceBounds
SYMMETRY WorkerSymmetry
INVARIANTS
    OneRunPerCommand
    NoAutomaticResend
    StopIsAnnounced
CHECK_DEADLOCK FALSE
