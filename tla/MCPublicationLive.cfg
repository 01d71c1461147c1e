SPECIFICATION FairSpec
CONSTANTS
    w1 = w1
    w2 = w2
    Workers = {w1, w2}
    MaxVersion = 1
    AsyncVersions = {1}
    MaxRetries = 2
    Bounds <- SmallBounds
PROPERTIES
    StopReachesPeople
    NoneStuckInProgress
    PauseReleases
CHECK_DEADLOCK FALSE
