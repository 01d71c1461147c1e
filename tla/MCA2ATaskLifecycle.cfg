SPECIFICATION FairSpec
CONSTANTS
    m1 = m1
    q1 = q1
    q2 = q2
    p1 = p1
    p2 = p2
    s1 = s1
    Messages = {m1}
    Senders = {q1, q2}
    Pollers = {p1, p2}
    Sweeps = {s1}
    Channels = {1, 2}
INVARIANTS
    TypeOK
    DispatchedOnce
    ArtifactsMatchState
    FailureHasCause
PROPERTIES
    CompletedNotFailed
    WorkingEnds
CHECK_DEADLOCK FALSE
