SPECIFICATION Spec
CONSTANTS
    m1 = m1
    m2 = m2
    Message = {m1, m2}
    Stamp <- MCStamp
    Process = {p1}
    Skew = 2
    TicksPerSecond = 2
    MaxRestarts = 1
    Horizon = 9
INVARIANTS
    TypeOK
    SkewApart
    OldRequestAtEdge
    NonceMeansAccepted
CHECK_DEADLOCK FALSE
