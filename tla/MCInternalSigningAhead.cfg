SPECIFICATION Spec
CONSTANTS
    m1 = m1
    m2 = m2
    Message = {m1, m2}
    Stamp <- MCStamp
    Process = {p1}
    Skew = 2
    TicksPerSecond = 2
    MaxRestarts = 0
    Horizon = 12
INVARIANT AcceptedOnce
CHECK_DEADLOCK FALSE
