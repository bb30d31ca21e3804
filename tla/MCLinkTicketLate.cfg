SPECIFICATION Spec
CONSTANTS
    t1 = t1
    t2 = t2
    Ticket = {t1, t2}
    Request = {r1, r2, r3}
    Exp <- MCExp
    TicksPerSecond = 2
    Horizon = 8
SYMMETRY Symmetry
INVARIANT ConsumedOnce
CHECK_DEADLOCK FALSE
