SPECIFICATION FairSpec
CONSTANTS
    Key = {k1, k2}
    User = {u1, u2}
    Linker = {l1, l2, l3}
    NoRow = NoRow
INVARIANTS
    TypeOK
    OkMeansBound
    RefusalIsReal
PROPERTIES
    BindingStable
    RetrySucceeds
CHECK_DEADLOCK FALSE
