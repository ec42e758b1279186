SPECIFICATION FairSpec
CONSTANTS
    Downers = {d1, d2, d3, d4}
    Waiters = {w}
    NULL = NULL
INVARIANTS
    TypeOK
    LatchSafe
    WokenOnce
PROPERTY
    RegisteredReturns
