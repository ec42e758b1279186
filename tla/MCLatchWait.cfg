SPECIFICATION FairSpec
CONSTANTS
    Downers = {d1, d2}
    Waiters = {w}
    NULL = NULL
PROPERTY
    WaitReturns
