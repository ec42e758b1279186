SPECIFICATION FairSpec
CONSTANTS
    root = root
    a = a
    b = b
    g1 = g1
    g2 = g2
    NULL = NULL
    Tasks <- MCTasks
    Root = root
    Pure = {}
    MpiTasks = {b}
    Groups <- MCGroups
    Owner <- MCOwner
    Handles <- MCHandles
    Throwers = {a}
    MaxGroups = 2
    Scoped = FALSE
INVARIANTS
    TypeOK
PROPERTIES
    NoResurrection
    WaitReturns
    JoinFairSpec
