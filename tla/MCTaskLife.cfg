SPECIFICATION LifeSpec
CONSTANTS
    root = root
    a = a
    b = b
    g1 = g1
    g2 = g2
    NULL = NULL
    Tasks <- MCTasks
    Root = root
    Pure = {b}
    MpiTasks = {a}
    Groups <- MCBoth
    Owner <- MCOwner
    Handles <- MCHandles
    Throwers = {a}
    MaxGroups = 3
    Scoped = FALSE
    NThreads = 3
INVARIANTS
    LifeTypeOK
    RefExact
    NoUseAfterDelete
    AllReclaimed
    CountExact
    NoLostWakeup
    JoinSafe
    IInv
