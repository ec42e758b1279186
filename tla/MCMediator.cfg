SPECIFICATION MediatorSpec
CONSTANTS
    root = root
    a = a
    b = b
    g1 = g1
    NULL = NULL
    Tasks <- MCThree
    Root = root
    Pure = {b}
    MpiTasks = {}
    Groups <- MCGroups
    Owner <- MCOwner
    Handles <- MCHandles
    Throwers = {}
    MaxGroups = 2
    Scoped = FALSE
    NThreads = 3
    SkipGap = 64
INVARIANTS
    MediatorTypeOK
    OnePlace
    ReplaceEmpty
    ShutdownComplete
