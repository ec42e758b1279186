SPECIFICATION MediatorFairSpec
CONSTANTS
    root = root
    a = a
    b = b
    g1 = g1
    NULL = NULL
    Tasks <- MCTwo
    Root = root
    Pure = {}
    MpiTasks = {a}
    Groups <- MCGroups
    Owner <- MCOwner
    Handles <- MCHandles
    Throwers = {}
    MaxGroups = 2
    Scoped = FALSE
    NThreads = 2
    SkipGap = 64
PROPERTIES
    ThreadQueuesSpec
    EveryTaskEnds
    ShutsDown
