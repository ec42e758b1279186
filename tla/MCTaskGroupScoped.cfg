SPECIFICATION Spec
CONSTANTS
    root = root
    a = a
    b = b
    g1 = g1
    g2 = g2
    NULL = NULL
    Tasks <- MCTasks
    Root = root
    Pure = {}
    MpiTasks = {}
    Groups <- MCGroups
    Owner <- MCOwner
    Handles <- MCHandles
    Throwers = {}
    MaxGroups = 4
    Scoped = TRUE
INVARIANT
    NoDanglingInform
