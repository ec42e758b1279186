SPECIFICATION Spec
CONSTANTS
    p = p
    q = q
    r = r
    s = s
    o1 = o1
    o2 = o2
    o3 = o3
    t = t
    u = u
    NULL = NULL
    Ptrs <- MCPtrs
    Threads <- MCThreads
    Owner <- MCOwner
    Objects <- MCObjects
SYMMETRY MCSymmetry
INVARIANTS
    TypeOK
    RefExact
    LiveExact
    ListIntact
