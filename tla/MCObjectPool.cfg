SPECIFICATION FairSpec
CONSTANTS
    NThreads = 2
    InitSize = 1
    EnlargeRate = 2
    MaxCached = 1
    NLayers = 3
    HasDaemon = TRUE
    MaxTaken <- MCMaxTaken
    NULL = NULL
INVARIANTS
    TypeOK
    ListsExact
    CountersExact
    NoDangling
    StackRight
PROPERTY AllocatorSpec
CHECK_DEADLOCK FALSE
PROPERTIES
    ShrinksBack
    DaemonEnds
