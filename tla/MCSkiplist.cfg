SPECIFICATION Spec
CONSTANTS
    Queues = {q1, q2}
    SkipGap = 2
    NLayers = 3
    MaxTasks = 10
    NULL = NULL
SYMMETRY MCSymmetry
INVARIANTS
    OffsetsExact
    EveryNodeFull
    CandidateRight
PROPERTIES
    FairShare
    QueuesSpec
