SPECIFICATION Spec
CONSTANTS
    Job = {j1, j2, j3}
    None = None
    MaxQueued = 1
    MaxRunning = 1
    MaxRetained = 2
    MaxResultBytes = 2
    MaxTotalResultBytes = 3
    ResultSizes = {2, 3}
SYMMETRY JobSymmetry
INVARIANTS
    SlotsAccounted
    NothingLost
    LeasesAccounted
    StreamsWellFormed
    RetentionBounded
    QueueOverrunBounded
PROPERTIES
    StartsInOrder
    DropsOldestFirst
    ImplementsLifecycle
CHECK_DEADLOCK FALSE
