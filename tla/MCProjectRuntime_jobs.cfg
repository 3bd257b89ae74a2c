SPECIFICATION Spec
CONSTANTS
    Op = {o1}
    Loader = Loader
    Closer = Closer
    Key = {k}
    Kinds = {"save", "rebuild", "shutdown"}
    Job = {j1}
    JobCalls = {"cancel", "timer"}
    None = None
    MaxQueued = 1
    MaxRunning = 1
    MaxRetained = 1
    MaxResultBytes = 1
    MaxTotalResultBytes = 1
    ResultSizes = {1}
INVARIANTS
    LockOrderSafe
    JobsUseTheirSnapshot
    JobLeasesHaveSlots
PROPERTIES
    IdentityNeverReused
CHECK_DEADLOCK FALSE
