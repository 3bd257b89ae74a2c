SPECIFICATION FairSpec
CONSTANTS
    Op = {o1}
    Loader = Loader
    Closer = Closer
    Key = {k}
    Kinds = {"queryRead", "shutdown"}
    Job = {j1}
    JobCalls = {}
    None = None
    MaxQueued = 1
    MaxRunning = 1
    MaxRetained = 1
    MaxResultBytes = 1
    MaxTotalResultBytes = 1
    ResultSizes = {1}
PROPERTIES
    JobsEnd
    ShutdownCompletes
CHECK_DEADLOCK FALSE
