SPECIFICATION Spec
CONSTANTS
    Op = {o1, o2}
    Loader = Loader
    Closer = Closer
    Key = {k}
    Kinds = {"classRead", "symbolRead", "queryRead", "mappingExport", "temporary", "publishedRead", "save", "edit", "rebuild", "shutdown"}
    Job = {}
    JobCalls = {}
    None = None
    MaxQueued = 1
    MaxRunning = 1
    MaxRetained = 1
    MaxResultBytes = 1
    MaxTotalResultBytes = 1
    ResultSizes = {1}
SYMMETRY OpSymmetry
INVARIANTS
    TypeOK
    BorrowedEngineOpen
    EnginesOwned
    StoppedMeansQuiet
    PublicationConsistent
    ReservationHeld
PROPERTIES
    ReadsAreCurrent
CHECK_DEADLOCK FALSE
