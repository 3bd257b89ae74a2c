SPECIFICATION Spec
CONSTANTS
    Caller = {c1, c2}
    None = None
    UNSET = UNSET
    Used = {"snapshot", "job", "importMappings", "applyDeclarations"}
    MaxBoots = 2
    MaxRevision = 2
    MaxIntents = 2
    MaxAttempts = 2
SYMMETRY CallerSymmetry
INVARIANTS
    TypeOK
    CacheIsPast
    GuardedChangeAppliedOnce
PROPERTIES
    CacheMovesForward
CHECK_DEADLOCK FALSE
