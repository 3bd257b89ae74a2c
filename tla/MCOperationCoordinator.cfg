SPECIFICATION Spec
CONSTANTS
    Lease = {l1, l2, l3, l4}
    k1 = k1
    k2 = k2
    a1 = a1
    a2 = a2
    Key = {k1, k2}
    Admission = {a1, a2}
    Request <- MCRequest
    NoRequest = NoRequest
SYMMETRY LeaseSymmetry
INVARIANTS
    Exclusion
    CallbackAfterRemoval
PROPERTIES
    ImplementsGate
CHECK_DEADLOCK FALSE
