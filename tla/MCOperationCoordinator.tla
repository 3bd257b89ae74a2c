----------------------- MODULE MCOperationCoordinator -----------------------
(* Four leases, two keys, two admissions.  Only shared requests are told   *)
(* apart by key and admission, so the other categories come once each.     *)
EXTENDS OperationCoordinator, TLC

CONSTANTS k1, k2, a1, a2

MCRequest == {[category |-> c, key |-> k1, admission |-> a1] : c \in Category}
             \cup {[category |-> "QUERY_READ", key |-> k2, admission |-> a1],
                   [category |-> "QUERY_READ", key |-> k1, admission |-> a2]}

LeaseSymmetry == Permutations(Lease)

=============================================================================
