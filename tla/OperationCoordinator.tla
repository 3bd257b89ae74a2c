------------------------ MODULE OperationCoordinator ------------------------
(***************************************************************************)
(* scheduler/OperationCoordinator.java: fail-fast admission of operations  *)
(* to the one Jadx engine of a project.                                    *)
(*                                                                         *)
(* Every synchronized (monitor) block is one action.  A refused tryAdmit   *)
(* changes nothing and is no step.  Lease.close() is three steps, because  *)
(* the compare-and-set, the removal under the monitor and the afterRelease *)
(* callback can each be separated by another thread.                       *)
(***************************************************************************)
EXTENDS FiniteSets

CONSTANTS Lease,     \* lease identities (UUIDs); each is granted at most once
          Key,       \* operation keys, chosen by the caller
          Admission, \* (session, logical revision) pairs published by the runtime
          Request,   \* the (request, admission) pairs callers present
          NoRequest  \* a lease not granted yet

Category == {"PROJECT_EXCLUSIVE", "CLASS_READ", "INDEX_READ", "QUERY_READ",
             "TEMPORARY_ANALYSIS"}

\* Categories whose owner may touch the primary engine.
Primary == {"PROJECT_EXCLUSIVE", "CLASS_READ"}

\* Categories that read a published snapshot and may share it.
Shared == {"INDEX_READ", "QUERY_READ"}

Isolated == {"TEMPORARY_ANALYSIS"}

ASSUME RequestAssumption ==
    /\ Request \subseteq [category : Category, key : Key, admission : Admission]
    /\ NoRequest \notin Request

VARIABLES active,    \* leases in the active map
          request,   \* what each lease was granted for
          capturing, \* leases whose `capturing` field is true
          closed,    \* leases whose `closed` flag won its compare-and-set
          notified,  \* leases whose afterRelease callback was called
          stopped    \* admissions are refused for good

vars == <<active, request, capturing, closed, notified, stopped>>

TypeOK == /\ active \subseteq Lease
          /\ request \in [Lease -> Request \cup {NoRequest}]
          /\ capturing \subseteq {l \in Lease : /\ request[l] # NoRequest
                                              /\ request[l].category \in Isolated}
          /\ closed \subseteq Lease
          /\ notified \subseteq Lease
          /\ stopped \in BOOLEAN

Init == /\ active = {}
        /\ request = [l \in Lease |-> NoRequest]
        /\ capturing = {}
        /\ closed = {}
        /\ notified = {}
        /\ stopped = FALSE

Granted(l) == request[l] # NoRequest

-----------------------------------------------------------------------------
(* Does candidate r conflict with the active lease l ?  One pass of the    *)
(* loop in compatible(), the leading isolated-isolated test included.      *)

Conflict(r, l) ==
    LET existing == request[l] IN
    \/ /\ r.category \in Isolated
       /\ existing.category \in Isolated \cup Primary
    \/ /\ r.category \in Primary
       /\ existing.category \in Isolated
       /\ l \in capturing
    \/ /\ r.category \notin Isolated
       /\ existing.category \notin Isolated
       /\ \/ r.category \in Primary
          \/ existing.category \in Primary
          \/ r.key # existing.key
          \/ r.admission # existing.admission

compatibleByKeyOnly(r) ==  \* bug: the admission is not compared
    \A l \in active :
        IF r.category \in Shared /\ request[l].category \in Shared
        THEN r.key = request[l].key
        ELSE ~ Conflict(r, l)

compatible(r) == \A l \in active : ~ Conflict(r, l)

admitsWhenStopped(r) == compatible(r)  \* bug: the stop flag is not tested

admits(r) == ~ stopped /\ compatible(r)

\* Lease's constructor: capturing is initially true for an isolated lease only.
startsCapturing(r) == r.category \in Isolated

tryAdmit(l, r) ==
    /\ ~ Granted(l)
    /\ admits(r)
    /\ active' = active \cup {l}
    /\ request' = [request EXCEPT ![l] = r]
    /\ capturing' = IF startsCapturing(r) THEN capturing \cup {l} ELSE capturing
    /\ UNCHANGED <<closed, notified, stopped>>

\* Throws, and changes nothing, on any other category or a closed lease.
finishSnapshotCapture(l) ==
    /\ Granted(l)
    /\ request[l].category \in Isolated
    /\ l \notin closed
    /\ capturing' = capturing \ {l}
    /\ UNCHANGED <<active, request, closed, notified, stopped>>

\* closed.compareAndSet(false, true): only the first close() goes on.
close(l) ==
    /\ Granted(l)
    /\ l \notin closed
    /\ closed' = closed \cup {l}
    /\ UNCHANGED <<active, request, capturing, notified, stopped>>

remove(l) ==
    /\ l \in closed \cap active
    /\ active' = active \ {l}
    /\ UNCHANGED <<request, capturing, closed, notified, stopped>>

mayNotifyEarly(l) == l \in closed \ notified  \* bug: the callback precedes the removal

mayNotify(l) == l \in closed \ (active \cup notified)

\* afterRelease.run(), outside the monitor.  What it does is the caller's.
afterRelease(l) ==
    /\ mayNotify(l)
    /\ notified' = notified \cup {l}
    /\ UNCHANGED <<active, request, capturing, closed, stopped>>

stopAdmissions ==
    /\ stopped' = TRUE
    /\ UNCHANGED <<active, request, capturing, closed, notified>>

inFlightCount == Cardinality(active)

primaryEngineInUse == \E l \in active : request[l].category \in Primary

Next == \/ \E l \in Lease : \/ \E r \in Request : tryAdmit(l, r)
                            \/ finishSnapshotCapture(l)
                            \/ close(l)
                            \/ remove(l)
                            \/ afterRelease(l)
        \/ stopAdmissions

Spec == Init /\ [][Next]_vars

-----------------------------------------------------------------------------
(* Two active leases may coexist.  Unlike compatible(), which looks at the *)
(* candidate at admission time, this is symmetric and has to stay true of  *)
(* every pair for as long as both are held.                                *)

MayCoexist(l, m) ==
    LET a == request[l]  b == request[m] IN
    \/ /\ a.category \in Shared /\ b.category \in Shared
       /\ a.key = b.key /\ a.admission = b.admission
    \/ a.category \in Shared /\ b.category \in Isolated
    \/ a.category \in Isolated /\ b.category \in Shared
    \/ a.category \in Primary /\ b.category \in Isolated /\ m \notin capturing
    \/ a.category \in Isolated /\ b.category \in Primary /\ l \notin capturing

(* Every pair of held leases may coexist: the primary engine never has two *)
(* users, never a reader of another snapshot next to a writer, and no      *)
(* capture overlaps a primary owner, whatever the order of admissions,     *)
(* capture ends and releases (OperationCoordinator.compatible).            *)
Exclusion == \A l, m \in active : l # m => MayCoexist(l, m)

(* afterRelease (ProjectRuntime.operationCompleted) never runs for a lease *)
(* that is still counted by inFlightCount or primaryEngineInUse, although  *)
(* close() removes it under a monitor and calls back outside it: otherwise *)
(* the last release could conclude that the engine is still in use and     *)
(* nobody would ever stop the runtime.                                     *)
CallbackAfterRemoval == notified \cap active = {}

(* After stopAdmissions no lease becomes active again: what                *)
(* inFlightCount reports can only fall, so quiescence, once seen, stays.   *)
QuiescenceIsStable == [][stopped => active' \subseteq active]_vars

\* The mode each lease is in, seen as the abstract gate sees it.
InPrimary == {l \in active : request[l].category \in Primary}
InIsolated == {l \in active : request[l].category \in Isolated}
InShared == {<<l, <<request[l].key, request[l].admission>>>> :
                l \in {m \in active : request[m].category \in Shared}}

Gate == INSTANCE EngineGate WITH
            Owner <- Lease,
            Version <- Key \X Admission,
            primary <- InPrimary,
            readers <- InShared,
            isolated <- InIsolated,
            snapshotting <- active \cap capturing,
            open <- ~ stopped

(* The coordinator implements the abstract gate: every step of the lease   *)
(* table is an entry, an exit, the end of a snapshot, the shutting of the  *)
(* gate, or invisible.                                                     *)
ImplementsGate == Gate!Spec

=============================================================================
