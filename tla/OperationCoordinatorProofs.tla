--------------------- MODULE OperationCoordinatorProofs ---------------------
(* Theorems of OperationCoordinator, for every set of leases, keys,        *)
(* admissions and requests.                                                *)
EXTENDS OperationCoordinator, TLAPS

\* Only a granted lease is active, capturing, closed or notified, so that a
\* fresh lease brings no left-over flag with it.
Granting == /\ \A l \in active \cup capturing \cup closed : request[l] \in Request
            /\ notified \subseteq closed

IInv == TypeOK /\ Granting /\ CallbackAfterRemoval /\ Exclusion

\* The initial state satisfies the inductive invariant of the lease table.
LEMMA InitInvariant == Init => IInv
<1> QED BY DEF Init, IInv, TypeOK, Granting, CallbackAfterRemoval, Exclusion

\* A granted request is one the callers present (Lease's fields are final).
LEMMA GrantedIsRequest ==
    ASSUME TypeOK, NEW l \in Lease, Granted(l)
    PROVE  request[l] \in Request
<1> QED BY DEF TypeOK, Granted

\* tryAdmit keeps the table consistent: what compatible() finds for the
\* candidate is what has to hold between any two holders afterwards.
LEMMA AdmitStep ==
    ASSUME IInv, NEW l \in Lease, NEW r \in Request, tryAdmit(l, r)
    PROVE  IInv'
<1> USE RequestAssumption
<1>1. /\ l \notin active /\ l \notin capturing /\ l \notin closed
      /\ request[l] = NoRequest
  BY DEF IInv, Granting, tryAdmit, Granted
<1>2. /\ request' \in [Lease -> Request \cup {NoRequest}]
      /\ active' \subseteq Lease /\ closed' \subseteq Lease /\ notified' \subseteq Lease
      /\ stopped' \in BOOLEAN
  BY DEF IInv, TypeOK, tryAdmit
<1>3. \A m \in Lease : m # l => request'[m] = request[m]
  BY DEF IInv, TypeOK, tryAdmit
<1>4. request'[l] = r
  BY DEF IInv, TypeOK, tryAdmit
<1>5. TypeOK'
  <2>1. ASSUME NEW m \in capturing'
        PROVE  m \in Lease /\ request'[m] # NoRequest /\ request'[m].category \in Isolated
    <3>1. CASE m = l
      BY <2>1, <3>1, <1>1, <1>4 DEF tryAdmit, startsCapturing
    <3>2. CASE m # l
      BY <2>1, <3>2, <1>3 DEF IInv, TypeOK, tryAdmit
    <3> QED BY <3>1, <3>2
  <2> QED BY <1>2, <2>1 DEF TypeOK
<1>6. Granting'
  BY <1>1, <1>3, <1>4 DEF IInv, TypeOK, Granting, tryAdmit
<1>7. CallbackAfterRemoval'
  BY <1>1 DEF IInv, Granting, CallbackAfterRemoval, tryAdmit
<1>8. Exclusion'
  <2> SUFFICES ASSUME NEW x \in active', NEW y \in active', x # y
               PROVE  MayCoexist(x, y)'
    BY DEF Exclusion
  <2>1. /\ x \in Lease /\ y \in Lease
        /\ \A m \in Lease : m # l => (m \in capturing' <=> m \in capturing)
        /\ l \in capturing' <=> r.category \in Isolated
    BY <1>1 DEF IInv, TypeOK, tryAdmit, startsCapturing
  <2>2. \A m \in active : ~ Conflict(r, m) /\ request[m] \in Request
    BY DEF tryAdmit, admits, compatible, IInv, Granting
  <2>3. CASE x # l /\ y # l
    <3>1. x \in active /\ y \in active
      BY <2>3 DEF tryAdmit
    <3>2. MayCoexist(x, y)
      BY <3>1 DEF IInv, Exclusion
    <3> QED BY <3>2, <2>3, <2>1, <1>3 DEF MayCoexist
  <2>4. CASE x = l
    <3>1. y \in active
      BY <2>4 DEF tryAdmit
    <3>2. ~ Conflict(r, y) /\ request[y] \in Request
      BY <3>1, <2>2
    <3>3. request'[x] = r /\ request'[y] = request[y]
      BY <2>4, <2>1, <1>3, <1>4
    <3>4. y \in capturing' <=> y \in capturing
      BY <2>4, <2>1
    <3> QED BY <3>2, <3>3, <3>4, <2>1
         DEF MayCoexist, Conflict, Primary, Shared, Isolated, Category
  <2>5. CASE y = l
    <3>1. x \in active
      BY <2>5 DEF tryAdmit
    <3>2. ~ Conflict(r, x) /\ request[x] \in Request
      BY <3>1, <2>2
    <3>3. request'[y] = r /\ request'[x] = request[x]
      BY <2>5, <2>1, <1>3, <1>4
    <3>4. x \in capturing' <=> x \in capturing
      BY <2>5, <2>1
    <3> QED BY <3>2, <3>3, <3>4, <2>1
         DEF MayCoexist, Conflict, Primary, Shared, Isolated, Category
  <2> QED BY <2>3, <2>4, <2>5
<1> QED BY <1>5, <1>6, <1>7, <1>8 DEF IInv

\* Every step of the lease table preserves the inductive invariant.
LEMMA NextInvariant == IInv /\ [Next]_vars => IInv'
<1> SUFFICES ASSUME IInv, [Next]_vars PROVE IInv'
  OBVIOUS
<1>1. ASSUME NEW l \in Lease, NEW r \in Request, tryAdmit(l, r) PROVE IInv'
  BY <1>1, AdmitStep
<1>2. ASSUME NEW l \in Lease, finishSnapshotCapture(l) PROVE IInv'
  <2>1. Exclusion'
    BY <1>2 DEF IInv, Exclusion, MayCoexist, finishSnapshotCapture
  <2> QED BY <1>2, <2>1 DEF IInv, TypeOK, Granting, CallbackAfterRemoval, finishSnapshotCapture
<1>3. ASSUME NEW l \in Lease, close(l) PROVE IInv'
  <2>1. Granting'
    BY <1>3, GrantedIsRequest DEF IInv, Granting, close
  <2>2. Exclusion'
    BY <1>3 DEF IInv, Exclusion, MayCoexist, close
  <2> QED BY <1>3, <2>1, <2>2 DEF IInv, TypeOK, CallbackAfterRemoval, close
<1>4. ASSUME NEW l \in Lease, remove(l) PROVE IInv'
  <2>1. Exclusion'
    BY <1>4 DEF IInv, Exclusion, MayCoexist, remove
  <2> QED BY <1>4, <2>1 DEF IInv, TypeOK, Granting, CallbackAfterRemoval, remove
<1>5. ASSUME NEW l \in Lease, afterRelease(l) PROVE IInv'
  <2>1. Exclusion'
    BY <1>5 DEF IInv, Exclusion, MayCoexist, afterRelease
  <2> QED BY <1>5, <2>1
       DEF IInv, TypeOK, Granting, CallbackAfterRemoval, afterRelease, mayNotify
<1>6. ASSUME stopAdmissions PROVE IInv'
  <2>1. Exclusion'
    BY <1>6 DEF IInv, Exclusion, MayCoexist, stopAdmissions
  <2> QED BY <1>6, <2>1 DEF IInv, TypeOK, Granting, CallbackAfterRemoval, stopAdmissions
<1>7. ASSUME UNCHANGED vars PROVE IInv'
  <2>1. Exclusion'
    BY <1>7 DEF IInv, Exclusion, MayCoexist, vars
  <2> QED BY <1>7, <2>1 DEF IInv, TypeOK, Granting, CallbackAfterRemoval, vars
<1> QED BY <1>1, <1>2, <1>3, <1>4, <1>5, <1>6, <1>7 DEF Next

LEMMA Invariance == Spec => []IInv
<1> QED BY InitInvariant, NextInvariant, PTL DEF Spec

(* The lease table keeps its types in every reachable state, for every set *)
(* of leases and requests (the fields of OperationCoordinator).            *)
THEOREM TypeCorrect == Spec => []TypeOK
<1>1. IInv => TypeOK
  BY DEF IInv
<1> QED BY Invariance, <1>1, PTL

(* OperationCoordinator.compatible() is enough: no two conflicting leases  *)
(* are ever held together, for any number of leases, keys and admissions.  *)
THEOREM ExclusionHolds == Spec => []Exclusion
<1>1. IInv => Exclusion
  BY DEF IInv
<1> QED BY Invariance, <1>1, PTL

(* Lease.close() calls back only once the lease is out of the active map.  *)
THEOREM CallbackAfterRemovalHolds == Spec => []CallbackAfterRemoval
<1>1. IInv => CallbackAfterRemoval
  BY DEF IInv
<1> QED BY Invariance, <1>1, PTL

(* After stopAdmissions the active map only shrinks.                       *)
THEOREM QuiescenceIsStableHolds == Spec => QuiescenceIsStable
<1>1. [Next]_vars => [stopped => active' \subseteq active]_vars
  BY DEF Next, tryAdmit, admits, finishSnapshotCapture, close, remove,
         afterRelease, stopAdmissions, vars
<1> QED BY <1>1, PTL DEF Spec, QuiescenceIsStable

-----------------------------------------------------------------------------
(* Refinement of EngineGate.  One lemma per kind of step.                  *)

\* A lease's mode changes only when it is granted or removed.
LEMMA GateAdmitStep ==
    ASSUME IInv, NEW l \in Lease, NEW r \in Request, tryAdmit(l, r)
    PROVE  Gate!Next
<1> USE RequestAssumption
<1>1. /\ l \notin active /\ l \notin capturing
      /\ active' = active \cup {l}
      /\ request'[l] = r
      /\ \A m \in active : m \in Lease /\ request'[m] = request[m] /\ request[m] \in Request
  BY DEF IInv, TypeOK, Granting, tryAdmit, Granted
<1>2. \A m \in active : ~ Conflict(r, m)
  BY DEF tryAdmit, admits, compatible
<1>3. stopped' = stopped /\ ~ stopped
  BY DEF tryAdmit, admits
<1>4. /\ r.category \in Category /\ r.key \in Key /\ r.admission \in Admission
      /\ \A m \in active : request[m].category \in Category
  BY <1>1
<1>5. CASE r.category \in Primary
  <2>1. InPrimary = {} /\ InShared = {} /\ active \cap capturing = {}
    BY <1>1, <1>2, <1>4, <1>5
       DEF InPrimary, InShared, Conflict, Primary, Shared, Isolated, Category,
           IInv, Exclusion, TypeOK
  <2>2. InPrimary' = {l}
    BY <1>1, <1>5, <2>1 DEF InPrimary
  <2>3. InShared' = InShared /\ InIsolated' = InIsolated
    BY <1>1, <1>5, <2>1 DEF InShared, InIsolated, Primary, Shared, Isolated
  <2>4. (active \cap capturing)' = active \cap capturing
    BY <1>1, <1>5 DEF tryAdmit, startsCapturing, Primary, Isolated
  <2>5. Gate!EnterPrimary(l)
    BY <1>3, <2>1, <2>2, <2>3, <2>4 DEF Gate!EnterPrimary
  <2> QED BY <2>5 DEF Gate!Next
<1>6. CASE r.category \in Isolated
  <2>1. InPrimary = {} /\ InIsolated = {}
    BY <1>1, <1>2, <1>6 DEF InPrimary, InIsolated, Conflict
  <2>2. InIsolated' = {l} /\ InPrimary' = InPrimary /\ InShared' = InShared
    BY <1>1, <1>6, <2>1 DEF InPrimary, InShared, InIsolated, Primary, Shared, Isolated
  <2>3. \A m \in active \cap capturing : request[m].category \in Isolated
    BY DEF IInv, TypeOK
  <2>4. (active \cap capturing)' = {l}
    BY <1>1, <1>6, <2>1, <2>3 DEF tryAdmit, startsCapturing, InIsolated
  <2>5. Gate!EnterIsolated(l)
    BY <1>3, <2>1, <2>2, <2>4 DEF Gate!EnterIsolated
  <2> QED BY <2>5 DEF Gate!Next
<1>7. CASE r.category \in Shared
  <2> DEFINE v == <<r.key, r.admission>>
  <2>1. InPrimary = {}
    BY <1>1, <1>2, <1>4, <1>7 DEF InPrimary, Conflict, Primary, Shared, Isolated
  <2>2. \A x \in InShared : x[2] = v
    BY <1>1, <1>2, <1>4, <1>7 DEF InShared, Conflict, Primary, Shared, Isolated
  <2>3. InPrimary' = InPrimary /\ InIsolated' = InIsolated
    BY <1>1, <1>7 DEF InPrimary, InIsolated, Primary, Shared, Isolated
  <2>4. InShared' = InShared \cup {<<l, v>>}
    BY <1>1, <1>7 DEF InShared
  <2>5. (active \cap capturing)' = active \cap capturing
    BY <1>1, <1>7 DEF tryAdmit, startsCapturing, Shared, Isolated
  <2>6. Gate!EnterShared(l, v) /\ v \in Key \X Admission
    BY <1>3, <1>4, <2>1, <2>2, <2>3, <2>4, <2>5 DEF Gate!EnterShared
  <2> QED BY <2>6 DEF Gate!Next
<1> QED BY <1>4, <1>5, <1>6, <1>7 DEF Category, Primary, Shared, Isolated

\* Removing a lease is leaving the gate.
LEMMA GateRemoveStep ==
    ASSUME IInv, NEW l \in Lease, remove(l)
    PROVE  Gate!Leave(l)
<1>1. active' = active \ {l} /\ request' = request /\ capturing' = capturing
  BY DEF remove
<1>2. InPrimary' = InPrimary \ {l} /\ InIsolated' = InIsolated \ {l}
  BY <1>1 DEF InPrimary, InIsolated
<1>3. InShared' = {x \in InShared : x[1] # l}
  BY <1>1 DEF InShared
<1>4. (active \cap capturing)' = (active \cap capturing) \ {l}
  BY <1>1
<1> QED BY <1>2, <1>3, <1>4 DEF Gate!Leave, remove

\* Ending a capture is visible only while the lease is active and capturing.
LEMMA GateCaptureStep ==
    ASSUME IInv, NEW l \in Lease, finishSnapshotCapture(l)
    PROVE  Gate!Next \/ UNCHANGED Gate!vars
<1>1. active' = active /\ request' = request /\ capturing' = capturing \ {l}
      /\ stopped' = stopped
  BY DEF finishSnapshotCapture
<1>2. InPrimary' = InPrimary /\ InIsolated' = InIsolated /\ InShared' = InShared
  BY <1>1 DEF InPrimary, InIsolated, InShared
<1>3. CASE l \in active \cap capturing
  BY <1>1, <1>2, <1>3 DEF Gate!EndSnapshot, Gate!Next
<1>4. CASE l \notin active \cap capturing
  BY <1>1, <1>2, <1>4 DEF Gate!vars
<1> QED BY <1>3, <1>4

\* Steps that leave the active map, the requests and the captures alone.
LEMMA GateStutter ==
    ASSUME UNCHANGED <<active, request, capturing, stopped>>
    PROVE  UNCHANGED Gate!vars
<1> QED BY DEF Gate!vars, InPrimary, InIsolated, InShared

(* The lease table of OperationCoordinator implements the abstract gate:   *)
(* compatible(), written as a loop over pairs of categories, admits only   *)
(* what the single-writer, one-version, one-isolated-owner gate admits.    *)
THEOREM GateImplemented == Spec => ImplementsGate
<1>1. Init => Gate!Init
  BY DEF Init, Gate!Init, InPrimary, InIsolated, InShared
<1>2. IInv /\ [Next]_vars => [Gate!Next]_(Gate!vars)
  <2> SUFFICES ASSUME IInv, [Next]_vars PROVE Gate!Next \/ UNCHANGED Gate!vars
    OBVIOUS
  <2>1. ASSUME NEW l \in Lease, NEW r \in Request, tryAdmit(l, r) PROVE Gate!Next
    BY <2>1, GateAdmitStep
  <2>2. ASSUME NEW l \in Lease, finishSnapshotCapture(l)
        PROVE  Gate!Next \/ UNCHANGED Gate!vars
    BY <2>2, GateCaptureStep
  <2>3. ASSUME NEW l \in Lease, remove(l) PROVE Gate!Next
    BY <2>3, GateRemoveStep DEF Gate!Next
  <2>4. ASSUME NEW l \in Lease, close(l) \/ afterRelease(l)
        PROVE  UNCHANGED Gate!vars
    BY <2>4, GateStutter DEF close, afterRelease
  <2>5. ASSUME stopAdmissions PROVE Gate!Next
    <3>1. UNCHANGED <<InPrimary, InShared, InIsolated, active \cap capturing>>
      BY <2>5 DEF stopAdmissions, InPrimary, InShared, InIsolated
    <3> QED BY <2>5, <3>1 DEF stopAdmissions, Gate!Shut, Gate!Next
  <2>6. ASSUME UNCHANGED vars PROVE UNCHANGED Gate!vars
    BY <2>6, GateStutter DEF vars
  <2> QED BY <2>1, <2>2, <2>3, <2>4, <2>5, <2>6 DEF Next
<1> QED BY <1>1, <1>2, Invariance, PTL DEF Spec, ImplementsGate, Gate!Spec

=============================================================================
