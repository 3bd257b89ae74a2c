------------------------ MODULE ProjectRuntimeLeases ------------------------
(***************************************************************************)
(* Theorems of ProjectRuntime, part 1: who is where, and who holds which   *)
(* lease.  For every set of operations, jobs and keys, and every limit.    *)
(***************************************************************************)
EXTENDS ProjectRuntime, FiniteSetTheorems, TLAPS

Holder == Op \cup Job          \* who may hold a lease

Primary == {"PROJECT_EXCLUSIVE", "CLASS_READ"}

\* Places of an operation that holds its lease, the last one up to its release.
UnderLease == {"capture", "use", "snapshot", "create", "save", "stage", "publish", "closeOld",
               "discard", "fatal", "report", "restore", "release", "shutdownSave"}

\* Those that only an operation with exclusive admission gets to.
Exclusive == {"save", "stage", "publish", "closeOld", "fatal", "report", "restore", "shutdownSave"}

\* Places inside closeInternal().
InClose == {"detach", "jobs", "executors", "cleanup", "finish"}

Unclosed == {"idle", "prepared", "submitted"}  \* a job before the release of its lease

OpPlace == {"idle", "read", "check", "returned", "closing", "accept", "unreserve", "signal", "done"}
           \cup UnderLease \cup InClose
JobPlace == Unclosed \cup {"closing", "fatal", "done"} \cup InClose
LoaderPlace == {"idle", "create", "load", "publish", "failed", "discard", "end", "done"}
CloserPlace == {"idle", "done"} \cup InClose

MayBeAt(a, place) == /\ a \in Op => place \in OpPlace
                     /\ a \in Job => place \in JobPlace
                     /\ a = Loader => place \in LoaderPlace
                     /\ a = Closer => place \in CloserPlace

OpKind == {"none", "edit", "rebuild", "accepting", "refusing"}
WorkerState == {"none", "running", "succeeded", "failed", "cancelled"}

Places == /\ at \in [Actor -> OpPlace \cup JobPlace \cup LoaderPlace]
          /\ \A a \in Actor : MayBeAt(a, at[a])
          /\ kind \in [Op -> OpKind]

\* The dispatcher prepares job j under its lease.
Prepares(j) == cur = j /\ disp \in {"capture", "start", "abandon", "launch"}

Hand == /\ worker \in [Job -> WorkerState]
        /\ disp \in {"capture", "start", "abandon", "launch"} => cur \in Job

\* The coordinator's table, as far as the runtime depends on it.
Table == /\ active \subseteq Holder /\ IsFiniteSet(active)
         /\ closed \subseteq Holder /\ notified \subseteq closed
         /\ request \in [Holder -> Requests \cup {None}]
         /\ \A l \in active \cup closed : request[l] # None
         /\ \A l, m \in {n \in active : request[n].category \in Primary} : l = m

\* Where operation o is fits the lease it holds.
OpFits(o) ==
    /\ o \in active \ closed <=> at[o] \in UnderLease
    /\ o \in closed \ notified <=> at[o] = "closing"
    /\ at[o] \in Exclusive \/ kind[o] \in {"edit", "rebuild"} =>
          request[o].category = "PROJECT_EXCLUSIVE"
    /\ at[o] = "capture" => request[o].category \in Primary
    /\ at[o] \in {"stage", "publish", "closeOld", "fatal", "report"} => kind[o] \in {"edit", "rebuild"}
    /\ at[o] = "restore" => kind[o] = "rebuild"
    /\ kind[o] \in {"edit", "rebuild"} =>
          at[o] \in {"stage", "publish", "closeOld", "fatal", "report", "restore", "discard", "release"}
    /\ kind[o] \in {"accepting", "refusing"} =>
          at[o] \in {"release", "closing", "accept", "unreserve", "signal", "done"} \cup InClose

\* Where job j is fits its lease, and its lease what the registry does with it.
JobFits(j) ==
    /\ j \in active \ closed <=> Prepares(j) \/ worker[j] = "running"
    /\ j \in closed \ notified <=> at[j] = "closing"
    /\ j \in closed <=> at[j] \notin Unclosed
    /\ worker[j] # "none" => request[j] # None
    /\ Prepares(j) => worker[j] = "none"
    /\ j \in active => request[j].category = "CLASS_READ"

Publications == [admission : Revision, epoch : Nat,
                 identity : {NoIdentity} \cup (Revision \X Nat)]

\* There is a project to work with, and it has a revision, once anyone is admitted.
Numbers ==
    /\ published \in Publications
    /\ lifecycle \in {"READY", "RELOADING"} \/ active # {} => repository \in Revision
    /\ lifecycle = "LOADING" => active = {}

Leases == /\ Places /\ Hand /\ Table /\ Numbers
          /\ \A o \in Op : OpFits(o)
          /\ \A j \in Job : JobFits(j)

-----------------------------------------------------------------------------
(* What a step may touch.                                                  *)

\* Only actor a moves.
OnlyMoves(a) == /\ \A b \in Actor \ {a} : at'[b] = at[b]
                /\ \A o \in Op \ {a} : kind'[o] = kind[o]

\* Only the lease of a changes.
OnlyLease(a) ==
    \A l \in Holder \ {a} : /\ l \in active' <=> l \in active
                            /\ l \in closed' <=> l \in closed
                            /\ l \in notified' <=> l \in notified
                            /\ request'[l] = request[l]

\* Only job a advances in the registry.
OnlyJob(a) ==
    \A j \in Job \ {a} : worker'[j] = worker[j] /\ (Prepares(j)' <=> Prepares(j))

Fits(a) == (a \in Op => OpFits(a)) /\ (a \in Job => JobFits(a))

\* A step of one actor keeps what the others rely on.
LEMMA OneActor ==
    ASSUME Leases, Places', Hand', Table', Numbers',
           NEW a \in Actor, OnlyMoves(a), OnlyLease(a), OnlyJob(a), Fits(a)'
    PROVE  Leases'
<1>1. ASSUME NEW o \in Op PROVE OpFits(o)'
  <2>1. CASE o = a
    BY <2>1 DEF Fits
  <2>2. CASE o # a
    <3>1. OpFits(o) /\ o \in Actor \ {a} /\ o \in Holder \ {a}
      BY <2>2 DEF Leases, Actor, Holder
    <3> QED BY <3>1 DEF OpFits, OnlyMoves, OnlyLease
  <2> QED BY <2>1, <2>2
<1>2. ASSUME NEW j \in Job PROVE JobFits(j)'
  <2>1. CASE j = a
    BY <2>1 DEF Fits
  <2>2. CASE j # a
    <3>1. JobFits(j) /\ j \in Actor \ {a} /\ j \in Holder \ {a}
      BY <2>2 DEF Leases, Actor, Holder
    <3>2. /\ at'[j] = at[j] /\ request'[j] = request[j] /\ worker'[j] = worker[j]
          /\ (j \in active' <=> j \in active) /\ (j \in closed' <=> j \in closed)
          /\ (j \in notified' <=> j \in notified) /\ (Prepares(j)' <=> Prepares(j))
      BY <2>2, <3>1 DEF OnlyMoves, OnlyLease, OnlyJob
    <3> QED BY <3>1, <3>2 DEF JobFits
  <2> QED BY <2>1, <2>2
<1> QED BY <1>1, <1>2 DEF Leases

-----------------------------------------------------------------------------
(* What the coordinator's steps do to the table.                           *)

\* tryAdmit: a lease of its own for l, next to no other user of the engine.
LEMMA Admission ==
    ASSUME Leases, NEW l \in Holder, NEW category \in Categories, NEW key \in Key,
           coordinator!tryAdmit(l, Asks(category, key))
    PROVE  /\ Table' /\ OnlyLease(l)
           /\ l \notin active /\ l \notin closed /\ request[l] = None
           /\ active' = active \cup {l} /\ closed' = closed /\ notified' = notified
           /\ request'[l] # None /\ request'[l].category = category
<1> DEFINE r == Asks(category, key)
<1>1. r \in Requests /\ r # None /\ r.category = category
  BY ActorAssumption DEF Asks, Requests, Leases, Numbers, Publications
<1>2. /\ request[l] = None /\ active' = active \cup {l}
      /\ request' = [request EXCEPT ![l] = r]
      /\ closed' = closed /\ notified' = notified
      /\ \A m \in active : ~ coordinator!Conflict(r, m)
  BY DEF coordinator!tryAdmit, coordinator!Granted, coordinator!admits, coordinator!compatible
<1> HIDE DEF r
<1>3. /\ request \in [Holder -> Requests \cup {None}]
      /\ active \subseteq Holder /\ IsFiniteSet(active)
      /\ \A m \in active \cup closed : request[m] # None
      /\ closed \subseteq Holder /\ notified \subseteq closed
  BY DEF Leases, Table
<1>4. l \notin active /\ l \notin closed
  BY <1>2, <1>3
<1>5. request'[l] = r /\ \A m \in Holder \ {l} : request'[m] = request[m]
  BY <1>2, <1>3
<1>6. ASSUME NEW m \in active, r.category \in Primary
      PROVE  request[m].category \notin Primary
  <2>1. request[m].category \in Categories
    BY <1>3 DEF Requests
  <2> QED BY <1>2, <1>6, <2>1 DEF coordinator!Conflict, coordinator!Primary,
             coordinator!Isolated, Primary, Categories
<1>7. ASSUME NEW m \in active', NEW n \in active',
             request'[m].category \in Primary, request'[n].category \in Primary
      PROVE  m = n
  <2>1. CASE m # l /\ n # l
    BY <1>2, <1>3, <1>5, <1>7, <2>1 DEF Leases, Table
  <2>2. CASE m = l /\ n # l
    BY <1>2, <1>3, <1>5, <1>6, <1>7, <2>2
  <2>3. CASE m # l /\ n = l
    BY <1>2, <1>3, <1>5, <1>6, <1>7, <2>3
  <2> QED BY <2>1, <2>2, <2>3
<1>8. IsFiniteSet(active')
  BY <1>2, <1>3, FS_AddElement
<1>9. Table'
  <2>1. active' \subseteq Holder /\ request' \in [Holder -> Requests \cup {None}]
    BY <1>1, <1>2, <1>3
  <2>2. ASSUME NEW m \in active' \cup closed' PROVE request'[m] # None
    BY <1>1, <1>2, <1>3, <1>5, <2>2
  <2> QED BY <1>2, <1>3, <1>7, <1>8, <2>1, <2>2 DEF Table
<1> QED BY <1>1, <1>2, <1>4, <1>5, <1>9 DEF OnlyLease

\* close(), remove and afterRelease move l along; nothing else of the table moves.
LEMMA Closing ==
    ASSUME Leases, NEW l \in Holder, coordinator!close(l)
    PROVE  /\ Table' /\ OnlyLease(l) /\ request[l] # None /\ l \notin closed
           /\ active' = active /\ request' = request
           /\ closed' = closed \cup {l} /\ notified' = notified
<1>1. /\ request[l] # None /\ l \notin closed /\ closed' = closed \cup {l}
      /\ UNCHANGED <<active, request, notified>>
  BY DEF coordinator!close, coordinator!Granted
<1>2. Table'
  BY <1>1 DEF Leases, Table
<1> QED BY <1>1, <1>2 DEF OnlyLease

LEMMA Removal ==
    ASSUME Leases, NEW l \in Holder, coordinator!remove(l)
    PROVE  /\ Table' /\ OnlyLease(l) /\ l \in closed
           /\ active' = active \ {l} /\ UNCHANGED <<request, closed, notified>>
<1>1. l \in closed /\ active' = active \ {l} /\ UNCHANGED <<request, closed, notified>>
  BY DEF coordinator!remove
<1>2. IsFiniteSet(active')
  BY <1>1, FS_RemoveElement DEF Leases, Table
<1>3. Table'
  BY <1>1, <1>2 DEF Leases, Table
<1> QED BY <1>1, <1>3 DEF OnlyLease

LEMMA Notification ==
    ASSUME Leases, NEW l \in Holder, coordinator!afterRelease(l)
    PROVE  /\ Table' /\ OnlyLease(l) /\ l \in closed /\ l \notin active /\ l \notin notified
           /\ notified' = notified \cup {l} /\ UNCHANGED <<request, closed, active>>
<1>1. /\ l \in closed /\ l \notin active /\ l \notin notified /\ notified' = notified \cup {l}
      /\ UNCHANGED <<request, closed, active>>
  BY DEF coordinator!afterRelease, coordinator!mayNotify
<1>2. Table'
  BY <1>1 DEF Leases, Table
<1> QED BY <1>1, <1>2 DEF OnlyLease

\* stopAdmissions and the end of a snapshot's capture are not in the table.
SameTable == UNCHANGED <<active, request, closed, notified>>

LEMMA TableKept ==
    ASSUME Leases, SameTable
    PROVE  Table' /\ \A a \in Actor : OnlyLease(a)
BY DEF Leases, Table, SameTable, OnlyLease

LEMMA NotInTable ==
    ASSUME \/ UNCHANGED coordinatorVars
           \/ coordinator!stopAdmissions
           \/ \E l \in Holder : coordinator!finishSnapshotCapture(l)
    PROVE  SameTable
BY DEF coordinatorVars, coordinator!stopAdmissions, coordinator!finishSnapshotCapture, SameTable

-----------------------------------------------------------------------------
(* What the runtime's steps are made of.                                   *)

\* Actor a goes to a place of its kind; an operation may go on as another one.
LEMMA Walking ==
    ASSUME Leases, NEW a \in Actor, NEW place \in OpPlace \cup JobPlace \cup LoaderPlace,
           MayBeAt(a, place), GoTo(a, place),
           \/ UNCHANGED kind
           \/ a \in Op /\ \E k \in OpKind : Continues(a, k)
    PROVE  Places' /\ OnlyMoves(a) /\ at'[a] = place
<1>1. /\ at \in [Actor -> OpPlace \cup JobPlace \cup LoaderPlace] /\ kind \in [Op -> OpKind]
      /\ at' = [at EXCEPT ![a] = place] /\ \A b \in Actor : MayBeAt(b, at[b])
  BY DEF Leases, Places, GoTo
<1>2. at'[a] = place /\ \A b \in Actor \ {a} : at'[b] = at[b]
  BY <1>1
<1>3. kind' \in [Op -> OpKind] /\ \A o \in Op \ {a} : kind'[o] = kind[o]
  BY <1>1 DEF Continues
<1>4. \A b \in Actor : MayBeAt(b, at'[b])
  BY <1>1, <1>2
<1>5. at' \in [Actor -> OpPlace \cup JobPlace \cup LoaderPlace]
  BY <1>1
<1> QED BY <1>2, <1>3, <1>4, <1>5 DEF Places, OnlyMoves, MayBeAt

\* The registry's threads stay where they are.
SameHand == UNCHANGED <<disp, cur, worker>>

LEMMA HandKept ==
    ASSUME Leases, SameHand
    PROVE  Hand' /\ \A a \in Actor : OnlyJob(a)
BY DEF Leases, Hand, SameHand, OnlyJob, Prepares

\* What callers do in the registry leaves its threads alone.
LEMMA CallersOnly ==
    ASSUME \/ UNCHANGED jobsVars
           \/ \E j \in Job : jobs!submit(j) \/ jobs!cancel(j)
           \/ jobs!tick \/ jobs!signal \/ jobs!reserveSubmissions
           \/ jobs!releaseSubmissionReservation \/ jobs!stopReserved \/ jobs!stopSubmissions
           \/ jobs!shutdownLocked \/ jobs!shutdownExecutors
    PROVE  SameHand
BY ZenonT(30) DEF jobsVars, SameHand, jobs!submit, jobs!cancel, jobs!tick, jobs!signal,
       jobs!reserveSubmissions, jobs!releaseSubmissionReservation, jobs!stopReserved,
       jobs!stopSubmissions, jobs!shutdownLocked, jobs!shutdownExecutors,
       jobs!dispatchVars, jobs!workVars

\* Nobody is admitted and no project gets ready: at most its publication moves.
LEMMA NumbersKept ==
    ASSUME Leases,
           published' \in Publications,
           repository' = repository, active' \subseteq active,
           lifecycle' = lifecycle \/ lifecycle' \in {"FAILED", "SHUTTING_DOWN", "STOPPED"}
    PROVE  Numbers'
BY DEF Leases, Numbers

\* The three ways to change what is published, and none.
LEMMA PublicationTyped ==
    ASSUME Leases,
           \/ UNCHANGED published \/ withdrawIdentity \/ unpublish
           \/ \E revision \in Revision, epoch \in Nat : publishAs(revision, epoch)
    PROVE  published' \in Publications
<1>1. published \in Publications
  BY DEF Leases, Numbers
<1>2. published.epoch + 1 \in Nat
  BY <1>1 DEF Publications
<1>3. CASE UNCHANGED published
  BY <1>1, <1>3
<1>4. CASE withdrawIdentity
  BY <1>1, <1>4 DEF withdrawIdentity, Publications
<1>5. CASE unpublish
  BY <1>1, <1>2, <1>5 DEF unpublish, Publications
<1>6. CASE \E revision \in Revision, epoch \in Nat : publishAs(revision, epoch)
  BY <1>6 DEF publishAs, Publications
<1> QED BY <1>3, <1>4, <1>5, <1>6

-----------------------------------------------------------------------------
(* Operations.                                                             *)

\* A step of one operation: it keeps the invariant if it fits its own lease.
LEMMA OpStepping ==
    ASSUME Leases, NEW o \in Op, NEW place \in OpPlace, GoTo(o, place),
           UNCHANGED kind \/ \E k \in OpKind : Continues(o, k),
           SameHand, Table', OnlyLease(o), Numbers', OpFits(o)'
    PROVE  Leases'
<1>1. o \in Actor /\ MayBeAt(o, place) /\ o \notin Job
  BY ActorAssumption DEF Actor, MayBeAt
<1>2. Places' /\ OnlyMoves(o)
  BY <1>1, Walking
<1>3. Hand' /\ OnlyJob(o)
  BY <1>1, HandKept
<1>4. Fits(o)'
  BY <1>1 DEF Fits
<1> QED BY <1>1, <1>2, <1>3, <1>4, OneActor

\* An admitted operation goes to its first place under the lease.
LEMMA Entering ==
    ASSUME Leases, NEW o \in Op, NEW category \in Categories, NEW k \in {"none", "edit", "rebuild"},
           at[o] = "idle", admit(o, category), SameHand,
           \/ k = "none" /\ UNCHANGED kind
           \/ Continues(o, k),
           NEW place \in UnderLease, GoTo(o, place),
           place \in Exclusive => category = "PROJECT_EXCLUSIVE",
           place = "capture" => category \in Primary,
           place \in {"stage", "publish", "closeOld", "fatal", "report"} <=> k \in {"edit", "rebuild"},
           place # "restore",
           published' \in Publications, repository' = repository,
           lifecycle' \in {lifecycle, "RELOADING"}
    PROVE  Leases'
<1>1. /\ Table' /\ OnlyLease(o) /\ o \notin active /\ o \notin closed
      /\ active' = active \cup {o} /\ closed' = closed /\ notified' = notified
      /\ request'[o].category = category
  BY Admission DEF admit, Holder
<1>2. lifecycle = "READY" /\ repository \in Revision
  BY DEF admit, requireReady, Leases, Numbers
<1>3. Numbers'
  BY <1>2 DEF Numbers
<1>4. o \in Actor /\ place \in OpPlace /\ MayBeAt(o, place) /\ k \in OpKind
  BY ActorAssumption DEF Actor, OpPlace, MayBeAt, OpKind
<1>5. at'[o] = place
  BY <1>4, Walking
<1>6. kind'[o] = k
  <2>1. kind[o] \in OpKind /\ kind[o] \notin {"edit", "rebuild", "accepting", "refusing"}
    BY DEF Leases, Places, OpFits, InClose
  <2> QED BY <2>1 DEF OpKind, Continues, Leases, Places
<1>7. OpFits(o)'
  <2>1. o \in active' \ closed' /\ o \notin closed' \ notified' /\ place # "closing"
    BY <1>1 DEF UnderLease
  <2> QED BY <2>1, <1>1, <1>5, <1>6 DEF OpFits, Exclusive
<1> QED BY <1>1, <1>3, <1>4, <1>7, OpStepping

LEMMA StartStep ==
    ASSUME Leases, NEW o \in Op, Starts(o)
    PROVE  Leases'
<1>1. UNCHANGED published => published' \in Publications
  BY PublicationTyped
<1>2. ASSUME NEW k \in {"classRead", "mappingExport"}, NEW category \in Primary,
             withEngineRead(o, k, category)
      PROVE  Leases'
  <2>1. /\ at[o] = "idle" /\ admit(o, category) /\ SameHand /\ UNCHANGED kind
        /\ GoTo(o, "capture") /\ UNCHANGED <<published, repository, lifecycle>>
    BY <1>2, CallersOnly DEF withEngineRead, Calls, lifecycleVars, publicationVars
  <2> QED BY <1>1, <2>1, Entering DEF Primary, Categories, UnderLease, Exclusive
<1>3. CASE withPrimarySymbolRead(o)
  <2>1. /\ at[o] = "idle" /\ admit(o, "CLASS_READ") /\ SameHand /\ UNCHANGED kind
        /\ GoTo(o, "use") /\ UNCHANGED <<published, repository, lifecycle>>
    BY <1>3, CallersOnly DEF withPrimarySymbolRead, Calls, lifecycleVars, publicationVars
  <2> QED BY <1>1, <2>1, Entering DEF Categories, UnderLease, Exclusive
<1>4. CASE withQueryRead(o)
  <2>1. /\ at[o] = "idle" /\ admit(o, "QUERY_READ") /\ SameHand /\ UNCHANGED kind
        /\ GoTo(o, "use") /\ UNCHANGED <<published, repository, lifecycle>>
    BY <1>4, CallersOnly DEF withQueryRead, Calls, lifecycleVars, publicationVars
  <2> QED BY <1>1, <2>1, Entering DEF Categories, UnderLease, Exclusive
<1>5. CASE withTemporaryAnalysis(o)
  <2>1. /\ at[o] = "idle" /\ admit(o, "TEMPORARY_ANALYSIS") /\ SameHand /\ UNCHANGED kind
        /\ GoTo(o, "snapshot") /\ UNCHANGED <<published, repository, lifecycle>>
    BY <1>5, CallersOnly DEF withTemporaryAnalysis, Calls, lifecycleVars, publicationVars
  <2> QED BY <1>1, <2>1, Entering DEF Categories, UnderLease, Exclusive
<1>6. CASE saveProject(o)
  <2>1. /\ at[o] = "idle" /\ admit(o, "PROJECT_EXCLUSIVE") /\ SameHand /\ UNCHANGED kind
        /\ GoTo(o, "save") /\ UNCHANGED <<published, repository, lifecycle>>
    BY <1>6, CallersOnly DEF saveProject, Calls, lifecycleVars, publicationVars
  <2> QED BY <1>1, <2>1, Entering DEF Categories, UnderLease, Exclusive
<1>7. CASE withExclusiveEdit(o)
  <2>1. /\ at[o] = "idle" /\ admit(o, "PROJECT_EXCLUSIVE") /\ SameHand /\ Continues(o, "edit")
        /\ GoTo(o, "stage") /\ UNCHANGED <<published, repository, lifecycle>>
    BY <1>7, CallersOnly DEF withExclusiveEdit, Calls, lifecycleVars, publicationVars
  <2> QED BY <1>1, <2>1, Entering DEF Categories, UnderLease, Exclusive
<1>8. CASE rebuild(o)
  <2>1. /\ at[o] = "idle" /\ admit(o, "PROJECT_EXCLUSIVE") /\ SameHand /\ Continues(o, "rebuild")
        /\ GoTo(o, "stage") /\ unpublish /\ UNCHANGED repository /\ lifecycle' = "RELOADING"
    BY <1>8, CallersOnly DEF rebuild, Calls
  <2>2. published' \in Publications
    BY <2>1, PublicationTyped
  <2> QED BY <2>1, <2>2, Entering DEF Categories, UnderLease, Exclusive
<1>9. CASE reserveShutdownSave(o)
  <2>1. /\ at[o] = "idle" /\ admit(o, "PROJECT_EXCLUSIVE") /\ SameHand /\ UNCHANGED kind
        /\ GoTo(o, "shutdownSave") /\ UNCHANGED <<published, repository, lifecycle>>
    BY <1>9, CallersOnly DEF reserveShutdownSave, publicationVars
  <2> QED BY <1>1, <2>1, Entering DEF Categories, UnderLease, Exclusive
<1>10. CASE readPublished(o) \/ reserveShutdown(o)
  <2>1. PICK place \in {"read", "accept", "unreserve"} : GoTo(o, place)
    BY <1>10 DEF readPublished, reserveShutdown, GoTo
  <2>2. /\ at[o] = "idle" /\ SameHand /\ UNCHANGED kind /\ SameTable
        /\ UNCHANGED <<published, repository, lifecycle>>
    BY <1>10, CallersOnly, NotInTable
       DEF readPublished, reserveShutdown, Calls, outside, lifecycleVars, publicationVars
  <2>3. Table' /\ OnlyLease(o) /\ Numbers'
    BY <1>1, <2>2, TableKept, NumbersKept DEF SameTable, Actor
  <2>4. place \in OpPlace /\ at'[o] = place
    BY <2>1, <2>2, Walking, ActorAssumption DEF OpPlace, Actor, MayBeAt
  <2>5. OpFits(o)'
    BY <2>1, <2>2, <2>4 DEF Leases, OpFits, SameTable, UnderLease, Exclusive, InClose
  <2> QED BY <2>1, <2>2, <2>3, <2>4, <2>5, OpStepping
<1> QED BY <1>2, <1>3, <1>4, <1>5, <1>6, <1>7, <1>8, <1>9, <1>10
        DEF Starts, withPrimaryClassRead, withExclusiveMappingExport, Primary

\* An operation goes on to another place under the same lease.
LEMMA GoingOn ==
    ASSUME Leases, NEW o \in Op, at[o] \in UnderLease,
           NEW place \in UnderLease, GoTo(o, place), UNCHANGED kind,
           SameHand, SameTable, Numbers',
           place \in Exclusive => at[o] \in Exclusive \/ kind[o] \in {"edit", "rebuild"},
           place \in {"stage", "publish", "closeOld", "fatal", "report"} => kind[o] \in {"edit", "rebuild"},
           place = "restore" => kind[o] = "rebuild",
           place # "capture",
           kind[o] \in {"edit", "rebuild"} =>
              place \in {"stage", "publish", "closeOld", "fatal", "report", "restore", "discard", "release"},
           kind[o] \in {"accepting", "refusing"} => place = "release"
    PROVE  Leases'
<1>1. place \in OpPlace /\ o \in Actor /\ MayBeAt(o, place)
  BY ActorAssumption DEF OpPlace, Actor, MayBeAt
<1>2. at'[o] = place /\ kind'[o] = kind[o]
  BY <1>1, Walking
<1>3. Table' /\ OnlyLease(o)
  BY <1>1, TableKept
<1>4. OpFits(o)'
  <2>1. OpFits(o)
    BY DEF Leases
  <2>2. place # "closing" /\ at[o] # "closing"
    BY DEF UnderLease
  <2> QED BY <1>2, <2>1, <2>2 DEF OpFits, SameTable
<1> QED BY <1>1, <1>3, <1>4, OpStepping

\* Numbers stay when the publication, the repository and the table do.
LEMMA NumbersSame ==
    ASSUME Leases, SameTable, UNCHANGED <<published, repository, lifecycle>>
    PROVE  Numbers'
BY DEF Leases, Numbers, SameTable

\* Work under a lease that leaves table, registry and publication alone.
LEMMA WorkStep ==
    ASSUME Leases, NEW o \in Op,
           \/ captureEngine(o) \/ useEnds(o) \/ snapshotEnds(o) \/ createTemporary(o)
           \/ stage(o) \/ closeOld(o) \/ discard(o)
    PROVE  Leases'
<1>1. OpFits(o)
  BY DEF Leases
<1>2. /\ SameHand /\ SameTable /\ UNCHANGED kind /\ UNCHANGED <<published, repository, lifecycle>>
  BY CallersOnly, NotInTable
     DEF captureEngine, useEnds, snapshotEnds, createTemporary, stage, closeOld, discard,
         outside, lifecycleVars, publicationVars, Holder
<1>3. Numbers'
  BY <1>2, NumbersSame
<1>4. CASE captureEngine(o)
  BY <1>1, <1>2, <1>3, <1>4, GoingOn DEF captureEngine, UnderLease, Exclusive, OpFits, InClose
<1>5. CASE useEnds(o)
  BY <1>1, <1>2, <1>3, <1>5, GoingOn DEF useEnds, UnderLease, Exclusive, OpFits
<1>6. CASE snapshotEnds(o)
  <2>1. at[o] = "snapshot" /\ \E place \in {"create", "release"} : GoTo(o, place)
    BY <1>6 DEF snapshotEnds
  <2> QED BY <1>1, <1>2, <1>3, <2>1, GoingOn DEF UnderLease, Exclusive, OpFits, InClose
<1>7. CASE createTemporary(o)
  <2>1. at[o] = "create" /\ \E place \in {"discard", "release"} : GoTo(o, place)
    BY <1>7 DEF createTemporary
  <2> QED BY <1>1, <1>2, <1>3, <2>1, GoingOn DEF UnderLease, Exclusive, OpFits, InClose
<1>8. CASE stage(o)
  <2>1. at[o] = "stage" /\ \E place \in {"publish", "discard", "fatal", Failed(o)} : GoTo(o, place)
    BY <1>8 DEF stage, GoTo
  <2>2. kind[o] \in {"edit", "rebuild"}
    BY <1>1, <2>1 DEF OpFits
  <2> QED BY <1>1, <1>2, <1>3, <2>1, <2>2, GoingOn DEF UnderLease, Exclusive, OpFits, Failed
<1>9. CASE closeOld(o)
  <2>1. at[o] = "closeOld" /\ \E place \in {"release", "report"} : GoTo(o, place)
    BY <1>9 DEF closeOld, GoTo
  <2>2. kind[o] \in {"edit", "rebuild"}
    BY <1>1, <2>1 DEF OpFits
  <2> QED BY <1>1, <1>2, <1>3, <2>1, <2>2, GoingOn DEF UnderLease, Exclusive, OpFits
<1>10. CASE discard(o)
  <2>1. CASE GoTo(o, Failed(o))
    BY <1>1, <1>2, <1>3, <1>10, <2>1, GoingOn
       DEF discard, UnderLease, Exclusive, OpFits, Failed, InClose
  <2>2. CASE kind[o] \in {"edit", "rebuild"} /\ GoTo(o, "report")
    BY <1>1, <1>2, <1>3, <1>10, <2>2, GoingOn DEF discard, UnderLease, Exclusive, OpFits
  <2> QED BY <1>10, <2>1, <2>2 DEF discard
<1> QED BY <1>4, <1>5, <1>6, <1>7, <1>8, <1>9, <1>10

\* Whoever holds a lease found a project with a revision.
LEMMA HeldOnAProject ==
    ASSUME Leases, NEW o \in Op, at[o] \in UnderLease
    PROVE  repository \in Revision /\ o \in active /\ o \notin closed
BY DEF Leases, OpFits, Numbers

\* An operation that holds the exclusive lease is the engine's only user.
LEMMA ExclusiveInUse ==
    ASSUME Leases, NEW o \in Op, at[o] \in Exclusive \/ kind[o] \in {"edit", "rebuild"}
    PROVE  /\ o \in active /\ request[o].category = "PROJECT_EXCLUSIVE"
           /\ coordinator!primaryEngineInUse
           /\ \A l \in active : request[l].category \in Primary => l = o
<1>1. at[o] \in UnderLease /\ request[o].category = "PROJECT_EXCLUSIVE"
  BY DEF Leases, OpFits, Exclusive, UnderLease
<1>2. o \in active
  BY <1>1, HeldOnAProject
<1>3. coordinator!primaryEngineInUse
  BY <1>1, <1>2 DEF coordinator!primaryEngineInUse, coordinator!Primary
<1>4. ASSUME NEW l \in active, request[l].category \in Primary PROVE l = o
  BY <1>1, <1>2, <1>4 DEF Leases, Table, Primary
<1> QED BY <1>1, <1>2, <1>3, <1>4

\* Steps that publish, and the fatal report of an operation.
LEMMA PublishingStep ==
    ASSUME Leases, NEW o \in Op,
           saved(o) \/ publishReplacement(o) \/ restore(o) \/ reportFatalRebuild(o)
    PROVE  Leases'
<1>1. OpFits(o) /\ published \in Publications /\ published.epoch \in Nat
  BY DEF Leases, Numbers, Publications
<1>2. SameHand /\ SameTable /\ UNCHANGED kind /\ at[o] \in UnderLease
  <2>1. CASE saved(o) \/ publishReplacement(o) \/ restore(o)
    BY <2>1, CallersOnly, NotInTable DEF saved, publishReplacement, restore, UnderLease
  <2>2. CASE reportFatalRebuild(o)
    BY <2>2, CallersOnly, NotInTable DEF reportFatalRebuild, UnderLease
  <2> QED BY <2>1, <2>2
<1>3. repository \in Revision /\ o \in active
  BY <1>2, HeldOnAProject
<1>4. CASE saved(o)
  <2>1. Numbers'
    BY <1>1, <1>2, <1>3, <1>4, PublicationTyped, NumbersKept
       DEF saved, lifecycleVars, Publications, SameTable
  <2> QED BY <1>1, <1>2, <1>4, <2>1, GoingOn DEF saved, UnderLease, Exclusive, OpFits, InClose
<1>5. CASE restore(o)
  <2>1. published' \in Publications /\ UNCHANGED repository
    BY <1>1, <1>3, <1>5, PublicationTyped DEF restore
  <2>2. Numbers'
    BY <1>2, <1>3, <1>5, <2>1 DEF restore, Numbers, Leases, SameTable
  <2> QED BY <1>1, <1>2, <1>5, <2>2, GoingOn DEF restore, UnderLease, Exclusive, OpFits
<1>6. CASE publishReplacement(o)
  <2>1. at[o] = "publish" /\ \E place \in {"closeOld", "discard", "fatal"} : GoTo(o, place)
    BY <1>6 DEF publishReplacement, GoTo
  <2>2. published' \in Publications /\ repository' \in Revision
        /\ lifecycle' \in {"READY", lifecycle}
    <3>1. repository + 1 \in Revision /\ published.epoch + 1 \in Nat
      BY <1>1, <1>3 DEF Revision
    <3> QED BY <1>3, <1>6, <3>1, PublicationTyped DEF publishReplacement, publicationVars
  <2>3. Numbers'
    BY <1>2, <1>3, <2>2 DEF Numbers, Leases, SameTable
  <2> QED BY <1>1, <1>2, <2>1, <2>3, GoingOn DEF UnderLease, Exclusive, OpFits
<1>7. CASE reportFatalRebuild(o)
  <2>1. at[o] \in {"fatal", "report"} /\ kind[o] \in {"edit", "rebuild"}
    BY <1>1, <1>7 DEF reportFatalRebuild, OpFits
  <2>2. detachable = None
    BY <2>1, ExclusiveInUse DEF detachable
  <2>3. \E place \in {"discard", Failed(o)} : GoTo(o, place)
    BY <1>7, <2>2, ActorAssumption DEF reportFatalRebuild
  <2>4. Numbers'
    BY <1>2, <1>7, PublicationTyped, NumbersKept DEF reportFatalRebuild, SameTable
  <2> QED BY <1>1, <1>2, <2>1, <2>3, <2>4, GoingOn DEF UnderLease, Exclusive, OpFits, Failed
<1> QED BY <1>4, <1>5, <1>6, <1>7

\* The end of an operation under a lease, and what it does after it.
LEMMA EndingStep ==
    ASSUME Leases, NEW o \in Op, release(o) \/ shutdownSave(o)
    PROVE  Leases'
<1>1. OpFits(o) /\ o \in Holder /\ o \in Actor /\ kind[o] \in OpKind /\ o \notin Job
  BY ActorAssumption DEF Leases, Places, Holder, Actor
<1>2. CASE release(o)
  <2> DEFINE k == IF kind[o] \in {"edit", "rebuild"} THEN "none" ELSE kind[o]
  <2>1. /\ SameHand /\ GoTo(o, "closing") /\ Continues(o, k) /\ coordinator!close(o)
        /\ at[o] = "release" /\ UNCHANGED <<published, repository, lifecycle>>
    BY <1>2, CallersOnly DEF release, lifecycleVars, publicationVars
  <2>2. /\ Table' /\ OnlyLease(o) /\ o \notin closed /\ active' = active
        /\ closed' = closed \cup {o} /\ notified' = notified
    BY <1>1, <2>1, Closing
  <2>3. Numbers'
    BY <2>1, <2>2, PublicationTyped, NumbersKept
  <2>4. "closing" \in OpPlace /\ MayBeAt(o, "closing") /\ k \in OpKind
    BY <1>1, ActorAssumption DEF OpPlace, MayBeAt, OpKind
  <2>5. at'[o] = "closing"
    BY <1>1, <2>1, <2>4, Walking
  <2>6. kind'[o] = k /\ k \notin {"edit", "rebuild"}
    BY <1>1, <2>1 DEF Continues, Leases, Places
  <2>7. OpFits(o)'
    <3>1. o \notin notified
      BY <2>2 DEF Leases, Table
    <3> QED BY <2>2, <2>5, <2>6, <3>1 DEF OpFits, UnderLease, Exclusive
  <2> HIDE DEF k
  <2> QED BY <2>1, <2>2, <2>3, <2>4, <2>7, OpStepping
<1>3. CASE shutdownSave(o)
  <2>1. PICK k \in {"accepting", "refusing"} : Continues(o, k)
    BY <1>3 DEF shutdownSave
  <2>2. /\ SameHand /\ SameTable /\ GoTo(o, "release") /\ at[o] = "shutdownSave"
        /\ UNCHANGED <<repository, lifecycle>>
    BY <1>3, CallersOnly, NotInTable DEF shutdownSave, lifecycleVars
  <2>3. published' \in Publications
    <3>1. repository \in Revision /\ published.epoch + 1 \in Nat
      BY <2>2, HeldOnAProject DEF UnderLease, Leases, Numbers, Publications
    <3> QED BY <1>3, <3>1, PublicationTyped DEF shutdownSave
  <2>4. Numbers' /\ Table' /\ OnlyLease(o)
    BY <1>1, <2>2, <2>3, NumbersKept, TableKept DEF SameTable
  <2>5. "release" \in OpPlace /\ MayBeAt(o, "release") /\ k \in OpKind
    BY <1>1, ActorAssumption DEF OpPlace, UnderLease, MayBeAt, OpKind
  <2>6. at'[o] = "release" /\ kind'[o] = k
    BY <1>1, <2>1, <2>2, <2>5, Walking DEF Continues, Leases, Places
  <2>7. OpFits(o)'
    BY <1>1, <2>2, <2>6 DEF OpFits, UnderLease, Exclusive, SameTable
  <2> QED BY <2>1, <2>2, <2>4, <2>5, <2>7, OpStepping
<1> QED BY <1>2, <1>3

\* What an operation does without a lease.
LEMMA FreeStep ==
    ASSUME Leases, NEW o \in Op,
           \/ readRepository(o) \/ recheckEpoch(o)
           \/ acceptShutdown(o) \/ unreserve(o) \/ signalRefused(o)
    PROVE  Leases'
<1> DEFINE Free == {"read", "check", "returned", "accept", "unreserve", "signal", "done"}
<1>1. OpFits(o) /\ o \in Actor /\ o \notin Job
  BY ActorAssumption DEF Leases, Actor
<1>2. SameHand /\ UNCHANGED kind /\ UNCHANGED repository /\ SameTable
  <2>1. CASE readRepository(o) \/ recheckEpoch(o)
    BY <2>1, CallersOnly, NotInTable DEF readRepository, recheckEpoch, outside, publicationVars
  <2>2. CASE acceptShutdown(o)
    BY <2>2, CallersOnly, NotInTable DEF acceptShutdown
  <2>3. CASE unreserve(o) \/ signalRefused(o)
    BY <2>3, CallersOnly, NotInTable DEF unreserve, signalRefused, publicationVars
  <2> QED BY <2>1, <2>2, <2>3
<1>3. /\ UNCHANGED published \/ withdrawIdentity
      /\ lifecycle' = lifecycle \/ lifecycle' = "SHUTTING_DOWN"
  BY DEF readRepository, recheckEpoch, acceptShutdown, unreserve, signalRefused,
         outside, publicationVars, lifecycleVars
<1>4. Numbers' /\ Table' /\ OnlyLease(o)
  BY <1>1, <1>2, <1>3, PublicationTyped, NumbersKept, TableKept DEF SameTable
<1>5. /\ at[o] \in {"read", "check", "accept", "unreserve", "signal"}
      /\ \E place \in Free :
            /\ GoTo(o, place)
            /\ at[o] \notin {"read", "check"} => place \in {"unreserve", "signal", "done"}
  BY DEF readRepository, recheckEpoch, acceptShutdown, unreserve, signalRefused
<1>6. PICK place \in Free :
         /\ GoTo(o, place)
         /\ at[o] \notin {"read", "check"} => place \in {"unreserve", "signal", "done"}
  BY <1>5
<1>7. place \in OpPlace /\ at'[o] = place /\ kind'[o] = kind[o]
  BY <1>1, <1>2, <1>6, Walking, ActorAssumption DEF OpPlace, MayBeAt
<1>8. kind[o] \in {"accepting", "refusing"} => place \in {"unreserve", "signal", "done"}
  BY <1>1, <1>6 DEF OpFits, InClose
<1>9. OpFits(o)'
  BY <1>1, <1>2, <1>5, <1>7, <1>8 DEF OpFits, SameTable, UnderLease, Exclusive, InClose
<1> QED BY <1>2, <1>4, <1>6, <1>7, <1>9, OpStepping

\* What an operation does once admitted, and after its lease.
LEMMA OpStepStep ==
    ASSUME Leases, NEW o \in Op, OpStep(o)
    PROVE  Leases'
BY WorkStep, PublishingStep, EndingStep, FreeStep DEF OpStep

-----------------------------------------------------------------------------
(* The loader, the releases and closeInternal().                           *)

\* A step of one actor that keeps its kind and its job's place in the registry.
LEMMA Stepping ==
    ASSUME Leases, NEW a \in Actor, NEW place \in OpPlace \cup JobPlace \cup LoaderPlace,
           MayBeAt(a, place), GoTo(a, place), UNCHANGED kind,
           SameHand, Table', OnlyLease(a), Numbers', Fits(a)'
    PROVE  Leases'
BY Walking, HandKept, OneActor

LEMMA LoaderStepping ==
    ASSUME Leases, initializeAsync \/ LoaderStep
    PROVE  Leases'
<1>1. SameHand /\ SameTable /\ UNCHANGED kind
  BY CallersOnly, NotInTable
     DEF initializeAsync, LoaderStep, taskRuns, createFirst, loadFirst, publishFirst,
         initializationFails, discardFirst, taskEnds, outside, actorVars
<1>2. Numbers'
  <2>1. CASE publishFirst
    <3>1. UNCHANGED <<published, repository, lifecycle>> \/
          (/\ lifecycle = "LOADING" /\ publishAs(1, published.epoch)
           /\ repository' = 1 /\ lifecycle' = "READY")
      BY <2>1 DEF publishFirst, publicationVars
    <3>2. 1 \in Revision /\ published.epoch \in Nat
      BY DEF Revision, Leases, Numbers, Publications
    <3>3. published' \in Publications
      BY <3>1, <3>2, PublicationTyped
    <3> QED BY <1>1, <3>1, <3>2, <3>3 DEF Numbers, Leases, SameTable
  <2>2. CASE initializationFails \/ taskEnds
    <3>1. /\ UNCHANGED <<published, repository>>
          /\ lifecycle' = lifecycle \/ lifecycle' \in {"FAILED", "STOPPED"}
      BY <2>2 DEF initializationFails, taskEnds, publicationVars, finishShutdownIfQuiescent
    <3> QED BY <1>1, <3>1, PublicationTyped, NumbersKept DEF SameTable
  <2>3. CASE initializeAsync \/ taskRuns \/ createFirst \/ loadFirst \/ discardFirst
    <3>1. UNCHANGED <<published, repository, lifecycle>>
      BY <2>3 DEF initializeAsync, taskRuns, createFirst, loadFirst, discardFirst,
                  outside, publicationVars, lifecycleVars
    <3> QED BY <1>1, <3>1, NumbersSame
  <2> QED BY <2>1, <2>2, <2>3 DEF LoaderStep
<1>3. Table' /\ \A a \in Actor : OnlyLease(a)
  BY <1>1, TableKept
<1>4. Loader \in Actor /\ Loader \notin Op /\ Loader \notin Job /\ Loader # Closer
  BY ActorAssumption DEF Actor
<1>5. CASE initializeAsync
  <2>1. at' = at
    BY <1>5 DEF initializeAsync, actorVars
  <2>2. Places' /\ OnlyMoves(Loader) /\ Hand' /\ OnlyJob(Loader) /\ Fits(Loader)'
    BY <1>1, <1>4, <2>1, HandKept DEF Leases, Places, OnlyMoves, MayBeAt, Fits
  <2> QED BY <1>2, <1>3, <1>4, <2>2, OneActor
<1>6. CASE LoaderStep
  <2>1. \E place \in LoaderPlace : GoTo(Loader, place)
    BY <1>6 DEF LoaderStep, taskRuns, createFirst, loadFirst, publishFirst,
                initializationFails, discardFirst, taskEnds, LoaderPlace
  <2>2. \A place \in LoaderPlace : MayBeAt(Loader, place)
    BY <1>4 DEF MayBeAt
  <2>3. Fits(Loader)'
    BY <1>4 DEF Fits
  <2> QED BY <1>1, <1>2, <1>3, <1>4, <2>1, <2>2, <2>3, Stepping
<1> QED BY <1>5, <1>6

\* Where closeInternal() leads.
LEMMA ClosePlaces ==
    ASSUME NEW a \in Op \cup Job \cup {Closer}, CloseStep(a)
    PROVE  /\ at[a] \in InClose
           /\ \E place \in InClose \cup {AfterRelease(a)} : GoTo(a, place)
           /\ SameHand /\ SameTable /\ UNCHANGED kind /\ UNCHANGED repository
           /\ UNCHANGED published \/ withdrawIdentity
           /\ lifecycle' \in {lifecycle, "SHUTTING_DOWN", "STOPPED"}
<1>1. CASE closeInternal(a)
  BY <1>1, CallersOnly, NotInTable
     DEF closeInternal, InClose, outside, lifecycleVars, publicationVars
<1>2. CASE shutdownJobs(a) \/ shutdownExecutors(a)
  BY <1>2, CallersOnly, NotInTable
     DEF shutdownJobs, shutdownExecutors, InClose, Cleanup, lifecycleVars, publicationVars
<1>3. CASE closeDetached(a)
  BY <1>3, CallersOnly, NotInTable
     DEF closeDetached, InClose, outside, lifecycleVars, publicationVars
<1>4. CASE finishClose(a)
  BY <1>4, CallersOnly, NotInTable
     DEF finishClose, InClose, publicationVars, finishShutdownIfQuiescent
<1> QED BY <1>1, <1>2, <1>3, <1>4 DEF CloseStep

LEMMA AfterReleasePlaces ==
    ASSUME NEW a \in Op \cup Job \cup {Closer}
    PROVE  /\ AfterRelease(a) \in {"accept", "unreserve", "done"}
           /\ a \notin Op => AfterRelease(a) = "done"
BY DEF AfterRelease

LEMMA CloseStepping ==
    ASSUME Leases, NEW a \in Op \cup Job \cup {Closer},
           CloseStep(a) \/ (a = Closer /\ close)
    PROVE  Leases'
<1>1. a \in Actor /\ a # Loader /\ (a \in Op => a \notin Job) /\ (a = Closer => a \notin Op \cup Job)
  BY ActorAssumption DEF Actor
<1>2. /\ SameHand /\ SameTable /\ UNCHANGED kind /\ UNCHANGED repository
      /\ UNCHANGED published \/ withdrawIdentity
      /\ lifecycle' \in {lifecycle, "SHUTTING_DOWN", "STOPPED"}
      /\ a = Closer \/ at[a] \in InClose
      /\ \E place \in InClose \cup {AfterRelease(a)} : GoTo(a, place)
  <2>1. CASE CloseStep(a)
    BY <2>1, ClosePlaces
  <2>2. CASE a = Closer /\ close
    BY <2>2, CallersOnly, NotInTable DEF close, outside, lifecycleVars, publicationVars, InClose
  <2> QED BY <2>1, <2>2
<1>3. Numbers' /\ Table' /\ OnlyLease(a)
  BY <1>1, <1>2, PublicationTyped, NumbersKept, TableKept DEF SameTable
<1>4. PICK place \in InClose \cup {"accept", "unreserve", "done"} :
         GoTo(a, place) /\ (a \notin Op => place \notin {"accept", "unreserve"})
  BY <1>2, AfterReleasePlaces DEF InClose
<1>5. place \in OpPlace \cup JobPlace \cup LoaderPlace /\ MayBeAt(a, place)
  BY <1>1, <1>4 DEF OpPlace, JobPlace, LoaderPlace, CloserPlace, MayBeAt
<1>6. at'[a] = place
  BY <1>1, <1>2, <1>4, <1>5, Walking
<1>7. ASSUME a \in Op PROVE OpFits(a)'
  <2>1. OpFits(a) /\ at[a] \in InClose /\ kind'[a] = kind[a]
    BY <1>1, <1>2, <1>7 DEF Leases
  <2> QED BY <1>2, <1>4, <1>6, <2>1 DEF OpFits, SameTable, UnderLease, Exclusive, InClose
<1>8. ASSUME a \in Job PROVE JobFits(a)'
  <2>1. JobFits(a) /\ at[a] \in InClose
    BY <1>1, <1>2, <1>8 DEF Leases
  <2> QED BY <1>2, <1>4, <1>6, <2>1
       DEF JobFits, SameTable, SameHand, Prepares, Unclosed, InClose
<1> QED BY <1>1, <1>2, <1>3, <1>4, <1>5, <1>7, <1>8, Stepping DEF Fits

\* Lease.close() up to its callback, which operationCompleted stands for.
LEMMA ReleaseStepping ==
    ASSUME Leases, NEW a \in Op \cup Job, removeLease(a) \/ operationCompleted(a)
    PROVE  Leases'
<1>1. a \in Actor /\ a \in Holder /\ (a \in Op => a \notin Job) /\ a # Loader /\ a # Closer
  BY ActorAssumption DEF Actor, Holder
<1>2. SameHand /\ UNCHANGED kind /\ UNCHANGED <<published, repository, lifecycle>>
  <2>1. CASE removeLease(a)
    BY <2>1, CallersOnly DEF removeLease, lifecycleVars, publicationVars, actorVars
  <2>2. CASE operationCompleted(a)
    BY <2>2, CallersOnly DEF operationCompleted, lifecycleVars, publicationVars
  <2> QED BY <2>1, <2>2
<1>3. Hand' /\ OnlyJob(a)
  BY <1>1, <1>2, HandKept
<1>4. CASE removeLease(a)
  <2>1. /\ Table' /\ OnlyLease(a) /\ a \in closed /\ at' = at
        /\ active' = active \ {a} /\ UNCHANGED <<request, closed, notified>>
    BY <1>1, <1>4, Removal DEF removeLease, actorVars
  <2>2. Numbers'
    BY <1>2, <2>1, PublicationTyped, NumbersKept
  <2>3. Places' /\ OnlyMoves(a)
    BY <1>2, <2>1 DEF Leases, Places, OnlyMoves, MayBeAt
  <2>4. ASSUME a \in Op PROVE OpFits(a)'
    <3>1. OpFits(a)
      BY <2>4 DEF Leases
    <3> QED BY <1>2, <2>1, <3>1 DEF OpFits
  <2>5. ASSUME a \in Job PROVE JobFits(a)'
    <3>1. JobFits(a)
      BY <2>5 DEF Leases
    <3> QED BY <1>2, <2>1, <3>1 DEF JobFits, SameHand, Prepares
  <2> QED BY <1>1, <1>3, <2>1, <2>2, <2>3, <2>4, <2>5, OneActor DEF Fits
<1>5. CASE operationCompleted(a)
  <2>1. /\ Table' /\ OnlyLease(a) /\ a \in closed /\ a \notin active /\ a \notin notified
        /\ notified' = notified \cup {a} /\ UNCHANGED <<request, closed, active>>
    BY <1>1, <1>5, Notification DEF operationCompleted
  <2>2. Numbers'
    BY <1>2, <2>1, PublicationTyped, NumbersKept
  <2>3. PICK place \in {"detach", "accept", "unreserve", "done"} :
           GoTo(a, place) /\ (a \notin Op => place \notin {"accept", "unreserve"})
    BY <1>5, AfterReleasePlaces DEF operationCompleted
  <2>4. place \in OpPlace \cup JobPlace \cup LoaderPlace /\ MayBeAt(a, place)
    BY <1>1, <2>3 DEF OpPlace, JobPlace, LoaderPlace, MayBeAt, InClose
  <2>5. at'[a] = place
    BY <1>1, <1>2, <2>3, <2>4, Walking
  <2>6. ASSUME a \in Op PROVE OpFits(a)'
    <3>1. OpFits(a) /\ at[a] = "closing"
      BY <2>1, <2>6 DEF Leases, OpFits
    <3> QED BY <1>2, <2>1, <2>3, <2>5, <3>1 DEF OpFits, UnderLease, Exclusive, InClose
  <2>7. ASSUME a \in Job PROVE JobFits(a)'
    <3>1. JobFits(a) /\ at[a] = "closing"
      BY <2>1, <2>7 DEF Leases, JobFits
    <3> QED BY <1>2, <2>1, <2>3, <2>5, <3>1
         DEF JobFits, SameHand, Prepares, Unclosed, InClose
  <2> QED BY <1>1, <1>2, <2>1, <2>2, <2>3, <2>4, <2>6, <2>7, Stepping DEF Fits
<1> QED BY <1>4, <1>5

-----------------------------------------------------------------------------
(* Jobs, and the dispatcher and workers of the registry.                   *)

\* A step of one job that stays where it is, or goes to another place.
LEMMA JobStepping ==
    ASSUME Leases, NEW j \in Job, NEW place \in JobPlace,
           UNCHANGED at \/ GoTo(j, place), UNCHANGED kind,
           Hand', OnlyJob(j), Table', OnlyLease(j), JobFits(j)',
           published' \in Publications, UNCHANGED <<repository, lifecycle>>,
           active' \subseteq active \/ lifecycle = "READY"
    PROVE  Leases'
<1>1. j \in Actor /\ j \notin Op /\ MayBeAt(j, place)
  BY ActorAssumption DEF Actor, MayBeAt
<1>2. Places' /\ OnlyMoves(j)
  <2>1. CASE UNCHANGED at
    BY <2>1 DEF Leases, Places, OnlyMoves, MayBeAt
  <2>2. CASE GoTo(j, place)
    BY <1>1, <2>2, Walking
  <2> QED BY <2>1, <2>2
<1>3. Numbers'
  BY DEF Leases, Numbers
<1> QED BY <1>1, <1>2, <1>3, OneActor DEF Fits

\* Preparing and submitting.
LEMMA SubmittingStep ==
    ASSUME Leases, NEW j \in Job, prepareJob(j) \/ submitJob(j)
    PROVE  Leases'
<1>1. SameHand /\ SameTable /\ UNCHANGED kind /\ UNCHANGED <<published, repository, lifecycle>>
  BY CallersOnly, NotInTable
     DEF prepareJob, submitJob, elsewhere, lifecycleVars, publicationVars
<1>2. PICK place \in Unclosed : at[j] \in Unclosed /\ GoTo(j, place)
  BY DEF prepareJob, submitJob, Unclosed
<1>3. j \in Actor /\ place \in JobPlace /\ MayBeAt(j, place)
  BY <1>2, ActorAssumption DEF Actor, JobPlace, MayBeAt
<1>4. at'[j] = place
  BY <1>1, <1>2, <1>3, Walking
<1>5. Hand' /\ OnlyJob(j) /\ Table' /\ OnlyLease(j)
  BY <1>1, <1>3, HandKept, TableKept
<1>6. JobFits(j)'
  <2>1. JobFits(j)
    BY DEF Leases
  <2> QED BY <1>1, <1>2, <1>4, <2>1 DEF JobFits, SameTable, SameHand, Prepares, Unclosed
<1> QED BY <1>1, <1>2, <1>3, <1>5, <1>6, JobStepping, PublicationTyped DEF SameTable

\* The dispatcher is at none of the places where it holds a lease, before or after.
LEMMA QuietDispatch ==
    ASSUME Leases, SameTable, UNCHANGED <<at, kind, published, repository, lifecycle>>,
           worker' = worker,
           disp \notin {"capture", "start", "abandon", "launch"},
           disp' \notin {"capture", "start", "abandon", "launch"}
    PROVE  Leases'
<1>1. \A j \in Job : JobFits(j)'
  BY DEF Leases, JobFits, SameTable, Prepares
<1>2. \A o \in Op : OpFits(o)'
  BY DEF Leases, OpFits, SameTable
<1>3. Table' /\ Numbers'
  BY TableKept, NumbersSame
<1>4. Places' /\ Hand'
  BY DEF Leases, Places, MayBeAt, Hand
<1> QED BY <1>1, <1>2, <1>3, <1>4 DEF Leases

\* The gate's answer.
LEMMA GateStepping ==
    ASSUME Leases, NEW j \in Job, admitJob(j)
    PROVE  Leases'
<1>1. /\ j = cur /\ UNCHANGED <<at, kind, published, repository, lifecycle>>
  BY DEF admitJob, actorVars, lifecycleVars, publicationVars
<1>2. CASE requireReady /\ coordinator!tryAdmit(j, jobAsks(j)) /\ jobs!gateGrants
  <2>1. PICK key \in Key : jobAsks(j) = Asks("CLASS_READ", key)
    BY ActorAssumption DEF jobAsks
  <2>2. /\ Table' /\ OnlyLease(j) /\ j \notin active /\ j \notin closed /\ request[j] = None
        /\ active' = active \cup {j} /\ closed' = closed /\ notified' = notified
        /\ request'[j] # None /\ request'[j].category = "CLASS_READ"
    BY <1>2, <2>1, Admission DEF Holder, Categories
  <2>3. disp = "admit" /\ disp' = "capture" /\ UNCHANGED <<cur, worker>>
    BY <1>2 DEF jobs!gateGrants, jobs!GoTo
  <2>4. Hand' /\ OnlyJob(j)
    BY <1>1, <2>3 DEF Leases, Hand, OnlyJob, Prepares
  <2>5. JobFits(j)'
    <3>1. JobFits(j)
      BY DEF Leases
    <3> QED BY <1>1, <2>2, <2>3, <3>1 DEF JobFits, Prepares
  <2>6. lifecycle = "READY" /\ published' \in Publications
    BY <1>1, <1>2, PublicationTyped DEF requireReady
  <2> QED BY <1>1, <2>2, <2>4, <2>5, <2>6, JobStepping DEF JobPlace
<1>3. CASE (jobs!gateBlocks \/ jobs!gateStops \/ jobs!gateFails) /\ UNCHANGED coordinatorVars
  <2>1. /\ disp = "admit" /\ disp' \in {"requeue", "fail"} /\ worker' = worker
    BY <1>3 DEF jobs!gateBlocks, jobs!gateStops, jobs!gateFails, jobs!GoTo, jobs!workVars
  <2>2. SameTable
    BY <1>3, NotInTable
  <2> QED BY <1>1, <2>1, <2>2, QuietDispatch
<1> QED BY <1>2, <1>3 DEF admitJob

\* Closing the lease of a job that is prepared or at work.
LEMMA JobClosing ==
    ASSUME Leases, NEW j \in Job, coordinator!close(j), GoTo(j, "closing"), UNCHANGED kind,
           UNCHANGED <<published, repository, lifecycle>>,
           Hand', OnlyJob(j), ~ Prepares(j)', worker'[j] # "running",
           worker'[j] # "none" => worker[j] # "none"
    PROVE  Leases'
<1>1. j \in Actor /\ j \in Holder /\ j \notin Op /\ j # Loader /\ j # Closer
  BY ActorAssumption DEF Actor, Holder
<1>2. /\ Table' /\ OnlyLease(j) /\ request[j] # None /\ j \notin closed
      /\ active' = active /\ request' = request
      /\ closed' = closed \cup {j} /\ notified' = notified
  BY <1>1, Closing
<1>3. "closing" \in JobPlace /\ MayBeAt(j, "closing")
  BY <1>1 DEF JobPlace, MayBeAt
<1>4. at'[j] = "closing"
  BY <1>1, <1>3, Walking
<1>5. JobFits(j)'
  <2>1. JobFits(j) /\ j \notin notified
    BY <1>2 DEF Leases, Table
  <2> QED BY <1>2, <1>4, <2>1 DEF JobFits, Unclosed
<1> QED BY <1>2, <1>3, <1>5, PublicationTyped, JobStepping

LEMMA CaptureStepping ==
    ASSUME Leases, NEW j \in Job, captureSearchRead(j)
    PROVE  Leases'
<1>1. j = cur /\ UNCHANGED <<kind, published, repository, lifecycle>> /\ JobFits(j)
  BY DEF captureSearchRead, elsewhere, lifecycleVars, publicationVars, Leases
<1>2. CASE jobs!captureSucceeds /\ UNCHANGED <<coordinatorVars, at>>
  <2>1. disp = "capture" /\ disp' = "start" /\ UNCHANGED <<cur, worker>>
    BY <1>2 DEF jobs!captureSucceeds, jobs!GoTo, jobs!workVars
  <2>2. SameTable /\ j \in Actor
    BY <1>2, NotInTable DEF Actor
  <2>3. Hand' /\ OnlyJob(j) /\ Table' /\ OnlyLease(j)
    BY <1>1, <2>1, <2>2, TableKept DEF Leases, Hand, OnlyJob, Prepares
  <2>4. JobFits(j)'
    BY <1>1, <1>2, <2>1, <2>2 DEF JobFits, SameTable, Prepares
  <2> QED BY <1>1, <1>2, <2>2, <2>3, <2>4, PublicationTyped, JobStepping DEF SameTable, JobPlace
<1>3. CASE jobs!captureFails /\ coordinator!close(j) /\ GoTo(j, "closing")
  <2>1. disp = "capture" /\ disp' = "fail" /\ UNCHANGED <<cur, worker>>
    BY <1>3 DEF jobs!captureFails
  <2>2. Hand' /\ OnlyJob(j) /\ ~ Prepares(j)' /\ worker'[j] = "none"
    BY <1>1, <2>1 DEF Leases, Hand, OnlyJob, Prepares, JobFits
  <2> QED BY <1>1, <1>3, <2>2, JobClosing
<1> QED BY <1>2, <1>3 DEF captureSearchRead

\* The lease of a job is closed by the dispatcher or by its worker.
LEMMA JobReleasing ==
    ASSUME Leases, NEW j \in Job, startFails(j) \/ taskReturns(j)
    PROVE  Leases'
<1>1. /\ coordinator!close(j) /\ GoTo(j, "closing")
      /\ UNCHANGED <<kind, published, repository, lifecycle>> /\ JobFits(j)
  BY DEF startFails, taskReturns, closesLease, elsewhere, lifecycleVars, publicationVars, Leases
<1>2. CASE startFails(j)
  <2>1. /\ j = cur /\ disp \in {"abandon", "launch"} /\ disp' = "fail"
        /\ UNCHANGED <<cur, worker>>
    BY <1>2 DEF startFails, closesLease, jobs!abandonStart, jobs!launchRejected
  <2>2. Hand' /\ OnlyJob(j) /\ ~ Prepares(j)' /\ worker'[j] = "none"
    BY <1>1, <2>1 DEF Leases, Hand, OnlyJob, Prepares, JobFits
  <2> QED BY <1>1, <2>2, JobClosing
<1>3. CASE taskReturns(j)
  <2>1. /\ worker[j] = "running" /\ UNCHANGED <<disp, cur>>
        /\ \E outcome \in {"succeeded", "failed", "cancelled"} :
              worker' = [worker EXCEPT ![j] = outcome]
    BY <1>3 DEF taskReturns, closesLease, jobs!taskReturns, jobs!Outcome, jobs!dispatchVars
  <2>2. worker \in [Job -> WorkerState]
    BY DEF Leases, Hand
  <2>3. Hand' /\ OnlyJob(j) /\ worker'[j] \in {"succeeded", "failed", "cancelled"}
    BY <2>1, <2>2 DEF Leases, Hand, OnlyJob, Prepares, WorkerState
  <2>4. ~ Prepares(j)'
    BY <1>1, <2>1 DEF JobFits, Prepares
  <2> QED BY <1>1, <2>1, <2>3, <2>4, JobClosing
<1> QED BY <1>2, <1>3

\* The registry is told, and a fatal error is reported.
LEMMA ConcludingStep ==
    ASSUME Leases, NEW j \in Job, execute(j) \/ reportFatalRebuild(j)
    PROVE  Leases'
<1>1. JobFits(j) /\ j \in Actor /\ j \notin Op /\ j # Loader /\ j # Closer
  BY ActorAssumption DEF Leases, Actor
<1>2. CASE execute(j)
  <2>1. /\ SameTable /\ UNCHANGED <<kind, published, repository, lifecycle>>
        /\ at[j] = "done" /\ (UNCHANGED at \/ GoTo(j, "fatal"))
    BY <1>2, NotInTable DEF execute, elsewhere, lifecycleVars, publicationVars, GoTo
  <2>2. /\ worker[j] \in {"succeeded", "failed", "cancelled"} /\ UNCHANGED <<disp, cur>>
        /\ worker' = [worker EXCEPT ![j] = "none"]
    BY <1>2 DEF execute, jobs!execute, jobs!dispatchVars
  <2>3. Hand' /\ OnlyJob(j) /\ worker'[j] = "none"
    BY <2>2 DEF Leases, Hand, OnlyJob, Prepares, WorkerState
  <2>4. at'[j] \in {"done", "fatal"}
    BY <1>1, <2>1, Walking DEF JobPlace, MayBeAt
  <2>5. JobFits(j)'
    BY <1>1, <2>1, <2>2, <2>3, <2>4 DEF JobFits, SameTable, Prepares, Unclosed
  <2>6. Table' /\ OnlyLease(j)
    BY <1>1, <2>1, TableKept
  <2> QED BY <2>1, <2>3, <2>5, <2>6, PublicationTyped, JobStepping DEF JobPlace, SameTable
<1>3. CASE reportFatalRebuild(j)
  <2>1. /\ SameHand /\ SameTable /\ UNCHANGED kind /\ UNCHANGED repository
        /\ UNCHANGED published \/ withdrawIdentity
        /\ lifecycle' \in {lifecycle, "FAILED"} /\ at[j] \in {"fatal", "report"}
    BY <1>3, CallersOnly, NotInTable DEF reportFatalRebuild
  <2>2. PICK place \in {"cleanup", "done"} : GoTo(j, place)
    BY <1>3 DEF reportFatalRebuild
  <2>3. Numbers' /\ Table' /\ OnlyLease(j)
    BY <1>1, <2>1, PublicationTyped, NumbersKept, TableKept DEF SameTable
  <2>4. place \in JobPlace /\ MayBeAt(j, place)
    BY <1>1, <2>2 DEF JobPlace, MayBeAt, InClose
  <2>5. at'[j] = place
    BY <1>1, <2>1, <2>2, <2>4, Walking
  <2>6. JobFits(j)'
    BY <1>1, <2>1, <2>2, <2>5 DEF JobFits, SameTable, SameHand, Prepares, Unclosed
  <2> QED BY <1>1, <2>1, <2>2, <2>3, <2>4, <2>6, Stepping DEF Fits
<1> QED BY <1>2, <1>3

\* The dispatch run between its admissions, captures and releases.
LEMMA DispatchStepping ==
    ASSUME Leases, dispatcherGoesOn
    PROVE  Leases'
<1>1. SameTable /\ UNCHANGED <<at, kind, published, repository, lifecycle>>
  BY NotInTable DEF dispatcherGoesOn, actorVars, lifecycleVars, publicationVars
<1>2. CASE \/ jobs!runDispatch \/ jobs!clearPending \/ jobs!whilePending \/ jobs!unschedule
           \/ jobs!recheck \/ jobs!pumpHead \/ jobs!pumpReturns \/ jobs!requeueBlocked
           \/ jobs!finishDispatchFailure
  <2>1. /\ disp \in {"idle", "clear", "while", "unschedule", "recheck", "pump", "requeue", "fail"}
        /\ disp' \in {"clear", "pump", "unschedule", "recheck", "idle", "admit", "while"}
        /\ worker' = worker
    BY <1>2 DEF jobs!runDispatch, jobs!clearPending, jobs!whilePending, jobs!unschedule,
       jobs!recheck, jobs!pumpHead, jobs!pumpReturns, jobs!requeueBlocked,
       jobs!finishDispatchFailure, jobs!GoTo, jobs!workVars
  <2> QED BY <1>1, <2>1, QuietDispatch
<1>3. CASE jobs!startAdmitted \/ jobs!launch
  <2>1. disp \in {"start", "launch"} /\ worker \in [Job -> WorkerState]
    BY <1>3 DEF Leases, Hand, jobs!startAdmitted, jobs!launch
  <2>2. PICK j \in Job : j = cur
    BY <2>1 DEF Leases, Hand
  <2>3. \/ disp' \in {"abandon", "launch"} /\ UNCHANGED <<cur, worker>>
        \/ disp' = "pump" /\ worker' = [worker EXCEPT ![j] = "running"]
    BY <1>3, <2>2 DEF jobs!startAdmitted, jobs!launch, jobs!GoTo, jobs!workVars
  <2>4. Hand' /\ OnlyJob(j)
    BY <2>1, <2>2, <2>3 DEF Leases, Hand, OnlyJob, Prepares, WorkerState
  <2>5. JobFits(j)'
    <3>1. JobFits(j) /\ (j \in active => request[j] # None)
      BY DEF Leases, Table
    <3> QED BY <1>1, <2>1, <2>2, <2>3, <3>1 DEF JobFits, SameTable, Prepares
  <2>6. Table' /\ OnlyLease(j)
    BY <1>1, <2>2, TableKept DEF Actor
  <2> QED BY <1>1, <2>4, <2>5, <2>6, PublicationTyped, JobStepping DEF JobPlace, SameTable
<1> QED BY <1>2, <1>3 DEF dispatcherGoesOn

-----------------------------------------------------------------------------
(* The invariant, and what follows from it.                                *)

LEMMA LeasesNext == Leases /\ [Next]_vars => Leases'
<1> SUFFICES ASSUME Leases, [Next]_vars PROVE Leases'
  OBVIOUS
<1>1. ASSUME NEW o \in Op, Starts(o) \/ OpStep(o) PROVE Leases'
  BY <1>1, StartStep, OpStepStep
<1>2. CASE initializeAsync \/ LoaderStep
  BY <1>2, LoaderStepping
<1>3. CASE close \/ CloseStep(Closer)
  BY <1>3, CloseStepping
<1>4. ASSUME NEW a \in Op \cup Job, LeaseStep(a) PROVE Leases'
  BY <1>4, ReleaseStepping, CloseStepping DEF LeaseStep
<1>5. ASSUME NEW j \in Job,
             \/ prepareJob(j) \/ submitJob(j) \/ admitJob(j) \/ captureSearchRead(j)
             \/ startFails(j) \/ WorkerStep(j)
      PROVE  Leases'
  BY <1>5, SubmittingStep, GateStepping, CaptureStepping, JobReleasing, ConcludingStep
     DEF WorkerStep
<1>6. CASE dispatcherGoesOn
  BY <1>6, DispatchStepping
<1>7. CASE jobCalls \/ UNCHANGED vars
  <2>1. SameHand /\ SameTable /\ UNCHANGED <<at, kind, published, repository, lifecycle>>
    BY <1>7, CallersOnly, NotInTable
       DEF jobCalls, vars, outside, actorVars, lifecycleVars, publicationVars
  <2>2. Places' /\ Hand' /\ Table' /\ Numbers'
    BY <2>1, HandKept, TableKept, NumbersSame DEF Leases, Places, MayBeAt
  <2>3. \A o \in Op : OpFits(o)'
    BY <2>1 DEF Leases, OpFits, SameTable
  <2>4. \A j \in Job : JobFits(j)'
    BY <2>1 DEF Leases, JobFits, SameTable, SameHand, Prepares
  <2> QED BY <2>2, <2>3, <2>4 DEF Leases
<1> QED BY <1>1, <1>2, <1>3, <1>4, <1>5, <1>6, <1>7 DEF Next

LEMMA LeasesInit == Init => Leases
<1> SUFFICES ASSUME Init PROVE Leases
  OBVIOUS
<1>1. /\ active = {} /\ closed = {} /\ notified = {} /\ request = [l \in Holder |-> None]
      /\ disp = "idle" /\ worker = [j \in Job |-> "none"]
      /\ at = [a \in Actor |-> "idle"] /\ kind = [o \in Op |-> "none"]
      /\ published = [admission |-> 0, epoch |-> 0, identity |-> NoIdentity]
      /\ lifecycle = "LOADING"
  BY DEF Init, coordinator!Init, jobs!Init, Holder
<1>2. Places
  BY <1>1 DEF Places, MayBeAt, OpPlace, JobPlace, LoaderPlace, CloserPlace, Unclosed, OpKind
<1>3. Hand /\ Numbers
  BY <1>1 DEF Hand, WorkerState, Numbers, Publications, Revision
<1>4. Table
  BY <1>1, FS_EmptySet DEF Table
<1>5. \A o \in Op : OpFits(o)
  BY <1>1 DEF OpFits, UnderLease, Exclusive, Actor
<1>6. \A j \in Job : JobFits(j)
  BY <1>1 DEF JobFits, Prepares, Unclosed, Actor
<1> QED BY <1>2, <1>3, <1>4, <1>5, <1>6 DEF Leases

LEMMA LeasesInvariance == Spec => []Leases
BY LeasesInit, LeasesNext, PTL DEF Spec

-----------------------------------------------------------------------------
(* The runtime drives its parts as their own modules say.                  *)

\* Everything a step of the runtime may do in the coordinator.
CoordinatorStep ==
    \/ UNCHANGED coordinatorVars
    \/ coordinator!stopAdmissions
    \/ \E l \in Holder : \/ \E category \in Categories, key \in Key :
                               coordinator!tryAdmit(l, Asks(category, key))
                         \/ coordinator!finishSnapshotCapture(l)
                         \/ coordinator!close(l)
                         \/ coordinator!remove(l)
                         \/ coordinator!afterRelease(l)

LEMMA StartsInCoordinator ==
    ASSUME NEW o \in Op, Starts(o)
    PROVE  CoordinatorStep
<1>1. ASSUME NEW category \in Categories, admit(o, category) PROVE CoordinatorStep
  BY <1>1 DEF admit, CoordinatorStep, Holder
<1>2. CASE readPublished(o) \/ reserveShutdown(o)
  BY <1>2 DEF readPublished, reserveShutdown, outside, CoordinatorStep
<1>3. CASE ~ (readPublished(o) \/ reserveShutdown(o))
  <2>1. \E category \in Categories : admit(o, category)
    BY <1>3 DEF Starts, withPrimaryClassRead, withExclusiveMappingExport, withEngineRead,
       withPrimarySymbolRead, withQueryRead, withTemporaryAnalysis, saveProject,
       withExclusiveEdit, rebuild, reserveShutdownSave, Categories
  <2> QED BY <1>1, <2>1
<1> QED BY <1>2, <1>3

LEMMA StepsInCoordinator ==
    ASSUME [Next]_vars
    PROVE  CoordinatorStep
<1>1. ASSUME NEW o \in Op, Starts(o) PROVE CoordinatorStep
  BY <1>1, StartsInCoordinator
<1>2. ASSUME NEW o \in Op, OpStep(o) PROVE CoordinatorStep
  <2>1. o \in Holder
    BY DEF Holder
  <2> QED BY <1>2, <2>1
     DEF OpStep, captureEngine, useEnds, snapshotEnds, createTemporary, readRepository,
         recheckEpoch, saved, stage, publishReplacement, closeOld, discard, restore,
         reportFatalRebuild, release, shutdownSave, acceptShutdown, unreserve, signalRefused,
         outside, CoordinatorStep
<1>3. CASE initializeAsync \/ LoaderStep \/ close
  BY <1>3 DEF initializeAsync, LoaderStep, taskRuns, createFirst, loadFirst, publishFirst,
     initializationFails, discardFirst, taskEnds, close, outside, CoordinatorStep
<1>4. ASSUME NEW a \in Op \cup Job \cup {Closer}, CloseStep(a) PROVE CoordinatorStep
  BY <1>4 DEF CloseStep, closeInternal, shutdownJobs, shutdownExecutors, closeDetached,
     finishClose, outside, CoordinatorStep
<1>5. ASSUME NEW a \in Op \cup Job, removeLease(a) \/ operationCompleted(a) PROVE CoordinatorStep
  BY <1>5 DEF removeLease, operationCompleted, CoordinatorStep, Holder
<1>6. ASSUME NEW j \in Job, admitJob(j) PROVE CoordinatorStep
  <2>1. PICK key \in Key : jobAsks(j) = Asks("CLASS_READ", key)
    BY ActorAssumption DEF jobAsks
  <2> QED BY <1>6, <2>1 DEF admitJob, CoordinatorStep, Holder, Categories
<1>7. ASSUME NEW j \in Job,
             prepareJob(j) \/ submitJob(j) \/ captureSearchRead(j) \/ startFails(j) \/ WorkerStep(j)
      PROVE  CoordinatorStep
  BY <1>7 DEF prepareJob, submitJob, captureSearchRead, startFails, WorkerStep, taskReturns,
     execute, reportFatalRebuild, closesLease, CoordinatorStep, Holder
<1>8. CASE dispatcherGoesOn \/ jobCalls \/ UNCHANGED vars
  BY <1>8 DEF dispatcherGoesOn, jobCalls, vars, outside, CoordinatorStep
<1> QED BY <1>1, <1>2, <1>3, <1>4, <1>5, <1>6, <1>7, <1>8 DEF Next, LeaseStep

(* The runtime calls the coordinator only as OperationCoordinator allows:  *)
(* every lease it asks for is for a revision it published, and what is     *)
(* proved of the coordinator, exclusion and the single-writer gate, holds  *)
(* of the coordinator inside the runtime (ProjectRuntime's calls of        *)
(* tryAdmit, finishSnapshotCapture, close and stopAdmissions).             *)
THEOREM CoordinatorFollowed == Spec => coordinator!Spec
<1>1. Init => coordinator!Init
  BY DEF Init
<1>2. Leases /\ [Next]_vars => [coordinator!Next]_(coordinator!vars)
  <2> SUFFICES ASSUME Leases, [Next]_vars
               PROVE  coordinator!Next \/ UNCHANGED coordinator!vars
    OBVIOUS
  <2>1. CASE UNCHANGED coordinatorVars
    BY <2>1 DEF coordinatorVars, coordinator!vars
  <2>2. CASE coordinator!stopAdmissions
    BY <2>2 DEF coordinator!Next
  <2>3. ASSUME NEW l \in Holder, NEW category \in Categories, NEW key \in Key,
               coordinator!tryAdmit(l, Asks(category, key))
        PROVE  coordinator!Next
    <3>1. Asks(category, key) \in Requests
      BY DEF Asks, Requests, Leases, Numbers, Publications
    <3> HIDE DEF Requests
    <3> QED BY <2>3, <3>1 DEF coordinator!Next, Holder
  <2>4. ASSUME NEW l \in Holder,
               \/ coordinator!finishSnapshotCapture(l) \/ coordinator!close(l)
               \/ coordinator!remove(l) \/ coordinator!afterRelease(l)
        PROVE  coordinator!Next
    BY <2>4 DEF coordinator!Next, Holder
  <2> QED BY <2>1, <2>2, <2>3, <2>4, StepsInCoordinator DEF CoordinatorStep
<1> QED BY <1>1, <1>2, LeasesInvariance, PTL DEF Spec, coordinator!Spec

LEMMA StepsInRegistry ==
    ASSUME [Next]_vars
    PROVE  jobs!Next \/ UNCHANGED jobsVars
<1>1. ASSUME NEW o \in Op, Starts(o) PROVE jobs!Next \/ UNCHANGED jobsVars
  BY <1>1 DEF Starts, withPrimaryClassRead, withExclusiveMappingExport, withEngineRead,
     withPrimarySymbolRead, withQueryRead, withTemporaryAnalysis, readPublished, saveProject,
     withExclusiveEdit, rebuild, reserveShutdown, reserveShutdownSave, outside, jobs!Next
<1>2. ASSUME NEW o \in Op, OpStep(o) PROVE jobs!Next \/ UNCHANGED jobsVars
  BY <1>2
     DEF OpStep, captureEngine, useEnds, snapshotEnds, createTemporary, readRepository,
         recheckEpoch, saved, stage, publishReplacement, closeOld, discard, restore,
         reportFatalRebuild, release, shutdownSave, acceptShutdown, unreserve, signalRefused,
         outside, jobs!Next
<1>3. CASE initializeAsync \/ LoaderStep \/ close
  BY <1>3 DEF initializeAsync, LoaderStep, taskRuns, createFirst, loadFirst, publishFirst,
     initializationFails, discardFirst, taskEnds, close, outside
<1>4. ASSUME NEW a \in Op \cup Job \cup {Closer},
             CloseStep(a) \/ removeLease(a) \/ operationCompleted(a)
      PROVE  jobs!Next \/ UNCHANGED jobsVars
  BY <1>4 DEF CloseStep, closeInternal, shutdownJobs, shutdownExecutors, closeDetached,
     finishClose, removeLease, operationCompleted, outside, jobs!Next
<1>5. ASSUME NEW j \in Job,
             \/ prepareJob(j) \/ submitJob(j) \/ admitJob(j) \/ captureSearchRead(j)
             \/ startFails(j) \/ WorkerStep(j)
      PROVE  jobs!Next \/ UNCHANGED jobsVars
  BY <1>5 DEF prepareJob, submitJob, admitJob, captureSearchRead, startFails, WorkerStep,
     taskReturns, execute, reportFatalRebuild, closesLease, jobs!Next
<1>6. CASE dispatcherGoesOn \/ jobCalls
  BY <1>6 DEF dispatcherGoesOn, jobCalls, jobs!Next
<1>7. CASE UNCHANGED vars
  BY <1>7 DEF vars, outside
<1> QED BY <1>1, <1>2, <1>3, <1>4, <1>5, <1>6, <1>7 DEF Next, LeaseStep

(* The runtime calls the registry, and answers as its gate, only as        *)
(* JobRegistry allows: what is proved of the registry, slots, leases, and  *)
(* the life of a job, holds of the registry inside the runtime (admitJob,  *)
(* captureSearchRead, closeInternal and requestShutdown).                  *)
THEOREM RegistryFollowed == Spec => jobs!Spec
<1>1. Init => jobs!Init
  BY DEF Init
<1>2. [Next]_vars => [jobs!Next]_(jobs!vars)
  <2>1. UNCHANGED jobsVars => UNCHANGED jobs!vars
    BY DEF jobsVars, jobs!vars, jobs!dispatchVars, jobs!signalVars, jobs!workVars
  <2> QED BY <2>1, StepsInRegistry
<1> QED BY <1>1, <1>2, PTL DEF Spec, jobs!Spec

(* Where everyone is fits the leases they hold, in every reachable state.  *)
THEOREM LeasesFit == Spec => []Leases
BY LeasesInvariance

(* publishReplacement takes the repository's monitor and lifecycleLock in  *)
(* the order opposite to rebuild()'s catch block and captureSearchRead,    *)
(* and no two of them ever run at once: the exclusive lease of the one is  *)
(* the proof that the others hold none.                                    *)
THEOREM LockOrderHolds == Spec => []LockOrderSafe
<1>1. Leases => LockOrderSafe
  <2> SUFFICES ASSUME Leases, NEW o \in Op, at[o] = "publish"
               PROVE  /\ \A p \in Op : at[p] # "restore"
                      /\ cur # None => disp # "capture"
    BY DEF LockOrderSafe
  <2>1. \A l \in active : request[l].category \in Primary => l = o
    BY ExclusiveInUse DEF Exclusive
  <2>2. ASSUME NEW p \in Op, at[p] = "restore" PROVE FALSE
    <3>1. p \in active /\ request[p].category \in Primary
      BY <2>2, ExclusiveInUse DEF Exclusive, Primary
    <3> QED BY <2>1, <2>2, <3>1
  <2>3. ASSUME disp = "capture" PROVE FALSE
    <3>1. PICK j \in Job : j = cur
      BY <2>3 DEF Leases, Hand
    <3>2. j \in active /\ request[j].category \in Primary
      BY <2>3, <3>1 DEF Leases, JobFits, Prepares, Primary
    <3> QED BY <2>1, <3>2, ActorAssumption
  <2> QED BY <2>2, <2>3
<1> QED BY <1>1, LeasesInvariance, PTL

=============================================================================
