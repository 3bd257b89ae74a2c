-------------------------- MODULE JobRegistryProofs --------------------------
(***************************************************************************)
(* Theorems of JobRegistry, for every set of jobs and all limits.          *)
(*                                                                         *)
(* The inductive invariant has three parts.  Guarded (JobRegistryLemmas)   *)
(* and IntentShown speak of the registry's record alone: every section of  *)
(* the lock keeps them, whichever thread runs it (JobRegistryLemmas).      *)
(* Placed says where each unfinished job is among queue, dispatcher and    *)
(* workers; it is kept action by action, and that is proved here.          *)
(***************************************************************************)
EXTENDS JobRegistryLemmas

-----------------------------------------------------------------------------
(* The half about the threads.                                             *)

Holding == {"admit", "requeue", "fail", "capture", "start", "abandon", "launch"}

FlagTypes == /\ pending \in BOOLEAN /\ scheduled \in BOOLEAN
             /\ runnable \in BOOLEAN /\ executors \in BOOLEAN

ThreadTypes ==
    /\ disp \in DispatcherAt
    /\ cur \in Job \cup {None}
    /\ how \in {"none", "stopping", "cancelled", "failed"}
    /\ worker \in [Job -> {"none", "running", "succeeded", "failed", "cancelled"}]
    /\ returned \in [Job -> ResultSizes \cup {0}]
    /\ leased \subseteq Job

\* The dispatcher holds a job exactly between pump() and the end of its turn,
\* and the job is in `dispatching` until it starts.
HandMatches ==
    /\ cur # None <=> disp \in Holding
    /\ reg.dispatching \subseteq InHand
    /\ disp \in Holding \ {"fail", "launch"} => cur \in reg.dispatching
    /\ disp = "launch" => cur \notin reg.dispatching
    /\ InHand \cap AtWork = {}

\* A job is where its state says.
StatesMatch ==
    /\ \A j \in Job : reg.state[j] = "QUEUED" => j \in Queued(reg) \cup reg.dispatching
    /\ \A j \in Job : reg.state[j] \in Started <=> j \in AtWork \cup (InHand \ reg.dispatching)

SlotsCounted == /\ reg.slots = Cardinality(InHand \cup AtWork)
                /\ reg.slots <= MaxRunning

\* The job in the dispatcher's hands is older than every queued one.
HandIsOldest ==
    \A j \in reg.dispatching, i \in DOMAIN reg.queue : reg.number[j] < reg.number[reg.queue[i]]

\* validateResult lets no result above the limit through.
ResultsFit == \A j \in Job : worker[j] = "succeeded" => returned[j] \in 1..MaxResultBytes

Placed == /\ FlagTypes /\ ThreadTypes /\ HandMatches /\ StatesMatch /\ SlotsCounted
          /\ LeasesAccounted /\ QueueOverrunBounded /\ HandIsOldest /\ ResultsFit

IInv == Guarded(reg) /\ IntentShown(reg) /\ Placed

\* No job starts in the step.
StartsNothing == \A j \in Job : reg.state[j] = "QUEUED" => reg'.state[j] # "RUNNING"

-----------------------------------------------------------------------------
(* What the actions have in common.                                        *)

\* The dispatcher and the workers hold finitely many jobs, all of them known.
LEMMA OccupiedFinite ==
    ASSUME IInv
    PROVE  /\ InHand \cup AtWork \subseteq reg.records
           /\ IsFiniteSet(InHand \cup AtWork)
           /\ reg.slots \in Nat
           /\ IsFiniteSet(InHand) /\ Cardinality(InHand) \in 0..1
<1>1. /\ \A j \in Job : reg.state[j] \in Started \cup {"QUEUED"} => j \in reg.records
      /\ \A j \in reg.dispatching : reg.state[j] = "QUEUED"
  BY DEF IInv, Guarded, Core, RecordsMatch, QueueOrdered, Started
<1>2. InHand \subseteq Job /\ AtWork \subseteq Job
  BY DEF IInv, Placed, ThreadTypes, InHand, AtWork
<1>3. InHand \cup AtWork \subseteq reg.records
  BY <1>1, <1>2 DEF IInv, Placed, StatesMatch
<1>4. IsFiniteSet(InHand \cup AtWork)
  BY <1>3, FS_Subset DEF IInv, Guarded, Core, RecordsMatch
<1>5. reg.slots \in Nat
  BY <1>4, FS_CardinalityType DEF IInv, Placed, SlotsCounted
<1>6. IsFiniteSet(InHand) /\ Cardinality(InHand) \in 0..1
  <2>1. CASE cur = None
    <3>1. InHand = {}
      BY <2>1 DEF InHand
    <3> QED BY <3>1, FS_EmptySet
  <2>2. CASE cur # None
    <3>1. InHand = {cur}
      BY <2>2 DEF InHand
    <3> QED BY <3>1, FS_Singleton
  <2> QED BY <2>1, <2>2
<1> QED BY <1>3, <1>4, <1>5, <1>6

\* A section that takes nothing from the threads leaves every job placed.
LEMMA QuietPlaced ==
    ASSUME IInv, Guarded(reg'), Quiet(reg, reg'), FlagTypes',
           UNCHANGED <<cur, how, worker, returned, leased>>,
           disp' = disp \/ (disp \notin Holding /\ disp' \in DispatcherAt \ Holding)
    PROVE  Placed' /\ StartsNothing
<1>1. InHand' = InHand /\ AtWork' = AtWork
  BY DEF InHand, AtWork
<1>2. /\ reg'.dispatching = reg.dispatching /\ reg'.slots = reg.slots
      /\ Len(reg'.queue) <= Len(reg.queue) /\ Queued(reg') \subseteq Queued(reg)
      /\ \A j \in reg'.records : reg'.number[j] = reg.number[j]
      /\ \A j \in Job :
            /\ reg'.state[j] = "QUEUED" => /\ reg.state[j] = "QUEUED"
                                           /\ j \in Queued(reg) => j \in Queued(reg')
            /\ reg'.state[j] \in Started <=> reg.state[j] \in Started
  BY DEF Quiet
<1>3. ThreadTypes'
  BY DEF IInv, Placed, ThreadTypes
<1>4. HandMatches'
  BY <1>1, <1>2 DEF IInv, Placed, HandMatches, Holding
<1>5. StatesMatch'
  BY <1>1, <1>2 DEF IInv, Placed, StatesMatch
<1>6. SlotsCounted'
  BY <1>1, <1>2 DEF IInv, Placed, SlotsCounted
<1>7. LeasesAccounted'
  BY DEF IInv, Placed, LeasesAccounted, Holding
<1>8. QueueOverrunBounded'
  <2>1. Len(reg.queue) \in Nat /\ Len(reg'.queue) \in Nat
    BY LenProperties DEF IInv, Guarded, Core, RecordsMatch, Registry
  <2>2. Cardinality(InHand) \in 0..1
    BY OccupiedFinite
  <2> QED BY <1>1, <1>2, <2>1, <2>2, LimitsAssumption DEF IInv, Placed, QueueOverrunBounded
<1>9. HandIsOldest'
  <2> SUFFICES ASSUME NEW j \in reg'.dispatching, NEW i \in DOMAIN reg'.queue
               PROVE  reg'.number[j] < reg'.number[reg'.queue[i]]
    BY DEF HandIsOldest
  <2>1. /\ reg'.state[j] = "QUEUED" /\ reg'.state[reg'.queue[i]] = "QUEUED"
        /\ j \in Job /\ reg'.queue[i] \in Job
    BY ElementOfSeq, LenProperties DEF Guarded, QueueOrdered, Core, RecordsMatch, Registry
  <2>2. j \in reg'.records /\ reg'.queue[i] \in reg'.records
    BY <2>1 DEF Guarded, Core, RecordsMatch
  <2>3. reg'.queue[i] \in Queued(reg)
    BY <1>2 DEF Queued
  <2>4. PICK k \in DOMAIN reg.queue : reg'.queue[i] = reg.queue[k]
    BY <2>3 DEF Queued
  <2>5. reg.number[j] < reg.number[reg.queue[k]]
    BY <1>2 DEF IInv, Placed, HandIsOldest
  <2> QED BY <1>2, <2>2, <2>4, <2>5
<1>10. ResultsFit'
  BY DEF IInv, Placed, ResultsFit
<1>11. StartsNothing
  BY <1>2 DEF StartsNothing, Started
<1> QED BY <1>3, <1>4, <1>5, <1>6, <1>7, <1>8, <1>9, <1>10, <1>11 DEF Placed

\* A step that does not touch the registry.
LEMMA SameRegistry ==
    ASSUME IInv, reg' = reg
    PROVE  /\ Guarded(reg') /\ Section(reg, reg') /\ Quiet(reg, reg')
           /\ IntentShown(reg') /\ StartsNothing
<1>1. Guarded(reg') /\ IntentShown(reg')
  BY DEF IInv
<1>2. Section(reg, reg')
  BY <1>1, ControlSection DEF IInv, SameRecords
<1>3. Quiet(reg, reg')
  <2>1. Len(reg.queue) \in Nat
    BY LenProperties DEF IInv, Guarded, Core, RecordsMatch, Registry
  <2> QED BY <2>1 DEF Quiet
<1>4. StartsNothing
  BY DEF StartsNothing
<1> QED BY <1>1, <1>2, <1>3, <1>4

\* The dispatcher goes on with the job in its hands, outside the lock.
LEMMA HandGoesOn ==
    ASSUME IInv, UNCHANGED <<reg, cur, worker, returned>>, FlagTypes',
           disp \in Holding, disp' \in Holding \ {"launch"},
           disp' = "fail" \/ disp \notin {"fail", "launch"},
           how' \in {"none", "stopping", "cancelled", "failed"},
           leased' \subseteq Job, LeasesAccounted'
    PROVE  Placed'
<1>1. InHand' = InHand /\ AtWork' = AtWork
  BY DEF InHand, AtWork
<1>2. ThreadTypes'
  BY DEF IInv, Placed, ThreadTypes, Holding, DispatcherAt
<1>3. HandMatches'
  BY <1>1 DEF IInv, Placed, HandMatches, Holding
<1>4. StatesMatch' /\ SlotsCounted' /\ QueueOverrunBounded' /\ HandIsOldest' /\ ResultsFit'
  BY <1>1 DEF IInv, Placed, StatesMatch, SlotsCounted, QueueOverrunBounded, HandIsOldest,
              ResultsFit, Queued
<1> QED BY <1>2, <1>3, <1>4 DEF Placed

\* A job that ends in the hands of the dispatcher or of a worker leaves every
\* other job where it is: what the gate refuses for good, what cannot be
\* prepared or launched, and what a worker has run.
LEMMA ReleasedPlaced ==
    ASSUME IInv, Guarded(reg'), NEW j \in InHand \cup AtWork, Released(reg, reg', j),
           InHand' = InHand \ {j}, AtWork' = AtWork \ {j}
    PROVE  /\ StatesMatch' /\ SlotsCounted' /\ QueueOverrunBounded' /\ HandIsOldest'
           /\ StartsNothing
<1>1. /\ reg'.dispatching = reg.dispatching \ {j} /\ reg'.slots = reg.slots - 1
      /\ reg'.queue = reg.queue /\ Queued(reg') = Queued(reg)
      /\ reg'.records \subseteq reg.records
      /\ \A k \in reg'.records : reg'.number[k] = reg.number[k]
      /\ \A k \in Job \ {j} : Kept(reg, reg', k)
      /\ reg'.state[j] \in Terminal
  BY SameQueue DEF Released
<1>2. /\ IsFiniteSet(InHand \cup AtWork) /\ reg.slots \in Nat
      /\ IsFiniteSet(InHand) /\ Cardinality(InHand) \in 0..1
      /\ InHand \cup AtWork \subseteq reg.records
  BY OccupiedFinite
<1>3. \A k \in Job \ {j} : /\ reg'.state[k] = "QUEUED" <=> reg.state[k] = "QUEUED"
                           /\ reg'.state[k] \in Started <=> reg.state[k] \in Started
  BY <1>1 DEF Kept, Started, Terminal
<1>4. StatesMatch'
  <2>1. reg'.state[j] # "QUEUED" /\ reg'.state[j] \notin Started
    BY <1>1 DEF Started, Terminal
  <2>2. \A k \in Job : reg'.state[k] = "QUEUED" => k \in Queued(reg') \cup reg'.dispatching
    BY <1>1, <1>3, <2>1 DEF IInv, Placed, StatesMatch
  <2>3. \A k \in Job \ {j} : k \in AtWork' \cup (InHand' \ reg'.dispatching)
                               <=> k \in AtWork \cup (InHand \ reg.dispatching)
    BY <1>1
  <2>4. j \notin AtWork' \cup InHand'
    OBVIOUS
  <2> QED BY <1>3, <2>1, <2>2, <2>3, <2>4 DEF IInv, Placed, StatesMatch
<1>5. SlotsCounted'
  <2> DEFINE Occupied == InHand \cup AtWork
  <2>1. InHand' \cup AtWork' = Occupied \ {j} /\ j \in Occupied
    OBVIOUS
  <2>2. reg.slots = Cardinality(Occupied) /\ reg.slots <= MaxRunning
    BY DEF IInv, Placed, SlotsCounted
  <2>3. IsFiniteSet(Occupied)
    BY <1>2
  <2> HIDE DEF Occupied
  <2>4. Cardinality(Occupied \ {j}) = Cardinality(Occupied) - 1
    BY <2>1, <2>3, FS_RemoveElement
  <2>5. reg'.slots = Cardinality(InHand' \cup AtWork')
    BY <1>1, <2>1, <2>2, <2>4
  <2>6. reg'.slots <= MaxRunning
    BY <1>1, <1>2, <2>2, LimitsAssumption
  <2> QED BY <2>5, <2>6 DEF SlotsCounted
<1>6. QueueOverrunBounded'
  <2>1. Cardinality(InHand') <= Cardinality(InHand) /\ Cardinality(InHand') \in Nat
    BY <1>2, FS_Subset, FS_CardinalityType
  <2>2. Len(reg.queue) \in Nat
    BY LenProperties DEF IInv, Guarded, Core, RecordsMatch, Registry
  <2>3. Len(reg.queue) + Cardinality(InHand) <= MaxQueued + 1
    BY DEF IInv, Placed, QueueOverrunBounded
  <2> QED BY <1>1, <1>2, <2>1, <2>2, <2>3, LimitsAssumption DEF QueueOverrunBounded
<1>7. HandIsOldest'
  <2> SUFFICES ASSUME NEW k \in reg'.dispatching, NEW i \in DOMAIN reg'.queue
               PROVE  reg'.number[k] < reg'.number[reg'.queue[i]]
    BY DEF HandIsOldest
  <2>1. /\ reg'.state[k] = "QUEUED" /\ reg'.state[reg'.queue[i]] = "QUEUED"
        /\ k \in Job /\ reg'.queue[i] \in Job
    BY ElementOfSeq, LenProperties DEF Guarded, QueueOrdered, Core, RecordsMatch, Registry
  <2>2. k \in reg'.records /\ reg'.queue[i] \in reg'.records
    BY <2>1 DEF Guarded, Core, RecordsMatch
  <2>3. reg.number[k] < reg.number[reg.queue[i]]
    BY <1>1 DEF IInv, Placed, HandIsOldest
  <2> QED BY <1>1, <2>2, <2>3
<1>8. StartsNothing
  <2>1. reg'.state[j] # "RUNNING"
    BY <1>1 DEF Terminal
  <2> QED BY <1>3, <2>1 DEF StartsNothing, Started
<1> QED BY <1>4, <1>5, <1>6, <1>7, <1>8

-----------------------------------------------------------------------------
(* Sections that take nothing from the threads.                            *)

\* snapshot(), and a pump() that finds nothing to take.
LEMMA PurgeStep ==
    ASSUME IInv, snapshot \/ pumpReturns
    PROVE  Section(reg, reg') /\ Placed' /\ StartsNothing
<1>1. reg' \in purgeExpiredLocked(reg)
  BY DEF snapshot, pumpReturns
<1>2. Section(reg, reg') /\ Quiet(reg, reg')
  BY <1>1, PurgeSection DEF IInv
<1>3. /\ UNCHANGED <<cur, how, worker, returned, leased>> /\ FlagTypes'
      /\ disp' = disp \/ (disp \notin Holding /\ disp' \in DispatcherAt \ Holding)
  BY DEF snapshot, pumpReturns, dispatchVars, signalVars, workVars, GoTo,
         IInv, Placed, FlagTypes, Holding, DispatcherAt
<1> QED BY <1>2, <1>3, QuietPlaced DEF Section

\* cancel(): one job that is alive and that nobody has stopped.
LEMMA CancelStep ==
    ASSUME IInv, NEW j \in Job, cancel(j)
    PROVE  Section(reg, reg') /\ Placed' /\ StartsNothing
<1>1. PICK r \in purgeExpiredLocked(reg) :
          /\ j \in Alive(r) /\ r.reason[j] = None
          /\ reg' = cancelWaiting(intendLocked(r, {j}, "USER"), {j})
          /\ setPendingAndSchedule
          /\ UNCHANGED <<dispatchVars, workVars, executors>>
  BY DEF cancel
<1>2. Section(reg, r) /\ Quiet(reg, r) /\ Guarded(r) /\ IntentShown(r)
  BY PurgeSection, IntentStaysShown DEF IInv, Section
<1>3. Section(r, reg') /\ Quiet(r, reg') /\ reg'.records \subseteq r.records
  <2>1. {j} \in SUBSET Alive(r) /\ (\A k \in {j} : r.reason[k] = None) /\ "USER" \in Reason
    BY <1>1 DEF Reason
  <2> QED BY <1>1, <1>2, <2>1, CancelSection
<1>4. Section(reg, reg') /\ Quiet(reg, reg')
  BY <1>2, <1>3, PurgeComposes, PurgeQuiet DEF IInv
<1>5. /\ UNCHANGED <<disp, cur, how, worker, returned, leased>> /\ FlagTypes'
  BY <1>1 DEF dispatchVars, workVars, setPendingAndSchedule, IInv, Placed, FlagTypes
<1> QED BY <1>4, <1>5, QuietPlaced DEF Section

\* tick(): the deadlines found expired.
LEMMA TickStep ==
    ASSUME IInv, tick
    PROVE  Section(reg, reg') /\ Placed' /\ StartsNothing
<1>1. PICK r \in purgeExpiredLocked(reg) :
          \E E \in SUBSET {j \in Alive(r) : r.reason[j] = None} :
             /\ reg' = cancelWaiting(intendLocked(r, E, "DEADLINE"), E)
             /\ IF \E j \in E : waiting(r, j) THEN setPendingAndSchedule ELSE UNCHANGED signalVars
             /\ UNCHANGED <<dispatchVars, workVars, executors>>
  BY DEF tick
<1>2. Section(reg, r) /\ Quiet(reg, r) /\ Guarded(r) /\ IntentShown(r)
  BY PurgeSection, IntentStaysShown DEF IInv, Section
<1>3. PICK E \in SUBSET {j \in Alive(r) : r.reason[j] = None} :
             /\ reg' = cancelWaiting(intendLocked(r, E, "DEADLINE"), E)
             /\ IF \E j \in E : waiting(r, j) THEN setPendingAndSchedule ELSE UNCHANGED signalVars
             /\ UNCHANGED <<dispatchVars, workVars, executors>>
  BY <1>1
<1>4. Section(r, reg') /\ Quiet(r, reg') /\ reg'.records \subseteq r.records
  <2>1. E \in SUBSET Alive(r) /\ (\A k \in E : r.reason[k] = None) /\ "DEADLINE" \in Reason
    BY DEF Reason
  <2> QED BY <1>2, <1>3, <2>1, CancelSection
<1>5. Section(reg, reg') /\ Quiet(reg, reg')
  BY <1>2, <1>4, PurgeComposes, PurgeQuiet DEF IInv
<1>6. /\ UNCHANGED <<disp, cur, how, worker, returned, leased>> /\ FlagTypes'
  BY <1>3 DEF dispatchVars, workVars, signalVars, setPendingAndSchedule, IInv, Placed, FlagTypes
<1> QED BY <1>5, <1>6, QuietPlaced DEF Section

\* shutdown() up to the end of its section.
LEMMA ShutdownStep ==
    ASSUME IInv, shutdownLocked
    PROVE  Section(reg, reg') /\ Placed' /\ StartsNothing
<1> DEFINE stop == [reg EXCEPT !.shutdownDone = TRUE, !.stopped = TRUE]
           Q == {j \in Job : \E i \in DOMAIN reg.queue : reg.queue[i] = j}
           f == finishLocked(request(dequeue(stop, Q), Q, "SHUTDOWN"), Q, "CANCELLED")
<1>1. /\ reg' = intendLocked(f, Alive(f), "SHUTDOWN")
      /\ UNCHANGED <<dispatchVars, signalVars, workVars, executors>>
  BY DEF shutdownLocked
<1>2. Q = Queued(reg)
  <2>1. \A i \in DOMAIN reg.queue : reg.queue[i] \in Job
    BY ElementOfSeq, LenProperties DEF IInv, Guarded, Core, RecordsMatch, Registry
  <2> QED BY <2>1 DEF Queued
<1> HIDE DEF Q
<1>3. Section(reg, reg') /\ Quiet(reg, reg')
  BY <1>1, <1>2, ShutdownSection DEF IInv
<1>4. /\ UNCHANGED <<disp, cur, how, worker, returned, leased>> /\ FlagTypes'
  BY <1>1 DEF dispatchVars, workVars, signalVars, IInv, Placed, FlagTypes
<1> QED BY <1>3, <1>4, QuietPlaced DEF Section

\* stopSubmissions() and the reservation, which only touch what refuses submissions.
LEMMA SubmissionsStep ==
    ASSUME IInv,
           \/ stopSubmissions \/ stopReserved
           \/ reserveSubmissions \/ releaseSubmissionReservation
    PROVE  Section(reg, reg') /\ Placed' /\ StartsNothing
<1>1. reg \in Registry
  BY DEF IInv, Guarded, Core, RecordsMatch
<1>2. /\ reg' \in Registry /\ SameRecords(reg, reg') /\ reg'.queue = reg.queue
      /\ reg'.dispatching = reg.dispatching /\ reg'.slots = reg.slots
  <2>1. CASE stopSubmissions
    BY <1>1, <2>1 DEF stopSubmissions, Registry, SameRecords
  <2>2. CASE stopReserved
    BY <1>1, <2>2 DEF stopReserved, Registry, SameRecords
  <2>3. CASE reserveSubmissions
    BY <1>1, <2>3 DEF reserveSubmissions, Registry, SameRecords
  <2>4. CASE releaseSubmissionReservation
    BY <1>1, <2>4 DEF releaseSubmissionReservation, Registry, SameRecords
  <2> QED BY <2>1, <2>2, <2>3, <2>4
<1>3. Guarded(reg')
  <2>1. Core(reg') /\ ResultsCompleted(reg') /\ RoomKept(reg')
    BY <1>2, ControlPreserves DEF IInv, Guarded
  <2>2. QueueOrdered(reg')
    BY <1>2 DEF IInv, Guarded, QueueOrdered, SameRecords
  <2> QED BY <2>1, <2>2 DEF Guarded
<1>4. Section(reg, reg')
  BY <1>2, <1>3, ControlSection DEF IInv
<1>5. Quiet(reg, reg')
  <2>1. Queued(reg') = Queued(reg)
    BY <1>2, SameQueue
  <2>2. Len(reg.queue) \in Nat
    BY <1>1, LenProperties DEF Registry
  <2> QED BY <1>2, <2>1, <2>2 DEF Quiet, SameRecords
<1>6. /\ UNCHANGED <<disp, cur, how, worker, returned, leased>> /\ FlagTypes'
  BY DEF stopSubmissions, stopReserved, reserveSubmissions, releaseSubmissionReservation,
         dispatchVars, workVars, signalVars, IInv, Placed, FlagTypes
<1> QED BY <1>4, <1>5, <1>6, QuietPlaced DEF Section

\* signal(), and the dispatch run outside pump(), which only touch the flags.
LEMMA SignalStep ==
    ASSUME IInv,
           \/ signal \/ runDispatch \/ clearPending \/ whilePending \/ unschedule \/ recheck
           \/ shutdownExecutors
    PROVE  Section(reg, reg') /\ Placed' /\ StartsNothing
<1>1. UNCHANGED <<reg, cur, how, worker, returned, leased>>
  BY DEF signal, runDispatch, clearPending, whilePending, unschedule, recheck,
         shutdownExecutors, dispatchVars, workVars, GoTo
<1>2. FlagTypes'
  BY DEF signal, runDispatch, clearPending, whilePending, unschedule, recheck,
         shutdownExecutors, signalVars, setPendingAndSchedule, IInv, Placed, FlagTypes
<1>3. disp' = disp \/ (disp \notin Holding /\ disp' \in DispatcherAt \ Holding)
  BY DEF signal, runDispatch, clearPending, whilePending, unschedule, recheck,
         shutdownExecutors, dispatchVars, GoTo, Holding, DispatcherAt
<1>4. Section(reg, reg') /\ Quiet(reg, reg') /\ Guarded(reg')
  BY <1>1, SameRegistry
<1> QED BY <1>1, <1>2, <1>3, <1>4, QuietPlaced

-----------------------------------------------------------------------------
(* The job in the dispatcher's hands.                                      *)

\* The gate's answer, the capture, and the paths on which the lease is closed
\* without a task: all outside the lock.
LEMMA GateStep ==
    ASSUME IInv,
           \/ gateGrants \/ gateBlocks \/ gateStops \/ gateFails
           \/ captureSucceeds \/ captureFails \/ abandonStart \/ launchRejected
    PROVE  Section(reg, reg') /\ Placed' /\ StartsNothing
<1>1. /\ UNCHANGED <<reg, cur, worker, returned>> /\ FlagTypes'
      /\ how' \in {"none", "stopping", "cancelled", "failed"}
  BY DEF gateGrants, gateBlocks, gateStops, gateFails, captureSucceeds, captureFails,
         abandonStart, launchRejected, GoTo, workVars, signalVars, IInv, Placed, FlagTypes,
         ThreadTypes
<1>2. /\ disp \in Holding /\ disp' \in Holding \ {"launch"}
      /\ disp' = "fail" \/ disp \notin {"fail", "launch"}
  BY DEF gateGrants, gateBlocks, gateStops, gateFails, captureSucceeds, captureFails,
         abandonStart, launchRejected, GoTo, Holding
<1>3. cur \in Job /\ leased \subseteq Job
  BY <1>2 DEF IInv, Placed, HandMatches, ThreadTypes
<1>4. cur \notin {j \in Job : worker[j] = "running"}
  BY <1>2, <1>3 DEF IInv, Placed, HandMatches, InHand, AtWork
<1>5. leased = (IF disp \in {"capture", "start", "abandon", "launch"} THEN {cur} ELSE {})
               \cup {j \in Job : worker[j] = "running"}
  BY DEF IInv, Placed, LeasesAccounted
<1>6. leased' \subseteq Job /\ LeasesAccounted'
  <2> DEFINE running == {j \in Job : worker[j] = "running"}
  <2>0. running' = running
    BY <1>1
  <2>1. CASE gateGrants
    <3>1. disp = "admit" /\ leased' = leased \cup {cur} /\ disp' = "capture"
      BY <2>1 DEF gateGrants, GoTo
    <3> HIDE DEF running
    <3>2. leased' = {cur} \cup running
      BY <1>5, <3>1 DEF running
    <3> QED BY <1>1, <1>3, <2>0, <3>1, <3>2 DEF LeasesAccounted, running
  <2>2. CASE gateBlocks \/ gateStops \/ gateFails
    <3>1. disp = "admit" /\ leased' = leased /\ disp' \in {"requeue", "fail"}
      BY <2>2 DEF gateBlocks, gateStops, gateFails, GoTo, workVars
    <3> QED BY <1>1, <1>3, <1>5, <3>1 DEF LeasesAccounted
  <2>3. CASE captureSucceeds
    <3>1. disp = "capture" /\ leased' = leased /\ disp' = "start"
      BY <2>3 DEF captureSucceeds, GoTo, workVars
    <3> QED BY <1>1, <1>3, <1>5, <3>1 DEF LeasesAccounted
  <2>4. CASE captureFails \/ abandonStart \/ launchRejected
    <3>1. disp \in {"capture", "abandon", "launch"} /\ leased' = leased \ {cur} /\ disp' = "fail"
      BY <2>4 DEF captureFails, abandonStart, launchRejected
    <3>2. leased' = running
      BY <1>4, <1>5, <3>1
    <3> QED BY <1>3, <2>0, <3>1, <3>2 DEF LeasesAccounted
  <2> QED BY <2>1, <2>2, <2>3, <2>4
<1>7. Placed'
  BY <1>1, <1>2, <1>6, HandGoesOn
<1> QED BY <1>1, <1>7, SameRegistry

\* workers.execute: the job moves from the dispatcher's hands to a worker.
LEMMA LaunchStep ==
    ASSUME IInv, launch
    PROVE  Section(reg, reg') /\ Placed' /\ StartsNothing
<1>1. /\ disp = "launch" /\ worker' = [worker EXCEPT ![cur] = "running"]
      /\ disp' = "pump" /\ cur' = None
      /\ UNCHANGED <<how, reg, pending, scheduled, runnable, returned, leased, executors>>
  BY DEF launch, signalVars
<1>2. /\ cur \in Job /\ cur # None /\ cur \notin reg.dispatching /\ cur \notin AtWork
      /\ InHand = {cur} /\ reg.dispatching = {}
  BY <1>1 DEF IInv, Placed, HandMatches, ThreadTypes, Holding, InHand
<1>3. /\ worker' \in [Job -> {"none", "running", "succeeded", "failed", "cancelled"}]
      /\ worker'[cur] = "running" /\ \A j \in Job \ {cur} : worker'[j] = worker[j]
  BY <1>1, <1>2 DEF IInv, Placed, ThreadTypes
<1>4. InHand' = {} /\ AtWork' = AtWork \cup {cur}
  BY <1>1, <1>2, <1>3 DEF InHand, AtWork
<1>5. FlagTypes' /\ ThreadTypes'
  BY <1>1, <1>3 DEF IInv, Placed, FlagTypes, ThreadTypes, DispatcherAt
<1>6. HandMatches'
  BY <1>1, <1>2, <1>4 DEF HandMatches, Holding
<1>7. StatesMatch'
  BY <1>1, <1>2, <1>4 DEF IInv, Placed, StatesMatch
<1>8. SlotsCounted'
  <2>1. InHand' \cup AtWork' = InHand \cup AtWork
    BY <1>2, <1>4
  <2> QED BY <1>1, <2>1 DEF IInv, Placed, SlotsCounted
<1>9. LeasesAccounted'
  BY <1>1, <1>2, <1>3 DEF IInv, Placed, LeasesAccounted
<1>10. QueueOverrunBounded'
  <2>1. Cardinality(InHand') = 0 /\ Cardinality(InHand) \in 0..1
    BY <1>4, FS_EmptySet, OccupiedFinite
  <2>2. Len(reg.queue) \in Nat
    BY LenProperties DEF IInv, Guarded, Core, RecordsMatch, Registry
  <2> QED BY <1>1, <2>1, <2>2, LimitsAssumption DEF IInv, Placed, QueueOverrunBounded
<1>11. HandIsOldest'
  BY <1>1, <1>2 DEF HandIsOldest
<1>12. ResultsFit'
  BY <1>1, <1>3 DEF IInv, Placed, ResultsFit
<1>13. Placed'
  BY <1>5, <1>6, <1>7, <1>8, <1>9, <1>10, <1>11, <1>12 DEF Placed
<1> QED BY <1>1, <1>13, SameRegistry

\* A task ends on its worker and its lease is closed, before the registry
\* hears of it.
LEMMA TaskReturnsStep ==
    ASSUME IInv, NEW j \in Job, taskReturns(j)
    PROVE  Section(reg, reg') /\ Placed' /\ StartsNothing
<1>1. /\ worker[j] = "running" /\ leased' = leased \ {j}
      /\ UNCHANGED <<reg, disp, cur, how, pending, scheduled, runnable, executors>>
      /\ \/ \E bytes \in ResultSizes :
               /\ worker' = [worker EXCEPT ![j] = Outcome(bytes)]
               /\ returned' = [returned EXCEPT ![j] = bytes]
         \/ /\ \E outcome \in {"failed", "cancelled"} : worker' = [worker EXCEPT ![j] = outcome]
            /\ returned' = returned
  BY DEF taskReturns, dispatchVars, signalVars
<1>2. /\ worker' \in [Job -> {"none", "running", "succeeded", "failed", "cancelled"}]
      /\ returned' \in [Job -> ResultSizes \cup {0}]
      /\ worker'[j] \in {"succeeded", "failed", "cancelled"}
      /\ \A k \in Job \ {j} : worker'[k] = worker[k] /\ returned'[k] = returned[k]
      /\ worker'[j] = "succeeded" => returned'[j] \in 1..MaxResultBytes
  <2>1. CASE \E bytes \in ResultSizes :
               /\ worker' = [worker EXCEPT ![j] = Outcome(bytes)]
               /\ returned' = [returned EXCEPT ![j] = bytes]
    <3>1. PICK bytes \in ResultSizes :
               /\ worker' = [worker EXCEPT ![j] = Outcome(bytes)]
               /\ returned' = [returned EXCEPT ![j] = bytes]
      BY <2>1
    <3>2. /\ Outcome(bytes) \in {"succeeded", "failed"}
          /\ Outcome(bytes) = "succeeded" => bytes \in 1..MaxResultBytes
      BY LimitsAssumption DEF Outcome
    <3> QED BY <3>1, <3>2 DEF IInv, Placed, ThreadTypes
  <2>2. CASE /\ \E outcome \in {"failed", "cancelled"} : worker' = [worker EXCEPT ![j] = outcome]
             /\ returned' = returned
    BY <2>2 DEF IInv, Placed, ThreadTypes
  <2> QED BY <1>1, <2>1, <2>2
<1>3. InHand' = InHand /\ AtWork' = AtWork /\ j \in AtWork
  BY <1>1, <1>2 DEF InHand, AtWork
<1>4. FlagTypes' /\ ThreadTypes'
  BY <1>1, <1>2 DEF IInv, Placed, FlagTypes, ThreadTypes
<1>5. HandMatches' /\ StatesMatch' /\ SlotsCounted' /\ QueueOverrunBounded' /\ HandIsOldest'
  BY <1>1, <1>3 DEF IInv, Placed, HandMatches, StatesMatch, SlotsCounted, QueueOverrunBounded,
                    HandIsOldest, Queued
<1>6. LeasesAccounted'
  <2>1. disp \in {"capture", "start", "abandon", "launch"} => cur # j
    BY <1>3 DEF IInv, Placed, HandMatches, InHand, Holding
  <2> QED BY <1>1, <1>2, <2>1 DEF IInv, Placed, LeasesAccounted
<1>7. ResultsFit'
  BY <1>2 DEF IInv, Placed, ResultsFit
<1>8. Placed'
  BY <1>4, <1>5, <1>6, <1>7 DEF Placed
<1> QED BY <1>1, <1>8, SameRegistry

-----------------------------------------------------------------------------
(* Sections that move a job.                                               *)

\* submit() puts a new job behind all others.
LEMMA SubmitStep ==
    ASSUME IInv, NEW j \in Job, submit(j)
    PROVE  Section(reg, reg') /\ Placed' /\ StartsNothing
<1>1. PICK r \in purgeExpiredLocked(reg) :
          hasRoom(r) /\ reg' = entered(r, j)
  BY DEF submit, entered
<1>2. /\ reg.state[j] = "NEW" /\ FlagTypes'
      /\ UNCHANGED <<disp, cur, how, worker, returned, leased, executors>>
  BY DEF submit, setPendingAndSchedule, dispatchVars, workVars, IInv, Placed, FlagTypes
<1>3. /\ Section(reg, r) /\ Quiet(reg, r) /\ Guarded(r)
      /\ Queued(r) = Queued(reg) /\ r.queue = reg.queue
  BY <1>1, PurgeSection DEF IInv, Section
<1>4. \A k \in Job : Kept(reg, r, k)
  BY <1>1, PurgePreserves DEF IInv
<1>5. r.state[j] = "NEW" /\ j \notin r.records
  BY <1>2, <1>3, <1>4 DEF Kept, Terminal, Guarded, Core, RecordsMatch
<1>6. /\ Section(r, reg')
      /\ reg'.dispatching = r.dispatching /\ reg'.slots = r.slots
      /\ reg'.queue = Append(r.queue, j) /\ Queued(reg') = Queued(r) \cup {j}
      /\ Len(reg'.queue) = Len(r.queue) + 1
      /\ reg'.state[j] = "QUEUED"
      /\ \A k \in r.records : reg'.number[k] = r.number[k] /\ r.number[k] < reg'.number[j]
      /\ \A k \in Job \ {j} : reg'.state[k] = r.state[k]
  <2> DEFINE q == entered(r, j)
  <2>1. /\ Section(r, q)
        /\ q.dispatching = r.dispatching /\ q.slots = r.slots
        /\ q.queue = Append(r.queue, j) /\ Queued(q) = Queued(r) \cup {j}
        /\ Len(q.queue) = Len(r.queue) + 1
        /\ q.state[j] = "QUEUED"
        /\ \A k \in r.records : q.number[k] = r.number[k] /\ r.number[k] < q.number[j]
        /\ \A k \in Job \ {j} : q.state[k] = r.state[k]
    BY <1>3, <1>5, SubmitSection
  <2> HIDE DEF q
  <2>2. reg' = q
    BY <1>1 DEF q
  <2> QED BY <2>1, <2>2
<1>7. Section(reg, reg')
  BY <1>1, <1>6, PurgeComposes DEF IInv
<1>8. /\ r.dispatching = reg.dispatching /\ r.slots = reg.slots
      /\ \A k \in r.records : r.number[k] = reg.number[k]
      /\ \A k \in Job : /\ r.state[k] = "QUEUED" => reg.state[k] = "QUEUED"
                        /\ r.state[k] \in Started <=> reg.state[k] \in Started
  BY <1>3 DEF Quiet
<1>9. InHand' = InHand /\ AtWork' = AtWork
  BY <1>2 DEF InHand, AtWork
<1>10. ThreadTypes' /\ HandMatches' /\ SlotsCounted' /\ LeasesAccounted' /\ ResultsFit'
  BY <1>2, <1>6, <1>8, <1>9
     DEF IInv, Placed, ThreadTypes, HandMatches, SlotsCounted, LeasesAccounted, ResultsFit
<1>11. StatesMatch'
  <2>1. reg.state[j] \notin Started /\ reg'.state[j] \notin Started
    BY <1>2, <1>6 DEF Started
  <2> QED BY <1>3, <1>6, <1>8, <1>9, <2>1 DEF IInv, Placed, StatesMatch
<1>12. QueueOverrunBounded'
  <2>1. Cardinality(InHand) \in 0..1
    BY OccupiedFinite
  <2>2. Len(r.queue) \in Nat /\ Len(r.queue) < MaxQueued
    BY <1>1, <1>3, LenProperties DEF hasRoom, Guarded, Core, RecordsMatch, Registry
  <2> QED BY <1>6, <1>9, <2>1, <2>2, LimitsAssumption DEF QueueOverrunBounded
<1>13. HandIsOldest'
  <2> SUFFICES ASSUME NEW k \in reg'.dispatching, NEW i \in DOMAIN reg'.queue
               PROVE  reg'.number[k] < reg'.number[reg'.queue[i]]
    BY DEF HandIsOldest
  <2>1. k \in r.dispatching /\ k \in r.records
    BY <1>3, <1>6 DEF Guarded, QueueOrdered, Core, RecordsMatch, Registry
  <2>2. /\ r.queue \in Seq(Job) /\ Len(r.queue) \in Nat /\ DOMAIN r.queue = 1..Len(r.queue)
        /\ \A l \in DOMAIN r.queue : r.queue[l] \in r.records
    <3>1. r.queue \in Seq(Job)
      BY <1>3 DEF Guarded, Core, RecordsMatch, Registry
    <3>2. Len(r.queue) \in Nat /\ DOMAIN r.queue = 1..Len(r.queue)
      BY <3>1, LenProperties
    <3>3. \A l \in DOMAIN r.queue : r.queue[l] \in Job
      BY <3>1, <3>2, ElementOfSeq
    <3>4. \A l \in DOMAIN r.queue : r.state[r.queue[l]] = "QUEUED"
      BY <1>3 DEF Guarded, QueueOrdered
    <3>5. \A k2 \in Job : r.state[k2] = "QUEUED" => k2 \in r.records
      BY <1>3 DEF Guarded, Core, RecordsMatch
    <3> QED BY <3>1, <3>2, <3>3, <3>4, <3>5
  <2>3. /\ DOMAIN reg'.queue = 1..(Len(r.queue) + 1)
        /\ \A l \in 1..Len(r.queue) : reg'.queue[l] = r.queue[l]
        /\ reg'.queue[Len(r.queue) + 1] = j
    BY <1>6, <2>2, AppendProperties, LenProperties
  <2>4. CASE i \in 1..Len(r.queue)
    <3>1. reg.number[k] < reg.number[reg.queue[i]]
      BY <1>3, <1>8, <2>1, <2>2, <2>4 DEF IInv, Placed, HandIsOldest
    <3> QED BY <1>3, <1>6, <1>8, <2>1, <2>2, <2>3, <2>4, <3>1
  <2>5. CASE i = Len(r.queue) + 1
    BY <1>6, <2>1, <2>3, <2>5
  <2> QED BY <2>2, <2>3, <2>4, <2>5
<1>14. StartsNothing
  BY <1>6, <1>8 DEF StartsNothing, Started
<1> QED BY <1>2, <1>7, <1>10, <1>11, <1>12, <1>13, <1>14 DEF Placed

\* pump() takes the head of the queue, and a slot with it.
LEMMA PumpHeadStep ==
    ASSUME IInv, pumpHead
    PROVE  Section(reg, reg') /\ Placed' /\ StartsNothing
<1>1. PICK r \in purgeExpiredLocked(reg) :
          /\ pumpTakes(r)
          /\ cur' = Head(r.queue)
          /\ reg' = [r EXCEPT !.queue = Tail(@),
                              !.dispatching = @ \cup {Head(r.queue)},
                              !.slots = @ + 1]
  BY DEF pumpHead
<1>2. /\ disp = "pump" /\ disp' = "admit" /\ FlagTypes'
      /\ UNCHANGED <<how, worker, returned, leased, executors>>
  BY DEF pumpHead, signalVars, workVars, IInv, Placed, FlagTypes
<1>3. /\ Section(reg, r) /\ Quiet(reg, r) /\ Guarded(r)
      /\ Queued(r) = Queued(reg) /\ r.queue = reg.queue
  BY <1>1, PurgeSection DEF IInv, Section
<1> DEFINE h == Head(r.queue)
<1>4. r.queue # <<>> /\ r.slots < MaxRunning
  BY <1>1 DEF pumpTakes, slotFree
<1>5. /\ Section(r, reg') /\ SameRecords(r, reg')
      /\ reg'.dispatching = r.dispatching \cup {h} /\ reg'.slots = r.slots + 1
      /\ h \in r.records /\ r.state[h] = "QUEUED" /\ h \notin r.dispatching
      /\ Queued(r) = Queued(reg') \cup {h} /\ h \notin Queued(reg')
      /\ Len(reg'.queue) = Len(r.queue) - 1
      /\ \A i \in DOMAIN reg'.queue : r.number[h] < r.number[reg'.queue[i]]
  <2> DEFINE q == [r EXCEPT !.queue = Tail(@), !.dispatching = @ \cup {h}, !.slots = @ + 1]
  <2>1. /\ Section(r, q) /\ SameRecords(r, q)
        /\ q.dispatching = r.dispatching \cup {h} /\ q.slots = r.slots + 1
        /\ h \in r.records /\ r.state[h] = "QUEUED" /\ h \notin r.dispatching
        /\ Queued(r) = Queued(q) \cup {h} /\ h \notin Queued(q)
        /\ Len(q.queue) = Len(r.queue) - 1
        /\ \A i \in DOMAIN q.queue : r.number[h] < r.number[q.queue[i]]
    <3>1. h = Head(r.queue) /\ q = taken(r, h)
      BY DEF taken
    <3> HIDE DEF h, q
    <3>2. Guarded(r) /\ r.queue # <<>>
      BY <1>3, <1>4
    <3>3. /\ Section(r, q) /\ SameRecords(r, q)
          /\ Queued(r) = Queued(q) \cup {h} /\ h \notin Queued(q)
      BY <3>1, <3>2, TakeSection
    <3>4. /\ q.dispatching = r.dispatching \cup {h} /\ q.slots = r.slots + 1
          /\ h \in r.records /\ r.state[h] = "QUEUED" /\ h \notin r.dispatching
      BY <3>1, <3>2, TakeSection
    <3>5. /\ Len(q.queue) = Len(r.queue) - 1
          /\ \A i \in DOMAIN q.queue : r.number[h] < r.number[q.queue[i]]
      BY <3>1, <3>2, TakeSection
    <3> QED BY <3>3, <3>4, <3>5
  <2>2. reg' = q
    BY <1>1
  <2> HIDE DEF q
  <2> QED BY <2>1, <2>2
<1> HIDE DEF h
<1>6. Section(reg, reg')
  BY <1>1, <1>5, PurgeComposes DEF IInv
<1>7. /\ r.dispatching = reg.dispatching /\ r.slots = reg.slots
      /\ \A k \in Job : /\ r.state[k] = "QUEUED" => /\ reg.state[k] = "QUEUED"
                        /\ r.state[k] \in Started <=> reg.state[k] \in Started
  BY <1>3 DEF Quiet
<1>8. cur = None /\ InHand = {} /\ reg.dispatching = {}
  BY <1>2 DEF IInv, Placed, HandMatches, Holding, InHand
<1>9. cur' = h /\ h \in Job /\ h # None
  BY <1>1, <1>3, <1>5, LimitsAssumption DEF h, Guarded, Core, RecordsMatch, Registry
<1>10. InHand' = {h} /\ AtWork' = AtWork
  BY <1>2, <1>9 DEF InHand, AtWork
<1>11. h \notin AtWork
  BY <1>5, <1>7, <1>9 DEF IInv, Placed, StatesMatch, Started
<1>12. ThreadTypes'
  BY <1>2, <1>9 DEF IInv, Placed, ThreadTypes, DispatcherAt
<1>13. HandMatches'
  BY <1>2, <1>5, <1>7, <1>8, <1>9, <1>10, <1>11 DEF HandMatches, Holding
<1>14. StatesMatch'
  <2>1. /\ reg'.state = r.state /\ reg'.dispatching = {h}
    BY <1>5, <1>7, <1>8 DEF SameRecords
  <2>2. \A k \in Job : reg'.state[k] = "QUEUED" => k \in Queued(reg') \cup reg'.dispatching
    BY <1>3, <1>5, <1>7, <1>8, <2>1 DEF IInv, Placed, StatesMatch
  <2>3. \A k \in Job : reg'.state[k] \in Started <=> k \in AtWork' \cup (InHand' \ reg'.dispatching)
    BY <1>7, <1>8, <1>10, <2>1 DEF IInv, Placed, StatesMatch
  <2> QED BY <2>2, <2>3 DEF StatesMatch
<1>15. SlotsCounted'
  <2>1. InHand' \cup AtWork' = AtWork \cup {h} /\ InHand \cup AtWork = AtWork
    BY <1>8, <1>10
  <2>2. IsFiniteSet(AtWork) /\ reg.slots \in Nat
    BY <2>1, OccupiedFinite
  <2>3. Cardinality(AtWork \cup {h}) = Cardinality(AtWork) + 1
    BY <1>11, <2>2, FS_AddElement
  <2>4. reg.slots = Cardinality(AtWork)
    BY <2>1 DEF IInv, Placed, SlotsCounted
  <2>5. reg'.slots = Cardinality(InHand' \cup AtWork')
    BY <1>5, <1>7, <2>1, <2>3, <2>4
  <2>6. reg'.slots <= MaxRunning
    BY <1>4, <1>5, <1>7, <2>2, LimitsAssumption
  <2> QED BY <2>5, <2>6 DEF SlotsCounted
<1>16. LeasesAccounted'
  BY <1>2 DEF IInv, Placed, LeasesAccounted
<1>17. QueueOverrunBounded'
  <2>1. Cardinality(InHand') = 1 /\ Cardinality(InHand) = 0
    BY <1>8, <1>10, FS_EmptySet, FS_Singleton
  <2>2. Len(reg.queue) \in Nat /\ Len(r.queue) = Len(reg.queue)
    BY <1>3, LenProperties DEF IInv, Guarded, Core, RecordsMatch, Registry
  <2> QED BY <1>5, <2>1, <2>2, LimitsAssumption DEF IInv, Placed, QueueOverrunBounded
<1>18. HandIsOldest'
  BY <1>5, <1>7, <1>8 DEF HandIsOldest, SameRecords
<1>19. ResultsFit'
  BY <1>2 DEF IInv, Placed, ResultsFit
<1>20. StartsNothing
  BY <1>5, <1>7 DEF StartsNothing, SameRecords, Started
<1> QED BY <1>2, <1>6, <1>12, <1>13, <1>14, <1>15, <1>16, <1>17, <1>18, <1>19, <1>20 DEF Placed

-----------------------------------------------------------------------------
(* Sections in which the dispatcher or a worker gives a slot back.         *)

\* A job that holds a slot is known, unfinished and not in the queue.
LEMMA HeldJob ==
    ASSUME IInv, NEW j \in InHand \cup AtWork
    PROVE  /\ j \in Job /\ j \in reg.records /\ reg.state[j] \notin Terminal
           /\ j \notin Queued(reg)
           /\ j \notin reg.dispatching => reg.state[j] \in Started
<1>1. j \in reg.records /\ j \in Job
  BY OccupiedFinite DEF IInv, Guarded, Core, RecordsMatch, Registry
<1>2. CASE j \in reg.dispatching
  BY <1>1, <1>2 DEF IInv, Guarded, QueueOrdered, Queued, Terminal
<1>3. CASE j \notin reg.dispatching
  <2>1. reg.state[j] \in Started
    BY <1>1, <1>3 DEF IInv, Placed, StatesMatch
  <2> QED BY <1>1, <1>3, <2>1 DEF IInv, Guarded, QueueOrdered, Queued, Terminal, Started
<1> QED BY <1>1, <1>2, <1>3

\* The dispatcher is done with the job in its hands.
LEMMA LetsGo ==
    ASSUME IInv, disp \in {"requeue", "fail"}, disp' \in {"while", "pump"}, cur' = None,
           how' \in {"none", "stopping", "cancelled", "failed"}, FlagTypes',
           UNCHANGED <<worker, returned, leased>>
    PROVE  /\ cur \in Job /\ InHand = {cur} /\ InHand' = {}
           /\ AtWork' = AtWork /\ cur \notin AtWork
           /\ ThreadTypes' /\ LeasesAccounted' /\ ResultsFit'
           /\ reg'.dispatching = reg.dispatching \ {cur} =>
                 reg'.dispatching = {} /\ HandMatches'
<1>1. cur \in Job /\ InHand = {cur} /\ cur \notin AtWork /\ reg.dispatching \subseteq {cur}
  BY DEF IInv, Placed, HandMatches, ThreadTypes, Holding, InHand
<1>2. InHand' = {} /\ AtWork' = AtWork
  BY DEF InHand, AtWork
<1>3. ThreadTypes'
  BY DEF IInv, Placed, ThreadTypes, DispatcherAt
<1>4. LeasesAccounted' /\ ResultsFit'
  BY DEF IInv, Placed, LeasesAccounted, ResultsFit
<1>5. ASSUME reg'.dispatching = reg.dispatching \ {cur}
      PROVE  reg'.dispatching = {} /\ HandMatches'
  <2>1. reg'.dispatching = {}
    BY <1>1, <1>5
  <2> QED BY <1>2, <2>1 DEF HandMatches, Holding
<1> QED BY <1>1, <1>2, <1>3, <1>4, <1>5

\* finishDispatchFailure(): the job ends in the dispatcher's hands.
LEMMA FinishFailureStep ==
    ASSUME IInv, finishDispatchFailure
    PROVE  Section(reg, reg') /\ Placed' /\ StartsNothing
<1> DEFINE b == [freeSlot(reg) EXCEPT !.dispatching = @ \ {cur}]
<1>1. /\ reg' = IF how = "failed" THEN finishLocked(b, {cur}, "FAILED")
                ELSE finishLocked(request(b, {cur}, "SHUTDOWN"), {cur}, "CANCELLED")
      /\ disp = "fail" /\ disp' \in {"while", "pump"} /\ cur' = None /\ how' = "none"
      /\ FlagTypes' /\ UNCHANGED <<worker, returned, leased>>
  BY DEF finishDispatchFailure, workVars, IInv, Placed, FlagTypes
<1>2. Freed(reg, b, cur)
  BY FreeSlotFrees DEF IInv
<1> HIDE DEF b
<1>3. /\ cur \in Job /\ InHand = {cur} /\ InHand' = {}
      /\ AtWork' = AtWork /\ cur \notin AtWork
      /\ ThreadTypes' /\ LeasesAccounted' /\ ResultsFit'
      /\ reg'.dispatching = reg.dispatching \ {cur} => HandMatches'
  BY <1>1, LetsGo
<1>4. cur \in reg.records /\ reg.state[cur] \notin Terminal /\ cur \notin Queued(reg)
  BY <1>3, HeldJob
<1>5. Guarded(b) /\ cur \in b.records
  BY <1>2, <1>4, FreedGuarded DEF IInv, Freed, SameRecords
<1>6. Section(reg, reg') /\ Released(reg, reg', cur)
  <2>1. CASE how = "failed"
    <3>1. reg' = finishLocked(b, {cur}, "FAILED")
      BY <1>1, <2>1
    <3>2. Asked(b, b, cur)
      BY <1>5 DEF Asked, SameControl
    <3> QED BY <1>2, <1>4, <3>1, <3>2, ReleaseSection DEF IInv
  <2>2. CASE how # "failed"
    <3> DEFINE a == request(b, {cur}, "SHUTDOWN")
    <3>1. Asked(b, a, cur) /\ a.reason[cur] # None
      BY <1>5, RequestAsks DEF Reason
    <3>2. reg' = finishLocked(a, {cur}, "CANCELLED")
      BY <1>1, <2>2
    <3> HIDE DEF a
    <3> QED BY <1>2, <1>4, <3>1, <3>2, ReleaseSection DEF IInv
  <2> QED BY <2>1, <2>2
<1>7. StatesMatch' /\ SlotsCounted' /\ QueueOverrunBounded' /\ HandIsOldest' /\ StartsNothing
  <2>1. InHand' = InHand \ {cur} /\ AtWork' = AtWork \ {cur}
    BY <1>3
  <2> QED BY <1>3, <1>6, <2>1, ReleasedPlaced DEF Section
<1>8. HandMatches'
  BY <1>3, <1>6 DEF Released
<1> QED BY <1>1, <1>3, <1>6, <1>7, <1>8 DEF Placed

\* requeueBlocked(): the job goes back to the front of the queue, unless it
\* was asked to stop meanwhile.
LEMMA RequeueStep ==
    ASSUME IInv, requeueBlocked
    PROVE  Section(reg, reg') /\ Placed' /\ StartsNothing
<1> DEFINE b == [freeSlot(reg) EXCEPT !.dispatching = @ \ {cur}]
<1>1. PICK expired \in BOOLEAN :
         LET r == overtake(b, cur, expired)
             removed == r.stopped \/ r.reason[cur] # None
         IN /\ reg' = IF removed THEN finishLocked(r, {cur}, "CANCELLED")
                                 ELSE requeueFirst(r, cur)
            /\ pending' = (pending \/ removed)
  BY DEF requeueBlocked
<1> DEFINE a == overtake(b, cur, expired)
<1>2. /\ disp = "requeue" /\ disp' = "while" /\ cur' = None /\ FlagTypes'
      /\ UNCHANGED <<how, worker, returned, leased>>
  BY <1>1 DEF requeueBlocked, workVars, IInv, Placed, FlagTypes
<1>3. Freed(reg, b, cur)
  BY FreeSlotFrees DEF IInv
<1>4. reg' = IF a.stopped \/ a.reason[cur] # None THEN finishLocked(a, {cur}, "CANCELLED")
                                                   ELSE requeueFirst(a, cur)
  BY <1>1
<1> HIDE DEF b
<1>5. how \in {"none", "stopping", "cancelled", "failed"}
  BY DEF IInv, Placed, ThreadTypes
<1>6. /\ cur \in Job /\ InHand = {cur} /\ InHand' = {}
      /\ AtWork' = AtWork /\ cur \notin AtWork
      /\ ThreadTypes' /\ LeasesAccounted' /\ ResultsFit'
      /\ reg'.dispatching = reg.dispatching \ {cur} => reg'.dispatching = {} /\ HandMatches'
  BY <1>2, <1>5, LetsGo
<1>7. cur \in reg.records /\ reg.state[cur] \notin Terminal /\ cur \notin Queued(reg)
  BY <1>6, HeldJob
<1>8. Guarded(b) /\ cur \in b.records
  BY <1>3, <1>7, FreedGuarded DEF IInv, Freed, SameRecords
<1>9. Asked(b, a, cur) /\ (b.stopped => a.reason[cur] # None)
  BY <1>8, OvertakeAsks
<1> HIDE DEF a
<1>10. a.stopped = b.stopped
  BY <1>9 DEF Asked, SameControl
<1>11. CASE a.reason[cur] # None
  <2>1. reg' = finishLocked(a, {cur}, "CANCELLED")
    BY <1>4, <1>11
  <2>2. Section(reg, reg') /\ Released(reg, reg', cur)
    BY <1>3, <1>7, <1>9, <1>11, <2>1, ReleaseSection DEF IInv
  <2>3. StatesMatch' /\ SlotsCounted' /\ QueueOverrunBounded' /\ HandIsOldest' /\ StartsNothing
    <3>1. InHand' = InHand \ {cur} /\ AtWork' = AtWork \ {cur}
      BY <1>6
    <3> QED BY <1>6, <2>2, <3>1, ReleasedPlaced DEF Section
  <2>4. HandMatches'
    BY <1>6, <2>2 DEF Released
  <2> QED BY <1>2, <1>6, <2>2, <2>3, <2>4 DEF Placed
<1>12. CASE a.reason[cur] = None
  <2>1. reg' = requeueFirst(a, cur)
    BY <1>4, <1>9, <1>10, <1>12
  <2>2. cur \in reg.dispatching
    BY <1>2 DEF IInv, Placed, HandMatches, Holding
  <2>3. \A i \in DOMAIN reg.queue : reg.number[cur] < reg.number[reg.queue[i]]
    BY <2>2 DEF IInv, Placed, HandIsOldest
  <2>4. /\ Section(reg, reg')
        /\ reg'.dispatching = reg.dispatching \ {cur} /\ reg'.slots = reg.slots - 1
        /\ Len(reg'.queue) = Len(reg.queue) + 1 /\ Queued(reg') = Queued(reg) \cup {cur}
        /\ reg'.state = reg.state /\ reg'.number = reg.number
    BY <1>3, <1>9, <1>12, <2>1, <2>2, <2>3, PutBackSection DEF IInv
  <2>5. reg'.dispatching = {} /\ HandMatches' /\ reg.dispatching = {cur}
    BY <1>6, <2>2, <2>4 DEF IInv, Placed, HandMatches
  <2>6. StatesMatch'
    BY <1>6, <2>4, <2>5 DEF IInv, Placed, StatesMatch
  <2>7. SlotsCounted'
    <3>1. InHand' \cup AtWork' = AtWork /\ InHand \cup AtWork = AtWork \cup {cur}
      BY <1>6
    <3>2. IsFiniteSet(AtWork) /\ reg.slots \in Nat
      BY <3>1, OccupiedFinite, FS_Subset
    <3>3. Cardinality(AtWork \cup {cur}) = Cardinality(AtWork) + 1 /\ Cardinality(AtWork) \in Nat
      BY <1>6, <3>2, FS_AddElement, FS_CardinalityType
    <3>4. reg.slots = Cardinality(AtWork \cup {cur}) /\ reg.slots <= MaxRunning
      BY <3>1 DEF IInv, Placed, SlotsCounted
    <3>5. reg'.slots = Cardinality(InHand' \cup AtWork')
      <4>1. Cardinality(InHand' \cup AtWork') = Cardinality(AtWork)
        BY <3>1
      <4> QED BY <2>4, <3>3, <3>4, <4>1
    <3>6. reg'.slots <= MaxRunning
      BY <2>4, <3>2, <3>4, LimitsAssumption
    <3> QED BY <3>5, <3>6 DEF SlotsCounted
  <2>8. QueueOverrunBounded'
    <3>1. Cardinality(InHand') = 0 /\ Cardinality(InHand) = 1
      BY <1>6, FS_EmptySet, FS_Singleton
    <3>2. Len(reg.queue) \in Nat
      BY LenProperties DEF IInv, Guarded, Core, RecordsMatch, Registry
    <3>3. Len(reg.queue) + 1 <= MaxQueued + 1
      BY <3>1 DEF IInv, Placed, QueueOverrunBounded
    <3> QED BY <2>4, <3>1, <3>2, <3>3, LimitsAssumption DEF QueueOverrunBounded
  <2>9. HandIsOldest'
    BY <2>5 DEF HandIsOldest
  <2>10. StartsNothing
    BY <2>4 DEF StartsNothing
  <2> QED BY <1>2, <1>6, <2>4, <2>5, <2>6, <2>7, <2>8, <2>9, <2>10 DEF Placed
<1> QED BY <1>11, <1>12

\* execute(): what the task came to is recorded and the slot is given back.
LEMMA ExecuteStep ==
    ASSUME IInv, NEW j \in Job, execute(j)
    PROVE  Section(reg, reg') /\ Placed' /\ StartsNothing
<1> DEFINE b == freeSlot(reg)
<1>1. /\ worker[j] \in {"succeeded", "failed", "cancelled"}
      /\ reg' = concludeLocked(b, j)
      /\ worker' = [worker EXCEPT ![j] = "none"] /\ returned' = [returned EXCEPT ![j] = 0]
      /\ FlagTypes' /\ UNCHANGED <<disp, cur, how, leased>>
  BY DEF execute, setPendingAndSchedule, dispatchVars, IInv, Placed, FlagTypes
<1>2. /\ worker' \in [Job -> {"none", "running", "succeeded", "failed", "cancelled"}]
      /\ returned' \in [Job -> ResultSizes \cup {0}]
      /\ worker'[j] = "none"
      /\ \A k \in Job \ {j} : worker'[k] = worker[k] /\ returned'[k] = returned[k]
  BY <1>1 DEF IInv, Placed, ThreadTypes
<1>3. j \in AtWork /\ j \notin InHand /\ j \notin reg.dispatching
  BY <1>1 DEF AtWork, IInv, Placed, HandMatches
<1>4. /\ InHand' = InHand \ {j} /\ AtWork' = AtWork \ {j} /\ InHand' = InHand
      /\ reg.dispatching \ {j} = reg.dispatching
  BY <1>1, <1>2, <1>3 DEF InHand, AtWork
<1>5. /\ j \in reg.records /\ reg.state[j] \notin Terminal /\ reg.state[j] \in Started
      /\ j \notin Queued(reg)
  BY <1>3, HeldJob
<1>6. Freed(reg, b, j)
  BY <1>3, FreeSlotFrees DEF IInv
<1> HIDE DEF b
<1>7. Guarded(b) /\ j \in b.records /\ b.reason = reg.reason
  BY <1>5, <1>6, FreedGuarded DEF IInv, Freed, SameRecords
<1>8. Asked(b, b, j)
  BY <1>7 DEF Asked, SameControl
<1>9. Section(reg, reg') /\ Released(reg, reg', j)
  <2>1. CASE worker[j] = "cancelled" /\ b.reason[j] # None
    <3>1. reg' = finishLocked(b, {j}, "CANCELLED")
      BY <1>1, <2>1 DEF concludeLocked
    <3> QED BY <1>5, <1>6, <1>8, <2>1, <3>1, ReleaseSection DEF IInv
  <2>2. CASE worker[j] = "failed" \/ (worker[j] = "cancelled" /\ b.reason[j] = None)
    <3>1. reg' = finishLocked(b, {j}, "FAILED")
      BY <1>1, <2>2 DEF concludeLocked
    <3> QED BY <1>5, <1>6, <1>8, <3>1, ReleaseSection DEF IInv
  <2>3. CASE worker[j] = "succeeded" /\ discards(b, j)
    <3> DEFINE a == request(b, {j}, "SHUTDOWN")
    <3>1. Asked(b, a, j) /\ a.reason[j] # None
      BY <1>7, RequestAsks DEF Reason
    <3>2. reg' = finishLocked(a, {j}, "CANCELLED")
      BY <1>1, <2>3 DEF concludeLocked
    <3> HIDE DEF a
    <3> QED BY <1>5, <1>6, <3>1, <3>2, ReleaseSection DEF IInv
  <2>4. CASE worker[j] = "succeeded" /\ ~ discards(b, j)
    <3>1. reg' = succeedLocked(b, j, returned[j])
      BY <1>1, <2>4 DEF concludeLocked
    <3>2. reg.reason[j] = None
      BY <1>7, <2>4 DEF discards
    <3>3. returned[j] \in 1..MaxResultBytes
      BY <2>4 DEF IInv, Placed, ResultsFit
    <3> QED BY <1>5, <1>6, <3>1, <3>2, <3>3, SucceedSection DEF IInv
  <2> QED BY <1>1, <2>1, <2>2, <2>3, <2>4
<1>10. StatesMatch' /\ SlotsCounted' /\ QueueOverrunBounded' /\ HandIsOldest' /\ StartsNothing
  BY <1>3, <1>4, <1>9, ReleasedPlaced DEF Section
<1>11. ThreadTypes'
  BY <1>1, <1>2 DEF IInv, Placed, ThreadTypes
<1>12. HandMatches'
  BY <1>1, <1>4, <1>9 DEF IInv, Placed, HandMatches, Released
<1>13. LeasesAccounted'
  BY <1>1, <1>2 DEF IInv, Placed, LeasesAccounted
<1>14. ResultsFit'
  BY <1>2 DEF IInv, Placed, ResultsFit
<1> QED BY <1>1, <1>9, <1>10, <1>11, <1>12, <1>13, <1>14 DEF Placed

-----------------------------------------------------------------------------
(* The start of a job.                                                     *)

\* A job starts only when no older one is queued: the body of StartsInOrder.
InOrder ==
    \A j \in Job : reg.state[j] = "QUEUED" /\ reg'.state[j] = "RUNNING" =>
        \A k \in Alive(reg) : reg.number[k] < reg.number[j] => reg.state[k] # "QUEUED"

\* startAdmitted() starts the job in the dispatcher's hands, unless it was
\* asked to stop meanwhile; that job is older than every queued one.
LEMMA StartStep ==
    ASSUME IInv, startAdmitted
    PROVE  Section(reg, reg') /\ Placed' /\ InOrder
<1>1. PICK expired \in BOOLEAN :
         LET r == overtake(reg, cur, expired)
             cancelled == r.reason[cur] # None
         IN /\ reg' = IF cancelled THEN r ELSE started(r, cur)
            /\ GoTo(IF cancelled THEN "abandon" ELSE "launch")
  BY DEF startAdmitted, started
<1> DEFINE a == overtake(reg, cur, expired)
<1>2. /\ disp = "start" /\ UNCHANGED <<cur, how, worker, returned, leased>> /\ FlagTypes'
  BY <1>1 DEF startAdmitted, GoTo, workVars, signalVars, IInv, Placed, FlagTypes
<1>3. /\ a.reason[cur] # None => reg' = a /\ disp' = "abandon"
      /\ a.reason[cur] = None => reg' = started(a, cur) /\ disp' = "launch"
  BY <1>1 DEF GoTo
<1>4. /\ cur \in Job /\ InHand = {cur} /\ cur \notin AtWork /\ reg.dispatching = {cur}
      /\ reg.state[cur] = "QUEUED" /\ cur \in reg.records
  BY <1>2 DEF IInv, Placed, HandMatches, ThreadTypes, Holding, InHand,
              Guarded, QueueOrdered, Core, RecordsMatch
<1>5. InHand' = InHand /\ AtWork' = AtWork
  BY <1>2 DEF InHand, AtWork
<1>6. Asked(reg, a, cur)
  BY <1>4, OvertakeAsks DEF IInv
<1> HIDE DEF a
<1>7. Section(reg, a)
  BY <1>4, <1>6, AskedSection DEF IInv
<1>8. /\ a.queue = reg.queue /\ Queued(a) = Queued(reg) /\ a.dispatching = reg.dispatching
      /\ a.slots = reg.slots /\ a.state = reg.state /\ a.number = reg.number
      /\ Guarded(a) /\ a.records = reg.records /\ a.order = reg.order /\ a.size = reg.size
      /\ \A k \in Job \ {cur} : a.reason[k] = reg.reason[k]
      /\ reg.reason[cur] # None => a.reason[cur] = reg.reason[cur]
  BY <1>6 DEF Asked, SameControl, Queued
<1>9. ThreadTypes' /\ LeasesAccounted' /\ ResultsFit'
  BY <1>2, <1>3
     DEF IInv, Placed, ThreadTypes, DispatcherAt, LeasesAccounted, ResultsFit
<1>10. CASE a.reason[cur] # None
  <2>1. reg' = a /\ disp' = "abandon"
    BY <1>3, <1>10
  <2>2. HandMatches'
    BY <1>2, <1>4, <1>5, <1>8, <2>1 DEF IInv, Placed, HandMatches, Holding
  <2>3. StatesMatch' /\ SlotsCounted' /\ QueueOverrunBounded' /\ HandIsOldest'
    BY <1>5, <1>8, <2>1
       DEF IInv, Placed, StatesMatch, SlotsCounted, QueueOverrunBounded, HandIsOldest
  <2>4. InOrder
    BY <1>8, <2>1 DEF InOrder
  <2> QED BY <1>2, <1>7, <1>9, <2>1, <2>2, <2>3, <2>4 DEF Placed
<1>11. CASE a.reason[cur] = None
  <2>1. reg' = started(a, cur) /\ disp' = "launch"
    BY <1>3, <1>11
  <2>2. /\ Section(a, reg')
        /\ reg'.dispatching = a.dispatching \ {cur} /\ reg'.slots = a.slots
        /\ reg'.queue = a.queue /\ reg'.number = a.number
        /\ reg'.state[cur] = "RUNNING" /\ \A k \in Job \ {cur} : reg'.state[k] = a.state[k]
    BY <1>4, <1>8, <1>11, <2>1, StartSection
  <2>3. Section(reg, reg')
    <3>1. \A k \in Job : a.reason[k] = reg.reason[k]
      BY <1>8, <1>11
    <3>2. Lived(reg, reg')
      BY <1>8, <2>2, <3>1 DEF Section, Lived, Lives
    <3>3. Completed(a) = Completed(reg)
      BY <1>8 DEF Completed
    <3>4. OldestFirst(reg, reg')
      BY <1>8, <2>2, <3>3 DEF Section, OldestFirst
    <3> QED BY <2>2, <3>2, <3>4 DEF Section
  <2>4. reg'.dispatching = {} /\ Queued(reg') = Queued(reg)
    BY <1>4, <1>8, <2>2, SameQueue
  <2>5. HandMatches'
    BY <1>2, <1>4, <1>5, <2>1, <2>4 DEF IInv, Placed, HandMatches, Holding
  <2>6. StatesMatch'
    <3>1. \A k \in Job : reg'.state[k] = "QUEUED" => k \in Queued(reg') \cup reg'.dispatching
      BY <1>4, <1>8, <2>2, <2>4 DEF IInv, Placed, StatesMatch
    <3>2. \A k \in Job \ {cur} : /\ reg'.state[k] \in Started <=> reg.state[k] \in Started
                                 /\ reg.state[k] \in Started <=> k \in AtWork
      BY <1>4, <1>8, <2>2 DEF IInv, Placed, StatesMatch
    <3>3. AtWork' \cup (InHand' \ reg'.dispatching) = AtWork \cup {cur}
      BY <1>4, <1>5, <2>4
    <3>4. reg'.state[cur] \in Started
      BY <2>2 DEF Started
    <3> QED BY <3>1, <3>2, <3>3, <3>4 DEF StatesMatch
  <2>7. SlotsCounted' /\ QueueOverrunBounded' /\ HandIsOldest'
    BY <1>5, <1>8, <2>2, <2>4
       DEF IInv, Placed, SlotsCounted, QueueOverrunBounded, HandIsOldest
  <2>8. InOrder
    <3> SUFFICES ASSUME NEW j \in Job, reg.state[j] = "QUEUED", reg'.state[j] = "RUNNING",
                        NEW k \in Alive(reg), reg.number[k] < reg.number[j]
                 PROVE  reg.state[k] # "QUEUED"
      BY DEF InOrder
    <3>1. j = cur
      BY <1>8, <2>2
    <3>2. k \in Job /\ reg.number[k] \in Nat /\ reg.number[cur] \in Nat
      BY <1>4 DEF Alive, IInv, Guarded, Core, RecordsMatch, Registry
    <3>3. k \notin reg.dispatching
      BY <1>4, <3>1, <3>2
    <3>4. ASSUME k \in Queued(reg) PROVE FALSE
      <4>1. PICK i \in DOMAIN reg.queue : reg.queue[i] = k
        BY <3>4 DEF Queued
      <4>2. reg.number[cur] < reg.number[k]
        BY <1>4, <4>1 DEF IInv, Placed, HandIsOldest
      <4> QED BY <3>1, <3>2, <4>2
    <3> QED BY <3>2, <3>3, <3>4 DEF IInv, Placed, StatesMatch
  <2> QED BY <1>2, <1>9, <2>3, <2>5, <2>6, <2>7, <2>8 DEF Placed
<1> QED BY <1>10, <1>11

-----------------------------------------------------------------------------
(* The invariant.                                                          *)

\* The empty registry.
LEMMA InitInvariant == Init => IInv
<1> SUFFICES ASSUME Init PROVE IInv
  OBVIOUS
<1>1. /\ reg.queue = <<>> /\ reg.records = {} /\ reg.dispatching = {}
      /\ reg.state = [j \in Job |-> "NEW"] /\ reg.reason = [j \in Job |-> None]
      /\ reg.size = [j \in Job |-> 0] /\ reg.log = [j \in Job |-> <<>>]
      /\ reg.bytes = 0 /\ reg.slots = 0
  BY DEF Init
<1>2. reg \in Registry
  <2>1. /\ <<>> \in Seq(Job) /\ <<>> \in Seq(EventType) /\ 0 \in Nat /\ 0 \in Int
        /\ {} \in SUBSET Job /\ "NEW" \in State /\ None \in Reason \cup {None}
    BY DEF State
  <2> QED BY <2>1 DEF Init, Registry
<1>3. DOMAIN reg.queue = {} /\ Len(reg.queue) = 0
  BY <1>1
<1>4. RecordsMatch(reg)
  BY <1>1, <1>2, FS_EmptySet DEF RecordsMatch
<1>5. Completed(reg) = {}
  BY <1>1 DEF Completed
<1>6. BytesCounted(reg)
  <2>1. Bytes(reg, reg.records) = 0
    BY <1>1, BytesOfNone
  <2> QED BY <1>1, <2>1, LimitsAssumption DEF BytesCounted
<1>7. Core(reg)
  BY <1>1, <1>4, <1>5, <1>6 DEF Core, NumbersDiffer, OrdersDiffer, Streamed
<1>8. RoomKept(reg)
  BY <1>5, FS_EmptySet, LimitsAssumption DEF RoomKept
<1>9. Guarded(reg)
  BY <1>1, <1>3, <1>7, <1>8 DEF Guarded, ResultsCompleted, QueueOrdered
<1>10. IntentShown(reg)
  BY <1>1 DEF IntentShown
<1>11. /\ disp = "idle" /\ cur = None /\ how = "none" /\ leased = {}
       /\ pending = FALSE /\ scheduled = FALSE /\ runnable = FALSE /\ executors = TRUE
       /\ worker = [j \in Job |-> "none"] /\ returned = [j \in Job |-> 0]
  BY DEF Init
<1>12. InHand = {} /\ AtWork = {}
  BY <1>11 DEF InHand, AtWork
<1>13. FlagTypes /\ ThreadTypes
  BY <1>11 DEF FlagTypes, ThreadTypes, DispatcherAt
<1>14. HandMatches /\ StatesMatch /\ LeasesAccounted /\ HandIsOldest /\ ResultsFit
  BY <1>1, <1>11, <1>12
     DEF HandMatches, Holding, StatesMatch, Started, LeasesAccounted, HandIsOldest, ResultsFit
<1>15. SlotsCounted
  <2>1. Cardinality(InHand \cup AtWork) = 0
    BY <1>12, FS_EmptySet
  <2> QED BY <1>1, <2>1, LimitsAssumption DEF SlotsCounted
<1>16. QueueOverrunBounded
  <2>1. Cardinality(InHand) = 0
    BY <1>12, FS_EmptySet
  <2> QED BY <1>3, <2>1, LimitsAssumption DEF QueueOverrunBounded
<1> QED BY <1>9, <1>10, <1>13, <1>14, <1>15, <1>16 DEF IInv, Placed

\* A step that starts nothing starts nothing out of order.
LEMMA NothingOutOfOrder == StartsNothing => InOrder
BY DEF StartsNothing, InOrder

\* Every step of the registry, its callers and its threads.
LEMMA EveryStep ==
    ASSUME IInv, [Next]_vars
    PROVE  Section(reg, reg') /\ Placed' /\ InOrder
<1>1. ASSUME NEW j \in Job, submit(j) \/ cancel(j) \/ taskReturns(j) \/ execute(j)
      PROVE  Section(reg, reg') /\ Placed' /\ StartsNothing
  BY <1>1, SubmitStep, CancelStep, TaskReturnsStep, ExecuteStep
<1>2. CASE \/ snapshot \/ tick \/ reserveSubmissions \/ releaseSubmissionReservation
           \/ stopReserved \/ stopSubmissions \/ shutdownLocked \/ shutdownExecutors
  <2>1. Section(reg, reg') /\ Placed' /\ StartsNothing
    BY <1>2, PurgeStep, TickStep, SubmissionsStep, ShutdownStep, SignalStep
  <2> QED BY <2>1, NothingOutOfOrder
<1>3. CASE signal \/ runDispatch \/ clearPending \/ whilePending \/ unschedule \/ recheck
  <2>1. Section(reg, reg') /\ Placed' /\ StartsNothing
    BY <1>3, SignalStep
  <2> QED BY <2>1, NothingOutOfOrder
<1>4. CASE pumpHead \/ pumpReturns
  <2>1. Section(reg, reg') /\ Placed' /\ StartsNothing
    BY <1>4, PumpHeadStep, PurgeStep
  <2> QED BY <2>1, NothingOutOfOrder
<1>5. CASE \/ gateGrants \/ gateBlocks \/ gateStops \/ gateFails
           \/ captureSucceeds \/ captureFails \/ abandonStart \/ launchRejected
  <2>1. Section(reg, reg') /\ Placed' /\ StartsNothing
    BY <1>5, GateStep
  <2> QED BY <2>1, NothingOutOfOrder
<1>6. CASE requeueBlocked \/ launch \/ finishDispatchFailure
  <2>1. Section(reg, reg') /\ Placed' /\ StartsNothing
    BY <1>6, RequeueStep, LaunchStep, FinishFailureStep
  <2> QED BY <2>1, NothingOutOfOrder
<1>7. CASE startAdmitted
  BY <1>7, StartStep
<1>8. CASE UNCHANGED vars
  <2>1. UNCHANGED <<reg, disp, cur, how, pending, scheduled, runnable, worker, returned, leased,
                    executors>>
    BY <1>8 DEF vars, dispatchVars, signalVars, workVars
  <2>2. /\ Section(reg, reg') /\ Quiet(reg, reg') /\ Guarded(reg') /\ StartsNothing
    BY <2>1, SameRegistry
  <2>3. FlagTypes'
    BY <2>1 DEF IInv, Placed, FlagTypes
  <2> QED BY <2>1, <2>2, <2>3, QuietPlaced, NothingOutOfOrder
<1> QED BY <1>1, <1>2, <1>3, <1>4, <1>5, <1>6, <1>7, <1>8, NothingOutOfOrder DEF Next

\* Every section of the registry and every step of its threads keeps it.
LEMMA NextInvariant == IInv /\ [Next]_vars => IInv'
<1> SUFFICES ASSUME IInv, [Next]_vars PROVE IInv'
  OBVIOUS
<1>1. Section(reg, reg') /\ Placed'
  BY EveryStep
<1>2. IntentShown(reg')
  BY <1>1, IntentStaysShown DEF IInv, Section
<1> QED BY <1>1, <1>2 DEF IInv, Section

(* What the lock guards is consistent, and every unfinished job is where   *)
(* its state says, in every state the registry can reach.                  *)
THEOREM Invariance == Spec => []IInv
BY InitInvariant, NextInvariant, PTL DEF Spec

-----------------------------------------------------------------------------
(* The properties that the runs check.                                     *)

(* Every variable keeps its type; in particular the counters of slots and  *)
(* of retained bytes, which the code decrements on many paths, never get   *)
(* below zero.                                                             *)
THEOREM TypeCorrect == Spec => []TypeOK
<1>1. IInv => TypeOK
  <2> SUFFICES ASSUME IInv PROVE TypeOK
    OBVIOUS
  <2>1. reg \in Registry /\ Sized(reg, reg.records) /\ reg.bytes = Bytes(reg, reg.records)
    BY DEF IInv, Guarded, Core, RecordsMatch, Registry, BytesCounted, Sized
  <2>2. reg.slots \in Nat /\ reg.bytes \in Nat
    BY <2>1, OccupiedFinite, BytesFinite
  <2> QED BY <2>1, <2>2 DEF IInv, Placed, FlagTypes, ThreadTypes, TypeOK
<1> QED BY <1>1, Invariance, PTL

(* runningSlots is exact and within maxRunning: no path through pump(),    *)
(* startAdmitted() or execute() gives a slot back twice or keeps it.       *)
THEOREM SlotsExact == Spec => []SlotsAccounted
<1>1. IInv => SlotsAccounted
  BY DEF IInv, Placed, SlotsCounted, HandMatches, SlotsAccounted
<1> QED BY <1>1, Invariance, PTL

(* The slots are those of finitely many jobs: their number is a number.    *)
THEOREM OccupiedStaysFinite == Spec => []IsFiniteSet(InHand \cup AtWork)
<1>1. IInv => IsFiniteSet(InHand \cup AtWork)
  BY OccupiedFinite
<1> QED BY <1>1, Invariance, PTL

(* An unfinished job is in exactly one place, and in the queue only once,  *)
(* however cancellation, deadlines and shutdown cross the dispatcher.      *)
THEOREM NoJobLost == Spec => []NothingLost
<1>1. IInv => NothingLost
  <2> SUFFICES ASSUME IInv PROVE NothingLost
    OBVIOUS
  <2>1. /\ reg \in Registry /\ RecordsMatch(reg) /\ QueueOrdered(reg) /\ StatesMatch
        /\ reg.dispatching \subseteq InHand /\ InHand \cap AtWork = {}
    BY DEF IInv, Guarded, Core, RecordsMatch, Placed, HandMatches
  <2>2. /\ reg.queue \in Seq(Job) /\ reg.records \subseteq Job
        /\ \A j \in Job : reg.number[j] \in Nat /\ reg.state[j] \in State
        /\ reg.dispatching \subseteq Job
    BY <2>1 DEF Registry
  <2>3. /\ Len(reg.queue) \in Nat /\ DOMAIN reg.queue = 1..Len(reg.queue)
        /\ \A i \in 1..Len(reg.queue) : reg.queue[i] \in Job
    BY <2>2, LenProperties, ElementOfSeq
  <2>4. /\ \A j \in InQueue : j \in Job /\ reg.state[j] = "QUEUED" /\ j \notin reg.dispatching
        /\ InQueue = Queued(reg)
    BY <2>1, <2>3 DEF InQueue, Queued, QueueOrdered
  <2>5. /\ \A j \in reg.dispatching : reg.state[j] = "QUEUED"
        /\ \A j \in Job : reg.state[j] = "QUEUED" => j \in InQueue \cup reg.dispatching
        /\ \A j \in Job : reg.state[j] \in Started <=> j \in AtWork \cup (InHand \ reg.dispatching)
    BY <2>1, <2>4 DEF QueueOrdered, StatesMatch
  <2>6. InHand \cup AtWork \subseteq Job
    BY DEF InHand, AtWork, IInv, Placed, ThreadTypes
  <2>7. ASSUME NEW j \in Job
        PROVE  j \in Alive(reg) <=> j \in InQueue \cup InHand \cup AtWork
    <3>1. j \in Alive(reg) <=> reg.state[j] = "QUEUED" \/ reg.state[j] \in Started
      BY <2>1, <2>2 DEF Alive, RecordsMatch, Started, Terminal, State
    <3> QED BY <2>1, <2>4, <2>5, <3>1 DEF Started
  <2>8. Alive(reg) = InQueue \cup InHand \cup AtWork
    <3>1. Alive(reg) \subseteq Job /\ InQueue \subseteq Job
      BY <2>2, <2>4 DEF Alive
    <3> QED BY <2>6, <2>7, <3>1
  <2>9. \A j \in InQueue : j \notin InHand \cup AtWork
    BY <2>4, <2>5 DEF Started
  <2>10. Cardinality(InQueue) = Len(reg.queue)
    <3> DEFINE n == Len(reg.queue)
    <3>1. \A i, k \in 1..n : i # k => reg.queue[i] # reg.queue[k]
      <4> SUFFICES ASSUME NEW i \in 1..n, NEW k \in 1..n, i < k
                   PROVE  reg.queue[i] # reg.queue[k]
        BY <2>3
      <4>1. reg.number[reg.queue[i]] < reg.number[reg.queue[k]]
        BY <2>1, <2>3 DEF QueueOrdered
      <4> QED BY <2>2, <2>3, <4>1
    <3>2. reg.queue \in [1..n -> InQueue]
      BY <2>2, <2>3, SeqDef DEF InQueue
    <3>3. \A j \in InQueue : \E i \in 1..n : reg.queue[i] = j
      BY <2>3 DEF InQueue
    <3>4. reg.queue \in Bijection(1..n, InQueue)
      BY <3>1, <3>2, <3>3 DEF Bijection, Injection, IsInjective, Surjection
    <3>5. ExistsBijection(1..n, InQueue)
      BY <3>4 DEF ExistsBijection
    <3> QED BY <2>3, <3>5, FS_CountingElements
  <2> QED BY <2>8, <2>9, <2>10 DEF NothingLost
<1> QED BY <1>1, Invariance, PTL

(* A lease of the gate is closed on every path, and is held while the      *)
(* dispatcher prepares the job or its task runs.                           *)
THEOREM LeasesExact == Spec => []LeasesAccounted
<1>1. IInv => LeasesAccounted
  BY DEF IInv, Placed
<1> QED BY <1>1, Invariance, PTL

(* The events of a job begin with job.queued and end with its terminal     *)
(* event exactly when it is terminal, whoever ended it.                    *)
THEOREM StreamsEnd == Spec => []StreamsWellFormed
<1>1. IInv => StreamsWellFormed
  BY DEF IInv, Guarded, Core, Streamed, StreamsWellFormed
<1> QED BY <1>1, Invariance, PTL

(* Terminal records and their results stay within the limits, and          *)
(* retainedResultBytes is the exact sum of the results retained.           *)
THEOREM RetentionKept == Spec => []RetentionBounded
<1>1. IInv => RetentionBounded
  BY BytesOfResults DEF IInv, Guarded, Core, RoomKept, BytesCounted, RetentionBounded
<1> QED BY <1>1, Invariance, PTL

(* A job put back never takes the queue more than one over its limit,      *)
(* since the dispatcher holds at most one.                                 *)
THEOREM OverrunBounded == Spec => []QueueOverrunBounded
<1>1. IInv => QueueOverrunBounded
  BY DEF IInv, Placed
<1> QED BY <1>1, Invariance, PTL

(* startAdmitted() starts jobs in the order of their submission, although  *)
(* the gate may have blocked a job and the dispatcher put it back.         *)
THEOREM OrderedStarts == Spec => StartsInOrder
<1>1. IInv /\ [Next]_vars =>
        [\A j \in Job : reg.state[j] = "QUEUED" /\ reg'.state[j] = "RUNNING" =>
            \A k \in Alive(reg) : reg.number[k] < reg.number[j] => reg.state[k] # "QUEUED"]_vars
  BY EveryStep DEF InOrder
<1> QED BY <1>1, Invariance, PTL DEF Spec, StartsInOrder

(* Expiry, eviction and the reclaiming of result room drop completed       *)
(* records only, and older ones first.                                     *)
THEOREM OldestDroppedFirst == Spec => DropsOldestFirst
<1>1. IInv /\ [Next]_vars =>
        [\A j \in reg.records \ reg'.records, k \in Completed(reg) \cap reg'.records :
            /\ j \in Completed(reg)
            /\ reg.order[j] < reg.order[k] \/ (reg.size[j] > 0 /\ reg.size[k] = 0)]_vars
  BY EveryStep DEF Section, OldestFirst
<1> QED BY <1>1, Invariance, PTL DEF Spec, DropsOldestFirst

(* Every section of the lock, whichever thread runs it, moves each job     *)
(* along its life and records intent once: the registry implements         *)
(* JobLifecycle.                                                           *)
THEOREM LifecycleImplemented == Spec => ImplementsLifecycle
<1>1. Init => Lifecycle!Init
  BY DEF Init, Lifecycle!Init
<1>2. IInv /\ [Next]_vars => [Lifecycle!Next]_(Lifecycle!vars)
  <2> SUFFICES ASSUME IInv, [Next]_vars PROVE Lifecycle!Next
    OBVIOUS
  <2>1. Guarded(reg') /\ Lived(reg, reg')
    BY EveryStep DEF Section
  <2>2. reg' \in Registry
    BY <2>1 DEF Guarded, Core, RecordsMatch
  <2>3. /\ reg'.state \in [Job -> {"NEW", "QUEUED", "RUNNING", "CANCELLING", "GONE"}
                                    \cup Lifecycle!Terminal]
        /\ reg'.reason \in [Job -> Reason \cup {None}]
    BY <2>2 DEF Registry, State, Terminal, Lifecycle!Terminal
  <2>4. \A j \in Job : Lifecycle!JobStep(j)
    BY <2>1 DEF Lived, Lives, Lifecycle!JobStep
  <2> QED BY <2>3, <2>4 DEF Lifecycle!Next
<1> QED BY <1>1, <1>2, Invariance, PTL DEF Spec, ImplementsLifecycle, Lifecycle!Spec

=============================================================================
