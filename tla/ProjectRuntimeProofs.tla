------------------------ MODULE ProjectRuntimeProofs ------------------------
(***************************************************************************)
(* Theorems of ProjectRuntime, part 2: what is published, which engines    *)
(* are open, whose they are, and who holds the reservation; and that the   *)
(* coordinator and the registry keep inside the runtime what they promise  *)
(* on their own.                                                           *)
(***************************************************************************)
EXTENDS ProjectRuntimeLeases, SequenceTheorems

Identities == {NoIdentity} \cup (Revision \X Nat)

Types == /\ repository \in Revision \cup {None}
         /\ activeEngine \in Engine \cup {None}
         /\ engine \in [Engine -> {"none", "open", "closed"}]
         /\ hold \in [Actor -> Engine \cup {None}]
         /\ seen \in [Op -> Seq(Revision \cup {None})]
         /\ spec \in [Job -> Identities]

-----------------------------------------------------------------------------
(* Every step is the step of one actor, or of none.                        *)

\* Only what belongs to actor a changes.
OnlyOwn(a) == /\ OnlyMoves(a)
              /\ \A b \in Actor \ {a} : hold'[b] = hold[b]
              /\ \A o \in Op \ {a} : seen'[o] = seen[o]
              /\ \A j \in Job \ {a} : spec'[j] = spec[j]

\* Nobody moves, borrows or reads.
NobodyMoves == UNCHANGED <<at, kind, hold, seen, spec>>

OpActs(o) == Starts(o) \/ OpStep(o) \/ LeaseStep(o)

JobActs(j) == \/ prepareJob(j) \/ submitJob(j) \/ admitJob(j) \/ captureSearchRead(j)
              \/ startFails(j) \/ WorkerStep(j) \/ LeaseStep(j)

CloserActs == close \/ CloseStep(Closer)

NobodyActs == initializeAsync \/ dispatcherGoesOn \/ jobCalls \/ UNCHANGED vars

LEMMA WhoActs ==
    ASSUME [Next]_vars
    PROVE  \/ \E o \in Op : OpActs(o)
           \/ \E j \in Job : JobActs(j)
           \/ LoaderStep \/ CloserActs \/ NobodyActs
BY DEF Next, OpActs, JobActs, CloserActs, NobodyActs

LEMMA OpOwn ==
    ASSUME Leases, Types, NEW o \in Op, OpActs(o)
    PROVE  OnlyOwn(o)
<1>1. /\ at \in [Actor -> OpPlace \cup JobPlace \cup LoaderPlace] /\ kind \in [Op -> OpKind]
      /\ hold \in [Actor -> Engine \cup {None}] /\ seen \in [Op -> Seq(Revision \cup {None})]
  BY DEF Leases, Places, Types
<1>2. CASE Starts(o)
  BY <1>1, <1>2
     DEF Starts, withPrimaryClassRead, withExclusiveMappingExport, withEngineRead,
         withPrimarySymbolRead, withQueryRead, withTemporaryAnalysis, readPublished, saveProject,
         withExclusiveEdit, rebuild, reserveShutdown, reserveShutdownSave,
         OnlyOwn, OnlyMoves, GoTo, Take, Continues
<1>3. CASE OpStep(o)
  <2>1. CASE \/ captureEngine(o) \/ useEnds(o) \/ snapshotEnds(o) \/ createTemporary(o)
             \/ readRepository(o) \/ recheckEpoch(o)
    BY <1>1, <2>1 DEF captureEngine, useEnds, snapshotEnds, createTemporary, readRepository,
       recheckEpoch, OnlyOwn, OnlyMoves, GoTo, Take
  <2>2. CASE \/ saved(o) \/ stage(o) \/ publishReplacement(o) \/ closeOld(o) \/ discard(o)
             \/ restore(o)
    BY <1>1, <2>2 DEF saved, stage, publishReplacement, closeOld, discard, restore,
       OnlyOwn, OnlyMoves, GoTo, Take
  <2>3. CASE \/ reportFatalRebuild(o) \/ release(o) \/ shutdownSave(o) \/ acceptShutdown(o)
             \/ unreserve(o) \/ signalRefused(o)
    BY <1>1, <2>3 DEF reportFatalRebuild, release, shutdownSave, acceptShutdown, unreserve,
       signalRefused, OnlyOwn, OnlyMoves, GoTo, Take, Continues, detach
  <2> QED BY <1>3, <2>1, <2>2, <2>3 DEF OpStep
<1>4. CASE LeaseStep(o)
  BY <1>1, <1>4 DEF LeaseStep, removeLease, operationCompleted, CloseStep, closeInternal,
     shutdownJobs, shutdownExecutors, closeDetached, finishClose, actorVars,
     OnlyOwn, OnlyMoves, GoTo, Take, detach
<1> QED BY <1>2, <1>3, <1>4 DEF OpActs

LEMMA JobOwn ==
    ASSUME Leases, Types, NEW j \in Job, JobActs(j)
    PROVE  OnlyOwn(j)
<1>1. /\ at \in [Actor -> OpPlace \cup JobPlace \cup LoaderPlace] /\ kind \in [Op -> OpKind]
      /\ hold \in [Actor -> Engine \cup {None}] /\ spec \in [Job -> Identities]
  BY DEF Leases, Places, Types
<1>2. CASE prepareJob(j) \/ submitJob(j) \/ admitJob(j) \/ captureSearchRead(j) \/ startFails(j)
  BY <1>1, <1>2 DEF prepareJob, submitJob, admitJob, captureSearchRead, startFails, closesLease,
     elsewhere, actorVars, OnlyOwn, OnlyMoves, GoTo, Take
<1>3. CASE WorkerStep(j)
  BY <1>1, <1>3 DEF WorkerStep, taskReturns, execute, reportFatalRebuild, closesLease,
     elsewhere, OnlyOwn, OnlyMoves, GoTo, Take, detach
<1>4. CASE LeaseStep(j)
  BY <1>1, <1>4 DEF LeaseStep, removeLease, operationCompleted, CloseStep, closeInternal,
     shutdownJobs, shutdownExecutors, closeDetached, finishClose, actorVars,
     OnlyOwn, OnlyMoves, GoTo, Take, detach
<1> QED BY <1>2, <1>3, <1>4 DEF JobActs

LEMMA LoaderOwn ==
    ASSUME Leases, LoaderStep
    PROVE  OnlyOwn(Loader)
<1>1. at \in [Actor -> OpPlace \cup JobPlace \cup LoaderPlace]
  BY DEF Leases, Places
<1> QED BY <1>1 DEF LoaderStep, taskRuns, createFirst, loadFirst, publishFirst,
        initializationFails, discardFirst, taskEnds, OnlyOwn, OnlyMoves, GoTo

LEMMA CloserOwn ==
    ASSUME Leases, Types, CloserActs
    PROVE  OnlyOwn(Closer)
<1>1. /\ at \in [Actor -> OpPlace \cup JobPlace \cup LoaderPlace]
      /\ hold \in [Actor -> Engine \cup {None}]
  BY DEF Leases, Places, Types
<1> QED BY <1>1 DEF CloserActs, close, CloseStep, closeInternal,
     shutdownJobs, shutdownExecutors, closeDetached, finishClose,
     OnlyOwn, OnlyMoves, GoTo, Take, detach

LEMMA NobodyOwns ==
    ASSUME NobodyActs
    PROVE  NobodyMoves
BY DEF NobodyActs, initializeAsync, dispatcherGoesOn, jobCalls, vars, actorVars, NobodyMoves

LEMMA OpTypes ==
    ASSUME Leases, Types, NEW o \in Op, OpActs(o)
    PROVE  Types'
<1>1. /\ repository \in Revision \cup {None} /\ activeEngine \in Engine \cup {None}
      /\ engine \in [Engine -> {"none", "open", "closed"}]
      /\ hold \in [Actor -> Engine \cup {None}] /\ spec \in [Job -> Identities]
      /\ o \in Engine /\ detachable \in Engine \cup {None}
  BY DEF Types, Engine, detachable
<1>2. /\ seen \in [Op -> Seq(Revision \cup {None})] /\ published.epoch \in Revision
  BY DEF Types, Leases, Numbers, Publications, Revision
<1>3. CASE Starts(o)
  <2>1. /\ UNCHANGED <<repository, activeEngine, engine, spec>>
        /\ hold' \in {hold, [hold EXCEPT ![o] = activeEngine]}
        /\ seen' \in {seen, [seen EXCEPT ![o] = <<published.epoch>>]}
    BY <1>3
     DEF Starts, withPrimaryClassRead, withExclusiveMappingExport, withEngineRead,
         withPrimarySymbolRead, withQueryRead, withTemporaryAnalysis, readPublished, saveProject,
         withExclusiveEdit, rebuild, reserveShutdown, reserveShutdownSave, outside,
         publicationVars, Take
  <2>2. <<published.epoch>> \in Seq(Revision \cup {None})
    BY <1>2
  <2>3. seen' \in [Op -> Seq(Revision \cup {None})]
    BY <1>2, <2>1, <2>2
  <2> QED BY <1>1, <2>1, <2>3 DEF Types
<1>4. CASE readRepository(o) \/ recheckEpoch(o)
  <2>1. /\ UNCHANGED <<repository, activeEngine, engine, spec, hold>>
        /\ seen' \in {seen, [seen EXCEPT ![o] = <<published.epoch>>],
                      [seen EXCEPT ![o] = Append(seen[o], repository)],
                      [seen EXCEPT ![o] = <<>>]}
    BY <1>4 DEF readRepository, recheckEpoch, outside, publicationVars, NothingSeen
  <2>2. /\ <<published.epoch>> \in Seq(Revision \cup {None})
        /\ <<>> \in Seq(Revision \cup {None})
        /\ Append(seen[o], repository) \in Seq(Revision \cup {None})
    BY <1>1, <1>2, AppendProperties
  <2>3. seen' \in [Op -> Seq(Revision \cup {None})]
    BY <1>2, <2>1, <2>2
  <2> QED BY <1>1, <2>1, <2>3 DEF Types
<1>5. CASE OpStep(o) /\ ~ (readRepository(o) \/ recheckEpoch(o))
  <2>1. at[o] = "publish" => repository + 1 \in Revision /\ repository \in Revision
    BY HeldOnAProject DEF UnderLease, Revision
  <2>2. repository' \in Revision \cup {None} /\ activeEngine' \in Engine \cup {None}
    BY <1>1, <1>5, <2>1
     DEF OpStep, captureEngine, useEnds, snapshotEnds, createTemporary,
         saved, stage, publishReplacement, closeOld, discard, restore, reportFatalRebuild,
         release, shutdownSave, acceptShutdown, unreserve, signalRefused, detach,
         outside, publicationVars
  <2>3. engine' \in [Engine -> {"none", "open", "closed"}] /\ UNCHANGED <<seen, spec>>
    BY <1>1, <1>5
     DEF OpStep, captureEngine, useEnds, snapshotEnds, createTemporary,
         saved, stage, publishReplacement, closeOld, discard, restore, reportFatalRebuild,
         release, shutdownSave, acceptShutdown, unreserve, signalRefused, closeEngine
  <2>4. hold' \in [Actor -> Engine \cup {None}]
    BY <1>1, <1>5
     DEF OpStep, captureEngine, useEnds, snapshotEnds, createTemporary,
         saved, stage, publishReplacement, closeOld, discard, restore, reportFatalRebuild,
         release, shutdownSave, acceptShutdown, unreserve, signalRefused, detach, Take
  <2> QED BY <1>1, <1>2, <2>2, <2>3, <2>4 DEF Types
<1>6. CASE LeaseStep(o)
  <2>1. /\ UNCHANGED <<repository, seen, spec>> /\ activeEngine' \in Engine \cup {None}
        /\ engine' \in [Engine -> {"none", "open", "closed"}]
        /\ hold' \in [Actor -> Engine \cup {None}]
    BY <1>1, <1>6 DEF LeaseStep, removeLease, operationCompleted, CloseStep, closeInternal,
     shutdownJobs, shutdownExecutors, closeDetached, finishClose, actorVars, outside,
     publicationVars, Take, detach, closeEngine
  <2> QED BY <1>1, <1>2, <2>1 DEF Types
<1> QED BY <1>3, <1>4, <1>5, <1>6 DEF OpActs

LEMMA OtherTypes ==
    ASSUME Leases, Types,
           (\E j \in Job : JobActs(j)) \/ LoaderStep \/ CloserActs \/ NobodyActs
    PROVE  Types'
<1>1. /\ repository \in Revision \cup {None} /\ activeEngine \in Engine \cup {None}
      /\ engine \in [Engine -> {"none", "open", "closed"}]
      /\ hold \in [Actor -> Engine \cup {None}] /\ spec \in [Job -> Identities]
      /\ Loader \in Engine /\ detachable \in Engine \cup {None} /\ 1 \in Revision
  BY DEF Types, Engine, detachable, Revision
<1>2. /\ seen \in [Op -> Seq(Revision \cup {None})] /\ published.identity \in Identities
  BY DEF Types, Leases, Numbers, Publications, Identities
<1>3. ASSUME NEW j \in Job, JobActs(j) PROVE Types'
  <2>1. CASE \/ prepareJob(j) \/ submitJob(j) \/ admitJob(j) \/ captureSearchRead(j)
             \/ startFails(j)
    <3>1. /\ UNCHANGED <<repository, activeEngine, engine, seen>>
          /\ hold' \in {hold, [hold EXCEPT ![j] = activeEngine], [hold EXCEPT ![j] = None]}
          /\ spec' \in {spec, [spec EXCEPT ![j] = published.identity]}
      BY <2>1 DEF prepareJob, submitJob, admitJob, captureSearchRead, startFails, closesLease,
         elsewhere, actorVars, publicationVars, Take
    <3> QED BY <1>1, <1>2, <3>1 DEF Types
  <2>2. CASE WorkerStep(j)
    <3>1. /\ UNCHANGED <<repository, engine, seen, spec>> /\ activeEngine' \in {activeEngine, None}
          /\ \E e \in Engine \cup {None} : hold' \in {hold, [hold EXCEPT ![j] = e]}
      BY <1>1, <2>2 DEF WorkerStep, taskReturns, execute, reportFatalRebuild, closesLease,
         elsewhere, publicationVars, Take, detach
    <3> QED BY <1>1, <1>2, <3>1 DEF Types
  <2>3. CASE LeaseStep(j)
    <3>1. /\ UNCHANGED <<repository, seen, spec>> /\ activeEngine' \in Engine \cup {None}
          /\ engine' \in [Engine -> {"none", "open", "closed"}]
          /\ hold' \in [Actor -> Engine \cup {None}]
      BY <1>1, <2>3 DEF LeaseStep, removeLease, operationCompleted, CloseStep, closeInternal,
         shutdownJobs, shutdownExecutors, closeDetached, finishClose, actorVars, outside,
         publicationVars, Take, detach, closeEngine
    <3> QED BY <1>1, <1>2, <3>1 DEF Types
  <2> QED BY <1>3, <2>1, <2>2, <2>3 DEF JobActs
<1>4. CASE LoaderStep
  <2>1. /\ repository' \in Revision \cup {None} /\ activeEngine' \in Engine \cup {None}
        /\ engine' \in [Engine -> {"none", "open", "closed"}] /\ UNCHANGED <<hold, seen, spec>>
    BY <1>1, <1>4 DEF LoaderStep, taskRuns, createFirst, loadFirst, publishFirst,
       initializationFails, discardFirst, taskEnds, outside, publicationVars, closeEngine
  <2> QED BY <1>1, <1>2, <2>1 DEF Types
<1>5. CASE CloserActs
  <2>1. /\ UNCHANGED <<repository, seen, spec>> /\ activeEngine' \in Engine \cup {None}
        /\ engine' \in [Engine -> {"none", "open", "closed"}]
        /\ hold' \in [Actor -> Engine \cup {None}]
    BY <1>1, <1>5 DEF CloserActs, close, CloseStep, closeInternal,
       shutdownJobs, shutdownExecutors, closeDetached, finishClose, outside,
       publicationVars, Take, detach, closeEngine
  <2> QED BY <1>1, <1>2, <2>1 DEF Types
<1>6. CASE NobodyActs
  <2>1. UNCHANGED <<repository, activeEngine, engine, hold, seen, spec>>
    BY <1>6 DEF NobodyActs, initializeAsync, dispatcherGoesOn, jobCalls, vars, actorVars,
       outside, publicationVars
  <2> QED BY <1>1, <1>2, <2>1 DEF Types
<1> QED BY <1>3, <1>4, <1>5, <1>6

LEMMA TypesNext == Leases /\ Types /\ [Next]_vars => Types'
<1> SUFFICES ASSUME Leases, Types, [Next]_vars PROVE Types'
  OBVIOUS
<1>1. CASE \E o \in Op : OpActs(o)
  BY <1>1, OpTypes
<1>2. CASE (\E j \in Job : JobActs(j)) \/ LoaderStep \/ CloserActs \/ NobodyActs
  BY <1>2, OtherTypes
<1> QED BY <1>1, <1>2, WhoActs

LEMMA TypesInit == Init => Types
<1> SUFFICES ASSUME Init PROVE Types
  OBVIOUS
<1>1. NothingSeen \in Seq(Revision \cup {None}) /\ NoIdentity \in Identities
  BY DEF NothingSeen, NoIdentity, Identities
<1> QED BY <1>1 DEF Init, Types, Engine

-----------------------------------------------------------------------------
(* What a step publishes.                                                  *)

\* Nothing; at most the identity is withdrawn, for good.
Kept == UNCHANGED <<published, repository, lifecycle>>

Retreats == /\ repository' = repository
            /\ lifecycle' \in {"FAILED", "SHUTTING_DOWN", "STOPPED"}
            /\ withdrawIdentity \/ UNCHANGED published

\* The first publication, the next one, and the one of a failed rebuild.
PublishesFirst == /\ lifecycle = "LOADING" /\ lifecycle' = "READY"
                  /\ repository' = 1 /\ publishAs(1, published.epoch)
                  /\ activeEngine' = Loader

Republishes(o) == /\ at[o] \in {"save", "publish", "shutdownSave"}
                  /\ repository' \in Revision /\ publishAs(repository', published.epoch + 1)
                  /\ lifecycle' = "READY" \/ (lifecycle' = lifecycle /\ at[o] # "publish")

Restores(o) == /\ at[o] = "restore" /\ lifecycle = "RELOADING" /\ lifecycle' = "READY"
               /\ repository' = repository /\ publishAs(repository, published.epoch)

\* A rebuild that has taken the publication away, and the step that does it.
Rebuilding(o) == /\ kind[o] = "rebuild"
                 /\ at[o] \in {"stage", "publish", "discard", "fatal", "report", "restore"}

Unpublishes(o) == /\ lifecycle = "READY" /\ lifecycle' = "RELOADING"
                  /\ repository' = repository /\ unpublish /\ Rebuilding(o)'

LEMMA OpPublishes ==
    ASSUME Leases, NEW o \in Op, OpActs(o)
    PROVE  Kept \/ Retreats \/ Republishes(o) \/ Restores(o) \/ Unpublishes(o)
<1>1. /\ at \in [Actor -> OpPlace \cup JobPlace \cup LoaderPlace] /\ kind \in [Op -> OpKind]
      /\ o \in Actor
  BY DEF Leases, Places, Actor
<1>2. at[o] \in UnderLease => repository \in Revision /\ repository + 1 \in Revision
  BY HeldOnAProject DEF Revision
<1>3. CASE Starts(o)
  <2>1. CASE rebuild(o)
    BY <1>1, <2>1 DEF rebuild, admit, requireReady, Unpublishes, Rebuilding, GoTo, Continues
  <2>2. CASE ~ rebuild(o)
    BY <1>3, <2>2
     DEF Starts, withPrimaryClassRead, withExclusiveMappingExport, withEngineRead,
         withPrimarySymbolRead, withQueryRead, withTemporaryAnalysis, readPublished, saveProject,
         withExclusiveEdit, reserveShutdown, reserveShutdownSave, outside,
         publicationVars, lifecycleVars, Kept
  <2> QED BY <2>1, <2>2
<1>4. CASE OpStep(o)
  <2>1. CASE saved(o) \/ shutdownSave(o)
    BY <1>2, <2>1 DEF saved, shutdownSave, Republishes, UnderLease, lifecycleVars, Kept
  <2>2. CASE publishReplacement(o)
    BY <1>2, <2>2 DEF publishReplacement, Republishes, UnderLease, publicationVars, Kept
  <2>3. CASE restore(o)
    BY <2>3 DEF restore, Restores, Kept
  <2>4. CASE reportFatalRebuild(o) \/ acceptShutdown(o)
    BY <2>4 DEF reportFatalRebuild, acceptShutdown, Kept, Retreats
  <2>5. CASE \/ captureEngine(o) \/ useEnds(o) \/ snapshotEnds(o) \/ createTemporary(o)
             \/ readRepository(o) \/ recheckEpoch(o) \/ stage(o) \/ closeOld(o) \/ discard(o)
             \/ release(o) \/ unreserve(o) \/ signalRefused(o)
    BY <2>5 DEF captureEngine, useEnds, snapshotEnds, createTemporary, readRepository,
       recheckEpoch, stage, closeOld, discard, release, unreserve, signalRefused,
       outside, lifecycleVars, publicationVars, Kept
  <2> QED BY <1>4, <2>1, <2>2, <2>3, <2>4, <2>5 DEF OpStep
<1>5. CASE LeaseStep(o)
  BY <1>5 DEF LeaseStep, removeLease, operationCompleted, CloseStep, closeInternal,
     shutdownJobs, shutdownExecutors, closeDetached, finishClose, finishShutdownIfQuiescent,
     outside, lifecycleVars, publicationVars, Kept, Retreats
<1> QED BY <1>3, <1>4, <1>5 DEF OpActs

LEMMA OthersPublish ==
    ASSUME (\E j \in Job : JobActs(j)) \/ LoaderStep \/ CloserActs \/ NobodyActs
    PROVE  Kept \/ Retreats \/ PublishesFirst
<1>1. ASSUME NEW j \in Job, JobActs(j) PROVE Kept \/ Retreats
  <2>1. CASE \/ prepareJob(j) \/ submitJob(j) \/ admitJob(j) \/ captureSearchRead(j)
             \/ startFails(j) \/ WorkerStep(j)
    BY <2>1 DEF prepareJob, submitJob, admitJob, captureSearchRead, startFails, WorkerStep,
       taskReturns, execute, reportFatalRebuild, closesLease, elsewhere, lifecycleVars,
       publicationVars, Kept, Retreats
  <2>2. CASE LeaseStep(j)
    BY <2>2 DEF LeaseStep, removeLease, operationCompleted, CloseStep, closeInternal,
       shutdownJobs, shutdownExecutors, closeDetached, finishClose, finishShutdownIfQuiescent,
       outside, lifecycleVars, publicationVars, Kept, Retreats
  <2> QED BY <1>1, <2>1, <2>2 DEF JobActs
<1>2. CASE LoaderStep
  BY <1>2 DEF LoaderStep, taskRuns, createFirst, loadFirst, publishFirst, initializationFails,
     discardFirst, taskEnds, finishShutdownIfQuiescent, outside, lifecycleVars,
     publicationVars, Kept, Retreats, PublishesFirst
<1>3. CASE CloserActs
  BY <1>3 DEF CloserActs, close, CloseStep, closeInternal, shutdownJobs, shutdownExecutors,
     closeDetached, finishClose, finishShutdownIfQuiescent, outside, lifecycleVars,
     publicationVars, Kept, Retreats
<1>4. CASE NobodyActs
  BY <1>4 DEF NobodyActs, initializeAsync, dispatcherGoesOn, jobCalls, vars, outside,
     lifecycleVars, publicationVars, Kept
<1> QED BY <1>1, <1>2, <1>3, <1>4

-----------------------------------------------------------------------------
(* What is published, and who relies on it.                                *)

\* A job's search identity is no newer than what is published, and is the
\* published one as long as the job works for it.
SpecFits(j) == /\ at[j] = "idle" => spec[j] = NoIdentity
               /\ spec[j] # NoIdentity => /\ lifecycle # "LOADING"
                                          /\ spec[j][2] <= published.epoch
                                          /\ lifecycle = "RELOADING" => spec[j][2] < published.epoch
               /\ j \in Running => /\ spec[j] # NoIdentity
                                   /\ published.identity \in {NoIdentity, spec[j]}
                                   /\ published.admission = spec[j][1]

\* A read has seen an epoch, and then the revision that goes with it.
SeenFits(o) == at[o] \in {"read", "check"} =>
                   /\ lifecycle # "LOADING"
                   /\ seen[o][1] \in Nat /\ seen[o][1] <= published.epoch
                   /\ at[o] = "read" => Len(seen[o]) = 1
                   /\ at[o] = "check" => /\ Len(seen[o]) = 2
                                         /\ seen[o][1] = published.epoch => seen[o][2] = repository

Publication == /\ PublicationConsistent
               /\ lifecycle = "RELOADING" => \E o \in Op : Rebuilding(o)
               /\ \A j \in Job : SpecFits(j)
               /\ \A o \in Op : SeenFits(o)

\* The only user of the engine during a rebuild is the rebuild.
LEMMA RebuildingAlone ==
    ASSUME Leases, NEW o \in Op, Rebuilding(o), NEW l \in active, request[l].category \in Primary
    PROVE  l = o
<1>1. at[o] \in UnderLease /\ request[o].category = "PROJECT_EXCLUSIVE"
  BY DEF Leases, OpFits, Rebuilding, UnderLease
<1>2. o \in active
  BY <1>1, HeldOnAProject
<1> QED BY <1>1, <1>2 DEF Leases, Table, Primary

\* A running job uses the engine.
LEMMA RunningUses ==
    ASSUME Leases, NEW j \in Running
    PROVE  j \in Job /\ j \in active /\ request[j].category \in Primary
BY DEF Leases, JobFits, Running, Prepares, Primary

LEMMA NobodyRuns ==
    ASSUME Leases, NEW o \in Op, at[o] \in Exclusive \/ Rebuilding(o)
    PROVE  Running = {} /\ \A p \in Op : Rebuilding(p) => p = o
<1>1. ASSUME NEW l \in active, request[l].category \in Primary PROVE l = o
  BY <1>1, ExclusiveInUse, RebuildingAlone
<1>2. ASSUME NEW j \in Running PROVE FALSE
  BY <1>1, <1>2, RunningUses, ActorAssumption
<1>3. ASSUME NEW p \in Op, Rebuilding(p) PROVE p = o
  <2>1. p \in active /\ request[p].category \in Primary
    BY <1>3, HeldOnAProject DEF Leases, OpFits, Rebuilding, UnderLease, Primary
  <2> QED BY <1>1, <2>1
<1> QED BY <1>2, <1>3

\* The epoch never goes back, and the revision moves with it.
LEMMA EpochGrows ==
    ASSUME Leases, [Next]_vars
    PROVE  /\ published.epoch \in Nat /\ published'.epoch \in Nat
           /\ published'.epoch >= published.epoch
           /\ lifecycle # "LOADING" =>
                 /\ lifecycle' # "LOADING"
                 /\ published'.epoch = published.epoch => repository' = repository
<1>1. published \in Publications /\ published.epoch \in Nat
  BY DEF Leases, Numbers, Publications
<1>2. CASE Kept \/ Retreats \/ PublishesFirst
  BY <1>1, <1>2 DEF Kept, Retreats, PublishesFirst, withdrawIdentity, publishAs, Publications
<1>3. ASSUME NEW o \in Op, Republishes(o) \/ Restores(o) \/ Unpublishes(o)
      PROVE  /\ published'.epoch \in Nat /\ published'.epoch >= published.epoch
             /\ lifecycle # "LOADING" =>
                   /\ lifecycle' # "LOADING"
                   /\ published'.epoch = published.epoch => repository' = repository
  <2>1. CASE Republishes(o)
    <3>1. published'.epoch = published.epoch + 1 /\ lifecycle' \in {lifecycle, "READY"}
      BY <2>1 DEF Republishes, publishAs
    <3> QED BY <1>1, <3>1
  <2>2. CASE Restores(o)
    BY <1>1, <2>2 DEF Restores, publishAs
  <2>3. CASE Unpublishes(o)
    <3>1. published'.epoch = published.epoch + 1 /\ lifecycle' = "RELOADING"
      BY <1>1, <2>3 DEF Unpublishes, unpublish, Publications
    <3> QED BY <1>1, <3>1
  <2> QED BY <1>3, <2>1, <2>2, <2>3
<1> QED BY <1>1, <1>2, <1>3, WhoActs, OpPublishes, OthersPublish

LEMMA WhoMoves ==
    ASSUME Leases, Types, [Next]_vars
    PROVE  \/ \E o \in Op : OpActs(o) /\ OnlyOwn(o)
           \/ \E j \in Job : JobActs(j) /\ OnlyOwn(j)
           \/ LoaderStep /\ OnlyOwn(Loader)
           \/ CloserActs /\ OnlyOwn(Closer)
           \/ NobodyActs /\ NobodyMoves
BY WhoActs, OpOwn, JobOwn, LoaderOwn, CloserOwn, NobodyOwns

\* An operation and its reads.
LEMMA ReadStep ==
    ASSUME Leases, Types, NEW o \in Op, OpActs(o), SeenFits(o)
    PROVE  SeenFits(o)'
<1>1. /\ at \in [Actor -> OpPlace \cup JobPlace \cup LoaderPlace] /\ o \in Actor
      /\ published.epoch \in Nat /\ seen \in [Op -> Seq(Revision \cup {None})]
  BY DEF Leases, Places, Actor, Numbers, Publications, Types
<1>2. CASE readPublished(o)
  <2>1. /\ at'[o] = "read" /\ lifecycle = "READY" /\ UNCHANGED <<lifecycle, published>>
        /\ seen'[o] = <<published.epoch>>
    BY <1>1, <1>2 DEF readPublished, requireReady, outside, publicationVars, lifecycleVars, GoTo
  <2> QED BY <1>1, <2>1 DEF SeenFits
<1>3. CASE readRepository(o)
  <2>1. /\ at[o] = "read" /\ at'[o] = "check" /\ UNCHANGED <<lifecycle, published, repository>>
        /\ seen'[o] = Append(seen[o], repository)
    BY <1>1, <1>3 DEF readRepository, outside, publicationVars, lifecycleVars, GoTo
  <2>2. Len(seen[o]) = 1 /\ lifecycle # "LOADING" /\ seen[o][1] \in Nat
        /\ seen[o][1] <= published.epoch
    BY <2>1 DEF SeenFits
  <2>3. /\ seen[o] \in Seq(Revision \cup {None})
        /\ repository \in Revision \cup {None}
    BY <1>1 DEF Types
  <2>4. Len(seen'[o]) = 2 /\ seen'[o][1] = seen[o][1] /\ seen'[o][2] = repository
    BY <2>1, <2>2, <2>3, AppendProperties
  <2>5. /\ at'[o] = "check" /\ lifecycle' # "LOADING" /\ Len(seen'[o]) = 2
        /\ seen'[o][1] \in Nat /\ seen'[o][1] <= published'.epoch
        /\ seen'[o][2] = repository'
    BY <2>1, <2>2, <2>4
  <2> QED BY <2>5 DEF SeenFits
<1>4. CASE recheckEpoch(o)
  <2>1. /\ UNCHANGED <<lifecycle, published>>
        /\ \/ at'[o] \notin {"read", "check"}
           \/ at'[o] = "read" /\ seen'[o] = <<published.epoch>> /\ lifecycle = "READY"
    BY <1>1, <1>4 DEF recheckEpoch, requireReady, outside, publicationVars, lifecycleVars, GoTo
  <2>2. CASE at'[o] \notin {"read", "check"}
    BY <2>2 DEF SeenFits
  <2>3. CASE at'[o] = "read" /\ seen'[o] = <<published.epoch>> /\ lifecycle = "READY"
    <3>1. Len(seen'[o]) = 1 /\ seen'[o][1] = published'.epoch /\ published'.epoch \in Nat
      BY <1>1, <2>1, <2>3
    <3>2. at'[o] = "read" /\ lifecycle' # "LOADING"
      BY <2>1, <2>3
    <3> QED BY <3>1, <3>2 DEF SeenFits
  <2> QED BY <2>1, <2>2, <2>3
<1>5. CASE Starts(o) /\ ~ readPublished(o)
  <2>1. at'[o] \notin {"read", "check"}
    BY <1>1, <1>5
     DEF Starts, withPrimaryClassRead, withExclusiveMappingExport, withEngineRead,
         withPrimarySymbolRead, withQueryRead, withTemporaryAnalysis, saveProject,
         withExclusiveEdit, rebuild, reserveShutdown, reserveShutdownSave, GoTo
  <2> QED BY <2>1 DEF SeenFits
<1>6. CASE OpStep(o) /\ ~ (readRepository(o) \/ recheckEpoch(o))
  <2>1. at'[o] \notin {"read", "check"}
    BY <1>1, <1>6
     DEF OpStep, captureEngine, useEnds, snapshotEnds, createTemporary,
         saved, stage, publishReplacement, closeOld, discard, restore, reportFatalRebuild,
         release, shutdownSave, acceptShutdown, unreserve, signalRefused, Failed, GoTo
  <2> QED BY <2>1 DEF SeenFits
<1>7. CASE LeaseStep(o)
  <2>1. CASE removeLease(o)
    BY <2>1 DEF removeLease, lifecycleVars, publicationVars, actorVars, SeenFits
  <2>2. CASE operationCompleted(o) \/ CloseStep(o)
    <3>1. at'[o] \notin {"read", "check"}
      BY <1>1, <2>2 DEF operationCompleted, CloseStep, closeInternal,
         shutdownJobs, shutdownExecutors, closeDetached, finishClose, AfterRelease, Cleanup, GoTo
    <3> QED BY <3>1 DEF SeenFits
  <2> QED BY <1>7, <2>1, <2>2 DEF LeaseStep
<1> QED BY <1>2, <1>3, <1>4, <1>5, <1>6, <1>7 DEF OpActs

LEMMA SeenNext ==
    ASSUME Leases, Types, [Next]_vars, NEW o \in Op, SeenFits(o)
    PROVE  SeenFits(o)'
<1>1. CASE at'[o] = at[o] /\ seen'[o] = seen[o]
  BY <1>1, EpochGrows DEF SeenFits
<1>2. CASE OpActs(o)
  BY <1>2, ReadStep
<1>3. o \in Actor /\ o \notin Job /\ o # Loader /\ o # Closer
  BY ActorAssumption DEF Actor
<1> QED BY <1>1, <1>2, <1>3, WhoMoves DEF OnlyOwn, OnlyMoves, NobodyMoves

-----------------------------------------------------------------------------
(* When a job runs.                                                        *)

\* Only the dispatcher and a worker that ends move the registry's threads.
LEMMA HandElsewhere ==
    ASSUME \/ \E o \in Op : OpActs(o)
           \/ \E j \in Job : prepareJob(j) \/ submitJob(j) \/ reportFatalRebuild(j) \/ LeaseStep(j)
           \/ LoaderStep \/ CloserActs \/ initializeAsync \/ jobCalls \/ UNCHANGED vars
    PROVE  SameHand
<1>1. ASSUME NEW o \in Op, Starts(o) PROVE SameHand
  BY <1>1, CallersOnly
     DEF Starts, withPrimaryClassRead, withExclusiveMappingExport, withEngineRead,
         withPrimarySymbolRead, withQueryRead, withTemporaryAnalysis, readPublished, saveProject,
         withExclusiveEdit, rebuild, reserveShutdown, reserveShutdownSave, outside
<1>2. ASSUME NEW o \in Op, OpStep(o) PROVE SameHand
  BY <1>2, CallersOnly
     DEF OpStep, captureEngine, useEnds, snapshotEnds, createTemporary, readRepository,
         recheckEpoch, saved, stage, publishReplacement, closeOld, discard, restore,
         reportFatalRebuild, release, shutdownSave, acceptShutdown, unreserve, signalRefused,
         outside
<1>3. ASSUME NEW a \in Actor, LeaseStep(a) PROVE SameHand
  BY <1>3, CallersOnly
     DEF LeaseStep, removeLease, operationCompleted, CloseStep, closeInternal,
         shutdownJobs, shutdownExecutors, closeDetached, finishClose, outside
<1>4. ASSUME NEW j \in Job, prepareJob(j) \/ submitJob(j) \/ reportFatalRebuild(j) PROVE SameHand
  BY <1>4, CallersOnly DEF prepareJob, submitJob, reportFatalRebuild
<1>5. CASE LoaderStep \/ initializeAsync \/ jobCalls \/ UNCHANGED vars
  BY <1>5, CallersOnly
     DEF LoaderStep, taskRuns, createFirst, loadFirst, publishFirst, initializationFails,
         discardFirst, taskEnds, initializeAsync, jobCalls, vars, outside
<1>6. CASE CloserActs
  BY <1>6, CallersOnly
     DEF CloserActs, close, CloseStep, closeInternal, shutdownJobs, shutdownExecutors,
         closeDetached, finishClose, outside
<1> QED BY <1>1, <1>2, <1>3, <1>4, <1>5, <1>6 DEF OpActs, Actor

\* Where the dispatch run goes between admissions, captures and releases.
LEMMA DispatcherMoves ==
    ASSUME dispatcherGoesOn
    PROVE  \/ /\ worker' = worker
              /\ disp' \in {"clear", "pump", "unschedule", "recheck", "idle", "admit", "while"}
           \/ disp = "start" /\ disp' \in {"abandon", "launch"} /\ UNCHANGED <<cur, worker>>
           \/ /\ disp = "launch" /\ disp' = "pump"
              /\ worker' = [worker EXCEPT ![cur] = "running"]
<1>1. CASE \/ jobs!runDispatch \/ jobs!clearPending \/ jobs!whilePending \/ jobs!unschedule
           \/ jobs!recheck \/ jobs!pumpHead \/ jobs!pumpReturns \/ jobs!requeueBlocked
           \/ jobs!finishDispatchFailure
  BY <1>1 DEF jobs!runDispatch, jobs!clearPending, jobs!whilePending, jobs!unschedule,
     jobs!recheck, jobs!pumpHead, jobs!pumpReturns, jobs!requeueBlocked,
     jobs!finishDispatchFailure, jobs!GoTo, jobs!workVars
<1>2. CASE jobs!startAdmitted \/ jobs!launch
  BY <1>2 DEF jobs!startAdmitted, jobs!launch, jobs!GoTo, jobs!workVars
<1> QED BY <1>1, <1>2 DEF dispatcherGoesOn

\* A job begins to run when its capture finds its own publication.
LEMMA RunsSince ==
    ASSUME Leases, Types, [Next]_vars, NEW j \in Running'
    PROVE  \/ j \in Running
           \/ captureSearchRead(j) /\ mayCapture(j) /\ jobs!captureSucceeds
<1>1. CASE SameHand
  BY <1>1 DEF SameHand, Running
<1>2. worker \in [Job -> WorkerState] /\ j \in Job
  BY DEF Leases, Hand, Running
<1>3. ASSUME NEW i \in Job, admitJob(i) PROVE j \in Running
  BY <1>3 DEF admitJob, jobs!gateGrants, jobs!gateBlocks, jobs!gateStops, jobs!gateFails,
     jobs!GoTo, jobs!workVars, Running
<1>4. ASSUME NEW i \in Job, captureSearchRead(i)
      PROVE  \/ j \in Running
             \/ captureSearchRead(j) /\ mayCapture(j) /\ jobs!captureSucceeds
  <2>1. i = cur /\ UNCHANGED <<worker, cur>>
        /\ (disp' = "fail" \/ (mayCapture(i) /\ jobs!captureSucceeds))
    BY <1>4 DEF captureSearchRead, jobs!captureSucceeds, jobs!captureFails, jobs!GoTo,
       jobs!workVars
  <2> QED BY <1>4, <2>1 DEF Running
<1>5. ASSUME NEW i \in Job, startFails(i) PROVE j \in Running
  BY <1>5 DEF startFails, closesLease, jobs!abandonStart, jobs!launchRejected, Running
<1>6. ASSUME NEW i \in Job, taskReturns(i) \/ execute(i) PROVE j \in Running
  <2>1. /\ UNCHANGED <<disp, cur>>
        /\ \E outcome \in {"succeeded", "failed", "cancelled", "none"} :
              worker' = [worker EXCEPT ![i] = outcome]
    BY <1>6 DEF taskReturns, execute, closesLease, jobs!taskReturns, jobs!execute, jobs!Outcome,
       jobs!dispatchVars
  <2> QED BY <1>2, <2>1 DEF Running
<1>7. CASE dispatcherGoesOn
  BY <1>2, <1>7, DispatcherMoves DEF Running
<1> QED BY <1>1, <1>3, <1>4, <1>5, <1>6, <1>7, WhoActs, HandElsewhere
        DEF JobActs, NobodyActs, WorkerStep

-----------------------------------------------------------------------------
(* The publication is consistent.                                          *)

\* A job that does not change its identity, or only begins to run for it.
LEMMA SpecKept ==
    ASSUME Leases, Types, [Next]_vars, NEW j \in Job, SpecFits(j), spec'[j] = spec[j],
           at'[j] = "idle" => at[j] = "idle", j \in Running' => j \in Running
    PROVE  SpecFits(j)'
<1>1. /\ published \in Publications /\ published.epoch \in Nat
      /\ spec[j] = NoIdentity \/ (spec[j] \in Revision \X Nat /\ spec[j][2] \in Nat)
  BY DEF Leases, Numbers, Publications, Types, Identities
<1>2. CASE Kept
  BY <1>2 DEF Kept, SpecFits
<1>3. CASE Retreats
  <2>1. published'.epoch = published.epoch /\ published'.admission = published.admission
        /\ published'.identity \in {NoIdentity, published.identity}
        /\ lifecycle' \notin {"LOADING", "RELOADING"}
    BY <1>1, <1>3 DEF Retreats, withdrawIdentity, Publications
  <2> QED BY <2>1 DEF SpecFits
<1>4. CASE PublishesFirst
  <2>1. spec[j] = NoIdentity /\ j \notin Running
    BY <1>4 DEF PublishesFirst, SpecFits
  <2> QED BY <2>1 DEF SpecFits
<1>5. ASSUME NEW o \in Op, Republishes(o) \/ Restores(o) PROVE SpecFits(j)'
  <2>1. j \notin Running
    BY <1>5, NobodyRuns DEF Republishes, Restores, Exclusive
  <2>2. CASE Republishes(o)
    <3>1. published'.epoch = published.epoch + 1 /\ lifecycle' \in {lifecycle, "READY"}
      BY <2>2 DEF Republishes, publishAs
    <3> QED BY <1>1, <2>1, <3>1 DEF SpecFits
  <2>3. CASE Restores(o)
    <3>1. published'.epoch = published.epoch /\ lifecycle' = "READY"
      BY <2>3 DEF Restores, publishAs
    <3> QED BY <1>1, <2>1, <3>1 DEF SpecFits
  <2> QED BY <1>5, <2>2, <2>3
<1>6. ASSUME NEW o \in Op, Unpublishes(o) PROVE SpecFits(j)'
  <2>1. /\ published'.epoch = published.epoch + 1 /\ published'.identity = NoIdentity
        /\ published'.admission = published.admission
        /\ lifecycle = "READY" /\ lifecycle' = "RELOADING"
    BY <1>1, <1>6 DEF Unpublishes, unpublish, Publications
  <2> QED BY <1>1, <2>1 DEF SpecFits
<1> QED BY <1>2, <1>3, <1>4, <1>5, <1>6, WhoActs, OpPublishes, OthersPublish

\* A job prepares itself for what is published.
LEMMA SpecMade ==
    ASSUME Leases, Types, PublicationConsistent, NEW j \in Job, prepareJob(j), SpecFits(j)
    PROVE  SpecFits(j)'
<1>1. /\ at \in [Actor -> OpPlace \cup JobPlace \cup LoaderPlace] /\ j \in Actor
      /\ spec \in [Job -> Identities]
  BY DEF Leases, Places, Actor, Types
<1>2. /\ lifecycle = "READY" /\ UNCHANGED <<published, lifecycle>>
      /\ at[j] = "idle" /\ at'[j] = "prepared"
      /\ spec'[j] = published.identity
  BY <1>1 DEF prepareJob, requireReady, GoTo, elsewhere, lifecycleVars, publicationVars
<1>3. published.identity = <<repository, published.epoch>> /\ published.epoch \in Nat
  BY <1>2 DEF PublicationConsistent, Leases, Numbers, Publications
<1>4. j \notin Running'
  BY <1>2, HandElsewhere DEF SpecFits, SameHand, Running
<1> QED BY <1>2, <1>3, <1>4 DEF SpecFits

LEMMA SpecCaptured ==
    ASSUME Leases, Types, PublicationConsistent, NEW j \in Job, captureSearchRead(j),
           mayCapture(j), jobs!captureSucceeds, SpecFits(j)
    PROVE  SpecFits(j)'
<1>1. lifecycle = "READY" /\ spec[j] = published.identity
  BY DEF mayCapture, requireReady
<1>2. UNCHANGED <<published, lifecycle, spec, at>>
  BY DEF captureSearchRead, elsewhere, lifecycleVars, publicationVars, jobs!captureSucceeds,
     jobs!captureFails, jobs!GoTo
<1>3. /\ published.identity = <<repository, published.epoch>>
      /\ published.admission = repository
  BY <1>1 DEF PublicationConsistent
<1>4. /\ spec[j] # NoIdentity /\ spec[j][1] = published.admission
      /\ spec[j][2] = published.epoch /\ published.epoch \in Nat
  BY <1>1, <1>3 DEF NoIdentity, Leases, Numbers, Publications
<1>5. at[j] # "idle"
  BY <1>4 DEF SpecFits
<1> QED BY <1>1, <1>2, <1>4, <1>5 DEF SpecFits

LEMMA SpecNext ==
    ASSUME Leases, Types, PublicationConsistent, [Next]_vars, NEW j \in Job, SpecFits(j)
    PROVE  SpecFits(j)'
<1>1. CASE prepareJob(j)
  BY <1>1, SpecMade
<1>2. CASE captureSearchRead(j) /\ mayCapture(j) /\ jobs!captureSucceeds
  BY <1>2, SpecCaptured
<1>3. CASE ~ prepareJob(j) /\ ~ (captureSearchRead(j) /\ mayCapture(j) /\ jobs!captureSucceeds)
  <2>1. j \in Running' => j \in Running
    BY <1>3, RunsSince
  <2>2. /\ at \in [Actor -> OpPlace \cup JobPlace \cup LoaderPlace] /\ j \in Actor
        /\ j \notin Op /\ j # Loader /\ j # Closer
    BY ActorAssumption DEF Leases, Places, Actor
  <2>3. spec'[j] = spec[j] /\ (at'[j] = "idle" => at[j] = "idle")
    <3>1. CASE JobActs(j)
      <4>1. UNCHANGED spec
        BY <1>3, <3>1 DEF JobActs, submitJob, admitJob, captureSearchRead, startFails, WorkerStep,
           taskReturns, execute, reportFatalRebuild, closesLease, LeaseStep, removeLease,
           operationCompleted, CloseStep, closeInternal, shutdownJobs, shutdownExecutors,
           closeDetached, finishClose, actorVars
      <4>2. at'[j] = "idle" => at[j] = "idle"
        BY <1>3, <2>2, <3>1
         DEF JobActs, submitJob, admitJob, captureSearchRead, startFails, WorkerStep,
           taskReturns, execute, reportFatalRebuild, closesLease, LeaseStep, removeLease,
           operationCompleted, CloseStep, closeInternal, shutdownJobs, shutdownExecutors,
           closeDetached, finishClose, actorVars, GoTo, AfterRelease, Cleanup
      <4> QED BY <4>1, <4>2
    <3>2. CASE at'[j] = at[j] /\ spec'[j] = spec[j]
      BY <3>2
    <3> QED BY <2>2, <3>1, <3>2, WhoMoves DEF OnlyOwn, OnlyMoves, NobodyMoves
  <2> QED BY <2>1, <2>3, SpecKept
<1> QED BY <1>1, <1>2, <1>3

\* Whoever takes the publication away is still at it, or gives it back.
LEMMA RebuildGoesOn ==
    ASSUME Leases, NEW o \in Op, Rebuilding(o), OpActs(o), lifecycle = "RELOADING",
           lifecycle' = "RELOADING"
    PROVE  Rebuilding(o)'
<1>1. /\ at \in [Actor -> OpPlace \cup JobPlace \cup LoaderPlace] /\ o \in Actor
      /\ kind[o] = "rebuild" /\ at[o] \in {"stage", "publish", "discard", "fatal", "report", "restore"}
  BY DEF Leases, Places, Actor, Rebuilding
<1>2. ~ Starts(o)
  BY <1>1 DEF Starts, Calls, withPrimaryClassRead, withExclusiveMappingExport, withEngineRead,
     withPrimarySymbolRead, withQueryRead, withTemporaryAnalysis, readPublished, saveProject,
     withExclusiveEdit, rebuild, reserveShutdown, reserveShutdownSave
<1>3. CASE OpStep(o)
  <2>1. CASE stage(o) \/ publishReplacement(o) \/ discard(o)
    BY <1>1, <2>1 DEF stage, publishReplacement, discard, Failed, GoTo, Rebuilding
  <2>2. ~ restore(o) /\ ~ reportFatalRebuild(o)
    BY DEF restore, reportFatalRebuild
  <2> QED BY <1>1, <1>3, <2>1, <2>2
          DEF OpStep, captureEngine, useEnds, snapshotEnds, createTemporary, readRepository,
              recheckEpoch, saved, closeOld, release, shutdownSave, acceptShutdown, unreserve,
              signalRefused
<1>4. CASE LeaseStep(o)
  <2>1. CASE removeLease(o)
    BY <1>1, <2>1 DEF removeLease, actorVars, Rebuilding
  <2>2. CASE operationCompleted(o)
    <3>1. o \in closed \ notified
      BY <2>2 DEF operationCompleted, coordinator!afterRelease, coordinator!mayNotify
    <3> QED BY <1>1, <3>1 DEF Leases, OpFits
  <2>3. ~ CloseStep(o)
    BY <1>1 DEF CloseStep, closeInternal, shutdownJobs, shutdownExecutors, closeDetached,
       finishClose
  <2> QED BY <1>4, <2>1, <2>2, <2>3 DEF LeaseStep
<1> QED BY <1>2, <1>3, <1>4 DEF OpActs

LEMMA PublicationNext == Leases /\ Types /\ Publication /\ [Next]_vars => Publication'
<1> SUFFICES ASSUME Leases, Types, Publication, [Next]_vars PROVE Publication'
  OBVIOUS
<1>1. PublicationConsistent /\ published \in Publications
  BY DEF Publication, Leases, Numbers
<1>2. PublicationConsistent'
  <2>1. CASE Kept \/ Retreats
    BY <1>1, <2>1 DEF Kept, Retreats, PublicationConsistent
  <2>2. CASE PublishesFirst
    BY <2>2 DEF PublishesFirst, publishAs, PublicationConsistent
  <2>3. ASSUME NEW o \in Op, Republishes(o) PROVE PublicationConsistent'
    <3>1. lifecycle = "READY" \/ lifecycle' # "RELOADING" \/ at[o] # "publish"
      BY <2>3 DEF Republishes
    <3>2. ASSUME lifecycle' = "RELOADING" PROVE FALSE
      <4>1. PICK p \in Op : Rebuilding(p)
        BY <2>3, <3>2 DEF Republishes, Publication
      <4>2. at[o] \in {"save", "shutdownSave"} /\ p = o
        BY <2>3, <3>2, <4>1, NobodyRuns DEF Republishes, Exclusive
      <4> QED BY <4>1, <4>2 DEF Rebuilding
    <3> QED BY <2>3, <3>2 DEF Republishes, publishAs, PublicationConsistent
  <2>4. ASSUME NEW o \in Op, Restores(o) PROVE PublicationConsistent'
    BY <2>4 DEF Restores, publishAs, PublicationConsistent
  <2>5. ASSUME NEW o \in Op, Unpublishes(o) PROVE PublicationConsistent'
    BY <1>1, <2>5 DEF Unpublishes, unpublish, Publications, PublicationConsistent
  <2> QED BY <2>1, <2>2, <2>3, <2>4, <2>5, WhoActs, OpPublishes, OthersPublish
<1>3. lifecycle' = "RELOADING" => (\E o \in Op : Rebuilding(o))'
  <2> SUFFICES ASSUME lifecycle' = "RELOADING" PROVE \E o \in Op : Rebuilding(o)'
    OBVIOUS
  <2>1. CASE lifecycle = "RELOADING"
    <3>1. PICK o \in Op : Rebuilding(o)
      BY <2>1 DEF Publication
    <3>2. CASE OpActs(o)
      BY <2>1, <3>1, <3>2, RebuildGoesOn
    <3>3. CASE at'[o] = at[o] /\ kind'[o] = kind[o]
      BY <3>1, <3>3 DEF Rebuilding
    <3>4. o \in Actor /\ o \notin Job /\ o # Loader /\ o # Closer
      BY ActorAssumption DEF Actor
    <3> QED BY <3>2, <3>3, <3>4, WhoMoves DEF OnlyOwn, OnlyMoves, NobodyMoves
  <2>2. CASE lifecycle # "RELOADING"
    <3>1. ASSUME NEW o \in Op, Kept \/ Retreats \/ Republishes(o) \/ Restores(o) \/ Unpublishes(o)
          PROVE  Rebuilding(o)'
      BY <2>2, <3>1 DEF Kept, Retreats, Republishes, Restores, Unpublishes
    <3>2. ~ Kept /\ ~ Retreats /\ ~ PublishesFirst
      BY <2>2 DEF Kept, Retreats, PublishesFirst
    <3> QED BY <3>1, <3>2, WhoActs, OpPublishes, OthersPublish
  <2> QED BY <2>1, <2>2
<1>4. \A j \in Job : SpecFits(j)'
  BY <1>1, SpecNext DEF Publication
<1>5. \A o \in Op : SeenFits(o)'
  BY SeenNext DEF Publication
<1> QED BY <1>2, <1>3, <1>4, <1>5 DEF Publication

LEMMA PublicationInit == Init => Publication
<1> SUFFICES ASSUME Init PROVE Publication
  OBVIOUS
<1>1. Running = {}
  BY DEF Init, jobs!Init, Running
<1> QED BY <1>1 DEF Init, Publication, PublicationConsistent, SpecFits, SeenFits, Actor

LEMMA PublicationInvariance == Spec => [](Leases /\ Types /\ Publication)
BY LeasesInit, LeasesNext, TypesInit, TypesNext, PublicationInit, PublicationNext, PTL DEF Spec

(* Whatever ends last, a save, an edit, a rebuild that succeeds or fails,  *)
(* a shutdown or a fatal error: while READY, admission and search identity *)
(* carry the repository's revision and the current epoch, and while        *)
(* RELOADING nothing is offered (publishReplacement, rebuild, saveProject, *)
(* admitReloading).                                                        *)
THEOREM PublicationIsConsistent == Spec => []PublicationConsistent
<1>1. Publication => PublicationConsistent
  BY DEF Publication
<1> QED BY <1>1, PublicationInvariance, PTL

(* readPublished() returns a revision that is the repository's at that     *)
(* moment, with any number of operations publishing while it reads.        *)
THEOREM ReadsStayCurrent == Spec => ReadsAreCurrent
<1> DEFINE Current == \A o \in Op : at[o] = "check" /\ at'[o] = "returned" =>
                          /\ lifecycle = "READY" /\ ~ shutdownReserved
                          /\ seen[o][2] = repository
<1>1. Leases /\ Types /\ Publication /\ [Next]_vars => Current
  <2> SUFFICES ASSUME Leases, Types, Publication, [Next]_vars, NEW o \in Op,
                      at[o] = "check", at'[o] = "returned"
               PROVE  lifecycle = "READY" /\ ~ shutdownReserved /\ seen[o][2] = repository
    OBVIOUS
  <2>1. OpActs(o)
    <3>1. o \in Actor /\ o \notin Job /\ o # Loader /\ o # Closer
      BY ActorAssumption DEF Actor
    <3> QED BY <3>1, WhoMoves DEF OnlyOwn, OnlyMoves, NobodyMoves
  <2>2. recheckEpoch(o)
    <3>1. ~ Starts(o)
      BY DEF Starts, Calls, withPrimaryClassRead, withExclusiveMappingExport, withEngineRead,
         withPrimarySymbolRead, withQueryRead, withTemporaryAnalysis, readPublished, saveProject,
         withExclusiveEdit, rebuild, reserveShutdown, reserveShutdownSave
    <3>2. ~ LeaseStep(o)
      <4>1. ~ removeLease(o) /\ ~ CloseStep(o)
        BY DEF removeLease, actorVars, CloseStep, closeInternal, shutdownJobs,
           shutdownExecutors, closeDetached, finishClose
      <4>2. ~ operationCompleted(o)
        BY DEF operationCompleted, coordinator!afterRelease, coordinator!mayNotify,
           Leases, OpFits
      <4> QED BY <4>1, <4>2 DEF LeaseStep
    <3> QED BY <2>1, <3>1, <3>2
            DEF OpActs, OpStep, captureEngine, useEnds, snapshotEnds, createTemporary,
                readRepository, saved, stage, publishReplacement, closeOld, discard, restore,
                reportFatalRebuild, release, shutdownSave, acceptShutdown, unreserve,
                signalRefused
  <2>3. requireReady /\ isCurrent(o)
    <3>1. at \in [Actor -> OpPlace \cup JobPlace \cup LoaderPlace] /\ o \in Actor
      BY DEF Leases, Places, Actor
    <3> QED BY <2>2, <3>1 DEF recheckEpoch, GoTo
  <2> QED BY <2>3 DEF requireReady, isCurrent, Publication, SeenFits
<1>2. Spec => [][Current]_vars
  BY <1>1, PublicationInvariance, PTL DEF Spec
<1> QED BY <1>2 DEF ReadsAreCurrent

(* A search identity that is no longer the published one never is again:   *)
(* nobody takes an index or a queued build made for it for current, not    *)
(* even after a rebuild that failed and left the old engine in place       *)
(* (admitReloading, rebuild).                                              *)
THEOREM IdentitiesNeverReused == Spec => IdentityNeverReused
<1> DEFINE Fresh == \A j \in Job : spec[j] # NoIdentity /\ spec[j] # published.identity =>
                        published'.identity # spec[j]
<1>1. Leases /\ Types /\ Publication /\ [Next]_vars => Fresh
  <2> SUFFICES ASSUME Leases, Types, Publication, [Next]_vars, NEW j \in Job,
                      spec[j] # NoIdentity, spec[j] # published.identity
               PROVE  published'.identity # spec[j]
    OBVIOUS
  <2>1. /\ published \in Publications /\ published.epoch \in Nat
        /\ spec[j] \in Revision \X Nat /\ spec[j][2] \in Nat
        /\ lifecycle # "LOADING" /\ spec[j][2] <= published.epoch
        /\ lifecycle = "RELOADING" => spec[j][2] < published.epoch
    BY DEF Leases, Numbers, Publications, Types, Identities, Publication, SpecFits
  <2>2. CASE published'.identity \in {NoIdentity, published.identity}
    BY <2>2
  <2>3. ASSUME NEW revision, NEW epoch \in Nat, publishAs(revision, epoch), spec[j][2] < epoch
        PROVE  published'.identity # spec[j]
    <3>1. published'.identity[2] = epoch
      BY <2>3 DEF publishAs
    <3> QED BY <2>1, <2>3, <3>1
  <2>4. CASE Kept \/ Retreats
    BY <2>1, <2>2, <2>4 DEF Kept, Retreats, withdrawIdentity, Publications
  <2>5. ~ PublishesFirst
    BY <2>1 DEF PublishesFirst
  <2>6. ASSUME NEW o \in Op, Republishes(o) PROVE published'.identity # spec[j]
    BY <2>1, <2>3, <2>6 DEF Republishes
  <2>7. ASSUME NEW o \in Op, Restores(o) PROVE published'.identity # spec[j]
    BY <2>1, <2>3, <2>7 DEF Restores
  <2>8. ASSUME NEW o \in Op, Unpublishes(o) PROVE published'.identity # spec[j]
    BY <2>1, <2>2, <2>8 DEF Unpublishes, unpublish, Publications
  <2> QED BY <2>4, <2>5, <2>6, <2>7, <2>8, WhoActs, OpPublishes, OthersPublish
<1>2. Spec => [][Fresh]_vars
  BY <1>1, PublicationInvariance, PTL DEF Spec
<1> QED BY <1>2 DEF IdentityNeverReused

-----------------------------------------------------------------------------
(* Who made, uses and closes which engine.                                 *)

\* The engine of e was never published, and e will close it if it is open.
Makes(e) == IF e = Loader THEN at[e] \notin {"end", "done"}
            ELSE at[e] \in {"idle", "snapshot", "create", "stage", "publish", "discard", "fatal"}

Keeps(e) == IF e = Loader THEN at[e] \in {"load", "publish", "failed", "discard"}
            ELSE at[e] \in {"publish", "discard", "fatal"}

\* Actor a has taken an engine from the runtime and will close it.
Disposes(a) == hold[a] # None /\ at[a] \in {"jobs", "executors", "cleanup", "closeOld"}

\* Actor a is one of the cleanups in progress.
Cleans(a) == hold[a] # None /\ at[a] \in {"jobs", "executors", "cleanup", "finish"}

Cleaners == {a \in Actor : Cleans(a)}

\* Actor a works with the engine it borrowed.
Works(a) == \/ a \in Running
            \/ a \in Op /\ at[a] \in {"stage", "publish"}
            \/ a \in Op /\ at[a] = "use" /\ request[a].category \in Primary

ActiveOpen == /\ activeEngine # None => engine[activeEngine] = "open"
              /\ lifecycle = "LOADING" => activeEngine = None
              /\ lifecycle \in {"READY", "RELOADING"} \/ coordinator!primaryEngineInUse =>
                    activeEngine # None

Disposal == /\ \A a \in Actor : Disposes(a) => /\ engine[hold[a]] = "open"
                                               /\ hold[a] # activeEngine
            /\ \A a, b \in Actor : Disposes(a) /\ Disposes(b) /\ hold[a] = hold[b] => a = b
            /\ \A a \in Actor : at[a] \in {"cleanup", "closeOld"} => hold[a] # None

Making == /\ \A e \in Engine : Makes(e) => activeEngine # e /\ \A a \in Actor : hold[a] # e
          /\ \A e \in Engine : at[e] \in {"load", "publish", "discard"} => engine[e] = "open"

OpenOwned == \A e \in Engine : engine[e] = "open" =>
                 e = activeEngine \/ Keeps(e) \/ \E a \in Actor : Disposes(a) /\ hold[a] = e

Borrowing == \A a \in Op \cup Job : Works(a) => hold[a] = activeEngine

\* Only a read of immutable data goes without an engine.
Using == \A o \in Op : at[o] = "use" => request[o].category \in Primary \cup {"QUERY_READ"}

Cleaning == IsFiniteSet(Cleaners) /\ cleanupInProgress = Cardinality(Cleaners)

Stopping == /\ at[Loader] \in {"create", "load", "publish", "failed", "discard", "end"} =>
                   init = "RUNNING"
            /\ lifecycle = "STOPPED" => /\ active = {} /\ activeEngine = None
                                        /\ init \notin {"QUEUED", "RUNNING"}
                                        /\ cleanupInProgress = 0

Engines == /\ ActiveOpen /\ Disposal /\ Making /\ OpenOwned /\ Borrowing /\ Using
           /\ Cleaning /\ Stopping

-----------------------------------------------------------------------------
(* What a step of actor a does to the engines.                             *)

Unconcerned(a) == ~ Disposes(a) /\ ~ Cleans(a)

\* The engines stay; a borrows one at most, or gives it back.
Leaves(a) ==
    /\ UNCHANGED <<engine, activeEngine, cleanupInProgress>>
    /\ hold'[a] \in {hold[a], None, activeEngine}
    /\ Disposes(a)' <=> Disposes(a)
    /\ Disposes(a) \/ Cleans(a) => hold'[a] = hold[a]
    /\ Cleans(a)' <=> Cleans(a)
    /\ at'[a] \in {"cleanup", "closeOld"} => hold'[a] # None
    /\ a \in Engine => /\ Makes(a)' => Makes(a)
                       /\ Keeps(a) /\ engine[a] = "open" => Keeps(a)'
                       /\ at'[a] \in {"load", "publish", "discard"} => engine[a] = "open"

Creates(a) ==
    /\ a \in Engine /\ Makes(a) /\ Keeps(a)' /\ Unconcerned(a) /\ Unconcerned(a)'
    /\ engine' = [engine EXCEPT ![a] = "open"]
    /\ UNCHANGED <<activeEngine, cleanupInProgress, hold>>

\* It closes the engine that it made and nobody else saw.
Discards(a) ==
    /\ a \in Engine /\ Makes(a) /\ ~ Makes(a)' /\ Unconcerned(a) /\ Unconcerned(a)'
    /\ engine' = [engine EXCEPT ![a] = "closed"]
    /\ hold'[a] \in {hold[a], None}
    /\ UNCHANGED <<activeEngine, cleanupInProgress>>
    /\ at'[a] \notin {"cleanup", "closeOld"}

\* It publishes the engine it made, the loader as the first one.
Installs(a) ==
    /\ a \in Engine /\ at[a] = "publish" /\ ~ Makes(a)' /\ Unconcerned(a) /\ ~ Cleans(a)'
    /\ activeEngine' = a
    /\ UNCHANGED <<engine, cleanupInProgress, hold>>
    /\ lifecycle' # "LOADING"
    /\ \/ a = Loader /\ lifecycle = "LOADING" /\ at'[a] = "end"
       \/ /\ a \in Op /\ at'[a] = "closeOld" /\ hold[a] = activeEngine
          /\ lifecycle # "LOADING"

\* It takes the engine from the runtime, unless somebody uses it.
Detaches(a) ==
    /\ hold'[a] = detachable
    /\ activeEngine' = IF detachable = None THEN activeEngine ELSE None
    /\ cleanupInProgress' = IF detachable = None THEN cleanupInProgress ELSE cleanupInProgress + 1
    /\ UNCHANGED <<engine, active, request>>
    /\ Unconcerned(a) /\ at[a] \in {"detach", "fatal", "report"}
    /\ at'[a] \in {"jobs", "cleanup"} /\ (at'[a] = "cleanup" => detachable # None)
    /\ a \in Engine => ~ Keeps(a)
    /\ lifecycle' \in {"FAILED", "SHUTTING_DOWN", "STOPPED"}

\* It closes the engine that it took, and goes on without it.
Closes(a) ==
    /\ Disposes(a) /\ at'[a] \in {"finish", "release", "report"}
    /\ engine' = [engine EXCEPT ![hold[a]] = "closed"]
    /\ hold'[a] \in {hold[a], None}
    /\ Cleans(a)' <=> Cleans(a)
    /\ UNCHANGED <<activeEngine, cleanupInProgress>>

Finishes(a) ==
    /\ at[a] = "finish" /\ hold'[a] = None
    /\ at'[a] \in {"accept", "unreserve", "done"}
    /\ cleanupInProgress' = left(a)
    /\ UNCHANGED <<engine, activeEngine>>

EngineStep(a) == \/ Leaves(a) \/ Creates(a) \/ Discards(a) \/ Installs(a) \/ Detaches(a)
                 \/ Closes(a) \/ Finishes(a)

\* Closing the runtime, by whoever does.
LEMMA CloseEngineStep ==
    ASSUME Leases, Types, Disposal, NEW a \in Actor \ {Loader}, CloseStep(a)
    PROVE  EngineStep(a)
<1>1. /\ at \in [Actor -> OpPlace \cup JobPlace \cup LoaderPlace]
      /\ hold \in [Actor -> Engine \cup {None}] /\ engine \in [Engine -> {"none", "open", "closed"}]
  BY DEF Leases, Places, Types
<1>2. \A place \in {"detach", "jobs", "executors", "cleanup", "finish", "done", "accept", "unreserve"} :
          (at[a] = place => (a \in Engine => ~ Makes(a) /\ ~ Keeps(a)))
  BY <1>1 DEF Makes, Keeps
<1>3. AfterRelease(a) \in {"accept", "unreserve", "done"}
  BY AfterReleasePlaces DEF Actor
<1>4. CASE closeInternal(a) /\ lifecycle = "STOPPED"
  BY <1>1, <1>3, <1>4 DEF closeInternal, outside, lifecycleVars, publicationVars, GoTo, EngineStep,
     Leaves, Disposes, Cleans, Makes, Keeps
<1>5. CASE closeInternal(a) /\ lifecycle # "STOPPED"
  <2>1. Detaches(a)
    BY <1>1, <1>5 DEF closeInternal, detach, Take, GoTo, Detaches, Unconcerned, Disposes, Cleans,
       Keeps, coordinator!stopAdmissions
  <2> QED BY <2>1 DEF EngineStep
<1>6. CASE shutdownJobs(a) \/ shutdownExecutors(a)
  BY <1>1, <1>6 DEF shutdownJobs, shutdownExecutors, lifecycleVars, publicationVars, GoTo, Cleanup,
     EngineStep, Leaves, Disposes, Cleans, Makes, Keeps
<1>7. CASE closeDetached(a)
  <2>1. Closes(a)
    BY <1>1, <1>7 DEF closeDetached, closeEngine, outside, lifecycleVars, publicationVars, GoTo,
       Closes, Disposes, Cleans, Disposal
  <2> QED BY <2>1 DEF EngineStep
<1>8. CASE finishClose(a)
  BY <1>1, <1>3, <1>8 DEF finishClose, publicationVars, Take, GoTo, EngineStep, Finishes
<1> QED BY <1>4, <1>5, <1>6, <1>7, <1>8 DEF CloseStep

\* The end of a lease.
LEMMA ReleaseEngineStep ==
    ASSUME Leases, Types, NEW a \in Op \cup Job, removeLease(a) \/ operationCompleted(a)
    PROVE  Leaves(a) \/ UNCHANGED <<at, hold, engine, activeEngine, cleanupInProgress>>
<1>1. CASE removeLease(a)
  BY <1>1 DEF removeLease, lifecycleVars, publicationVars, actorVars
<1>2. CASE operationCompleted(a)
  <2>1. at[a] = "closing"
    BY <1>2, ActorAssumption DEF operationCompleted, coordinator!afterRelease, coordinator!mayNotify, Leases,
       OpFits, JobFits
  <2>2. AfterRelease(a) \in {"accept", "unreserve", "done"} /\ a \in Actor
        /\ at \in [Actor -> OpPlace \cup JobPlace \cup LoaderPlace] /\ a # Loader
    BY AfterReleasePlaces, ActorAssumption DEF Actor, Leases, Places
  <2> QED BY <1>2, <2>1, <2>2 DEF operationCompleted, lifecycleVars, publicationVars, GoTo,
          Leaves, Disposes, Cleans, Makes, Keeps
<1> QED BY <1>1, <1>2

LEMMA OpEngineStep ==
    ASSUME Leases, Types, Disposal, Making, Borrowing, NEW o \in Op, OpActs(o)
    PROVE  EngineStep(o) \/ UNCHANGED <<at, hold, engine, activeEngine, cleanupInProgress>>
<1>1. /\ at \in [Actor -> OpPlace \cup JobPlace \cup LoaderPlace] /\ kind \in [Op -> OpKind]
      /\ hold \in [Actor -> Engine \cup {None}] /\ engine \in [Engine -> {"none", "open", "closed"}]
      /\ o \in Actor /\ o # Loader /\ o \in Engine /\ o \notin Job
  BY ActorAssumption DEF Leases, Places, Types, Actor, Engine
<1>2. CASE Starts(o)
  <2>1. /\ at[o] = "idle" /\ UNCHANGED <<engine, activeEngine, cleanupInProgress>>
        /\ hold'[o] \in {hold[o], activeEngine}
        /\ at'[o] \in {"capture", "use", "snapshot", "read", "save", "stage", "accept", "unreserve",
                       "shutdownSave"}
    BY <1>1, <1>2
     DEF Starts, Calls, withPrimaryClassRead, withExclusiveMappingExport, withEngineRead,
         withPrimarySymbolRead, withQueryRead, withTemporaryAnalysis, readPublished, saveProject,
         withExclusiveEdit, rebuild, reserveShutdown, reserveShutdownSave, outside,
         publicationVars, lifecycleVars, Take, GoTo
  <2> QED BY <1>1, <2>1 DEF EngineStep, Leaves, Disposes, Cleans, Makes, Keeps
<1>3. CASE \/ captureEngine(o) \/ useEnds(o) \/ snapshotEnds(o) \/ readRepository(o)
           \/ recheckEpoch(o) \/ saved(o) \/ release(o)
           \/ shutdownSave(o) \/ acceptShutdown(o) \/ unreserve(o) \/ signalRefused(o)
           \/ restore(o)
  <2>1. /\ UNCHANGED <<engine, activeEngine, cleanupInProgress>>
        /\ hold'[o] \in {hold[o], activeEngine, None}
        /\ at[o] \in {"capture", "use", "snapshot", "read", "check", "save", "release",
                      "shutdownSave", "accept", "unreserve", "signal", "restore"}
        /\ at'[o] \in {"use", "release", "create", "read", "check", "returned", "done", "closing",
                       "unreserve", "signal"}
        /\ at'[o] = "create" => at[o] = "snapshot"
    BY <1>1, <1>3 DEF captureEngine, useEnds, snapshotEnds, readRepository, recheckEpoch, saved,
       release, shutdownSave, acceptShutdown, unreserve, signalRefused, restore, outside,
       publicationVars, lifecycleVars, Take, GoTo
  <2> QED BY <1>1, <2>1 DEF EngineStep, Leaves, Disposes, Cleans, Makes, Keeps
<1>4. CASE createTemporary(o) \/ stage(o)
  <2>1. /\ at[o] \in {"create", "stage"} /\ UNCHANGED <<activeEngine, cleanupInProgress, hold>>
        /\ \/ /\ UNCHANGED engine
              /\ at'[o] \in {"release", "restore", "fatal"}
              /\ at'[o] = "fatal" => at[o] = "stage"
           \/ /\ engine' = [engine EXCEPT ![o] = "open"]
              /\ at'[o] \in {"publish", "discard", "fatal"}
    <3>1. CASE createTemporary(o)
      BY <1>1, <3>1 DEF createTemporary, outside, publicationVars, lifecycleVars, GoTo
    <3>2. CASE stage(o)
      BY <1>1, <3>2 DEF stage, outside, publicationVars, lifecycleVars, Failed
    <3> QED BY <1>4, <3>1, <3>2
  <2>2. CASE UNCHANGED engine /\ at'[o] \in {"release", "restore", "fatal"}
             /\ (at'[o] = "fatal" => at[o] = "stage")
    BY <1>1, <2>1, <2>2 DEF EngineStep, Leaves, Disposes, Cleans, Makes, Keeps
  <2>3. CASE engine' = [engine EXCEPT ![o] = "open"] /\ at'[o] \in {"publish", "discard", "fatal"}
    BY <1>1, <2>1, <2>3 DEF EngineStep, Creates, Unconcerned, Disposes, Cleans, Makes, Keeps
  <2> QED BY <2>1, <2>2, <2>3
<1>5. CASE publishReplacement(o)
  <2>1. CASE mayPublish(o) /\ activeEngine' = o /\ GoTo(o, "closeOld")
    BY <1>1, <1>5, <2>1 DEF publishReplacement, mayPublish, GoTo, EngineStep, Installs, Unconcerned,
       Disposes, Cleans, Makes
  <2>2. CASE /\ at' \in {[at EXCEPT ![o] = p] : p \in {"discard", "fatal"}}
             /\ UNCHANGED <<publicationVars, lifecycle>>
    <3>1. engine[o] = "open" /\ at[o] = "publish" /\ at'[o] \in {"discard", "fatal"}
      BY <1>1, <1>5, <2>2 DEF publishReplacement, Making
    <3>2. UNCHANGED <<engine, hold, activeEngine, cleanupInProgress>>
      BY <1>5, <2>2 DEF publishReplacement, publicationVars
    <3> QED BY <1>1, <3>1, <3>2 DEF EngineStep, Leaves, Disposes, Cleans, Makes, Keeps
  <2> QED BY <1>5, <2>1, <2>2 DEF publishReplacement
<1>6. CASE closeOld(o)
  <2>1. at[o] = "closeOld" /\ hold[o] # None
    BY <1>1, <1>6 DEF closeOld, Disposal
  <2> QED BY <1>1, <1>6, <2>1 DEF closeOld, closeEngine, Take, GoTo, outside, publicationVars, lifecycleVars,
          EngineStep, Closes, Disposes, Cleans
<1>7. CASE discard(o)
  <2>1. Failed(o) \in {"restore", "release"}
    BY DEF Failed
  <2> QED BY <1>1, <1>7, <2>1 DEF discard, closeEngine, Take, GoTo, outside, publicationVars, lifecycleVars,
          EngineStep, Discards, Unconcerned, Disposes, Cleans, Makes
<1>8. CASE reportFatalRebuild(o)
  <2>1. at[o] \in {"fatal", "report"} /\ detachable = None
    BY <1>8, ExclusiveInUse DEF reportFatalRebuild, Exclusive, detachable
  <2>2. /\ UNCHANGED <<engine, hold, activeEngine, cleanupInProgress>>
        /\ at'[o] \in {"discard", "restore", "release"}
        /\ at'[o] = "discard" <=> at[o] = "fatal" /\ engine[o] = "open"
    BY <1>1, <1>8, <2>1 DEF reportFatalRebuild, Failed, GoTo
  <2> QED BY <1>1, <2>1, <2>2 DEF EngineStep, Leaves, Disposes, Cleans, Makes, Keeps
<1>9. CASE LeaseStep(o)
  BY <1>1, <1>9, CloseEngineStep, ReleaseEngineStep DEF LeaseStep, EngineStep
<1> QED BY <1>2, <1>3, <1>4, <1>5, <1>6, <1>7, <1>8, <1>9 DEF OpActs, OpStep

LEMMA JobEngineStep ==
    ASSUME Leases, Types, Disposal, NEW j \in Job, JobActs(j)
    PROVE  EngineStep(j) \/ UNCHANGED <<at, hold, engine, activeEngine, cleanupInProgress>>
<1>1. /\ at \in [Actor -> OpPlace \cup JobPlace \cup LoaderPlace]
      /\ hold \in [Actor -> Engine \cup {None}] /\ j \in Actor /\ j # Loader /\ j \notin Engine
  BY ActorAssumption DEF Leases, Places, Types, Actor, Engine
<1>2. CASE prepareJob(j) \/ submitJob(j)
  BY <1>1, <1>2 DEF prepareJob, submitJob, elsewhere, publicationVars, lifecycleVars, GoTo,
     EngineStep, Leaves, Disposes, Cleans
<1>3. CASE admitJob(j)
  BY <1>3 DEF admitJob, actorVars, publicationVars, lifecycleVars
<1>4. CASE captureSearchRead(j) \/ startFails(j) \/ taskReturns(j)
  <2>1. Prepares(j) \/ worker[j] = "running"
    BY <1>4 DEF captureSearchRead, startFails, taskReturns, closesLease, Prepares,
       jobs!captureSucceeds, jobs!captureFails, jobs!abandonStart, jobs!launchRejected,
       jobs!taskReturns
  <2>2. at[j] \in Unclosed
    BY <2>1 DEF Leases, JobFits
  <2>3. /\ UNCHANGED <<engine, activeEngine, cleanupInProgress>>
        /\ hold'[j] \in {hold[j], activeEngine, None}
        /\ at'[j] \in {at[j], "closing"}
    BY <1>1, <1>4 DEF captureSearchRead, startFails, taskReturns, closesLease, elsewhere,
       publicationVars, lifecycleVars, Take, GoTo
  <2> QED BY <1>1, <2>2, <2>3 DEF Unclosed, EngineStep, Leaves, Disposes, Cleans
<1>5. CASE execute(j)
  BY <1>1, <1>5 DEF execute, elsewhere, publicationVars, lifecycleVars,
     EngineStep, Leaves, Disposes, Cleans
<1>6. CASE reportFatalRebuild(j)
  <2>1. CASE detachable # None /\ detach(j) /\ GoTo(j, "cleanup")
    BY <1>1, <1>6, <2>1 DEF reportFatalRebuild, detach, Take, GoTo, EngineStep, Detaches, Unconcerned,
       Disposes, Cleans, coordinator!stopAdmissions
  <2>2. CASE UNCHANGED <<hold, activeEngine, cleanupInProgress>> /\ GoTo(j, "done")
    BY <1>1, <1>6, <2>2 DEF reportFatalRebuild, GoTo, EngineStep, Leaves, Disposes, Cleans
  <2> QED BY <1>6, <2>1, <2>2 DEF reportFatalRebuild
<1>7. CASE LeaseStep(j)
  BY <1>1, <1>7, CloseEngineStep, ReleaseEngineStep DEF LeaseStep, EngineStep
<1> QED BY <1>2, <1>3, <1>4, <1>5, <1>6, <1>7 DEF JobActs, WorkerStep

LEMMA OtherEngineStep ==
    ASSUME Leases, Types, Disposal, Making
    PROVE  /\ LoaderStep => EngineStep(Loader)
           /\ CloserActs => EngineStep(Closer)
           /\ NobodyActs => UNCHANGED <<at, hold, engine, activeEngine, cleanupInProgress>>
<1>1. /\ at \in [Actor -> OpPlace \cup JobPlace \cup LoaderPlace]
      /\ hold \in [Actor -> Engine \cup {None}] /\ engine \in [Engine -> {"none", "open", "closed"}]
      /\ Loader \in Actor /\ Loader \in Engine /\ Loader \notin Op
      /\ Closer \in Actor \ {Loader} /\ Closer \notin Engine
  BY ActorAssumption DEF Leases, Places, Types, Actor, Engine
<1>2. ASSUME LoaderStep PROVE EngineStep(Loader)
  <2>1. CASE taskRuns \/ loadFirst \/ initializationFails \/ taskEnds
    BY <1>1, <2>1 DEF taskRuns, loadFirst, initializationFails, taskEnds, outside, publicationVars,
       lifecycleVars, GoTo, EngineStep, Leaves, Disposes, Cleans, Makes, Keeps, Making
  <2>2. CASE createFirst
    BY <1>1, <2>2 DEF createFirst, outside, publicationVars, lifecycleVars, GoTo, EngineStep, Leaves,
       Creates, Unconcerned, Disposes, Cleans, Makes, Keeps
  <2>3. CASE publishFirst
    BY <1>1, <2>3 DEF publishFirst, publicationVars, GoTo, EngineStep, Leaves, Installs, Unconcerned,
       Disposes, Cleans, Makes, Keeps, Making
  <2>4. CASE discardFirst
    BY <1>1, <2>4 DEF discardFirst, closeEngine, outside, publicationVars, lifecycleVars, GoTo,
       EngineStep, Discards, Unconcerned, Disposes, Cleans, Makes
  <2> QED BY <1>2, <2>1, <2>2, <2>3, <2>4 DEF LoaderStep
<1>3. ASSUME CloserActs PROVE EngineStep(Closer)
  <2>1. CASE close
    BY <1>1, <2>1 DEF close, outside, publicationVars, lifecycleVars, GoTo, EngineStep, Leaves,
       Disposes, Cleans
  <2> QED BY <1>1, <1>3, <2>1, CloseEngineStep DEF CloserActs
<1>4. ASSUME NobodyActs PROVE UNCHANGED <<at, hold, engine, activeEngine, cleanupInProgress>>
  BY <1>4 DEF NobodyActs, initializeAsync, dispatcherGoesOn, jobCalls, vars, actorVars, outside,
     publicationVars, lifecycleVars
<1> QED BY <1>2, <1>3, <1>4

-----------------------------------------------------------------------------
(* Each part of the invariant, over each kind of step.                     *)

LEMMA Bystanders ==
    ASSUME Leases, NEW a \in Actor, OnlyOwn(a), NEW b \in Actor \ {a}
    PROVE  /\ at'[b] = at[b] /\ hold'[b] = hold[b]
           /\ Disposes(b)' <=> Disposes(b)
           /\ Cleans(b)' <=> Cleans(b)
           /\ Makes(b)' <=> Makes(b)
           /\ Keeps(b)' <=> Keeps(b)
<1>1. at'[b] = at[b] /\ hold'[b] = hold[b]
  BY DEF OnlyOwn, OnlyMoves
<1> QED BY <1>1 DEF Disposes, Cleans, Makes, Keeps

\* Engines have the names of actors, and None is no engine.
LEMMA EngineNames ==
    ASSUME Types
    PROVE  /\ Engine \subseteq Actor /\ None \notin Engine
           /\ engine \in [Engine -> {"none", "open", "closed"}]
           /\ hold \in [Actor -> Engine \cup {None}] /\ activeEngine \in Engine \cup {None}
BY ActorAssumption DEF Types, Engine, Actor

LEMMA MakingNext ==
    ASSUME Leases, Leases', Types, Making, NEW a \in Actor, OnlyOwn(a), EngineStep(a)
    PROVE  Making'
<1>1. /\ Engine \subseteq Actor /\ None \notin Engine
      /\ engine \in [Engine -> {"none", "open", "closed"}]
  BY EngineNames
<1>2. /\ detachable \in {activeEngine, None}
      /\ \A b \in Actor : hold'[b] \in {hold[b], None, activeEngine}
  <2>1. detachable \in {activeEngine, None}
    BY DEF detachable
  <2>2. hold'[a] \in {hold[a], None, activeEngine}
    BY <2>1 DEF EngineStep, Leaves, Creates, Discards, Installs, Detaches, Closes, Finishes
  <2> QED BY <2>1, <2>2, Bystanders
<1>3. \A e \in Engine : Makes(e)' => Makes(e) /\ activeEngine' # e
  <2>1. ASSUME a \in Engine, Makes(a)' PROVE Makes(a) /\ (activeEngine' # a \/ activeEngine = a)
    <3>1. CASE Leaves(a)
      BY <2>1, <3>1 DEF Leaves
    <3>2. CASE Creates(a) \/ Discards(a) \/ Installs(a)
      BY <2>1, <3>2, <1>1 DEF Creates, Discards, Installs
    <3>3. CASE Detaches(a) \/ Closes(a) \/ Finishes(a)
      BY <2>1, <3>3 DEF Detaches, Closes, Finishes, Makes, Disposes, Leases, Places, MayBeAt, LoaderPlace
    <3> QED BY <3>1, <3>2, <3>3 DEF EngineStep
  <2>2. activeEngine' \in {activeEngine, None} \/ (activeEngine' = a /\ ~ Makes(a)')
    BY DEF EngineStep, Leaves, Creates, Discards, Installs, Detaches, Closes, Finishes
  <2>3. ASSUME NEW e \in Engine, Makes(e)' PROVE Makes(e)
    BY <1>1, <2>1, <2>3, Bystanders
  <2>4. ASSUME NEW e \in Engine, Makes(e)' PROVE activeEngine' # e
    BY <1>1, <2>2, <2>3, <2>4 DEF Making
  <2> QED BY <2>3, <2>4
<1>4. \A e \in Engine : at'[e] \in {"load", "publish", "discard"} => engine'[e] = "open"
  <2>1. ASSUME a \in Engine, at'[a] \in {"load", "publish", "discard"} PROVE engine'[a] = "open"
    <3>1. CASE Leaves(a)
      BY <2>1, <3>1 DEF Leaves
    <3>2. CASE Creates(a)
      BY <1>1, <2>1, <3>2 DEF Creates
    <3>3. CASE Discards(a) \/ Installs(a)
      <4>1. ~ Makes(a)'
        BY <3>3 DEF Discards, Installs
      <4>2. a \in Op => at'[a] \in OpPlace
        BY DEF Leases, Places, MayBeAt
      <4> QED BY <2>1, <4>1, <4>2 DEF Engine, Makes, OpPlace, UnderLease, InClose
    <3>4. CASE Detaches(a) \/ Closes(a) \/ Finishes(a)
      BY <2>1, <3>4 DEF Detaches, Closes, Finishes
    <3> QED BY <3>1, <3>2, <3>3, <3>4 DEF EngineStep
  <2>2. ASSUME NEW e \in Engine \ {a}, at'[e] \in {"load", "publish", "discard"}
        PROVE  engine'[e] = "open"
    <3>1. e \in Actor \ {a} /\ at[e] \in {"load", "publish", "discard"} /\ engine[e] = "open"
      BY <1>1, <2>2, Bystanders DEF Making
    <3>2. CASE Leaves(a) \/ Installs(a) \/ Detaches(a) \/ Finishes(a)
      BY <3>1, <3>2 DEF Leaves, Installs, Detaches, Finishes
    <3>3. CASE Creates(a) \/ Discards(a)
      BY <1>1, <2>2, <3>1, <3>3 DEF Creates, Discards
    <3>4. CASE Closes(a)
      <4>1. e \in Op => at[e] \in OpPlace
        BY DEF Leases, Places, MayBeAt, Actor
      <4>2. Makes(e)
        BY <3>1, <4>1 DEF Engine, Makes, OpPlace, UnderLease, InClose
      <4> QED BY <1>1, <3>1, <3>4, <4>2 DEF Closes, Making
    <3> QED BY <3>2, <3>3, <3>4 DEF EngineStep
  <2> QED BY <2>1, <2>2
<1> QED BY <1>1, <1>2, <1>3, <1>4 DEF Making

LEMMA DisposalNext ==
    ASSUME Leases, Types, ActiveOpen, Making, Disposal, NEW a \in Actor,
           OnlyOwn(a), EngineStep(a)
    PROVE  Disposal'
<1>1. /\ Engine \subseteq Actor /\ None \notin Engine
      /\ engine \in [Engine -> {"none", "open", "closed"}]
      /\ hold \in [Actor -> Engine \cup {None}] /\ activeEngine \in Engine \cup {None}
  BY EngineNames
<1> DEFINE Disposed(b) == engine[hold[b]] = "open" /\ hold[b] # activeEngine
           Apart(b, c) == Disposes(b) /\ Disposes(c) /\ hold[b] = hold[c] => b = c
<1>2. /\ \A b \in Actor : Disposes(b) => Disposed(b) /\ hold[b] \in Engine
      /\ \A b, c \in Actor : Apart(b, c)
  BY <1>1 DEF Disposal, Disposes
<1>3. ASSUME NEW b \in Actor, at'[b] \in {"cleanup", "closeOld"} PROVE hold'[b] # None
  <2>1. CASE b # a
    BY <1>3, <2>1, Bystanders DEF Disposal
  <2>2. CASE b = a
    <3>1. CASE Leaves(a) \/ Closes(a) \/ Finishes(a)
      BY <1>3, <2>2, <3>1 DEF Leaves, Closes, Finishes
    <3>2. CASE Creates(a)
      BY <1>3, <2>2, <3>2 DEF Creates, Keeps
    <3>3. CASE Discards(a)
      BY <1>3, <2>2, <3>3 DEF Discards
    <3>4. CASE Installs(a)
      <4>1. a \in Op /\ at[a] \in Exclusive /\ hold'[a] = activeEngine
        BY <1>3, <2>2, <3>4 DEF Installs, Exclusive
      <4> QED BY <2>2, <4>1, ExclusiveInUse DEF ActiveOpen
    <3>5. CASE Detaches(a)
      BY <1>3, <2>2, <3>5 DEF Detaches
    <3> QED BY <3>1, <3>2, <3>3, <3>4, <3>5 DEF EngineStep
  <2> QED BY <2>1, <2>2
<1>4. CASE Leaves(a)
  <2>1. /\ \A b \in Actor : Disposes(b)' <=> Disposes(b)
        /\ \A b \in Actor : Disposes(b) => hold'[b] = hold[b]
    BY <1>4, Bystanders DEF Leaves
  <2> QED BY <1>2, <1>3, <1>4, <2>1 DEF Leaves, Disposal
<1>5. ASSUME Creates(a) \/ Discards(a) \/ Finishes(a) \/ Closes(a) PROVE Disposal'
  <2>1. ~ Disposes(a)' /\ activeEngine' = activeEngine
    BY <1>5 DEF Creates, Discards, Finishes, Closes, Unconcerned, Disposes
  <2>2. ASSUME NEW b \in Actor, Disposes(b)'
        PROVE  b # a /\ Disposes(b) /\ hold'[b] = hold[b] /\ engine'[hold[b]] = "open"
    <3>1. b # a /\ Disposes(b) /\ hold'[b] = hold[b] /\ hold[b] \in Engine /\ engine[hold[b]] = "open"
      BY <1>2, <2>1, <2>2, Bystanders
    <3>2. CASE Creates(a) \/ Finishes(a)
      BY <1>1, <3>1, <3>2 DEF Creates, Finishes
    <3>3. CASE Discards(a)
      BY <1>1, <3>1, <3>3 DEF Discards, Making
    <3>4. CASE Closes(a)
      BY <1>1, <1>2, <3>1, <3>4 DEF Closes
    <3> QED BY <1>5, <3>1, <3>2, <3>3, <3>4
  <2> QED BY <1>2, <1>3, <2>1, <2>2 DEF Disposal
<1>6. ASSUME Installs(a) \/ Detaches(a) PROVE Disposal'
  <2>1. engine' = engine /\ ~ Disposes(a)
    BY <1>6 DEF Installs, Detaches, Unconcerned
  <2>2. ASSUME Disposes(a)' PROVE hold'[a] = activeEngine /\ activeEngine # None
    <3>1. CASE Installs(a)
      BY <1>1, <2>2, <3>1 DEF Installs, Disposes
    <3>2. CASE Detaches(a)
      BY <2>2, <3>2 DEF Detaches, detachable, Disposes
    <3> QED BY <1>6, <3>1, <3>2
  <2>3. ASSUME Disposes(a)' PROVE activeEngine' # activeEngine
    <3>1. CASE Installs(a)
      <4>1. Makes(a)
        BY <3>1 DEF Installs, Makes
      <4> QED BY <3>1, <4>1 DEF Installs, Making
    <3>2. CASE Detaches(a)
      BY <1>1, <2>2, <2>3, <3>2 DEF Detaches, Disposes
    <3> QED BY <1>6, <3>1, <3>2
  <2>4. ASSUME NEW b \in Actor \ {a}, Disposes(b)'
        PROVE  Disposes(b) /\ hold'[b] = hold[b] /\ hold[b] # activeEngine /\ hold[b] # activeEngine'
    <3>1. Disposes(b) /\ hold'[b] = hold[b] /\ hold[b] # activeEngine /\ hold[b] \in Engine
      BY <1>2, <2>4, Bystanders
    <3>2. CASE Installs(a)
      <4>1. Makes(a)
        BY <3>2 DEF Installs, Makes
      <4> QED BY <3>1, <3>2, <4>1 DEF Installs, Making
    <3>3. CASE Detaches(a)
      BY <1>1, <3>1, <3>3 DEF Detaches
    <3> QED BY <1>6, <3>1, <3>2, <3>3
  <2>5. ASSUME NEW b \in Actor, Disposes(b)'
        PROVE  engine'[hold'[b]] = "open" /\ hold'[b] # activeEngine'
    <3>1. CASE b = a
      BY <2>1, <2>2, <2>3, <2>5, <3>1 DEF ActiveOpen
    <3>2. CASE b # a
      BY <1>2, <2>1, <2>4, <2>5, <3>2
    <3> QED BY <3>1, <3>2
  <2>6. ASSUME NEW b \in Actor, NEW c \in Actor, Disposes(b)', Disposes(c)', hold'[b] = hold'[c]
        PROVE  b = c
    BY <1>2, <2>2, <2>4, <2>6
  <2> QED BY <1>3, <2>5, <2>6 DEF Disposal
<1> QED BY <1>4, <1>5, <1>6 DEF EngineStep

LEMMA OwnedNext ==
    ASSUME Leases, Types, ActiveOpen, Making, Disposal, OpenOwned,
           NEW a \in Actor, OnlyOwn(a), EngineStep(a)
    PROVE  OpenOwned'
<1>1. /\ Engine \subseteq Actor /\ None \notin Engine
      /\ engine \in [Engine -> {"none", "open", "closed"}]
      /\ hold \in [Actor -> Engine \cup {None}] /\ activeEngine \in Engine \cup {None}
  BY EngineNames
<1> SUFFICES ASSUME NEW e \in Engine, engine'[e] = "open"
             PROVE  \/ e = activeEngine' \/ Keeps(e)'
                    \/ \E b \in Actor : Disposes(b)' /\ hold'[b] = e
  BY DEF OpenOwned
<1>2. ASSUME e # a, Keeps(e) PROVE Keeps(e)'
  BY <1>1, <1>2, Bystanders
<1>3. ASSUME NEW b \in Actor \ {a}, Disposes(b), hold[b] = e PROVE Disposes(b)' /\ hold'[b] = e
  BY <1>3, Bystanders
<1>4. engine[e] = "open" => \/ e = activeEngine \/ Keeps(e)
                            \/ \E b \in Actor : Disposes(b) /\ hold[b] = e
  BY DEF OpenOwned
<1>5. CASE Leaves(a)
  <2>1. engine[e] = "open" /\ activeEngine' = activeEngine
    BY <1>5 DEF Leaves
  <2>2. Keeps(e) => Keeps(e)'
    BY <1>2, <1>5, <2>1 DEF Leaves
  <2>3. ASSUME NEW b \in Actor, Disposes(b), hold[b] = e PROVE Disposes(b)' /\ hold'[b] = e
    BY <1>3, <1>5, <2>3 DEF Leaves
  <2> QED BY <1>4, <2>1, <2>2, <2>3
<1>6. ASSUME Creates(a) \/ Discards(a), e # a PROVE e = activeEngine' \/ Keeps(e)'
                    \/ \E b \in Actor : Disposes(b)' /\ hold'[b] = e
  <2>1. engine[e] = "open" /\ activeEngine' = activeEngine /\ ~ Disposes(a)
    BY <1>1, <1>6 DEF Creates, Discards, Unconcerned
  <2> QED BY <1>2, <1>3, <1>4, <1>6, <2>1
<1>7. ASSUME Creates(a) \/ Discards(a), e = a PROVE Keeps(e)'
  BY <1>1, <1>7 DEF Creates, Discards
<1>8. CASE Closes(a)
  <2>1. engine[e] = "open" /\ activeEngine' = activeEngine /\ hold[a] # e
    BY <1>1, <1>8 DEF Closes
  <2>2. ~ (e = a /\ Keeps(e))
    BY <1>8 DEF Closes, Disposes, Keeps
  <2> QED BY <1>2, <1>3, <1>4, <2>1, <2>2
<1>9. CASE Finishes(a)
  <2>1. engine[e] = "open" /\ activeEngine' = activeEngine /\ ~ Disposes(a)
    BY <1>9 DEF Finishes, Disposes
  <2>2. ~ (e = a /\ Keeps(e))
    BY <1>9 DEF Finishes, Keeps
  <2> QED BY <1>2, <1>3, <1>4, <2>1, <2>2
<1>10. CASE Installs(a)
  <2>1. engine[e] = "open" /\ activeEngine' = a /\ ~ Disposes(a)
    BY <1>10 DEF Installs, Unconcerned
  <2>2. CASE e = activeEngine
    <3>1. a \in Op /\ hold'[a] = e /\ at'[a] = "closeOld"
      BY <1>1, <1>10, <2>2 DEF Installs, ActiveOpen
    <3> QED BY <1>1, <3>1 DEF Disposes, Actor
  <2>3. CASE e # activeEngine
    BY <1>2, <1>3, <1>4, <2>1, <2>3
  <2> QED BY <2>2, <2>3
<1>11. CASE Detaches(a)
  <2>1. engine[e] = "open" /\ ~ Disposes(a) /\ (a \in Engine => ~ Keeps(a))
    BY <1>11 DEF Detaches, Unconcerned
  <2>2. CASE e = activeEngine
    <3>1. activeEngine' = activeEngine \/ (hold'[a] = e /\ at'[a] \in {"jobs", "cleanup"})
      BY <1>11, <2>2 DEF Detaches, detachable
    <3> QED BY <1>1, <2>2, <3>1 DEF Disposes
  <2>3. CASE e # activeEngine
    BY <1>2, <1>3, <1>4, <2>1, <2>3
  <2> QED BY <2>2, <2>3
<1> QED BY <1>5, <1>6, <1>7, <1>8, <1>9, <1>10, <1>11 DEF EngineStep

\* Nobody is admitted, and no lease changes its request, unless READY.
LEMMA AdmittedWhenReady ==
    ASSUME [Next]_vars
    PROVE  lifecycle = "READY" \/ (active' \subseteq active /\ request' = request)
<1>1. ASSUME NEW o \in Op, Starts(o) PROVE lifecycle = "READY"
  BY <1>1
     DEF Starts, withPrimaryClassRead, withExclusiveMappingExport, withEngineRead,
         withPrimarySymbolRead, withQueryRead, withTemporaryAnalysis, readPublished, saveProject,
         withExclusiveEdit, rebuild, reserveShutdown, reserveShutdownSave, admit, requireReady
<1>2. ASSUME NEW o \in Op, OpStep(o) PROVE active' \subseteq active /\ request' = request
  BY <1>2
     DEF OpStep, captureEngine, useEnds, snapshotEnds, createTemporary, readRepository,
         recheckEpoch, saved, stage, publishReplacement, closeOld, discard, restore,
         reportFatalRebuild, release, shutdownSave, acceptShutdown, unreserve, signalRefused,
         outside, coordinatorVars, coordinator!finishSnapshotCapture, coordinator!close,
         coordinator!stopAdmissions
<1>3. ASSUME NEW a \in Actor, LeaseStep(a) PROVE active' \subseteq active /\ request' = request
  BY <1>3
     DEF LeaseStep, removeLease, operationCompleted, CloseStep, closeInternal,
         shutdownJobs, shutdownExecutors, closeDetached, finishClose, outside, coordinatorVars,
         coordinator!remove, coordinator!afterRelease, coordinator!stopAdmissions
<1>4. ASSUME NEW j \in Job, JobActs(j)
      PROVE  lifecycle = "READY" \/ (active' \subseteq active /\ request' = request)
  <2>1. CASE admitJob(j)
    BY <2>1 DEF admitJob, requireReady, coordinatorVars
  <2>2. CASE ~ admitJob(j) /\ ~ LeaseStep(j)
    BY <1>4, <2>2 DEF JobActs, prepareJob, submitJob, captureSearchRead, startFails, WorkerStep,
       taskReturns, execute, reportFatalRebuild, closesLease, coordinatorVars, coordinator!close,
       coordinator!stopAdmissions
  <2> QED BY <1>3, <2>1, <2>2 DEF Actor
<1>5. CASE LoaderStep \/ NobodyActs
  BY <1>5 DEF LoaderStep, taskRuns, createFirst, loadFirst, publishFirst, initializationFails,
     discardFirst, taskEnds, NobodyActs, initializeAsync, dispatcherGoesOn, jobCalls, vars,
     outside, coordinatorVars
<1>6. CASE CloserActs
  BY <1>6 DEF CloserActs, close, CloseStep, closeInternal, shutdownJobs, shutdownExecutors,
     closeDetached, finishClose, outside, coordinatorVars, coordinator!stopAdmissions
<1> QED BY <1>1, <1>2, <1>3, <1>4, <1>5, <1>6, WhoActs DEF OpActs, Actor

LEMMA ActiveNext ==
    ASSUME Leases, Types, ActiveOpen, Making, Disposal, [Next]_vars,
           NEW a \in Actor, OnlyOwn(a), EngineStep(a)
    PROVE  ActiveOpen'
<1>1. /\ None \notin Engine
      /\ engine \in [Engine -> {"none", "open", "closed"}]
      /\ hold \in [Actor -> Engine \cup {None}] /\ activeEngine \in Engine \cup {None}
  BY EngineNames
<1>2. activeEngine' # None => engine'[activeEngine'] = "open"
  <2>1. CASE Leaves(a) \/ Creates(a) \/ Finishes(a) \/ Detaches(a)
    BY <1>1, <2>1 DEF ActiveOpen, Leaves, Creates, Finishes, Detaches
  <2>2. CASE Discards(a)
    BY <1>1, <2>2 DEF ActiveOpen, Discards, Making
  <2>3. CASE Closes(a)
    BY <1>1, <2>3 DEF ActiveOpen, Closes, Disposal
  <2>4. CASE Installs(a)
    BY <2>4 DEF Installs, Making
  <2> QED BY <2>1, <2>2, <2>3, <2>4 DEF EngineStep
<1>3. lifecycle' = "LOADING" => activeEngine' = None
  <2>1. lifecycle' = "LOADING" => lifecycle = "LOADING"
    BY EpochGrows
  <2>2. lifecycle' = "LOADING" => activeEngine' \in {activeEngine, None}
    BY DEF EngineStep, Leaves, Creates, Discards, Installs, Detaches, Closes, Finishes
  <2> QED BY <2>1, <2>2 DEF ActiveOpen
<1>4. ASSUME lifecycle' \in {"READY", "RELOADING"} \/ coordinator!primaryEngineInUse'
      PROVE  activeEngine' # None
  <2>1. CASE Installs(a)
    BY <1>1, <2>1 DEF Installs
  <2>2. CASE Detaches(a) /\ detachable # None
    <3>1. ~ coordinator!primaryEngineInUse
      BY <2>2 DEF detachable
    <3>2. UNCHANGED <<active, request>> /\ lifecycle' \notin {"READY", "RELOADING"}
      BY <2>2 DEF Detaches
    <3> QED BY <1>4, <3>1, <3>2 DEF coordinator!primaryEngineInUse
  <2>3. CASE ~ Installs(a) /\ ~ (Detaches(a) /\ detachable # None)
    <3>1. activeEngine' = activeEngine
      BY <2>3 DEF EngineStep, Leaves, Creates, Discards, Detaches, Closes, Finishes
    <3>2. SUFFICES ASSUME lifecycle \notin {"READY", "RELOADING"}, ~ coordinator!primaryEngineInUse
                   PROVE  activeEngine' # None
      BY <3>1 DEF ActiveOpen
    <3>3. ~ coordinator!primaryEngineInUse'
      BY <3>2, AdmittedWhenReady DEF coordinator!primaryEngineInUse
    <3>4. lifecycle' \in {"READY", "RELOADING"}
      BY <1>4, <3>3
    <3>5. ~ Kept /\ ~ Retreats
      BY <3>2, <3>4 DEF Kept, Retreats
    <3>6. ASSUME NEW o \in Op PROVE ~ Republishes(o) /\ ~ Restores(o) /\ ~ Unpublishes(o)
      BY <3>2, <3>6, ExclusiveInUse DEF Republishes, Restores, Unpublishes, Exclusive
    <3>7. PublishesFirst
      BY <3>5, <3>6, WhoActs, OpPublishes, OthersPublish
    <3> QED BY <1>1, <3>7 DEF PublishesFirst, Engine
  <2> QED BY <2>1, <2>2, <2>3
<1> QED BY <1>2, <1>3, <1>4 DEF ActiveOpen

\* Whoever works with the engine holds a lease for it.
LEMMA WorkersUse ==
    ASSUME Leases, NEW b \in Op \cup Job, Works(b)
    PROVE  b \in active /\ request[b].category \in Primary /\ request[b] # None
<1>1. CASE b \in Running
  BY <1>1, RunningUses DEF Leases, Table
<1>2. CASE b \in Op /\ at[b] \in {"stage", "publish"}
  BY <1>2, HeldOnAProject DEF UnderLease, Leases, OpFits, Exclusive, Primary, Table
<1>3. CASE b \in Op /\ at[b] = "use" /\ request[b].category \in Primary
  BY <1>3, HeldOnAProject DEF UnderLease, Leases, Table
<1> QED BY <1>1, <1>2, <1>3 DEF Works

\* A step of an operation that then works with an engine.
LEMMA OpWorksSince ==
    ASSUME Leases, Types, NEW o \in Op, OpActs(o), Works(o)'
    PROVE  \/ Works(o) /\ hold'[o] = hold[o]
           \/ hold'[o] = activeEngine /\ activeEngine' = activeEngine
<1>1. /\ at \in [Actor -> OpPlace \cup JobPlace \cup LoaderPlace]
      /\ hold \in [Actor -> Engine \cup {None}] /\ request \in [Holder -> Requests \cup {None}]
      /\ o \in Actor /\ o \notin Job /\ o \in Holder
  BY ActorAssumption DEF Leases, Places, Types, Actor, Table, Holder
<1>2. at'[o] \in {"stage", "publish"} \/ (at'[o] = "use" /\ request'[o].category \in Primary)
  BY <1>1 DEF Works, Running
<1>3. CASE withQueryRead(o)
  <2>1. at'[o] = "use"
    BY <1>1, <1>3 DEF withQueryRead, GoTo
  <2>2. PICK key \in Key : coordinator!tryAdmit(o, Asks("QUERY_READ", key))
    BY <1>3 DEF withQueryRead, admit
  <2>3. request'[o].category = "QUERY_READ"
    BY <1>1, <2>2 DEF coordinator!tryAdmit, Asks
  <2> QED BY <1>2, <2>1, <2>3 DEF Primary
<1>4. CASE Starts(o) /\ ~ withQueryRead(o)
  <2>1. \/ at'[o] \notin {"stage", "publish", "use"}
        \/ hold'[o] = activeEngine /\ activeEngine' = activeEngine
    BY <1>1, <1>4
     DEF Starts, withPrimaryClassRead, withExclusiveMappingExport, withEngineRead,
         withPrimarySymbolRead, withTemporaryAnalysis, readPublished, saveProject,
         withExclusiveEdit, rebuild, reserveShutdown, reserveShutdownSave,
         publicationVars, Take, GoTo
  <2> QED BY <1>2, <2>1
<1>5. CASE OpStep(o)
  <2>1. CASE captureEngine(o)
    BY <1>1, <2>1 DEF captureEngine, outside, publicationVars, Take
  <2>2. CASE stage(o)
    BY <1>1, <2>2 DEF stage, Works
  <2>3. CASE ~ captureEngine(o) /\ ~ stage(o)
    <3>1. at'[o] \notin {"stage", "publish", "use"}
      BY <1>1, <1>5, <2>3
       DEF OpStep, useEnds, snapshotEnds, createTemporary, readRepository,
           recheckEpoch, saved, publishReplacement, closeOld, discard, restore,
           reportFatalRebuild, release, shutdownSave, acceptShutdown, unreserve, signalRefused,
           GoTo, Failed
    <3> QED BY <1>2, <3>1
  <2> QED BY <2>1, <2>2, <2>3
<1>6. CASE LeaseStep(o)
  <2>1. CASE removeLease(o)
    BY <1>2, <2>1 DEF removeLease, actorVars, coordinator!remove, Works
  <2>2. CASE operationCompleted(o) \/ CloseStep(o)
    <3>1. at'[o] \notin {"stage", "publish", "use"}
      BY <1>1, <2>2 DEF operationCompleted, CloseStep, closeInternal, shutdownJobs,
         shutdownExecutors, closeDetached, finishClose, GoTo, AfterRelease, Cleanup
    <3> QED BY <1>2, <3>1
  <2> QED BY <1>6, <2>1, <2>2 DEF LeaseStep
<1> QED BY <1>3, <1>4, <1>5, <1>6 DEF OpActs

LEMMA JobWorksSince ==
    ASSUME Leases, Types, [Next]_vars, NEW j \in Job, Works(j)'
    PROVE  \/ Works(j) /\ hold'[j] = hold[j]
           \/ hold'[j] = activeEngine /\ activeEngine' = activeEngine
<1>1. /\ hold \in [Actor -> Engine \cup {None}] /\ worker \in [Job -> WorkerState]
      /\ j \in Actor /\ j \notin Op /\ j # Loader /\ j # Closer
  BY ActorAssumption DEF Leases, Hand, Types, Actor
<1>2. j \in Running'
  BY <1>1 DEF Works
<1>3. CASE captureSearchRead(j) /\ mayCapture(j)
  BY <1>1, <1>3 DEF captureSearchRead, elsewhere, publicationVars, Take
<1>4. CASE j \in Running /\ ~ captureSearchRead(j)
  <2>1. at[j] \in Unclosed
    BY <1>4 DEF Leases, JobFits, Running, Prepares
  <2>2. CASE JobActs(j)
    <3>1. ~ startFails(j)
      <4>1. SUFFICES ASSUME startFails(j) PROVE FALSE
        OBVIOUS
      <4>2. disp \in {"abandon", "launch"} /\ cur = j /\ disp' = "fail" /\ worker' = worker
        BY <4>1 DEF startFails, closesLease, jobs!abandonStart, jobs!launchRejected
      <4>3. worker[j] = "none"
        BY <4>2 DEF Leases, JobFits, Prepares
      <4> QED BY <1>2, <4>2, <4>3 DEF Running
    <3>2. ~ taskReturns(j)
      <4>1. SUFFICES ASSUME taskReturns(j) PROVE FALSE
        OBVIOUS
      <4>2. /\ worker[j] = "running" /\ UNCHANGED <<disp, cur>>
            /\ \E outcome \in {"succeeded", "failed", "cancelled"} :
                  worker' = [worker EXCEPT ![j] = outcome]
        BY <4>1 DEF taskReturns, closesLease, jobs!taskReturns, jobs!Outcome, jobs!dispatchVars
      <4>3. ~ Prepares(j)
        BY <4>2 DEF Leases, JobFits
      <4> QED BY <1>1, <1>2, <4>2, <4>3 DEF Running, Prepares
    <3>3. hold' = hold
      BY <1>4, <2>1, <2>2, <3>1, <3>2
       DEF JobActs, prepareJob, submitJob, admitJob, WorkerStep, execute, reportFatalRebuild, LeaseStep,
           removeLease, operationCompleted, CloseStep, closeInternal, shutdownJobs,
           shutdownExecutors, closeDetached, finishClose, actorVars, Unclosed
    <3> QED BY <1>4, <3>3 DEF Works
  <2>3. CASE hold'[j] = hold[j]
    BY <1>4, <2>3 DEF Works
  <2> QED BY <1>1, <2>2, <2>3, WhoMoves DEF OnlyOwn, NobodyMoves
<1>5. CASE captureSearchRead(j) /\ ~ mayCapture(j)
  <2>1. disp = "capture" /\ disp' = "fail" /\ cur = j /\ worker' = worker
    BY <1>5 DEF captureSearchRead, jobs!captureFails
  <2>2. worker[j] = "none"
    BY <2>1 DEF Leases, JobFits, Prepares
  <2> QED BY <1>2, <2>1, <2>2 DEF Running
<1> QED BY <1>2, <1>3, <1>4, <1>5, RunsSince

\* What was asked for stays, until and after the release.
LEMMA RequestStays ==
    ASSUME Leases, [Next]_vars, NEW l \in Holder, request[l] # None
    PROVE  request'[l] = request[l]
<1>1. CoordinatorStep
  BY StepsInCoordinator
<1>2. request \in [Holder -> Requests \cup {None}]
  BY DEF Leases, Table
<1> QED BY <1>1, <1>2
        DEF CoordinatorStep, coordinatorVars, coordinator!tryAdmit, coordinator!Granted,
            coordinator!finishSnapshotCapture, coordinator!close, coordinator!remove,
            coordinator!afterRelease, coordinator!stopAdmissions

LEMMA UsingNext ==
    ASSUME Leases, Types, Using, [Next]_vars
    PROVE  Using'
<1> SUFFICES ASSUME NEW o \in Op, at'[o] = "use"
             PROVE  request'[o].category \in Primary \cup {"QUERY_READ"}
  BY DEF Using
<1>1. /\ at \in [Actor -> OpPlace \cup JobPlace \cup LoaderPlace]
      /\ request \in [Holder -> Requests \cup {None}]
      /\ o \in Actor /\ o \in Holder /\ o \notin Job /\ o # Loader /\ o # Closer
  BY ActorAssumption DEF Leases, Places, Actor, Table, Holder
<1>2. CASE at[o] \in {"use", "capture"}
  <2>1. request[o] # None /\ request[o].category \in Primary \cup {"QUERY_READ"}
    BY <1>2, HeldOnAProject DEF UnderLease, Leases, Table, OpFits, Using
  <2> QED BY <1>1, <2>1, RequestStays
<1>3. CASE at[o] \notin {"use", "capture"}
  <2>1. OpActs(o)
    BY <1>1, <1>3, WhoMoves DEF OnlyOwn, OnlyMoves, NobodyMoves
  <2>2. Starts(o)
    <3>1. ~ OpStep(o)
      BY <1>1, <1>3
       DEF OpStep, captureEngine, useEnds, snapshotEnds, createTemporary, readRepository,
           recheckEpoch, saved, stage, publishReplacement, closeOld, discard, restore,
           reportFatalRebuild, release, shutdownSave, acceptShutdown, unreserve, signalRefused,
           GoTo, Failed
    <3>2. ~ LeaseStep(o)
      BY <1>1, <1>3 DEF LeaseStep, removeLease, operationCompleted, CloseStep, closeInternal,
         shutdownJobs, shutdownExecutors, closeDetached, finishClose, actorVars, GoTo,
         AfterRelease, Cleanup
    <3> QED BY <2>1, <3>1, <3>2 DEF OpActs
  <2>3. withPrimarySymbolRead(o) \/ withQueryRead(o)
    BY <1>1, <1>3, <2>2
     DEF Starts, Calls, withPrimaryClassRead, withExclusiveMappingExport, withEngineRead,
         withTemporaryAnalysis, readPublished, saveProject,
         withExclusiveEdit, rebuild, reserveShutdown, reserveShutdownSave, GoTo
  <2>4. PICK category \in {"CLASS_READ", "QUERY_READ"}, key \in Key :
            coordinator!tryAdmit(o, Asks(category, key))
    BY <2>3 DEF withPrimarySymbolRead, withQueryRead, admit
  <2>5. request'[o].category = category
    BY <1>1, <2>4 DEF coordinator!tryAdmit, Asks
  <2> QED BY <2>5 DEF Primary
<1> QED BY <1>2, <1>3

LEMMA BorrowingNext ==
    ASSUME Leases, Types, ActiveOpen, Making, Disposal, Borrowing, [Next]_vars,
           NEW a \in Actor, OnlyOwn(a), EngineStep(a), a \in Op => OpActs(a)
    PROVE  Borrowing'
<1> SUFFICES ASSUME NEW b \in Op \cup Job, Works(b)' PROVE hold'[b] = activeEngine'
  BY DEF Borrowing
<1>1. \/ Works(b) /\ hold'[b] = hold[b]
      \/ hold'[b] = activeEngine /\ activeEngine' = activeEngine
  <2>1. CASE b \in Job
    BY <2>1, JobWorksSince
  <2>2. CASE b \in Op /\ b = a
    BY <2>2, OpWorksSince
  <2>3. CASE b \in Op /\ b # a
    <3>1. /\ at'[b] = at[b] /\ hold'[b] = hold[b] /\ b \notin Job
      BY <2>3, Bystanders, ActorAssumption DEF Actor
    <3>2. CASE at[b] \in {"stage", "publish"}
      BY <2>3, <3>1, <3>2 DEF Works
    <3>3. CASE at[b] = "use" /\ request'[b].category \in Primary
      <4>1. request[b] # None
        BY <2>3, <3>3, HeldOnAProject DEF UnderLease, Leases, Table
      <4>2. request'[b] = request[b]
        BY <4>1, RequestStays DEF Holder
      <4> QED BY <2>3, <3>1, <3>3, <4>2 DEF Works
    <3> QED BY <2>3, <3>1, <3>2, <3>3 DEF Works, Running
  <2> QED BY <2>1, <2>2, <2>3
<1>2. CASE Works(b) /\ hold'[b] = hold[b]
  <2>1. b \in active /\ request[b].category \in Primary
    BY <1>2, WorkersUse
  <2>2. coordinator!primaryEngineInUse
    BY <2>1 DEF coordinator!primaryEngineInUse, coordinator!Primary, Primary
  <2>3. ~ Installs(a)
    <3>1. SUFFICES ASSUME Installs(a) PROVE FALSE
      OBVIOUS
    <3>2. lifecycle # "LOADING"
      BY <2>1 DEF Leases, Numbers
    <3>3. a \in Op /\ at[a] \in Exclusive /\ at'[a] = "closeOld"
      BY <3>1, <3>2 DEF Installs, Exclusive
    <3>4. b = a
      BY <2>1, <3>3, ExclusiveInUse
    <3> QED BY <3>3, <3>4, ActorAssumption DEF Works, Running
  <2>4. activeEngine' = activeEngine
    BY <2>2, <2>3 DEF EngineStep, Leaves, Creates, Discards, Detaches, Closes, Finishes, detachable
  <2> QED BY <1>2, <2>4 DEF Borrowing
<1> QED BY <1>1, <1>2

LEMMA CleaningNext ==
    ASSUME Leases, Types, Cleaning, NEW a \in Actor, OnlyOwn(a), EngineStep(a)
    PROVE  Cleaning'
<1>1. ASSUME Cleans(a)' <=> Cleans(a), cleanupInProgress' = cleanupInProgress PROVE Cleaning'
  <2>1. Cleaners' = Cleaners
    BY <1>1, Bystanders DEF Cleaners
  <2> QED BY <1>1, <2>1 DEF Cleaning
<1>2. CASE Leaves(a) \/ Creates(a) \/ Discards(a) \/ Installs(a) \/ Closes(a)
  BY <1>1, <1>2 DEF Leaves, Creates, Discards, Installs, Closes, Unconcerned
<1>3. CASE Detaches(a)
  <2>1. CASE detachable = None
    BY <1>1, <1>3, <2>1 DEF Detaches, Unconcerned, Cleans
  <2>2. CASE detachable # None
    <3>1. Cleans(a)' /\ ~ Cleans(a) /\ cleanupInProgress' = cleanupInProgress + 1
      BY <1>3, <2>2 DEF Detaches, Unconcerned, Cleans
    <3>2. Cleaners' = Cleaners \cup {a} /\ a \notin Cleaners
      BY <3>1, Bystanders DEF Cleaners
    <3>3. IsFiniteSet(Cleaners') /\ Cardinality(Cleaners') = Cardinality(Cleaners) + 1
      BY <3>2, FS_AddElement DEF Cleaning
    <3> QED BY <3>1, <3>3 DEF Cleaning
  <2> QED BY <2>1, <2>2
<1>4. CASE Finishes(a)
  <2>1. CASE hold[a] = None
    BY <1>1, <1>4, <2>1 DEF Finishes, Cleans, left
  <2>2. CASE hold[a] # None
    <3>1. Cleans(a) /\ ~ Cleans(a)' /\ cleanupInProgress' = cleanupInProgress - 1
      BY <1>4, <2>2 DEF Finishes, Cleans, left
    <3>2. Cleaners' = Cleaners \ {a} /\ a \in Cleaners
      BY <3>1, Bystanders DEF Cleaners
    <3>3. IsFiniteSet(Cleaners') /\ Cardinality(Cleaners') = Cardinality(Cleaners) - 1
      BY <3>2, FS_RemoveElement DEF Cleaning
    <3> QED BY <3>1, <3>3 DEF Cleaning
  <2> QED BY <2>1, <2>2
<1> QED BY <1>2, <1>3, <1>4 DEF EngineStep

\* How the initialization task and the lifecycle move on.
InitMoves == \/ init' = init
             \/ init = "none" /\ (init' = "refused" \/ lifecycle = "LOADING")
             \/ init = "QUEUED" /\ init' = "FINISHED"

Halts == /\ active = {} /\ activeEngine = None /\ UNCHANGED <<active, activeEngine>>
         /\ init' \notin {"QUEUED", "RUNNING"} /\ cleanupInProgress' = 0

LEMMA Halting ==
    ASSUME Leases, Types, [Next]_vars
    PROVE  /\ InitMoves \/ LoaderStep
           /\ lifecycle' = "STOPPED" => lifecycle = "STOPPED" \/ Halts
<1>1. ASSUME NEW task, NEW cleanups, quiescent(task, cleanups)
      PROVE  active = {} /\ activeEngine = None /\ task \notin {"QUEUED", "RUNNING"} /\ cleanups = 0
  <2>1. IsFiniteSet(active)
    BY DEF Leases, Table
  <2>2. Cardinality(active) = 0
    BY <1>1 DEF quiescent, coordinator!inFlightCount, coordinator!Cardinality, Cardinality
  <2>3. active = {}
    BY <2>1, <2>2, FS_EmptySet
  <2> QED BY <1>1, <2>3 DEF quiescent
<1>2. ASSUME NEW a \in Actor, CloseStep(a)
      PROVE  InitMoves /\ (lifecycle' = "STOPPED" => lifecycle = "STOPPED" \/ Halts)
  <2>1. CASE finishClose(a)
    <3>1. /\ UNCHANGED <<init, active, activeEngine>> /\ cleanupInProgress' = left(a)
          /\ lifecycle' = IF quiescent(init, left(a)) THEN "STOPPED" ELSE lifecycle
      BY <2>1 DEF finishClose, finishShutdownIfQuiescent, publicationVars, coordinatorVars
    <3> QED BY <1>1, <3>1 DEF InitMoves, Halts
  <2>2. CASE ~ finishClose(a)
    BY <1>2, <2>2 DEF CloseStep, closeInternal, shutdownJobs, shutdownExecutors, closeDetached,
       outside, lifecycleVars, InitMoves
  <2> QED BY <2>1, <2>2
<1>3. CASE LoaderStep
  <2>1. CASE taskEnds
    <3>1. /\ UNCHANGED <<active, activeEngine, cleanupInProgress>> /\ init' = "FINISHED"
          /\ lifecycle' = IF quiescent("FINISHED", cleanupInProgress) THEN "STOPPED" ELSE lifecycle
      BY <2>1 DEF taskEnds, finishShutdownIfQuiescent, publicationVars, coordinatorVars
    <3> QED BY <1>1, <1>3, <3>1 DEF Halts
  <2>2. CASE ~ taskEnds
    BY <1>3, <2>2 DEF LoaderStep, taskRuns, createFirst, loadFirst, publishFirst,
       initializationFails, discardFirst, outside, lifecycleVars
  <2> QED BY <2>1, <2>2
<1>4. ASSUME NEW a \in Op \cup Job, LeaseStep(a)
      PROVE  InitMoves /\ (lifecycle' = "STOPPED" => lifecycle = "STOPPED" \/ Halts)
  <2>1. CASE CloseStep(a)
    BY <1>2, <2>1 DEF Actor
  <2>2. CASE removeLease(a) \/ operationCompleted(a)
    BY <2>2 DEF removeLease, operationCompleted, lifecycleVars, InitMoves
  <2> QED BY <1>4, <2>1, <2>2 DEF LeaseStep
<1>5. ASSUME NEW o \in Op, OpActs(o)
      PROVE  InitMoves /\ (lifecycle' = "STOPPED" => lifecycle = "STOPPED" \/ Halts)
  <2>1. CASE Starts(o)
    BY <2>1
     DEF Starts, withPrimaryClassRead, withExclusiveMappingExport, withEngineRead,
         withPrimarySymbolRead, withQueryRead, withTemporaryAnalysis, readPublished, saveProject,
         withExclusiveEdit, rebuild, reserveShutdown, reserveShutdownSave, outside, lifecycleVars,
         InitMoves
  <2>2. CASE OpStep(o)
    <3>1. init' = init
      BY <2>2
       DEF OpStep, captureEngine, useEnds, snapshotEnds, createTemporary,
           readRepository, recheckEpoch, saved, stage, publishReplacement, closeOld, discard,
           restore, reportFatalRebuild, release, shutdownSave, acceptShutdown, unreserve,
           signalRefused, outside, lifecycleVars
    <3>2. lifecycle' # lifecycle => lifecycle' \in {"READY", "FAILED", "SHUTTING_DOWN"}
      BY <2>2
       DEF OpStep, captureEngine, useEnds, snapshotEnds, createTemporary,
           readRepository, recheckEpoch, saved, stage, publishReplacement, closeOld, discard,
           restore, reportFatalRebuild, release, shutdownSave, acceptShutdown, unreserve,
           signalRefused, outside, lifecycleVars
    <3> QED BY <3>1, <3>2 DEF InitMoves
  <2> QED BY <1>4, <1>5, <2>1, <2>2 DEF OpActs
<1>6. ASSUME NEW j \in Job, JobActs(j)
      PROVE  InitMoves /\ (lifecycle' = "STOPPED" => lifecycle = "STOPPED" \/ Halts)
  <2>1. CASE ~ LeaseStep(j)
    BY <1>6, <2>1 DEF JobActs, prepareJob, submitJob, admitJob, captureSearchRead, startFails,
       WorkerStep, taskReturns, execute, reportFatalRebuild, closesLease, elsewhere,
       lifecycleVars, InitMoves
  <2> QED BY <1>4, <2>1
<1>7. CASE CloserActs
  <2>1. CASE close
    BY <2>1 DEF close, outside, lifecycleVars, InitMoves
  <2> QED BY <1>2, <1>7, <2>1 DEF CloserActs, Actor
<1>8. CASE NobodyActs
  BY <1>8 DEF NobodyActs, initializeAsync, dispatcherGoesOn, jobCalls, vars, outside,
     lifecycleVars, InitMoves
<1> QED BY <1>3, <1>5, <1>6, <1>7, <1>8, WhoActs

\* The initialization task runs as long as the loader is on its way.
LoaderRuns == at[Loader] \in {"create", "load", "publish", "failed", "discard", "end"} =>
                  init = "RUNNING"

LEMMA LoaderRunsNext ==
    ASSUME Leases, Types, LoaderRuns, [Next]_vars
    PROVE  LoaderRuns'
<1>1. /\ at \in [Actor -> OpPlace \cup JobPlace \cup LoaderPlace] /\ Loader \in Actor
      /\ Loader \notin Op /\ Loader \notin Job /\ Loader # Closer
  BY ActorAssumption DEF Leases, Places, Actor
<1>2. CASE LoaderStep
  BY <1>1, <1>2 DEF LoaderStep, taskRuns, createFirst, loadFirst, publishFirst,
     initializationFails, discardFirst, taskEnds, outside, lifecycleVars, GoTo, LoaderRuns
<1>3. CASE ~ LoaderStep
  <2>1. at'[Loader] = at[Loader]
    BY <1>1, <1>3, WhoMoves DEF OnlyOwn, OnlyMoves, NobodyMoves
  <2>2. InitMoves
    BY <1>3, Halting
  <2> QED BY <2>1, <2>2 DEF LoaderRuns, InitMoves
<1> QED BY <1>2, <1>3

\* Once stopped, nothing is taken up again.
Stopped == lifecycle = "STOPPED" => /\ active = {} /\ activeEngine = None
                                    /\ init \notin {"QUEUED", "RUNNING"}
                                    /\ cleanupInProgress = 0

LEMMA StoppedNext ==
    ASSUME Leases, Types, Cleaning, LoaderRuns, Stopped, [Next]_vars,
           NEW a \in Actor, OnlyOwn(a), EngineStep(a)
    PROVE  Stopped'
<1> SUFFICES ASSUME lifecycle' = "STOPPED"
             PROVE  /\ active' = {} /\ activeEngine' = None
                    /\ init' \notin {"QUEUED", "RUNNING"} /\ cleanupInProgress' = 0
  BY DEF Stopped
<1>1. CASE Halts
  BY <1>1 DEF Halts
<1>2. CASE lifecycle = "STOPPED"
  <2>1. /\ active = {} /\ activeEngine = None /\ init \notin {"QUEUED", "RUNNING"}
        /\ cleanupInProgress = 0
    BY <1>2 DEF Stopped
  <2>2. active' = {}
    BY <1>2, <2>1, AdmittedWhenReady
  <2>3. detachable = None
    BY <2>1 DEF detachable
  <2>4. ~ Installs(a)
    <3>1. SUFFICES ASSUME Installs(a) PROVE FALSE
      OBVIOUS
    <3>2. a \in Op /\ at[a] \in Exclusive
      BY <1>2, <3>1 DEF Installs, Exclusive
    <3> QED BY <2>1, <3>2, HeldOnAProject DEF Exclusive, UnderLease
  <2>5. activeEngine' = None
    BY <2>1, <2>3, <2>4 DEF EngineStep, Leaves, Creates, Discards, Detaches, Closes, Finishes
  <2>6. Cleaners = {}
    BY <2>1, FS_EmptySet DEF Cleaning
  <2>7. cleanupInProgress' = 0
    <3>1. CASE Finishes(a)
      <4>1. hold[a] = None
        BY <2>6, <3>1 DEF Finishes, Cleaners, Cleans
      <4> QED BY <2>1, <3>1, <4>1 DEF Finishes, left
    <3> QED BY <2>1, <2>3, <2>4, <3>1 DEF EngineStep, Leaves, Creates, Discards, Detaches, Closes
  <2>8. init' \notin {"QUEUED", "RUNNING"}
    <3>1. ~ LoaderStep \/ init' = init
      BY <2>1 DEF LoaderStep, taskRuns, createFirst, loadFirst, publishFirst,
         initializationFails, discardFirst, taskEnds, outside, lifecycleVars, LoaderRuns
    <3> QED BY <1>2, <2>1, <3>1, Halting DEF InitMoves
  <2> QED BY <2>2, <2>5, <2>7, <2>8
<1> QED BY <1>1, <1>2, Halting

LEMMA StoppingNext ==
    ASSUME Leases, Types, Cleaning, Stopping, [Next]_vars,
           NEW a \in Actor, OnlyOwn(a), EngineStep(a)
    PROVE  Stopping'
<1>1. LoaderRuns /\ Stopped
  BY DEF Stopping, LoaderRuns, Stopped
<1>2. LoaderRuns' /\ Stopped'
  BY <1>1, LoaderRunsNext, StoppedNext
<1> QED BY <1>2 DEF Stopping, LoaderRuns, Stopped

-----------------------------------------------------------------------------
(* All of it, and what follows.                                            *)

\* Every step is some actor's, as far as the engines can tell.
LEMMA WhoSteps ==
    ASSUME Leases, Types, Engines, [Next]_vars
    PROVE  \E a \in Actor : OnlyOwn(a) /\ EngineStep(a) /\ (a \in Op => OpActs(a))
<1>1. /\ Disposal /\ Making /\ Borrowing
      /\ Loader \in Actor /\ Loader \notin Op /\ Closer \in Actor /\ Closer \notin Op
      /\ Op \subseteq Actor /\ Job \subseteq Actor /\ Op \cap Job = {}
  BY ActorAssumption DEF Engines, Actor
<1>2. ASSUME NEW a \in Actor, UNCHANGED <<at, hold, engine, activeEngine, cleanupInProgress>>
      PROVE  EngineStep(a)
  <2>1. /\ at[a] \in {"cleanup", "closeOld"} => hold[a] # None
        /\ a \in Engine => (at[a] \in {"load", "publish", "discard"} => engine[a] = "open")
    BY <1>1 DEF Disposal, Making
  <2> QED BY <1>2, <2>1 DEF EngineStep, Leaves, Disposes, Cleans, Makes, Keeps
<1>3. ASSUME NEW o \in Op, OpActs(o), OnlyOwn(o)
      PROVE  \E a \in Actor : OnlyOwn(a) /\ EngineStep(a) /\ (a \in Op => OpActs(a))
  BY <1>1, <1>2, <1>3, OpEngineStep
<1>4. ASSUME NEW j \in Job, JobActs(j), OnlyOwn(j)
      PROVE  \E a \in Actor : OnlyOwn(a) /\ EngineStep(a) /\ (a \in Op => OpActs(a))
  BY <1>1, <1>2, <1>4, JobEngineStep
<1>5. CASE NobodyActs /\ NobodyMoves
  <2>1. OnlyOwn(Closer)
    BY <1>5 DEF NobodyMoves, OnlyOwn, OnlyMoves
  <2> QED BY <1>1, <1>2, <1>5, <2>1, OtherEngineStep
<1> QED BY <1>1, <1>3, <1>4, <1>5, WhoMoves, OtherEngineStep

LEMMA EnginesNext == Leases /\ Leases' /\ Types /\ Engines /\ [Next]_vars => Engines'
<1> SUFFICES ASSUME Leases, Leases', Types, Engines, [Next]_vars PROVE Engines'
  OBVIOUS
<1>1. PICK a \in Actor : OnlyOwn(a) /\ EngineStep(a) /\ (a \in Op => OpActs(a))
  BY WhoSteps
<1>2. ActiveOpen /\ Disposal /\ Making /\ OpenOwned /\ Borrowing /\ Using /\ Cleaning
      /\ Stopping
  BY DEF Engines
<1>3. ActiveOpen' /\ Disposal' /\ Making' /\ OpenOwned'
  BY <1>1, <1>2, ActiveNext, DisposalNext, MakingNext, OwnedNext
<1>4. Borrowing' /\ Using' /\ Cleaning' /\ Stopping'
  BY <1>1, <1>2, BorrowingNext, UsingNext, CleaningNext, StoppingNext
<1> QED BY <1>3, <1>4 DEF Engines

LEMMA EnginesInit == Init => Engines
<1> SUFFICES ASSUME Init PROVE Engines
  OBVIOUS
<1>1. /\ at = [a \in Actor |-> "idle"] /\ hold = [a \in Actor |-> None]
      /\ engine = [e \in Engine |-> "none"] /\ activeEngine = None /\ lifecycle = "LOADING"
      /\ cleanupInProgress = 0 /\ init = "none" /\ active = {}
  BY DEF Init, coordinator!Init
<1>2. Op \subseteq Actor /\ Job \subseteq Actor /\ Loader \in Actor /\ Engine \subseteq Actor
      /\ None \notin Actor
  BY ActorAssumption DEF Actor, Engine
<1>3. Running = {}
  BY DEF Init, jobs!Init, Running
<1>4. Cleaners = {} /\ Cleaning
  <2>1. Cleaners = {}
    BY <1>1 DEF Cleaners, Cleans
  <2> QED BY <1>1, <2>1, FS_EmptySet DEF Cleaning
<1>5. ActiveOpen /\ Stopping
  BY <1>1, <1>2 DEF ActiveOpen, Stopping, coordinator!primaryEngineInUse
<1>6. Disposal /\ Making /\ OpenOwned
  BY <1>1, <1>2 DEF Disposal, Making, OpenOwned, Disposes
<1>7. Borrowing /\ Using
  BY <1>1, <1>2, <1>3 DEF Borrowing, Works, Using
<1> QED BY <1>4, <1>5, <1>6, <1>7 DEF Engines

LEMMA EnginesInvariance == Spec => [](Leases /\ Types /\ Publication /\ Engines)
<1>1. Leases /\ Types /\ Publication /\ Engines /\ [Next]_vars =>
          Leases' /\ Types' /\ Publication' /\ Engines'
  BY LeasesNext, TypesNext, PublicationNext, EnginesNext
<1> QED BY <1>1, LeasesInit, TypesInit, PublicationInit, EnginesInit, PTL DEF Spec

(* Nobody closes an engine under its user: what an operation or a job      *)
(* works with is the engine that the runtime hands out, and that one is    *)
(* open, whichever replacement, fatal error or shutdown runs meanwhile     *)
(* (closeInternal, reportFatalRebuild, publishReplacement).                *)
THEOREM BorrowedEnginesStayOpen == Spec => []BorrowedEngineOpen
<1>1. Leases /\ Types /\ Engines => BorrowedEngineOpen
  <2> SUFFICES ASSUME Leases, Types, Engines PROVE BorrowedEngineOpen
    OBVIOUS
  <2>1. ASSUME NEW a \in Op \cup Job, Works(a) PROVE hold[a] # None /\ engine[hold[a]] = "open"
    <3>1. a \in active /\ request[a].category \in Primary
      BY <2>1, WorkersUse
    <3>2. activeEngine # None /\ hold[a] = activeEngine
      BY <2>1, <3>1 DEF Engines, ActiveOpen, Borrowing, coordinator!primaryEngineInUse,
         coordinator!Primary, Primary
    <3> QED BY <3>2 DEF Engines, ActiveOpen
  <2>2. ASSUME NEW o \in Op, at[o] = "closeOld" PROVE hold[o] # None /\ engine[hold[o]] = "open"
    <3>1. o \in Actor /\ hold[o] # None
      BY <2>2 DEF Actor, Engines, Disposal
    <3> QED BY <2>2, <3>1 DEF Engines, Disposal, Disposes
  <2>3. ASSUME NEW o \in Op, at[o] = "use", request[o].category # "QUERY_READ"
        PROVE  Works(o)
    BY <2>3 DEF Works, Engines, Using
  <2>4. Running \subseteq Job
    BY DEF Running
  <2>5. activeEngine # None => engine[activeEngine] = "open"
    BY DEF Engines, ActiveOpen
  <2> QED BY <2>1, <2>2, <2>3, <2>4, <2>5 DEF BorrowedEngineOpen, Works
<1> QED BY <1>1, EnginesInvariance, PTL

(* No path through loading, replacement, failure, fatal errors and         *)
(* shutdown forgets an open engine or leaves it to two closers: it is the  *)
(* runtime's, its maker's, or one thread's that took it away               *)
(* (closeInternal, reportFatalRebuild, publishReplacement).                *)
THEOREM EnginesAreOwned == Spec => []EnginesOwned
<1>1. Leases /\ Types /\ Engines => EnginesOwned
  <2> SUFFICES ASSUME Leases, Types, Engines PROVE EnginesOwned
    OBVIOUS
  <2>1. Disposal /\ OpenOwned /\ None \notin Engine
    BY EngineNames DEF Engines
  <2>2. ASSUME NEW e \in Open PROVE e \in Owned
    <3>1. e \in Engine /\ e # None
      BY <2>1 DEF Open
    <3>2. CASE e = activeEngine
      BY <3>1, <3>2 DEF Owned
    <3>3. CASE e # activeEngine /\ Keeps(e)
      BY <3>1, <3>3 DEF Owned, Keeps, Engine
    <3>4. ASSUME NEW a \in Actor, Disposes(a), hold[a] = e PROVE e \in Owned
      BY <3>4 DEF Owned, Disposes
    <3> QED BY <2>1, <3>1, <3>2, <3>3, <3>4 DEF OpenOwned, Open
  <2>3. ASSUME NEW a \in Actor, at[a] \in {"cleanup", "closeOld"} PROVE Disposes(a)
    BY <2>1, <2>3 DEF Disposal, Disposes
  <2> QED BY <2>1, <2>2, <2>3 DEF EnginesOwned, Disposal
<1> QED BY <1>1, EnginesInvariance, PTL

(* When awaitStopped() returns, nothing is left behind: no engine is open, *)
(* no lease is held, no job runs and no load or cleanup is under way,      *)
(* whoever was the last to end (finishShutdownIfQuiescent, from            *)
(* initializeAsync and closeInternal).                                     *)
THEOREM StoppedIsQuiet == Spec => []StoppedMeansQuiet
<1>1. Leases /\ Types /\ Engines => StoppedMeansQuiet
  <2> SUFFICES ASSUME Leases, Types, Engines, lifecycle = "STOPPED"
               PROVE  /\ Open = {} /\ active = {} /\ Running = {}
                      /\ init \notin {"QUEUED", "RUNNING"} /\ cleanupInProgress = 0
    BY DEF StoppedMeansQuiet
  <2>1. /\ active = {} /\ activeEngine = None /\ init \notin {"QUEUED", "RUNNING"}
        /\ cleanupInProgress = 0
    BY DEF Engines, Stopping
  <2>2. Running = {}
    BY <2>1, RunningUses
  <2>3. \A a \in Actor : ~ Cleans(a)
    BY <2>1, FS_EmptySet DEF Engines, Cleaning, Cleaners
  <2>4. \A o \in Op : at[o] \notin UnderLease
    BY <2>1, HeldOnAProject
  <2>5. \A a \in Actor : ~ Disposes(a)
    <3>1. SUFFICES ASSUME NEW a \in Actor, at[a] = "closeOld" PROVE FALSE
      BY <2>3 DEF Cleans, Disposes
    <3>2. a \notin Op
      BY <2>4, <3>1 DEF UnderLease
    <3> QED BY <3>1, <3>2 DEF Leases, Places, MayBeAt, Actor, JobPlace, LoaderPlace,
            CloserPlace, Unclosed, InClose
  <2>6. \A e \in Engine : ~ Keeps(e)
    BY <2>1, <2>4 DEF Keeps, Engine, UnderLease, Engines, Stopping
  <2>7. Open = {}
    BY <2>1, <2>5, <2>6, EngineNames DEF Engines, OpenOwned, Open
  <2> QED BY <2>1, <2>2, <2>7
<1> QED BY <1>1, EnginesInvariance, PTL

(* A build works on the engine and the publication that its job was        *)
(* submitted for: nothing replaces either before the job's lease is        *)
(* released (admitJob, captureSearchRead).                                 *)
THEOREM JobsUseTheirSnapshots == Spec => []JobsUseTheirSnapshot
<1>1. Publication /\ Engines => JobsUseTheirSnapshot
  BY DEF Publication, SpecFits, Engines, Borrowing, Works, Running, JobsUseTheirSnapshot
<1> QED BY <1>1, EnginesInvariance, PTL

-----------------------------------------------------------------------------
(* The reservation of a shutdown, in the runtime and in the registry.      *)

SameReservation(r, s) == "reserved" \in DOMAIN s /\ s.reserved = r.reserved

\* The registry's helpers leave it alone.
LEMMA HelpersKeep ==
    ASSUME NEW r, "reserved" \in DOMAIN r, NEW S, NEW x
    PROVE  /\ SameReservation(r, jobs!emitLocked(r, S, x))
           /\ SameReservation(r, jobs!request(r, S, x))
           /\ SameReservation(r, jobs!removeRetainedLocked(r, S))
           /\ SameReservation(r, jobs!markCompletedLocked(r, S, x))
           /\ SameReservation(r, jobs!dequeue(r, S))
           /\ SameReservation(r, jobs!freeSlot(r))
BY DEF SameReservation, jobs!emitLocked, jobs!request, jobs!removeRetainedLocked,
   jobs!markCompletedLocked, jobs!dequeue, jobs!freeSlot

LEMMA SectionsKeep ==
    ASSUME NEW r, "reserved" \in DOMAIN r, NEW S, NEW x
    PROVE  /\ SameReservation(r, jobs!finishLocked(r, S, x))
           /\ SameReservation(r, jobs!intendLocked(r, S, x))
           /\ SameReservation(r, jobs!cancelWaiting(r, S))
           /\ SameReservation(r, jobs!overtake(r, S, x))
           /\ SameReservation(r, jobs!succeedLocked(r, S, x))
<1>1. ASSUME NEW q, "reserved" \in DOMAIN q, NEW T, NEW state
      PROVE  SameReservation(q, jobs!finishLocked(q, T, state))
  <2> DEFINE U == {j \in T : q.state[j] \notin jobs!Terminal}
             marked == jobs!markCompletedLocked(q, U, state)
             told == jobs!emitLocked(marked, U, jobs!EventOf(state))
  <2>1. SameReservation(q, marked)
    BY <1>1, HelpersKeep
  <2>2. SameReservation(marked, told)
    BY <2>1, HelpersKeep DEF SameReservation
  <2> HIDE DEF U, marked, told
  <2>3. SameReservation(told, jobs!enforceRetentionLocked(told))
    BY <2>2, HelpersKeep DEF SameReservation, jobs!enforceRetentionLocked
  <2>4. jobs!finishLocked(q, T, state) = jobs!enforceRetentionLocked(told)
    BY DEF jobs!finishLocked, U, marked, told
  <2> QED BY <2>1, <2>2, <2>3, <2>4 DEF SameReservation
<1>2. SameReservation(r, jobs!intendLocked(r, S, x))
  <2> DEFINE asked == jobs!request(r, S, x)
             shown == [asked EXCEPT !.state =
                 [j \in Job |-> IF j \in S /\ @[j] = "RUNNING" THEN "CANCELLING" ELSE @[j]]]
  <2>1. SameReservation(r, asked)
    BY HelpersKeep
  <2> HIDE DEF asked
  <2>2. SameReservation(asked, shown)
    BY <2>1 DEF SameReservation
  <2> HIDE DEF shown
  <2>3. SameReservation(shown, jobs!emitLocked(shown, S, "job.cancel_requested"))
    BY <2>2, HelpersKeep DEF SameReservation
  <2>4. jobs!intendLocked(r, S, x) = jobs!emitLocked(shown, S, "job.cancel_requested")
    BY DEF jobs!intendLocked, asked, shown
  <2> QED BY <2>1, <2>2, <2>3, <2>4 DEF SameReservation
<1>3. SameReservation(r, jobs!cancelWaiting(r, S))
  <2> DEFINE W == {j \in S : jobs!waiting(r, j)}
  <2>1. SameReservation(r, jobs!dequeue(r, W))
    BY HelpersKeep
  <2>2. SameReservation(jobs!dequeue(r, W), jobs!finishLocked(jobs!dequeue(r, W), W, "CANCELLED"))
    BY <1>1, <2>1 DEF SameReservation
  <2>3. jobs!cancelWaiting(r, S) = jobs!finishLocked(jobs!dequeue(r, W), W, "CANCELLED")
    BY DEF jobs!cancelWaiting
  <2> QED BY <2>1, <2>2, <2>3 DEF SameReservation
<1>4. SameReservation(r, jobs!overtake(r, S, x))
  <2> DEFINE late == IF x THEN jobs!request(r, {S}, "DEADLINE") ELSE r
  <2>1. SameReservation(r, late)
    BY HelpersKeep DEF SameReservation
  <2>2. SameReservation(late, jobs!request(late, {S}, "SHUTDOWN"))
    BY <2>1, HelpersKeep DEF SameReservation
  <2>3. jobs!overtake(r, S, x) \in {late, jobs!request(late, {S}, "SHUTDOWN")}
    BY DEF jobs!overtake
  <2> QED BY <2>1, <2>2, <2>3 DEF SameReservation
<1>5. SameReservation(r, jobs!succeedLocked(r, S, x))
  <2> DEFINE room == jobs!reclaimResultRoomLocked(r, x)
             kept == [room EXCEPT !.size[S] = x, !.bytes = @ + x]
  <2>1. SameReservation(r, room)
    BY HelpersKeep DEF jobs!reclaimResultRoomLocked
  <2> HIDE DEF room
  <2>2. SameReservation(room, kept)
    BY <2>1 DEF SameReservation
  <2> HIDE DEF kept
  <2>3. SameReservation(kept, jobs!finishLocked(kept, {S}, "SUCCEEDED"))
    BY <1>1, <2>2 DEF SameReservation
  <2>4. jobs!succeedLocked(r, S, x) = jobs!finishLocked(kept, {S}, "SUCCEEDED")
    BY DEF jobs!succeedLocked, room, kept
  <2> QED BY <2>1, <2>2, <2>3, <2>4 DEF SameReservation
<1> QED BY <1>1, <1>2, <1>3, <1>4, <1>5

LEMMA PurgeKeeps ==
    ASSUME "reserved" \in DOMAIN reg, NEW r \in jobs!purgeExpiredLocked(reg)
    PROVE  SameReservation(reg, r)
BY HelpersKeep DEF jobs!purgeExpiredLocked

\* Every section of the registry but the three that the runtime asks for.
LEMMA RegistryKeeps ==
    ASSUME "reserved" \in DOMAIN reg,
           \/ UNCHANGED reg
           \/ \E j \in Job : jobs!submit(j) \/ jobs!cancel(j) \/ jobs!execute(j)
           \/ jobs!tick \/ jobs!stopSubmissions \/ jobs!shutdownLocked
           \/ jobs!pumpHead \/ jobs!pumpReturns \/ jobs!requeueBlocked \/ jobs!startAdmitted
           \/ jobs!finishDispatchFailure
    PROVE  SameReservation(reg, reg')
<1>1. CASE UNCHANGED reg \/ jobs!stopSubmissions
  BY <1>1 DEF jobs!stopSubmissions, SameReservation
<1>2. ASSUME NEW j \in Job, jobs!submit(j) PROVE SameReservation(reg, reg')
  <2>1. PICK r \in jobs!purgeExpiredLocked(reg) :
            reg' = jobs!emitLocked([r EXCEPT !.records = @ \cup {j},
                                             !.queue = Append(@, j),
                                             !.state[j] = "QUEUED",
                                             !.number[j] = r.submissions + 1,
                                             !.submissions = @ + 1],
                                   {j}, "job.queued")
    BY <1>2 DEF jobs!submit
  <2> DEFINE taken == [r EXCEPT !.records = @ \cup {j},
                                !.queue = Append(@, j),
                                !.state[j] = "QUEUED",
                                !.number[j] = r.submissions + 1,
                                !.submissions = @ + 1]
  <2>2. SameReservation(reg, r) /\ SameReservation(r, taken)
    BY PurgeKeeps DEF SameReservation
  <2> HIDE DEF taken
  <2>3. SameReservation(taken, jobs!emitLocked(taken, {j}, "job.queued"))
    <3>1. "reserved" \in DOMAIN taken
      BY <2>2 DEF SameReservation
    <3> QED BY <3>1, HelpersKeep
  <2>4. reg' = jobs!emitLocked(taken, {j}, "job.queued")
    BY <2>1 DEF taken
  <2> QED BY <2>2, <2>3, <2>4 DEF SameReservation
<1>3. ASSUME NEW r \in jobs!purgeExpiredLocked(reg), NEW S, NEW why,
             reg' = jobs!cancelWaiting(jobs!intendLocked(r, S, why), S)
      PROVE  SameReservation(reg, reg')
  <2>1. SameReservation(reg, r) /\ SameReservation(r, jobs!intendLocked(r, S, why))
    BY PurgeKeeps, SectionsKeep DEF SameReservation
  <2>2. SameReservation(jobs!intendLocked(r, S, why), reg')
    BY <1>3, <2>1, SectionsKeep DEF SameReservation
  <2> QED BY <2>1, <2>2 DEF SameReservation
<1>4. ASSUME NEW j \in Job, jobs!cancel(j) PROVE SameReservation(reg, reg')
  BY <1>3, <1>4 DEF jobs!cancel
<1>5. CASE jobs!tick
  BY <1>3, <1>5 DEF jobs!tick
<1>6. ASSUME NEW j \in Job, jobs!execute(j) PROVE SameReservation(reg, reg')
  <2> DEFINE r == jobs!freeSlot(reg)
  <2>1. SameReservation(reg, r)
    BY HelpersKeep
  <2> HIDE DEF r
  <2>2. /\ reg' = jobs!concludeLocked(r, j) /\ worker[j] \in {"succeeded", "failed", "cancelled"}
    BY <1>6 DEF jobs!execute, r
  <2>3. \/ \E state \in {"CANCELLED", "FAILED"} : reg' = jobs!finishLocked(r, {j}, state)
        \/ reg' = jobs!finishLocked(jobs!request(r, {j}, "SHUTDOWN"), {j}, "CANCELLED")
        \/ reg' = jobs!succeedLocked(r, j, returned[j])
    BY <2>2 DEF jobs!concludeLocked
  <2>4. SameReservation(r, jobs!request(r, {j}, "SHUTDOWN"))
    BY <2>1, HelpersKeep DEF SameReservation
  <2>5. SameReservation(r, reg')
    BY <2>1, <2>3, <2>4, SectionsKeep DEF SameReservation
  <2> QED BY <2>1, <2>5 DEF SameReservation
<1>7. CASE jobs!shutdownLocked
  <2> DEFINE stop == [reg EXCEPT !.shutdownDone = TRUE, !.stopped = TRUE]
             Q == {j \in Job : \E i \in DOMAIN reg.queue : reg.queue[i] = j}
             asked == jobs!request(jobs!dequeue(stop, Q), Q, "SHUTDOWN")
             drained == jobs!finishLocked(asked, Q, "CANCELLED")
  <2>1. SameReservation(reg, stop)
    BY DEF SameReservation
  <2>2. reg' = jobs!intendLocked(drained, jobs!Alive(drained), "SHUTDOWN")
    BY <1>7 DEF jobs!shutdownLocked
  <2> HIDE DEF stop, Q
  <2>3. SameReservation(stop, jobs!dequeue(stop, Q))
    BY <2>1, HelpersKeep DEF SameReservation
  <2>4. SameReservation(jobs!dequeue(stop, Q), asked)
    BY <2>3, HelpersKeep DEF SameReservation
  <2> HIDE DEF asked
  <2>5. SameReservation(asked, drained)
    BY <2>4, SectionsKeep DEF SameReservation
  <2> HIDE DEF drained
  <2>6. SameReservation(drained, reg')
    BY <2>2, <2>5, SectionsKeep DEF SameReservation
  <2> QED BY <2>1, <2>3, <2>4, <2>5, <2>6 DEF SameReservation
<1>8. CASE jobs!pumpHead \/ jobs!pumpReturns
  <2>1. PICK r \in jobs!purgeExpiredLocked(reg) :
            \/ reg' = r
            \/ reg' = [r EXCEPT !.queue = Tail(@),
                                !.dispatching = @ \cup {Head(r.queue)},
                                !.slots = @ + 1]
    BY <1>8 DEF jobs!pumpHead, jobs!pumpReturns
  <2>2. SameReservation(reg, r)
    BY PurgeKeeps
  <2> QED BY <2>1, <2>2 DEF SameReservation
<1>9. CASE jobs!requeueBlocked \/ jobs!finishDispatchFailure
  <2> DEFINE back == [jobs!freeSlot(reg) EXCEPT !.dispatching = @ \ {cur}]
  <2>1. SameReservation(reg, back)
    BY HelpersKeep DEF SameReservation
  <2> HIDE DEF back
  <2>2. CASE jobs!requeueBlocked
    <3>1. PICK expired \in BOOLEAN :
              reg' \in {jobs!finishLocked(jobs!overtake(back, cur, expired), {cur}, "CANCELLED"),
                        jobs!requeueFirst(jobs!overtake(back, cur, expired), cur)}
      BY <2>2 DEF jobs!requeueBlocked, back
    <3> DEFINE r == jobs!overtake(back, cur, expired)
    <3>2. SameReservation(back, r)
      BY <2>1, SectionsKeep DEF SameReservation
    <3> HIDE DEF r
    <3>3. SameReservation(r, jobs!finishLocked(r, {cur}, "CANCELLED"))
      BY <3>2, SectionsKeep DEF SameReservation
    <3>4. SameReservation(r, jobs!requeueFirst(r, cur))
      BY <3>2 DEF SameReservation, jobs!requeueFirst
    <3>5. reg' \in {jobs!finishLocked(r, {cur}, "CANCELLED"), jobs!requeueFirst(r, cur)}
      BY <3>1 DEF r
    <3> QED BY <2>1, <3>2, <3>3, <3>4, <3>5 DEF SameReservation
  <2>3. CASE jobs!finishDispatchFailure
    <3>1. reg' \in {jobs!finishLocked(back, {cur}, "FAILED"),
                    jobs!finishLocked(jobs!request(back, {cur}, "SHUTDOWN"), {cur}, "CANCELLED")}
      BY <2>3 DEF jobs!finishDispatchFailure, back
    <3>2. SameReservation(back, jobs!request(back, {cur}, "SHUTDOWN"))
      BY <2>1, HelpersKeep DEF SameReservation
    <3>3. SameReservation(back, reg')
      BY <2>1, <3>1, <3>2, SectionsKeep DEF SameReservation
    <3> QED BY <2>1, <3>3 DEF SameReservation
  <2> QED BY <1>9, <2>2, <2>3
<1>10. CASE jobs!startAdmitted
  <2>1. PICK expired \in BOOLEAN :
            LET r == jobs!overtake(reg, cur, expired) IN
            reg' \in {r, jobs!emitLocked([r EXCEPT !.dispatching = @ \ {cur}, !.state[cur] = "RUNNING"],
                                         {cur}, "job.started")}
    BY <1>10 DEF jobs!startAdmitted
  <2> DEFINE r == jobs!overtake(reg, cur, expired)
             started == [r EXCEPT !.dispatching = @ \ {cur}, !.state[cur] = "RUNNING"]
  <2>2. SameReservation(reg, r)
    BY SectionsKeep
  <2> HIDE DEF r
  <2>3. SameReservation(r, started)
    BY <2>2 DEF SameReservation
  <2> HIDE DEF started
  <2>4. SameReservation(started, jobs!emitLocked(started, {cur}, "job.started"))
    <3>1. "reserved" \in DOMAIN started
      BY <2>3 DEF SameReservation
    <3> QED BY <3>1, HelpersKeep
  <2>5. reg' \in {r, jobs!emitLocked(started, {cur}, "job.started")}
    BY <2>1 DEF r, started
  <2> QED BY <2>2, <2>3, <2>4, <2>5 DEF SameReservation
<1> QED BY <1>1, <1>2, <1>4, <1>5, <1>6, <1>7, <1>8, <1>9, <1>10

\* Request o is on its way to resolve the reservation it made.
Resolves(o) == \/ at[o] \in {"shutdownSave", "accept", "unreserve"}
               \/ kind[o] \in {"accepting", "refusing"} /\ at[o] \notin {"signal", "done"}

Reservation == /\ shutdownReserved \in BOOLEAN
               /\ "reserved" \in DOMAIN reg /\ reg.reserved = shutdownReserved
               /\ shutdownReserved <=> \E o \in Op : Resolves(o)
               /\ \A o, p \in Op : Resolves(o) /\ Resolves(p) => o = p

\* What a step of operation o does to the reservation.
Reserves(o) == /\ ~ shutdownReserved /\ shutdownReserved' = TRUE
               /\ reg' = [reg EXCEPT !.reserved = TRUE]
               /\ Resolves(o)'

Relieves(o) == /\ Resolves(o) /\ ~ Resolves(o)'
               /\ shutdownReserved' = FALSE
               /\ reg' \in {[reg EXCEPT !.reserved = FALSE],
                            [reg EXCEPT !.stopped = TRUE, !.reserved = FALSE]}

KeepsReservation == UNCHANGED shutdownReserved /\ SameReservation(reg, reg')

LEMMA OpReservation ==
    ASSUME Leases, Reservation, NEW o \in Op, OpActs(o)
    PROVE  Reserves(o) \/ Relieves(o) \/ (KeepsReservation /\ (Resolves(o)' <=> Resolves(o)))
<1>1. /\ at \in [Actor -> OpPlace \cup JobPlace \cup LoaderPlace] /\ kind \in [Op -> OpKind]
      /\ o \in Actor /\ "reserved" \in DOMAIN reg /\ o \notin Job
  BY ActorAssumption DEF Leases, Places, Actor, Reservation
<1>2. /\ kind[o] \in {"accepting", "refusing"} =>
            at[o] \in {"release", "closing", "accept", "unreserve", "signal", "done"} \cup InClose
      /\ kind[o] \in {"edit", "rebuild"} =>
            at[o] \in {"stage", "publish", "closeOld", "fatal", "report", "restore", "discard", "release"}
  BY DEF Leases, OpFits
<1>3. CASE reserveShutdown(o) \/ reserveShutdownSave(o)
  <2>1. /\ ~ shutdownReserved /\ shutdownReserved' = TRUE /\ jobs!reserveSubmissions
        /\ at'[o] \in {"unreserve", "accept", "shutdownSave"}
    BY <1>1, <1>3 DEF reserveShutdown, reserveShutdownSave, admit, requireReady, GoTo
  <2> QED BY <2>1 DEF jobs!reserveSubmissions, Reserves, Resolves
<1>4. CASE Starts(o) /\ ~ (reserveShutdown(o) \/ reserveShutdownSave(o))
  <2>1. /\ UNCHANGED <<reg, shutdownReserved>> /\ at[o] = "idle"
        /\ at'[o] \in {"capture", "use", "snapshot", "read", "save", "stage"}
        /\ kind'[o] \in {kind[o], "edit", "rebuild"}
    BY <1>1, <1>4
     DEF Starts, Calls, withPrimaryClassRead, withExclusiveMappingExport, withEngineRead,
         withPrimarySymbolRead, withQueryRead, withTemporaryAnalysis, readPublished, saveProject,
         withExclusiveEdit, rebuild, outside, jobsVars, lifecycleVars, GoTo, Continues
  <2>2. ~ Resolves(o) /\ ~ Resolves(o)'
    BY <1>2, <2>1 DEF Resolves, InClose
  <2> QED BY <1>1, <2>1, <2>2 DEF KeepsReservation, SameReservation
<1>5. CASE unreserve(o) \/ (acceptShutdown(o) /\ lifecycle = "READY")
  <2>1. /\ at[o] \in {"unreserve", "accept"} /\ at'[o] \in {"signal", "done"}
        /\ shutdownReserved' = FALSE
        /\ jobs!releaseSubmissionReservation \/ jobs!stopReserved
    BY <1>1, <1>5 DEF unreserve, acceptShutdown, GoTo, unreserved
  <2> QED BY <2>1 DEF jobs!releaseSubmissionReservation, jobs!stopReserved, Relieves, Resolves
<1>6. CASE acceptShutdown(o) /\ lifecycle # "READY"
  <2>1. /\ at[o] = "accept" /\ at'[o] = "unreserve" /\ UNCHANGED <<reg, shutdownReserved>>
    BY <1>1, <1>6 DEF acceptShutdown, GoTo, jobsVars
  <2> QED BY <1>1, <2>1 DEF KeepsReservation, SameReservation, Resolves
<1>7. CASE shutdownSave(o)
  <2>1. /\ at[o] = "shutdownSave" /\ at'[o] = "release" /\ kind'[o] \in {"accepting", "refusing"}
        /\ UNCHANGED <<reg, shutdownReserved>>
    BY <1>1, <1>7 DEF shutdownSave, GoTo, Continues, jobsVars, lifecycleVars
  <2> QED BY <1>1, <2>1 DEF KeepsReservation, SameReservation, Resolves
<1>8. CASE OpStep(o) /\ ~ (unreserve(o) \/ acceptShutdown(o) \/ shutdownSave(o))
  <2>1. KeepsReservation
    <3>1. UNCHANGED shutdownReserved /\ (UNCHANGED reg \/ jobs!stopSubmissions)
      BY <1>8
       DEF OpStep, captureEngine, useEnds, snapshotEnds, createTemporary, readRepository,
           recheckEpoch, saved, stage, publishReplacement, closeOld, discard, restore,
           reportFatalRebuild, release, signalRefused, outside, jobsVars, lifecycleVars,
           jobs!signal
    <3> QED BY <1>1, <3>1, RegistryKeeps DEF KeepsReservation
  <2>2. /\ at[o] \notin {"idle", "accept", "unreserve", "shutdownSave"}
        /\ at'[o] \notin {"accept", "unreserve", "shutdownSave"}
        /\ kind'[o] = kind[o] \/ (kind[o] \in {"edit", "rebuild"} /\ kind'[o] = "none")
        /\ at'[o] = "closing" => at[o] = "release"
        /\ at'[o] \in {"signal", "done"} => at[o] \notin {"release", "closing"} \cup InClose
    BY <1>1, <1>8
     DEF OpStep, captureEngine, useEnds, snapshotEnds, createTemporary, readRepository,
         recheckEpoch, saved, stage, publishReplacement, closeOld, discard, restore,
         reportFatalRebuild, release, signalRefused, GoTo, Continues, Failed, InClose
  <2>3. at[o] = "signal" => at'[o] = "done"
    BY <1>1, <1>8
     DEF OpStep, captureEngine, useEnds, snapshotEnds, createTemporary, readRepository,
         recheckEpoch, saved, stage, publishReplacement, closeOld, discard, restore,
         reportFatalRebuild, release, signalRefused, GoTo
  <2>4. at[o] # "done"
    BY <1>8
     DEF OpStep, captureEngine, useEnds, snapshotEnds, createTemporary, readRepository,
         recheckEpoch, saved, stage, publishReplacement, closeOld, discard, restore,
         reportFatalRebuild, release, signalRefused
  <2> QED BY <1>2, <2>1, <2>2, <2>3, <2>4 DEF Resolves
<1>9. CASE LeaseStep(o)
  <2>1. KeepsReservation
    <3>1. UNCHANGED shutdownReserved /\ (UNCHANGED reg \/ jobs!stopSubmissions \/ jobs!shutdownLocked)
      BY <1>9 DEF LeaseStep, removeLease, operationCompleted, CloseStep, closeInternal,
         shutdownJobs, shutdownExecutors, closeDetached, finishClose, outside, jobsVars,
         lifecycleVars, jobs!signal, jobs!shutdownExecutors
    <3> QED BY <1>1, <3>1, RegistryKeeps DEF KeepsReservation
  <2>2. CASE removeLease(o)
    BY <2>1, <2>2 DEF removeLease, actorVars, Resolves
  <2>3. CASE operationCompleted(o) \/ CloseStep(o)
    <3>1. /\ at[o] \in {"closing"} \cup InClose /\ kind' = kind
          /\ at'[o] \in InClose \cup {AfterRelease(o)}
      <4>1. CASE operationCompleted(o)
        BY <1>1, <4>1 DEF operationCompleted, coordinator!afterRelease, coordinator!mayNotify,
           Leases, OpFits, GoTo, InClose
      <4>2. CASE CloseStep(o)
        BY <1>1, <4>2 DEF CloseStep, closeInternal, shutdownJobs, shutdownExecutors, closeDetached,
           finishClose, GoTo, InClose, Cleanup
      <4> QED BY <2>3, <4>1, <4>2
    <3>2. \/ kind[o] \in {"accepting", "refusing"} /\ AfterRelease(o) \in {"accept", "unreserve"}
          \/ kind[o] \notin {"accepting", "refusing"} /\ AfterRelease(o) = "done"
      BY DEF AfterRelease
    <3> QED BY <2>1, <3>1, <3>2 DEF Resolves, InClose
  <2> QED BY <1>9, <2>2, <2>3 DEF LeaseStep
<1> QED BY <1>3, <1>4, <1>5, <1>6, <1>7, <1>8, <1>9 DEF OpActs

LEMMA OthersReservation ==
    ASSUME Reservation,
           (\E j \in Job : JobActs(j)) \/ LoaderStep \/ CloserActs \/ NobodyActs
    PROVE  KeepsReservation
<1>1. /\ UNCHANGED shutdownReserved
      /\ \/ UNCHANGED reg
         \/ \E j \in Job : jobs!submit(j) \/ jobs!cancel(j) \/ jobs!execute(j)
         \/ jobs!tick \/ jobs!stopSubmissions \/ jobs!shutdownLocked
         \/ jobs!pumpHead \/ jobs!pumpReturns \/ jobs!requeueBlocked \/ jobs!startAdmitted
         \/ jobs!finishDispatchFailure
  <2>1. ASSUME NEW a \in Actor, CloseStep(a)
        PROVE  /\ UNCHANGED shutdownReserved
               /\ UNCHANGED reg \/ jobs!stopSubmissions \/ jobs!shutdownLocked
    BY <2>1 DEF CloseStep, closeInternal, shutdownJobs, shutdownExecutors, closeDetached,
       finishClose, outside, jobsVars, lifecycleVars, jobs!shutdownExecutors
  <2>2. ASSUME NEW j \in Job, LeaseStep(j)
        PROVE  /\ UNCHANGED shutdownReserved
               /\ UNCHANGED reg \/ jobs!stopSubmissions \/ jobs!shutdownLocked
    BY <2>1, <2>2 DEF LeaseStep, removeLease, operationCompleted, outside, jobsVars,
       lifecycleVars, jobs!signal, Actor
  <2>3. ASSUME NEW j \in Job, JobActs(j), ~ LeaseStep(j)
        PROVE  /\ UNCHANGED shutdownReserved
               /\ UNCHANGED reg \/ jobs!submit(j) \/ jobs!execute(j) \/ jobs!stopSubmissions
    BY <2>3 DEF JobActs, prepareJob, submitJob, admitJob, captureSearchRead, startFails,
       WorkerStep, taskReturns, reportFatalRebuild, execute, closesLease, elsewhere,
       jobsVars, lifecycleVars, jobs!gateGrants, jobs!gateBlocks, jobs!gateStops,
       jobs!gateFails, jobs!captureSucceeds, jobs!captureFails, jobs!abandonStart,
       jobs!launchRejected, jobs!taskReturns
  <2>4. CASE LoaderStep
    BY <2>4 DEF LoaderStep, taskRuns, createFirst, loadFirst, publishFirst,
       initializationFails, discardFirst, taskEnds, outside, jobsVars, lifecycleVars
  <2>5. CASE CloserActs
    BY <2>1, <2>5 DEF CloserActs, close, outside, jobsVars, lifecycleVars, Actor
  <2>6. CASE dispatcherGoesOn
    BY <2>6 DEF dispatcherGoesOn, lifecycleVars, jobs!runDispatch, jobs!clearPending,
       jobs!whilePending, jobs!unschedule, jobs!recheck, jobs!launch
  <2>7. CASE initializeAsync \/ jobCalls \/ UNCHANGED vars
    BY <2>7 DEF initializeAsync, jobCalls, vars, outside, jobsVars, lifecycleVars
  <2> QED BY <2>2, <2>3, <2>4, <2>5, <2>6, <2>7 DEF NobodyActs
<1> QED BY <1>1, RegistryKeeps DEF Reservation, KeepsReservation

LEMMA ReservationNext == Leases /\ Types /\ Reservation /\ [Next]_vars => Reservation'
<1> SUFFICES ASSUME Leases, Types, Reservation, [Next]_vars PROVE Reservation'
  OBVIOUS
<1>1. ASSUME NEW a \in Actor, OnlyOwn(a), NEW p \in Op \ {a} PROVE Resolves(p)' <=> Resolves(p)
  BY <1>1 DEF OnlyOwn, OnlyMoves, Resolves, Actor
<1>2. ASSUME KeepsReservation, \A p \in Op : Resolves(p)' <=> Resolves(p) PROVE Reservation'
  BY <1>2 DEF KeepsReservation, SameReservation, Reservation
<1>3. ASSUME NEW o \in Op, OpActs(o), OnlyOwn(o) PROVE Reservation'
  <2>1. \A p \in Op \ {o} : Resolves(p)' <=> Resolves(p)
    BY <1>1, <1>3 DEF Actor
  <2>2. CASE Reserves(o)
    <3>1. \A p \in Op : Resolves(p)' <=> p = o
      BY <2>1, <2>2 DEF Reserves, Reservation
    <3> QED BY <2>2, <3>1 DEF Reserves, Reservation
  <2>3. CASE Relieves(o)
    <3>1. \A p \in Op : ~ Resolves(p)'
      BY <2>1, <2>3 DEF Relieves, Reservation
    <3>2. "reserved" \in DOMAIN reg' /\ reg'.reserved = FALSE
      BY <2>3 DEF Relieves, Reservation
    <3> QED BY <2>3, <3>1, <3>2 DEF Relieves, Reservation
  <2>4. CASE KeepsReservation /\ (Resolves(o)' <=> Resolves(o))
    BY <1>2, <2>1, <2>4
  <2> QED BY <1>3, <2>2, <2>3, <2>4, OpReservation
<1>4. ASSUME KeepsReservation, NEW a \in Actor \ Op, OnlyOwn(a) PROVE Reservation'
  BY <1>1, <1>2, <1>4
<1>5. CASE NobodyActs /\ NobodyMoves
  <2>1. \A p \in Op : Resolves(p)' <=> Resolves(p)
    BY <1>5 DEF NobodyMoves, Resolves
  <2> QED BY <1>2, <1>5, <2>1, OthersReservation
<1>6. /\ Loader \in Actor \ Op /\ Closer \in Actor \ Op /\ Job \subseteq Actor \ Op
  BY ActorAssumption DEF Actor
<1> QED BY <1>3, <1>4, <1>5, <1>6, WhoMoves, OthersReservation

LEMMA ReservationInit == Init => Reservation
<1> SUFFICES ASSUME Init PROVE Reservation
  OBVIOUS
<1>1. /\ shutdownReserved = FALSE /\ "reserved" \in DOMAIN reg /\ reg.reserved = FALSE
  BY DEF Init, jobs!Init
<1>2. \A o \in Op : ~ Resolves(o)
  BY DEF Init, Resolves, Actor
<1> QED BY <1>1, <1>2 DEF Reservation

LEMMA ReservationInvariance == Spec => [](Leases /\ Types /\ Reservation)
<1>1. Leases /\ Types /\ Reservation /\ [Next]_vars => Leases' /\ Types' /\ Reservation'
  BY LeasesNext, TypesNext, ReservationNext
<1> QED BY <1>1, LeasesInit, TypesInit, ReservationInit, PTL DEF Spec

(* Neither the runtime nor the registry stays reserved without a request   *)
(* that will still resolve it, and the two never differ, whatever refuses, *)
(* overtakes or accepts the request (requestShutdown, JobRegistry's        *)
(* reserveSubmissions and releaseSubmissionReservation).                   *)
THEOREM ReservationIsHeld == Spec => []ReservationHeld
<1>1. Reservation => ReservationHeld
  BY DEF Reservation, Resolves, ReservationHeld
<1> QED BY <1>1, ReservationInvariance, PTL

-----------------------------------------------------------------------------
(* What is proved of the coordinator and of the registry alone is true of  *)
(* them inside the runtime: the runtime's instances take exactly the steps *)
(* of the instances that the theorems are about.                           *)

registry == INSTANCE JobRegistryProofs

table == INSTANCE OperationCoordinatorProofs WITH
    Lease <- Op \cup Job, Admission <- Revision, Request <- Requests,
    NoRequest <- None, stopped <- coordinatorStopped

\* The assumptions of the two modules, of the constants they get here.
LEMMA LimitsFit ==
    /\ {MaxQueued, MaxRunning, MaxRetained, MaxResultBytes} \subseteq Nat \ {0}
    /\ MaxTotalResultBytes \in Nat /\ MaxTotalResultBytes >= MaxResultBytes
    /\ ResultSizes \subseteq Nat \ {0}
    /\ None \notin Job \cup registry!Reason
BY LimitsAssumption, ActorAssumption DEF registry!Reason, Actor

LEMMA RequestsFit ==
    /\ Requests \subseteq [category : table!Category, key : Key, admission : Revision]
    /\ None \notin Requests
BY ActorAssumption DEF Requests, Categories, table!Category

\* The helpers compute the same in both instances.
SameHelpers ==
    /\ jobs!Terminal = registry!Terminal
    /\ \A r : jobs!Completed(r) = registry!Completed(r)
    /\ \A r : jobs!Alive(r) = registry!Alive(r)
    /\ \A r : jobs!WithResult(r) = registry!WithResult(r)
    /\ \A r, S : jobs!Bytes(r, S) = registry!Bytes(r, S)
    /\ \A r, S, type : jobs!emitLocked(r, S, type) = registry!emitLocked(r, S, type)
    /\ \A r, S, why : jobs!request(r, S, why) = registry!request(r, S, why)
    /\ \A r, S : jobs!removeRetainedLocked(r, S) = registry!removeRetainedLocked(r, S)
    /\ \A r : jobs!purgeExpiredLocked(r) = registry!purgeExpiredLocked(r)
    /\ \A r, n : jobs!OlderThanNewest(r, n) = registry!OlderThanNewest(r, n)
    /\ \A r : jobs!enforceRetentionLocked(r) = registry!enforceRetentionLocked(r)
    /\ \A r, incoming : jobs!reclaimResultRoomLocked(r, incoming) = registry!reclaimResultRoomLocked(r, incoming)
    /\ \A state : jobs!EventOf(state) = registry!EventOf(state)
    /\ \A r, T, state : jobs!markCompletedLocked(r, T, state) = registry!markCompletedLocked(r, T, state)
    /\ \A r, S, state : jobs!finishLocked(r, S, state) = registry!finishLocked(r, S, state)
    /\ \A r, j, bytes : jobs!succeedLocked(r, j, bytes) = registry!succeedLocked(r, j, bytes)
    /\ \A r, S, why : jobs!intendLocked(r, S, why) = registry!intendLocked(r, S, why)
    /\ \A r, S : jobs!dequeue(r, S) = registry!dequeue(r, S)
    /\ \A r, j : jobs!waiting(r, j) = registry!waiting(r, j)
    /\ \A r, S : jobs!cancelWaiting(r, S) = registry!cancelWaiting(r, S)
    /\ \A r : jobs!hasRoom(r) = registry!hasRoom(r)
    /\ \A r : jobs!slotFree(r) = registry!slotFree(r)
    /\ \A r : jobs!pumpTakes(r) = registry!pumpTakes(r)
    /\ \A r : jobs!freeSlot(r) = registry!freeSlot(r)
    /\ \A r, j, expired : jobs!overtake(r, j, expired) = registry!overtake(r, j, expired)
    /\ \A r, j : jobs!requeueFirst(r, j) = registry!requeueFirst(r, j)
    /\ \A bytes : jobs!Outcome(bytes) = registry!Outcome(bytes)
    /\ \A r, j : jobs!discards(r, j) = registry!discards(r, j)
    /\ \A r, j : jobs!concludeLocked(r, j) = registry!concludeLocked(r, j)
    /\ \A S : jobs!Cardinality(S) = registry!Cardinality(S)

LEMMA HelpersAgree == SameHelpers
<1>0. \A S : jobs!Cardinality(S) = registry!Cardinality(S)
  BY DEF jobs!Cardinality, registry!Cardinality
<1>1. jobs!Terminal = registry!Terminal
  BY DEF jobs!Terminal, registry!Terminal
<1>2. \A r : jobs!Completed(r) = registry!Completed(r)
  BY <1>1 DEF jobs!Completed, registry!Completed
<1>3. \A r : jobs!Alive(r) = registry!Alive(r)
  BY <1>1 DEF jobs!Alive, registry!Alive
<1>4. \A r : jobs!WithResult(r) = registry!WithResult(r)
  BY <1>2 DEF jobs!WithResult, registry!WithResult
<1>5. \A r, S : jobs!Bytes(r, S) = registry!Bytes(r, S)
  BY <1>0 DEF jobs!Bytes, registry!Bytes
<1>6. \A r, S, type : jobs!emitLocked(r, S, type) = registry!emitLocked(r, S, type)
  BY DEF jobs!emitLocked, registry!emitLocked
<1>7. \A r, S, why : jobs!request(r, S, why) = registry!request(r, S, why)
  BY DEF jobs!request, registry!request
<1>8. \A r, S : jobs!removeRetainedLocked(r, S) = registry!removeRetainedLocked(r, S)
  BY <1>5 DEF jobs!removeRetainedLocked, registry!removeRetainedLocked
<1>9. \A r : jobs!purgeExpiredLocked(r) = registry!purgeExpiredLocked(r)
  BY <1>2, <1>8 DEF jobs!purgeExpiredLocked, registry!purgeExpiredLocked
<1>10. \A r, n : jobs!OlderThanNewest(r, n) = registry!OlderThanNewest(r, n)
  BY <1>2, <1>0 DEF jobs!OlderThanNewest, registry!OlderThanNewest
<1>11. \A r : jobs!enforceRetentionLocked(r) = registry!enforceRetentionLocked(r)
  BY <1>8, <1>10 DEF jobs!enforceRetentionLocked, registry!enforceRetentionLocked
<1>12. \A r, incoming : jobs!reclaimResultRoomLocked(r, incoming) = registry!reclaimResultRoomLocked(r, incoming)
  BY <1>4, <1>5, <1>8 DEF jobs!reclaimResultRoomLocked, registry!reclaimResultRoomLocked
<1>13. \A state : jobs!EventOf(state) = registry!EventOf(state)
  BY DEF jobs!EventOf, registry!EventOf
<1>14. \A r, T, state : jobs!markCompletedLocked(r, T, state) = registry!markCompletedLocked(r, T, state)
  BY <1>0 DEF jobs!markCompletedLocked, registry!markCompletedLocked
<1>15. \A r, S, state : jobs!finishLocked(r, S, state) = registry!finishLocked(r, S, state)
  BY <1>1, <1>6, <1>11, <1>13, <1>14 DEF jobs!finishLocked, registry!finishLocked
<1>16. \A r, j, bytes : jobs!succeedLocked(r, j, bytes) = registry!succeedLocked(r, j, bytes)
  BY <1>12, <1>15 DEF jobs!succeedLocked, registry!succeedLocked
<1>17. \A r, S, why : jobs!intendLocked(r, S, why) = registry!intendLocked(r, S, why)
  BY <1>6, <1>7 DEF jobs!intendLocked, registry!intendLocked
<1>18. \A r, S : jobs!dequeue(r, S) = registry!dequeue(r, S)
  <2> SUFFICES ASSUME NEW r, NEW S PROVE jobs!dequeue(r, S) = registry!dequeue(r, S)
    OBVIOUS
  <2> DEFINE kept == {i \in DOMAIN r.queue : r.queue[i] \notin S}
             first(n) == CHOOSE i \in kept : jobs!Cardinality({m \in kept : m <= i}) = n
             second(n) == CHOOSE i \in kept : registry!Cardinality({m \in kept : m <= i}) = n
  <2>1. \A n : first(n) = second(n)
    BY <1>0
  <2>2. jobs!Cardinality(kept) = registry!Cardinality(kept)
    BY <1>0
  <2>3. jobs!dequeue(r, S) =
           [r EXCEPT !.queue = [n \in 1..jobs!Cardinality(kept) |-> r.queue[first(n)]]]
    BY DEF jobs!dequeue
  <2>4. registry!dequeue(r, S) =
           [r EXCEPT !.queue = [n \in 1..registry!Cardinality(kept) |-> r.queue[second(n)]]]
    BY DEF registry!dequeue
  <2> HIDE DEF kept, first, second
  <2> QED BY <2>1, <2>2, <2>3, <2>4
<1>19. \A r, j : jobs!waiting(r, j) = registry!waiting(r, j)
  BY DEF jobs!waiting, registry!waiting
<1>20. \A r, S : jobs!cancelWaiting(r, S) = registry!cancelWaiting(r, S)
  BY <1>15, <1>18, <1>19 DEF jobs!cancelWaiting, registry!cancelWaiting
<1>21. \A r : jobs!hasRoom(r) = registry!hasRoom(r)
  BY <1>0 DEF jobs!hasRoom, registry!hasRoom
<1>22. \A r : jobs!slotFree(r) = registry!slotFree(r)
  BY DEF jobs!slotFree, registry!slotFree
<1>23. \A r : jobs!pumpTakes(r) = registry!pumpTakes(r)
  BY <1>22 DEF jobs!pumpTakes, registry!pumpTakes
<1>24. \A r : jobs!freeSlot(r) = registry!freeSlot(r)
  BY DEF jobs!freeSlot, registry!freeSlot
<1>25. \A r, j, expired : jobs!overtake(r, j, expired) = registry!overtake(r, j, expired)
  BY <1>7 DEF jobs!overtake, registry!overtake
<1>26. \A r, j : jobs!requeueFirst(r, j) = registry!requeueFirst(r, j)
  BY DEF jobs!requeueFirst, registry!requeueFirst
<1>27. \A bytes : jobs!Outcome(bytes) = registry!Outcome(bytes)
  BY DEF jobs!Outcome, registry!Outcome
<1>28. \A r, j : jobs!discards(r, j) = registry!discards(r, j)
  BY DEF jobs!discards, registry!discards
<1>29. \A r, j : jobs!concludeLocked(r, j) = registry!concludeLocked(r, j)
  BY <1>7, <1>15, <1>16, <1>28 DEF jobs!concludeLocked, registry!concludeLocked
<1> QED BY <1>0, <1>1, <1>2, <1>3, <1>4, <1>5, <1>6, <1>7, <1>8, <1>9, <1>10, <1>11, <1>12,
     <1>13, <1>14, <1>15, <1>16, <1>17, <1>18, <1>19, <1>20, <1>21, <1>22, <1>23, <1>24, <1>25,
     <1>26, <1>27, <1>28, <1>29 DEF SameHelpers

LEMMA StepsAgree == jobs!Next => registry!Next
<1> USE HelpersAgree DEF SameHelpers
<1>1. \A j : jobs!submit(j) => registry!submit(j)
  BY DEF jobs!submit, registry!submit, jobs!dispatchVars, registry!dispatchVars, jobs!workVars,
     registry!workVars, jobs!setPendingAndSchedule, registry!setPendingAndSchedule
<1>2. jobs!snapshot => registry!snapshot
  BY DEF jobs!snapshot, registry!snapshot, jobs!dispatchVars, registry!dispatchVars,
     jobs!signalVars, registry!signalVars, jobs!workVars, registry!workVars
<1>3. \A j : jobs!cancel(j) => registry!cancel(j)
  BY DEF jobs!cancel, registry!cancel, jobs!dispatchVars, registry!dispatchVars, jobs!workVars,
     registry!workVars, jobs!setPendingAndSchedule, registry!setPendingAndSchedule
<1>4. jobs!tick => registry!tick
  BY DEF jobs!tick, registry!tick, jobs!dispatchVars, registry!dispatchVars, jobs!signalVars,
     registry!signalVars, jobs!workVars, registry!workVars, jobs!setPendingAndSchedule,
     registry!setPendingAndSchedule
<1>5. jobs!reserveSubmissions => registry!reserveSubmissions
  BY DEF jobs!reserveSubmissions, registry!reserveSubmissions, jobs!dispatchVars,
     registry!dispatchVars, jobs!signalVars, registry!signalVars, jobs!workVars,
     registry!workVars
<1>6. jobs!releaseSubmissionReservation => registry!releaseSubmissionReservation
  BY DEF jobs!releaseSubmissionReservation, registry!releaseSubmissionReservation,
     jobs!dispatchVars, registry!dispatchVars, jobs!signalVars, registry!signalVars,
     jobs!workVars, registry!workVars
<1>7. jobs!stopSubmissions => registry!stopSubmissions
  BY DEF jobs!stopSubmissions, registry!stopSubmissions, jobs!dispatchVars,
     registry!dispatchVars, jobs!signalVars, registry!signalVars, jobs!workVars,
     registry!workVars
<1>8. jobs!stopReserved => registry!stopReserved
  BY DEF jobs!stopReserved, registry!stopReserved, jobs!dispatchVars, registry!dispatchVars,
     jobs!signalVars, registry!signalVars, jobs!workVars, registry!workVars
<1>9. jobs!shutdownLocked => registry!shutdownLocked
  BY DEF jobs!shutdownLocked, registry!shutdownLocked, jobs!dispatchVars, registry!dispatchVars,
     jobs!signalVars, registry!signalVars, jobs!workVars, registry!workVars
<1>10. jobs!shutdownExecutors => registry!shutdownExecutors
  BY DEF jobs!shutdownExecutors, registry!shutdownExecutors, jobs!dispatchVars,
     registry!dispatchVars, jobs!signalVars, registry!signalVars, jobs!workVars,
     registry!workVars
<1>11. jobs!signal => registry!signal
  BY DEF jobs!signal, registry!signal, jobs!dispatchVars, registry!dispatchVars, jobs!workVars,
     registry!workVars, jobs!setPendingAndSchedule, registry!setPendingAndSchedule
<1>12. jobs!runDispatch => registry!runDispatch
  BY DEF jobs!runDispatch, registry!runDispatch, jobs!workVars, registry!workVars, jobs!GoTo,
     registry!GoTo
<1>13. jobs!clearPending => registry!clearPending
  BY DEF jobs!clearPending, registry!clearPending, jobs!workVars, registry!workVars, jobs!GoTo,
     registry!GoTo
<1>14. jobs!whilePending => registry!whilePending
  BY DEF jobs!whilePending, registry!whilePending, jobs!signalVars, registry!signalVars,
     jobs!workVars, registry!workVars, jobs!GoTo, registry!GoTo
<1>15. jobs!unschedule => registry!unschedule
  BY DEF jobs!unschedule, registry!unschedule, jobs!workVars, registry!workVars, jobs!GoTo,
     registry!GoTo
<1>16. jobs!recheck => registry!recheck
  BY DEF jobs!recheck, registry!recheck, jobs!workVars, registry!workVars,
     jobs!setPendingAndSchedule, registry!setPendingAndSchedule, jobs!GoTo, registry!GoTo
<1>17. jobs!pumpHead => registry!pumpHead
  BY DEF jobs!pumpHead, registry!pumpHead, jobs!signalVars, registry!signalVars, jobs!workVars,
     registry!workVars
<1>18. jobs!pumpReturns => registry!pumpReturns
  BY DEF jobs!pumpReturns, registry!pumpReturns, jobs!signalVars, registry!signalVars,
     jobs!workVars, registry!workVars, jobs!GoTo, registry!GoTo
<1>19. jobs!gateGrants => registry!gateGrants
  BY DEF jobs!gateGrants, registry!gateGrants, jobs!signalVars, registry!signalVars, jobs!GoTo,
     registry!GoTo
<1>20. jobs!gateBlocks => registry!gateBlocks
  BY DEF jobs!gateBlocks, registry!gateBlocks, jobs!signalVars, registry!signalVars,
     jobs!workVars, registry!workVars, jobs!GoTo, registry!GoTo
<1>21. jobs!gateStops => registry!gateStops
  BY DEF jobs!gateStops, registry!gateStops, jobs!signalVars, registry!signalVars,
     jobs!workVars, registry!workVars
<1>22. jobs!gateFails => registry!gateFails
  BY DEF jobs!gateFails, registry!gateFails, jobs!signalVars, registry!signalVars,
     jobs!workVars, registry!workVars
<1>23. jobs!requeueBlocked => registry!requeueBlocked
  BY DEF jobs!requeueBlocked, registry!requeueBlocked, jobs!workVars, registry!workVars
<1>24. jobs!captureSucceeds => registry!captureSucceeds
  BY DEF jobs!captureSucceeds, registry!captureSucceeds, jobs!signalVars, registry!signalVars,
     jobs!workVars, registry!workVars, jobs!GoTo, registry!GoTo
<1>25. jobs!captureFails => registry!captureFails
  BY DEF jobs!captureFails, registry!captureFails, jobs!signalVars, registry!signalVars
<1>26. jobs!startAdmitted => registry!startAdmitted
  BY DEF jobs!startAdmitted, registry!startAdmitted, jobs!signalVars, registry!signalVars,
     jobs!workVars, registry!workVars, jobs!GoTo, registry!GoTo
<1>27. jobs!abandonStart => registry!abandonStart
  BY DEF jobs!abandonStart, registry!abandonStart, jobs!signalVars, registry!signalVars
<1>28. jobs!launch => registry!launch
  BY DEF jobs!launch, registry!launch, jobs!signalVars, registry!signalVars
<1>29. jobs!launchRejected => registry!launchRejected
  BY DEF jobs!launchRejected, registry!launchRejected, jobs!signalVars, registry!signalVars
<1>30. jobs!finishDispatchFailure => registry!finishDispatchFailure
  BY DEF jobs!finishDispatchFailure, registry!finishDispatchFailure, jobs!workVars,
     registry!workVars
<1>31. \A j : jobs!taskReturns(j) => registry!taskReturns(j)
  BY DEF jobs!taskReturns, registry!taskReturns, jobs!dispatchVars, registry!dispatchVars,
     jobs!signalVars, registry!signalVars
<1>32. \A j : jobs!execute(j) => registry!execute(j)
  BY DEF jobs!execute, registry!execute, jobs!dispatchVars, registry!dispatchVars,
     jobs!setPendingAndSchedule, registry!setPendingAndSchedule
<1> QED BY <1>1, <1>2, <1>3, <1>4, <1>5, <1>6, <1>7, <1>8, <1>9, <1>10, <1>11, <1>12, <1>13,
     <1>14, <1>15, <1>16, <1>17, <1>18, <1>19, <1>20, <1>21, <1>22, <1>23, <1>24, <1>25, <1>26,
     <1>27, <1>28, <1>29, <1>30, <1>31, <1>32 DEF jobs!Next, registry!Next

LEMMA RegistrySpec == Spec => registry!Spec
<1>1. jobs!Init => registry!Init
  BY DEF jobs!Init, registry!Init
<1>2. UNCHANGED jobs!vars => UNCHANGED registry!vars
  BY DEF jobs!vars, jobs!dispatchVars, jobs!signalVars, jobs!workVars,
     registry!vars, registry!dispatchVars, registry!signalVars, registry!workVars
<1>3. [jobs!Next]_(jobs!vars) => [registry!Next]_(registry!vars)
  BY <1>2, StepsAgree
<1> QED BY <1>1, <1>3, RegistryFollowed, PTL DEF jobs!Spec, registry!Spec

LEMMA TableSpec == Spec => table!Spec
<1>1. coordinator!Init => table!Init
  BY DEF coordinator!Init, table!Init
<1>2. coordinator!Next => table!Next
  BY DEF coordinator!Next, coordinator!tryAdmit, coordinator!finishSnapshotCapture,
     coordinator!close, coordinator!remove, coordinator!afterRelease, coordinator!stopAdmissions,
     coordinator!admits, coordinator!compatible, coordinator!Conflict, coordinator!Granted,
     coordinator!startsCapturing, coordinator!mayNotify, coordinator!Primary,
     coordinator!Isolated,
     table!Next, table!tryAdmit, table!finishSnapshotCapture, table!close, table!remove,
     table!afterRelease, table!stopAdmissions, table!admits, table!compatible, table!Conflict,
     table!Granted, table!startsCapturing, table!mayNotify, table!Primary, table!Isolated
<1>3. UNCHANGED coordinator!vars => UNCHANGED table!vars
  BY DEF coordinator!vars, table!vars
<1>4. [coordinator!Next]_(coordinator!vars) => [table!Next]_(table!vars)
  BY <1>2, <1>3
<1> QED BY <1>1, <1>4, CoordinatorFollowed, PTL DEF coordinator!Spec, table!Spec

CoordinatorInvariants ==
    coordinator!TypeOK /\ coordinator!Exclusion /\ coordinator!CallbackAfterRemoval

(* Inside the runtime, too, all holders of leases of the engine may        *)
(* coexist, and no callback runs for a lease that is still counted: the    *)
(* runtime's use of the coordinator breaks none of its promises            *)
(* (OperationCoordinator.tryAdmit and Lease.close called by                *)
(* ProjectRuntime).                                                        *)
THEOREM CoordinatorKept == Spec => []CoordinatorInvariants
<1>1. table!Spec => []table!TypeOK
  BY RequestsFit, table!TypeCorrect DEF table!TypeCorrect
<1>2. table!Spec => []table!Exclusion
  BY RequestsFit, table!ExclusionHolds DEF table!ExclusionHolds
<1>3. table!Spec => []table!CallbackAfterRemoval
  BY RequestsFit, table!CallbackAfterRemovalHolds DEF table!CallbackAfterRemovalHolds
<1>4. table!TypeOK => coordinator!TypeOK
  BY DEF table!TypeOK, coordinator!TypeOK, table!Isolated, coordinator!Isolated
<1>5. table!Exclusion => coordinator!Exclusion
  BY DEF table!Exclusion, coordinator!Exclusion, table!MayCoexist, coordinator!MayCoexist,
     table!Shared, coordinator!Shared, table!Isolated, coordinator!Isolated,
     table!Primary, coordinator!Primary
<1>6. table!CallbackAfterRemoval => coordinator!CallbackAfterRemoval
  BY DEF table!CallbackAfterRemoval, coordinator!CallbackAfterRemoval
<1>7. table!TypeOK /\ table!Exclusion /\ table!CallbackAfterRemoval => CoordinatorInvariants
  BY <1>4, <1>5, <1>6 DEF CoordinatorInvariants
<1> QED BY <1>1, <1>2, <1>3, <1>7, TableSpec, PTL

RegistryInvariants ==
    /\ jobs!TypeOK /\ jobs!SlotsAccounted /\ jobs!NothingLost /\ jobs!LeasesAccounted
    /\ jobs!StreamsWellFormed /\ jobs!RetentionBounded /\ jobs!QueueOverrunBounded

(* Inside the runtime, too, the registry loses no job, counts its slots,   *)
(* leases and retained bytes exactly, ends every event stream and keeps    *)
(* its limits, whatever the runtime answers as its gate and whenever it    *)
(* reserves, stops and signals it (ProjectRuntime.admitJob,                *)
(* captureSearchRead, closeInternal, requestShutdown).                     *)
THEOREM RegistryKept == Spec => []RegistryInvariants
<1> USE HelpersAgree DEF SameHelpers
<1>1. registry!Spec => []registry!TypeOK
  BY LimitsFit, registry!TypeCorrect DEF registry!TypeCorrect
<1>2. registry!Spec => []registry!SlotsAccounted
  BY LimitsFit, registry!SlotsExact DEF registry!SlotsExact
<1>3. registry!Spec => []registry!NothingLost
  BY LimitsFit, registry!NoJobLost DEF registry!NoJobLost
<1>4. registry!Spec => []registry!LeasesAccounted
  BY LimitsFit, registry!LeasesExact DEF registry!LeasesExact
<1>5. registry!Spec => []registry!StreamsWellFormed
  BY LimitsFit, registry!StreamsEnd DEF registry!StreamsEnd
<1>6. registry!Spec => []registry!RetentionBounded
  BY LimitsFit, registry!RetentionKept DEF registry!RetentionKept
<1>7. registry!Spec => []registry!QueueOverrunBounded
  BY LimitsFit, registry!OverrunBounded DEF registry!OverrunBounded
<1>8. registry!TypeOK => jobs!TypeOK
  BY DEF registry!TypeOK, registry!Registry, registry!State, registry!Reason, registry!Terminal,
     registry!EventType, registry!DispatcherAt, jobs!TypeOK, jobs!Registry, jobs!State,
     jobs!Reason, jobs!Terminal, jobs!EventType, jobs!DispatcherAt
<1>9. registry!SlotsAccounted => jobs!SlotsAccounted
  BY DEF registry!SlotsAccounted, registry!InHand, registry!AtWork,
     jobs!SlotsAccounted, jobs!InHand, jobs!AtWork
<1>10. registry!NothingLost => jobs!NothingLost
  BY DEF registry!NothingLost, registry!InHand, registry!AtWork, registry!InQueue,
     jobs!NothingLost, jobs!InHand, jobs!AtWork, jobs!InQueue
<1>11. registry!LeasesAccounted => jobs!LeasesAccounted
  BY DEF registry!LeasesAccounted, jobs!LeasesAccounted
<1>12. registry!StreamsWellFormed => jobs!StreamsWellFormed
  BY DEF registry!StreamsWellFormed, registry!IsTerminalEvent, registry!Terminal, registry!EventOf,
     jobs!StreamsWellFormed, jobs!IsTerminalEvent, jobs!Terminal, jobs!EventOf
<1>13. registry!RetentionBounded => jobs!RetentionBounded
  BY DEF registry!RetentionBounded, jobs!RetentionBounded
<1>14. registry!QueueOverrunBounded => jobs!QueueOverrunBounded
  BY DEF registry!QueueOverrunBounded, registry!InHand, jobs!QueueOverrunBounded, jobs!InHand
<1>15. /\ registry!TypeOK /\ registry!SlotsAccounted /\ registry!NothingLost
       /\ registry!LeasesAccounted /\ registry!StreamsWellFormed /\ registry!RetentionBounded
       /\ registry!QueueOverrunBounded
       => RegistryInvariants
  BY <1>8, <1>9, <1>10, <1>11, <1>12, <1>13, <1>14 DEF RegistryInvariants
<1> HIDE HelpersAgree
<1> QED BY <1>1, <1>2, <1>3, <1>4, <1>5, <1>6, <1>7, <1>15, RegistrySpec, PTL

(* Inside the runtime, too, jobs start in the order of their submission    *)
(* and the oldest results are dropped first; and no client sees a job do   *)
(* what JobLifecycle does not allow, whoever shuts down, cancels or fails  *)
(* meanwhile (JobRegistry behind ProjectRuntime).                          *)
THEOREM RegistryOrderKept ==
    Spec => jobs!StartsInOrder /\ jobs!DropsOldestFirst /\ jobs!ImplementsLifecycle
<1>1. registry!Spec => registry!StartsInOrder
  BY LimitsFit, registry!OrderedStarts DEF registry!OrderedStarts
<1>2. registry!Spec => registry!DropsOldestFirst
  BY LimitsFit, registry!OldestDroppedFirst DEF registry!OldestDroppedFirst
<1>3. registry!Spec => registry!ImplementsLifecycle
  BY LimitsFit, registry!LifecycleImplemented DEF registry!LifecycleImplemented
<1>4. UNCHANGED registry!vars <=> UNCHANGED jobs!vars
  BY DEF registry!vars, jobs!vars, registry!dispatchVars, registry!signalVars, registry!workVars,
     jobs!dispatchVars, jobs!signalVars, jobs!workVars
<1>5. registry!StartsInOrder => jobs!StartsInOrder
  <2> DEFINE A == \A j \in Job : reg.state[j] = "QUEUED" /\ reg'.state[j] = "RUNNING" =>
                     \A k \in registry!Alive(reg) :
                        reg.number[k] < reg.number[j] => reg.state[k] # "QUEUED"
             B == \A j \in Job : reg.state[j] = "QUEUED" /\ reg'.state[j] = "RUNNING" =>
                     \A k \in jobs!Alive(reg) :
                        reg.number[k] < reg.number[j] => reg.state[k] # "QUEUED"
  <2>1. [A]_(registry!vars) => [B]_(jobs!vars)
    BY <1>4, HelpersAgree DEF SameHelpers
  <2> QED BY <2>1, PTL DEF registry!StartsInOrder, jobs!StartsInOrder
<1>6. registry!DropsOldestFirst => jobs!DropsOldestFirst
  <2> DEFINE A == \A j \in reg.records \ reg'.records,
                     k \in registry!Completed(reg) \cap reg'.records :
                        /\ j \in registry!Completed(reg)
                        /\ reg.order[j] < reg.order[k] \/ (reg.size[j] > 0 /\ reg.size[k] = 0)
             B == \A j \in reg.records \ reg'.records,
                     k \in jobs!Completed(reg) \cap reg'.records :
                        /\ j \in jobs!Completed(reg)
                        /\ reg.order[j] < reg.order[k] \/ (reg.size[j] > 0 /\ reg.size[k] = 0)
  <2>1. [A]_(registry!vars) => [B]_(jobs!vars)
    BY <1>4, HelpersAgree DEF SameHelpers
  <2> QED BY <2>1, PTL DEF registry!DropsOldestFirst, jobs!DropsOldestFirst
<1>7. registry!ImplementsLifecycle => jobs!ImplementsLifecycle
  <2>1. registry!Lifecycle!Init => jobs!Lifecycle!Init
    BY DEF registry!Lifecycle!Init, jobs!Lifecycle!Init
  <2>2. [registry!Lifecycle!Next]_(registry!Lifecycle!vars) => [jobs!Lifecycle!Next]_(jobs!Lifecycle!vars)
    BY DEF registry!Lifecycle!Next, registry!Lifecycle!JobStep, registry!Lifecycle!Moves,
       registry!Lifecycle!Intends, registry!Lifecycle!Terminal, registry!Lifecycle!vars,
       registry!Reason, jobs!Reason,
       jobs!Lifecycle!Next, jobs!Lifecycle!JobStep, jobs!Lifecycle!Moves,
       jobs!Lifecycle!Intends, jobs!Lifecycle!Terminal, jobs!Lifecycle!vars
  <2> QED BY <2>1, <2>2, PTL DEF registry!ImplementsLifecycle, jobs!ImplementsLifecycle,
          registry!Lifecycle!Spec, jobs!Lifecycle!Spec
<1> QED BY <1>1, <1>2, <1>3, <1>5, <1>6, <1>7, RegistrySpec, PTL

(* Inside the runtime, too, the coordinator is a gate with one writer or   *)
(* readers of one snapshot (EngineGate), and once admissions are stopped   *)
(* it only empties (OperationCoordinator behind ProjectRuntime).           *)
THEOREM GateKept == Spec => coordinator!ImplementsGate /\ coordinator!QuiescenceIsStable
<1>1. table!Spec => table!ImplementsGate
  BY RequestsFit, table!GateImplemented DEF table!GateImplemented
<1>2. table!Spec => table!QuiescenceIsStable
  BY RequestsFit, table!QuiescenceIsStableHolds DEF table!QuiescenceIsStableHolds
<1>3. UNCHANGED table!vars <=> UNCHANGED coordinator!vars
  BY DEF table!vars, coordinator!vars
<1>4. table!QuiescenceIsStable => coordinator!QuiescenceIsStable
  <2>1. [coordinatorStopped => active' \subseteq active]_(table!vars)
           => [coordinatorStopped => active' \subseteq active]_(coordinator!vars)
    BY <1>3
  <2> QED BY <2>1, PTL DEF table!QuiescenceIsStable, coordinator!QuiescenceIsStable
<1>5. table!ImplementsGate => coordinator!ImplementsGate
  <2>1. table!InPrimary = coordinator!InPrimary /\ table!InIsolated = coordinator!InIsolated
        /\ table!InShared = coordinator!InShared
    BY DEF table!InPrimary, table!InIsolated, table!InShared, table!Primary, table!Isolated,
       table!Shared, coordinator!InPrimary, coordinator!InIsolated, coordinator!InShared,
       coordinator!Primary, coordinator!Isolated, coordinator!Shared
  <2>2. table!InPrimary' = coordinator!InPrimary' /\ table!InIsolated' = coordinator!InIsolated'
        /\ table!InShared' = coordinator!InShared'
    BY DEF table!InPrimary, table!InIsolated, table!InShared, table!Primary, table!Isolated,
       table!Shared, coordinator!InPrimary, coordinator!InIsolated, coordinator!InShared,
       coordinator!Primary, coordinator!Isolated, coordinator!Shared
  <2>3. table!Gate!Init => coordinator!Gate!Init
    BY <2>1 DEF table!Gate!Init, coordinator!Gate!Init
  <2>4. [table!Gate!Next]_(table!Gate!vars) => [coordinator!Gate!Next]_(coordinator!Gate!vars)
    BY <2>1, <2>2
     DEF table!Gate!Next, table!Gate!EnterPrimary, table!Gate!EnterIsolated,
         table!Gate!EndSnapshot, table!Gate!Leave, table!Gate!EnterShared, table!Gate!Shut,
         table!Gate!vars,
         coordinator!Gate!Next, coordinator!Gate!EnterPrimary, coordinator!Gate!EnterIsolated,
         coordinator!Gate!EndSnapshot, coordinator!Gate!Leave, coordinator!Gate!EnterShared,
         coordinator!Gate!Shut, coordinator!Gate!vars
  <2> QED BY <2>3, <2>4, PTL DEF table!ImplementsGate, coordinator!ImplementsGate,
          table!Gate!Spec, coordinator!Gate!Spec
<1> QED BY <1>1, <1>2, <1>4, <1>5, TableSpec, PTL
-----------------------------------------------------------------------------
(* Types.                                                                  *)

Stages == /\ lifecycle \in {"LOADING", "READY", "RELOADING", "FAILED", "SHUTTING_DOWN", "STOPPED"}
          /\ init \in {"none", "refused", "QUEUED", "RUNNING", "FINISHED"}
          /\ closeRequested \in BOOLEAN

LEMMA StagesNext == Stages /\ [Next]_vars => Stages'
<1> SUFFICES ASSUME Stages, [Next]_vars PROVE Stages'
  OBVIOUS
<1> USE DEF Stages
<1>1. ASSUME NEW o \in Op, Starts(o) PROVE Stages'
  BY <1>1 DEF Starts, withPrimaryClassRead, withExclusiveMappingExport, withEngineRead,
     withPrimarySymbolRead, withQueryRead, withTemporaryAnalysis, readPublished, saveProject,
     withExclusiveEdit, rebuild, reserveShutdown, reserveShutdownSave, outside, lifecycleVars
<1>2. ASSUME NEW o \in Op, OpStep(o) PROVE Stages'
  BY <1>2
     DEF OpStep, captureEngine, useEnds, snapshotEnds, createTemporary, readRepository,
         recheckEpoch, saved, stage, publishReplacement, closeOld, discard, restore,
         reportFatalRebuild, release, shutdownSave, acceptShutdown, unreserve, signalRefused,
         outside, lifecycleVars
<1>3. CASE initializeAsync \/ LoaderStep \/ close
  BY <1>3 DEF initializeAsync, LoaderStep, taskRuns, createFirst, loadFirst, publishFirst,
     initializationFails, discardFirst, taskEnds, finishShutdownIfQuiescent, close, outside,
     lifecycleVars
<1>4. ASSUME NEW a \in Op \cup Job \cup {Closer},
             CloseStep(a) \/ removeLease(a) \/ operationCompleted(a)
      PROVE  Stages'
  BY <1>4 DEF CloseStep, closeInternal, shutdownJobs, shutdownExecutors, closeDetached,
     finishClose, finishShutdownIfQuiescent, removeLease, operationCompleted, outside,
     lifecycleVars
<1>5. ASSUME NEW j \in Job,
             \/ prepareJob(j) \/ submitJob(j) \/ admitJob(j) \/ captureSearchRead(j)
             \/ startFails(j) \/ WorkerStep(j)
      PROVE  Stages'
  BY <1>5 DEF prepareJob, submitJob, admitJob, captureSearchRead, startFails, WorkerStep,
     taskReturns, execute, reportFatalRebuild, closesLease, elsewhere, lifecycleVars
<1>6. CASE dispatcherGoesOn \/ jobCalls \/ UNCHANGED vars
  BY <1>6 DEF dispatcherGoesOn, jobCalls, vars, outside, lifecycleVars
<1> QED BY <1>1, <1>2, <1>3, <1>4, <1>5, <1>6 DEF Next, LeaseStep

(* Every variable keeps its type: no path through publication, shutdown    *)
(* and job failure publishes a revision the repository never had, or       *)
(* finishes a cleanup that nobody began (closeInternal, publish).          *)
THEOREM TypeCorrect == Spec => []TypeOK
<1>1. Init => Stages
  BY DEF Init, Stages
<1>2. Spec => []Stages
  BY <1>1, StagesNext, PTL DEF Spec
<1>3. Leases /\ Types /\ Engines /\ Reservation /\ Stages /\ RegistryInvariants
         /\ CoordinatorInvariants => TypeOK
  <2> SUFFICES ASSUME Leases, Types, Engines, Reservation, Stages, RegistryInvariants,
                      CoordinatorInvariants
               PROVE  TypeOK
    OBVIOUS
  <2>1. coordinator!TypeOK /\ jobs!TypeOK
    BY DEF RegistryInvariants, CoordinatorInvariants
  <2>2. cleanupInProgress \in Nat
    BY FS_CardinalityType DEF Engines, Cleaning
  <2>3. published.admission \in Revision /\ published.epoch \in Nat
    BY DEF Leases, Numbers, Publications
  <2> QED BY <2>1, <2>2, <2>3 DEF TypeOK, Types, Stages, Reservation
<1> QED BY <1>2, <1>3, EnginesInvariance, ReservationInvariance, RegistryKept, CoordinatorKept, PTL

-----------------------------------------------------------------------------
(* The leases of jobs and the slots of the registry.                       *)

\* The registry still counts job j: its dispatcher or a worker has to conclude it.
StillCounts(j) == \/ cur = j /\ disp = "fail"
                  \/ worker[j] \in {"succeeded", "failed", "cancelled"}

\* A job's lease is removed before its slot is given back.
Releasing == \A j \in Job : at[j] = "closing" => StillCounts(j)

LEMMA ReleasingNext == Leases /\ Types /\ Releasing /\ [Next]_vars => Releasing'
<1> SUFFICES ASSUME Leases, Types, Releasing, [Next]_vars, NEW j \in Job, at'[j] = "closing"
             PROVE  StillCounts(j)'
  BY DEF Releasing
<1>1. /\ worker \in [Job -> WorkerState] /\ at \in [Actor -> OpPlace \cup JobPlace \cup LoaderPlace]
      /\ j \in Actor /\ j \notin Op /\ j # Loader /\ j # Closer
      /\ Prepares(j) => worker[j] = "none"
  BY ActorAssumption DEF Leases, Places, Hand, Actor, JobFits
<1>2. at[j] = "closing" => StillCounts(j)
  BY DEF Releasing
<1>3. ASSUME NEW a \in Actor, a # j, OnlyOwn(a) PROVE at[j] = "closing"
  BY <1>1, <1>3 DEF OnlyOwn, OnlyMoves
<1>4. ASSUME SameHand, at[j] = "closing" PROVE StillCounts(j)'
  BY <1>2, <1>4 DEF SameHand, StillCounts
<1>5. CASE (\E o \in Op : OpActs(o) /\ OnlyOwn(o)) \/ (LoaderStep /\ OnlyOwn(Loader))
           \/ (CloserActs /\ OnlyOwn(Closer))
  <2>1. at[j] = "closing" /\ SameHand
    BY <1>1, <1>3, <1>5, HandElsewhere DEF Actor
  <2> QED BY <2>1, <1>4
<1>6. ASSUME NEW i \in Job, OnlyOwn(i),
             prepareJob(i) \/ submitJob(i) \/ reportFatalRebuild(i) \/ LeaseStep(i)
      PROVE  StillCounts(j)'
  <2>1. SameHand
    BY <1>6, HandElsewhere
  <2>2. at[j] = "closing"
    <3>1. CASE i # j
      BY <1>3, <1>6, <3>1 DEF Actor
    <3>2. CASE i = j /\ removeLease(j)
      BY <3>2 DEF removeLease, actorVars
    <3>3. CASE i = j /\ ~ removeLease(j)
      BY <1>1, <1>6, <3>3
       DEF prepareJob, submitJob, reportFatalRebuild, LeaseStep, operationCompleted, CloseStep,
           closeInternal, shutdownJobs, shutdownExecutors, closeDetached, finishClose, GoTo,
           Cleanup, AfterRelease
    <3> QED BY <3>1, <3>2, <3>3
  <2> QED BY <1>4, <2>1, <2>2
<1>7. ASSUME NEW i \in Job, OnlyOwn(i), admitJob(i) PROVE StillCounts(j)'
  <2>1. at[j] = "closing" /\ disp = "admit" /\ UNCHANGED worker
    BY <1>7 DEF admitJob, actorVars, jobs!gateGrants, jobs!gateBlocks, jobs!gateStops,
       jobs!gateFails, jobs!workVars
  <2> QED BY <1>2, <2>1 DEF StillCounts
<1>8. ASSUME NEW i \in Job, OnlyOwn(i), captureSearchRead(i) \/ startFails(i) PROVE StillCounts(j)'
  <2>1. /\ i = cur /\ UNCHANGED <<worker, cur>> /\ disp # "fail"
        /\ disp' = "fail" \/ UNCHANGED at
    BY <1>8 DEF captureSearchRead, startFails, closesLease, jobs!captureSucceeds,
       jobs!captureFails, jobs!abandonStart, jobs!launchRejected, jobs!GoTo, jobs!workVars
  <2>2. CASE at[j] = "closing"
    BY <1>2, <2>1, <2>2 DEF StillCounts
  <2>3. CASE at[j] # "closing"
    <3>1. i = j
      BY <1>3, <1>8, <2>3 DEF Actor
    <3> QED BY <2>1, <2>3, <3>1 DEF StillCounts
  <2> QED BY <2>2, <2>3
<1>9. ASSUME NEW i \in Job, OnlyOwn(i), taskReturns(i) PROVE StillCounts(j)'
  <2>1. /\ UNCHANGED <<disp, cur>>
        /\ \E outcome \in {"succeeded", "failed", "cancelled"} :
              worker' = [worker EXCEPT ![i] = outcome]
    BY <1>9 DEF taskReturns, closesLease, jobs!taskReturns, jobs!Outcome, jobs!dispatchVars
  <2>2. CASE i = j
    BY <1>1, <2>1, <2>2 DEF StillCounts
  <2>3. CASE i # j
    <3>1. at[j] = "closing"
      BY <1>3, <1>9, <2>3 DEF Actor
    <3> QED BY <1>1, <1>2, <2>1, <2>3, <3>1 DEF StillCounts
  <2> QED BY <2>2, <2>3
<1>10. ASSUME NEW i \in Job, OnlyOwn(i), execute(i) PROVE StillCounts(j)'
  <2>1. /\ UNCHANGED <<disp, cur>> /\ worker' = [worker EXCEPT ![i] = "none"]
        /\ at[i] = "done" /\ at' \in {at, [at EXCEPT ![i] = "fatal"]}
    BY <1>10 DEF execute, jobs!execute, jobs!dispatchVars
  <2>2. i # j /\ at[j] = "closing"
    BY <1>1, <2>1 DEF Actor
  <2> QED BY <1>1, <1>2, <2>1, <2>2 DEF StillCounts
<1>11. CASE dispatcherGoesOn
  <2>1. at[j] = "closing"
    BY <1>11 DEF dispatcherGoesOn, actorVars
  <2>2. CASE worker[j] \in {"succeeded", "failed", "cancelled"}
    <3>1. worker'[j] = worker[j]
      BY <1>1, <1>11, <2>2, DispatcherMoves DEF Prepares
    <3> QED BY <2>2, <3>1 DEF StillCounts
  <2>3. CASE cur = j /\ disp = "fail"
    <3>1. cur # None /\ Returned(cur)
      BY <1>11, <2>3
       DEF dispatcherGoesOn, jobs!runDispatch, jobs!clearPending, jobs!whilePending,
           jobs!unschedule, jobs!recheck, jobs!pumpHead, jobs!pumpReturns, jobs!requeueBlocked,
           jobs!startAdmitted, jobs!launch
    <3> QED BY <2>1, <2>3, <3>1 DEF Returned
  <2> QED BY <1>2, <2>1, <2>2, <2>3 DEF StillCounts
<1>12. CASE (initializeAsync \/ jobCalls \/ UNCHANGED vars) /\ NobodyMoves
  <2>1. SameHand /\ at[j] = "closing"
    BY <1>12, HandElsewhere DEF NobodyMoves
  <2> QED BY <1>4, <2>1
<1> QED BY <1>5, <1>6, <1>7, <1>8, <1>9, <1>10, <1>11, <1>12, WhoMoves
        DEF JobActs, NobodyActs, WorkerStep

(* The leases that jobs hold of the engine never outnumber the slots that  *)
(* the registry counts, hence not maxRunning either: startAdmitted and     *)
(* execute close the lease, and its callback returns, before the section   *)
(* that gives the slot back.                                               *)
THEOREM JobLeasesWithinSlots == Spec => [](JobLeasesHaveSlots /\ reg.slots <= MaxRunning)
<1>1. Spec => []Releasing
  <2>1. Init => Releasing
    BY DEF Init, Releasing, Actor
  <2>2. Leases /\ Types /\ Releasing /\ [Next]_vars => Leases' /\ Types' /\ Releasing'
    BY LeasesNext, TypesNext, ReleasingNext
  <2>3. Spec => [](Leases /\ Types /\ Releasing)
    BY <2>1, <2>2, LeasesInit, TypesInit, PTL DEF Spec
  <2> QED BY <2>3, PTL
<1>2. Spec => []IsFiniteSet(jobs!InHand \cup jobs!AtWork)
  <2>1. registry!Spec => []registry!IsFiniteSet(registry!InHand \cup registry!AtWork)
    BY LimitsFit, registry!OccupiedStaysFinite DEF registry!OccupiedStaysFinite
  <2>2. registry!IsFiniteSet(registry!InHand \cup registry!AtWork)
           => IsFiniteSet(jobs!InHand \cup jobs!AtWork)
    BY DEF registry!IsFiniteSet, IsFiniteSet, registry!InHand, registry!AtWork,
       jobs!InHand, jobs!AtWork
  <2> QED BY <2>1, <2>2, RegistrySpec, PTL
<1>3. /\ Leases /\ Releasing /\ IsFiniteSet(jobs!InHand \cup jobs!AtWork)
      /\ CoordinatorInvariants /\ RegistryInvariants
      => JobLeasesHaveSlots /\ reg.slots <= MaxRunning
  <2> SUFFICES ASSUME Leases, Releasing, IsFiniteSet(jobs!InHand \cup jobs!AtWork),
                      CoordinatorInvariants, RegistryInvariants
               PROVE  JobLeasesHaveSlots /\ reg.slots <= MaxRunning
    OBVIOUS
  <2> DEFINE occupied == jobs!InHand \cup jobs!AtWork
  <2>1. reg.slots = Cardinality(occupied) /\ reg.slots <= MaxRunning
    BY DEF RegistryInvariants, jobs!SlotsAccounted, jobs!Cardinality, Cardinality
  <2>2. ASSUME NEW j \in active \cap Job PROVE j \in occupied
    <3>1. JobFits(j) /\ j \notin notified /\ j # None
      BY ActorAssumption
       DEF Leases, CoordinatorInvariants, coordinator!CallbackAfterRemoval, Actor
    <3>2. (cur = j /\ disp # "none") \/ worker[j] \in {"running", "succeeded", "failed", "cancelled"}
      BY <3>1 DEF JobFits, Prepares, Releasing, StillCounts
    <3> QED BY <3>1, <3>2 DEF jobs!InHand, jobs!AtWork
  <2> HIDE DEF occupied
  <2>3. Cardinality(active \cap Job) <= Cardinality(occupied)
    BY <2>2, FS_Subset DEF occupied
  <2> QED BY <2>1, <2>3 DEF JobLeasesHaveSlots
<1> QED BY <1>1, <1>2, <1>3, LeasesInvariance, CoordinatorKept, RegistryKept, PTL

=============================================================================
