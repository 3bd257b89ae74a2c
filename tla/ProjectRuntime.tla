--------------------------- MODULE ProjectRuntime ---------------------------
(***************************************************************************)
(* app/ProjectRuntime.java: the owner of one project.  It loads the engine *)
(* in the background, admits foreground operations and jobs to it, swaps   *)
(* it for a rebuilt one, and shuts everything down once nobody uses it.    *)
(* The operation coordinator and the job registry are its parts, taken     *)
(* from their own modules: an action here is a synchronized (lifecycleLock)*)
(* section with every call it makes into them, or one step between two     *)
(* sections.                                                               *)
(*                                                                         *)
(* Every actor runs one activity: a foreground operation, a job, the       *)
(* loader thread, and the one thread that gets to call close().  at[a] is  *)
(* where actor a is.  An engine has the name of the actor that made it.    *)
(* A refused operation changes nothing and is no step, except for a        *)
(* refused shutdown, whose reservation others can see.                     *)
(***************************************************************************)
EXTENDS Naturals, Sequences, FiniteSets

CONSTANTS Op,             \* foreground operations, one call each
          Loader, Closer, \* the loader thread, the thread that calls close()
          Key,            \* keys of class and query reads
          Kinds,          \* which foreground operations are called
          JobCalls,       \* which calls of the job API and its timer are made
          Job, None, MaxQueued, MaxRunning, MaxRetained,
          MaxResultBytes, MaxTotalResultBytes, ResultSizes

AllKinds == {"classRead", "symbolRead", "queryRead", "mappingExport", "temporary",
             "publishedRead", "save", "edit", "rebuild", "shutdown"}

Actor == Op \cup Job \cup {Loader, Closer}
Engine == Op \cup {Loader}     \* whoever creates one
Revision == Nat
Categories == {"PROJECT_EXCLUSIVE", "CLASS_READ", "INDEX_READ", "QUERY_READ",
               "TEMPORARY_ANALYSIS"}

\* The requests of the runtime's callers.
Requests == [category : Categories, key : Key, admission : Revision]

ASSUME ActorAssumption == /\ Op \cap Job = {} /\ Loader # Closer
                          /\ {Loader, Closer} \cap (Op \cup Job) = {}
                          /\ None \notin Actor \cup Requests /\ Key # {}
                          /\ Kinds \subseteq AllKinds
                          /\ JobCalls \subseteq {"cancel", "timer"}

ASSUME LimitsAssumption ==      \* JobLimits' compact constructor
    /\ {MaxQueued, MaxRunning, MaxRetained, MaxResultBytes} \subseteq Nat \ {0}
    /\ MaxTotalResultBytes \in Nat /\ MaxTotalResultBytes >= MaxResultBytes
    /\ ResultSizes \subseteq Nat \ {0}
    /\ None \notin {"USER", "DEADLINE", "SHUTDOWN"}  \* JobRegistry's Reason

VARIABLES active, request, capturing, closed, notified, coordinatorStopped,
          reg, disp, cur, how, pending, scheduled, runnable, worker, returned,
          leased, executors,
          lifecycle,         \* Lifecycle
          shutdownReserved,
          cleanupInProgress,
          init,              \* the initialization task's state
          closeRequested,    \* a shutdown was accepted, or a fatal error reported
          repository,        \* logical revision of the native repository, or None
          published,         \* publishedAdmission, publicationEpoch, publishedSearchIdentity
          activeEngine,
          engine,            \* per engine, its state
          at, kind,          \* where each actor is, and in which operation
          hold,              \* the engine each actor borrowed or has to close
          seen,              \* per operation, the epoch and revision readPublished saw
          spec               \* per job, the search identity it was made for

coordinatorVars == <<active, request, capturing, closed, notified, coordinatorStopped>>
jobsVars == <<reg, disp, cur, how, pending, scheduled, runnable, worker, returned,
              leased, executors>>
lifecycleVars == <<lifecycle, shutdownReserved, cleanupInProgress, init, closeRequested>>
publicationVars == <<repository, published, activeEngine>>
actorVars == <<at, kind, hold, seen, engine, spec>>
outside == <<coordinatorVars, jobsVars, lifecycleVars, publicationVars>>
vars == <<outside, actorVars>>

coordinator == INSTANCE OperationCoordinator WITH
    Lease <- Op \cup Job, Admission <- Revision, Request <- Requests,
    NoRequest <- None, stopped <- coordinatorStopped

jobs == INSTANCE JobRegistry

NoIdentity == <<>>
NothingSeen == <<>>

TypeOK == /\ coordinator!TypeOK /\ jobs!TypeOK
          /\ lifecycle \in {"LOADING", "READY", "RELOADING", "FAILED", "SHUTTING_DOWN", "STOPPED"}
          /\ {shutdownReserved, closeRequested} \subseteq BOOLEAN
          /\ cleanupInProgress \in Nat
          /\ init \in {"none", "refused", "QUEUED", "RUNNING", "FINISHED"}
          /\ repository \in Revision \cup {None}
          /\ published.admission \in Revision /\ published.epoch \in Nat
          /\ activeEngine \in Engine \cup {None}
          /\ engine \in [Engine -> {"none", "open", "closed"}]
          /\ hold \in [Actor -> Engine \cup {None}]

Init == /\ coordinator!Init /\ jobs!Init
        /\ lifecycle = "LOADING" /\ shutdownReserved = FALSE
        /\ cleanupInProgress = 0 /\ init = "none" /\ closeRequested = FALSE
        /\ repository = None
        /\ published = [admission |-> 0, epoch |-> 0, identity |-> NoIdentity]
        /\ activeEngine = None
        /\ engine = [e \in Engine |-> "none"]
        /\ at = [a \in Actor |-> "idle"]
        /\ kind = [o \in Op |-> "none"]
        /\ hold = [a \in Actor |-> None]
        /\ seen = [o \in Op |-> NothingSeen]
        /\ spec = [j \in Job |-> NoIdentity]

-----------------------------------------------------------------------------
(* What the sections are made of.                                          *)

requireReady == ~ shutdownReserved /\ lifecycle = "READY"

GoTo(a, place) == at' = [at EXCEPT ![a] = place]

Take(a, e) == hold' = [hold EXCEPT ![a] = e]

closeEngine(e) == engine' = [engine EXCEPT ![e] = "closed"]

AsksToQuery(category, key) ==  \* bug: too weak a category
    [category |-> "QUERY_READ", key |-> key, admission |-> published.admission]

Asks(category, key) == [category |-> category, key |-> key, admission |-> published.admission]

\* tryAdmit from a foreground operation, inside admit() or a section of its own.
admit(o, category) ==
    /\ requireReady
    /\ \E key \in Key : coordinator!tryAdmit(o, Asks(category, key))

\* A publication: admission(), with the epoch that goes with it.
publishAs(revision, epoch) ==
    published' = [admission |-> revision, epoch |-> epoch, identity |-> <<revision, epoch>>]

withdrawIdentity == published' = [published EXCEPT !.identity = NoIdentity]

detachableAlways == activeEngine  \* bug: it may be in use

\* The engine that closeInternal and reportFatalRebuild take from the runtime.
detachable == IF coordinator!primaryEngineInUse THEN None ELSE activeEngine

detach(a) ==
    /\ Take(a, detachable)
    /\ activeEngine' = IF detachable = None THEN activeEngine ELSE None
    /\ cleanupInProgress' = IF detachable = None THEN cleanupInProgress ELSE cleanupInProgress + 1

quiescentIgnoringCleanup(task, cleanups) ==  \* bug: an engine may still be closing
    /\ lifecycle = "SHUTTING_DOWN"
    /\ task \notin {"QUEUED", "RUNNING"}
    /\ activeEngine = None
    /\ coordinator!inFlightCount = 0

quiescent(task, cleanups) ==
    /\ lifecycle = "SHUTTING_DOWN"
    /\ task \notin {"QUEUED", "RUNNING"}
    /\ cleanups = 0 /\ activeEngine = None
    /\ coordinator!inFlightCount = 0

finishShutdownIfQuiescent(task, cleanups) ==
    lifecycle' = IF quiescent(task, cleanups) THEN "STOPPED" ELSE lifecycle

-----------------------------------------------------------------------------
(* Initialization, on the loader thread.                                   *)

initializeAsync ==
    /\ init = "none"
    /\ init' = IF lifecycle = "LOADING" THEN "QUEUED" ELSE "refused"
    /\ UNCHANGED <<coordinatorVars, jobsVars, lifecycle, shutdownReserved, cleanupInProgress,
                   closeRequested, publicationVars, actorVars>>

taskRuns ==
    /\ at[Loader] = "idle" /\ init = "QUEUED"
    /\ init' = "RUNNING"
    /\ GoTo(Loader, "create")
    /\ UNCHANGED <<coordinatorVars, jobsVars, lifecycle, shutdownReserved, cleanupInProgress,
                   closeRequested, publicationVars, kind, hold, seen, engine, spec>>

\* Opening the repository and creating the engine.
createFirst ==
    /\ at[Loader] = "create"
    /\ \/ /\ lifecycle = "LOADING"
          /\ engine' = [engine EXCEPT ![Loader] = "open"]
          /\ GoTo(Loader, "load")
       \/ /\ lifecycle # "LOADING"
          /\ GoTo(Loader, "end")
          /\ UNCHANGED engine
       \/ /\ GoTo(Loader, "failed")
          /\ UNCHANGED engine
    /\ UNCHANGED <<outside, kind, hold, seen, spec>>

loadFirst ==
    /\ at[Loader] = "load"
    /\ \/ lifecycle = "LOADING" /\ GoTo(Loader, "publish")
       \/ lifecycle # "LOADING" /\ GoTo(Loader, "discard")
       \/ GoTo(Loader, "failed")
    /\ UNCHANGED <<outside, kind, hold, seen, engine, spec>>

publishFirst ==
    /\ at[Loader] = "publish"
    /\ IF lifecycle = "LOADING"
       THEN /\ activeEngine' = Loader /\ repository' = 1
            /\ publishAs(1, published.epoch)
            /\ lifecycle' = "READY"
            /\ GoTo(Loader, "end")
       ELSE GoTo(Loader, "discard") /\ UNCHANGED <<publicationVars, lifecycle>>
    /\ UNCHANGED <<coordinatorVars, jobsVars, shutdownReserved, cleanupInProgress, init,
                   closeRequested, kind, hold, seen, engine, spec>>

\* An Exception is only reported; an Error also reaches the supervisor.
initializationFails ==
    /\ at[Loader] = "failed"
    /\ lifecycle' = IF lifecycle = "LOADING" THEN "FAILED" ELSE lifecycle
    /\ closeRequested' \in {closeRequested, TRUE}
    /\ GoTo(Loader, IF engine[Loader] = "open" THEN "discard" ELSE "end")
    /\ UNCHANGED <<coordinatorVars, jobsVars, shutdownReserved, cleanupInProgress, init,
                   publicationVars, kind, hold, seen, engine, spec>>

discardFirst ==
    /\ at[Loader] = "discard"
    /\ closeEngine(Loader)
    /\ GoTo(Loader, "end")
    /\ UNCHANGED <<outside, kind, hold, seen, spec>>

taskEnds ==
    /\ at[Loader] = "end"
    /\ init' = "FINISHED"
    /\ finishShutdownIfQuiescent("FINISHED", cleanupInProgress)
    /\ GoTo(Loader, "done")
    /\ UNCHANGED <<coordinatorVars, jobsVars, shutdownReserved, cleanupInProgress,
                   closeRequested, publicationVars, kind, hold, seen, engine, spec>>

LoaderStep == taskRuns \/ createFirst \/ loadFirst \/ publishFirst \/ initializationFails
              \/ discardFirst \/ taskEnds

-----------------------------------------------------------------------------
(* Foreground operations under a lease of the coordinator.                 *)

Calls(o, k) == at[o] = "idle" /\ k \in Kinds

\* What is left to do depends on the operation only after its first step.
Continues(o, k) == kind' = [kind EXCEPT ![o] = k]

\* withPrimaryClassRead and withExclusiveMappingExport: the engine is read
\* in a later section.
withEngineRead(o, k, category) ==
    /\ Calls(o, k)
    /\ admit(o, category)
    /\ GoTo(o, "capture")
    /\ UNCHANGED <<jobsVars, lifecycleVars, publicationVars, kind, hold, seen, engine, spec>>

withPrimaryClassRead(o) == withEngineRead(o, "classRead", "CLASS_READ")

withExclusiveMappingExport(o) == withEngineRead(o, "mappingExport", "PROJECT_EXCLUSIVE")

captureEngine(o) ==
    /\ at[o] = "capture"
    /\ Take(o, activeEngine)
    /\ GoTo(o, "use")
    /\ UNCHANGED <<outside, kind, seen, engine, spec>>

withPrimarySymbolRead(o) ==
    /\ Calls(o, "symbolRead")
    /\ admit(o, "CLASS_READ")
    /\ Take(o, activeEngine)
    /\ GoTo(o, "use")
    /\ UNCHANGED <<jobsVars, lifecycleVars, publicationVars, kind, seen, engine, spec>>

\* withSearchSnapshotRead and withHierarchyVerifier, which read immutable data.
withQueryRead(o) ==
    /\ Calls(o, "queryRead")
    /\ admit(o, "QUERY_READ")
    /\ GoTo(o, "use")
    /\ UNCHANGED <<jobsVars, lifecycleVars, publicationVars, kind, hold, seen, engine, spec>>

useEnds(o) ==
    /\ at[o] = "use"
    /\ Take(o, None)
    /\ GoTo(o, "release")
    /\ UNCHANGED <<outside, kind, seen, engine, spec>>

\* withTemporarySourceRead and withOwnedDexRead.
withTemporaryAnalysis(o) ==
    /\ Calls(o, "temporary")
    /\ admit(o, "TEMPORARY_ANALYSIS")
    /\ GoTo(o, "snapshot")
    /\ UNCHANGED <<jobsVars, lifecycleVars, publicationVars, kind, hold, seen, engine, spec>>

snapshotEnds(o) ==
    /\ at[o] = "snapshot"
    /\ \/ coordinator!finishSnapshotCapture(o) /\ GoTo(o, "create")
       \/ GoTo(o, "release") /\ UNCHANGED coordinatorVars
    /\ UNCHANGED <<jobsVars, lifecycleVars, publicationVars, kind, hold, seen, engine, spec>>

createTemporary(o) ==
    /\ at[o] = "create"
    /\ \/ engine' = [engine EXCEPT ![o] = "open"] /\ GoTo(o, "discard")
       \/ GoTo(o, "release") /\ UNCHANGED engine
    /\ UNCHANGED <<outside, kind, hold, seen, spec>>

saveProject(o) ==
    /\ Calls(o, "save")
    /\ admit(o, "PROJECT_EXCLUSIVE")
    /\ GoTo(o, "save")
    /\ UNCHANGED <<jobsVars, lifecycleVars, publicationVars, kind, hold, seen, engine, spec>>

\* The section after the save publishes under a new epoch, at any time.
saved(o) ==
    /\ at[o] = "save"
    /\ publishAs(repository, published.epoch + 1) \/ UNCHANGED published
    /\ GoTo(o, "release")
    /\ UNCHANGED <<coordinatorVars, jobsVars, lifecycleVars, repository, activeEngine, kind,
                   hold, seen, engine, spec>>

\* readPublished() for status, settings and pending edits: no lease, but the
\* epoch from before the read must still be the current one after it.
readPublished(o) ==
    /\ Calls(o, "publishedRead")
    /\ requireReady
    /\ seen' = [seen EXCEPT ![o] = <<published.epoch>>]
    /\ GoTo(o, "read")
    /\ UNCHANGED <<outside, kind, hold, engine, spec>>

readRepository(o) ==
    /\ at[o] = "read"
    /\ seen' = [seen EXCEPT ![o] = Append(@, repository)]
    /\ GoTo(o, "check")
    /\ UNCHANGED <<outside, kind, hold, engine, spec>>

isCurrentAnyway(o) == TRUE  \* bug: the epoch is not compared

isCurrent(o) == seen[o][1] = published.epoch

\* Returns the result, starts over, or throws.  Starting over is the first
\* section again, with no step in between.
recheckEpoch(o) ==
    /\ at[o] = "check"
    /\ \/ requireReady /\ isCurrent(o) /\ GoTo(o, "returned") /\ UNCHANGED seen
       \/ /\ requireReady /\ ~ isCurrent(o)
          /\ seen' = [seen EXCEPT ![o] = <<published.epoch>>]
          /\ GoTo(o, "read")
       \/ ~ requireReady /\ GoTo(o, "done") /\ seen' = [seen EXCEPT ![o] = NothingSeen]
    /\ UNCHANGED <<outside, kind, hold, engine, spec>>

-----------------------------------------------------------------------------
(* Replacing the engine: edits keep READY, rebuilds go through RELOADING.  *)

\* withExclusiveEdit and withExclusiveMappingImport.
withExclusiveEdit(o) ==
    /\ Calls(o, "edit") /\ Continues(o, "edit")
    /\ admit(o, "PROJECT_EXCLUSIVE")
    /\ Take(o, activeEngine)
    /\ GoTo(o, "stage")
    /\ UNCHANGED <<jobsVars, lifecycleVars, publicationVars, seen, engine, spec>>

unpublishEpochOnly == published' = [published EXCEPT !.epoch = @ + 1]  \* bug: identity stays

unpublish == published' = [published EXCEPT !.epoch = @ + 1, !.identity = NoIdentity]

\* admitReloading, for reloadProject and updateMappingsPath.
rebuild(o) ==
    /\ Calls(o, "rebuild") /\ Continues(o, "rebuild")
    /\ admit(o, "PROJECT_EXCLUSIVE")
    /\ lifecycle' = "RELOADING"
    /\ unpublish
    /\ Take(o, activeEngine)
    /\ GoTo(o, "stage")
    /\ UNCHANGED <<jobsVars, shutdownReserved, cleanupInProgress, init, closeRequested,
                   repository, activeEngine, seen, engine, spec>>

\* Where an Exception leads once the replacement is closed.
Failed(o) == IF kind[o] = "rebuild" THEN "restore" ELSE "release"

\* Staging, creating and loading the replacement.  Only an edit may turn out
\* to have no effect.
stage(o) ==
    /\ at[o] = "stage"
    /\ \/ /\ engine' = [engine EXCEPT ![o] = "open"]
          /\ at' \in {[at EXCEPT ![o] = p] : p \in {"publish", "discard", "fatal"}}
       \/ /\ UNCHANGED engine
          /\ at' \in {[at EXCEPT ![o] = p] : p \in {Failed(o), "fatal"}}
    /\ UNCHANGED <<outside, kind, hold, seen, spec>>

mayPublish(o) == /\ lifecycle = IF kind[o] = "rebuild" THEN "RELOADING" ELSE "READY"
                 /\ activeEngine = hold[o]

\* The commit and the swap, under the repository's monitor and lifecycleLock.
\* A new mappings path that equals the old one keeps the revision.
publishReplacement(o) ==
    /\ at[o] = "publish"
    /\ \/ /\ mayPublish(o)
          /\ \E revision \in {repository + 1} \cup (IF kind[o] = "rebuild" THEN {repository} ELSE {}) :
                 repository' = revision /\ publishAs(revision, published.epoch + 1)
          /\ activeEngine' = o
          /\ lifecycle' = "READY"
          /\ GoTo(o, "closeOld")
       \/ /\ at' \in {[at EXCEPT ![o] = p] : p \in {"discard", "fatal"}}
          /\ UNCHANGED <<publicationVars, lifecycle>>
    /\ UNCHANGED <<coordinatorVars, jobsVars, shutdownReserved, cleanupInProgress, init,
                   closeRequested, kind, hold, seen, engine, spec>>

\* An Exception of the cleanup is only logged; an Error, of this one or of the
\* next, makes a rebuild or an edit fatal although it may have published.
closeOld(o) ==
    /\ at[o] = "closeOld"
    /\ closeEngine(hold[o])
    /\ Take(o, None)
    /\ at' \in {[at EXCEPT ![o] = p] : p \in {"release", "report"}}
    /\ UNCHANGED <<outside, kind, seen, spec>>

\* closeOwned on a temporary engine or on a replacement nobody published.
discard(o) ==
    /\ at[o] = "discard"
    /\ closeEngine(o)
    /\ Take(o, None)
    /\ \/ GoTo(o, Failed(o))
       \/ kind[o] \in {"edit", "rebuild"} /\ GoTo(o, "report")
    /\ UNCHANGED <<outside, kind, seen, spec>>

restoreOldIdentity(o) ==  \* bug: the epoch from before the rebuild is used again
    /\ at[o] = "restore"
    /\ IF lifecycle = "RELOADING"
       THEN lifecycle' = "READY" /\ publishAs(repository, published.epoch - 1)
       ELSE UNCHANGED <<lifecycle, published>>
    /\ Take(o, None)
    /\ GoTo(o, "release")
    /\ UNCHANGED <<coordinatorVars, jobsVars, shutdownReserved, cleanupInProgress, init,
                   closeRequested, repository, activeEngine, kind, seen, engine, spec>>

\* The catch block of rebuild().
restore(o) ==
    /\ at[o] = "restore"
    /\ IF lifecycle = "RELOADING"
       THEN lifecycle' = "READY" /\ publishAs(repository, published.epoch)
       ELSE UNCHANGED <<lifecycle, published>>
    /\ Take(o, None)
    /\ GoTo(o, "release")
    /\ UNCHANGED <<coordinatorVars, jobsVars, shutdownReserved, cleanupInProgress, init,
                   closeRequested, repository, activeEngine, kind, seen, engine, spec>>

\* reportFatalRebuild, by an operation that holds the exclusive lease or by a
\* job that has released its own.  Further reports of one operation, on its way
\* out or after another Error, find nothing left to change.
reportFatalRebuild(a) ==
    /\ at[a] \in {"fatal", "report"}
    /\ IF lifecycle \in {"SHUTTING_DOWN", "STOPPED"}
       THEN UNCHANGED <<lifecycle, published>>
       ELSE lifecycle' = "FAILED" /\ withdrawIdentity
    /\ coordinator!stopAdmissions
    /\ jobs!stopSubmissions
    /\ closeRequested' = TRUE
    /\ \/ detachable # None /\ detach(a) /\ GoTo(a, "cleanup")
       \/ /\ detachable = None
          /\ GoTo(a, IF a \in Job THEN "done"
                     ELSE IF at[a] = "fatal" /\ engine[a] = "open" THEN "discard"
                     ELSE Failed(a))
          /\ UNCHANGED <<hold, activeEngine, cleanupInProgress>>
    /\ UNCHANGED <<shutdownReserved, init, repository, kind, seen, engine, spec>>

-----------------------------------------------------------------------------
(* Lease.close() of a foreground operation or a job, with its callback.    *)

release(o) ==
    /\ at[o] = "release"
    /\ coordinator!close(o)
    /\ GoTo(o, "closing")
    /\ Continues(o, IF kind[o] \in {"edit", "rebuild"} THEN "none" ELSE kind[o])
    /\ UNCHANGED <<jobsVars, lifecycleVars, publicationVars, hold, seen, engine, spec>>

removeLease(a) ==
    /\ coordinator!remove(a)
    /\ UNCHANGED <<jobsVars, lifecycleVars, publicationVars, actorVars>>

\* What the thread goes on with: only a shutdown that saved has more to do.
AfterRelease(a) ==
    CASE a \in Op /\ kind[a] = "accepting" -> "accept"
      [] a \in Op /\ kind[a] = "refusing" -> "unreserve"
      [] OTHER -> "done"

closesRuntimeNever == FALSE  \* bug: the last release does not go on with the shutdown

closesRuntime == lifecycle = "SHUTTING_DOWN"

\* finishShutdownIfQuiescent cannot apply while not shutting down.
operationCompleted(a) ==
    /\ coordinator!afterRelease(a)
    /\ IF closesRuntime
       THEN GoTo(a, "detach") /\ UNCHANGED jobsVars
       ELSE GoTo(a, AfterRelease(a)) /\ jobs!signal
    /\ UNCHANGED <<lifecycleVars, publicationVars, kind, hold, seen, engine, spec>>

-----------------------------------------------------------------------------
(* closeInternal().                                                        *)

\* StartupSupervisor closes the runtime once, on request, after a fatal error
\* or because the JVM goes down.
close ==
    /\ at[Closer] = "idle"
    /\ GoTo(Closer, "detach")
    /\ UNCHANGED <<outside, kind, hold, seen, engine, spec>>

closeInternal(a) ==
    /\ at[a] = "detach"
    /\ IF lifecycle = "STOPPED"
       THEN /\ GoTo(a, AfterRelease(a))
            /\ UNCHANGED <<outside, hold>>
       ELSE /\ lifecycle' = "SHUTTING_DOWN"
            /\ IF lifecycle = "SHUTTING_DOWN" THEN UNCHANGED published ELSE withdrawIdentity
            /\ coordinator!stopAdmissions
            /\ jobs!stopSubmissions
            /\ detach(a)
            /\ init' = IF init = "QUEUED" THEN "FINISHED" ELSE init
            /\ GoTo(a, "jobs")
            /\ UNCHANGED <<shutdownReserved, closeRequested, repository>>
    /\ UNCHANGED <<kind, seen, engine, spec>>

SkipCleanup(a) == "finish"  \* bug: the detached engine is not closed

Cleanup(a) == IF hold[a] = None THEN "finish" ELSE "cleanup"

shutdownJobs(a) ==
    /\ at[a] = "jobs"
    /\ \/ jobs!shutdownLocked /\ GoTo(a, "executors")
       \/ reg.shutdownDone /\ GoTo(a, Cleanup(a)) /\ UNCHANGED jobsVars
    /\ UNCHANGED <<coordinatorVars, lifecycleVars, publicationVars, kind, hold, seen, engine, spec>>

shutdownExecutors(a) ==
    /\ at[a] = "executors"
    /\ jobs!shutdownExecutors
    /\ GoTo(a, Cleanup(a))
    /\ UNCHANGED <<coordinatorVars, lifecycleVars, publicationVars, kind, hold, seen, engine, spec>>

closeDetached(a) ==
    /\ at[a] = "cleanup"
    /\ closeEngine(hold[a])
    /\ GoTo(a, "finish")
    /\ UNCHANGED <<outside, kind, hold, seen, spec>>

leftAlwaysLess(a) == cleanupInProgress - 1  \* bug: also without a detached engine

left(a) == IF hold[a] = None THEN cleanupInProgress ELSE cleanupInProgress - 1

finishClose(a) ==
    /\ at[a] = "finish"
    /\ cleanupInProgress' = left(a)
    /\ finishShutdownIfQuiescent(init, left(a))
    /\ Take(a, None)
    /\ GoTo(a, AfterRelease(a))
    /\ UNCHANGED <<coordinatorVars, jobsVars, shutdownReserved, init, closeRequested,
                   publicationVars, kind, seen, engine, spec>>

CloseStep(a) == closeInternal(a) \/ shutdownJobs(a) \/ shutdownExecutors(a)
                \/ closeDetached(a) \/ finishClose(a)

-----------------------------------------------------------------------------
(* requestShutdown().                                                      *)

unfinishedJobs == {j \in reg.records : reg.state[j] \notin jobs!Terminal}

\* The first section, for a policy that needs no save.  A dirty project may
\* be refused later.
reserveShutdown(o) ==
    /\ Calls(o, "shutdown")
    /\ requireReady
    /\ shutdownReserved' = TRUE
    /\ jobs!reserveSubmissions
    /\ IF active # {} \/ unfinishedJobs # {}
       THEN GoTo(o, "unreserve")
       ELSE at' \in {[at EXCEPT ![o] = p] : p \in {"accept", "unreserve"}}
    /\ UNCHANGED <<coordinatorVars, lifecycle, cleanupInProgress, init, closeRequested,
                   publicationVars, kind, hold, seen, engine, spec>>

\* The same section for the policy SAVE, when the project is idle.
reserveShutdownSave(o) ==
    /\ at[o] = "idle" /\ "shutdown" \in Kinds
    /\ active = {} /\ unfinishedJobs = {}
    /\ admit(o, "PROJECT_EXCLUSIVE")
    /\ shutdownReserved' = TRUE
    /\ jobs!reserveSubmissions
    /\ GoTo(o, "shutdownSave")
    /\ UNCHANGED <<lifecycle, cleanupInProgress, init, closeRequested, publicationVars, kind,
                   hold, seen, engine, spec>>

\* Either way the lease is released before the request goes on.
shutdownSave(o) ==
    /\ at[o] = "shutdownSave"
    /\ \/ /\ publishAs(repository, published.epoch + 1)
          /\ Continues(o, "accepting")
       \/ /\ UNCHANGED published
          /\ Continues(o, "refusing")
    /\ GoTo(o, "release")
    /\ UNCHANGED <<coordinatorVars, jobsVars, lifecycleVars, repository, activeEngine, hold,
                   seen, engine, spec>>

acceptShutdown(o) ==
    /\ at[o] = "accept"
    /\ IF lifecycle = "READY"
       THEN /\ lifecycle' = "SHUTTING_DOWN"
            /\ withdrawIdentity
            /\ coordinator!stopAdmissions
            /\ jobs!stopReserved
            /\ shutdownReserved' = FALSE
            /\ closeRequested' = TRUE
            /\ GoTo(o, "done")
       ELSE /\ GoTo(o, "unreserve")
            /\ UNCHANGED <<lifecycle, published, coordinatorVars, jobsVars, shutdownReserved,
                           closeRequested>>
    /\ UNCHANGED <<cleanupInProgress, init, repository, activeEngine, kind, hold, seen, engine,
                   spec>>

unreservedWhenReady == lifecycle = "READY"  \* bug: not when a close came first

unreserved == TRUE

\* The finally block: first the reservation, then the signal.
unreserve(o) ==
    /\ at[o] = "unreserve"
    /\ shutdownReserved' = (shutdownReserved /\ ~ unreserved)
    /\ jobs!releaseSubmissionReservation
    /\ GoTo(o, "signal")
    /\ UNCHANGED <<coordinatorVars, lifecycle, cleanupInProgress, init, closeRequested,
                   publicationVars, kind, hold, seen, engine, spec>>

signalRefused(o) ==
    /\ at[o] = "signal"
    /\ jobs!signal
    /\ GoTo(o, "done")
    /\ UNCHANGED <<coordinatorVars, lifecycleVars, publicationVars, kind, hold, seen, engine, spec>>

-----------------------------------------------------------------------------
(* Jobs: search builds, each made for the search identity of one moment    *)
(* and submitted at a later one.                                           *)

elsewhere == <<lifecycleVars, publicationVars, kind, seen, engine>>

\* SearchService reads the identity a build is for.
prepareJob(j) ==
    /\ at[j] = "idle" /\ requireReady /\ published.identity # NoIdentity
    /\ spec' = [spec EXCEPT ![j] = published.identity]
    /\ GoTo(j, "prepared")
    /\ UNCHANGED <<coordinatorVars, jobsVars, hold, elsewhere>>

submitJob(j) ==
    /\ at[j] = "prepared" /\ requireReady
    /\ jobs!submit(j)
    /\ GoTo(j, "submitted")
    /\ UNCHANGED <<coordinatorVars, hold, spec, elsewhere>>

\* A poll only drops expired records, as most other sections do.
jobCalls ==
    /\ \/ "cancel" \in JobCalls /\ \E j \in Job : jobs!cancel(j)
       \/ "timer" \in JobCalls /\ jobs!tick
    /\ UNCHANGED <<coordinatorVars, actorVars, lifecycleVars, publicationVars>>

jobAsks(j) == Asks("CLASS_READ", CHOOSE k \in Key : TRUE)

staleTested(j) == spec[j][1] # published.admission

\* admitJob() and what the dispatcher makes of it.
admitJob(j) ==
    /\ j = cur
    /\ \/ /\ requireReady /\ ~ staleTested(j)
          /\ coordinator!tryAdmit(j, jobAsks(j))
          /\ jobs!gateGrants
       \/ /\ \/ lifecycle = "RELOADING"
             \/ requireReady /\ ~ staleTested(j) /\ ~ coordinator!admits(jobAsks(j))
          /\ jobs!gateBlocks
          /\ UNCHANGED coordinatorVars
       \/ /\ lifecycle # "RELOADING"
          /\ shutdownReserved \/ lifecycle \in {"SHUTTING_DOWN", "STOPPED"}
          /\ jobs!gateStops
          /\ UNCHANGED coordinatorVars
       \/ /\ ~ shutdownReserved
          /\ lifecycle = "FAILED" \/ (lifecycle = "READY" /\ staleTested(j))
          /\ jobs!gateFails
          /\ UNCHANGED coordinatorVars
    /\ UNCHANGED <<actorVars, lifecycleVars, publicationVars>>

mayCaptureAnyIdentity(j) == requireReady  \* bug: the search identity is not compared

mayCapture(j) == requireReady /\ spec[j] = published.identity

\* captureSearchRead, from JobRegistry.startAdmitted.
captureSearchRead(j) ==
    /\ j = cur
    /\ IF mayCapture(j)
       THEN /\ jobs!captureSucceeds
            /\ Take(j, activeEngine)
            /\ UNCHANGED <<coordinatorVars, at>>
       ELSE /\ jobs!captureFails
            /\ coordinator!close(j)
            /\ GoTo(j, "closing")
            /\ UNCHANGED hold
    /\ UNCHANGED <<spec, elsewhere>>

\* The registry closes the lease of job j in step A and drops the engine.
closesLease(j, A) ==
    /\ A
    /\ coordinator!close(j)
    /\ Take(j, None)
    /\ GoTo(j, "closing")
    /\ UNCHANGED <<spec, elsewhere>>

startFails(j) == j = cur /\ closesLease(j, jobs!abandonStart \/ jobs!launchRejected)

taskReturns(j) == closesLease(j, jobs!taskReturns(j))

ReturnedAnyway(j) == TRUE  \* bug: the slot is given back before the lease is removed

\* A thread that has closed a lease first returns from its callback.
Returned(j) == at[j] \in {"submitted", "done"}

dispatcherGoesOn ==
    /\ \/ jobs!runDispatch \/ jobs!clearPending \/ jobs!whilePending \/ jobs!unschedule
       \/ jobs!recheck \/ jobs!pumpHead \/ jobs!pumpReturns \/ jobs!requeueBlocked
       \/ jobs!startAdmitted \/ jobs!launch
       \/ cur # None /\ Returned(cur) /\ jobs!finishDispatchFailure
    /\ UNCHANGED <<coordinatorVars, actorVars, lifecycleVars, publicationVars>>

\* A task that ended with an Error goes on to reportFatalRebuild.
execute(j) ==
    /\ at[j] = "done"
    /\ jobs!execute(j)
    /\ at' \in {at} \cup (IF worker[j] = "failed" THEN {[at EXCEPT ![j] = "fatal"]} ELSE {})
    /\ UNCHANGED <<coordinatorVars, hold, spec, elsewhere>>

DispatcherStep == dispatcherGoesOn \/ \E j \in Job : admitJob(j) \/ captureSearchRead(j)
                                                    \/ startFails(j)

-----------------------------------------------------------------------------
Starts(o) == \/ withPrimaryClassRead(o) \/ withExclusiveMappingExport(o)
             \/ withPrimarySymbolRead(o) \/ withQueryRead(o)
             \/ withTemporaryAnalysis(o) \/ readPublished(o) \/ saveProject(o)
             \/ withExclusiveEdit(o) \/ rebuild(o)
             \/ reserveShutdown(o) \/ reserveShutdownSave(o)

\* What an operation does once admitted.
OpStep(o) == \/ captureEngine(o) \/ useEnds(o) \/ snapshotEnds(o) \/ createTemporary(o)
             \/ readRepository(o) \/ recheckEpoch(o)
             \/ saved(o) \/ stage(o) \/ publishReplacement(o) \/ closeOld(o) \/ discard(o)
             \/ restore(o) \/ reportFatalRebuild(o) \/ release(o)
             \/ shutdownSave(o) \/ acceptShutdown(o) \/ unreserve(o) \/ signalRefused(o)

LeaseStep(a) == removeLease(a) \/ operationCompleted(a) \/ CloseStep(a)

WorkerStep(j) == taskReturns(j) \/ execute(j) \/ reportFatalRebuild(j)

Next == \/ initializeAsync \/ LoaderStep
        \/ close \/ CloseStep(Closer)
        \/ \E o \in Op : Starts(o) \/ OpStep(o)
        \/ \E a \in Op \cup Job : LeaseStep(a)
        \/ \E j \in Job : prepareJob(j) \/ submitJob(j) \/ admitJob(j) \/ captureSearchRead(j)
                          \/ startFails(j) \/ WorkerStep(j)
        \/ dispatcherGoesOn \/ jobCalls

Spec == Init /\ [][Next]_vars

(* Every thread that has begun goes on: operations, tasks, loads and saves *)
(* end, and executors run what they accepted.  Nobody has to call; but     *)
(* StartupSupervisor does close the runtime once a shutdown is accepted    *)
(* (ShutdownService.responseCommitted) or a fatal error is reported        *)
(* (StartupSupervisor.handleFatal).                                        *)
Fairness == /\ WF_vars(LoaderStep)
            /\ WF_vars(DispatcherStep)
            /\ WF_vars((closeRequested /\ close) \/ CloseStep(Closer))
            /\ \A o \in Op : WF_vars(OpStep(o) \/ LeaseStep(o))
            /\ \A j \in Job : WF_vars(WorkerStep(j) \/ LeaseStep(j))

FairSpec == Spec /\ Fairness

-----------------------------------------------------------------------------
Open == {e \in Engine : engine[e] = "open"}

\* Jobs between their capture and the end of their lease.
Running == {j \in Job : worker[j] = "running" \/ (cur = j /\ disp \in {"start", "abandon", "launch"})}

(* An engine that an operation or a job works with, and the engine the     *)
(* runtime hands out, is loaded and not closed: neither shutdown nor a     *)
(* fatal error nor a replacement closes it under a reader, although they   *)
(* run on other threads (closeInternal, reportFatalRebuild).               *)
BorrowedEngineOpen ==
    /\ \A a \in Running \cup {o \in Op : at[o] \in {"stage", "publish", "closeOld"}} :
          hold[a] # None /\ engine[hold[a]] = "open"
    /\ \A o \in Op : at[o] = "use" /\ request[o].category # "QUERY_READ" =>
          hold[o] # None /\ engine[hold[o]] = "open"
    /\ activeEngine # None => engine[activeEngine] = "open"

\* Who will close each open engine.
Owned == ({activeEngine} \ {None})
         \cup {hold[a] : a \in {b \in Actor : at[b] \in {"jobs", "executors", "cleanup", "closeOld"}
                                            /\ hold[b] # None}}
         \cup {o \in Op : at[o] \in {"publish", "discard", "fatal"} /\ activeEngine # o}
         \cup (IF at[Loader] \in {"load", "publish", "failed", "discard"} THEN {Loader} ELSE {})

(* Every open engine has exactly one place that will close it: the runtime *)
(* or one thread.  No path through loading, replacement, failure, fatal    *)
(* errors and shutdown forgets one, or leaves one to two closers           *)
(* (closeInternal and reportFatalRebuild detach, publishReplacement swaps).*)
EnginesOwned ==
    /\ Open \subseteq Owned
    /\ \A a, b \in Actor : at[a] = "cleanup" /\ at[b] \in {"cleanup", "closeOld"} /\ a # b =>
          hold[a] # hold[b]
    /\ \A a \in Actor : at[a] = "cleanup" => hold[a] # activeEngine /\ engine[hold[a]] = "open"

(* STOPPED, which awaitStopped() waits for before the JVM exits, means     *)
(* that every engine ever made is closed, no lease is held and no task or  *)
(* load runs.                                                              *)
StoppedMeansQuiet ==
    lifecycle = "STOPPED" =>
        /\ Open = {} /\ active = {} /\ Running = {}
        /\ init \notin {"QUEUED", "RUNNING"} /\ cleanupInProgress = 0

(* The sections that take the repository's monitor and lifecycleLock in    *)
(* opposite orders (publishReplacement against the catch block of          *)
(* rebuild() and captureSearchRead) are never about to run at once: only   *)
(* the admission rules keep them from deadlocking.                         *)
LockOrderSafe ==
    \A o \in Op : at[o] = "publish" =>
        /\ \A p \in Op : at[p] # "restore"
        /\ cur # None => disp # "capture"

(* What is published describes the repository: while READY the admission   *)
(* and the search identity carry its revision and the current epoch, and   *)
(* no identity is offered during a rebuild, after success, failure, save   *)
(* or edit alike.                                                          *)
PublicationConsistent ==
    /\ lifecycle = "READY" => /\ published.admission = repository
                              /\ published.identity = <<repository, published.epoch>>
    /\ lifecycle = "RELOADING" => published.identity = NoIdentity

(* readPublished() returns a value of the project as it is published at    *)
(* that moment, although it reads without lease or lock.                   *)
ReadsAreCurrent ==
    [][\A o \in Op : at[o] = "check" /\ at'[o] = "returned" =>
           /\ lifecycle = "READY" /\ ~ shutdownReserved
           /\ seen[o][2] = repository]_vars

(* The reservation of a shutdown is held in the runtime and the registry   *)
(* together, by one request that will still resolve it: whatever refuses   *)
(* or overtakes the request, neither is left blocked for good.             *)
ReservationHeld ==
    /\ shutdownReserved = reg.reserved
    /\ shutdownReserved =>
          \E o \in Op : \/ at[o] \in {"shutdownSave", "accept", "unreserve"}
                        \/ kind[o] \in {"accepting", "refusing"} /\ at[o] \notin {"signal", "done"}

(* A search identity that was replaced never comes back: an index or a     *)
(* queued build made for it is never taken for current again, even when a  *)
(* rebuild fails and the old engine stays (admitReloading, rebuild).       *)
IdentityNeverReused ==
    [][\A j \in Job : spec[j] # NoIdentity /\ spec[j] # published.identity =>
           published'.identity # spec[j]]_vars

(* A job that was started works on the active engine and on the            *)
(* publication it was submitted for, until its lease is released           *)
(* (admitJob, captureSearchRead).                                          *)
JobsUseTheirSnapshot ==
    \A j \in Running : /\ hold[j] = activeEngine
                       /\ published.identity \in {NoIdentity, spec[j]}
                       /\ published.admission = spec[j][1]

(* A job's lease leaves the coordinator's table before the registry gives  *)
(* its slot back, on every path out of startAdmitted and execute: the      *)
(* engine never serves more jobs than maxRunning, and no job is refused    *)
(* for the lease of one that no longer counts (closeLease, execute).       *)
JobLeasesHaveSlots == Cardinality(active \cap Job) <= reg.slots

(* Once a shutdown has begun it completes: whichever lease, load or        *)
(* cleanup ends last goes on with it (operationCompleted, closeInternal).  *)
ShutdownCompletes == lifecycle = "SHUTTING_DOWN" ~> lifecycle = "STOPPED"

(* A submitted job ends: one that was refused by the gate is tried again   *)
(* after the release it waits for, no signal is lost, and shutdown or a    *)
(* fatal error cancels what is left (JobRegistry.signal, pump).            *)
JobsEnd == \A j \in Job : reg.state[j] = "QUEUED" ~> reg.state[j] \in jobs!Terminal \cup {"GONE"}

(* A refused shutdown does not cancel work (docs/phase-3-shutdown.md):     *)
(* SHUTDOWN is the reason of a cancellation only once the registry stops.  *)
RefusedShutdownCancelsNothing == \A j \in Job : reg.reason[j] = "SHUTDOWN" => reg.stopped

=============================================================================
