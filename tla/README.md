# Verification of libjadx

TLA+ models of libjadx - the Java service under `src/main` (a single-project
Jadx decompiler behind an HTTP API), its Python client under `python/src`, and
what the two exchange - checked with TLC on small instances. The lease table, the
job registry, the runtime that composes them, the event streams, the search index and
the client's revision cache are also proved correct with TLAPS, for every value of
their constants. Java paths below are relative to `src/main/java/dev/libjadx/`, Python
paths to `python/src/libjadx/`.

## 1. The system

One process serves one project. Jetty threads call the operations of the
runtime; one loader thread opens the project; one dispatcher thread, a pool of
workers and a timer thread run background jobs; and the supervisor's thread
closes everything. A client process talks HTTP to it through a generated client,
on which a hand-written facade keeps the revisions it has seen, guards changes
with them, and follows the event streams of jobs.

| Component | State it keeps | Operations | Talks to |
|---|---|---|---|
| Operation coordinator, `scheduler/OperationCoordinator` | active leases, their categories, keys and admissions; `capturing`; `stopped` | `tryAdmit`, `finishSnapshotCapture`, `Lease.close`, `stopAdmissions` | calls `afterRelease` back into the runtime |
| Job registry, `scheduler/JobRegistry` | queue, records, running slots, retained bytes, event streams, dispatch flags | `submit`, `cancel`, `snapshot`, `signal`, dispatch run, `execute`, `tick`, `shutdown`, reservation | asks the runtime for a lease; is signalled when one is released |
| Project runtime, `app/ProjectRuntime` | lifecycle, the active engine, the published admission, epoch and search identity, shutdown reservation, cleanups | initialization, one admission method for each kind of operation, `reloadProject`, edits and imports, `requestShutdown`, `close`, `reportFatalRebuild` | coordinator, registry, repository, engines |
| Startup supervisor, shutdown service | whether to close, watchdog | `responseCommitted`, `handleFatal`, `awaitStopped` | calls `ProjectRuntime.close` |
| Search service, `app/SearchService` | builds in flight, retained results and the order of their use | `ingest`, `query`, `buildIndex`, `runBuild`, `retain`, `pageFromCursor` | submits jobs, reads the published search identity, fills and reads the index |
| Search index store, `core/search/SearchIndexStore` | copied fragments of one publication, their status, order of use and bytes; generation; unfinished builds | `initialize`, `publishMembers`, `publishSource`, `failMembers`, `failSource`, `skipSource`, `resetDomains`, `beginBuild`, `finishBuild`, `view` | reads the published search identity |
| Native project repository, `project/NativeProjectRepository` | document, baselines on disk, revision, dirty flag | `save`, `commitEdits`, `prepareReload`, `commitReload` | called under leases of the runtime |
| Safe mapping files, `project/SafeMapping*` | none | open and replace files without following links | file system |
| Edit batches, `app/EditBatchService` | one batch at a time | stage, commit | one exclusive edit of the runtime |
| Mapping import and export | none | import, export | exclusive leases |
| Source, reference, control-flow, symbol services | none | read | class reads, temporary engines |
| Core data model, Jadx adapter | immutable values; an engine | load, decompile, close | Jadx |
| Event streams, `scheduler/JobRegistry`, `http/JobEventsHandler` | replay rings, subscriptions, their buffers and global count | `emitLocked`, `subscribe`, `next`, `close`, heartbeat, write | serve the client's stream |
| HTTP API, `http/StatusServlet` | none | route, read a body, answer | every service |
| Python SDK, session: `_common.py`, `project.py` | `RevisionCache`: session, logical and index revision, retired sessions | `observe`, `expected`, every method of `Project` | HTTP |
| Python SDK, events: `jobs.py`, `_sse.py` | parser, last event id | `Job.events`, `poll_updates` | HTTP |
| Python SDK, calls: `client.py`, `errors.py`, ... | none | one method per operation, `unwrap`, `api_error` | generated client |
| Generated client, `_generated/` | none | one module per endpoint, one class per record | HTTP |
| Configuration | none | parse | |

### What is hard, and what correct means

* **Coordinator.** `compatible()` decides pair by pair at the moment of an
  admission; leases then change (a capture ends) and go in any order. Correct:
  conflicting leases never coexist; a release callback never sees its own lease;
  after the stop the active set only shrinks.
* **Registry.** Five kinds of threads meet between short `synchronized (lock)`
  sections; a job in the dispatcher's hands is still `QUEUED` but in no queue;
  gate, capture, hand-over and task can each fail; intents are recorded while a
  result is on its way. Correct: a job is in one place and never lost, slots and
  leases are given back exactly once, recorded intent decides the outcome, event
  streams end with one terminal event, retention respects its three limits.
* **Runtime.** Engines are replaced while old ones are in use, and closed by
  whichever thread finds them unused; shutdown has several places that may
  finish it; a shutdown request reserves the service and may take that back;
  values published in one section are used in later ones; two monitors are taken
  in both orders. Correct: nobody works with a closed engine, none is leaked or
  closed twice, `STOPPED` means quiet, what is published describes the
  repository, begun shutdowns and submitted jobs end.
* **Event streams.** A subscriber gets a copy of the ring and then live events
  through a bounded buffer; it may be too slow, its connection may die while its
  thread sleeps, its record may be evicted while it closes itself; the client
  comes back with the last id it saw, to a ring that has moved on or to a process
  that knows nothing. Correct: what the iterator yields is gap-free unless it was
  told otherwise, subscriber slots are counted exactly and given back, and a
  client that goes on gets to the end or to an error.
* **Revision cache.** Answers of several threads arrive in any order, some of a
  process that is gone; a change may be sent again after a time-out. Correct: the
  cache holds a pair the service has had, never goes back, and preconditions keep
  a repeated change from being applied twice.
* **Search index.** Builds are cancelled, superseded and repeated for other domains,
  reads add what they decompiled in between, a publication may change before any
  section, fragments are replaced, marked and evicted, and a cursor comes back to
  results of an index that has moved on. Correct: what coverage reports is what the
  index holds, of its own publication only; a domain is complete only after a whole
  build; byte counters are exact; a page is served only from the index of its hits.
* **Contract.** Two code bases declare the same records, fields, statuses and
  error codes, each for itself. Correct: each side accepts what the other writes.
* **Not concurrent but delicate.** Repository baselines against the disk; they are
  in the plan.

`PROJECT.json` lists every hazard at its line, with the properties that address
it, and those not addressed yet with the reason.

## 2. Modules

| Module | Models | Lines |
|---|---|---|
| `EngineGate` | abstract: one engine entered in primary, shared or isolated mode | 73 |
| `OperationCoordinator` | `OperationCoordinator.java`; implements `EngineGate` | 199 |
| `OperationCoordinatorProofs` | the theorems about it | 285 |
| `JobLifecycle` | abstract: the life of a job as clients see it | 52 |
| `JobRegistry` | `JobRegistry.java`; implements `JobLifecycle` | 610 |
| `JobRegistryLemmas` | lemmas about its helpers and its `synchronized (lock)` sections, on the guarded record | 2827 |
| `JobRegistryProofs` | the theorems about it | 1398 |
| `ProjectRuntime` | `ProjectRuntime.java`, composed with instances of both | 880 |
| `ProjectRuntimeLeases` | theorems about it: leases, calls of its components, lock order | 1335 |
| `ProjectRuntimeProofs` | theorems about it: publication, engines, shutdown, and its components inside it | 3269 |
| `SearchIndexStore` | `SearchIndexStore.java`, section by section | 210 |
| `SearchService` | the builds, reads, searches and pages of `SearchService.java` on it | 330 |
| `SearchServiceProofs` | the theorems about both | 1967 |
| `EventFeed` | abstract: what a follower of a job's events may rely on | 74 |
| `JobEvents` | event streams from `emitLocked` to `Job.events()`; implements `EventFeed` | 456 |
| `JobEventsProofs` | the theorems about it | 3880 |
| `ClientSession` | `RevisionCache` and the operations of `Project` against a service that restarts | 287 |
| `ClientSessionProofs` | the theorems about it | 898 |
| `WireSchema` | what a field of a JSON object is to its writer and to its reader | 48 |
| `ClientModels` | the generated models, as `from_dict` and `to_dict` treat them | 519 |
| `ClientOperations` | the generated endpoints and the methods of the SDK on them | 265 |
| `ServerDtos` | the records the service writes | 375 |
| `ServerRoutes` | routes, forms of requests and answers of `StatusServlet` | 297 |
| `WireContract` | one call through all five of these | 234 |
| `MC*` | symmetry sets and requests of the checked instances | |

**`OperationCoordinator`.** Each monitor section is one action. `active`,
`request`, `capturing`, `closed`, `stopped` are the fields of the same name (of
the class or of `Lease`); `notified` records which callbacks ran. `Lease.close()`
is three steps, `close` (compare-and-set), `remove` (monitor) and `afterRelease`
(callback outside it). `Conflict(r, l)` is one pass of the loop in
`compatible()`. A refused admission changes nothing and is no step.

**`JobRegistry`.** `reg` is a record of everything guarded by `lock`; every
`synchronized (lock)` section is one action, helpers called with the lock held
(`finishLocked`, `purgeExpiredLocked`, `reclaimResultRoomLocked`, ...) are
functions from one `reg` to the next, under the names of the code. `disp`, `cur`,
`how` say where the dispatcher thread is in `pump()`, `startAdmitted()` and the
dispatch loop; `pending`, `scheduled`, `runnable` are `dispatchPending`,
`dispatchScheduled` and the task in the dispatcher's executor; `worker` and
`returned` are the worker threads; `leased` are the leases a thread of the
registry has to close. The gate is a parameter: it may grant, refuse, stop or
fail at any time, and so is the runtime, which may reserve the registry for a
shutdown, give the reservation back, and stop it, at any time.

**`ProjectRuntime`.** Instances of both modules share their variables with it,
and its actions are conjunctions of a `synchronized (lifecycleLock)` section and
the coordinator or registry operations called from it. `at[a]` is the program
counter of actor `a`: an operation, a job, the loader or the closer. An engine
is named after the actor that created it, `engine[e]` is whether it is open, and
`hold[a]` is the engine `a` borrowed, or has to close. The gate of the registry
is no parameter here: `admitJob` decides from the lifecycle, the reservation,
the job's revision and the coordinator, as `ProjectRuntime.admitJob` does.

How actors meet: a foreground release (`operationCompleted`) signals the
registry or, when shutting down, runs `closeInternal` on the same thread; a job's
release does the same on a dispatcher or worker thread, which goes on with the
registry's next section only after its callback has returned.

**`SearchIndexStore`.** The fields are variables under their names, `memberStatus`
and `sourceStatus` joined as `status`, `members` and `sources` as `held`, over
fragments (a domain and a class). Every `synchronized` section is an operator that says
what it leaves of them, its test of the publication included. `older` is the order of
use that the access-ordered `lru` keeps, as a relation, and `Keeps` says which of its
entries the eviction loop leaves: a newest part that fits, while the one evicted last
had still been too much. Bytes are added up as a cardinality (`Bytes`).

**`SearchService`.** A build is one actor with the places of `runBuild`: `resets` (when
forced), `begins`, the pass over all classes (`visits`), the two consistency passes over
the owners (`observesAgain`), `finishes`; `breaksOff` is a cancellation, a deadline, a
stale identity or an exception anywhere. A read is `ensureCatalog` or `ingest` in a class
read. A search takes a view, retains its results and is then asked for pages.
`emitted` is `emittedSources`, the texts a build has seen; `lastBuild` is history: the
last build begun of each domain of this index. Fragments are visited in any order, one
at a step, and the engine answers any text, another one at every look.

How it meets the runtime: a build and a read hold the primary lease from `admit` to
their end, and `captured` is the publication published with it, which is what
`Exclusion` and `JobsUseTheirSnapshot` say; publications are numbers that never
come back (`IdentityNeverReused`). The lease would also keep searches and publications
out while a build or a read works; the module does not use this, so that what it shows
is shown of the checks in the store.

**`JobEvents`.** `record[j]` is the sequence and the ring of a job; `conn[c]` is a
connection with its `Subscription` (`replay`, `live`, `closed`), the place of the
thread in `JobEventsHandler.serve`, the frames on the wire and whether either end
is gone; `consumer[k]` is a caller of `Job.events()` with its parser. Sections
under the registry's lock are single actions; `nextEvent`, `write`, `close` of one
handler are steps of their own, and so are `feed` and `yield` of the client. It
refines `EventFeed` by `cursor` (the last event yielded), `kept` (the front of the
ring) and `fresh` (nothing has been yielded and no id was given, or the client was
told that the history has expired).

**`ClientSession`.** `cache` and `retired` are the fields of `RevisionCache`;
`observe` and `expected` are operators under their names, taking the keys in the
order in which the code looks for them. `Operations` says of each method of
`Project` whether it sends preconditions, may commit, and under which keys it
answers. `requests` and `answers` are what is under way; `boot` and
`revision` are the service. `applied` and `final` are history: how often a
guarded change took effect, and the last revision of each session.

**`WireContract`.** A call is a choice of method and arguments; `Invoke` builds the
request from `ClientOperations`, `ReadRequest` takes it apart by `ServerRoutes`,
`Respond` picks any answer of the route, `ReadAnswer` takes it apart by
`ClientModels`, and `Deliver` is `unwrap`, `api_error` and `observe`. A body is
walked down a single nondeterministic path, so all bodies are covered by all
paths, and a nested record is read only if its writer can put it there.
`Judge` is the one place where a writer's and a reader's field meet.

How client and server meet: `JobEvents` has both ends in one module, because
the hazards are in the hand-over; `ClientSession` has a service reduced to
session, revision and the test of preconditions (`checkSession`), because nothing
else decides what a cache may hold; `WireContract` has no state but the call,
because a declaration does not depend on any. `JobEvents` begins where
`JobRegistry` (`StreamsWellFormed`) ends: at most one terminal event, the last.

### Abstractions

* **Time.** There is no clock. A section that finds a deadline passed records
  an intent that is never recorded again, and one that finds a time to live
  passed drops the record, so what each reading finds is chosen afresh.
  Expiry follows completion order, since all records have the same time to live.
* **`signal()`.** Setting `dispatchPending` and the compare-and-set on
  `dispatchScheduled` are one step, joined to the section before the call, except
  where a callback or `requestShutdown` signals by itself. Clearing, testing and
  re-testing the flags in the dispatch run are separate steps, because
  that is where a wake-up could be lost.
* **Data.** Keys are model values, a search identity is the pair of revision
  and epoch, results are sizes, event streams hold the types of events only.
  Progress events and diagnostics are left out of `JobRegistry`; in `JobEvents`,
  an event is its sequence number and whether it is terminal. On the wire, a value
  is its type, a literal of an enumeration or the name of a record; limits and
  formats of texts count as answers a route can give.
* **Connections.** Bytes in transit are whole frames: a parser that is fed half a
  frame keeps it, and a connection that ends there has lost that frame. A loss cuts
  both ends and is noticed; one that nobody notices is a connection that is open for
  ever. Heartbeats only matter by failing.
* **The client's threads.** `RevisionCache` takes its lock in `observe` and in
  `expected`, so each is one step; `AsyncProject` differs from `Project` by `await`
  in the same places, its tasks being the callers. Who reconnects, or sends a request
  again, is the caller, in the way `python/README.md` tells callers to.
* **Search.** A list of members and a source text are both a text with a size; what a
  search matches in it, and with it the limits on hits, is left out, and a result is the view
  it was found in and a size. A store that refuses returns false, which callers ignore, or
  throws, which is the end of the build. Time to live: any results may have expired at
  any look. The catalog of `initialize` is any of `Catalogs`. `finishes` includes the end of
  the job, since nothing of the index changes between the two.
* **One path at a time.** `WireContract` cannot see that two fields of one body
  contradict each other, only that one field is not what its reader takes. Which of
  several models a union tries is decided by `Agree`, as `from_dict` does: by the
  constant that tells them apart.
* **Merged or omitted.** Starting `readPublished` over is merged with its first
  section (nothing lies in between). A second `reportFatalRebuild` by the same
  operation, under the lease it still holds, is idempotent and merged with the first.
  Errors of a cleanup (`closeOwned`) are steps of their own where they matter: after
  them an edit or rebuild, published or not, goes to `report`, a temporary read to its
  release. Exceptions of `lease.close()`,
  Errors on the dispatcher thread, and the lease that
  `assertSearchBuildAvailable` takes and drops at once are left out.
  `loader.execute` cannot reject, since the loader is only closed after
  `initializeAsync` would refuse anyway. A repository without inputs (which has
  no engine) is not modelled.
* **Callers.** `close()` is called by one thread: `StartupSupervisor` guards it
  with a compare-and-set. A job is a search build, the only job production code
  submits. Hierarchy verification and search queries read immutable data, so
  they borrow no engine.
* **Bounds.** Each operation runs once, so `Op` bounds calls, engines and, in a
  run, the revision, which is any number otherwise (`Revision`). Submissions, completions and events are bounded by `Job`, a job being
  submitted once. In `JobEvents`, `MaxEvents`, `MaxLosses` and `WireCapacity` are
  bounds of the model; in `SearchService`, `MaxPublications`, `MaxBegun` (how many
  builds, reads and searches take part), and each of these comes once; in
  `ClientSession`, `MaxBoots`, `MaxRevision`, `MaxIntents`
  (changes a caller wants) and `MaxAttempts` (times it sends one). The other modules
  have no counter.

`CHECK_DEADLOCK FALSE` is set, except for `WireContract`, because each system may
really stop: the leases are used up, all jobs have been dropped, the runtime is
`STOPPED`, all builds, reads and searches are over, every consumer has come to an end,
or all intents were sent.

## 3. Runs

| Run | Instance | What it asks |
|---|---|---|
| `coordinator` | 4 leases, 7 requests, symmetry | exclusion, callback order, refinement of `EngineGate` (with it, stable quiescence) |
| `job_registry` | 3 jobs, queue 1, slot 1, retained 2, results of 2 and 3 with budget 3 (3 exceeds the single limit 2), symmetry | slots, places, leases, streams, retention, start order, drop order, refinement of `JobLifecycle` |
| `runtime_engine` | 2 operations of every kind, loader, closer, no job, symmetry | engine ownership and use, stopping, publication, reservation, currency of reads |
| `runtime_jobs` | 1 job with cancellation and deadline, 1 save, rebuild or shutdown | lock order against a capture, snapshots of jobs, leases of jobs against slots, identities |
| `runtime_ends` | 1 job, 1 query or shutdown request, fairness | every submitted job ends, every shutdown completes |
| `job_events` | 1 job of up to 4 events, ring 2, buffer 1, 1 subscriber slot; 1 consumer, 2 connections, 1 loss, restart; fairness | slots, refinement of `EventFeed`, followers end, dead subscribers go |
| `client_session` | 2 callers, 2 boots, revisions up to 2, 2 intents of 2 attempts; one operation of each kind of answer and precondition; symmetry | the cache is past, moves forward; repeated changes take effect once |
| `search` | 1 class, 3 texts: one partial, one too long; room for 2 bytes beside the catalog, or a catalog too large; 3 of 2 builds, 1 read and 2 searches; 2 publications; 1 result retained, of 1 byte; symmetry | coverage is honest, budgets are kept, pages are current |
| `wire` | every method, argument choice, answer and field | requests fit, answers are understood, changes are observed |
| `wire_item_errors` | the methods that edit | **violation**, finding 3 |
| `queue_limit` | as `job_registry` | **violation**, finding 1 |
| `refused_shutdown` | 1 job, 1 shutdown | **violation**, finding 2 |

**Why these bounds.** *Coordinator:* a conflict is between two leases; four give
a pair, a third that admits one of them, and one to release in between. Key
and admission only matter between shared leases, so the other categories come
once; two keys and two admissions show both comparisons. *Registry:* three jobs
let one run, one be in the dispatcher's hands or put back and one fill the queue;
three completions exceed two retained records, and two results of size 2 exceed
the byte budget. Two executing jobs would only add a second worker, which is
independent of the first except through `lock`. *Runtime:* exclusion allows at
most one primary and one isolated owner at a time, and all that happens is
between two activities plus loader, closer and fatal errors, which are always
present. *Events:* four events against a ring of two let the ring move past a
client that missed one, and a buffer of one overflows with the second unread event;
one slot and two connections let a dead subscription keep its successor out. One
consumer is enough for what it may rely on, since consumers meet only in the slots.
*Session:* two boots and one cache give an old boot's late answer, two callers a
pair read before and used after another's change, two attempts a repetition.
`Used` has one operation of each shape - observing only, a snapshot of the past,
required and optional preconditions, and both spellings of the revision after -
since others with the same row in `Operations` take the same steps; the proofs have
no such bound. *Liveness:* the last to release may be the query, the build or the load, and
`close()` or a fatal error comes at any time, so that one foreground operation is enough
to have every pair of them; a query keeps a build from its lease just as any reader of
the engine does, and its release must signal the dispatcher. The races of rebuilds with a
shutdown are in `runtime_engine`, for safety. *Search:* the two fragments of a class do
not both fit when one is large, so that a build evicts what it has counted; two
builds, so that one broken off is followed by one of the same or of other domains; two
publications, so that one is superseded; a partial text and one too long take the paths
that do not index. `MaxBegun` is 3: the read that makes the catalog with two builds, with
a build and a search, or with two searches. Three at once would only be a build under
two searches, which meet nowhere but in the retained results. Classes that share
a source owner, and several results retained at once, are left to the proof, which has
no bound.
*Wire:* the run is exhaustive. Symmetry is used in runs of safety
properties only, never in those of liveness.

**Fairness** (`FairSpec`): weak fairness for every thread that has begun: the
loader, the dispatcher, each operation after it was admitted, each worker. The
code justifies it: no section waits for anything but a monitor, executors run
what they accepted, and tasks are assumed to return (a task that ignores its
token forever keeps its lease in the code as well). No fairness makes anybody
call an operation, cancel a job or fire a deadline. `close()` is fair only after
a shutdown was accepted or a fatal error reported, since
`ShutdownService.responseCommitted` and `StartupSupervisor.handleFatal` then
call it. Weak fairness is enough: a thread that has begun always has a step it can
take, unless it waits for its own release callback, which is fair as well.

In `JobEvents`, `FairSpec` has weak fairness for the server's part of every
connection (a Jetty thread hands the request over, and the stream's own thread
serves it, waking up at least every heartbeat) and for every consumer (its caller
keeps iterating, and reconnects or polls when a stream breaks). Nothing obliges a
job to emit or to end, a record to be evicted, a connection to be lost or the
service to stop: `FollowersEnd` begins when the job has ended or is gone.

### Findings

1. **The queue can exceed `maxQueued`.** `requeueBlocked` puts a refused job back
   at the front without testing the capacity, while `submit` only counts the jobs
   in the queue; a submission between the two leaves `maxQueued + 1` jobs queued.
   `docs/phase-3-jobs-and-events.md:23` documents 32 queued jobs as the
   limit. Run `queue_limit` shows it, and `QueueOverrunBounded` in `job_registry`
   that one is all it can ever be.
2. **A refused shutdown can cancel a queued job.** `requestShutdown` sets
   `shutdownReserved` before it looks for work in the way. If the dispatcher asks
   for admission during the reservation it is told that the service shuts down
   and cancels the job with reason `SHUTDOWN`; the request is then refused
   because of that very job, and the service goes on.
   `docs/phase-3-shutdown.md:20-21` says that a conflicting request does not
   cancel work. Run `refused_shutdown` shows it.
3. **Item errors do not reach the caller.** A rejected batch is answered with
   `error.details.itemErrors` (`StatusServlet.java:571-573`), while `ApiError` of the
   SDK reads `itemErrors` of the error itself (`errors.py:46`), which the server's
   `ErrorBody` does not have; `item_errors` is always empty.
   `python/README.md:171-172` says that exceptions preserve them. The client's own
   tests build the errors they check. Run `wire_item_errors` shows it.

Three smaller observations have no run. A search with `requireComplete` can be
answered by an index status with 200, when the index is completed between the two
looks at its coverage (`SearchService.java:165`, `203`); the client raises
`UnexpectedResponseError`. `AnswersUnderstood` exempts that answer by name.
`buildIndex` reads the identity before it takes `buildLock` (`SearchService.java:199`,
`206`): a request that got stuck in between clears the table of running builds that a newer
publication has filled meanwhile, and the next request starts a second build of the same
domains; they still run one after the other. And a first answer of an old process that comes after one of the new process makes the
cache retire the live session (`_common.py:89-96`); guarded calls then fail as stale
until another restart, although the cache never goes back in the sense of
`CacheMovesForward`.

## 4. Proofs

`OperationCoordinatorProofs` proves, from `RequestAssumption` alone (requests
are triples of category, key and admission, and `NoRequest` is none of them), for
any set of leases, keys and admissions:

| Theorem | Statement |
|---|---|
| `TypeCorrect` | `Spec => []TypeOK`, including that only granted isolated leases are ever capturing |
| `ExclusionHolds` | `Spec => []Exclusion` |
| `CallbackAfterRemovalHolds` | `Spec => []CallbackAfterRemoval` |
| `QuiescenceIsStableHolds` | `Spec => QuiescenceIsStable` |
| `GateImplemented` | `Spec => ImplementsGate` |

The inductive invariant is

    IInv == TypeOK /\ Granting /\ CallbackAfterRemoval /\ Exclusion

`Exclusion` is not inductive alone. `tryAdmit` tests `Conflict` of a
candidate against the leases it finds; that this one-sided test gives the
symmetric `MayCoexist` needs the active leases to have been granted (`Granting`)
and the type of `capturing`, since a new isolated lease must be seen as capturing
by the primary owners that come after it. `CallbackAfterRemoval` needs that only
closed leases are notified and that an identity is granted once, which is again
`Granting`. The step lemma has a case for every action; admission is a
lemma of its own (`AdmitStep`), split by which of the two leases is the new one.

`GateImplemented` maps each step: an admission to the entrance of its category,
whose guard (`primary = {}` and so on) follows from `compatible` through
the definition of the three sets; `finishSnapshotCapture` to `EndSnapshot` or a
stutter; `remove` to `Leave`; `stopAdmissions` to `Shut`; the compare-and-set and
the callback to stutters.

`ClientSessionProofs` proves, from `BoundsAssumption` and `UsedAssumption` (the
bounds are positive, `None` and `UNSET` are two values that are no numbers, callers
use operations there are), for any set of callers and any bounds:

| Theorem | Statement |
|---|---|
| `TypeCorrect` | `Spec => []TypeOK` |
| `CacheIsPastHolds` | `Spec => []CacheIsPast` |
| `AppliedOnce` | `Spec => []GuardedChangeAppliedOnce` |
| `MovesForward` | `Spec => CacheMovesForward` |

The inductive invariant is

    IInv == Shape /\ FinalIsReached /\ CacheIsPast /\ Repeats /\ GuardedChangeAppliedOnce

`Shape` is the types, including that a cache with a session has a revision.
`CacheIsPast` alone is not inductive, since an answer written before a restart may
be observed after it: `Shape` says of every answer under way that its coordinates
were reached by its session, and `FinalIsReached` relates the history variable to
the running service. For `GuardedChangeAppliedOnce` the point is `Past(pair)`: a
pair the service has gone past is stale for ever, because revisions grow within a
session and sessions never come back. `Repeats` says that all requests of one
intent carry one pair (`OnePair`), and that once the intent has taken effect this
pair is past (`RequestsPast`, `CallsPast`), so whichever request comes later is
refused; that is where it matters that a change committed moves the revision. The
step lemma has a case for each action; `begin` and `succeed` have lemmas of
their own for the parts of `Repeats`.

`JobRegistryProofs` proves, from `LimitsAssumption` (what `JobLimits` demands of its
limits; results have a size; `None` is no job and no reason), for any set of jobs,
however many may wait, run and be retained:

| Theorem | Statement |
|---|---|
| `TypeCorrect` | `Spec => []TypeOK` |
| `SlotsExact` | `Spec => []SlotsAccounted` |
| `NoJobLost` | `Spec => []NothingLost` |
| `LeasesExact` | `Spec => []LeasesAccounted` |
| `StreamsEnd` | `Spec => []StreamsWellFormed` |
| `RetentionKept` | `Spec => []RetentionBounded` |
| `OverrunBounded` | `Spec => []QueueOverrunBounded` |
| `OrderedStarts` | `Spec => StartsInOrder` |
| `OldestDroppedFirst` | `Spec => DropsOldestFirst` |
| `LifecycleImplemented` | `Spec => ImplementsLifecycle` |

The inductive invariant is

    IInv == Guarded(reg) /\ IntentShown(reg) /\ Placed

and its parts follow the way the code is built. `Guarded` speaks of the record the
lock guards, and of nothing else: which jobs have a record, that submission and
completion numbers differ, that `bytes` is the sum of the sizes retained and within
its limit, how event logs look, that the queue is in order of submission. Every
helper is a function of that record, so `JobRegistryLemmas` proves of each helper,
once, what it keeps and what it changes; the sums of sizes are cardinalities, and
that `reclaimResultRoomLocked` finds room is proved by ranking the completed records
(`RanksNumber`). It then puts the helpers together to the sections of
the lock: each keeps `Guarded`, moves every job along its life (`Lived`) and drops
the oldest completed records first (`OldestFirst`), from whichever thread it is run.
`Placed` then says where the threads are: the dispatcher holds one job exactly
between `pump()` and the end of its turn (`HandMatches`), a job is where its state
says (`StatesMatch`), a slot is taken exactly for each job in the dispatcher's hands
or at work (`SlotsCounted`), and the job in hand is older than every queued one
(`HandIsOldest`). The last is what `StartsInOrder` needs, since `requeueBlocked` puts
a blocked job back at the front; `QueueOverrunBounded` needs that the dispatcher
holds at most one. `JobRegistryProofs` has one lemma for each action; the two action
properties and `ImplementsLifecycle` come from the same lemmas (`EveryStep`).

`JobEventsProofs` proves, from `BudgetAssumption` (buffers and limits are positive,
every caller follows a job), for any number of jobs, callers and connections:

| Theorem | Statement |
|---|---|
| `TypeCorrect` | `Spec => []TypeOK` |
| `SubscribersExact` | `Spec => []SubscribersAccounted` |
| `FeedImplemented` | `Spec => ImplementsFeed` |

The inductive invariant is

    IInv == Plain /\ Connections /\ RingsKept /\ Registered /\ Callers /\ Served

It follows an event through the stages of a connection. The ring of a record holds
its newest events, numbered without a gap (`RingKept`). The frames on the wire, the
event in the serving thread's hand, the replay and the live buffer, one behind the
other, are such a run as well (`Flows`); it continues the numbers the parser has
accepted, and as long as the subscription is open, it reaches the newest event of
the job (`Continues`). So the next event emitted fits behind it, one that finds
the buffer full closes the subscription instead of leaving a gap, and the parser
never meets a number it must refuse. A caller that named no id, or starts over
after it was told that the history has expired, is `Fresh`: it may begin with
whatever is oldest, and `Positioned` and `FedFits` say that nothing it has had is
still to come. A 409 and a
404 are remembered as the state of the record they were given for (`Answered`); both
stay true, since rings only move on and forgotten records do not come back
(`Grows`). `SubscribersAccounted` is part of the invariant (`Registered`): each of
the ways a subscription goes is shown to remove it from its record and to count
it down, together and once.

`FeedImplemented` maps each step: `emit`, the end of a record and the end of the
process to a step of `EventFeed`'s jobs, `yield` to `Deliver`, the return of the
iterator to `Complete`, an answer 404 to `Gone`, `poll` to the outcome that
`Job.refresh()` shows or to `Restart`; sending, writing, receiving, connecting and
losing a connection to stutters. That `feed` and `streamStatus` map to such steps is
the core of the theorem: a frame the parser refuses (`malformed`) and an id the
service refuses (`invalid`) would be ends that `EventFeed` does not have.

`ProjectRuntimeLeases` and `ProjectRuntimeProofs` prove, from `ActorAssumption`
(operations, jobs, loader and closer are different actors, `None` is none of them and
no request, kinds of operations and calls on jobs are those there are, there is a key)
from `LimitsAssumption` (what `JobLimits` demands, and that `None` is no reason) and
that requests are there to be made, for any number of operations and jobs:

| Theorem | Statement |
|---|---|
| `LeasesFit` | `Spec => []Leases` |
| `CoordinatorFollowed` | `Spec => coordinator!Spec` |
| `RegistryFollowed` | `Spec => jobs!Spec` |
| `LockOrderHolds` | `Spec => []LockOrderSafe` |
| `PublicationIsConsistent` | `Spec => []PublicationConsistent` |
| `ReadsStayCurrent` | `Spec => ReadsAreCurrent` |
| `IdentitiesNeverReused` | `Spec => IdentityNeverReused` |
| `BorrowedEnginesStayOpen` | `Spec => []BorrowedEngineOpen` |
| `EnginesAreOwned` | `Spec => []EnginesOwned` |
| `StoppedIsQuiet` | `Spec => []StoppedMeansQuiet` |
| `JobsUseTheirSnapshots` | `Spec => []JobsUseTheirSnapshot` |
| `ReservationIsHeld` | `Spec => []ReservationHeld` |
| `CoordinatorKept` | `Spec => []CoordinatorInvariants`: types, `Exclusion`, `CallbackAfterRemoval` of the instance |
| `RegistryKept` | `Spec => []RegistryInvariants`: all seven invariants of the registry, of the instance |
| `RegistryOrderKept` | `Spec => jobs!StartsInOrder /\ jobs!DropsOldestFirst /\ jobs!ImplementsLifecycle` |
| `GateKept` | `Spec => coordinator!ImplementsGate /\ coordinator!QuiescenceIsStable` |
| `TypeCorrect` | `Spec => []TypeOK` |
| `JobLeasesWithinSlots` | `Spec => [](JobLeasesHaveSlots /\ reg.slots <= MaxRunning)` |

`CoordinatorFollowed` and `RegistryFollowed` say that every step of the runtime is,
for the component inside it, a step that `OperationCoordinator` and `JobRegistry`
allow, or a stutter: what is proved of the components alone, against any caller and
any gate, is true of them here. The second half of `ProjectRuntimeProofs` draws that
conclusion (below); the first half carries the little it needs of the components in
its own invariant, which has five layers, each proved on top of those before it.

    Leases /\ Types /\ Publication /\ Engines /\ Reservation

* `Leases` is the link between program counters and the coordinator's table: an
  operation holds a lease exactly while it is in the part of its code that is under
  one, of the category that this part needs (`OpFits`); a job's lease is with the
  dispatcher or with its worker (`JobFits`); there is at most one primary lease
  (`Table`), as `compatible` sees to. Two places that both need a primary lease
  are then never taken at once, which is the whole of `LockOrderHolds`: the code
  asks for the two monitors in opposite orders only under leases that exclude each
  other.
* `Types`, with one lemma for each class of steps: every step is the step of one
  actor, and changes no program counter, engine or read of any other (`WhoActs`, `OnlyOwn`).
  The later layers only have to look at the actor that moves.
* `Publication` makes `PublicationConsistent` inductive. The runtime is `RELOADING`
  only while an operation is `Rebuilding`, so a failed rebuild finds nothing changed by
  others when it restores. A running job has the published identity or none is
  published (`SpecFits`): a save, an edit or a rebuild would need the lease that the
  job has. A read whose epoch is still current has the repository's revision
  (`SeenFits`): epochs grow with every publication, which also gives
  `IdentityNeverReused`.
* `Engines` follows each engine from the actor that made it (`Making`), over the time
  it is the active one (`ActiveOpen`), to the one that took it away and will close it
  (`Disposal`); every open engine is in exactly one of the three (`OpenOwned`). Whoever
  works with a primary engine works with the active one (`Borrowing`), and
  `detachable` refuses to take the active one from under a primary lease.
  `cleanupInProgress` is the number of the actors between taking an engine and the
  end of its cleanup (`Cleaning`), which makes `Stopping` inductive: the counter is zero
  only when all are through. Steps are sorted into seven classes (`EngineStep`:
  an actor leaves the engines alone, creates, discards, installs, detaches, closes, or
  ends a cleanup); `WhoSteps` puts every action of `Next` into one, and each
  conjunct is then kept by each class.
* `Reservation`: the runtime's flag and the registry's are equal, and set exactly while
  one request is on a path that ends in `accept` or `unreserve` (`Resolves`). The
  helpers and sections of the registry do not touch its flag (`HelpersKeep`,
  `SectionsKeep`, `RegistryKeeps`).

**The components inside the runtime.** `registry` and `table` are instances of the two
proof modules, so that `registry!NoJobLost` and the others are statements about the
variables of the runtime. Such a theorem holds if the assumption of its module does,
which `LimitsFit` and `RequestsFit` derive from the runtime's own assumptions; and it
speaks of the definitions of the instance, which `HelpersAgree` and `StepsAgree` show,
operator by operator and action by action, to be those of `jobs` and `coordinator`.
With `RegistryFollowed` and `CoordinatorFollowed` the theorems carry over:
`RegistryKept`, `RegistryOrderKept`, `CoordinatorKept`, `GateKept`.

`TypeCorrect` adds to the type invariants of the two what the layers say of the runtime's
own variables, in particular that `cleanupInProgress` counts the cleanups under way and
never falls below zero (`Cleaning`). `JobLeasesWithinSlots` needs both components at once. The
registry says that its slots are the jobs in the dispatcher's hands or at work, the
coordinator which leases are active, and neither says that the active lease of a job
belongs to one that has a slot. `Leases` does (`JobFits`), except between the removal
of a lease and the section that frees the slot, where `Releasing` follows the job that
is being released: the lease goes first, so there are never more of them than
slots.

`SearchServiceProofs` proves, from `StoreAssumption` and `ServiceAssumption` (finitely
many classes and searches, texts have a size, at least one result may be retained,
builds, reads and searches are different actors), for any number of classes, builds,
reads, searches and publications, and any budgets:

| Theorem | Statement |
|---|---|
| `CoverageIsHonest` | `Spec => []CoverageHonest` |
| `BudgetsAreKept` | `Spec => []BudgetsKept` |
| `PagesStayCurrent` | `Spec => []PagesAreCurrent` |

The inductive invariant is

    IInv == Types /\ Sound /\ Leased /\ InCharge /\ Unfinished /\ Texts /\ Views /\ Retained

* `Sound` is what each section of the store keeps by itself, whoever calls it: its
  types, `HeldAsReported`, and that its counter is the sum of what is held
  (`StoreKeeps`, `DropKeeps`, `PublishKeeps`, `ResetKeeps`, `InitializeKeeps`). Sums of
  sizes are cardinalities of sets of bytes (`BytesSplit`, `BytesPut`), so that no induction
  is needed; eviction keeps the order of use and takes the bytes back that a fragment put
  over the budget.
* `Leased`: at most one build or read is inside the lease. Without it two builds could
  each mark what the other has indexed.
* `InCharge`: a build that has begun is the build last begun of its domains, and the index
  is still of its publication. `Unfinished`: a domain is unfinished until its last
  build is through. The two give `CompleteMeansBuilt`, which alone is not inductive: it
  does not say that the build that ends is the one whose mark it takes away.
* `Texts`: what is indexed of an owner that this build has been through is the text it
  saw last, pass by pass; this gives `FinalTexts` when the last pass is over.
* `Views`: any two views taken from one publication with equal generations are equal,
  and equal to the index if its generation is the same. Every step leaves the view alone
  or raises the generation (`Moved`). `PagesAreCurrent` only compares a search with
  its own page and is not inductive: nothing in it says that the next view taken will
  have another generation.
* `Retained`: counter, number and order of the retained results.

The type invariants of the lease table and of the registry have no run of their own:
`TypeOK` of `ProjectRuntime`, which `runtime_engine` checks, contains both.

The invariants were checked by TLC in the form in which they are proved: the
registry's with 3 jobs, and queue, slots and retained records of 1, 1, 2 and of 2, 2, 1
(664010 and 1222834 states); that of the streams on the instance of `job_events` and
with a ring of 3, a buffer of 2 and 5 events (301404 and 662248 states); all layers of
the runtime's on the instances of `runtime_engine` and `runtime_jobs` (770055 and
2482021 states); that of the search index with two builds, and with two searches (767579
and 1123776 states).

**Only model-checked:**

* `WireContract`, whose run is exhaustive, since it has no parameter to generalize over.
* All liveness properties - every submitted job ends, shutdowns complete, followers
  end, dead subscribers are removed - which are out of the prover's reach, as ENABLED
  is.

## 5. Not modelled, and why

* The repository's files and baselines; batch staging; the watchdog and the bounded
  wait of `StartupSupervisor`: planned.
* Of the search: the table of running builds, which only spares a second build of the
  same domains; matching and ordering of hits; the encoding of cursors; the clock by
  which results expire (they expire at any time).
* Symbol paging and resolution, source ranges, hierarchy evidence, Jadx adapter,
  configuration, safe mapping files, mapping translation: sequential code or input
  and output, where a state machine says less than the unit tests beside it.
* Of the HTTP interface: Jetty's own error pages (not JSON, an unexpected response to
  any client), headers, request ids, cursor signing, routes that answer 501.
* Of the Python client: time-outs of the wait loop, opening and closing of HTTP
  clients, helpers on results; of the generated part, the `asyncio` and `sync`
  wrappers, which parse by the same function.
* The release test hooks, and the two answers only they produce.

## 6. Plan

In order of importance.

1. `OperationCoordinator`, with `EngineGate` and its proofs. **Done.**
2. `JobRegistry`, with `JobLifecycle` and its proofs. **Done.**
3. `ProjectRuntime`, the composition, and its proofs. **Done.**
4. `JobEvents`, with `EventFeed` and its proofs. **Done.**
5. `ClientSession` and its proofs. **Done.**
6. `WireContract` with the declarations of both sides. **Done.**
7. `NativeProjectRepository`: baselines against a disk that others write to,
   `save` with failures between its steps, `prepareReload` and `commitReload`.
   Abstract: what is in memory, what is on disk, and which is newer. Run:
   one writer outside, two edits, one save, one reload.
8. `SearchIndexStore` and `SearchService` and their proofs. **Done.**
9. The single-flight builds of `SearchService` over `JobRegistry`: a job looked up, ended
   and evicted between two statements, and the race of a search with the build it asks
   for.
10. `EditBatch` and the supervisor's watchdog.
11. With the module of 7, its invariant: that a baseline is what this process last wrote
    or read.

## 7. Running

In this directory:

    tlc -workers 4 -config MCJobRegistry.cfg MCJobRegistry.tla
    tlapm OperationCoordinatorProofs.tla
    tlapm JobRegistryLemmas.tla
    tlapm JobRegistryProofs.tla
    tlapm JobEventsProofs.tla
    tlapm ProjectRuntimeLeases.tla
    tlapm ProjectRuntimeProofs.tla
    tlapm SearchServiceProofs.tla
    tlapm ClientSessionProofs.tla

`PROJECT.json` names the module, configuration and properties of every run, the
lines of the source each definition models, and for every checked property
a faulty form of some definition (marked `bug:` in the modules) that violates it.
