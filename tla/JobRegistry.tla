----------------------------- MODULE JobRegistry -----------------------------
(***************************************************************************)
(* scheduler/JobRegistry.java: the bounded, volatile owner of background   *)
(* jobs.  Callers submit, cancel and poll; one dispatcher thread takes the *)
(* head of the queue to the admission gate, captures the snapshot of a job *)
(* it was granted a lease for, and hands it to a worker thread; a timer    *)
(* thread applies deadlines; shutdown stops everything cooperatively.      *)
(*                                                                         *)
(* `reg` is what the registry's lock guards, and every synchronized (lock) *)
(* section is one action on it.  What lies between two sections is one     *)
(* action each: the gate, the capture, the hand-over, the task and the     *)
(* release of its lease, and the steps of the dispatch loop that signal()  *)
(* races with.  The gate itself (ProjectRuntime.admitJob) is a parameter:  *)
(* it grants, refuses or fails, and the actions below are what follows.    *)
(*                                                                         *)
(* There is no clock.  A section that finds a deadline passed records the  *)
(* intent, and one that finds a time to live passed drops the record, so   *)
(* neither reading is ever repeated: which deadlines and times to live     *)
(* have passed is chosen afresh at each reading.                           *)
(***************************************************************************)
EXTENDS Integers, Sequences, FiniteSets

CONSTANTS Job,                  \* job identities
          None,                 \* no job, no cancellation reason
          MaxQueued, MaxRunning, MaxRetained,
          MaxResultBytes, MaxTotalResultBytes,
          ResultSizes           \* sizes a task may return

Terminal == {"SUCCEEDED", "FAILED", "CANCELLED"}
State == {"NEW", "QUEUED", "RUNNING", "CANCELLING", "GONE"} \cup Terminal
Reason == {"USER", "DEADLINE", "SHUTDOWN"}
EventType == {"job.queued", "job.started", "job.cancel_requested",
              "job.completed", "job.failed", "job.cancelled"}

ASSUME LimitsAssumption ==      \* JobLimits' compact constructor
    /\ {MaxQueued, MaxRunning, MaxRetained, MaxResultBytes} \subseteq Nat \ {0}
    /\ MaxTotalResultBytes \in Nat /\ MaxTotalResultBytes >= MaxResultBytes
    /\ ResultSizes \subseteq Nat \ {0}
    /\ None \notin Job \cup Reason

VARIABLES reg,       \* the state guarded by the registry's lock
          disp,      \* where the dispatcher thread is
          cur,       \* the job in the dispatcher's hands
          how,       \* how the dispatcher has to finish it
          pending,   \* dispatchPending
          scheduled, \* dispatchScheduled
          runnable,  \* a dispatch run waits in the dispatcher's executor
          worker,    \* per job, its worker thread
          returned,  \* per job, the bytes its task returned to that thread
          leased,    \* jobs holding a lease of the gate
          executors  \* the two executors accept work

dispatchVars == <<disp, cur, how>>
signalVars == <<pending, scheduled, runnable>>
workVars == <<worker, returned, leased>>
vars == <<reg, dispatchVars, signalVars, workVars, executors>>

Registry ==
    [queue : Seq(Job),                        \* waiting for the dispatcher
     records : SUBSET Job,                    \* known to callers
     state : [Job -> State],
     reason : [Job -> Reason \cup {None}],    \* the cancellation token
     dispatching : SUBSET Job,
     number : [Job -> Nat], submissions : Nat, \* order of submission
     order : [Job -> Nat],                    \* completedOrder
     completions : Nat,                       \* completionSequence
     size : [Job -> Nat],                     \* bytes of the retained result
     bytes : Int,                             \* retainedResultBytes
     log : [Job -> Seq(EventType)],           \* types of the job's events
     slots : Int,                             \* runningSlots
     stopped : BOOLEAN, reserved : BOOLEAN, shutdownDone : BOOLEAN]

DispatcherAt == {"idle", "clear", "pump", "admit", "requeue", "fail", "capture",
                 "start", "abandon", "launch", "while", "unschedule", "recheck"}

TypeOK == /\ reg \in Registry
          /\ reg.slots \in Nat /\ reg.bytes \in Nat
          /\ disp \in DispatcherAt
          /\ cur \in Job \cup {None}
          /\ how \in {"none", "stopping", "cancelled", "failed"}
          /\ {pending, scheduled, runnable, executors} \subseteq BOOLEAN
          /\ worker \in [Job -> {"none", "running", "succeeded", "failed", "cancelled"}]
          /\ returned \in [Job -> ResultSizes \cup {0}]
          /\ leased \subseteq Job

Init == /\ reg = [queue |-> <<>>, records |-> {},
                  state |-> [j \in Job |-> "NEW"],
                  reason |-> [j \in Job |-> None],
                  dispatching |-> {},
                  number |-> [j \in Job |-> 0], submissions |-> 0,
                  order |-> [j \in Job |-> 0], completions |-> 0,
                  size |-> [j \in Job |-> 0], bytes |-> 0,
                  log |-> [j \in Job |-> <<>>],
                  slots |-> 0,
                  stopped |-> FALSE, reserved |-> FALSE, shutdownDone |-> FALSE]
        /\ disp = "idle" /\ cur = None /\ how = "none"
        /\ pending = FALSE /\ scheduled = FALSE /\ runnable = FALSE
        /\ worker = [j \in Job |-> "none"]
        /\ returned = [j \in Job |-> 0]
        /\ leased = {}
        /\ executors = TRUE

-----------------------------------------------------------------------------
(* Helpers called with the lock held: functions of the guarded state r.    *)

Completed(r) == {j \in r.records : r.state[j] \in Terminal}
allRecords(r) == r.records  \* bug: terminal records are not skipped
Alive(r) == {j \in r.records : r.state[j] \notin Terminal}
WithResult(r) == {j \in Completed(r) : r.size[j] > 0}

\* The sum of the sizes of the jobs of S, counted byte by byte.
Bytes(r, S) == Cardinality(UNION {{j} \X (1..r.size[j]) : j \in S})

emitLocked(r, S, type) ==
    [r EXCEPT !.log = [j \in Job |-> IF j \in S THEN Append(@[j], type) ELSE @[j]]]

\* CancellationToken.request: only the first reason counts.
request(r, S, why) ==
    [r EXCEPT !.reason = [j \in Job |-> IF j \in S /\ @[j] = None THEN why ELSE @[j]]]

\* Nobody refers to a removed record any more, so its fields are reset.
removeRetainedLocked(r, S) ==
    [r EXCEPT !.records = @ \ S,
              !.bytes = @ - Bytes(r, S \cap r.records),
              !.state = [j \in Job |-> IF j \in S THEN "GONE" ELSE @[j]],
              !.reason = [j \in Job |-> IF j \in S THEN None ELSE @[j]],
              !.number = [j \in Job |-> IF j \in S THEN 0 ELSE @[j]],
              !.order = [j \in Job |-> IF j \in S THEN 0 ELSE @[j]],
              !.size = [j \in Job |-> IF j \in S THEN 0 ELSE @[j]],
              !.log = [j \in Job |-> IF j \in S THEN <<>> ELSE @[j]]]

\* What purgeExpiredLocked may leave: the records that completed first are
\* the first to outlive their time.
purgeExpiredLocked(r) ==
    {removeRetainedLocked(r, {j \in Completed(r) : r.order[j] <= n}) :
        n \in {0} \cup {r.order[j] : j \in Completed(r)}}

\* The completed jobs that at least n others outlive.
OlderThanNewest(r, n) ==
    {j \in Completed(r) :
        Cardinality({k \in Completed(r) : r.order[k] > r.order[j]}) >= n}

evictNewest(r) ==  \* bug: evicts from the wrong end
    removeRetainedLocked(r,
        {j \in Completed(r) :
            Cardinality({k \in Completed(r) : r.order[k] < r.order[j]}) >= MaxRetained})

\* The code evicts one record per completion, hence down to the limit.
enforceRetentionLocked(r) == removeRetainedLocked(r, OlderThanNewest(r, MaxRetained))

reclaimNothing(r, incoming) == r  \* bug: the budget is not kept

\* Oldest results first, as many as the incoming one needs.
reclaimResultRoomLocked(r, incoming) ==
    LET upTo(n) == {j \in WithResult(r) : r.order[j] <= n}
        fits(n) == r.bytes - Bytes(r, upTo(n)) + incoming <= MaxTotalResultBytes
    IN removeRetainedLocked(r,
           upTo(CHOOSE n \in 0..r.completions : fits(n) /\ \A m \in 0..(n - 1) : ~ fits(m)))

EventOf(state) == CASE state = "SUCCEEDED" -> "job.completed"
                    [] state = "FAILED" -> "job.failed"
                    [] state = "CANCELLED" -> "job.cancelled"

\* The jobs of T end in the order of their submission.
markCompletedLocked(r, T, state) ==
    LET rank(j) == Cardinality({k \in T : r.number[k] <= r.number[j]})
    IN [r EXCEPT
            !.state = [j \in Job |-> IF j \in T THEN state ELSE @[j]],
            !.order = [j \in Job |-> IF j \in T THEN r.completions + rank(j) ELSE @[j]],
            !.completions = @ + Cardinality(T)]

\* finishCancelledLocked and finishFailedLocked, on every job of S: the mark,
\* the event and retention.
finishLocked(r, S, state) ==
    LET T == {j \in S : r.state[j] \notin Terminal}
    IN enforceRetentionLocked(emitLocked(markCompletedLocked(r, T, state), T, EventOf(state)))

succeedLocked(r, j, bytes) ==
    LET room == reclaimResultRoomLocked(r, bytes)
    IN finishLocked([room EXCEPT !.size[j] = bytes, !.bytes = @ + bytes], {j}, "SUCCEEDED")

\* The common part of cancel(), tick() and shutdown(): record the intent of
\* the jobs of S, show it on the running ones and announce it.
intendLocked(r, S, why) ==
    LET asked == request(r, S, why)
        shown == [asked EXCEPT !.state =
                     [j \in Job |-> IF j \in S /\ @[j] = "RUNNING" THEN "CANCELLING" ELSE @[j]]]
    IN emitLocked(shown, S, "job.cancel_requested")

\* queue.remove(record) for every job of S.
dequeue(r, S) ==
    LET kept == {i \in DOMAIN r.queue : r.queue[i] \notin S}
        nth(n) == CHOOSE i \in kept : Cardinality({k \in kept : k <= i}) = n
    IN [r EXCEPT !.queue = [n \in 1..Cardinality(kept) |-> r.queue[nth(n)]]]

waitingOrTaken(r, j) == r.state[j] = "QUEUED"  \* bug: the dispatcher may hold it
waiting(r, j) == r.state[j] = "QUEUED" /\ j \notin r.dispatching

\* Of the jobs of S, those the dispatcher has not taken end at once.
cancelWaiting(r, S) ==
    LET W == {j \in S : waiting(r, j)}
    IN finishLocked(dequeue(r, W), W, "CANCELLED")

-----------------------------------------------------------------------------
(* Callers, each in one section, and the signal() that follows it.         *)

\* signal() up to dispatcher.execute.  pending.set and the compare-and-set are
\* one step, and one step with the section that precedes the call: a dispatch
\* run that looks in between finds nothing that another release, which may
\* signal at any time, would not show it too.  A rejected run resets the flag.
setPendingAndSchedule ==
    /\ pending' = TRUE
    /\ scheduled' = (scheduled \/ executors)
    /\ runnable' = (runnable \/ (~ scheduled /\ executors))

hasRoomOffByOne(r) ==  \* bug: one job too many
    /\ Len(r.queue) <= MaxQueued
    /\ Cardinality(r.records) < MaxQueued + MaxRunning + MaxRetained

hasRoom(r) ==
    /\ Len(r.queue) < MaxQueued
    /\ Cardinality(r.records) < MaxQueued + MaxRunning + MaxRetained

submit(j) == reg.state[j] = "NEW" /\ \E r \in purgeExpiredLocked(reg) :
    /\ ~ r.stopped /\ ~ r.reserved
    /\ hasRoom(r)
    /\ reg' = emitLocked([r EXCEPT !.records = @ \cup {j},
                                   !.queue = Append(@, j),
                                   !.state[j] = "QUEUED",
                                   !.number[j] = r.submissions + 1,
                                   !.submissions = @ + 1],
                         {j}, "job.queued")
    /\ setPendingAndSchedule
    /\ UNCHANGED <<dispatchVars, workVars, executors>>

\* snapshot(), and every call that ends early: expired records are dropped.
snapshot ==
    /\ reg' \in purgeExpiredLocked(reg)
    /\ UNCHANGED <<dispatchVars, signalVars, workVars, executors>>

cancel(j) == \E r \in purgeExpiredLocked(reg) :
    /\ j \in Alive(r) /\ r.reason[j] = None
    /\ reg' = cancelWaiting(intendLocked(r, {j}, "USER"), {j})
    /\ setPendingAndSchedule
    /\ UNCHANGED <<dispatchVars, workVars, executors>>

\* E: the jobs found to be past their deadline that nobody has stopped yet.
tick == \E r \in purgeExpiredLocked(reg) :
    \E E \in SUBSET {j \in Alive(r) : r.reason[j] = None} :
        /\ executors /\ E # {}
        /\ reg' = cancelWaiting(intendLocked(r, E, "DEADLINE"), E)
        /\ IF \E j \in E : waiting(r, j) THEN setPendingAndSchedule ELSE UNCHANGED signalVars
        /\ UNCHANGED <<dispatchVars, workVars, executors>>

reserveSubmissions ==
    /\ ~ reg.stopped /\ ~ reg.reserved
    /\ reg' = [reg EXCEPT !.reserved = TRUE]
    /\ UNCHANGED <<dispatchVars, signalVars, workVars, executors>>

releaseSubmissionReservation ==
    /\ reg' = [reg EXCEPT !.reserved = FALSE]
    /\ UNCHANGED <<dispatchVars, signalVars, workVars, executors>>

stopSubmissions ==
    /\ reg' = [reg EXCEPT !.stopped = TRUE]
    /\ UNCHANGED <<dispatchVars, signalVars, workVars, executors>>

\* stopSubmissions() and then releaseSubmissionReservation(), as an accepted
\* shutdown calls them: once stopped, the reservation refuses nothing more.
stopReserved ==
    /\ reg' = [reg EXCEPT !.stopped = TRUE, !.reserved = FALSE]
    /\ UNCHANGED <<dispatchVars, signalVars, workVars, executors>>

\* shutdown() up to the end of its section: the queue is cancelled, everything
\* else alive is asked to stop.
shutdownLocked ==
    LET stop == [reg EXCEPT !.shutdownDone = TRUE, !.stopped = TRUE]
        Q == {j \in Job : \E i \in DOMAIN reg.queue : reg.queue[i] = j}
        drained == finishLocked(request(dequeue(stop, Q), Q, "SHUTDOWN"), Q, "CANCELLED")
    IN
    /\ ~ reg.shutdownDone
    /\ reg' = intendLocked(drained, Alive(drained), "SHUTDOWN")
    /\ UNCHANGED <<dispatchVars, signalVars, workVars, executors>>

\* deadlineTimer, dispatcher and workers .shutdown(): what runs or waits goes on.
shutdownExecutors ==
    /\ reg.shutdownDone /\ executors
    /\ executors' = FALSE
    /\ UNCHANGED <<reg, dispatchVars, signalVars, workVars>>

-----------------------------------------------------------------------------
(* signal() and the dispatch run.                                          *)

signal ==
    /\ setPendingAndSchedule
    /\ UNCHANGED <<reg, dispatchVars, workVars, executors>>

GoTo(at) == disp' = at /\ UNCHANGED <<cur, how>>

runDispatch ==
    /\ disp = "idle" /\ runnable
    /\ runnable' = FALSE
    /\ GoTo("clear")
    /\ UNCHANGED <<reg, pending, scheduled, workVars, executors>>

clearPending ==
    /\ disp = "clear"
    /\ pending' = FALSE
    /\ GoTo("pump")
    /\ UNCHANGED <<reg, scheduled, runnable, workVars, executors>>

whilePending ==
    /\ disp = "while"
    /\ GoTo(IF pending THEN "clear" ELSE "unschedule")
    /\ UNCHANGED <<reg, signalVars, workVars, executors>>

unschedule ==
    /\ disp = "unschedule"
    /\ scheduled' = FALSE
    /\ GoTo("recheck")
    /\ UNCHANGED <<reg, pending, runnable, workVars, executors>>

recheckNothing ==  \* bug: the flag is not read again once dispatchScheduled is reset
    /\ disp = "recheck"
    /\ GoTo("idle")
    /\ UNCHANGED <<reg, signalVars, workVars, executors>>

\* if (dispatchPending.get()) signal(), in the finally block.
recheck ==
    /\ disp = "recheck"
    /\ IF pending THEN setPendingAndSchedule ELSE UNCHANGED <<pending, scheduled, runnable>>
    /\ GoTo("idle")
    /\ UNCHANGED <<reg, workVars, executors>>

-----------------------------------------------------------------------------
(* pump(): one turn takes the head of the queue through gate, capture,     *)
(* start and hand-over.                                                    *)

slotFree(r) == r.slots < MaxRunning

pumpTakes(r) == ~ r.stopped /\ slotFree(r) /\ r.queue # <<>>

pumpHead == disp = "pump" /\ \E r \in purgeExpiredLocked(reg) :
    /\ pumpTakes(r)
    /\ cur' = Head(r.queue)
    /\ reg' = [r EXCEPT !.queue = Tail(@),
                        !.dispatching = @ \cup {Head(r.queue)},
                        !.slots = @ + 1]
    /\ disp' = "admit"
    /\ UNCHANGED <<how, signalVars, workVars, executors>>

pumpReturns ==
    /\ disp = "pump"
    /\ reg' \in purgeExpiredLocked(reg)
    /\ ~ pumpTakes(reg')
    /\ GoTo("while")
    /\ UNCHANGED <<signalVars, workVars, executors>>

\* gate.tryAdmit returned a lease.
gateGrants ==
    /\ disp = "admit"
    /\ leased' = leased \cup {cur}
    /\ GoTo("capture")
    /\ UNCHANGED <<reg, signalVars, worker, returned, executors>>

\* ProjectBusyException or AdmissionDeferredException.
gateBlocks ==
    /\ disp = "admit"
    /\ GoTo("requeue")
    /\ UNCHANGED <<reg, signalVars, workVars, executors>>

\* ServiceShuttingDownException.
gateStops ==
    /\ disp = "admit"
    /\ disp' = "fail" /\ how' = "stopping"
    /\ UNCHANGED <<cur, reg, signalVars, workVars, executors>>

\* StaleJobSnapshotException and anything else.
gateFails ==
    /\ disp = "admit"
    /\ disp' = "fail" /\ how' = "failed"
    /\ UNCHANGED <<cur, reg, signalVars, workVars, executors>>

keepSlot(r) == r  \* bug: the slot is not given back
freeSlot(r) == [r EXCEPT !.slots = @ - 1]

\* What a blocked or starting job meets at its next section: its deadline,
\* if that is found expired, and the end of the registry.
overtake(r, j, expired) ==
    LET late == IF expired THEN request(r, {j}, "DEADLINE") ELSE r
    IN IF r.stopped THEN request(late, {j}, "SHUTDOWN") ELSE late

requeueAtEnd(r, j) == [r EXCEPT !.queue = Append(@, j)]  \* bug: loses its turn
requeueFirst(r, j) == [r EXCEPT !.queue = <<j>> \o @]

\* The dispatcher signals itself: its run is scheduled, so only the flag moves.
requeueBlocked == \E expired \in BOOLEAN :
    LET back == [freeSlot(reg) EXCEPT !.dispatching = @ \ {cur}]
        r == overtake(back, cur, expired)
        removed == r.stopped \/ r.reason[cur] # None
    IN
    /\ disp = "requeue"
    /\ reg' = IF removed THEN finishLocked(r, {cur}, "CANCELLED") ELSE requeueFirst(r, cur)
    /\ pending' = (pending \/ removed)
    /\ disp' = "while" /\ cur' = None
    /\ UNCHANGED <<how, scheduled, runnable, workVars, executors>>

captureSucceeds ==
    /\ disp = "capture"
    /\ GoTo("start")
    /\ UNCHANGED <<reg, signalVars, workVars, executors>>

captureFailsLeaking ==  \* bug: the lease stays open
    /\ disp = "capture"
    /\ disp' = "fail" /\ how' = "failed"
    /\ UNCHANGED <<cur, reg, signalVars, workVars, executors>>

\* The lease is closed before the failure is recorded.
captureFails ==
    /\ disp = "capture"
    /\ leased' = leased \ {cur}
    /\ disp' = "fail" /\ how' = "failed"
    /\ UNCHANGED <<cur, reg, signalVars, worker, returned, executors>>

startAdmitted == \E expired \in BOOLEAN :
    LET r == overtake(reg, cur, expired)
        cancelled == r.reason[cur] # None
    IN
    /\ disp = "start"
    /\ reg' = IF cancelled THEN r
              ELSE emitLocked([r EXCEPT !.dispatching = @ \ {cur}, !.state[cur] = "RUNNING"],
                              {cur}, "job.started")
    /\ GoTo(IF cancelled THEN "abandon" ELSE "launch")
    /\ UNCHANGED <<signalVars, workVars, executors>>

\* closeLease for a job that was cancelled between its admission and its start.
abandonStart ==
    /\ disp = "abandon"
    /\ leased' = leased \ {cur}
    /\ disp' = "fail" /\ how' = "cancelled"
    /\ UNCHANGED <<cur, reg, signalVars, worker, returned, executors>>

\* workers.execute.
launch ==
    /\ disp = "launch" /\ executors
    /\ worker' = [worker EXCEPT ![cur] = "running"]
    /\ disp' = "pump" /\ cur' = None
    /\ UNCHANGED <<how, reg, signalVars, returned, leased, executors>>

\* RejectedExecutionException: only shutdown() closes the executor.
launchRejected ==
    /\ disp = "launch" /\ ~ executors
    /\ leased' = leased \ {cur}
    /\ disp' = "fail" /\ how' = "cancelled"
    /\ UNCHANGED <<cur, reg, signalVars, worker, returned, executors>>

\* Then pump() returns if the gate said that the service is stopping.
finishDispatchFailure ==
    LET r == [freeSlot(reg) EXCEPT !.dispatching = @ \ {cur}] IN
    /\ disp = "fail"
    /\ reg' = IF how = "failed" THEN finishLocked(r, {cur}, "FAILED")
              ELSE finishLocked(request(r, {cur}, "SHUTDOWN"), {cur}, "CANCELLED")
    /\ pending' = TRUE
    /\ disp' = IF how = "stopping" THEN "while" ELSE "pump"
    /\ cur' = None /\ how' = "none"
    /\ UNCHANGED <<scheduled, runnable, workVars, executors>>

-----------------------------------------------------------------------------
(* execute(), on a worker thread.                                          *)

\* validateResult turns an oversized result into a failure.
Outcome(bytes) == IF bytes <= MaxResultBytes THEN "succeeded" ELSE "failed"

\* The task ends and try-with-resources closes the lease; the registry does
\* not know yet.
taskReturns(j) ==
    /\ worker[j] = "running"
    /\ \/ \E bytes \in ResultSizes :
            /\ worker' = [worker EXCEPT ![j] = Outcome(bytes)]
            /\ returned' = [returned EXCEPT ![j] = bytes]
       \/ \E outcome \in {"failed", "cancelled"} :
            /\ worker' = [worker EXCEPT ![j] = outcome]
            /\ UNCHANGED returned
    /\ leased' = leased \ {j}
    /\ UNCHANGED <<reg, dispatchVars, signalVars, executors>>

discardsOnStopOnly(r, j) == r.stopped  \* bug: a result beats the intent

discards(r, j) == r.reason[j] # None \/ r.stopped

\* What the section of execute() makes of the job.
concludeLocked(r, j) ==
    CASE worker[j] = "cancelled" /\ r.reason[j] # None ->
            finishLocked(r, {j}, "CANCELLED")
      [] worker[j] = "failed" \/ (worker[j] = "cancelled" /\ r.reason[j] = None) ->
            finishLocked(r, {j}, "FAILED")
      [] worker[j] = "succeeded" /\ discards(r, j) ->
            finishLocked(request(r, {j}, "SHUTDOWN"), {j}, "CANCELLED")
      [] worker[j] = "succeeded" /\ ~ discards(r, j) ->
            succeedLocked(r, j, returned[j])

execute(j) ==
    /\ worker[j] \in {"succeeded", "failed", "cancelled"}
    /\ reg' = concludeLocked(freeSlot(reg), j)
    /\ worker' = [worker EXCEPT ![j] = "none"]
    /\ returned' = [returned EXCEPT ![j] = 0]
    /\ setPendingAndSchedule
    /\ UNCHANGED <<dispatchVars, leased, executors>>

-----------------------------------------------------------------------------
(* The registry in front of a gate that may answer anything at any time,   *)
(* and whose releases may signal at any time; and of a runtime that may    *)
(* reserve it for a shutdown, and stop it, at any time.                    *)

Next == \/ \E j \in Job : \/ submit(j) \/ cancel(j)
                          \/ taskReturns(j) \/ execute(j)
        \/ snapshot \/ tick
        \/ reserveSubmissions \/ releaseSubmissionReservation \/ stopReserved
        \/ stopSubmissions \/ shutdownLocked \/ shutdownExecutors
        \/ signal \/ runDispatch \/ clearPending \/ whilePending \/ unschedule \/ recheck
        \/ pumpHead \/ pumpReturns
        \/ gateGrants \/ gateBlocks \/ gateStops \/ gateFails
        \/ requeueBlocked \/ captureSucceeds \/ captureFails
        \/ startAdmitted \/ abandonStart \/ launch \/ launchRejected
        \/ finishDispatchFailure

Spec == Init /\ [][Next]_vars

-----------------------------------------------------------------------------
InQueue == {reg.queue[i] : i \in DOMAIN reg.queue}
InHand == {cur} \ {None}
AtWork == {j \in Job : worker[j] \in {"running", "succeeded", "failed", "cancelled"}}

(* runningSlots counts exactly the jobs in the dispatcher's hands or on a  *)
(* worker thread, on every path through pump(), startAdmitted() and        *)
(* execute(), and never exceeds maxRunning: a slot given back twice or     *)
(* not at all would let too many jobs run, or none ever again.             *)
SlotsAccounted == /\ reg.slots = Cardinality(InHand \cup AtWork)
                  /\ InHand \cap AtWork = {}
                  /\ reg.slots <= MaxRunning

(* Every job that callers see as unfinished is in exactly one place: once  *)
(* in the queue, or in the dispatcher's hands, or on a worker thread; and  *)
(* no finished job is in any of them.  A job cancelled, expired or shut    *)
(* down while the dispatcher holds it is neither finished twice nor lost.  *)
NothingLost == /\ Alive(reg) = InQueue \cup InHand \cup AtWork
               /\ \A j \in InQueue : j \notin InHand \cup AtWork
               /\ Cardinality(InQueue) = Len(reg.queue)

(* A lease of the gate is held exactly while the dispatcher prepares the   *)
(* job or its task runs: every path that leaves startAdmitted() or         *)
(* execute(), rejections and failures included, closes it.                 *)
LeasesAccounted ==
    leased = (IF disp \in {"capture", "start", "abandon", "launch"} THEN {cur} ELSE {})
             \cup {j \in Job : worker[j] = "running"}

IsTerminalEvent(type) == type \in {EventOf(s) : s \in Terminal}

(* The events of a job begin with job.queued, and hold a terminal event    *)
(* exactly when the job is terminal, once and last: a client that follows  *)
(* the stream to its terminal frame has missed nothing, and one that waits *)
(* for it is not waiting for a frame that was never emitted.               *)
StreamsWellFormed ==
    \A j \in reg.records :
        LET log == reg.log[j] IN
        /\ log # <<>> /\ log[1] = "job.queued"
        /\ \A i \in 1..(Len(log) - 1) : ~ IsTerminalEvent(log[i])
        /\ IsTerminalEvent(log[Len(log)]) <=> reg.state[j] \in Terminal
        /\ reg.state[j] \in Terminal => log[Len(log)] = EventOf(reg.state[j])

(* The terminal records stay within maxRetained, and their results within  *)
(* maxTotalResultBytes; retainedResultBytes is their exact sum, whichever  *)
(* of expiry, eviction and reclaiming dropped the others.                  *)
RetentionBounded ==
    /\ Cardinality(Completed(reg)) <= MaxRetained
    /\ reg.bytes = Bytes(reg, WithResult(reg))
    /\ reg.bytes <= MaxTotalResultBytes

(* A blocked job goes back to the front even if submissions have filled    *)
(* its place meanwhile, so the queue may be one over its limit, but never  *)
(* more, however often that happens.                                       *)
QueueOverrunBounded == Len(reg.queue) + Cardinality(InHand) <= MaxQueued + 1

(* The documented limit of queued jobs (docs/phase-3-jobs-and-events.md).  *)
QueueWithinLimit == Len(reg.queue) <= MaxQueued

(* Jobs start in the order of their submission: no job starts while an     *)
(* older one is still queued, even when the older one was refused by the   *)
(* gate and put back.                                                      *)
StartsInOrder ==
    [][\A j \in Job : reg.state[j] = "QUEUED" /\ reg'.state[j] = "RUNNING" =>
          \A k \in Alive(reg) : reg.number[k] < reg.number[j] => reg.state[k] # "QUEUED"]_vars

(* A record is dropped only when every older terminal one is dropped too,  *)
(* or, to make room for a result, when the older ones hold no result; and  *)
(* never before older ones when it completes in the same call.             *)
DropsOldestFirst ==
    [][\A j \in reg.records \ reg'.records, k \in Completed(reg) \cap reg'.records :
          /\ j \in Completed(reg)
          /\ reg.order[j] < reg.order[k] \/ (reg.size[j] > 0 /\ reg.size[k] = 0)]_vars

Lifecycle == INSTANCE JobLifecycle WITH
                 phase <- reg.state, intent <- reg.reason, NoReason <- None

(* The registry implements the life of a job that clients rely on          *)
(* (JobLifecycle): recorded intent is final and decides the outcome across *)
(* dispatcher, worker, timer, callers and shutdown.                        *)
ImplementsLifecycle == Lifecycle!Spec

=============================================================================
