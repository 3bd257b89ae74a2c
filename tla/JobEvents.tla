----------------------------- MODULE JobEvents ------------------------------
(***************************************************************************)
(* The event stream of a job from emitLocked() to the Python iterator that *)
(* yields the event: the replay ring and the subscriptions of              *)
(* JobRegistry.java, the serving thread of JobEventsHandler.java, the      *)
(* frames on the connection, the parser of _sse.py, and Job.events() of    *)
(* jobs.py (AsyncJob.events() differs by `async` alone).                   *)
(*                                                                         *)
(* `record` and `registered` are guarded by the registry's lock, and each  *)
(* section that takes it is one action.  A connection has the fields of    *)
(* its Subscription, the place of the thread that serves it, and what is   *)
(* between the two ends.                                                   *)
(*                                                                         *)
(* The consumer is the caller of the SDK that the documents describe: when *)
(* a stream breaks it reconnects with the last sequence it observed, or    *)
(* polls; when its history has expired it polls and reconnects without the *)
(* stale id.  Connections may be lost, and the service may be killed and   *)
(* started again, at any moment; it then knows no job.                     *)
(***************************************************************************)
EXTENDS Integers, Sequences, FiniteSets

CONSTANTS Job, Consumer, Conn,
          Followed,           \* the job each consumer follows
          None,               \* no id, no connection
          maxEventsPerJob, maxFramesPerSubscriber,
          maxSubscribersPerJob, maxGlobalSubscribers,
          MaxEvents,          \* model bound: events of one job
          MaxLosses,          \* model bound: connections lost
          WireCapacity        \* frames in flight before a write blocks

ASSUME BudgetAssumption ==    \* JobLimits' compact constructor
    /\ {maxEventsPerJob, maxFramesPerSubscriber, maxSubscribersPerJob,
        maxGlobalSubscribers, WireCapacity} \subseteq Nat \ {0}
    /\ MaxEvents \in Nat \ {0, 1} /\ MaxLosses \in Nat
    /\ Followed \in [Consumer -> Job] /\ None \notin Conn \cup Nat

VARIABLES record,             \* per job, its sequence, ring and state
          registered,         \* per job, record.subscribers
          globalSubscribers,
          shutdownDone,
          conn,               \* connections, both ends and the frames between
          consumer,           \* the callers of Job.events()
          losses              \* connections lost so far

serverVars == <<record, registered, globalSubscribers, shutdownDone>>
vars == <<serverVars, conn, consumer, losses>>

Event == [id : 1..MaxEvents, last : BOOLEAN]  \* last: JobEvent.terminal()

\* A job appears with its first event, job.queued.
NewRecord == [known |-> TRUE, terminal |-> FALSE, seq |-> 1,
              ring |-> <<[id |-> 1, last |-> FALSE]>>]

NoConnection == [at |-> "free", job |-> None, asked |-> None, answer |-> "none",
                 replay |-> <<>>, live |-> <<>>, closed |-> FALSE,
                 terminalAtOpen |-> FALSE, terminalDelivered |-> FALSE,
                 hand |-> <<>>, wire |-> <<>>, eof |-> FALSE, up |-> FALSE]

\* resume is the Last-Event-ID of the next request; parsed and terminal are
\* the parser's last_id and terminal; fed is what feed() returned.
NewConsumer(id) == [at |-> "idle", conn |-> None, resume |-> id, seen |-> 0,
                    parsed |-> 0, terminal |-> FALSE, fed |-> <<>>]

Serving == {"next", "write", "close"}
Outcomes == {"complete", "polled", "gone", "invalid", "malformed"}

Ids == 0..MaxEvents

Record == [known : BOOLEAN, terminal : BOOLEAN, seq : 1..MaxEvents, ring : Seq(Event)]

Connection == [at : Serving \cup {"free", "request", "complete", "done"},
               job : Job \cup {None}, asked : Ids \cup {None},
               answer : {"none", "200", "400", "404", "409", "429"},
               replay : Seq(Event), live : Seq(Event), closed : BOOLEAN,
               terminalAtOpen : BOOLEAN, terminalDelivered : BOOLEAN,
               hand : Seq(Event), wire : Seq(Event), eof : BOOLEAN, up : BOOLEAN]

Caller == [at : {"idle", "waiting", "reading", "broken", "expired"} \cup Outcomes,
           conn : Conn \cup {None}, resume : Ids \cup {None}, seen : Ids,
           parsed : Ids, terminal : BOOLEAN, fed : Seq(Event)]

TypeOK ==
    /\ record \in [Job -> Record]
    /\ \A j \in Job : Len(record[j].ring) <= maxEventsPerJob
    /\ registered \in [Job -> SUBSET Conn]
    /\ globalSubscribers \in Nat
    /\ shutdownDone \in BOOLEAN
    /\ conn \in [Conn -> Connection]
    /\ \A c \in Conn : /\ Len(conn[c].live) <= maxFramesPerSubscriber
                       /\ Len(conn[c].hand) <= 1
    /\ consumer \in [Consumer -> Caller]
    /\ losses \in 0..MaxLosses

\* A first call gives no id, or 0 to insist on the whole history.
Init == /\ record = [j \in Job |-> NewRecord]
        /\ registered = [j \in Job |-> {}]
        /\ globalSubscribers = 0
        /\ shutdownDone = FALSE
        /\ conn = [c \in Conn |-> NoConnection]
        /\ consumer \in [Consumer -> {NewConsumer(None), NewConsumer(0)}]
        /\ losses = 0

-----------------------------------------------------------------------------
(* JobRegistry, under its lock.                                            *)

pushKeepingAll(ring, e) == Append(ring, e)  \* bug: the ring is not bounded

push(ring, e) ==
    Append(IF Len(ring) = maxEventsPerJob THEN Tail(ring) ELSE ring, e)

offerDropping(s, e) ==  \* bug: a full buffer drops the event only
    IF s.closed \/ Len(s.live) >= maxFramesPerSubscriber THEN s
    ELSE [s EXCEPT !.live = Append(@, e)]

\* A full buffer closes the subscription (overflowed says why, to nobody).
offer(s, e) ==
    IF s.closed THEN s
    ELSE IF Len(s.live) >= maxFramesPerSubscriber THEN [s EXCEPT !.closed = TRUE]
    ELSE [s EXCEPT !.live = Append(@, e)]

forceClose(s) == [s EXCEPT !.closed = TRUE]

\* The record after its next event, and its subscribers after the offer.
nextRecord(r, last) ==
    [r EXCEPT !.seq = @ + 1, !.terminal = last,
              !.ring = push(@, [id |-> r.seq + 1, last |-> last])]

newest(r) == r.ring[Len(r.ring)]

emitLocked(j, last) ==
    /\ ~ record[j].terminal /\ record[j].known
    /\ record[j].seq < (IF last THEN MaxEvents ELSE MaxEvents - 1)
    /\ record' = [record EXCEPT ![j] = nextRecord(@, last)]
    /\ conn' = [c \in Conn |-> IF c \in registered[j]
                               THEN offer(conn[c], newest(record'[j])) ELSE conn[c]]
    /\ UNCHANGED <<registered, globalSubscribers, shutdownDone, consumer, losses>>

progress(j) == emitLocked(j, FALSE)
finish(j) == emitLocked(j, TRUE)

\* Expiry, eviction by number or by bytes: see JobRegistry for which.
removeRetainedLocked(j) ==
    /\ record[j].known /\ record[j].terminal
    /\ record' = [record EXCEPT ![j].known = FALSE, ![j].ring = <<>>]
    /\ globalSubscribers' = globalSubscribers - Cardinality(registered[j])
    /\ registered' = [registered EXCEPT ![j] = {}]
    /\ conn' = [c \in Conn |-> IF c \in registered[j] THEN forceClose(conn[c]) ELSE conn[c]]
    /\ UNCHANGED <<shutdownDone, consumer, losses>>

\* Queued jobs get their last event, executing ones job.cancel_requested;
\* then every subscription is closed, and stays registered.
shutdown ==
    \E queued \in SUBSET {j \in Job : record[j].known /\ ~ record[j].terminal} :
        LET alive == {j \in Job : record[j].known /\ ~ record[j].terminal} IN
        /\ ~ shutdownDone /\ shutdownDone' = TRUE
        /\ \A j \in alive \ queued : record[j].seq < MaxEvents - 1
        /\ record' = [j \in Job |-> IF j \in alive THEN nextRecord(record[j], j \in queued)
                                    ELSE record[j]]
        /\ conn' = [c \in Conn |->
               IF \E j \in alive : c \in registered[j]
               THEN forceClose(offer(conn[c], newest(record'[conn[c].job])))
               ELSE IF \E j \in Job : c \in registered[j] THEN forceClose(conn[c])
               ELSE conn[c]]
        /\ UNCHANGED <<registered, globalSubscribers, consumer, losses>>

expiredOffByOne(r, id) == r.ring # <<>> /\ id < r.ring[1].id - 2  \* bug: misses one

expired(r, id) == r.ring # <<>> /\ id < r.ring[1].id - 1

exhausted(j) == \/ globalSubscribers >= maxGlobalSubscribers
                \/ Cardinality(registered[j]) >= maxSubscribersPerJob

\* events.stream().filter(...): what is kept stays in its order.
replayed(r, id) ==
    LET wanted == {i \in DOMAIN r.ring : id = None \/ r.ring[i].id > id}
        nth(n) == CHOOSE i \in wanted : Cardinality({k \in wanted : k <= i}) = n
    IN [n \in 1..Cardinality(wanted) |-> r.ring[nth(n)]]

\* The answer subscribe() leads to, its tests in their order.
answerTo(j, id) ==
    LET r == record[j] IN
    CASE ~ r.known -> "404"
      [] r.known /\ id # None /\ id > r.seq -> "400"
      [] r.known /\ id # None /\ id <= r.seq /\ expired(r, id) -> "409"
      [] OTHER -> IF exhausted(j) THEN "429" ELSE "200"

subscribe(c) ==
    LET j == conn[c].job
        answer == answerTo(j, conn[c].asked)
    IN
    /\ conn[c].at = "request"
    /\ IF answer = "200"
       THEN /\ conn' = [conn EXCEPT
                   ![c].answer = answer, ![c].at = "next",
                   ![c].replay = replayed(record[j], conn[c].asked),
                   ![c].terminalAtOpen = record[j].terminal]
            /\ registered' = [registered EXCEPT ![j] = @ \cup {c}]
            /\ globalSubscribers' = globalSubscribers + 1
       ELSE /\ conn' = [conn EXCEPT ![c].answer = answer, ![c].at = "done",
                                    ![c].eof = TRUE]
            /\ UNCHANGED <<registered, globalSubscribers>>
    /\ UNCHANGED <<record, shutdownDone, consumer, losses>>

-----------------------------------------------------------------------------
(* JobEventsHandler.serve(), on a thread per connection.                   *)

buffered(s) == s.replay \o s.live

\* next() hands an event over: replayed ones first.
nextEvent(c) ==
    /\ conn[c].at = "next" /\ ~ conn[c].closed /\ buffered(conn[c]) # <<>>
    /\ conn' = [conn EXCEPT
           ![c].hand = <<Head(buffered(conn[c]))>>,
           ![c].replay = IF @ # <<>> THEN Tail(@) ELSE @,
           ![c].live = IF conn[c].replay # <<>> THEN @ ELSE Tail(@),
           ![c].terminalDelivered = @ \/ Head(buffered(conn[c])).last,
           ![c].at = "write"]
    /\ UNCHANGED <<serverVars, consumer, losses>>

\* next() returns null and isClosed() ends the loop, with whatever is still
\* buffered.
nextClosed(c) ==
    /\ conn[c].at = "next"
    /\ \/ conn[c].closed
       \/ buffered(conn[c]) = <<>> /\ (conn[c].terminalAtOpen \/ conn[c].terminalDelivered)
    /\ conn' = [conn EXCEPT ![c].at = "close", ![c].closed = TRUE]
    /\ UNCHANGED <<serverVars, consumer, losses>>

heartbeatSwallowed(c) == FALSE  \* bug: a failed heartbeat is not noticed

\* A heartbeat that reaches its client leaves no trace; one to a client that
\* has gone fails.
heartbeat(c) ==
    /\ conn[c].at = "next" /\ ~ conn[c].closed /\ buffered(conn[c]) = <<>>
    /\ ~ conn[c].terminalAtOpen
    /\ ~ conn[c].up
    /\ conn' = [conn EXCEPT ![c].at = "close"]
    /\ UNCHANGED <<serverVars, consumer, losses>>

\* A write to a client that has gone may still be swallowed.
write(c) ==
    /\ conn[c].at = "write"
    /\ conn[c].up => Len(conn[c].wire) < WireCapacity
    /\ conn' = [conn EXCEPT ![c].wire = IF conn[c].up THEN @ \o conn[c].hand ELSE @,
                            ![c].at = IF conn[c].hand[1].last THEN "close" ELSE "next",
                            ![c].hand = <<>>]
    /\ UNCHANGED <<serverVars, consumer, losses>>

writeFails(c) ==
    /\ conn[c].at = "write" /\ ~ conn[c].up
    /\ conn' = [conn EXCEPT ![c].at = "close", ![c].hand = <<>>]
    /\ UNCHANGED <<serverVars, consumer, losses>>

leavesTwice(c) == {c}  \* bug: the slot is given back again after an eviction

\* What record.subscribers.remove(this) removes.
leaves(c) == {c} \cap registered[conn[c].job]

\* try-with-resources: Subscription.close().
close(c) ==
    /\ conn[c].at = "close"
    /\ registered' = [registered EXCEPT ![conn[c].job] = @ \ leaves(c)]
    /\ globalSubscribers' = globalSubscribers - Cardinality(leaves(c))
    /\ conn' = [conn EXCEPT ![c].at = "complete", ![c].closed = TRUE,
                            ![c].replay = <<>>, ![c].live = <<>>]
    /\ UNCHANGED <<record, shutdownDone, consumer, losses>>

\* The client's end of the stream comes after the slot has been given back.
complete(c) ==
    /\ conn[c].at = "complete"
    /\ conn' = [conn EXCEPT ![c].at = "done", ![c].eof = TRUE]
    /\ UNCHANGED <<serverVars, consumer, losses>>

-----------------------------------------------------------------------------
(* Job.events() and its caller.                                            *)

idOf(id) == IF id = None THEN 0 ELSE id

unused(c) == conn[c].at \in {"free", "done"} /\ \A k \in Consumer : consumer[k].conn # c

\* Opens the stream; the parser starts at the id that was asked for.
connect(k) == \E c \in Conn :
    /\ consumer[k].at = "idle" /\ unused(c)
    /\ conn' = [conn EXCEPT ![c] = [NoConnection EXCEPT
           !.at = "request", !.job = Followed[k], !.asked = consumer[k].resume, !.up = TRUE]]
    /\ consumer' = [consumer EXCEPT ![k].at = "waiting", ![k].conn = c,
                                    ![k].parsed = idOf(consumer[k].resume),
                                    ![k].terminal = FALSE, ![k].fed = <<>>]
    /\ UNCHANGED <<serverVars, losses>>

\* Leaving the iterator closes the connection.
leave(k, at) == /\ consumer' = [consumer EXCEPT ![k].at = at, ![k].conn = None,
                                                ![k].fed = <<>>, ![k].parsed = 0]
                /\ conn' = [conn EXCEPT ![consumer[k].conn].up = FALSE,
                                        ![consumer[k].conn].wire = <<>>]

\* stream_status(): errors become exceptions of the caller.
streamStatus(k) ==
    LET answer == conn[consumer[k].conn].answer IN
    /\ consumer[k].at = "waiting" /\ answer # "none"
    /\ IF answer = "200"
       THEN consumer' = [consumer EXCEPT ![k].at = "reading"] /\ UNCHANGED conn
       ELSE leave(k, CASE answer = "404" -> "gone"    [] answer = "400" -> "invalid"
                       [] answer = "409" -> "expired" [] answer = "429" -> "idle")
    /\ UNCHANGED <<serverVars, losses>>

accepts(id, last) == id > last

increasing(last, events) ==
    \A i \in DOMAIN events : accepts(events[i].id, IF i = 1 THEN last ELSE events[i - 1].id)

\* One piece of at most 16 KiB holds the next n frames; feed() stops behind a
\* terminal event, the m-th, and returns nothing when any frame is malformed.
feed(k) ==
    LET c == consumer[k].conn
        wire == conn[c].wire
    IN
    /\ consumer[k].at = "reading" /\ consumer[k].fed = <<>> /\ ~ consumer[k].terminal
    /\ \E n \in 1..Len(wire) : \E m \in 1..n :
           /\ m = n \/ wire[m].last
           /\ \A i \in 1..(m - 1) : ~ wire[i].last
           /\ IF increasing(consumer[k].parsed, SubSeq(wire, 1, m))
              THEN /\ consumer' = [consumer EXCEPT ![k].fed = SubSeq(wire, 1, m),
                                       ![k].parsed = wire[m].id,
                                       ![k].terminal = wire[m].last]
                   /\ conn' = [conn EXCEPT ![c].wire = SubSeq(@, n + 1, Len(@))]
              ELSE leave(k, "malformed")
    /\ UNCHANGED <<serverVars, losses>>

\* The caller gets the next event, and would resume behind it.
yield(k) ==
    /\ consumer[k].at = "reading" /\ consumer[k].fed # <<>>
    /\ consumer' = [consumer EXCEPT ![k].fed = Tail(@), ![k].seen = consumer[k].fed[1].id,
                                    ![k].resume = consumer[k].fed[1].id]
    /\ UNCHANGED <<serverVars, conn, losses>>

returns(k) ==
    /\ consumer[k].at = "reading" /\ consumer[k].fed = <<>> /\ consumer[k].terminal
    /\ leave(k, "complete")
    /\ UNCHANGED <<serverVars, losses>>

\* TransportError: the stream ended, or was cut, before a terminal event.
interrupted(k) ==
    LET c == consumer[k].conn IN
    /\ \/ consumer[k].at = "waiting" /\ conn[c].answer = "none"
       \/ consumer[k].at = "reading" /\ consumer[k].fed = <<>> /\ ~ consumer[k].terminal
    /\ conn[c].wire = <<>>
    /\ conn[c].eof \/ ~ conn[c].up
    /\ leave(k, "broken")
    /\ UNCHANGED <<serverVars, losses>>

reconnect(k) ==
    /\ consumer[k].at = "broken"
    /\ consumer' = [consumer EXCEPT ![k].at = "idle"]
    /\ UNCHANGED <<serverVars, conn, losses>>

\* Job.refresh() and the test of poll_updates(); after 409 the stale id goes.
poll(k) ==
    LET r == record[Followed[k]] IN
    /\ consumer[k].at \in {"broken", "expired"}
    /\ consumer' = [consumer EXCEPT
           ![k].at = IF ~ r.known THEN "gone" ELSE IF r.terminal THEN "polled" ELSE "idle",
           ![k].resume = IF consumer[k].at = "expired" /\ r.known /\ ~ r.terminal THEN None
                         ELSE @]
    /\ UNCHANGED <<serverVars, conn, losses>>

-----------------------------------------------------------------------------
(* Faults.                                                                 *)

\* Both ends are cut off, and frames in flight are lost; the caller may also
\* close the iterator and start again.
lose(c) ==
    /\ conn[c].up /\ losses < MaxLosses
    /\ conn' = [conn EXCEPT ![c].up = FALSE, ![c].wire = <<>>]
    /\ losses' = losses + 1
    /\ UNCHANGED <<serverVars, consumer>>

\* The process ends and another one starts: jobs are volatile.
restart ==
    /\ \E j \in Job : record[j].known
    /\ record' = [j \in Job |-> [record[j] EXCEPT !.known = FALSE, !.ring = <<>>]]
    /\ registered' = [j \in Job |-> {}] /\ globalSubscribers' = 0
    /\ shutdownDone' = FALSE
    /\ conn' = [c \in Conn |-> IF conn[c].at = "free" THEN conn[c]
                               ELSE [NoConnection EXCEPT !.at = "done"]]
    /\ UNCHANGED <<consumer, losses>>

-----------------------------------------------------------------------------
server(c) == \/ nextEvent(c) \/ nextClosed(c) \/ heartbeat(c) \/ write(c) \/ writeFails(c)
             \/ close(c) \/ complete(c)

client(k) == \/ connect(k) \/ streamStatus(k) \/ feed(k) \/ yield(k) \/ returns(k)
             \/ interrupted(k) \/ reconnect(k) \/ poll(k)

Next == \/ \E j \in Job : progress(j) \/ finish(j) \/ removeRetainedLocked(j)
        \/ shutdown \/ restart
        \/ \E c \in Conn : subscribe(c) \/ server(c) \/ lose(c)
        \/ \E k \in Consumer : client(k)

Spec == Init /\ [][Next]_vars

(* Threads are scheduled, and the caller goes on reading and reconnecting. *)
(* Nothing obliges a job to end or to be evicted, a connection to be lost  *)
(* or the service to stop.                                                 *)
FairSpec == /\ Spec
            /\ \A c \in Conn : WF_vars(subscribe(c)) /\ WF_vars(server(c))
            /\ \A k \in Consumer : WF_vars(client(k))

-----------------------------------------------------------------------------
Subscribed == {c \in Conn : \E j \in Job : c \in registered[j]}

(* globalSubscribers counts exactly the registered subscriptions, on every *)
(* path out of one: the end of the stream, a client that left, an eviction *)
(* that has already taken the subscription away, a shutdown that has not;  *)
(* each is served by a thread that will close it; and both budgets hold.   *)
SubscribersAccounted ==
    /\ globalSubscribers = Cardinality(Subscribed)
    /\ globalSubscribers <= maxGlobalSubscribers
    /\ \A j \in Job : /\ Cardinality(registered[j]) <= maxSubscribersPerJob
                      /\ \A c \in registered[j] : conn[c].job = j /\ conn[c].at \in Serving

oldestKept(r) == IF r.ring = <<>> THEN r.seq + 1 ELSE r.ring[1].id

Feed == INSTANCE EventFeed WITH
            emitted <- [j \in Job |-> record[j].seq],
            kept <- [j \in Job |-> oldestKept(record[j])],
            finished <- {j \in Job : record[j].terminal},
            forgotten <- {j \in Job : ~ record[j].known},
            cursor <- [k \in Consumer |-> consumer[k].seen],
            fresh <- {k \in Consumer : consumer[k].resume = None},
            outcome <- [k \in Consumer |-> IF consumer[k].at \in Outcomes
                                           THEN consumer[k].at ELSE "following"]

(* The events a caller of Job.events() gets over any number of streams     *)
(* are those of EventFeed: in order, once, and without a gap that it was   *)
(* not told of, through overflow, eviction, lost frames, reconnection and  *)
(* restart; and no stream of this server is ever refused by the parser,    *)
(* nor an id that was observed by the server.                              *)
ImplementsFeed == Feed!Spec

(* Once the job has ended or was forgotten, a caller that reconnects gets  *)
(* to the end as well: to its last event, its terminal state by polling,   *)
(* or 404.  It is not kept out for ever by subscriptions of dead           *)
(* connections, nor left on a stream that nobody writes to any more.       *)
FollowersEnd ==
    \A k \in Consumer :
        (record[Followed[k]].terminal \/ ~ record[Followed[k]].known)
            ~> (consumer[k].at \in Outcomes)

(* The subscription of a connection whose client has gone is given back    *)
(* although the job may go on, and be silent, for ever.                    *)
DeadSubscribersRemoved ==
    \A c \in Conn : (\E j \in Job : c \in registered[j] /\ ~ conn[c].up)
                        ~> (\A j \in Job : c \notin registered[j])

=============================================================================
