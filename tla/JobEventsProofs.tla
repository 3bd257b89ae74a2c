--------------------------- MODULE JobEventsProofs ---------------------------
(***************************************************************************)
(* Theorems of JobEvents, for any number of jobs, callers and connections  *)
(* and every budget: the subscription counter is exact, and what callers   *)
(* of Job.events() get is what EventFeed promises.                         *)
(*                                                                         *)
(* The argument follows an event through the stages of a connection.  The  *)
(* ring of a record holds its newest events, numbered without a gap.  So   *)
(* does what a connection still carries to its caller: frames on the wire, *)
(* the event in the serving thread's hand, the replay and the live buffer, *)
(* one behind the other, continue the numbers the parser has accepted.  As *)
(* long as the subscription is open they reach up to the newest event of   *)
(* the job, and the next one to be emitted fits behind them.               *)
(***************************************************************************)
EXTENDS JobEvents, FiniteSetTheorems, SequenceTheorems, TLAPS

-----------------------------------------------------------------------------
(* The invariant.                                                          *)

\* The ring holds the newest events; none is emitted after a terminal one.
RingKept(r) ==
    /\ r \in Record
    /\ r.known <=> r.ring # <<>>
    /\ Len(r.ring) <= maxEventsPerJob /\ Len(r.ring) <= r.seq
    /\ \A i \in DOMAIN r.ring :
          /\ r.ring[i].id = r.seq - Len(r.ring) + i
          /\ r.ring[i].last => r.terminal /\ i = Len(r.ring)
    /\ ~ r.terminal => r.seq < MaxEvents

\* s holds events n + 1, n + 2, ... of record r.
Run(r, s, n) ==
    \A i \in DOMAIN s : /\ s[i].id = n + i /\ n + i <= r.seq
                        /\ s[i].last => r.terminal /\ n + i = r.seq

\* All that connection s carries, in the order in which it will arrive.
Flows(r, s, n) ==
    /\ Run(r, s.wire, n)
    /\ Run(r, s.hand, n + Len(s.wire))
    /\ Run(r, s.replay, n + Len(s.wire) + Len(s.hand))
    /\ Run(r, s.live, n + Len(s.wire) + Len(s.hand) + Len(s.replay))

carried(s) == Len(s.wire) + Len(s.hand) + Len(s.replay) + Len(s.live)

\* m follows whatever is kept, and still waits for the first of it.
Fresh(m) == m.resume = None
Expectant(m) == Fresh(m) /\ m.fed = <<>>

\* Where caller m is in the history of its job, whose record is r.
Positioned(r, m) ==
    /\ m.seen <= r.seq
    /\ m.resume \in {None, m.seen}
    /\ Fresh(m) => m.seen < oldestKept(r)
    /\ m.at = "expired" => ~ Fresh(m) /\ m.seen + 1 < oldestKept(r)

\* What the parser has accepted and the caller has not got yet.
FedFits(r, m) ==
    LET base == m.parsed - Len(m.fed) IN
    /\ Run(r, m.fed, base)
    /\ ~ Fresh(m) => base = m.seen
    /\ Expectant(m) => m.parsed = 0
    /\ Fresh(m) /\ ~ Expectant(m) => m.seen <= base /\ base < oldestKept(r)
    /\ m.terminal => r.terminal /\ m.parsed = r.seq

\* The connection s of caller m is the one it opened to job j, and was
\* answered as the registry's state then demanded.
Answered(j, r, s, m) ==
    /\ s.at # "free"
    /\ s.at = "request" =>
          /\ m.at = "waiting"
          /\ s.asked = m.resume /\ s.job = j /\ s.answer = "none" /\ carried(s) = 0
    /\ m.at = "waiting" => m.fed = <<>> /\ ~ m.terminal
    /\ m.at = "reading" => s.answer \in {"200", "none"}
    /\ s.answer # "400"
    /\ s.answer = "404" => ~ r.known
    /\ s.answer = "409" => ~ Fresh(m) /\ m.seen + 1 < oldestKept(r)
    /\ s.up => s.job = j
    /\ ~ s.up => s.wire = <<>>

\* What the connection carries continues what the parser has accepted.  As
\* long as it is one of the subscribers R and open, it reaches the newest
\* event.
Continues(r, s, m, R) ==
    \E n \in Ids :
        /\ Flows(r, s, n)
        /\ ~ Expectant(m) => n = m.parsed
        /\ Expectant(m) => m.seen <= n /\ n < oldestKept(r)
        /\ m.conn \in R /\ ~ s.closed => /\ n + carried(s) = r.seq
                                         /\ Expectant(m) => carried(s) # 0

Follows(j, r, s, m, R) ==
    /\ Positioned(r, m)
    /\ m.at \in {"waiting", "reading"} =>
          FedFits(r, m) /\ Answered(j, r, s, m) /\ (s.up => Continues(r, s, m, R))

Plain == /\ shutdownDone \in BOOLEAN /\ losses \in 0..MaxLosses
         /\ globalSubscribers \in Nat

ConnFits(s) ==
    /\ s \in Connection
    /\ Len(s.live) <= maxFramesPerSubscriber
    /\ s.at = "write" => Len(s.hand) = 1
    /\ s.at # "write" => s.hand = <<>>
    /\ s.at \in Serving \cup {"request"} => s.job \in Job

Connections == conn \in [Conn -> Connection] /\ \A c \in Conn : ConnFits(conn[c])

RingsKept == record \in [Job -> Record] /\ \A j \in Job : RingKept(record[j])

Registered == /\ registered \in [Job -> SUBSET Conn]
              /\ IsFiniteSet(Subscribed)
              /\ SubscribersAccounted

Callers ==
    /\ consumer \in [Consumer -> Caller]
    /\ \A k \in Consumer : consumer[k].conn # None <=> consumer[k].at \in {"waiting", "reading"}
    /\ \A k, l \in Consumer :
          k # l /\ consumer[k].conn # None => consumer[k].conn # consumer[l].conn

Served ==
    \A k \in Consumer : Follows(Followed[k], record[Followed[k]], conn[consumer[k].conn],
                                consumer[k], registered[Followed[k]])

IInv == Plain /\ Connections /\ RingsKept /\ Registered /\ Callers /\ Served

-----------------------------------------------------------------------------
(* Records: what emitting, forgetting and killing the process leave.       *)

\* The history of a job goes on: r, then q.
Grows(r, q) ==
    /\ q.seq >= r.seq /\ oldestKept(q) >= oldestKept(r)
    /\ r.terminal => q.terminal /\ q.seq = r.seq
    /\ ~ r.known => ~ q.known

forgotten(r) == [r EXCEPT !.known = FALSE, !.ring = <<>>]

\* The oldest event kept is as far from the newest as the ring is long.
LEMMA OldestIs ==
    ASSUME NEW r, RingKept(r)
    PROVE  /\ r.seq \in Nat \ {0} /\ Len(r.ring) \in Nat /\ r.ring \in Seq(Event)
           /\ DOMAIN r.ring = 1..Len(r.ring)
           /\ r.ring = <<>> <=> Len(r.ring) = 0
           /\ oldestKept(r) = r.seq - Len(r.ring) + 1 /\ oldestKept(r) \in Nat \ {0}
<1>1. r.ring \in Seq(Event) /\ r.seq \in 1..MaxEvents
  BY DEF RingKept, Record
<1>2. Len(r.ring) \in Nat /\ DOMAIN r.ring = 1..Len(r.ring) /\ (r.ring = <<>> <=> Len(r.ring) = 0)
  BY <1>1, LenProperties, EmptySeq
<1>3. r.seq \in Nat \ {0}
  BY <1>1, BudgetAssumption
<1>4. oldestKept(r) = r.seq - Len(r.ring) + 1
  <2>1. CASE r.ring = <<>>
    BY <1>2, <1>3, <2>1 DEF oldestKept
  <2>2. CASE r.ring # <<>>
    <3>1. 1 \in DOMAIN r.ring
      BY <1>2, <2>2
    <3> QED BY <1>2, <1>3, <2>2, <3>1 DEF oldestKept, RingKept
  <2> QED BY <2>1, <2>2
<1> QED BY <1>1, <1>2, <1>3, <1>4 DEF RingKept

\* emitLocked() pushes the next event into the ring.
LEMMA NextRecordGrows ==
    ASSUME NEW r, RingKept(r), r.known, ~ r.terminal, NEW last \in BOOLEAN,
           r.seq < (IF last THEN MaxEvents ELSE MaxEvents - 1),
           NEW q, q = nextRecord(r, last)
    PROVE  /\ RingKept(q) /\ Grows(r, q)
           /\ q.seq = r.seq + 1 /\ q.terminal = last /\ q.known
           /\ newest(q) \in Event /\ newest(q).id = q.seq /\ (newest(q).last => q.terminal)
<1> DEFINE e == [id |-> r.seq + 1, last |-> last]
           kept == IF Len(r.ring) = maxEventsPerJob THEN Tail(r.ring) ELSE r.ring
           ring == Append(kept, e)
           L == Len(r.ring)
           K == Len(kept)
<1>1. /\ r.seq \in Nat \ {0} /\ L \in Nat /\ r.ring \in Seq(Event)
      /\ DOMAIN r.ring = 1..L /\ L # 0 /\ r.ring # <<>>
      /\ L <= maxEventsPerJob /\ L <= r.seq /\ maxEventsPerJob \in Nat \ {0}
      /\ \A i \in 1..L : r.ring[i].id = r.seq - L + i /\ ~ r.ring[i].last
  BY OldestIs, BudgetAssumption DEF RingKept
<1>2. e \in Event /\ r.seq + 1 \in 1..MaxEvents
  BY <1>1, BudgetAssumption DEF Event
<1>3. /\ kept \in Seq(Event) /\ K \in Nat /\ K < maxEventsPerJob /\ K <= L
      /\ DOMAIN kept = 1..K
      /\ \A i \in 1..K : kept[i].id = r.seq - K + i /\ ~ kept[i].last
  <2>1. CASE L = maxEventsPerJob
    <3>1. /\ Tail(r.ring) \in Seq(Event) /\ Len(Tail(r.ring)) = L - 1
          /\ DOMAIN Tail(r.ring) = 1..(L - 1)
          /\ \A i \in 1..(L - 1) : Tail(r.ring)[i] = r.ring[i + 1]
      BY <1>1, HeadTailProperties, LenProperties
    <3>2. kept = Tail(r.ring)
      BY <2>1
    <3>3. /\ r.seq \in Nat /\ L \in Nat \ {0} /\ maxEventsPerJob \in Nat
          /\ K = L - 1
      BY <1>1, <3>1, <3>2
    <3>4. /\ kept \in Seq(Event) /\ DOMAIN kept = 1..(L - 1)
          /\ \A i \in 1..(L - 1) : kept[i] = r.ring[i + 1]
      BY <3>1, <3>2, Zenon
    <3> HIDE DEF kept, K, L
    <3>5. K \in Nat /\ K < maxEventsPerJob /\ K <= L
      BY <2>1, <3>3
    <3>6. ASSUME NEW i \in 1..K
          PROVE  kept[i].id = r.seq - K + i /\ ~ kept[i].last
      <4>1. i \in 1..(L - 1) /\ i + 1 \in 1..L
        BY <3>3
      <4>2. kept[i] = r.ring[i + 1]
        BY <3>4, <4>1
      <4>3. r.ring[i + 1].id = r.seq - L + (i + 1) /\ ~ r.ring[i + 1].last
        BY <1>1, <4>1
      <4>4. r.seq - L + (i + 1) = r.seq - K + i
        BY <3>3
      <4> QED BY <4>2, <4>3, <4>4
    <3> QED BY <3>3, <3>4, <3>5, <3>6
  <2>2. CASE L # maxEventsPerJob
    <3>1. kept = r.ring
      BY <2>2
    <3> HIDE DEF kept
    <3> QED BY <1>1, <2>2, <3>1
  <2> QED BY <2>1, <2>2
<1>4. /\ q.known = TRUE /\ q.terminal = last /\ q.seq = r.seq + 1 /\ q.ring = ring
      /\ q = [r EXCEPT !.seq = r.seq + 1, !.terminal = last, !.ring = ring]
  <2>1. r \in Record
    BY DEF RingKept
  <2> QED BY <2>1 DEF nextRecord, push, Record
<1> HIDE DEF kept, e
<1>5. /\ ring \in Seq(Event) /\ Len(ring) = K + 1 /\ DOMAIN ring = 1..(K + 1)
      /\ \A i \in 1..K : ring[i] = kept[i]
      /\ ring[K + 1] = e /\ ring # <<>>
  <2>1. /\ ring \in Seq(Event) /\ Len(ring) = K + 1
        /\ \A i \in 1..K : ring[i] = kept[i]
        /\ ring[K + 1] = e
    BY <1>2, <1>3, AppendProperties
  <2>2. DOMAIN ring = 1..(K + 1) /\ ring # <<>>
    BY <1>3, <2>1, LenProperties, EmptySeq
  <2> QED BY <2>1, <2>2
<1> HIDE DEF ring
<1>6. e.id = r.seq + 1 /\ e.last = last
  BY DEF e
<1>7. q \in Record
  BY <1>2, <1>4, <1>5 DEF RingKept, Record
<1>11. r.seq \in Nat /\ K \in Nat /\ L \in Nat /\ K <= L
  BY <1>1, <1>3
<1>8. RingKept(q)
  <2>1. \A i \in 1..(K + 1) : /\ ring[i].id = r.seq + 1 - (K + 1) + i
                              /\ ring[i].last => last /\ i = K + 1
    <3> HIDE DEF K, L
    <3> TAKE i \in 1..(K + 1)
    <3>1. CASE i \in 1..K
      <4>1. ring[i] = kept[i] /\ kept[i].id = r.seq - K + i /\ ~ kept[i].last
        BY <1>3, <1>5, <3>1
      <4> QED BY <1>1, <1>3, <3>1, <4>1
    <3>2. CASE i = K + 1
      <4>0. ring[i] = e
        BY <1>5, <3>2
      <4>1. ring[i].last => last
        BY <4>0, <1>6, Zenon
      <4>2. ring[i].id = r.seq + 1
        BY <4>0, <1>6, Zenon
      <4>3. r.seq + 1 = r.seq + 1 - (K + 1) + i
        BY <1>11, <3>2
      <4> QED BY <3>2, <4>1, <4>2, <4>3, Zenon
    <3> QED BY <1>3, <3>1, <3>2
  <2>2. Len(q.ring) <= maxEventsPerJob /\ Len(q.ring) <= q.seq
    BY <1>1, <1>3, <1>4, <1>5
  <2>3. ~ q.terminal => q.seq < MaxEvents
    BY <1>1, <1>4, BudgetAssumption
  <2>4. /\ DOMAIN q.ring = 1..(K + 1) /\ Len(q.ring) = K + 1 /\ q.ring # <<>>
        /\ q.seq = r.seq + 1
    BY <1>4, <1>5
  <2>5. \A i \in DOMAIN q.ring : /\ q.ring[i].id = q.seq - Len(q.ring) + i
                                 /\ q.ring[i].last => q.terminal /\ i = Len(q.ring)
    <3> TAKE i \in DOMAIN q.ring
    <3>1. q.ring = ring /\ q.terminal = last /\ i \in 1..(K + 1)
      BY <1>4, <2>4
    <3>2. ring[i].id = r.seq + 1 - (K + 1) + i
      BY <2>1, <3>1
    <3>3. q.ring[i].id = q.seq - Len(q.ring) + i
      <4>1. q.ring[i].id = ring[i].id
        BY <3>1
      <4> HIDE DEF K
      <4> QED BY <2>4, <3>2, <4>1, <1>11
    <3>4. ring[i].last => last /\ i = K + 1
      BY <2>1, <3>1, Zenon
    <3> HIDE DEF K
    <3> QED BY <2>4, <3>1, <3>3, <3>4, Zenon
  <2>6. q.known <=> q.ring # <<>>
    BY <1>4, <2>4
  <2> QED BY <1>7, <2>2, <2>3, <2>5, <2>6 DEF RingKept
<1>9. Grows(r, q)
  <2>1. oldestKept(q) = r.seq + 1 - (K + 1) + 1 /\ oldestKept(r) = r.seq - L + 1
    <3>1. oldestKept(q) = q.seq - Len(q.ring) + 1 /\ oldestKept(r) = r.seq - L + 1
      BY <1>8, OldestIs
    <3>2. q.seq = r.seq + 1 /\ Len(q.ring) = K + 1
      BY <1>4, <1>5
    <3> QED BY <3>1, <3>2, <1>11
  <2> HIDE DEF K, L
  <2>2. oldestKept(q) >= oldestKept(r)
    BY <1>11, <2>1
  <2>3. q.seq >= r.seq
    BY <1>1, <1>4
  <2> QED BY <2>2, <2>3, Zenon DEF Grows
<1>10. newest(q) = e
  BY <1>4, <1>5 DEF newest
<1> QED BY <1>2, <1>4, <1>6, <1>8, <1>9, <1>10

\* removeRetainedLocked(), and the end of the process.
LEMMA ForgottenGrows ==
    ASSUME NEW r, RingKept(r), NEW q, q = forgotten(r)
    PROVE  /\ RingKept(q) /\ Grows(r, q) /\ ~ q.known
           /\ q.seq = r.seq /\ q.terminal = r.terminal
<1>1. /\ q \in Record /\ q.known = FALSE /\ q.ring = <<>>
      /\ q.seq = r.seq /\ q.terminal = r.terminal
  <2>1. r \in Record /\ <<>> \in Seq(Event)
    BY DEF RingKept
  <2> QED BY <2>1 DEF forgotten, Record
<1>2. RingKept(q)
  <2>1. Len(q.ring) = 0 /\ DOMAIN q.ring = {} /\ r.seq \in Nat /\ maxEventsPerJob \in Nat
    BY <1>1, OldestIs, BudgetAssumption
  <2> QED BY <1>1, <2>1 DEF RingKept
<1>3. Grows(r, q)
  <2>1. oldestKept(q) = r.seq + 1 /\ oldestKept(r) = r.seq - Len(r.ring) + 1
    BY <1>1, <1>2, OldestIs DEF oldestKept
  <2> QED BY <1>1, <2>1, OldestIs DEF Grows
<1> QED BY <1>1, <1>2, <1>3

\* Nothing happens to the record.
LEMMA SameGrows ==
    ASSUME NEW r, RingKept(r)
    PROVE  Grows(r, r)
BY OldestIs DEF Grows

\* Events stay where they are in a history that goes on.
LEMMA RunGrows ==
    ASSUME NEW r, RingKept(r), NEW q, RingKept(q), Grows(r, q), NEW s, NEW n, Run(r, s, n),
           n \in Int, s \in Seq(Event)
    PROVE  Run(q, s, n)
<1>1. r.seq \in Nat /\ q.seq \in Nat
  BY OldestIs
<1>2. DOMAIN s \subseteq Nat
  BY LenProperties
<1> QED BY <1>1, <1>2 DEF Run, Grows

-----------------------------------------------------------------------------
(* Runs of events: what handlers take from one and put behind another.     *)

\* Tail() of a queue of events: next(), yield.
LEMMA RunTail ==
    ASSUME NEW r, NEW s \in Seq(Event), s # <<>>, NEW n \in Int, Run(r, s, n)
    PROVE  /\ Run(r, Tail(s), n + 1) /\ s[1] \in Event /\ s[1].id = n + 1 /\ n + 1 <= r.seq
           /\ s[1].last => r.terminal /\ n + 1 = r.seq
           /\ Tail(s) \in Seq(Event) /\ Len(Tail(s)) = Len(s) - 1 /\ Len(s) \in Nat \ {0}
<1>1. /\ Tail(s) \in Seq(Event) /\ Len(Tail(s)) = Len(s) - 1
      /\ \A i \in 1..(Len(s) - 1) : Tail(s)[i] = s[i + 1]
  BY HeadTailProperties
<1>2. /\ Len(s) \in Nat \ {0} /\ DOMAIN s = 1..Len(s)
      /\ DOMAIN Tail(s) = 1..(Len(s) - 1)
  BY <1>1, LenProperties, EmptySeq
<1>3. 1 \in DOMAIN s /\ s[1] \in Event
  BY <1>2, ElementOfSeq
<1>4. \A i \in DOMAIN Tail(s) : i + 1 \in DOMAIN s /\ Tail(s)[i] = s[i + 1]
  BY <1>1, <1>2
<1>5. Run(r, Tail(s), n + 1)
  BY <1>1, <1>2, <1>4 DEF Run
<1>6. /\ s[1].id = n + 1 /\ n + 1 <= r.seq
      /\ s[1].last => r.terminal /\ n + 1 = r.seq
  BY <1>3 DEF Run
<1> QED BY <1>1, <1>2, <1>3, <1>5, <1>6

\* wire \o hand: write().
LEMMA RunConcat ==
    ASSUME NEW r, NEW s \in Seq(Event), NEW t \in Seq(Event), NEW n \in Int,
           Run(r, s, n), Run(r, t, n + Len(s))
    PROVE  /\ Run(r, s \o t, n) /\ s \o t \in Seq(Event)
           /\ Len(s \o t) = Len(s) + Len(t) /\ Len(s) \in Nat /\ Len(t) \in Nat
<1>1. /\ s \o t \in Seq(Event) /\ Len(s \o t) = Len(s) + Len(t)
      /\ \A i \in 1..(Len(s) + Len(t)) :
            (s \o t)[i] = IF i <= Len(s) THEN s[i] ELSE t[i - Len(s)]
  BY ConcatProperties
<1>2. /\ Len(s) \in Nat /\ Len(t) \in Nat /\ DOMAIN s = 1..Len(s) /\ DOMAIN t = 1..Len(t)
      /\ DOMAIN (s \o t) = 1..(Len(s) + Len(t))
  BY <1>1, LenProperties
<1>3. ASSUME NEW i \in DOMAIN (s \o t)
      PROVE  /\ (s \o t)[i].id = n + i /\ n + i <= r.seq
             /\ (s \o t)[i].last => r.terminal /\ n + i = r.seq
  <2>1. CASE i <= Len(s)
    <3>1. i \in DOMAIN s /\ (s \o t)[i] = s[i]
      BY <1>1, <1>2, <1>3, <2>1
    <3> QED BY <3>1 DEF Run
  <2>2. CASE ~ i <= Len(s)
    <3>1. i - Len(s) \in DOMAIN t /\ (s \o t)[i] = t[i - Len(s)]
      BY <1>1, <1>2, <1>3, <2>2
    <3>2. n + Len(s) + (i - Len(s)) = n + i
      BY <1>2, <1>3
    <3>3. PICK k : k = i - Len(s)
      OBVIOUS
    <3>4. /\ t[k].id = n + i /\ n + i <= r.seq
          /\ t[k].last => r.terminal /\ n + i = r.seq
      BY <3>1, <3>2, <3>3 DEF Run
    <3> QED BY <3>1, <3>3, <3>4
  <2> QED BY <2>1, <2>2
<1> QED BY <1>1, <1>2, <1>3 DEF Run

\* What feed() takes of the wire, and what it leaves.
LEMMA RunSplit ==
    ASSUME NEW r, NEW s \in Seq(Event), NEW n \in Int, Run(r, s, n), NEW m \in 1..Len(s)
    PROVE  /\ Run(r, SubSeq(s, 1, m), n) /\ Run(r, SubSeq(s, m + 1, Len(s)), n + m)
           /\ SubSeq(s, 1, m) \in Seq(Event) /\ SubSeq(s, m + 1, Len(s)) \in Seq(Event)
           /\ Len(SubSeq(s, 1, m)) = m /\ Len(SubSeq(s, m + 1, Len(s))) = Len(s) - m
           /\ \A i \in 1..m : SubSeq(s, 1, m)[i] = s[i]
           /\ DOMAIN SubSeq(s, 1, m) = 1..m
           /\ s[m] \in Event /\ s[m].id = n + m /\ n + m <= r.seq
           /\ s[m].last => r.terminal /\ n + m = r.seq
           /\ Len(s) \in Nat
<1>1. Len(s) \in Nat /\ DOMAIN s = 1..Len(s) /\ m \in Nat \ {0} /\ m <= Len(s)
  BY LenProperties
<1>2. /\ SubSeq(s, 1, m) \in Seq(Event) /\ Len(SubSeq(s, 1, m)) = m
      /\ \A i \in 1..m : SubSeq(s, 1, m)[i] = s[i]
  BY <1>1, SubSeqProperties
<1>3. /\ SubSeq(s, m + 1, Len(s)) \in Seq(Event) /\ Len(SubSeq(s, m + 1, Len(s))) = Len(s) - m
      /\ \A i \in 1..(Len(s) - m) : SubSeq(s, m + 1, Len(s))[i] = s[m + i]
  <2>1. /\ SubSeq(s, m + 1, Len(s)) \in Seq(Event)
        /\ Len(SubSeq(s, m + 1, Len(s))) = IF m + 1 <= Len(s) THEN Len(s) - (m + 1) + 1 ELSE 0
        /\ \A i \in 1..(Len(s) - (m + 1) + 1) : SubSeq(s, m + 1, Len(s))[i] = s[m + 1 + i - 1]
    BY <1>1, SubSeqProperties
  <2>2. \A i \in 1..(Len(s) - m) : m + 1 + i - 1 = m + i /\ i \in 1..(Len(s) - (m + 1) + 1)
    BY <1>1
  <2>3. Len(SubSeq(s, m + 1, Len(s))) = Len(s) - m
    <3>1. Len(SubSeq(s, m + 1, Len(s))) = IF m + 1 <= Len(s) THEN Len(s) - (m + 1) + 1 ELSE 0
      BY <2>1
    <3>2. (IF m + 1 <= Len(s) THEN Len(s) - (m + 1) + 1 ELSE 0) = Len(s) - m
      <4>1. \A a, b \in Nat : b <= a => (IF b + 1 <= a THEN a - (b + 1) + 1 ELSE 0) = a - b
        OBVIOUS
      <4> QED BY <1>1, <4>1
    <3> QED BY <3>1, <3>2
  <2> QED BY <2>1, <2>2, <2>3
<1>4. DOMAIN SubSeq(s, 1, m) = 1..m /\ DOMAIN SubSeq(s, m + 1, Len(s)) = 1..(Len(s) - m)
  BY <1>1, <1>2, <1>3, LenProperties
<1>5. Run(r, SubSeq(s, 1, m), n)
  BY <1>1, <1>2, <1>4 DEF Run
<1>6. Run(r, SubSeq(s, m + 1, Len(s)), n + m)
  <2>1. ASSUME NEW i \in 1..(Len(s) - m)
        PROVE  /\ s[m + i].id = n + m + i /\ n + m + i <= r.seq
               /\ s[m + i].last => r.terminal /\ n + m + i = r.seq
    <3>1. m + i \in DOMAIN s /\ n + (m + i) = n + m + i
      BY <1>1
    <3>2. PICK k : k = m + i
      OBVIOUS
    <3> QED BY <3>1, <3>2 DEF Run
  <2> QED BY <1>3, <1>4, <2>1 DEF Run
<1>7. /\ s[m] \in Event /\ s[m].id = n + m /\ n + m <= r.seq
      /\ s[m].last => r.terminal /\ n + m = r.seq
  <2>1. m \in DOMAIN s
    BY <1>1
  <2> QED BY <1>1, <2>1, ElementOfSeq DEF Run
<1> QED BY <1>1, <1>2, <1>3, <1>4, <1>5, <1>6, <1>7

\* Nothing at all is a run wherever it stands.
LEMMA RunEmpty ==
    ASSUME NEW r, NEW n
    PROVE  Run(r, <<>>, n) /\ Len(<<>>) = 0
BY DEF Run

\* The event that offer() puts behind.
LEMMA RunAppend ==
    ASSUME NEW r, NEW s \in Seq(Event), NEW n \in Int, Run(r, s, n), NEW e \in Event,
           e.id = n + Len(s) + 1, e.id <= r.seq, e.last => r.terminal /\ e.id = r.seq
    PROVE  /\ Run(r, Append(s, e), n) /\ Append(s, e) \in Seq(Event)
           /\ Len(Append(s, e)) = Len(s) + 1 /\ Len(s) \in Nat
<1> DEFINE t == Append(s, e)
           L == Len(s)
<1>1. /\ t \in Seq(Event) /\ Len(t) = L + 1
      /\ \A i \in 1..L : t[i] = s[i]
      /\ t[L + 1] = e
  BY AppendProperties
<1>2. L \in Nat /\ DOMAIN s = 1..L /\ DOMAIN t = 1..(L + 1)
  BY <1>1, LenProperties
<1>3. e.id = n + L + 1
  OBVIOUS
<1> HIDE DEF t, L
<1>4. ASSUME NEW i \in DOMAIN t
      PROVE  /\ t[i].id = n + i /\ n + i <= r.seq
             /\ t[i].last => r.terminal /\ n + i = r.seq
  <2>1. CASE i \in 1..L
    <3>1. i \in DOMAIN s /\ t[i] = s[i]
      BY <1>1, <1>2, <2>1
    <3> QED BY <3>1 DEF Run
  <2>2. CASE i = L + 1
    <3>1. t[i] = e
      BY <1>1, <2>2
    <3>2. n + i = e.id
      BY <1>2, <1>3, <2>2
    <3> QED BY <3>1, <3>2, Zenon
  <2> QED BY <1>2, <2>1, <2>2
<1>5. Run(r, t, n)
  BY <1>4 DEF Run
<1> QED BY <1>1, <1>2, <1>5 DEF t, L

-----------------------------------------------------------------------------
(* A caller and its connection, while the registry or the serving thread   *)
(* takes a step.                                                           *)

\* s becomes t: it was not opened again, and what came of its request stays.
Passes(s, t) ==
    /\ t.at # "free" /\ t.answer \in {s.answer, "none"}
    /\ t.at = "request" => /\ s.at = "request" /\ t.answer = "none" /\ carried(t) = 0
                           /\ t.asked = s.asked /\ t.job = s.job
    /\ t.up => s.up /\ t.job = s.job
    /\ ~ t.up => t.wire = <<>>

\* The numbers a caller keeps.
LEMMA CallerNumbers ==
    ASSUME NEW m \in Caller
    PROVE  /\ m.seen \in Nat /\ m.parsed \in Nat /\ Len(m.fed) \in Nat
           /\ m.seen \in Ids /\ m.parsed \in Ids
           /\ m.fed \in Seq(Event) /\ (m.fed = <<>> <=> Len(m.fed) = 0)
           /\ Ids \subseteq Nat
<1>1. m.seen \in Ids /\ m.parsed \in Ids /\ m.fed \in Seq(Event) /\ Ids \subseteq Nat
  BY BudgetAssumption DEF Caller, Ids
<1>2. Len(m.fed) \in Nat /\ (m.fed = <<>> <=> Len(m.fed) = 0)
  BY <1>1, LenProperties, EmptySeq
<1> QED BY <1>1, <1>2

\* The queues of a connection.
LEMMA ConnectionQueues ==
    ASSUME NEW s \in Connection
    PROVE  /\ s.wire \in Seq(Event) /\ s.hand \in Seq(Event)
           /\ s.replay \in Seq(Event) /\ s.live \in Seq(Event)
           /\ Len(s.wire) \in Nat /\ Len(s.hand) \in Nat
           /\ Len(s.replay) \in Nat /\ Len(s.live) \in Nat /\ carried(s) \in Nat
<1>1. /\ s.wire \in Seq(Event) /\ s.hand \in Seq(Event)
      /\ s.replay \in Seq(Event) /\ s.live \in Seq(Event)
  BY DEF Connection
<1>2. /\ Len(s.wire) \in Nat /\ Len(s.hand) \in Nat
      /\ Len(s.replay) \in Nat /\ Len(s.live) \in Nat
  BY <1>1, LenProperties
<1>3. carried(s) \in Nat
  <2>1. \A a, b, c, d \in Nat : a + b + c + d \in Nat
    OBVIOUS
  <2> QED BY <1>2, <2>1 DEF carried
<1> QED BY <1>1, <1>2, <1>3

\* The history that goes on leaves a caller its place in it.
LEMMA PositionedGrows ==
    ASSUME NEW r, RingKept(r), NEW q, RingKept(q), Grows(r, q),
           NEW m \in Caller, Positioned(r, m)
    PROVE  Positioned(q, m)
<1>1. /\ r.seq \in Nat /\ q.seq \in Nat /\ oldestKept(r) \in Nat /\ oldestKept(q) \in Nat
      /\ m.seen \in Nat
  BY OldestIs, CallerNumbers
<1> QED BY <1>1 DEF Positioned, Grows

\* ... and the events fed to it.
LEMMA FedGrows ==
    ASSUME NEW r, RingKept(r), NEW q, RingKept(q), Grows(r, q),
           NEW m \in Caller, FedFits(r, m)
    PROVE  FedFits(q, m)
<1> DEFINE base == m.parsed - Len(m.fed)
<1>1. /\ r.seq \in Nat /\ q.seq \in Nat /\ oldestKept(r) \in Nat /\ oldestKept(q) \in Nat
      /\ m.fed \in Seq(Event) /\ base \in Int
  BY OldestIs, CallerNumbers
<1>2. Run(q, m.fed, base)
  BY <1>1, RunGrows DEF FedFits
<1>3. Fresh(m) /\ ~ Expectant(m) => m.seen <= base /\ base < oldestKept(q)
  BY <1>1 DEF FedFits, Grows
<1>4. m.terminal => q.terminal /\ m.parsed = q.seq
  BY DEF FedFits, Grows
<1> QED BY <1>2, <1>3, <1>4 DEF FedFits

\* ... and the answer to its request.
LEMMA AnsweredGrows ==
    ASSUME NEW j, NEW r, RingKept(r), NEW q, RingKept(q), Grows(r, q), NEW m \in Caller,
           NEW s, NEW t, Answered(j, r, s, m), Passes(s, t)
    PROVE  Answered(j, q, t, m)
<1>1. /\ oldestKept(r) \in Nat /\ oldestKept(q) \in Nat /\ m.seen \in Nat
      /\ oldestKept(q) >= oldestKept(r)
  BY OldestIs, CallerNumbers DEF Grows
<1>2. t.answer # "400" /\ (t.answer \in {"404", "409"} => s.answer = t.answer)
  BY DEF Answered, Passes
<1>3. t.answer = "404" => ~ q.known
  BY <1>2 DEF Answered, Grows
<1>4. t.answer = "409" => ~ Fresh(m) /\ m.seen + 1 < oldestKept(q)
  BY <1>1, <1>2 DEF Answered
<1>5. t.at = "request" =>
          /\ m.at = "waiting"
          /\ t.asked = m.resume /\ t.job = j /\ t.answer = "none" /\ carried(t) = 0
  BY DEF Answered, Passes
<1>6. /\ t.up => t.job = j
      /\ ~ t.up => t.wire = <<>>
      /\ t.at # "free"
      /\ m.at = "reading" => t.answer \in {"200", "none"}
  BY DEF Answered, Passes
<1> QED BY <1>2, <1>3, <1>4, <1>5, <1>6 DEF Answered

\* The registry and the serving thread leave a caller where it is, if what
\* its connection then carries still continues what it has.
LEMMA StillFollows ==
    ASSUME NEW j, NEW r, RingKept(r), NEW q, RingKept(q), Grows(r, q), NEW m \in Caller,
           NEW s, NEW t, NEW R, NEW Q, Follows(j, r, s, m, R),
           m.at \in {"waiting", "reading"} => Passes(s, t) /\ (t.up => Continues(q, t, m, Q))
    PROVE  Follows(j, q, t, m, Q)
<1>1. Positioned(q, m)
  BY PositionedGrows DEF Follows
<1>2. ASSUME m.at \in {"waiting", "reading"}
      PROVE  FedFits(q, m) /\ Answered(j, q, t, m) /\ (t.up => Continues(q, t, m, Q))
  BY <1>2, FedGrows, AnsweredGrows DEF Follows
<1> QED BY <1>1, <1>2 DEF Follows

\* What a connection carries continues what was accepted as long as it is
\* a run from the same event on, and an open subscription got what has been
\* emitted.
LEMMA ContinuesGrows ==
    ASSUME NEW r, RingKept(r), NEW q, RingKept(q), Grows(r, q), NEW m \in Caller,
           NEW s \in Connection, NEW t \in Connection, NEW R, NEW Q, Continues(r, s, m, R),
           \A n \in Int : /\ Flows(r, s, n)
                          /\ m.conn \in R /\ ~ s.closed => n + carried(s) = r.seq
                          => Flows(q, t, n),
           m.conn \in Q /\ ~ t.closed =>
               m.conn \in R /\ ~ s.closed /\ carried(t) - carried(s) = q.seq - r.seq
    PROVE  Continues(q, t, m, Q)
<1>1. /\ oldestKept(r) \in Nat /\ oldestKept(q) \in Nat /\ m.seen \in Nat
      /\ oldestKept(q) >= oldestKept(r) /\ q.seq >= r.seq /\ q.seq \in Nat /\ r.seq \in Nat
      /\ carried(s) \in Nat /\ carried(t) \in Nat /\ Ids \subseteq Nat
  BY OldestIs, CallerNumbers, ConnectionQueues DEF Grows
<1>2. PICK n \in Ids :
        /\ Flows(r, s, n)
        /\ ~ Expectant(m) => n = m.parsed
        /\ Expectant(m) => m.seen <= n /\ n < oldestKept(r)
        /\ m.conn \in R /\ ~ s.closed => /\ n + carried(s) = r.seq
                                         /\ Expectant(m) => carried(s) # 0
  BY DEF Continues
<1>3. n \in Nat /\ Flows(q, t, n)
  BY <1>1, <1>2
<1>4. Expectant(m) => m.seen <= n /\ n < oldestKept(q)
  BY <1>1, <1>2, <1>3
<1>5. ASSUME m.conn \in Q, ~ t.closed
      PROVE  n + carried(t) = q.seq /\ (Expectant(m) => carried(t) # 0)
  BY <1>1, <1>2, <1>3, <1>5
<1> QED BY <1>2, <1>3, <1>4, <1>5 DEF Continues

\* What the registry does not touch of a connection.
Beside(s, t) ==
    /\ t.at = s.at /\ t.asked = s.asked /\ t.job = s.job /\ t.answer = s.answer
    /\ t.up = s.up /\ t.wire = s.wire /\ t.hand = s.hand /\ t.replay = s.replay

\* The live buffer of t, after that of s: the next event was offered, or not.
Offered(r, q, s, t) ==
    \/ t.live = s.live
    \/ /\ ~ s.closed
       /\ \E e \in Event : /\ t.live = Append(s.live, e)
                           /\ e.id = r.seq + 1 /\ e.id = q.seq
                           /\ e.last => q.terminal

\* s becomes t beside caller m, among the subscribers R, later Q: an open
\* subscription got the event that r was given.
Attended(r, q, s, t, m, R, Q) ==
    /\ s \in Connection /\ t \in Connection /\ Beside(s, t)
    /\ s.at = "request" => t.live = s.live
    /\ s.up => /\ Offered(r, q, s, t)
               /\ t.live # s.live => m.conn \in R
               /\ m.conn \in Q /\ ~ t.closed =>
                     /\ m.conn \in R /\ ~ s.closed
                     /\ Len(t.live) - Len(s.live) = q.seq - r.seq

\* What is carried remains a run when nothing is offered ...
LEMMA FlowsGrows ==
    ASSUME NEW r, RingKept(r), NEW q, RingKept(q), Grows(r, q),
           NEW s \in Connection, NEW t \in Connection, Beside(s, t), t.live = s.live,
           NEW n \in Int, Flows(r, s, n)
    PROVE  Flows(q, t, n) /\ carried(t) = carried(s)
<1> DEFINE w == n + Len(s.wire)
           h == n + Len(s.wire) + Len(s.hand)
           p == n + Len(s.wire) + Len(s.hand) + Len(s.replay)
<1>1. /\ s.wire \in Seq(Event) /\ s.hand \in Seq(Event)
      /\ s.replay \in Seq(Event) /\ s.live \in Seq(Event)
  BY ConnectionQueues
<1>2. w \in Int /\ h \in Int /\ p \in Int
  <2>1. \A a, b, c \in Nat : n + a \in Int /\ n + a + b \in Int /\ n + a + b + c \in Int
    OBVIOUS
  <2> QED BY <2>1, ConnectionQueues
<1>3. Run(r, s.wire, n) /\ Run(r, s.hand, w) /\ Run(r, s.replay, h) /\ Run(r, s.live, p)
  BY DEF Flows
<1> HIDE DEF w, h, p
<1>4. Run(q, s.wire, n) /\ Run(q, s.hand, w) /\ Run(q, s.replay, h) /\ Run(q, s.live, p)
  BY <1>1, <1>2, <1>3, RunGrows
<1>5. Flows(q, t, n)
  BY <1>4 DEF Beside, Flows, w, h, p
<1> QED BY <1>5 DEF Beside, carried

\* ... and when the next event goes behind.
LEMMA FlowsOffered ==
    ASSUME NEW r, RingKept(r), NEW q, RingKept(q), Grows(r, q),
           NEW s \in Connection, NEW t \in Connection, Beside(s, t),
           NEW e \in Event, t.live = Append(s.live, e), e.id = r.seq + 1, e.id = q.seq,
           e.last => q.terminal,
           NEW n \in Int, Flows(r, s, n), n + carried(s) = r.seq
    PROVE  Flows(q, t, n)
<1> DEFINE u == [t EXCEPT !.live = s.live]
           p == n + Len(s.wire) + Len(s.hand) + Len(s.replay)
<1>1. s.live \in Seq(Event) /\ Len(s.live) \in Nat /\ p \in Int
  <2>1. \A a, b, c \in Nat : n + a + b + c \in Int
    OBVIOUS
  <2> QED BY <2>1, ConnectionQueues
<1>2. p + Len(s.live) + 1 = e.id
  <2>1. \A a, b, c, d \in Nat : n + (a + b + c + d) = r.seq => n + a + b + c + d + 1 = r.seq + 1
    OBVIOUS
  <2>2. n + (Len(s.wire) + Len(s.hand) + Len(s.replay) + Len(s.live)) = r.seq
    BY DEF carried
  <2> QED BY <2>1, <2>2, ConnectionQueues
<1>3. /\ u \in Connection /\ u.live = s.live /\ t = [u EXCEPT !.live = t.live]
      /\ Beside(s, u) /\ Beside(u, t)
  BY <1>1 DEF Beside, Connection
<1>4. Flows(q, u, n)
  <2> HIDE DEF u
  <2> QED BY <1>3, FlowsGrows
<1>5. Run(q, s.live, p)
  <2> HIDE DEF u
  <2> QED BY <1>3, <1>4 DEF Flows, Beside
<1>6. Run(q, t.live, p)
  <2>1. e.id <= q.seq
    BY OldestIs
  <2> HIDE DEF p, u
  <2> QED BY <1>1, <1>2, <1>5, <2>1, RunAppend
<1> HIDE DEF u
<1> QED BY <1>3, <1>4, <1>6 DEF Flows, Beside

\* A caller goes on where it is when the registry emits an event, forgets
\* the record, or closes subscriptions.
LEMMA FollowsBeside ==
    ASSUME NEW j, NEW r, RingKept(r), NEW q, RingKept(q), Grows(r, q), NEW m \in Caller,
           NEW s, NEW t, NEW R, NEW Q, Follows(j, r, s, m, R),
           m.at \in {"waiting", "reading"} => Attended(r, q, s, t, m, R, Q)
    PROVE  Follows(j, q, t, m, Q)
<1> SUFFICES ASSUME m.at \in {"waiting", "reading"}
             PROVE  Passes(s, t) /\ (t.up => Continues(q, t, m, Q))
  BY StillFollows
<1>1. /\ s \in Connection /\ t \in Connection /\ Beside(s, t)
      /\ s.at = "request" => t.live = s.live
      /\ s.up => /\ Offered(r, q, s, t)
                 /\ t.live # s.live => m.conn \in R
                 /\ m.conn \in Q /\ ~ t.closed =>
                       /\ m.conn \in R /\ ~ s.closed
                       /\ Len(t.live) - Len(s.live) = q.seq - r.seq
  BY DEF Attended
<1>2. Answered(j, r, s, m)
  BY DEF Follows
<1>3. carried(t) - carried(s) = Len(t.live) - Len(s.live)
  <2>1. \A a, b, c, d, e \in Nat : (a + b + c + d) - (a + b + c + e) = d - e
    OBVIOUS
  <2>2. /\ carried(t) = Len(s.wire) + Len(s.hand) + Len(s.replay) + Len(t.live)
        /\ carried(s) = Len(s.wire) + Len(s.hand) + Len(s.replay) + Len(s.live)
    BY <1>1 DEF carried, Beside
  <2> QED BY <1>1, <2>1, <2>2, ConnectionQueues
<1>5. Passes(s, t)
  <2>1. s.at = "request" => carried(t) = 0
    BY <1>1, <1>2 DEF Answered, carried, Beside
  <2> QED BY <1>1, <1>2, <2>1 DEF Passes, Beside, Answered
<1>6. ASSUME t.up PROVE Continues(q, t, m, Q)
  <2>1. s.up /\ Continues(r, s, m, R)
    BY <1>1, <1>6 DEF Follows, Beside
  <2>2. ASSUME NEW n \in Int, Flows(r, s, n),
               m.conn \in R /\ ~ s.closed => n + carried(s) = r.seq
        PROVE  Flows(q, t, n)
    <3>1. CASE t.live = s.live
      BY <1>1, <2>2, <3>1, FlowsGrows
    <3>2. CASE t.live # s.live
      <4>1. PICK e \in Event : /\ t.live = Append(s.live, e)
                               /\ e.id = r.seq + 1 /\ e.id = q.seq
                               /\ e.last => q.terminal
        BY <1>1, <2>1, <3>2 DEF Offered
      <4>2. m.conn \in R /\ ~ s.closed
        BY <1>1, <2>1, <3>2 DEF Offered
      <4> QED BY <1>1, <2>2, <4>1, <4>2, FlowsOffered
    <3> QED BY <3>1, <3>2
  <2>3. m.conn \in Q /\ ~ t.closed =>
            m.conn \in R /\ ~ s.closed /\ carried(t) - carried(s) = q.seq - r.seq
    BY <1>1, <1>3, <2>1
  <2> QED BY <1>1, <2>1, <2>2, <2>3, ContinuesGrows
<1> QED BY <1>5, <1>6

\* Nothing happens to the record or to the connection.
LEMMA FollowsSame ==
    ASSUME NEW j, NEW r, RingKept(r), NEW m \in Caller, NEW s, NEW t, NEW R, NEW Q,
           Follows(j, r, s, m, R),
           m.at \in {"waiting", "reading"} =>
               s \in Connection /\ t = s /\ (m.conn \in Q => m.conn \in R)
    PROVE  Follows(j, r, t, m, Q)
<1>1. Grows(r, r)
  BY SameGrows
<1>2. ASSUME m.at \in {"waiting", "reading"}
      PROVE  Passes(s, t) /\ (t.up => Continues(r, t, m, Q))
  <2>1. s \in Connection /\ t = s /\ (m.conn \in Q => m.conn \in R)
    BY <1>2
  <2>2. Answered(j, r, s, m) /\ (s.up => Continues(r, s, m, R))
    BY <1>2 DEF Follows
  <2>3. Passes(s, t)
    BY <2>1, <2>2 DEF Answered, Passes
  <2> QED BY <2>1, <2>2, <2>3 DEF Continues
<1> QED BY <1>1, <1>2, StillFollows

\* Subscription.offer().
LEMMA OfferStays ==
    ASSUME NEW s, ConnFits(s), NEW e \in Event, NEW t, t = offer(s, e)
    PROVE  /\ ConnFits(t) /\ Beside(s, t)
           /\ t.live = s.live \/ (~ s.closed /\ t.live = Append(s.live, e))
           /\ ~ t.closed => ~ s.closed /\ t.live = Append(s.live, e)
<1>1. s \in Connection /\ s.live \in Seq(Event) /\ maxFramesPerSubscriber \in Nat
  BY BudgetAssumption, ConnectionQueues DEF ConnFits
<1>2. CASE s.closed
  <2>1. t = s
    BY <1>2 DEF offer
  <2> QED BY <1>2, <2>1 DEF Beside
<1>3. CASE ~ s.closed /\ Len(s.live) >= maxFramesPerSubscriber
  <2>1. t = [s EXCEPT !.closed = TRUE]
    BY <1>3 DEF offer
  <2> QED BY <1>1, <1>3, <2>1 DEF Beside, ConnFits, Connection
<1>4. CASE ~ s.closed /\ ~ Len(s.live) >= maxFramesPerSubscriber
  <2> DEFINE live == Append(s.live, e)
  <2>1. t = [s EXCEPT !.live = live]
    BY <1>4 DEF offer
  <2>2. live \in Seq(Event) /\ Len(live) = Len(s.live) + 1 /\ Len(s.live) \in Nat
    BY <1>1, AppendProperties, LenProperties
  <2>3. Len(live) <= maxFramesPerSubscriber
    BY <1>1, <1>4, <2>2
  <2> HIDE DEF live
  <2>4. ConnFits(t) /\ Beside(s, t) /\ t.live = live
    BY <1>1, <2>1, <2>2, <2>3 DEF Beside, ConnFits, Connection
  <2> QED BY <1>4, <2>4 DEF live
<1> QED BY <1>2, <1>3, <1>4

\* Subscription.forceClose() leaves what is buffered where it is.
LEMMA CloseStays ==
    ASSUME NEW s, ConnFits(s), NEW t, t = forceClose(s)
    PROVE  ConnFits(t) /\ Beside(s, t) /\ t.live = s.live /\ t.closed
<1>1. s \in Connection /\ t = [s EXCEPT !.closed = TRUE]
  BY DEF ConnFits, forceClose
<1> QED BY <1>1 DEF Beside, ConnFits, Connection

-----------------------------------------------------------------------------
(* What the invariant says of one caller, of one subscription and of the   *)
(* subscriptions together.                                                 *)

\* Job.events() of one caller.
LEMMA AboutCaller ==
    ASSUME IInv, NEW k \in Consumer
    PROVE  /\ Followed[k] \in Job /\ consumer[k] \in Caller /\ record[Followed[k]] \in Record
           /\ RingKept(record[Followed[k]])
           /\ Follows(Followed[k], record[Followed[k]], conn[consumer[k].conn],
                      consumer[k], registered[Followed[k]])
           /\ consumer[k].at \in {"waiting", "reading"} =>
                 /\ consumer[k].conn \in Conn
                 /\ conn[consumer[k].conn] \in Connection /\ ConnFits(conn[consumer[k].conn])
<1>1. Followed[k] \in Job
  BY BudgetAssumption
<1>2. consumer[k] \in Caller /\ (consumer[k].conn # None <=> consumer[k].at \in {"waiting", "reading"})
  BY DEF IInv, Callers
<1>3. RingKept(record[Followed[k]]) /\ record[Followed[k]] \in Record
  BY <1>1 DEF IInv, RingsKept, RingKept
<1>4. consumer[k].at \in {"waiting", "reading"} => consumer[k].conn \in Conn
  BY <1>2 DEF Caller
<1> QED BY <1>1, <1>2, <1>3, <1>4 DEF IInv, Connections, Served

\* A subscription registered for j.
LEMMA AboutRegistered ==
    ASSUME IInv, NEW j \in Job, NEW c \in registered[j]
    PROVE  /\ c \in Conn /\ conn[c].job = j /\ conn[c].at \in Serving
           /\ conn[c].at \notin {"free", "request", "done"}
<1>1. c \in Conn
  BY DEF IInv, Registered
<1>2. conn[c].job = j /\ conn[c].at \in Serving
  BY DEF IInv, Registered, SubscribersAccounted
<1> QED BY <1>1, <1>2 DEF Serving

\* Subscriptions stay as they are registered.
LEMMA RegisteredSame ==
    ASSUME IInv, UNCHANGED <<registered, globalSubscribers>>,
           \A c \in Subscribed : conn'[c].job = conn[c].job /\ conn'[c].at \in Serving
    PROVE  Registered'
<1>1. Subscribed' = Subscribed
  BY DEF Subscribed
<1>2. \A j \in Job : \A c \in registered[j] : c \in Subscribed /\ conn[c].job = j
  BY AboutRegistered DEF Subscribed
<1>3. SubscribersAccounted'
  BY <1>1, <1>2 DEF IInv, Registered, SubscribersAccounted
<1> QED BY <1>1, <1>3 DEF IInv, Registered

-----------------------------------------------------------------------------
(* The registry.                                                           *)

\* emitLocked() hands the next event to every subscriber.
LEMMA EmitKeeps ==
    ASSUME IInv, NEW j \in Job, NEW last \in BOOLEAN, emitLocked(j, last)
    PROVE  IInv'
<1> DEFINE r == record[j]
           q == nextRecord(r, last)
           e == newest(q)
<1>1. /\ RingKept(r) /\ r.known /\ ~ r.terminal
      /\ r.seq < (IF last THEN MaxEvents ELSE MaxEvents - 1)
      /\ record \in [Job -> Record] /\ conn \in [Conn -> Connection]
  BY DEF IInv, RingsKept, Connections, emitLocked
<1>2. /\ RingKept(q) /\ Grows(r, q) /\ q.seq = r.seq + 1
      /\ e \in Event /\ e.id = q.seq /\ (e.last => q.terminal)
  <2> HIDE DEF r
  <2> QED BY <1>1, NextRecordGrows
<1>3. record' = [record EXCEPT ![j] = q] /\ record'[j] = q
  BY <1>1 DEF emitLocked
<1>4. conn' = [c \in Conn |-> IF c \in registered[j] THEN offer(conn[c], e) ELSE conn[c]]
  BY <1>3 DEF emitLocked
<1>5. UNCHANGED <<registered, globalSubscribers, shutdownDone, consumer, losses>>
  BY DEF emitLocked
<1> HIDE DEF r, q, e
<1>6. Plain'
  BY <1>5 DEF IInv, Plain
<1>7. ASSUME NEW c \in Conn
      PROVE  ConnFits(conn'[c]) /\ Beside(conn[c], conn'[c])
  <2>1. ConnFits(conn[c])
    BY DEF IInv, Connections
  <2>2. CASE c \in registered[j]
    BY <1>2, <1>4, <2>1, <2>2, OfferStays
  <2>3. CASE c \notin registered[j]
    BY <1>4, <2>1, <2>3 DEF Beside
  <2> QED BY <2>2, <2>3
<1>8. Connections'
  BY <1>4, <1>7 DEF Connections, ConnFits
<1>9. RingsKept'
  <2>1. q \in Record
    BY <1>2 DEF RingKept
  <2> QED BY <1>1, <1>2, <1>3, <2>1 DEF IInv, RingsKept
<1>10. Registered'
  <2>1. \A c \in Subscribed : conn'[c].job = conn[c].job /\ conn'[c].at \in Serving
    BY <1>7, AboutRegistered DEF Subscribed, Beside
  <2> QED BY <1>5, <2>1, RegisteredSame
<1>11. Callers'
  BY <1>5 DEF IInv, Callers
<1>12. Served'
  <2> SUFFICES ASSUME NEW k \in Consumer
               PROVE  Follows(Followed[k], record'[Followed[k]], conn'[consumer[k].conn],
                              consumer[k], registered[Followed[k]])
    BY <1>5 DEF Served
  <2> DEFINE J == Followed[k]
             m == consumer[k]
             s == conn[m.conn]
             t == conn'[m.conn]
  <2>1. /\ J \in Job /\ m \in Caller /\ RingKept(record[J])
        /\ Follows(J, record[J], s, m, registered[J])
        /\ m.at \in {"waiting", "reading"} => m.conn \in Conn /\ s \in Connection /\ ConnFits(s)
    BY AboutCaller
  <2>2. RingKept(record'[J]) /\ Grows(record[J], record'[J])
    BY <1>1, <1>2, <1>3, <2>1, SameGrows DEF r
  <2>3. ASSUME m.at \in {"waiting", "reading"}
        PROVE  Attended(record[J], record'[J], s, t, m, registered[J], registered[J])
    <3>1. /\ m.conn \in Conn /\ s \in Connection /\ ConnFits(s)
          /\ t \in Connection /\ Beside(s, t)
      BY <1>7, <1>8, <2>1, <2>3 DEF Connections
    <3>2. m.conn \notin registered[j] => t = s
      BY <1>4, <3>1
    <3>3. s.at = "request" => t.live = s.live
      BY <3>2, AboutRegistered
    <3>4. CASE J = j
      <4>1. record[J] = r /\ record'[J] = q
        BY <1>3, <3>4 DEF r
      <4>2. CASE m.conn \in registered[j]
        <5>1. t = offer(s, e)
          BY <1>4, <3>1, <4>2
        <5>2. /\ t.live = s.live \/ (~ s.closed /\ t.live = Append(s.live, e))
              /\ ~ t.closed => ~ s.closed /\ t.live = Append(s.live, e)
          <6> HIDE DEF s, t
          <6> QED BY <1>2, <3>1, <5>1, OfferStays
        <5>3. Offered(r, q, s, t)
          BY <1>2, <5>2 DEF Offered
        <5>4. ~ t.closed => Len(t.live) - Len(s.live) = q.seq - r.seq
          <6>1. Len(Append(s.live, e)) = Len(s.live) + 1 /\ Len(s.live) \in Nat /\ r.seq \in Nat
            BY <1>1, <1>2, <3>1, AppendProperties, ConnectionQueues, OldestIs
          <6>2. \A a \in Nat : a + 1 - a = 1
            OBVIOUS
          <6>3. q.seq - r.seq = 1
            BY <1>2, <6>1, <6>2
          <6> HIDE DEF s, t
          <6>4. ASSUME ~ t.closed
                PROVE  Len(t.live) - Len(s.live) = 1
            <7>1. Len(t.live) = Len(s.live) + 1
              BY <5>2, <6>1, <6>4
            <7> QED BY <6>1, <6>2, <7>1
          <6> QED BY <6>3, <6>4
        <5> QED BY <3>1, <3>3, <3>4, <4>1, <4>2, <5>2, <5>3, <5>4 DEF Attended
      <4>3. CASE m.conn \notin registered[j]
        BY <3>1, <3>2, <3>4, <4>3 DEF Attended, Offered
      <4> QED BY <4>2, <4>3
    <3>5. CASE J # j
      <4>1. record'[J] = record[J] /\ record[J].seq \in Nat /\ Len(s.live) \in Nat
        BY <1>1, <1>3, <2>1, <3>1, <3>5, OldestIs, ConnectionQueues
      <4>2. s.up => t = s
        <5>1. s.up => s.job = J
          BY <2>1, <2>3 DEF Follows, Answered
        <5> QED BY <3>2, <3>5, <5>1, AboutRegistered
      <4>3. s.up => (m.conn \in registered[J] /\ ~ t.closed => ~ s.closed)
        BY <4>2
      <4>4. s.up => Len(t.live) - Len(s.live) = record'[J].seq - record[J].seq
        <5>1. \A a, b \in Nat : a - a = b - b
          OBVIOUS
        <5> HIDE DEF J, s, t
        <5> QED BY <4>1, <4>2, <5>1
      <4> QED BY <3>1, <3>3, <4>2, <4>3, <4>4 DEF Attended, Offered
    <3> QED BY <3>4, <3>5
  <2> HIDE DEF J, m, s, t
  <2>4. Follows(J, record'[J], t, m, registered[J])
    BY <2>1, <2>2, <2>3, FollowsBeside
  <2> QED BY <2>4 DEF J, m, t
<1> QED BY <1>6, <1>8, <1>9, <1>10, <1>11, <1>12 DEF IInv

\* removeRetainedLocked() takes all the subscriptions of a record away.
LEMMA ForgetKeeps ==
    ASSUME IInv, NEW j \in Job, removeRetainedLocked(j)
    PROVE  IInv'
<1> DEFINE r == record[j]
           q == forgotten(r)
           X == registered[j]
<1>1. /\ RingKept(r) /\ r \in Record
      /\ record \in [Job -> Record] /\ conn \in [Conn -> Connection]
      /\ registered \in [Job -> SUBSET Conn]
  BY DEF IInv, RingsKept, Connections, RingKept, Registered
<1>2. RingKept(q) /\ Grows(r, q)
  <2> HIDE DEF r
  <2> QED BY <1>1, ForgottenGrows
<1>3. record' = [record EXCEPT ![j] = q] /\ record'[j] = q
  BY <1>1 DEF removeRetainedLocked, forgotten
<1>4. /\ conn' = [c \in Conn |-> IF c \in X THEN forceClose(conn[c]) ELSE conn[c]]
      /\ registered' = [registered EXCEPT ![j] = {}]
      /\ globalSubscribers' = globalSubscribers - Cardinality(X)
      /\ UNCHANGED <<shutdownDone, consumer, losses>>
  BY DEF removeRetainedLocked
<1> HIDE DEF r, q
<1>5. ASSUME NEW c \in Conn
      PROVE  ConnFits(conn'[c]) /\ Beside(conn[c], conn'[c]) /\ conn'[c].live = conn[c].live
  <2>1. ConnFits(conn[c])
    BY DEF IInv, Connections
  <2>2. CASE c \in X
    BY <1>4, <2>1, <2>2, CloseStays
  <2>3. CASE c \notin X
    BY <1>4, <2>1, <2>3 DEF Beside
  <2> QED BY <2>2, <2>3
<1>6. Connections'
  BY <1>4, <1>5 DEF Connections, ConnFits
<1>7. RingsKept'
  <2>1. q \in Record
    BY <1>2 DEF RingKept
  <2> QED BY <1>1, <1>2, <1>3, <2>1 DEF IInv, RingsKept
<1>8. Registered' /\ globalSubscribers' \in Nat
  <2>1. Subscribed' = Subscribed \ X
    <3>1. \A i \in Job : i # j => registered[i] \cap X = {}
      BY AboutRegistered
    <3>2. \A i \in Job : registered'[i] = IF i = j THEN {} ELSE registered[i]
      BY <1>1, <1>4
    <3> QED BY <3>1, <3>2 DEF Subscribed
  <2>2. IsFiniteSet(Subscribed) /\ X \subseteq Subscribed
    BY DEF IInv, Registered, Subscribed
  <2>3. /\ IsFiniteSet(Subscribed') /\ Cardinality(Subscribed') \in Nat
        /\ Cardinality(Subscribed') = Cardinality(Subscribed) - Cardinality(X)
    <3>1. Subscribed \cap X = X
      BY <2>2
    <3> QED BY <2>1, <2>2, <3>1, FS_Difference, FS_CardinalityType, ZenonT(30)
  <2>4. /\ globalSubscribers = Cardinality(Subscribed)
        /\ globalSubscribers <= maxGlobalSubscribers /\ globalSubscribers \in Nat
        /\ maxGlobalSubscribers \in Nat /\ Cardinality(X) \in Nat
    BY <2>2, FS_Subset, FS_CardinalityType, BudgetAssumption
        DEF IInv, Plain, Registered, SubscribersAccounted
  <2>5. globalSubscribers' = Cardinality(Subscribed') /\ globalSubscribers' <= maxGlobalSubscribers
    BY <1>4, <2>3, <2>4
  <2>6. Cardinality({}) = 0 /\ 0 <= maxSubscribersPerJob
    BY FS_EmptySet, BudgetAssumption
  <2>7. ASSUME NEW i \in Job
        PROVE  /\ Cardinality(registered'[i]) <= maxSubscribersPerJob
               /\ \A c \in registered'[i] : conn'[c].job = i /\ conn'[c].at \in Serving
    <3>1. CASE i = j
      BY <1>1, <1>4, <2>6, <3>1
    <3>2. CASE i # j
      <4>1. registered'[i] = registered[i]
        BY <1>1, <1>4, <3>2
      <4>2. \A c \in registered[i] : conn'[c].job = i /\ conn'[c].at \in Serving
        BY <1>5, AboutRegistered DEF Beside
      <4> QED BY <4>1, <4>2 DEF IInv, Registered, SubscribersAccounted
    <3> QED BY <3>1, <3>2
  <2>8. SubscribersAccounted'
    BY <2>5, <2>7 DEF SubscribersAccounted
  <2>9. registered' \in [Job -> SUBSET Conn]
    BY <1>1, <1>4
  <2> QED BY <2>3, <2>5, <2>8, <2>9 DEF Registered
<1>9. Plain'
  BY <1>4, <1>8 DEF IInv, Plain
<1>10. Callers'
  BY <1>4 DEF IInv, Callers
<1>11. Served'
  <2> SUFFICES ASSUME NEW k \in Consumer
               PROVE  Follows(Followed[k], record'[Followed[k]], conn'[consumer[k].conn],
                              consumer[k], registered'[Followed[k]])
    BY <1>4 DEF Served
  <2> DEFINE J == Followed[k]
             m == consumer[k]
             s == conn[m.conn]
             t == conn'[m.conn]
  <2>1. /\ J \in Job /\ m \in Caller /\ RingKept(record[J])
        /\ Follows(J, record[J], s, m, registered[J])
        /\ m.at \in {"waiting", "reading"} => m.conn \in Conn /\ s \in Connection
    BY AboutCaller
  <2>2. /\ RingKept(record'[J]) /\ Grows(record[J], record'[J])
        /\ J # j => record'[J] = record[J]
        /\ registered'[J] = IF J = j THEN {} ELSE registered[J]
    BY <1>1, <1>2, <1>3, <1>4, <2>1, SameGrows DEF r
  <2>3. ASSUME m.at \in {"waiting", "reading"}
        PROVE  Attended(record[J], record'[J], s, t, m, registered[J], registered'[J])
    <3>1. /\ m.conn \in Conn /\ s \in Connection
          /\ t \in Connection /\ Beside(s, t) /\ t.live = s.live
      BY <1>5, <1>6, <2>1, <2>3 DEF Connections
    <3>2. ASSUME m.conn \in registered'[J]
          PROVE  /\ m.conn \in registered[J] /\ t = s
                 /\ Len(t.live) - Len(s.live) = record'[J].seq - record[J].seq
      <4>1. J # j /\ m.conn \in registered[J] /\ m.conn \notin X
        BY <2>1, <2>2, <3>2, AboutRegistered
      <4>2. t = s
        BY <1>4, <3>1, <4>1
      <4>3. record'[J].seq = record[J].seq /\ record[J].seq \in Nat /\ Len(s.live) \in Nat
        BY <2>1, <2>2, <3>1, <4>1, OldestIs, ConnectionQueues
      <4>4. \A a, b \in Nat : a - a = b - b
        OBVIOUS
      <4> HIDE DEF J, s, t
      <4> QED BY <4>1, <4>2, <4>3, <4>4
    <3> QED BY <3>1, <3>2 DEF Attended, Offered
  <2> HIDE DEF J, m, s, t
  <2>4. Follows(J, record'[J], t, m, registered'[J])
    BY <2>1, <2>2, <2>3, FollowsBeside
  <2> QED BY <2>4 DEF J, m, t
<1> QED BY <1>6, <1>7, <1>8, <1>9, <1>10, <1>11 DEF IInv

\* The process ends: nothing is known or registered in the next one.
LEMMA RestartKeeps ==
    ASSUME IInv, restart
    PROVE  IInv'
<1> DEFINE over == [NoConnection EXCEPT !.at = "done"]
<1>1. /\ record \in [Job -> Record] /\ conn \in [Conn -> Connection]
      /\ record' = [j \in Job |-> forgotten(record[j])]
      /\ registered' = [j \in Job |-> {}] /\ globalSubscribers' = 0 /\ shutdownDone' = FALSE
      /\ conn' = [c \in Conn |-> IF conn[c].at = "free" THEN conn[c] ELSE over]
      /\ UNCHANGED <<consumer, losses>>
  BY DEF IInv, RingsKept, Connections, restart, forgotten
<1>2. ConnFits(over) /\ over.at = "done" /\ over.answer = "none" /\ ~ over.up /\ over.wire = <<>>
  <2>1. Len(<<>>) = 0 /\ <<>> \in Seq(Event) /\ maxFramesPerSubscriber \in Nat
    BY BudgetAssumption
  <2>2. NoConnection \in Connection
    BY <2>1 DEF NoConnection, Connection
  <2>3. /\ NoConnection.answer = "none" /\ NoConnection.up = FALSE /\ NoConnection.wire = <<>>
        /\ NoConnection.live = <<>> /\ NoConnection.hand = <<>>
    BY DEF NoConnection
  <2>4. /\ over \in Connection
        /\ over.at = "done" /\ over.answer = "none" /\ over.up = FALSE /\ over.wire = <<>>
        /\ over.live = <<>> /\ over.hand = <<>>
    BY <2>2, <2>3 DEF over, Connection
  <2> QED BY <2>1, <2>4 DEF ConnFits, Serving
<1> HIDE DEF over
<1>3. Connections'
  <2>1. \A c \in Conn : ConnFits(conn'[c])
    BY <1>1, <1>2 DEF IInv, Connections
  <2> QED BY <1>1, <2>1 DEF Connections, ConnFits
<1>4. \A j \in Job : RingKept(record'[j]) /\ Grows(record[j], record'[j])
  <2> TAKE j \in Job
  <2>1. RingKept(record[j]) /\ record'[j] = forgotten(record[j])
    BY <1>1 DEF IInv, RingsKept
  <2> QED BY <2>1, ForgottenGrows
<1>5. RingsKept'
  BY <1>1, <1>4 DEF RingsKept, RingKept
<1>6. Registered'
  <2>1. Subscribed' = {} /\ \A j \in Job : registered'[j] = {}
    BY <1>1 DEF Subscribed
  <2>2. /\ IsFiniteSet({}) /\ Cardinality({}) = 0
        /\ 0 <= maxSubscribersPerJob /\ 0 <= maxGlobalSubscribers
    BY FS_EmptySet, BudgetAssumption
  <2> QED BY <1>1, <2>1, <2>2 DEF Registered, SubscribersAccounted
<1>7. Plain' /\ Callers'
  BY <1>1 DEF IInv, Plain, Callers
<1>8. Served'
  <2> SUFFICES ASSUME NEW k \in Consumer
               PROVE  Follows(Followed[k], record'[Followed[k]], conn'[consumer[k].conn],
                              consumer[k], registered'[Followed[k]])
    BY <1>1 DEF Served
  <2> DEFINE J == Followed[k]
             m == consumer[k]
             s == conn[m.conn]
             t == conn'[m.conn]
  <2>1. /\ J \in Job /\ m \in Caller /\ RingKept(record[J])
        /\ Follows(J, record[J], s, m, registered[J])
        /\ m.at \in {"waiting", "reading"} => m.conn \in Conn
    BY AboutCaller
  <2>2. ASSUME m.at \in {"waiting", "reading"}
        PROVE  Passes(s, t) /\ ~ t.up
    <3>1. s.at # "free"
      BY <2>1, <2>2 DEF Follows, Answered
    <3>2. t = over
      BY <1>1, <2>1, <2>2, <3>1
    <3> QED BY <1>2, <3>2 DEF Passes
  <2> HIDE DEF J, m, s, t
  <2>3. Follows(J, record'[J], t, m, registered'[J])
    BY <1>4, <2>1, <2>2, StillFollows
  <2> QED BY <2>3 DEF J, m, t
<1> QED BY <1>3, <1>5, <1>6, <1>7, <1>8 DEF IInv

\* shutdown() emits to the subscribers of unfinished jobs, then closes all.
LEMMA ShutdownKeeps ==
    ASSUME IInv, shutdown
    PROVE  IInv'
<1> DEFINE alive == {j \in Job : record[j].known /\ ~ record[j].terminal}
<1>1. PICK queued \in SUBSET alive :
        /\ \A j \in alive \ queued : record[j].seq < MaxEvents - 1
        /\ record' = [j \in Job |-> IF j \in alive THEN nextRecord(record[j], j \in queued)
                                    ELSE record[j]]
        /\ conn' = [c \in Conn |->
               IF \E j \in alive : c \in registered[j]
               THEN forceClose(offer(conn[c], newest(record'[conn[c].job])))
               ELSE IF \E j \in Job : c \in registered[j] THEN forceClose(conn[c])
               ELSE conn[c]]
        /\ shutdownDone' = TRUE
        /\ UNCHANGED <<registered, globalSubscribers, consumer, losses>>
  BY DEF shutdown
<1>2. ASSUME NEW j \in Job
      PROVE  /\ RingKept(record'[j]) /\ Grows(record[j], record'[j])
             /\ j \notin alive => record'[j] = record[j]
             /\ j \in alive => /\ newest(record'[j]) \in Event
                               /\ newest(record'[j]).id = record'[j].seq
                               /\ record'[j].seq = record[j].seq + 1
                               /\ newest(record'[j]).last => record'[j].terminal
  <2>1. RingKept(record[j])
    BY DEF IInv, RingsKept
  <2>2. CASE j \in alive
    <3> DEFINE r == record[j]
               last == j \in queued
               q == nextRecord(r, last)
    <3>1. r.known /\ ~ r.terminal /\ last \in BOOLEAN /\ record'[j] = q
      BY <1>1, <2>2
    <3>2. r.seq < (IF last THEN MaxEvents ELSE MaxEvents - 1)
      BY <1>1, <2>1, <2>2 DEF RingKept
    <3> HIDE DEF r, last, q
    <3>3. /\ RingKept(q) /\ Grows(r, q) /\ q.seq = r.seq + 1
          /\ newest(q) \in Event /\ newest(q).id = q.seq /\ (newest(q).last => q.terminal)
      <4>1. RingKept(r)
        BY <2>1 DEF r
      <4>2. q = nextRecord(r, last)
        BY DEF q
      <4> QED BY <3>1, <3>2, <4>1, <4>2, NextRecordGrows
    <3> QED BY <2>2, <3>1, <3>3 DEF r
  <2>3. CASE j \notin alive
    BY <1>1, <2>1, <2>3, SameGrows
  <2> QED BY <2>2, <2>3
<1>3. ASSUME NEW c \in Conn
      PROVE  /\ ConnFits(conn'[c]) /\ Beside(conn[c], conn'[c])
             /\ c \in Subscribed => conn'[c].closed
             /\ c \notin Subscribed => conn'[c] = conn[c]
             /\ conn'[c].live # conn[c].live =>
                   \E j \in alive : /\ c \in registered[j] /\ ~ conn[c].closed
                                    /\ conn'[c].live = Append(conn[c].live, newest(record'[j]))
  <2> DEFINE s == conn[c]
             t == conn'[c]
  <2>1. ConnFits(s)
    BY DEF IInv, Connections
  <2>2. ASSUME NEW j \in alive, c \in registered[j]
        PROVE  /\ ConnFits(t) /\ Beside(s, t) /\ t.closed /\ c \in Subscribed
               /\ t.live # s.live => ~ s.closed /\ t.live = Append(s.live, newest(record'[j]))
    <3> DEFINE e == newest(record'[j])
               u == offer(s, e)
    <3>1. s.job = j /\ e \in Event /\ t = forceClose(u)
      BY <1>1, <1>2, <2>2, AboutRegistered
    <3> HIDE DEF s, t, e, u
    <3>2. /\ ConnFits(u) /\ Beside(s, u)
          /\ u.live = s.live \/ (~ s.closed /\ u.live = Append(s.live, e))
      BY <2>1, <3>1, OfferStays DEF u
    <3>3. ConnFits(t) /\ Beside(u, t) /\ t.live = u.live /\ t.closed
      BY <3>1, <3>2, CloseStays
    <3>4. Beside(s, t)
      BY <3>2, <3>3 DEF Beside
    <3> QED BY <2>2, <3>2, <3>3, <3>4 DEF e, Subscribed
  <2>3. CASE \E j \in alive : c \in registered[j]
    BY <2>2, <2>3
  <2>4. CASE ~ (\E j \in alive : c \in registered[j]) /\ c \in Subscribed
    <3>1. t = forceClose(s)
      BY <1>1, <2>4 DEF Subscribed
    <3> HIDE DEF s, t
    <3> QED BY <2>1, <2>4, <3>1, CloseStays DEF s, t
  <2>5. CASE c \notin Subscribed
    <3>1. t = s
      BY <1>1, <2>5 DEF Subscribed
    <3> QED BY <2>1, <2>5, <3>1 DEF Beside
  <2> QED BY <2>3, <2>4, <2>5
<1> HIDE DEF alive
<1>4. Connections'
  BY <1>1, <1>3 DEF Connections, ConnFits
<1>5. RingsKept'
  BY <1>1, <1>2 DEF RingsKept, RingKept
<1>6. Registered'
  <2>1. \A c \in Subscribed : conn'[c].job = conn[c].job /\ conn'[c].at \in Serving
    BY <1>3, AboutRegistered DEF Subscribed, Beside
  <2> QED BY <1>1, <2>1, RegisteredSame
<1>7. Plain' /\ Callers'
  BY <1>1 DEF IInv, Plain, Callers
<1>8. Served'
  <2> SUFFICES ASSUME NEW k \in Consumer
               PROVE  Follows(Followed[k], record'[Followed[k]], conn'[consumer[k].conn],
                              consumer[k], registered[Followed[k]])
    BY <1>1 DEF Served
  <2> DEFINE J == Followed[k]
             m == consumer[k]
             s == conn[m.conn]
             t == conn'[m.conn]
  <2>1. /\ J \in Job /\ m \in Caller /\ RingKept(record[J])
        /\ Follows(J, record[J], s, m, registered[J])
        /\ m.at \in {"waiting", "reading"} => m.conn \in Conn /\ s \in Connection
    BY AboutCaller
  <2>2. ASSUME m.at \in {"waiting", "reading"}
        PROVE  Attended(record[J], record'[J], s, t, m, registered[J], registered[J])
    <3>1. /\ m.conn \in Conn /\ s \in Connection
          /\ t \in Connection /\ Beside(s, t)
      BY <1>3, <1>4, <2>1, <2>2 DEF Connections
    <3>2. s.at = "request" => t.live = s.live
      BY <1>3, <3>1, AboutRegistered DEF alive
    <3>3. s.up => s.job = J
      BY <2>1, <2>2 DEF Follows, Answered
    <3>4. ASSUME s.up
          PROVE  Offered(record[J], record'[J], s, t) /\ (t.live # s.live => m.conn \in registered[J])
      <4>1. CASE t.live = s.live
        BY <4>1 DEF Offered
      <4>2. CASE t.live # s.live
        <5>1. PICK j \in alive : /\ m.conn \in registered[j] /\ ~ s.closed
                                 /\ t.live = Append(s.live, newest(record'[j]))
          BY <1>3, <3>1, <4>2
        <5>2. j = J
          BY <3>3, <3>4, <5>1, AboutRegistered DEF alive
        <5>3. /\ newest(record'[J]) \in Event /\ newest(record'[J]).id = record'[J].seq
              /\ record'[J].seq = record[J].seq + 1
              /\ newest(record'[J]).last => record'[J].terminal
          BY <1>2, <2>1, <5>1, <5>2
        <5> HIDE DEF J, s, t
        <5> QED BY <5>1, <5>2, <5>3 DEF Offered
      <4> QED BY <4>1, <4>2
    <3>5. m.conn \in registered[J] => t.closed
      BY <1>3, <2>1, <3>1 DEF Subscribed
    <3> QED BY <3>1, <3>2, <3>4, <3>5 DEF Attended
  <2> HIDE DEF J, m, s, t
  <2>3. Follows(J, record'[J], t, m, registered[J])
    BY <1>2, <2>1, <2>2, FollowsBeside
  <2> QED BY <2>3 DEF J, m, t
<1> QED BY <1>4, <1>5, <1>6, <1>7, <1>8 DEF IInv

-----------------------------------------------------------------------------
(* The serving thread, and the loss of a connection.                       *)

\* What holds of any connection a caller has opened.
Opened(s) == /\ s.at # "free"
             /\ s.at = "request" => s.answer = "none" /\ carried(s) = 0
             /\ ~ s.up => s.wire = <<>>

\* A step of one connection by itself: it carries the same run, and no more.
LEMMA ServeKeeps ==
    ASSUME IInv, NEW c \in Conn, NEW t, ConnFits(t), conn' = [conn EXCEPT ![c] = t],
           UNCHANGED <<record, consumer>>, Plain', Registered',
           \A j \in Job : registered'[j] \subseteq registered[j],
           Opened(conn[c]) => Passes(conn[c], t),
           t.up => \A j \in Job, n \in Int : Flows(record[j], conn[c], n) => Flows(record[j], t, n),
           t.up /\ ~ t.closed => ~ conn[c].closed /\ carried(t) = carried(conn[c])
    PROVE  IInv'
<1>1. conn \in [Conn -> Connection] /\ t \in Connection /\ ConnFits(conn[c])
  BY DEF IInv, Connections, ConnFits
<1>2. Connections' /\ conn'[c] = t /\ \A d \in Conn : d # c => conn'[d] = conn[d]
  BY <1>1 DEF IInv, Connections
<1>3. RingsKept' /\ Callers'
  BY DEF IInv, RingsKept, Callers
<1>4. Served'
  <2> SUFFICES ASSUME NEW k \in Consumer
               PROVE  Follows(Followed[k], record[Followed[k]], conn'[consumer[k].conn],
                              consumer[k], registered'[Followed[k]])
    BY DEF Served
  <2> DEFINE J == Followed[k]
             r == record[J]
             m == consumer[k]
             s == conn[m.conn]
             u == conn'[m.conn]
  <2>1. /\ J \in Job /\ m \in Caller /\ RingKept(r)
        /\ Follows(J, r, s, m, registered[J])
        /\ m.at \in {"waiting", "reading"} => m.conn \in Conn /\ s \in Connection
        /\ registered'[J] \subseteq registered[J]
    BY AboutCaller
  <2>2. CASE m.at \in {"waiting", "reading"} /\ m.conn = c
    <3>1. Answered(J, r, s, m) /\ s = conn[c] /\ u = t /\ s \in Connection
      BY <1>2, <2>1, <2>2 DEF Follows
    <3>2. Passes(s, u)
      <4>1. Opened(s)
        BY <3>1 DEF Answered, Opened
      <4> QED BY <3>1, <4>1
    <3>3. ASSUME u.up PROVE Continues(r, u, m, registered'[J])
      <4>1. Continues(r, s, m, registered[J])
        BY <2>1, <2>2, <3>2, <3>3 DEF Follows, Passes
      <4>2. Grows(r, r)
        BY <2>1, SameGrows
      <4>3. \A n \in Int : Flows(r, s, n) => Flows(r, u, n)
        BY <2>1, <3>1, <3>3
      <4>4. m.conn \in registered'[J] /\ ~ u.closed =>
                m.conn \in registered[J] /\ ~ s.closed /\ carried(u) - carried(s) = r.seq - r.seq
        <5>1. carried(s) \in Nat /\ r.seq \in Nat
          BY <2>1, <3>1, ConnectionQueues, OldestIs
        <5>2. \A a, b \in Nat : a - a = b - b
          OBVIOUS
        <5>3. ~ u.closed => ~ s.closed /\ carried(u) = carried(s)
          BY <3>1, <3>3
        <5> HIDE DEF s, u, r, J, m
        <5> QED BY <2>1, <5>1, <5>2, <5>3
      <4> HIDE DEF s, u, r, J, m
      <4> QED BY <1>1, <2>1, <3>1, <4>1, <4>2, <4>3, <4>4, ContinuesGrows
    <3>4. Grows(r, r)
      BY <2>1, SameGrows
    <3> HIDE DEF s, u, r, J, m
    <3>5. Follows(J, r, u, m, registered'[J])
      BY <2>1, <3>2, <3>3, <3>4, StillFollows
    <3> QED BY <3>5 DEF s, u, r, J, m
  <2>3. CASE ~ (m.at \in {"waiting", "reading"} /\ m.conn = c)
    <3>1. /\ m.at \in {"waiting", "reading"} =>
                 s \in Connection /\ u = s /\ (m.conn \in registered'[J] => m.conn \in registered[J])
      BY <1>2, <2>1, <2>3
    <3> HIDE DEF s, u, r, J, m
    <3>2. Follows(J, r, u, m, registered'[J])
      BY <2>1, <3>1, FollowsSame
    <3> QED BY <3>2 DEF s, u, r, J, m
  <2> QED BY <2>2, <2>3
<1> QED BY <1>2, <1>3, <1>4 DEF IInv

\* Steps that leave the subscriptions alone.
LEMMA ServeRegistered ==
    ASSUME IInv, NEW c \in Conn, NEW t, conn' = [conn EXCEPT ![c] = t],
           UNCHANGED <<registered, globalSubscribers>>,
           conn[c].at \in Serving => t.job = conn[c].job /\ t.at \in Serving
    PROVE  Registered'
<1>1. conn \in [Conn -> Connection]
  BY DEF IInv, Connections
<1>2. ASSUME NEW d \in Subscribed
      PROVE  conn'[d].job = conn[d].job /\ conn'[d].at \in Serving
  <2>1. d \in Conn /\ conn[d].at \in Serving
    BY <1>2, AboutRegistered DEF Subscribed
  <2> QED BY <1>1, <2>1
<1> QED BY <1>2, RegisteredSame

\* next() moves the first buffered event into the thread's hand.
LEMMA NextFlows ==
    ASSUME NEW r, NEW s \in Connection, NEW t, s.hand = <<>>, buffered(s) # <<>>,
           t.wire = s.wire, t.hand = <<Head(buffered(s))>>,
           t.replay = IF s.replay # <<>> THEN Tail(s.replay) ELSE s.replay,
           t.live = IF s.replay # <<>> THEN s.live ELSE Tail(s.live)
    PROVE  /\ \A n \in Int : Flows(r, s, n) => Flows(r, t, n)
           /\ carried(t) = carried(s)
           /\ t.hand \in Seq(Event) /\ Len(t.hand) = 1
           /\ t.replay \in Seq(Event) /\ t.live \in Seq(Event) /\ Len(t.live) <= Len(s.live)
<1> DEFINE e == Head(buffered(s))
           W == Len(s.wire)
           P == Len(s.replay)
           L == Len(s.live)
<1>1. /\ s.replay \in Seq(Event) /\ s.live \in Seq(Event)
      /\ W \in Nat /\ P \in Nat /\ L \in Nat /\ Len(s.hand) = 0
      /\ (s.replay = <<>> <=> P = 0) /\ (s.live = <<>> <=> L = 0)
  BY ConnectionQueues, EmptySeq
<1>2. /\ buffered(s) \in Seq(Event) /\ e = buffered(s)[1] /\ e \in Event
      /\ Len(buffered(s)) = P + L
      /\ \A i \in 1..(P + L) : buffered(s)[i] = IF i <= P THEN s.replay[i] ELSE s.live[i - P]
  <2>1. /\ buffered(s) \in Seq(Event) /\ Len(buffered(s)) = P + L
        /\ \A i \in 1..(P + L) : buffered(s)[i] = IF i <= P THEN s.replay[i] ELSE s.live[i - P]
    <3> DEFINE a == s.replay
               b == s.live
    <3>1. a \in Seq(Event) /\ b \in Seq(Event)
      BY <1>1
    <3> HIDE DEF a, b
    <3>2. /\ a \o b \in Seq(Event) /\ Len(a \o b) = Len(a) + Len(b)
          /\ \A i \in 1..(Len(a) + Len(b)) :
                (a \o b)[i] = IF i <= Len(a) THEN a[i] ELSE b[i - Len(a)]
      BY <3>1, ConcatProperties
    <3> QED BY <3>2 DEF buffered, a, b
  <2>2. Head(buffered(s)) = buffered(s)[1] /\ Head(buffered(s)) \in Event
    <3>1. PICK b : b = buffered(s)
      OBVIOUS
    <3>2. b \in Seq(Event) /\ b # <<>>
      BY <2>1, <3>1
    <3>3. Head(b) = b[1]
      OBVIOUS
    <3>4. Head(b) \in Event
      BY <3>2, HeadTailProperties
    <3> QED BY <3>1, <3>3, <3>4
  <2> QED BY <2>1, <2>2
<1>3. <<e>> \in Seq(Event) /\ Len(<<e>>) = 1 /\ DOMAIN <<e>> = 1..1 /\ <<e>>[1] = e
  <2> HIDE DEF e
  <2>0. e \in Event
    BY <1>2
  <2>1. <<e>> \in Seq(Event)
    BY <2>0
  <2>2. Len(<<e>>) = 1 /\ <<e>>[1] = e
    OBVIOUS
  <2> QED BY <2>1, <2>2, LenProperties
<1>4. ASSUME NEW n \in Int, e.id = n + 1, n + 1 <= r.seq, e.last => r.terminal /\ n + 1 = r.seq
      PROVE  Run(r, <<e>>, n)
  BY <1>3, <1>4 DEF Run
<1> HIDE DEF e
<1>5. CASE s.replay # <<>>
  <2>1. /\ t.hand = <<e>> /\ t.replay = Tail(s.replay) /\ t.live = s.live /\ t.wire = s.wire
        /\ e = s.replay[1] /\ P # 0
        /\ Tail(s.replay) \in Seq(Event) /\ Len(Tail(s.replay)) = P - 1
    <3>1. P # 0 /\ 1 \in 1..(P + L) /\ 1 <= P
      <4>1. P # 0 /\ P \in Nat /\ L \in Nat
        BY <1>1, <1>5
      <4> HIDE DEF P, L
      <4> QED BY <4>1
    <3>2. e = s.replay[1]
      BY <1>2, <3>1
    <3>3. Tail(s.replay) \in Seq(Event) /\ Len(Tail(s.replay)) = P - 1
      BY <1>1, <1>5, HeadTailProperties
    <3> QED BY <1>5, <3>1, <3>2, <3>3 DEF e
  <2>2. carried(t) = carried(s)
    <3>1. \A w, l \in Nat, p \in Nat \ {0} : w + 1 + (p - 1) + l = w + 0 + p + l
      OBVIOUS
    <3> HIDE DEF W, P, L
    <3>2. carried(t) = W + 1 + (P - 1) + L /\ carried(s) = W + 0 + P + L
      BY <1>1, <1>3, <2>1 DEF carried, W, P, L
    <3> QED BY <1>1, <2>1, <3>1, <3>2
  <2>3. ASSUME NEW n \in Int, Flows(r, s, n)
        PROVE  Flows(r, t, n)
    <3>1. /\ Run(r, s.wire, n) /\ Run(r, s.replay, n + W + 0) /\ Run(r, s.live, n + W + 0 + P)
      BY <1>1, <2>3 DEF Flows
    <3>2. /\ n + W + 0 = n + W /\ n + W + 0 + P = n + W + 1 + (P - 1) /\ n + W \in Int
      <4>1. \A w, p \in Nat : /\ n + w + 0 = n + w /\ n + w + 0 + p = n + w + 1 + (p - 1)
                              /\ n + w \in Int
        OBVIOUS
      <4> QED BY <1>1, <4>1
    <3> HIDE DEF W, P, L
    <3>3. Run(r, s.replay, n + W)
      BY <3>1, <3>2
    <3>4. /\ Run(r, Tail(s.replay), n + W + 1) /\ s.replay[1].id = n + W + 1 /\ n + W + 1 <= r.seq
          /\ s.replay[1].last => r.terminal /\ n + W + 1 = r.seq
      <4>1. PICK w \in Int : w = n + W
        BY <3>2
      <4>2. Run(r, s.replay, w) /\ s.replay \in Seq(Event) /\ s.replay # <<>>
        BY <1>1, <1>5, <3>3, <4>1
      <4>3. Run(r, Tail(s.replay), w + 1) /\ s.replay[1].id = w + 1 /\ w + 1 <= r.seq
        BY <4>2, RunTail
      <4>4. s.replay[1].last => r.terminal /\ w + 1 = r.seq
        BY <4>2, RunTail
      <4> QED BY <4>1, <4>3, <4>4
    <3>5. Run(r, <<e>>, n + W)
      BY <1>4, <2>1, <3>2, <3>4
    <3>6. Run(r, s.live, n + W + 1 + (P - 1))
      BY <3>1, <3>2
    <3> QED BY <1>3, <2>1, <3>1, <3>4, <3>5, <3>6 DEF Flows, W, P
  <2> QED BY <1>1, <1>3, <2>1, <2>2, <2>3
<1>6. CASE s.replay = <<>>
  <2>1. /\ t.hand = <<e>> /\ t.replay = <<>> /\ t.live = Tail(s.live) /\ t.wire = s.wire
        /\ P = 0 /\ L # 0 /\ s.live # <<>>
        /\ Tail(s.live) \in Seq(Event) /\ Len(Tail(s.live)) = L - 1
    <3>1. P = 0 /\ L # 0 /\ s.live # <<>>
      BY <1>1, <1>2, <1>6, EmptySeq
    <3> QED BY <1>1, <1>6, <3>1, HeadTailProperties DEF e
  <2>2. e = s.live[1]
    <3>1. buffered(s)[1] = IF 1 <= P THEN s.replay[1] ELSE s.live[1 - P]
      BY <1>1, <1>2, <2>1
    <3> QED BY <1>2, <2>1, <3>1
  <2>3. carried(t) = carried(s)
    <3>1. \A w \in Nat, l \in Nat \ {0} : w + 1 + 0 + (l - 1) = w + 0 + 0 + l
      OBVIOUS
    <3> HIDE DEF W, P, L
    <3>2. carried(t) = W + 1 + 0 + (L - 1) /\ carried(s) = W + 0 + 0 + L
      BY <1>1, <1>3, <1>6, <2>1 DEF carried, W, P, L
    <3> QED BY <1>1, <2>1, <3>1, <3>2
  <2>4. ASSUME NEW n \in Int, Flows(r, s, n)
        PROVE  Flows(r, t, n)
    <3>1. Run(r, s.wire, n) /\ Run(r, s.live, n + W + 0 + 0)
      BY <1>1, <2>1, <2>4 DEF Flows
    <3>2. n + W + 0 + 0 = n + W /\ n + W + 1 + 0 = n + W + 1 /\ n + W \in Int
      <4>1. \A w \in Nat : n + w + 0 + 0 = n + w /\ n + w + 1 + 0 = n + w + 1 /\ n + w \in Int
        OBVIOUS
      <4> QED BY <1>1, <4>1
    <3> HIDE DEF W, P, L
    <3>3. Run(r, s.live, n + W)
      BY <3>1, <3>2
    <3>4. /\ Run(r, Tail(s.live), n + W + 1) /\ s.live[1].id = n + W + 1 /\ n + W + 1 <= r.seq
          /\ s.live[1].last => r.terminal /\ n + W + 1 = r.seq
      <4>1. PICK w \in Int : w = n + W
        BY <3>2
      <4>2. Run(r, s.live, w) /\ s.live \in Seq(Event) /\ s.live # <<>>
        BY <1>1, <2>1, <3>3, <4>1
      <4>3. Run(r, Tail(s.live), w + 1) /\ s.live[1].id = w + 1 /\ w + 1 <= r.seq
        BY <4>2, RunTail
      <4>4. s.live[1].last => r.terminal /\ w + 1 = r.seq
        BY <4>2, RunTail
      <4> QED BY <4>1, <4>3, <4>4
    <3>5. Run(r, <<e>>, n + W) /\ Run(r, Tail(s.live), n + W + 1 + 0)
      BY <1>4, <2>2, <3>2, <3>4
    <3>6. Run(r, <<>>, n + W + 1) /\ Len(<<>>) = 0
      BY RunEmpty
    <3> QED BY <1>3, <2>1, <3>1, <3>5, <3>6 DEF Flows, W
  <2> QED BY <1>1, <1>3, <2>1, <2>3, <2>4
<1> QED BY <1>5, <1>6

\* write() moves the event in the thread's hand onto the wire.
LEMMA WriteFlows ==
    ASSUME NEW r, NEW s \in Connection, NEW t,
           t.wire = s.wire \o s.hand, t.hand = <<>>, t.replay = s.replay, t.live = s.live
    PROVE  /\ \A n \in Int : Flows(r, s, n) => Flows(r, t, n)
           /\ carried(t) = carried(s) /\ t.wire \in Seq(Event)
<1> DEFINE W == Len(s.wire)
           H == Len(s.hand)
<1>1. /\ s.wire \in Seq(Event) /\ s.hand \in Seq(Event) /\ W \in Nat /\ H \in Nat
      /\ Len(s.replay) \in Nat /\ Len(s.live) \in Nat /\ Len(<<>>) = 0
  BY ConnectionQueues
<1>2. t.wire \in Seq(Event) /\ Len(t.wire) = W + H
  BY <1>1, ConcatProperties
<1>3. carried(t) = carried(s)
  <2>1. \A a, b, c, d \in Nat : a + b + 0 + c + d = a + b + c + d
    OBVIOUS
  <2>2. carried(t) = W + H + 0 + Len(s.replay) + Len(s.live)
    BY <1>1, <1>2 DEF carried
  <2> QED BY <1>1, <2>1, <2>2 DEF carried
<1>4. ASSUME NEW n \in Int, Flows(r, s, n)
      PROVE  Flows(r, t, n)
  <2>1. /\ Run(r, s.wire, n) /\ Run(r, s.hand, n + W) /\ Run(r, s.replay, n + W + H)
        /\ Run(r, s.live, n + W + H + Len(s.replay))
    BY <1>4 DEF Flows
  <2>2. Run(r, t.wire, n)
    BY <1>1, <2>1, RunConcat, SMTT(20)
  <2>3. /\ n + (W + H) + 0 = n + W + H
        /\ n + (W + H) + 0 + Len(s.replay) = n + W + H + Len(s.replay)
    <3>1. \A a, b, c \in Nat : n + (a + b) + 0 = n + a + b /\ n + (a + b) + 0 + c = n + a + b + c
      OBVIOUS
    <3> QED BY <1>1, <3>1
  <2>4. Run(r, t.hand, n + (W + H)) /\ Len(t.hand) = 0
    BY RunEmpty
  <2> QED BY <1>2, <2>1, <2>2, <2>3, <2>4 DEF Flows
<1> QED BY <1>2, <1>3, <1>4

\* The loop of serve() goes on, or ends.
LEMMA ServingKeeps ==
    ASSUME IInv, NEW c \in Conn,
           nextEvent(c) \/ nextClosed(c) \/ heartbeat(c) \/ write(c) \/ writeFails(c)
    PROVE  IInv'
<1> DEFINE s == conn[c]
           t == conn'[c]
<1>1. /\ conn \in [Conn -> Connection] /\ ConnFits(s) /\ s \in Connection
      /\ UNCHANGED <<record, registered, globalSubscribers, shutdownDone, consumer, losses>>
  BY DEF IInv, Connections, nextEvent, nextClosed, heartbeat, write, writeFails, serverVars
<1>2. Plain' /\ \A j \in Job : registered'[j] \subseteq registered[j]
  BY <1>1 DEF IInv, Plain
<1>3. /\ s.hand \in Seq(Event) /\ Len(s.hand) \in Nat /\ s.wire \in Seq(Event)
      /\ s.replay \in Seq(Event) /\ s.live \in Seq(Event) /\ Len(s.live) \in Nat
      /\ <<>> \in Seq(Event) /\ Len(<<>>) = 0 /\ Len(s.live) <= maxFramesPerSubscriber
      /\ maxFramesPerSubscriber \in Nat
  BY <1>1, ConnectionQueues, BudgetAssumption DEF ConnFits
<1>4. CASE nextEvent(c)
  <2> DEFINE hand == <<Head(buffered(s))>>
             replay == IF s.replay # <<>> THEN Tail(s.replay) ELSE s.replay
             live == IF s.replay # <<>> THEN s.live ELSE Tail(s.live)
             delivered == s.terminalDelivered \/ Head(buffered(s)).last
  <2>1. s.at = "next" /\ ~ s.closed /\ buffered(s) # <<>>
    BY <1>4 DEF nextEvent
  <2>2. /\ conn' = [conn EXCEPT ![c] = t]
        /\ t = [s EXCEPT !.hand = hand, !.replay = replay, !.live = live,
                         !.terminalDelivered = delivered, !.at = "write"]
    BY <1>1, <1>4 DEF nextEvent, Connection
  <2>3. delivered \in BOOLEAN
    OBVIOUS
  <2>4. s.hand = <<>> /\ s.job \in Job
    BY <1>1, <2>1 DEF ConnFits, Serving
  <2>5. /\ t.hand = hand /\ t.replay = replay /\ t.live = live /\ t.at = "write"
        /\ t.wire = s.wire /\ t.closed = s.closed /\ t.up = s.up /\ t.job = s.job
        /\ t.answer = s.answer
    BY <1>1, <2>2 DEF Connection
  <2>6. /\ \A r, n : n \in Int /\ Flows(r, s, n) => Flows(r, t, n)
        /\ carried(t) = carried(s)
        /\ hand \in Seq(Event) /\ Len(hand) = 1
        /\ replay \in Seq(Event) /\ live \in Seq(Event) /\ Len(live) <= Len(s.live)
        /\ Len(live) \in Nat
    <3> HIDE DEF s, t
    <3>1. ASSUME NEW r
          PROVE  /\ \A n \in Int : Flows(r, s, n) => Flows(r, t, n)
                 /\ carried(t) = carried(s)
                 /\ t.hand \in Seq(Event) /\ Len(t.hand) = 1
                 /\ t.replay \in Seq(Event) /\ t.live \in Seq(Event) /\ Len(t.live) <= Len(s.live)
      BY <1>1, <2>1, <2>4, <2>5, NextFlows
    <3>2. Len(t.live) \in Nat
      BY <3>1, LenProperties
    <3> HIDE DEF hand, replay, live, delivered
    <3> QED BY <2>5, <3>1, <3>2
  <2> HIDE DEF hand, replay, live, delivered
  <2>7. ConnFits(t)
    <3>1. t \in Connection
      BY <1>1, <2>2, <2>3, <2>6 DEF Connection, Serving
    <3>2. Len(t.live) <= maxFramesPerSubscriber
      BY <1>3, <2>5, <2>6
    <3> QED BY <2>4, <2>5, <2>6, <3>1, <3>2 DEF ConnFits
  <2> HIDE DEF s, t
  <2>8. Opened(s) => Passes(s, t)
    BY <2>5 DEF Opened, Passes
  <2>9. Registered'
    BY <1>1, <2>2, <2>5, ServeRegistered DEF Serving, s
  <2> QED BY <1>1, <1>2, <2>1, <2>2, <2>5, <2>6, <2>7, <2>8, <2>9, ServeKeeps DEF s
<1>5. CASE nextClosed(c)
  <2>1. /\ s.at = "next" /\ conn' = [conn EXCEPT ![c] = t]
        /\ t = [s EXCEPT !.at = "close", !.closed = TRUE]
    BY <1>1, <1>5 DEF nextClosed, Connection
  <2>2. /\ t.at = "close" /\ t.closed = TRUE
        /\ t.hand = s.hand /\ t.replay = s.replay /\ t.live = s.live /\ t.wire = s.wire
        /\ t.up = s.up /\ t.job = s.job /\ t.answer = s.answer
    BY <1>1, <2>1 DEF Connection
  <2>3. ConnFits(t)
    BY <1>1, <2>1, <2>2 DEF ConnFits, Connection, Serving
  <2> HIDE DEF s, t
  <2>4. Opened(s) => Passes(s, t)
    BY <2>2 DEF Opened, Passes
  <2>5. Registered'
    BY <1>1, <2>1, <2>2, ServeRegistered DEF Serving, s
  <2>6. \A j \in Job, n \in Int : Flows(record[j], s, n) => Flows(record[j], t, n)
    BY <2>2 DEF Flows
  <2> QED BY <1>1, <1>2, <2>1, <2>2, <2>3, <2>4, <2>5, <2>6, ServeKeeps DEF s
<1>6. CASE heartbeat(c)
  <2>1. /\ s.at = "next" /\ ~ s.up /\ conn' = [conn EXCEPT ![c] = t]
        /\ t = [s EXCEPT !.at = "close"]
    BY <1>1, <1>6 DEF heartbeat, Connection
  <2>2. /\ t.at = "close" /\ t.hand = s.hand /\ t.live = s.live /\ t.wire = s.wire
        /\ t.up = s.up /\ t.job = s.job /\ t.answer = s.answer
    BY <1>1, <2>1 DEF Connection
  <2>3. ConnFits(t)
    BY <1>1, <2>1, <2>2 DEF ConnFits, Connection, Serving
  <2> HIDE DEF s, t
  <2>4. Opened(s) => Passes(s, t)
    BY <2>2 DEF Opened, Passes
  <2>5. Registered'
    BY <1>1, <2>1, <2>2, ServeRegistered DEF Serving, s
  <2> QED BY <1>1, <1>2, <2>1, <2>2, <2>3, <2>4, <2>5, ServeKeeps DEF s
<1>7. CASE write(c)
  <2> DEFINE wire == IF s.up THEN s.wire \o s.hand ELSE s.wire
             at == IF s.hand[1].last THEN "close" ELSE "next"
  <2>1. /\ s.at = "write" /\ conn' = [conn EXCEPT ![c] = t]
        /\ t = [s EXCEPT !.wire = wire, !.at = at, !.hand = <<>>]
    BY <1>1, <1>7 DEF write, Connection
  <2>2. at \in {"close", "next"} /\ wire \in Seq(Event)
    BY <1>3, ConcatProperties
  <2>3. /\ t.at = at /\ t.hand = <<>> /\ t.replay = s.replay /\ t.live = s.live /\ t.wire = wire
        /\ t.up = s.up /\ t.job = s.job /\ t.answer = s.answer /\ t.closed = s.closed
    BY <1>1, <2>1 DEF Connection
  <2>4. ASSUME s.up
        PROVE  /\ \A j \in Job, n \in Int : Flows(record[j], s, n) => Flows(record[j], t, n)
               /\ carried(t) = carried(s)
    <3>1. t.wire = s.wire \o s.hand
      BY <2>3, <2>4
    <3> HIDE DEF s, t
    <3> QED BY <1>1, <2>3, <3>1, WriteFlows
  <2>5. ~ s.up => t.wire = s.wire
    BY <2>3
  <2> HIDE DEF at, wire
  <2>6. ConnFits(t)
    BY <1>1, <1>3, <2>1, <2>2, <2>3 DEF ConnFits, Connection, Serving
  <2> HIDE DEF s, t
  <2>7. Opened(s) => Passes(s, t)
    BY <2>2, <2>3, <2>5 DEF Opened, Passes
  <2>8. Registered'
    BY <1>1, <2>1, <2>2, <2>3, ServeRegistered DEF Serving, s
  <2> QED BY <1>1, <1>2, <2>1, <2>3, <2>4, <2>6, <2>7, <2>8, ServeKeeps DEF s
<1>8. CASE writeFails(c)
  <2>1. /\ s.at = "write" /\ ~ s.up /\ conn' = [conn EXCEPT ![c] = t]
        /\ t = [s EXCEPT !.at = "close", !.hand = <<>>]
    BY <1>1, <1>8 DEF writeFails, Connection
  <2>2. /\ t.at = "close" /\ t.hand = <<>> /\ t.live = s.live /\ t.wire = s.wire
        /\ t.up = s.up /\ t.job = s.job /\ t.answer = s.answer
    BY <1>1, <2>1 DEF Connection
  <2>3. ConnFits(t)
    BY <1>1, <1>3, <2>1, <2>2 DEF ConnFits, Connection, Serving
  <2> HIDE DEF s, t
  <2>4. Opened(s) => Passes(s, t)
    BY <2>2 DEF Opened, Passes
  <2>5. Registered'
    BY <1>1, <2>1, <2>2, ServeRegistered DEF Serving, s
  <2> QED BY <1>1, <1>2, <2>1, <2>2, <2>3, <2>4, <2>5, ServeKeeps DEF s
<1> QED BY <1>4, <1>5, <1>6, <1>7, <1>8

\* Subscription.close() gives back a slot that has not been taken away.
LEMMA CloseKeeps ==
    ASSUME IInv, NEW c \in Conn, close(c)
    PROVE  IInv'
<1> DEFINE s == conn[c]
           t == conn'[c]
           j == conn[c].job
           X == leaves(c)
<1>1. /\ conn \in [Conn -> Connection] /\ ConnFits(s) /\ s \in Connection
      /\ registered \in [Job -> SUBSET Conn]
      /\ UNCHANGED <<record, shutdownDone, consumer, losses>>
      /\ s.at = "close" /\ j \in Job
  BY DEF IInv, Connections, ConnFits, Registered, close, Serving
<1>2. /\ registered' = [registered EXCEPT ![j] = @ \ X]
      /\ globalSubscribers' = globalSubscribers - Cardinality(X)
      /\ conn' = [conn EXCEPT ![c] = t]
      /\ t = [s EXCEPT !.at = "complete", !.closed = TRUE, !.replay = <<>>, !.live = <<>>]
  BY <1>1 DEF close, Connection
<1>3. /\ t.at = "complete" /\ t.closed = TRUE /\ t.replay = <<>> /\ t.live = <<>>
      /\ t.hand = s.hand /\ t.wire = s.wire /\ t.up = s.up /\ t.job = s.job /\ t.answer = s.answer
  BY <1>1, <1>2 DEF Connection
<1>4. ConnFits(t)
  <2>1. <<>> \in Seq(Event) /\ Len(<<>>) = 0 /\ maxFramesPerSubscriber \in Nat
    BY BudgetAssumption
  <2>2. t \in Connection
    BY <1>1, <1>2, <2>1 DEF Connection
  <2>3. s.hand = <<>>
    BY <1>1 DEF ConnFits
  <2> QED BY <1>3, <2>1, <2>2, <2>3 DEF ConnFits, Serving
<1>5. X \subseteq {c} /\ X \subseteq registered[j] /\ registered[j] \ X = registered[j] \ {c}
  BY DEF leaves
<1>6. \A i \in Job : registered'[i] = registered[i] \ {c}
  <2> TAKE i \in Job
  <2>1. CASE i = j
    BY <1>1, <1>2, <1>5, <2>1
  <2>2. CASE i # j
    <3>1. c \notin registered[i]
      BY <2>2, AboutRegistered
    <3> QED BY <1>1, <1>2, <2>2, <3>1
  <2> QED BY <2>1, <2>2
<1>7. Registered' /\ globalSubscribers' \in Nat
  <2>1. Subscribed' = Subscribed \ X
    <3>1. c \in Subscribed => c \in X
      <4>1. ASSUME NEW i \in Job, c \in registered[i]
            PROVE  c \in X
        BY <4>1, AboutRegistered DEF leaves
      <4> QED BY <4>1 DEF Subscribed
    <3>2. Subscribed' = Subscribed \ {c}
      BY <1>6 DEF Subscribed
    <3> QED BY <1>5, <3>1, <3>2
  <2>2. IsFiniteSet(Subscribed) /\ X \subseteq Subscribed
    BY <1>1, <1>5 DEF IInv, Registered, Subscribed
  <2> HIDE DEF X
  <2>3. /\ IsFiniteSet(Subscribed') /\ Cardinality(Subscribed') \in Nat
        /\ Cardinality(Subscribed') = Cardinality(Subscribed) - Cardinality(X)
    <3>1. Subscribed \cap X = X
      BY <2>2
    <3>2. /\ IsFiniteSet(Subscribed \ X)
          /\ Cardinality(Subscribed \ X) = Cardinality(Subscribed) - Cardinality(Subscribed \cap X)
      BY <2>2, FS_Difference
    <3>3. IsFiniteSet(Subscribed') /\ Cardinality(Subscribed') \in Nat
      BY <2>1, <3>2, FS_CardinalityType
    <3> QED BY <2>1, <3>1, <3>2, <3>3
  <2>4. /\ globalSubscribers = Cardinality(Subscribed)
        /\ globalSubscribers <= maxGlobalSubscribers /\ globalSubscribers \in Nat
        /\ maxGlobalSubscribers \in Nat /\ Cardinality(X) \in Nat
    BY <2>2, FS_Subset, FS_CardinalityType, BudgetAssumption
        DEF IInv, Plain, Registered, SubscribersAccounted
  <2>5. globalSubscribers' = Cardinality(Subscribed') /\ globalSubscribers' <= maxGlobalSubscribers
    BY <1>2, <2>3, <2>4
  <2>6. ASSUME NEW i \in Job
        PROVE  /\ Cardinality(registered'[i]) <= maxSubscribersPerJob
               /\ \A d \in registered'[i] : conn'[d].job = i /\ conn'[d].at \in Serving
    <3>1. IsFiniteSet(registered[i])
      <4>1. registered[i] \subseteq Subscribed
        BY <1>1 DEF Subscribed
      <4> QED BY <2>2, <4>1, FS_Subset
    <3>2. Cardinality(registered'[i]) <= Cardinality(registered[i])
      BY <1>6, <3>1, FS_Subset
    <3>3. /\ Cardinality(registered[i]) <= maxSubscribersPerJob
          /\ Cardinality(registered[i]) \in Nat /\ maxSubscribersPerJob \in Nat
          /\ Cardinality(registered'[i]) \in Nat
      <4>1. IsFiniteSet(registered'[i])
        BY <1>6, <3>1, FS_Subset
      <4> QED BY <3>1, <4>1, FS_CardinalityType, BudgetAssumption
              DEF IInv, Registered, SubscribersAccounted
    <3>4. \A d \in registered'[i] : conn'[d].job = i /\ conn'[d].at \in Serving
      BY <1>1, <1>2, <1>6, AboutRegistered
    <3> QED BY <3>2, <3>3, <3>4
  <2>7. SubscribersAccounted'
    BY <2>5, <2>6 DEF SubscribersAccounted
  <2>8. registered' \in [Job -> SUBSET Conn]
    BY <1>1, <1>2
  <2> QED BY <2>3, <2>5, <2>7, <2>8 DEF Registered
<1>8. Plain'
  BY <1>1, <1>7 DEF IInv, Plain
<1> HIDE DEF s, t
<1>9. Opened(s) => Passes(s, t)
  BY <1>3 DEF Opened, Passes
<1>10. \A i \in Job, n \in Int : Flows(record[i], s, n) => Flows(record[i], t, n)
  BY <1>3, RunEmpty DEF Flows
<1>11. \A i \in Job : registered'[i] \subseteq registered[i]
  BY <1>6
<1> QED BY <1>1, <1>2, <1>3, <1>4, <1>7, <1>8, <1>9, <1>10, <1>11, ServeKeeps DEF s

\* The end of the answer, and the loss of a connection.
LEMMA EndKeeps ==
    ASSUME IInv, NEW c \in Conn, complete(c) \/ lose(c)
    PROVE  IInv'
<1> DEFINE s == conn[c]
           t == conn'[c]
<1>1. /\ conn \in [Conn -> Connection] /\ ConnFits(s) /\ s \in Connection
      /\ UNCHANGED <<record, registered, globalSubscribers, shutdownDone, consumer>>
  BY DEF IInv, Connections, complete, lose, serverVars
<1>2. \A j \in Job : registered'[j] \subseteq registered[j]
  BY <1>1
<1>3. CASE complete(c)
  <2>1. /\ s.at = "complete" /\ conn' = [conn EXCEPT ![c] = t] /\ UNCHANGED losses
        /\ t = [s EXCEPT !.at = "done", !.eof = TRUE]
    BY <1>1, <1>3 DEF complete, Connection
  <2>2. /\ t.at = "done"
        /\ t.hand = s.hand /\ t.replay = s.replay /\ t.live = s.live /\ t.wire = s.wire
        /\ t.up = s.up /\ t.job = s.job /\ t.answer = s.answer /\ t.closed = s.closed
    BY <1>1, <2>1 DEF Connection
  <2>3. ConnFits(t)
    BY <1>1, <2>1, <2>2 DEF ConnFits, Connection, Serving
  <2>4. Plain'
    BY <1>1, <2>1 DEF IInv, Plain
  <2> HIDE DEF s, t
  <2>5. Opened(s) => Passes(s, t)
    BY <2>2 DEF Opened, Passes
  <2>6. Registered'
    BY <1>1, <2>1, <2>2, ServeRegistered DEF Serving, s
  <2>7. carried(t) = carried(s)
    BY <2>2 DEF carried
  <2>8. \A j \in Job, n \in Int : Flows(record[j], s, n) => Flows(record[j], t, n)
    BY <2>2 DEF Flows
  <2> QED BY <1>1, <1>2, <2>1, <2>2, <2>3, <2>4, <2>5, <2>6, <2>7, <2>8, ServeKeeps DEF s
<1>4. CASE lose(c)
  <2>1. /\ conn' = [conn EXCEPT ![c] = t] /\ losses < MaxLosses /\ losses' = losses + 1
        /\ t = [s EXCEPT !.up = FALSE, !.wire = <<>>]
    BY <1>1, <1>4 DEF lose, Connection
  <2>2. /\ t.up = FALSE /\ t.wire = <<>> /\ t.at = s.at /\ t.asked = s.asked
        /\ t.hand = s.hand /\ t.replay = s.replay /\ t.live = s.live
        /\ t.job = s.job /\ t.answer = s.answer
    BY <1>1, <2>1 DEF Connection
  <2>3. ConnFits(t)
    <3>1. <<>> \in Seq(Event)
      OBVIOUS
    <3> QED BY <1>1, <2>1, <2>2, <3>1 DEF ConnFits, Connection
  <2>4. Plain'
    <3>1. losses + 1 \in 0..MaxLosses
      BY <2>1, BudgetAssumption DEF IInv, Plain
    <3> QED BY <1>1, <2>1, <3>1 DEF IInv, Plain
  <2> HIDE DEF s, t
  <2>5. carried(s) = 0 => carried(t) = 0
    <3>1. \A a, b, d, e \in Nat : a + b + d + e = 0 => 0 + b + d + e = 0
      OBVIOUS
    <3>2. Len(t.wire) = 0
      BY <2>2
    <3>3. /\ carried(s) = Len(s.wire) + Len(s.hand) + Len(s.replay) + Len(s.live)
          /\ carried(t) = 0 + Len(s.hand) + Len(s.replay) + Len(s.live)
      BY <2>2, <3>2 DEF carried
    <3> QED BY <1>1, <3>1, <3>3, ConnectionQueues, ZenonT(30)
  <2>6. Opened(s) => Passes(s, t)
    BY <2>2, <2>5 DEF Opened, Passes
  <2>7. Registered'
    BY <1>1, <2>1, <2>2, ServeRegistered DEF s
  <2> QED BY <1>1, <1>2, <2>1, <2>2, <2>3, <2>4, <2>6, <2>7, ServeKeeps DEF s
<1> QED BY <1>3, <1>4

-----------------------------------------------------------------------------
(* subscribe().                                                            *)

\* The n-th of the positions that a filter keeps.
ranked(S, n) == CHOOSE i \in S : Cardinality({k \in S : k <= i}) = n

\* ... when it keeps the positions a, ..., L.
LEMMA RankIs ==
    ASSUME NEW a \in Nat, NEW L \in Nat, a <= L + 1, NEW S, S = a..L
    PROVE  /\ Cardinality(S) = L + 1 - a
           /\ \A n \in 1..(L + 1 - a) : ranked(S, n) = a + n - 1
<1>1. Cardinality(S) = L + 1 - a
  <2>1. Cardinality(a..L) = IF a > L THEN 0 ELSE L - a + 1
    BY FS_Interval
  <2>2. (IF a > L THEN 0 ELSE L - a + 1) = L + 1 - a
    OBVIOUS
  <2> QED BY <2>1, <2>2
<1>2. ASSUME NEW i \in S
      PROVE  Cardinality({k \in S : k <= i}) = i - a + 1
  <2>1. i \in Nat /\ a <= i /\ {k \in S : k <= i} = a..i
    OBVIOUS
  <2>2. Cardinality(a..i) = IF a > i THEN 0 ELSE i - a + 1
    BY <2>1, FS_Interval
  <2>3. (IF a > i THEN 0 ELSE i - a + 1) = i - a + 1
    BY <2>1
  <2> QED BY <2>1, <2>2, <2>3
<1>3. ASSUME NEW n \in 1..(L + 1 - a)
      PROVE  ranked(S, n) = a + n - 1
  <2>1. a + n - 1 \in S
    OBVIOUS
  <2>2. \A i \in S : i - a + 1 = n <=> i = a + n - 1
    OBVIOUS
  <2>3. \A i \in S : Cardinality({k \in S : k <= i}) = n <=> i = a + n - 1
    BY <1>2, <2>2
  <2> QED BY <2>1, <2>3 DEF ranked
<1> QED BY <1>1, <1>3

\* What is replayed are the newest events of the ring, from the first that
\* was asked for.
LEMMA ReplayedIs ==
    ASSUME NEW r, RingKept(r), NEW id \in Ids \cup {None}, r.ring # <<>>,
           id # None => id <= r.seq /\ ~ expired(r, id),
           NEW b \in Int, id = None => b = r.seq - Len(r.ring), id # None => b = id
    PROVE  /\ b \in Ids /\ b <= r.seq
           /\ id = None => b < oldestKept(r) /\ oldestKept(r) = b + 1 /\ b < r.seq
           /\ Run(r, replayed(r, id), b) /\ replayed(r, id) \in Seq(Event)
           /\ Len(replayed(r, id)) = r.seq - b
<1> DEFINE L == Len(r.ring)
           base == r.seq - L
           a == b - base + 1
           wanted == {i \in DOMAIN r.ring : id = None \/ r.ring[i].id > id}
           nth(n) == ranked(wanted, n)
           N == Cardinality(wanted)
           s == replayed(r, id)
<1>1. /\ L \in Nat \ {0} /\ base \in Nat /\ r.seq \in Nat /\ r.seq \in 1..MaxEvents
      /\ DOMAIN r.ring = 1..L /\ r.ring \in Seq(Event) /\ oldestKept(r) = base + 1
      /\ r.seq = base + L
  <2>1. /\ L \in Nat /\ L # 0 /\ r.seq \in Nat /\ DOMAIN r.ring = 1..L /\ r.ring \in Seq(Event)
        /\ oldestKept(r) = r.seq - L + 1
    BY OldestIs
  <2>2. L <= r.seq /\ r.seq \in 1..MaxEvents
    BY DEF RingKept, Record
  <2> HIDE DEF L
  <2>3. L \in Nat \ {0} /\ base \in Nat /\ r.seq = base + L
    BY <2>1, <2>2
  <2>4. oldestKept(r) = base + 1
    BY <2>1
  <2> QED BY <2>1, <2>2, <2>3, <2>4
<1>2. \A i \in 1..L : /\ r.ring[i] \in Event /\ r.ring[i].id = base + i
                      /\ r.ring[i].last => r.terminal /\ base + i = r.seq
  <2> TAKE i \in 1..L
  <2>1. /\ r.ring[i].id = base + i
        /\ r.ring[i].last => r.terminal /\ i = L
    BY <1>1 DEF RingKept
  <2>2. r.ring[i] \in Event
    BY <1>1, ElementOfSeq
  <2> HIDE DEF L, base
  <2> QED BY <1>1, <2>1, <2>2
<1>3. b \in Nat /\ base <= b /\ b <= r.seq /\ b \in Ids /\ (id = None => b = base)
  <2>1. Ids \subseteq Nat /\ MaxEvents \in Nat /\ Ids = 0..MaxEvents
    BY BudgetAssumption DEF Ids
  <2>2. CASE id = None
    <3>1. b = base
      BY <2>2
    <3> HIDE DEF L, base
    <3> QED BY <1>1, <2>1, <3>1
  <2>3. CASE id # None
    <3>1. b = id /\ id \in Ids /\ id <= r.seq /\ ~ expired(r, id) /\ 1 \in 1..L
      BY <1>1, <2>3
    <3>2. ~ (id < r.ring[1].id - 1) /\ r.ring[1].id = base + 1
      BY <1>2, <3>1 DEF expired
    <3> HIDE DEF L, base
    <3> QED BY <1>1, <2>1, <2>3, <3>1, <3>2
  <2> QED BY <2>2, <2>3
<1> HIDE DEF L, base
<1>4. a \in Nat \ {0} /\ a <= L + 1 /\ L + 1 - a = r.seq - b
  BY <1>1, <1>3
<1>5. wanted = a..L
  <2>1. ASSUME NEW i \in 1..L
        PROVE  (id = None \/ r.ring[i].id > id) <=> a <= i
    <3>1. CASE id = None
      BY <1>1, <1>3, <3>1
    <3>2. CASE id # None
      <4>1. r.ring[i].id = base + i /\ id = b
        BY <1>2, <3>2
      <4>2. (base + i > b) <=> b - base + 1 <= i
        BY <1>1, <1>3
      <4> QED BY <3>2, <4>1, <4>2
    <3> QED BY <3>1, <3>2
  <2>2. \A i : i \in a..L <=> i \in 1..L /\ a <= i
    BY <1>1, <1>4
  <2> HIDE DEF a
  <2> QED BY <1>1, <2>1, <2>2
<1> HIDE DEF a
<1>6. /\ N = L + 1 - a
      /\ \A n \in 1..N : nth(n) = a + n - 1
  <2> HIDE DEF wanted
  <2>1. a \in Nat /\ L \in Nat
    BY <1>1, <1>4
  <2>2. Cardinality(wanted) = L + 1 - a
    BY <1>4, <1>5, <2>1, RankIs
  <2>3. \A n \in 1..(L + 1 - a) : nth(n) = a + n - 1
    BY <1>4, <1>5, <2>1, RankIs
  <2> QED BY <2>2, <2>3
<1>7. ASSUME NEW n \in 1..N
      PROVE  nth(n) = a + n - 1 /\ nth(n) \in 1..L
  <2>1. nth(n) = a + n - 1
    BY <1>6
  <2>2. a + n - 1 \in 1..L
    BY <1>1, <1>4, <1>6
  <2> HIDE DEF nth, N
  <2> QED BY <2>1, <2>2
<1>8. s = [n \in 1..N |-> r.ring[a + n - 1]]
  <2>1. s = [n \in 1..N |-> r.ring[nth(n)]]
    BY DEF replayed, ranked
  <2> HIDE DEF nth, N, s
  <2> QED BY <1>7, <2>1
<1> HIDE DEF N, s, nth, wanted
<1>9. N \in Nat /\ N = r.seq - b
  BY <1>1, <1>3, <1>4, <1>6
<1>10. ASSUME NEW n \in 1..N
       PROVE  /\ s[n] \in Event /\ s[n].id = b + n /\ b + n <= r.seq
              /\ s[n].last => r.terminal /\ b + n = r.seq
  <2>1. PICK i \in 1..L : i = a + n - 1
    BY <1>7
  <2>2. s[n] = r.ring[i]
    BY <1>8, <2>1
  <2>3. base + i = b + n /\ b + n <= r.seq
    BY <1>1, <1>3, <1>9, <2>1 DEF a
  <2> QED BY <1>2, <2>2, <2>3
<1>11. s \in Seq(Event) /\ Len(s) = N /\ DOMAIN s = 1..N
  <2>1. \A n \in 1..N : r.ring[a + n - 1] \in Event
    BY <1>8, <1>10
  <2>2. s \in Seq(Event)
    BY <1>8, <1>9, <2>1, IsASeq
  <2>3. DOMAIN s = 1..N
    BY <1>8
  <2> QED BY <1>9, <2>2, <2>3, LenProperties
<1>12. Run(r, s, b)
  BY <1>10, <1>11 DEF Run
<1> QED BY <1>1, <1>3, <1>9, <1>11, <1>12 DEF s

\* The answer says what was found of the record and of the id.
LEMMA AnswerIs ==
    ASSUME NEW j, RingKept(record[j]), NEW id \in Ids \cup {None}
    PROVE  LET r == record[j]
               answer == answerTo(j, id)
           IN  /\ answer \in {"200", "400", "404", "409", "429"}
               /\ answer = "404" => ~ r.known
               /\ answer = "400" => id # None /\ id > r.seq
               /\ answer = "409" => id # None /\ expired(r, id)
               /\ answer = "200" => /\ r.known /\ ~ exhausted(j)
                                    /\ id # None => id <= r.seq /\ ~ expired(r, id)
<1> DEFINE r == record[j]
           answer == answerTo(j, id)
<1>1. id # None => (id > r.seq <=> ~ id <= r.seq)
  <2>1. r.seq \in Nat /\ Ids \subseteq Nat
    BY OldestIs, BudgetAssumption DEF Ids
  <2>2. \A a, b \in Nat : a > b <=> ~ a <= b
    OBVIOUS
  <2>3. id # None => id \in Nat
    BY <2>1
  <2> HIDE DEF r
  <2> QED BY <2>1, <2>2, <2>3
<1>2. CASE ~ r.known
  <2>1. answer = "404"
    BY <1>2 DEF answerTo
  <2> QED BY <1>2, <2>1
<1>3. CASE r.known /\ id # None /\ id > r.seq
  <2>1. answer = "400"
    BY <1>1, <1>3 DEF answerTo
  <2> QED BY <1>3, <2>1
<1>4. CASE r.known /\ id # None /\ id <= r.seq /\ expired(r, id)
  <2>1. answer = "409"
    BY <1>1, <1>4 DEF answerTo
  <2> QED BY <1>4, <2>1
<1>5. CASE r.known /\ (id # None => id <= r.seq /\ ~ expired(r, id))
  <2>1. answer = IF exhausted(j) THEN "429" ELSE "200"
    BY <1>1, <1>5 DEF answerTo
  <2> QED BY <1>5, <2>1
<1> QED BY <1>1, <1>2, <1>3, <1>4, <1>5

\* subscribe() answers the caller according to where it is.
LEMMA AnswerFits ==
    ASSUME NEW j, NEW r, r = record[j], RingKept(r), NEW s \in Connection, NEW m \in Caller,
           NEW R, Follows(j, r, s, m, R), m.at \in {"waiting", "reading"}, s.at = "request",
           NEW a, a = answerTo(j, s.asked)
    PROVE  /\ FedFits(r, m) /\ Positioned(r, m) /\ m.fed = <<>> /\ s.asked = m.resume
           /\ ~ Fresh(m) => m.resume = m.seen /\ m.parsed = m.seen
           /\ a # "400" /\ (a = "404" => ~ r.known)
           /\ a = "409" => ~ Fresh(m) /\ m.seen + 1 < oldestKept(r)
<1>1. /\ FedFits(r, m) /\ Positioned(r, m) /\ Answered(j, r, s, m)
      /\ m.at = "waiting" /\ s.asked = m.resume /\ m.fed = <<>> /\ ~ m.terminal
  BY DEF Follows, Answered
<1>2. /\ r.seq \in Nat /\ oldestKept(r) \in Nat /\ m.seen \in Nat /\ m.parsed \in Nat
      /\ m.resume \in Ids \cup {None} /\ Len(m.fed) = 0
  BY <1>1, OldestIs, CallerNumbers DEF Caller
<1>3. ~ Fresh(m) => m.resume = m.seen /\ m.parsed = m.seen
  BY <1>1, <1>2 DEF FedFits, Positioned, Fresh
<1>4. a # "400"
  <2>1. a = "400" => m.resume # None /\ m.resume > r.seq
    BY <1>1, <1>2, AnswerIs
  <2>2. m.seen <= r.seq
    BY <1>1 DEF Positioned
  <2> QED BY <1>2, <1>3, <2>1, <2>2 DEF Fresh
<1>5. a = "404" => ~ r.known
  BY <1>1, <1>2, AnswerIs
<1>6. a = "409" => ~ Fresh(m) /\ m.seen + 1 < oldestKept(r)
  <2> SUFFICES ASSUME a = "409"
               PROVE  ~ Fresh(m) /\ m.seen + 1 < oldestKept(r)
    OBVIOUS
  <2>1. m.resume # None /\ expired(r, m.resume)
    BY <1>1, <1>2, AnswerIs
  <2>2. ~ Fresh(m) /\ m.seen < r.ring[1].id - 1 /\ r.ring[1].id = oldestKept(r)
    BY <1>3, <2>1 DEF expired, Fresh, oldestKept
  <2> QED BY <1>2, <2>2
<1> QED BY <1>1, <1>3, <1>4, <1>5, <1>6

\* A request has not been answered: the queues are empty.
LEMMA NothingCarried ==
    ASSUME NEW s \in Connection, carried(s) = 0
    PROVE  s.wire = <<>> /\ s.hand = <<>> /\ s.live = <<>>
<1>1. \A a, b, c, d \in Nat : a + b + c + d = 0 => a = 0 /\ b = 0 /\ d = 0
  OBVIOUS
<1>2. Len(s.wire) + Len(s.hand) + Len(s.replay) + Len(s.live) = 0
  BY DEF carried
<1>3. Len(s.wire) = 0 /\ Len(s.hand) = 0 /\ Len(s.live) = 0
  BY <1>1, <1>2, ConnectionQueues
<1> QED BY <1>3, ConnectionQueues, EmptySeq

\* subscribe() to what is kept from the asked event on.
LEMMA SubscribeOpens ==
    ASSUME NEW j, NEW r, r = record[j], RingKept(r), NEW s \in Connection, NEW m \in Caller,
           FedFits(r, m), Positioned(r, m), m.fed = <<>>, s.asked = m.resume,
           ~ Fresh(m) => m.resume = m.seen /\ m.parsed = m.seen,
           carried(s) = 0, answerTo(j, s.asked) = "200",
           NEW t, t.replay = replayed(r, s.asked), t.wire = s.wire, t.hand = s.hand,
           t.live = s.live, NEW R
    PROVE  Continues(r, t, m, R) /\ t.replay \in Seq(Event)
<1> DEFINE b == IF Fresh(m) THEN r.seq - Len(r.ring) ELSE m.seen
<1>1. /\ r.seq \in Nat /\ Len(r.ring) \in Nat /\ m.seen \in Nat /\ m.parsed \in Nat
      /\ m.resume \in Ids \cup {None} /\ s.asked = m.resume /\ oldestKept(r) \in Nat
  BY OldestIs, CallerNumbers DEF Caller
<1>2. /\ r.known /\ (m.resume # None => m.resume <= r.seq /\ ~ expired(r, m.resume))
  BY <1>1, AnswerIs
<1>3. b \in Int /\ (m.resume = None => b = r.seq - Len(r.ring)) /\ (m.resume # None => b = m.resume)
  <2>1. r.seq - Len(r.ring) \in Int /\ m.seen \in Int
    BY <1>1
  <2> QED BY <1>1, <2>1 DEF Fresh
<1> HIDE DEF b
<1>4. r.ring # <<>>
  BY <1>2 DEF RingKept
<1>5. b \in Ids /\ b <= r.seq /\ b \in Nat
  <2>1. b \in Ids /\ b <= r.seq
    BY <1>1, <1>2, <1>3, <1>4, ReplayedIs
  <2> QED BY <2>1, BudgetAssumption DEF Ids
<1>6. m.resume = None => b < oldestKept(r) /\ oldestKept(r) = b + 1 /\ b < r.seq
  BY <1>1, <1>2, <1>3, <1>4, ReplayedIs
<1>7. /\ Run(r, t.replay, b) /\ t.replay \in Seq(Event) /\ Len(t.replay) = r.seq - b
  BY <1>1, <1>2, <1>3, <1>4, ReplayedIs
<1>8. s.wire = <<>> /\ s.hand = <<>> /\ s.live = <<>>
  BY NothingCarried
<1>9. Flows(r, t, b)
  <2>1. b + 0 = b /\ b + 0 + 0 = b /\ Len(<<>>) = 0
    BY <1>5
  <2>2. \A n : Run(r, <<>>, n)
    BY RunEmpty
  <2> QED BY <1>7, <1>8, <2>1, <2>2 DEF Flows
<1>10. carried(t) = r.seq - b
  <2>1. r.seq - b \in Nat /\ 0 + 0 + (r.seq - b) + 0 = r.seq - b
    BY <1>1, <1>5
  <2>2. carried(t) = 0 + 0 + Len(t.replay) + 0
    BY <1>8 DEF carried
  <2> QED BY <1>7, <2>1, <2>2
<1>11. b + carried(t) = r.seq /\ (m.resume = None => carried(t) # 0)
  BY <1>1, <1>5, <1>6, <1>10
<1>12. ~ Expectant(m) => b = m.parsed
  BY <1>1, <1>3 DEF Expectant, Fresh
<1>13. Expectant(m) => m.resume = None /\ m.seen <= b /\ b < oldestKept(r)
  <2>1. Expectant(m) => m.resume = None /\ m.seen < oldestKept(r)
    BY DEF Expectant, Fresh, Positioned
  <2> QED BY <1>1, <1>5, <1>6, <2>1
<1> QED BY <1>5, <1>7, <1>9, <1>11, <1>12, <1>13 DEF Continues

\* The answer to a request, with a subscription or without.
LEMMA SubscribeKeeps ==
    ASSUME IInv, NEW c \in Conn, subscribe(c)
    PROVE  IInv'
<1> DEFINE s == conn[c]
           t == conn'[c]
           j == conn[c].job
           r == record[j]
           answer == answerTo(j, s.asked)
<1>1. /\ conn \in [Conn -> Connection] /\ ConnFits(s) /\ s \in Connection
      /\ registered \in [Job -> SUBSET Conn]
      /\ UNCHANGED <<record, shutdownDone, consumer, losses>>
      /\ s.at = "request" /\ j \in Job /\ s.asked \in Ids \cup {None}
  BY DEF IInv, Connections, ConnFits, Registered, subscribe, Connection
<1>2. RingKept(r) /\ r \in Record /\ r.terminal \in BOOLEAN
  BY <1>1 DEF IInv, RingsKept, RingKept, Record
<1>3. answer \in {"200", "400", "404", "409", "429"}
  BY <1>1, <1>2, AnswerIs
<1>4. s.hand = <<>> /\ Len(s.live) <= maxFramesPerSubscriber /\ c \notin Subscribed
  BY <1>1, AboutRegistered DEF ConnFits, Serving, Subscribed
<1>5. \A i \in Job : c \notin registered[i]
  BY <1>4 DEF Subscribed
<1>6. /\ conn' = [conn EXCEPT ![c] = t] /\ t.answer = answer /\ t.at \in {"next", "done"}
      /\ t.up = s.up /\ t.job = s.job /\ t.wire = s.wire /\ t.hand = s.hand /\ t.live = s.live
      /\ answer = "200" => t.at = "next" /\ t.replay = replayed(r, s.asked)
      /\ answer # "200" => t.at = "done" /\ t.replay = s.replay
  BY <1>1 DEF subscribe, Connection
<1>7. /\ answer = "200" => t = [s EXCEPT !.answer = answer, !.at = "next",
                                         !.replay = replayed(r, s.asked),
                                         !.terminalAtOpen = r.terminal]
      /\ answer # "200" => t = [s EXCEPT !.answer = answer, !.at = "done", !.eof = TRUE]
  BY <1>1 DEF subscribe, Connection
<1>8. /\ answer = "200" => /\ registered' = [registered EXCEPT ![j] = @ \cup {c}]
                           /\ globalSubscribers' = globalSubscribers + 1
      /\ answer # "200" => UNCHANGED <<registered, globalSubscribers>>
  BY DEF subscribe
<1> HIDE DEF answer, t
<1>9. answer = "200" => r.known /\ ~ exhausted(j) /\ (s.asked # None => s.asked <= r.seq /\ ~ expired(r, s.asked))
  BY <1>1, <1>2, AnswerIs DEF answer
<1>10. ConnFits(t)
  <2>1. CASE answer # "200"
    <3>1. t \in Connection
      <4>1. s \in Connection /\ t = [s EXCEPT !.answer = answer, !.at = "done", !.eof = TRUE]
        BY <1>1, <1>7, <2>1
      <4> HIDE DEF s
      <4> QED BY <1>3, <4>1 DEF Connection
    <3> QED BY <1>1, <1>4, <1>6, <2>1, <3>1 DEF ConnFits, Serving
  <2>2. CASE answer = "200"
    <3>1. replayed(r, s.asked) \in Seq(Event)
      <4>1. PICK b \in Int : /\ s.asked = None => b = r.seq - Len(r.ring)
                             /\ s.asked # None => b = s.asked
        <5>1. r.seq - Len(r.ring) \in Int /\ Ids \subseteq Int
          BY <1>2, OldestIs, BudgetAssumption DEF Ids
        <5>2. CASE s.asked = None
          BY <5>1, <5>2
        <5>3. CASE s.asked # None
          BY <1>1, <5>1, <5>3
        <5> QED BY <5>2, <5>3
      <4>2. r.ring # <<>>
        BY <1>2, <1>9, <2>2 DEF RingKept
      <4> HIDE DEF r, s
      <4> QED BY <1>1, <1>2, <1>9, <2>2, <4>1, <4>2, ReplayedIs
    <3>2. t \in Connection
      <4> DEFINE replay == replayed(r, s.asked)
                 ended == r.terminal
      <4>1. /\ s \in Connection /\ replay \in Seq(Event) /\ ended \in BOOLEAN
            /\ t = [s EXCEPT !.answer = answer, !.at = "next", !.replay = replay,
                             !.terminalAtOpen = ended]
        BY <1>1, <1>2, <1>7, <2>2, <3>1
      <4> HIDE DEF s, replay, ended
      <4> QED BY <1>3, <4>1 DEF Connection, Serving
    <3> QED BY <1>1, <1>4, <1>6, <2>2, <3>2 DEF ConnFits
  <2> QED BY <2>1, <2>2
<1>11. Connections' /\ conn'[c] = t /\ \A d \in Conn : d # c => conn'[d] = conn[d]
  BY <1>1, <1>6, <1>10 DEF IInv, Connections, ConnFits
<1>12. RingsKept' /\ Callers'
  BY <1>1 DEF IInv, RingsKept, Callers
<1>13. Registered' /\ globalSubscribers' \in Nat
  <2>1. CASE answer # "200"
    <3>1. UNCHANGED <<registered, globalSubscribers>>
      BY <1>8, <2>1
    <3>2. \A d \in Subscribed : conn'[d].job = conn[d].job /\ conn'[d].at \in Serving
      BY <1>4, <1>11, AboutRegistered DEF Subscribed
    <3> QED BY <3>1, <3>2, RegisteredSame DEF IInv, Plain
  <2>2. CASE answer = "200"
    <3>1. \A i \in Job : registered'[i] = IF i = j THEN registered[i] \cup {c} ELSE registered[i]
      BY <1>1, <1>8, <2>2
    <3>2. Subscribed' = Subscribed \cup {c}
      BY <1>1, <3>1 DEF Subscribed
    <3>3. /\ IsFiniteSet(Subscribed) /\ globalSubscribers = Cardinality(Subscribed)
          /\ globalSubscribers \in Nat /\ maxGlobalSubscribers \in Nat
          /\ maxSubscribersPerJob \in Nat
      BY BudgetAssumption DEF IInv, Plain, Registered, SubscribersAccounted
    <3>4. IsFiniteSet(Subscribed') /\ Cardinality(Subscribed') = Cardinality(Subscribed) + 1
      BY <1>4, <3>2, <3>3, FS_AddElement
    <3>5. ~ globalSubscribers >= maxGlobalSubscribers /\ ~ Cardinality(registered[j]) >= maxSubscribersPerJob
      BY <1>9, <2>2 DEF exhausted
    <3>6. /\ globalSubscribers' = Cardinality(Subscribed') /\ globalSubscribers' \in Nat
          /\ globalSubscribers' <= maxGlobalSubscribers
      BY <1>8, <2>2, <3>3, <3>4, <3>5
    <3>7. ASSUME NEW i \in Job
          PROVE  /\ Cardinality(registered'[i]) <= maxSubscribersPerJob
                 /\ \A d \in registered'[i] : conn'[d].job = i /\ conn'[d].at \in Serving
      <4>1. \A d \in registered[i] : conn'[d].job = i /\ conn'[d].at \in Serving
        BY <1>5, <1>11, AboutRegistered
      <4>2. CASE i = j
        <5>1. IsFiniteSet(registered[j])
          <6>1. registered[j] \subseteq Subscribed
            BY <1>1 DEF Subscribed
          <6> QED BY <3>3, <6>1, FS_Subset
        <5>2. /\ Cardinality(registered'[i]) = Cardinality(registered[j]) + 1
              /\ Cardinality(registered[j]) \in Nat
          <6>1. registered'[i] = registered[j] \cup {c} /\ c \notin registered[j]
            BY <1>1, <1>5, <3>1, <4>2
          <6>2. Cardinality(registered[j] \cup {c}) = Cardinality(registered[j]) + 1
            BY <5>1, <6>1, FS_AddElement
          <6> QED BY <5>1, <6>1, <6>2, FS_CardinalityType
        <5>3. Cardinality(registered'[i]) <= maxSubscribersPerJob
          BY <3>3, <3>5, <5>2
        <5>4. conn'[c].job = i /\ conn'[c].at \in Serving
          BY <1>6, <1>11, <2>2, <4>2 DEF Serving
        <5> QED BY <3>1, <4>1, <4>2, <5>3, <5>4
      <4>3. CASE i # j
        BY <3>1, <4>1, <4>3 DEF IInv, Registered, SubscribersAccounted
      <4> QED BY <4>2, <4>3
    <3>8. SubscribersAccounted'
      BY <3>6, <3>7 DEF SubscribersAccounted
    <3>9. registered' \in [Job -> SUBSET Conn]
      BY <1>1, <1>8, <2>2
    <3> QED BY <3>4, <3>6, <3>8, <3>9 DEF Registered
  <2> QED BY <2>1, <2>2
<1>14. Plain'
  BY <1>1, <1>13 DEF IInv, Plain
<1>15. Served'
  <2> SUFFICES ASSUME NEW k \in Consumer
               PROVE  Follows(Followed[k], record[Followed[k]], conn'[consumer[k].conn],
                              consumer[k], registered'[Followed[k]])
    BY <1>1 DEF Served
  <2> DEFINE J == Followed[k]
             m == consumer[k]
             u == conn[m.conn]
             v == conn'[m.conn]
  <2>1. /\ J \in Job /\ m \in Caller /\ RingKept(record[J])
        /\ Follows(J, record[J], u, m, registered[J])
        /\ m.at \in {"waiting", "reading"} => m.conn \in Conn /\ u \in Connection
    BY AboutCaller
  <2>2. CASE m.at \in {"waiting", "reading"} /\ m.conn = c
    <3>1. u = s /\ v = t /\ s.job = J /\ carried(s) = 0 /\ J = j
      BY <1>1, <1>11, <2>1, <2>2 DEF Follows, Answered
    <3>2. /\ FedFits(r, m) /\ Positioned(r, m) /\ m.fed = <<>> /\ s.asked = m.resume
          /\ ~ Fresh(m) => m.resume = m.seen /\ m.parsed = m.seen
          /\ Answered(j, r, t, m)
      <4>1. r = record[j] /\ Follows(j, r, s, m, registered[j]) /\ t.answer = answerTo(j, s.asked)
        BY <1>6, <2>1, <3>1 DEF answer
      <4>2. RingKept(r) /\ s \in Connection /\ s.at = "request" /\ m \in Caller
        BY <1>1, <1>2, <2>1
      <4>3. m.at \in {"waiting", "reading"}
        BY <2>2
      <4> HIDE DEF s, m, r, j
      <4>4. /\ FedFits(r, m) /\ Positioned(r, m) /\ m.fed = <<>> /\ s.asked = m.resume
            /\ ~ Fresh(m) => m.resume = m.seen /\ m.parsed = m.seen
        BY <4>1, <4>2, <4>3, AnswerFits
      <4>5. /\ t.answer # "400" /\ (t.answer = "404" => ~ r.known)
            /\ t.answer = "409" => ~ Fresh(m) /\ m.seen + 1 < oldestKept(r)
        BY <4>1, <4>2, <4>3, AnswerFits
      <4>6. Answered(j, r, s, m)
        BY <2>2, <4>1 DEF Follows
      <4>7. Answered(j, r, t, m)
        BY <1>6, <4>2, <4>4, <4>5, <4>6 DEF Answered
      <4> QED BY <4>4, <4>7
    <3>3. Continues(r, t, m, registered'[j]) \/ ~ t.up
      <4>1. CASE answer = "200"
        <5> HIDE DEF s, m, r
        <5>1. r = record[j]
          BY DEF r
        <5> QED BY <1>1, <1>2, <1>6, <2>1, <3>1, <3>2, <4>1, <5>1, SubscribeOpens DEF answer
      <4>2. CASE answer # "200" /\ s.up
        <5>1. Continues(r, s, m, registered[j])
          BY <2>1, <2>2, <3>1, <4>2 DEF Follows
        <5>2. m.conn \notin registered[j] /\ registered'[j] = registered[j]
          BY <1>1, <1>5, <1>8, <2>2, <4>2
        <5>3. \A n \in Int : Flows(r, s, n) => Flows(r, t, n)
          BY <1>6, <4>2 DEF Flows
        <5>4. Grows(r, r) /\ t \in Connection
          BY <1>2, <1>10, SameGrows DEF ConnFits
        <5> HIDE DEF s, m, r
        <5> QED BY <1>1, <1>2, <2>1, <5>1, <5>2, <5>3, <5>4, ContinuesGrows
      <4> QED BY <1>6, <4>1, <4>2
    <3> HIDE DEF s, r
    <3> QED BY <2>2, <3>1, <3>2, <3>3 DEF Follows, r
  <2>3. CASE ~ (m.at \in {"waiting", "reading"} /\ m.conn = c)
    <3>1. \A d \in Conn : d # c => (d \in registered'[J] <=> d \in registered[J])
      BY <1>1, <1>8, <2>1
    <3>2. m.at \in {"waiting", "reading"} =>
              u \in Connection /\ v = u /\ (m.conn \in registered'[J] => m.conn \in registered[J])
      BY <1>11, <2>1, <2>3, <3>1
    <3> HIDE DEF u, v, J, m
    <3>3. Follows(J, record[J], v, m, registered'[J])
      BY <2>1, <3>2, FollowsSame
    <3> QED BY <3>3 DEF v, J, m
  <2> QED BY <2>2, <2>3
<1> QED BY <1>11, <1>12, <1>13, <1>14, <1>15 DEF IInv

-----------------------------------------------------------------------------
(* Job.events() and its caller.                                            *)

\* A caller takes a step: the others stay where they are.
LEMMA CallerKeeps ==
    ASSUME IInv, NEW k \in Consumer, NEW m \in Caller, consumer' = [consumer EXCEPT ![k] = m],
           m.conn # None <=> m.at \in {"waiting", "reading"},
           UNCHANGED <<serverVars, losses>>, Connections', Registered',
           \A l \in Consumer : l # k /\ consumer[l].conn # None =>
               /\ m.conn # consumer[l].conn
               /\ conn'[consumer[l].conn] = conn[consumer[l].conn],
           Follows(Followed[k], record[Followed[k]], conn'[m.conn], m, registered[Followed[k]])
    PROVE  IInv'
<1>1. /\ consumer \in [Consumer -> Caller] /\ consumer' \in [Consumer -> Caller]
      /\ consumer'[k] = m /\ \A l \in Consumer : l # k => consumer'[l] = consumer[l]
  BY DEF IInv, Callers
<1>2. UNCHANGED <<record, registered, globalSubscribers, shutdownDone, losses>>
  BY DEF serverVars
<1>3. Plain' /\ RingsKept'
  BY <1>2 DEF IInv, Plain, RingsKept
<1>4. Callers'
  <2>1. \A l \in Consumer : consumer'[l].conn # None <=> consumer'[l].at \in {"waiting", "reading"}
    BY <1>1 DEF IInv, Callers
  <2>2. ASSUME NEW a \in Consumer, NEW b \in Consumer, a # b, consumer'[a].conn # None
        PROVE  consumer'[a].conn # consumer'[b].conn
    <3>1. CASE a = k
      BY <1>1, <2>2, <3>1
    <3>2. CASE b = k
      BY <1>1, <2>2, <3>2
    <3>3. CASE a # k /\ b # k
      BY <1>1, <2>2, <3>3 DEF IInv, Callers
    <3> QED BY <3>1, <3>2, <3>3
  <2> QED BY <1>1, <2>1, <2>2 DEF Callers
<1>5. Served'
  <2> SUFFICES ASSUME NEW l \in Consumer
               PROVE  Follows(Followed[l], record[Followed[l]], conn'[consumer'[l].conn],
                              consumer'[l], registered[Followed[l]])
    BY <1>2 DEF Served
  <2>1. CASE l = k
    BY <1>1, <2>1
  <2>2. CASE l # k
    <3> DEFINE J == Followed[l]
               n == consumer[l]
               u == conn[n.conn]
               v == conn'[n.conn]
    <3>1. /\ n \in Caller /\ RingKept(record[J]) /\ Follows(J, record[J], u, n, registered[J])
          /\ n.at \in {"waiting", "reading"} => n.conn \in Conn /\ u \in Connection
      BY AboutCaller
    <3>2. n.at \in {"waiting", "reading"} => n.conn # None
      BY DEF IInv, Callers
    <3>3. n.at \in {"waiting", "reading"} =>
              u \in Connection /\ v = u /\ (n.conn \in registered[J] => n.conn \in registered[J])
      BY <2>2, <3>1, <3>2
    <3> HIDE DEF J, n, u, v
    <3>4. Follows(J, record[J], v, n, registered[J])
      BY <3>1, <3>3, FollowsSame
    <3> QED BY <1>1, <2>2, <3>4 DEF J, n, v
  <2> QED BY <2>1, <2>2
<1> QED BY <1>3, <1>4, <1>5 DEF IInv

\* A caller's own connection is nobody else's; without one it stays at its
\* place in the history.
LEMMA OwnConnection ==
    ASSUME IInv, NEW k \in Consumer
    PROVE  /\ consumer[k].conn # None <=> consumer[k].at \in {"waiting", "reading"}
           /\ \A l \in Consumer : l # k /\ consumer[l].conn # None =>
                  consumer[k].conn # consumer[l].conn /\ consumer[l].conn \in Conn
<1>1. consumer[k].conn # None <=> consumer[k].at \in {"waiting", "reading"}
  BY DEF IInv, Callers
<1>2. ASSUME NEW l \in Consumer, l # k, consumer[l].conn # None
      PROVE  consumer[k].conn # consumer[l].conn /\ consumer[l].conn \in Conn
  BY <1>2 DEF IInv, Callers, Caller
<1> QED BY <1>1, <1>2

\* The caller leaves its iterator: returns, an error of the answer or of the
\* stream.
LEMMA LeaveKeeps ==
    ASSUME IInv, NEW k \in Consumer,
           NEW at \in {"complete", "broken", "malformed", "gone", "invalid", "expired", "idle"},
           consumer[k].at \in {"waiting", "reading"}, leave(k, at),
           UNCHANGED <<serverVars, losses>>,
           at = "expired" => /\ ~ Fresh(consumer[k])
                             /\ consumer[k].seen + 1 < oldestKept(record[Followed[k]])
    PROVE  IInv'
<1> DEFINE o == consumer[k]
           m == [o EXCEPT !.at = at, !.conn = None, !.fed = <<>>, !.parsed = 0]
           c == o.conn
           s == conn[c]
           t == [s EXCEPT !.up = FALSE, !.wire = <<>>]
           J == Followed[k]
<1>1. /\ o \in Caller /\ RingKept(record[J]) /\ Follows(J, record[J], s, o, registered[J])
      /\ c \in Conn /\ s \in Connection /\ ConnFits(s)
  BY AboutCaller
<1>2. consumer' = [consumer EXCEPT ![k] = m] /\ conn' = [conn EXCEPT ![c] = t]
  <2>1. consumer \in [Consumer -> Caller] /\ conn \in [Conn -> Connection]
    BY DEF IInv, Callers, Connections
  <2> QED BY <1>1, <2>1 DEF leave, Caller, Connection
<1>3. /\ m \in Caller /\ m.at = at /\ m.conn = None /\ m.seen = o.seen /\ m.resume = o.resume
  <2>1. <<>> \in Seq(Event) /\ 0 \in Ids
    BY BudgetAssumption DEF Ids
  <2> HIDE DEF o
  <2> QED BY <1>1, <2>1 DEF Caller, Outcomes
<1>4. t \in Connection /\ ConnFits(t) /\ t.job = s.job /\ t.at = s.at
  <2>1. <<>> \in Seq(Event)
    OBVIOUS
  <2>2. s \in Connection /\ t = [s EXCEPT !.up = FALSE, !.wire = <<>>]
    BY <1>1
  <2> HIDE DEF s, t
  <2>3. t \in Connection
    BY <2>1, <2>2 DEF Connection
  <2>4. t.job = s.job /\ t.at = s.at /\ t.live = s.live /\ t.hand = s.hand
    BY <2>2 DEF Connection
  <2> QED BY <1>1, <2>3, <2>4 DEF ConnFits
<1> HIDE DEF t, m
<1>5. /\ conn \in [Conn -> Connection] /\ \A d \in Conn : ConnFits(conn[d])
      /\ conn'[c] = t /\ \A d \in Conn : d # c => conn'[d] = conn[d]
  BY <1>1, <1>2 DEF IInv, Connections
<1>6. Connections'
  BY <1>2, <1>4, <1>5 DEF Connections, ConnFits
<1>7. Registered'
  <2>1. UNCHANGED <<registered, globalSubscribers>>
    BY DEF serverVars
  <2>2. s.at \in Serving => t.job = s.job /\ t.at \in Serving
    BY <1>4
  <2> HIDE DEF c
  <2> QED BY <1>1, <1>2, <2>1, <2>2, ServeRegistered DEF s
<1>8. \A l \in Consumer : l # k /\ consumer[l].conn # None =>
          /\ m.conn # consumer[l].conn
          /\ conn'[consumer[l].conn] = conn[consumer[l].conn]
  BY <1>3, <1>5, OwnConnection
<1>9. Follows(J, record[J], conn'[m.conn], m, registered[J])
  <2>1. Positioned(record[J], o)
    BY <1>1 DEF Follows
  <2>2. Positioned(record[J], m)
    BY <1>3, <2>1 DEF Positioned, Fresh
  <2> QED BY <1>3, <2>2 DEF Follows
<1>10. m.conn # None <=> m.at \in {"waiting", "reading"}
  BY <1>3
<1> QED BY <1>2, <1>3, <1>6, <1>7, <1>8, <1>9, <1>10, CallerKeeps DEF J

\* The caller alone takes a step, with its connection or without.
LEMMA AloneKeeps ==
    ASSUME IInv, NEW k \in Consumer, NEW m \in Caller, consumer' = [consumer EXCEPT ![k] = m],
           UNCHANGED <<serverVars, conn, losses>>, m.conn = consumer[k].conn,
           m.conn # None <=> m.at \in {"waiting", "reading"},
           Follows(Followed[k], record[Followed[k]], conn[m.conn], m, registered[Followed[k]])
    PROVE  IInv'
<1>1. Connections' /\ conn' = conn
  BY DEF IInv, Connections
<1>2. Registered'
  <2>1. UNCHANGED <<registered, globalSubscribers>>
    BY DEF serverVars
  <2>2. \A c \in Subscribed : conn'[c].job = conn[c].job /\ conn'[c].at \in Serving
    BY <1>1, AboutRegistered DEF Subscribed
  <2> QED BY <2>1, <2>2, RegisteredSame
<1>3. \A l \in Consumer : l # k /\ consumer[l].conn # None =>
          m.conn # consumer[l].conn /\ conn'[consumer[l].conn] = conn[consumer[l].conn]
  BY <1>1, OwnConnection
<1>4. UNCHANGED <<serverVars, losses>>
  OBVIOUS
<1> QED BY <1>1, <1>2, <1>3, <1>4, CallerKeeps

\* yield, after which the caller would resume behind the event it got.
LEMMA YieldKeeps ==
    ASSUME IInv, NEW k \in Consumer, yield(k)
    PROVE  IInv'
<1> DEFINE o == consumer[k]
           e == o.fed[1]
           m == [o EXCEPT !.fed = Tail(o.fed), !.seen = e.id, !.resume = e.id]
           J == Followed[k]
           r == record[J]
           s == conn[o.conn]
           R == registered[J]
           base == o.parsed - Len(o.fed)
<1>1. /\ o \in Caller /\ RingKept(r) /\ Follows(J, r, s, o, R)
      /\ o.at = "reading" /\ o.fed # <<>> /\ o.fed \in Seq(Event)
      /\ UNCHANGED <<serverVars, conn, losses>>
  BY AboutCaller, CallerNumbers DEF yield
<1>2. consumer' = [consumer EXCEPT ![k] = m]
  BY DEF yield, IInv, Callers
<1>3. /\ FedFits(r, o) /\ Answered(J, r, s, o) /\ (s.up => Continues(r, s, o, R))
  BY <1>1 DEF Follows
<1>4. /\ o.parsed \in Nat /\ Len(o.fed) \in Nat /\ base \in Int /\ r.seq \in Nat
  BY <1>1, CallerNumbers, OldestIs
<1>5. Run(r, o.fed, base)
  BY <1>3 DEF FedFits
<1>6. /\ Run(r, Tail(o.fed), base + 1) /\ e \in Event /\ e.id = base + 1 /\ base + 1 <= r.seq
      /\ Tail(o.fed) \in Seq(Event) /\ Len(Tail(o.fed)) = Len(o.fed) - 1
  <2>1. /\ Run(r, Tail(o.fed), base + 1) /\ e.id = base + 1 /\ base + 1 <= r.seq
    <3> HIDE DEF o, r, base
    <3> QED BY <1>1, <1>4, <1>5, RunTail
  <2>2. e \in Event /\ Tail(o.fed) \in Seq(Event) /\ Len(Tail(o.fed)) = Len(o.fed) - 1
    <3> HIDE DEF o, r, base
    <3> QED BY <1>1, <1>4, <1>5, RunTail
  <2> QED BY <2>1, <2>2
<1>7. e.id \in Ids /\ e.id \in Nat /\ e.id # None
  BY <1>6, BudgetAssumption, SMTT(20) DEF Event, Ids
<1>8. /\ m \in Caller /\ m.fed = Tail(o.fed) /\ m.seen = e.id /\ m.resume = e.id
      /\ m.at = "reading" /\ m.conn = o.conn /\ m.parsed = o.parsed /\ m.terminal = o.terminal
  <2> HIDE DEF o, e
  <2> QED BY <1>1, <1>6, <1>7 DEF Caller
<1> HIDE DEF m, o, e, r, s
<1>9. ~ Fresh(m) /\ ~ Expectant(m) /\ ~ Expectant(o)
  BY <1>1, <1>7, <1>8 DEF Fresh, Expectant
<1>10. Positioned(r, m)
  BY <1>6, <1>7, <1>8, <1>9 DEF Positioned
<1>11. FedFits(r, m)
  <2>1. m.parsed - Len(m.fed) = base + 1
    <3>1. \A a, b \in Nat : a - (b - 1) = a - b + 1
      OBVIOUS
    <3>2. m.parsed - Len(m.fed) = o.parsed - (Len(o.fed) - 1)
      BY <1>6, <1>8
    <3> QED BY <1>4, <3>1, <3>2
  <2>2. m.terminal => r.terminal /\ m.parsed = r.seq
    BY <1>3, <1>8 DEF FedFits
  <2> HIDE DEF base
  <2> QED BY <1>6, <1>8, <1>9, <2>1, <2>2 DEF FedFits
<1>12. Answered(J, r, s, m)
  BY <1>1, <1>3, <1>8 DEF Answered
<1>13. s.up => Continues(r, s, m, R)
  BY <1>3, <1>8, <1>9 DEF Continues
<1>14. Follows(J, r, s, m, R)
  BY <1>8, <1>10, <1>11, <1>12, <1>13 DEF Follows
<1>15. m.conn # None <=> m.at \in {"waiting", "reading"}
  BY <1>1, <1>8, OwnConnection DEF o
<1> QED BY <1>1, <1>2, <1>8, <1>14, <1>15, AloneKeeps DEF o, s, r

\* reconnect, and Job.refresh() of a caller that polls instead.
LEMMA ResumeKeeps ==
    ASSUME IInv, NEW k \in Consumer, reconnect(k) \/ poll(k)
    PROVE  IInv'
<1> DEFINE o == consumer[k]
           r == record[Followed[k]]
<1>1. /\ o \in Caller /\ RingKept(r) /\ Positioned(r, o)
      /\ o.at \in {"broken", "expired"} /\ o.conn = None
      /\ UNCHANGED <<serverVars, conn, losses>>
  BY AboutCaller, OwnConnection DEF reconnect, poll, Follows
<1>2. PICK at \in {"idle", "gone", "polled"}, resume \in {None, o.resume} :
          /\ consumer' = [consumer EXCEPT ![k] = [o EXCEPT !.at = at, !.resume = resume]]
          /\ resume # o.resume => o.at = "expired"
  <2>1. consumer \in [Consumer -> Caller]
    BY DEF IInv, Callers
  <2>2. CASE reconnect(k)
    <3>1. [o EXCEPT !.at = "idle"] = [o EXCEPT !.at = "idle", !.resume = o.resume]
      BY <1>1 DEF Caller
    <3> QED BY <2>1, <2>2, <3>1 DEF reconnect
  <2>3. CASE poll(k)
    BY <2>1, <2>3 DEF poll
  <2> QED BY <2>2, <2>3
<1> DEFINE m == [o EXCEPT !.at = at, !.resume = resume]
<1>3. /\ m \in Caller /\ m.at = at /\ m.resume = resume /\ m.seen = o.seen /\ m.conn = None
  <2>1. resume \in Ids \cup {None}
    BY <1>1 DEF Caller
  <2> HIDE DEF o
  <2> QED BY <1>1, <2>1 DEF Caller, Outcomes
<1> HIDE DEF m, o
<1>4. r.seq \in Nat /\ oldestKept(r) \in Nat /\ o.seen \in Nat
  BY <1>1, OldestIs, CallerNumbers
<1>5. Positioned(r, m)
  <2>1. Fresh(m) => m.seen < oldestKept(r)
    BY <1>1, <1>2, <1>3, <1>4 DEF Positioned, Fresh
  <2> QED BY <1>1, <1>2, <1>3, <2>1 DEF Positioned
<1>6. Follows(Followed[k], r, conn[m.conn], m, registered[Followed[k]])
  BY <1>3, <1>5 DEF Follows
<1>7. m.conn # None <=> m.at \in {"waiting", "reading"}
  BY <1>3
<1> QED BY <1>1, <1>2, <1>3, <1>6, <1>7, AloneKeeps DEF m, o

\* stream_status(): the caller reads, or learns why it may not.
LEMMA StatusKeeps ==
    ASSUME IInv, NEW k \in Consumer, streamStatus(k)
    PROVE  IInv'
<1> DEFINE o == consumer[k]
           m == [o EXCEPT !.at = "reading"]
           J == Followed[k]
           r == record[J]
           s == conn[o.conn]
           R == registered[J]
<1>1. /\ o \in Caller /\ RingKept(r) /\ Follows(J, r, s, o, R) /\ s \in Connection
      /\ o.at = "waiting" /\ s.answer # "none" /\ UNCHANGED <<serverVars, losses>>
  BY AboutCaller DEF streamStatus
<1>2. Answered(J, r, s, o) /\ FedFits(r, o) /\ Positioned(r, o) /\ (s.up => Continues(r, s, o, R))
  BY <1>1 DEF Follows
<1>3. s.answer \in {"200", "404", "409", "429"}
  BY <1>1, <1>2 DEF Connection, Answered
<1>4. CASE s.answer = "200"
  <2>1. consumer' = [consumer EXCEPT ![k] = m] /\ UNCHANGED conn
    BY <1>4 DEF streamStatus, IInv, Callers
  <2>2. /\ m \in Caller /\ m.at = "reading" /\ m.conn = o.conn /\ m.resume = o.resume
        /\ m.seen = o.seen /\ m.parsed = o.parsed /\ m.terminal = o.terminal /\ m.fed = o.fed
    BY <1>1 DEF Caller
  <2> HIDE DEF m, o, s, r
  <2>3. Positioned(r, m) /\ FedFits(r, m)
    BY <1>1, <1>2, <2>2 DEF Positioned, FedFits, Fresh, Expectant
  <2>4. Answered(J, r, s, m)
    BY <1>1, <1>2, <1>4, <2>2 DEF Answered, Fresh
  <2>5. s.up => Continues(r, s, m, R)
    BY <1>2, <2>2 DEF Continues, Fresh, Expectant
  <2>6. Follows(J, r, s, m, R)
    BY <2>3, <2>4, <2>5 DEF Follows
  <2>7. m.conn # None <=> m.at \in {"waiting", "reading"}
    BY <1>1, <2>2, OwnConnection DEF o
  <2>8. UNCHANGED <<serverVars, conn, losses>>
    BY <1>1, <2>1
  <2> QED BY <2>1, <2>2, <2>6, <2>7, <2>8, AloneKeeps DEF o, s, r
<1>5. CASE s.answer # "200"
  <2> DEFINE at == CASE s.answer = "404" -> "gone"    [] s.answer = "400" -> "invalid"
                     [] s.answer = "409" -> "expired" [] s.answer = "429" -> "idle"
  <2>1. leave(k, at)
    BY <1>5 DEF streamStatus
  <2>2. at \in {"gone", "expired", "idle"} /\ (at = "expired" => s.answer = "409")
    BY <1>3, <1>5
  <2>3. at = "expired" => ~ Fresh(o) /\ o.seen + 1 < oldestKept(r)
    BY <1>2, <2>2 DEF Answered
  <2> HIDE DEF at
  <2> QED BY <1>1, <2>1, <2>2, <2>3, LeaveKeeps
<1> QED BY <1>4, <1>5

\* The stream ends behind a terminal event, or breaks before one.
LEMMA StreamEndKeeps ==
    ASSUME IInv, NEW k \in Consumer, returns(k) \/ interrupted(k)
    PROVE  IInv'
<1>1. CASE returns(k)
  <2>1. /\ consumer[k].at = "reading" /\ leave(k, "complete") /\ UNCHANGED <<serverVars, losses>>
    BY <1>1 DEF returns
  <2> QED BY <2>1, LeaveKeeps
<1>2. CASE interrupted(k)
  <2>1. /\ consumer[k].at \in {"waiting", "reading"} /\ leave(k, "broken")
        /\ UNCHANGED <<serverVars, losses>>
    BY <1>2 DEF interrupted
  <2> QED BY <2>1, LeaveKeeps
<1> QED BY <1>1, <1>2

\* A request goes out on a connection nobody uses.
LEMMA ConnectKeeps ==
    ASSUME IInv, NEW k \in Consumer, connect(k)
    PROVE  IInv'
<1> DEFINE o == consumer[k]
           J == Followed[k]
           r == record[J]
           R == registered[J]
<1>1. PICK c \in Conn :
          /\ o.at = "idle" /\ unused(c)
          /\ conn' = [conn EXCEPT ![c] = [NoConnection EXCEPT
                 !.at = "request", !.job = J, !.asked = o.resume, !.up = TRUE]]
          /\ consumer' = [consumer EXCEPT ![k].at = "waiting", ![k].conn = c,
                              ![k].parsed = idOf(o.resume), ![k].terminal = FALSE,
                              ![k].fed = <<>>]
          /\ UNCHANGED <<serverVars, losses>>
  BY Zenon DEF connect
<1> DEFINE t == [NoConnection EXCEPT !.at = "request", !.job = J, !.asked = o.resume, !.up = TRUE]
           m == [o EXCEPT !.at = "waiting", !.conn = c, !.parsed = idOf(o.resume),
                          !.terminal = FALSE, !.fed = <<>>]
<1>2. /\ o \in Caller /\ RingKept(r) /\ Positioned(r, o) /\ J \in Job
  BY AboutCaller DEF Follows
<1>3. /\ o.resume \in Ids \cup {None} /\ o.seen \in Ids /\ Ids \subseteq Nat /\ 0 \in Ids
      /\ idOf(o.resume) \in Ids /\ r.seq \in Nat /\ oldestKept(r) \in Nat /\ None \notin Ids
  <2>1. Ids \subseteq Nat /\ 0 \in Ids /\ None \notin Ids
    BY BudgetAssumption DEF Ids
  <2> QED BY <1>2, <2>1, OldestIs DEF Caller, idOf
<1>4. consumer' = [consumer EXCEPT ![k] = m] /\ conn' = [conn EXCEPT ![c] = t]
  <2>1. consumer \in [Consumer -> Caller]
    BY DEF IInv, Callers
  <2> QED BY <1>1, <1>2, <2>1 DEF Caller
<1>5. /\ m \in Caller /\ m.at = "waiting" /\ m.conn = c /\ m.parsed = idOf(o.resume)
      /\ m.terminal = FALSE /\ m.fed = <<>> /\ m.resume = o.resume /\ m.seen = o.seen
  <2>1. <<>> \in Seq(Event)
    OBVIOUS
  <2> HIDE DEF o
  <2> QED BY <1>2, <1>3, <2>1 DEF Caller
<1>6. /\ t \in Connection /\ t.at = "request" /\ t.job = J /\ t.asked = o.resume /\ t.up = TRUE
      /\ t.answer = "none" /\ t.wire = <<>> /\ t.hand = <<>> /\ t.replay = <<>> /\ t.live = <<>>
  <2>1. <<>> \in Seq(Event)
    OBVIOUS
  <2>2. /\ NoConnection \in Connection /\ NoConnection.answer = "none"
        /\ NoConnection.wire = <<>> /\ NoConnection.hand = <<>>
        /\ NoConnection.replay = <<>> /\ NoConnection.live = <<>>
    BY <2>1 DEF NoConnection, Connection
  <2> HIDE DEF o, J
  <2> QED BY <1>2, <1>3, <2>2 DEF Connection
<1> HIDE DEF m, t, o, r
<1>7. ConnFits(t)
  <2>1. Len(<<>>) = 0 /\ maxFramesPerSubscriber \in Nat
    BY BudgetAssumption
  <2> QED BY <1>2, <1>6, <2>1 DEF ConnFits
<1>8. /\ conn \in [Conn -> Connection] /\ \A d \in Conn : ConnFits(conn[d])
      /\ conn'[c] = t /\ \A d \in Conn : d # c => conn'[d] = conn[d]
  BY <1>4 DEF IInv, Connections
<1>9. Connections'
  BY <1>4, <1>6, <1>7, <1>8 DEF Connections, ConnFits
<1>10. c \notin Subscribed
  BY <1>1, AboutRegistered DEF unused, Subscribed, Serving
<1>11. Registered'
  <2>1. UNCHANGED <<registered, globalSubscribers>>
    BY <1>1 DEF serverVars
  <2>2. \A d \in Subscribed : conn'[d].job = conn[d].job /\ conn'[d].at \in Serving
    BY <1>8, <1>10, AboutRegistered DEF Subscribed
  <2> QED BY <2>1, <2>2, RegisteredSame
<1>12. \A l \in Consumer : l # k /\ consumer[l].conn # None =>
           m.conn # consumer[l].conn /\ conn'[consumer[l].conn] = conn[consumer[l].conn]
  BY <1>1, <1>5, <1>8, OwnConnection DEF unused
<1>13. /\ Positioned(r, m)
       /\ ~ Fresh(m) => m.resume = m.seen /\ m.parsed = m.seen
       /\ Fresh(m) => m.parsed = 0
       /\ Fresh(m) <=> Expectant(m)
  BY <1>2, <1>3, <1>5 DEF Positioned, Fresh, Expectant, idOf
<1>14. FedFits(r, m)
  <2>1. Len(m.fed) = 0 /\ m.parsed - 0 = m.parsed
    <3>1. m.parsed \in Nat /\ Len(<<>>) = 0
      BY <1>3, <1>5
    <3> QED BY <1>5, <3>1
  <2>2. Run(r, m.fed, m.parsed)
    BY <1>5, RunEmpty
  <2> QED BY <1>5, <1>13, <2>1, <2>2 DEF FedFits
<1>15. carried(t) = 0
  BY <1>6 DEF carried
<1>16. Answered(J, r, t, m)
  BY <1>5, <1>6, <1>15 DEF Answered
<1>17. Continues(r, t, m, R)
  <2>1. Flows(r, t, m.seen)
    BY <1>6, RunEmpty DEF Flows
  <2>2. Expectant(m) => m.seen <= m.seen /\ m.seen < oldestKept(r)
    <3>1. m.seen \in Nat /\ (Fresh(m) => m.seen < oldestKept(r))
      BY <1>3, <1>5, <1>13 DEF Positioned
    <3> QED BY <1>13, <3>1
  <2>3. m.conn \notin R
    BY <1>2, <1>5, <1>10 DEF Subscribed
  <2> QED BY <1>3, <1>5, <1>13, <2>1, <2>2, <2>3 DEF Continues
<1>18. Follows(J, r, conn'[m.conn], m, R)
  BY <1>5, <1>8, <1>13, <1>14, <1>16, <1>17 DEF Follows
<1>19. m.conn # None <=> m.at \in {"waiting", "reading"}
  BY <1>5, BudgetAssumption
<1>20. UNCHANGED <<serverVars, losses>> /\ m \in Caller /\ consumer' = [consumer EXCEPT ![k] = m]
  BY <1>1, <1>4, <1>5
<1>21. Follows(Followed[k], record[Followed[k]], conn'[m.conn], m, registered[Followed[k]])
  BY <1>18 DEF r
<1> QED BY <1>9, <1>11, <1>12, <1>19, <1>20, <1>21, CallerKeeps

\* What feed() hands over is taken off the front of the wire, and the rest
\* continues it.
LEMMA FeedFlows ==
    ASSUME NEW r, NEW s \in Connection, NEW t, NEW w \in 1..Len(s.wire),
           t.wire = SubSeq(s.wire, w + 1, Len(s.wire)), t.hand = s.hand,
           t.replay = s.replay, t.live = s.live, NEW n \in Int, Flows(r, s, n)
    PROVE  Flows(r, t, n + w) /\ carried(t) = carried(s) - w
<1> DEFINE W == Len(s.wire)
           H == Len(s.hand)
           P == Len(s.replay)
           L == Len(s.live)
<1>1. /\ W \in Nat /\ H \in Nat /\ P \in Nat /\ L \in Nat /\ s.wire \in Seq(Event)
  BY ConnectionQueues
<1>2. Run(r, s.wire, n)
  BY DEF Flows
<1>3. Run(r, t.wire, n + w) /\ Len(t.wire) = W - w
  <2>1. Run(r, SubSeq(s.wire, w + 1, Len(s.wire)), n + w)
    BY <1>1, <1>2, RunSplit
  <2>2. Len(SubSeq(s.wire, w + 1, Len(s.wire))) = Len(s.wire) - w
    BY <1>1, <1>2, RunSplit
  <2> QED BY <2>1, <2>2
<1>4. n + w + (W - w) = n + W
  <2> HIDE DEF W
  <2> QED BY <1>1
<1>5. Flows(r, t, n + w)
  BY <1>3, <1>4 DEF Flows
<1>6. carried(t) = carried(s) - w
  <2>1. carried(t) = (W - w) + H + P + L /\ carried(s) = W + H + P + L
    BY <1>3 DEF carried
  <2> HIDE DEF W, H, P, L
  <2> QED BY <1>1, <2>1
<1> QED BY <1>5, <1>6

\* The frames of this server are increasing: feed() refuses none of them.
LEMMA FeedAccepts ==
    ASSUME NEW r, NEW s \in Seq(Event), NEW n \in Int, Run(r, s, n), NEW m \in 1..Len(s),
           NEW last \in Int, last <= n
    PROVE  increasing(last, SubSeq(s, 1, m))
<1> DEFINE f == SubSeq(s, 1, m)
<1>1. Run(r, f, n)
  BY RunSplit
<1>2. DOMAIN f = 1..m /\ m \in Nat
  <2>1. DOMAIN f = 1..m /\ Len(s) \in Nat
    BY RunSplit
  <2> QED BY <2>1
<1> HIDE DEF f
<1>3. ASSUME NEW i \in 1..m
      PROVE  accepts(f[i].id, IF i = 1 THEN last ELSE f[i - 1].id)
  <2>1. f[i].id = n + i
    BY <1>1, <1>2 DEF Run
  <2>2. CASE i = 1
    BY <2>1, <2>2 DEF accepts
  <2>3. CASE i # 1
    <3>1. i - 1 \in DOMAIN f
      BY <1>2, <2>3
    <3>2. f[i - 1].id = n + (i - 1)
      BY <1>1, <3>1 DEF Run
    <3> QED BY <2>1, <2>3, <3>2 DEF accepts
  <2> QED BY <2>2, <2>3
<1> QED BY <1>2, <1>3 DEF increasing, f

\* feed() parses the frames that have come, and the caller keeps its place.
LEMMA FeedKeeps ==
    ASSUME IInv, NEW k \in Consumer, feed(k)
    PROVE  /\ IInv'
           /\ \E m \in Caller : /\ consumer' = [consumer EXCEPT ![k] = m]
                                /\ m.at = "reading" /\ m.seen = consumer[k].seen
                                /\ m.resume = consumer[k].resume
<1> DEFINE o == consumer[k]
           c == o.conn
           s == conn[c]
           wire == s.wire
           J == Followed[k]
           r == record[J]
           R == registered[J]
<1>1. /\ o \in Caller /\ RingKept(r) /\ Follows(J, r, s, o, R)
      /\ o.at = "reading" /\ o.fed = <<>> /\ ~ o.terminal
      /\ c \in Conn /\ s \in Connection /\ ConnFits(s)
  BY AboutCaller DEF feed
<1>2. Answered(J, r, s, o) /\ FedFits(r, o) /\ Positioned(r, o)
  BY <1>1 DEF Follows
<1>3. PICK w \in 1..Len(wire) : \E m \in 1..w :
          /\ m = w \/ wire[m].last
          /\ IF increasing(o.parsed, SubSeq(wire, 1, m))
             THEN /\ consumer' = [consumer EXCEPT ![k].fed = SubSeq(wire, 1, m),
                                      ![k].parsed = wire[m].id,
                                      ![k].terminal = wire[m].last]
                  /\ conn' = [conn EXCEPT ![c].wire = SubSeq(@, w + 1, Len(@))]
             ELSE leave(k, "malformed")
  BY Zenon DEF feed
<1>4. PICK m \in 1..w :
          /\ m = w \/ wire[m].last
          /\ IF increasing(o.parsed, SubSeq(wire, 1, m))
             THEN /\ consumer' = [consumer EXCEPT ![k].fed = SubSeq(wire, 1, m),
                                      ![k].parsed = wire[m].id,
                                      ![k].terminal = wire[m].last]
                  /\ conn' = [conn EXCEPT ![c].wire = SubSeq(@, w + 1, Len(@))]
             ELSE leave(k, "malformed")
  BY <1>3, Zenon
<1>5. wire \in Seq(Event) /\ Len(wire) \in Nat /\ w \in Nat \ {0} /\ m \in 1..Len(wire)
  <2>1. wire \in Seq(Event) /\ Len(wire) \in Nat
    BY <1>1, ConnectionQueues
  <2> HIDE DEF wire
  <2> QED BY <2>1
<1>6. s.up
  <2>1. wire # <<>>
    <3>1. Len(wire) # 0 /\ Len(<<>>) = 0
      BY <1>5
    <3> HIDE DEF wire
    <3> QED BY <3>1
  <2> QED BY <1>2, <2>1 DEF Answered
<1>7. PICK n \in Ids :
          /\ Flows(r, s, n)
          /\ ~ Expectant(o) => n = o.parsed
          /\ Expectant(o) => o.seen <= n /\ n < oldestKept(r)
          /\ o.conn \in R /\ ~ s.closed => n + carried(s) = r.seq
  BY <1>1, <1>6 DEF Follows, Continues
<1>8. /\ n \in Nat /\ o.parsed \in Nat /\ o.seen \in Nat /\ r.seq \in Nat /\ carried(s) \in Nat
      /\ oldestKept(r) \in Nat
  BY <1>1, <1>7, OldestIs, CallerNumbers, ConnectionQueues
<1>9. Run(r, wire, n)
  BY <1>7 DEF Flows
<1> HIDE DEF o, c, s, wire, r, J, R
<1>10. o.parsed <= n
  BY <1>2, <1>7, <1>8 DEF FedFits
<1>11. increasing(o.parsed, SubSeq(wire, 1, m))
  BY <1>5, <1>8, <1>9, <1>10, FeedAccepts
<1> DEFINE f == SubSeq(wire, 1, m)
<1>12. /\ Run(r, f, n) /\ f \in Seq(Event) /\ Len(f) = m
  <2>1. wire \in Seq(Event) /\ n \in Int /\ m \in 1..Len(wire)
    BY <1>5, <1>8
  <2>2. Run(r, f, n)
    BY <1>9, <2>1, RunSplit
  <2>3. f \in Seq(Event) /\ Len(f) = m
    BY <1>9, <2>1, RunSplit
  <2> QED BY <2>2, <2>3
<1>13. /\ wire[m] \in Event /\ wire[m].id = n + m /\ n + m <= r.seq
       /\ wire[m].last => r.terminal /\ n + m = r.seq
  <2>1. wire \in Seq(Event) /\ n \in Int /\ m \in 1..Len(wire)
    BY <1>5, <1>8
  <2>2. wire[m] \in Event /\ wire[m].id = n + m /\ n + m <= r.seq
    BY <1>9, <2>1, RunSplit
  <2>3. wire[m].last => r.terminal /\ n + m = r.seq
    BY <1>9, <2>1, RunSplit
  <2> QED BY <2>2, <2>3
<1>14. m = w
  <2>1. n + w <= r.seq
    <3>1. w \in 1..Len(wire)
      BY <1>3
    <3> QED BY <1>5, <1>8, <1>9, <3>1, RunSplit
  <2> QED BY <1>4, <1>5, <1>8, <1>13, <2>1
<1> DEFINE e == wire[m]
           q == [o EXCEPT !.fed = f, !.parsed = e.id, !.terminal = e.last]
           rest == SubSeq(wire, w + 1, Len(wire))
           t == [s EXCEPT !.wire = rest]
<1>15. rest \in Seq(Event)
  <2>1. w \in 1..Len(wire)
    BY <1>3
  <2> QED BY <1>5, <1>8, <1>9, <2>1, RunSplit
<1> HIDE DEF f, rest
<1>16. consumer' = [consumer EXCEPT ![k] = q] /\ conn' = [conn EXCEPT ![c] = t]
  <2>1. consumer \in [Consumer -> Caller] /\ conn \in [Conn -> Connection]
    BY DEF IInv, Callers, Connections
  <2>2. /\ consumer' = [consumer EXCEPT ![k].fed = f, ![k].parsed = e.id, ![k].terminal = e.last]
        /\ conn' = [conn EXCEPT ![c].wire = SubSeq(@, w + 1, Len(@))]
    BY <1>4, <1>11 DEF f
  <2>3. consumer' = [consumer EXCEPT ![k] = q]
    <3>1. o = consumer[k]
      BY DEF o
    <3> QED BY <1>1, <2>1, <2>2, <3>1 DEF Caller
  <2>4. conn' = [conn EXCEPT ![c] = t]
    BY <1>1, <2>1, <2>2 DEF rest, s, wire
  <2> QED BY <2>3, <2>4
<1>17. /\ e \in Event /\ e.id \in Ids /\ e.last \in BOOLEAN /\ e.id = n + m
  <2>1. e \in Event
    BY <1>13
  <2> HIDE DEF e
  <2>2. e.id \in Ids /\ e.last \in BOOLEAN
    BY <2>1, BudgetAssumption DEF Event, Ids
  <2> QED BY <1>13, <2>1, <2>2 DEF e
<1> HIDE DEF e
<1>18. /\ q \in Caller /\ q.fed = f /\ q.parsed = e.id /\ q.terminal = e.last
       /\ q.at = "reading" /\ q.conn = c /\ q.seen = o.seen /\ q.resume = o.resume
  <2>1. o.conn = c
    BY DEF c
  <2> QED BY <1>1, <1>12, <1>17, <2>1 DEF Caller
<1>19. /\ t \in Connection /\ t.wire = rest /\ t.hand = s.hand /\ t.replay = s.replay
       /\ t.live = s.live /\ t.closed = s.closed
  BY <1>1, <1>15 DEF Connection
<1>20. t.at = s.at /\ t.up = s.up /\ t.job = s.job /\ t.answer = s.answer
  BY <1>1, <1>15 DEF Connection
<1> HIDE DEF q, t
<1>21. ConnFits(t)
  BY <1>1, <1>19, <1>20 DEF ConnFits
<1>22. Flows(r, t, n + w) /\ carried(t) = carried(s) - w
  <2>1. w \in 1..Len(s.wire) /\ t.wire = SubSeq(s.wire, w + 1, Len(s.wire))
    BY <1>3, <1>19 DEF rest, wire
  <2>2. s \in Connection /\ n \in Int /\ Flows(r, s, n)
    BY <1>1, <1>7, <1>8
  <2>3. t.hand = s.hand /\ t.replay = s.replay /\ t.live = s.live
    BY <1>19
  <2> QED BY <2>1, <2>2, <2>3, FeedFlows
<1>23. /\ f # <<>> /\ ~ Expectant(q) /\ (Fresh(q) <=> Fresh(o)) /\ (Fresh(o) <=> Expectant(o))
  <2>1. f # <<>>
    <3>1. Len(<<>>) = 0 /\ m # 0
      BY <1>5
    <3> QED BY <1>12, <3>1
  <2> QED BY <1>1, <1>18, <2>1 DEF Expectant, Fresh
<1>24. Positioned(r, q)
  BY <1>2, <1>18, <1>23 DEF Positioned
<1>25. FedFits(r, q)
  <2>1. q.parsed - Len(q.fed) = n
    <3>1. q.parsed = n + m /\ Len(q.fed) = m /\ m \in Nat
      BY <1>5, <1>12, <1>17, <1>18
    <3>2. \A a, b, x, y : a \in Int /\ b \in Int /\ x = a + b /\ y = b => x - y = a
      OBVIOUS
    <3> QED BY <1>8, <3>1, <3>2
  <2>2. ~ Fresh(q) => n = q.seen
    <3>1. Len(o.fed) = 0 /\ o.parsed - 0 = o.parsed
      BY <1>1, <1>8, CallerNumbers
    <3>2. ~ Fresh(o) => o.parsed = o.seen
      BY <1>2, <3>1 DEF FedFits
    <3> QED BY <1>7, <1>18, <1>23, <3>2
  <2>3. Fresh(q) => q.seen <= n /\ n < oldestKept(r)
    BY <1>7, <1>18, <1>23
  <2>4. q.terminal => r.terminal /\ q.parsed = r.seq
    BY <1>13, <1>17, <1>18 DEF e
  <2> QED BY <1>12, <1>18, <1>23, <2>1, <2>2, <2>3, <2>4 DEF FedFits
<1>26. Answered(J, r, t, q)
  <2>1. t.at # "request"
    BY <1>1, <1>2, <1>20 DEF Answered
  <2>2. s.up /\ t.up
    BY <1>6, <1>20
  <2> QED BY <1>1, <1>2, <1>18, <1>20, <1>23, <2>1, <2>2 DEF Answered
<1>27. Continues(r, t, q, R)
  <2>1. n + w \in Ids /\ n + w = q.parsed
    BY <1>14, <1>17, <1>18
  <2>2. q.conn \in R /\ ~ t.closed => n + w + carried(t) = r.seq
    <3>1. n + w + (carried(s) - w) = n + carried(s)
      BY <1>5, <1>8
    <3> QED BY <1>7, <1>18, <1>19, <1>22, <3>1 DEF c
  <2> QED BY <1>22, <1>23, <2>1, <2>2 DEF Continues
<1>28. Follows(J, r, t, q, R)
  BY <1>24, <1>25, <1>26, <1>27 DEF Follows
<1>29. /\ conn \in [Conn -> Connection] /\ \A d \in Conn : ConnFits(conn[d])
       /\ conn'[c] = t /\ \A d \in Conn : d # c => conn'[d] = conn[d]
  BY <1>1, <1>16 DEF IInv, Connections
<1>30. Connections'
  BY <1>16, <1>19, <1>21, <1>29 DEF Connections, ConnFits
<1>31. UNCHANGED <<serverVars, losses>>
  BY DEF feed
<1>32. Registered'
  <2>1. UNCHANGED <<registered, globalSubscribers>>
    BY <1>31 DEF serverVars
  <2>2. conn[c].at \in Serving => t.job = conn[c].job /\ t.at \in Serving
    BY <1>20 DEF s
  <2> QED BY <1>1, <1>16, <2>1, <2>2, ServeRegistered
<1>33. \A l \in Consumer : l # k /\ consumer[l].conn # None =>
           q.conn # consumer[l].conn /\ conn'[consumer[l].conn] = conn[consumer[l].conn]
  BY <1>18, <1>29, OwnConnection DEF c, o
<1>34. q.conn # None <=> q.at \in {"waiting", "reading"}
  BY <1>1, <1>18, BudgetAssumption
<1>35. Follows(Followed[k], record[Followed[k]], conn'[q.conn], q, registered[Followed[k]])
  BY <1>18, <1>28, <1>29 DEF J, r, R
<1>36. IInv'
  BY <1>16, <1>18, <1>30, <1>31, <1>32, <1>33, <1>34, <1>35, CallerKeeps
<1> QED BY <1>16, <1>18, <1>36 DEF o

-----------------------------------------------------------------------------
(* The invariant holds, and what follows from it.                          *)

\* Every job has its job.queued event, nobody has asked for anything.
LEMMA InitInvariant == Init => IInv
<1> SUFFICES ASSUME Init
             PROVE  IInv
  OBVIOUS
<1> DEFINE e == [id |-> 1, last |-> FALSE]
<1>1. RingKept(NewRecord) /\ NewRecord.seq = 1 /\ oldestKept(NewRecord) = 1
  <2>1. e \in Event /\ e.id = 1 /\ e.last = FALSE
    BY BudgetAssumption DEF Event
  <2> HIDE DEF e
  <2>2. <<e>> \in Seq(Event) /\ Len(<<e>>) = 1 /\ DOMAIN <<e>> = {1} /\ <<e>>[1] = e /\ <<e>> # <<>>
    BY <2>1
  <2>3. /\ NewRecord.known = TRUE /\ NewRecord.terminal = FALSE /\ NewRecord.seq = 1
        /\ NewRecord.ring = <<e>>
    BY DEF NewRecord, e
  <2>4. NewRecord \in Record
    <3>1. 1 \in 1..MaxEvents
      BY BudgetAssumption
    <3>2. NewRecord = [known |-> TRUE, terminal |-> FALSE, seq |-> 1, ring |-> <<e>>]
      BY DEF NewRecord, e
    <3> QED BY <2>2, <3>1, <3>2 DEF Record
  <2>5. 1 <= maxEventsPerJob /\ 1 < MaxEvents
    BY BudgetAssumption
  <2>6. RingKept(NewRecord)
    <3>1. \A i \in DOMAIN NewRecord.ring :
              /\ NewRecord.ring[i].id = NewRecord.seq - Len(NewRecord.ring) + i
              /\ NewRecord.ring[i].last => NewRecord.terminal /\ i = Len(NewRecord.ring)
      BY <2>1, <2>2, <2>3
    <3> QED BY <2>2, <2>3, <2>4, <2>5, <3>1 DEF RingKept
  <2> QED BY <2>1, <2>2, <2>3, <2>6 DEF oldestKept
<1>2. ConnFits(NoConnection) /\ NoConnection \in Connection
  <2>1. <<>> \in Seq(Event) /\ Len(<<>>) = 0 /\ maxFramesPerSubscriber \in Nat
    BY BudgetAssumption
  <2>2. NoConnection \in Connection
    BY <2>1 DEF NoConnection, Connection
  <2> QED BY <2>1, <2>2 DEF NoConnection, ConnFits, Serving
<1>3. /\ record = [j \in Job |-> NewRecord] /\ registered = [j \in Job |-> {}]
      /\ globalSubscribers = 0 /\ shutdownDone = FALSE
      /\ conn = [c \in Conn |-> NoConnection] /\ losses = 0
      /\ consumer \in [Consumer -> {NewConsumer(None), NewConsumer(0)}]
  BY DEF Init
<1>4. ASSUME NEW id \in {None, 0}, NEW m, m = NewConsumer(id)
      PROVE  /\ m \in Caller /\ m.at = "idle" /\ m.conn = None /\ m.seen = 0
             /\ m.resume \in {None, m.seen}
  <2>1. <<>> \in Seq(Event) /\ 0 \in Ids
    BY BudgetAssumption DEF Ids
  <2> QED BY <1>4, <2>1 DEF NewConsumer, Caller
<1>5. \A k \in Consumer : /\ consumer[k] \in Caller /\ consumer[k].at = "idle"
                          /\ consumer[k].conn = None /\ consumer[k].seen = 0
                          /\ consumer[k].resume \in {None, consumer[k].seen}
  <2> TAKE k \in Consumer
  <2>1. consumer[k] \in {NewConsumer(None), NewConsumer(0)}
    BY <1>3
  <2> QED BY <1>4, <2>1
<1> HIDE DEF e
<1>6. Plain
  <2>1. MaxLosses \in Nat
    BY BudgetAssumption
  <2>2. losses \in 0..MaxLosses
    BY <1>3, <2>1
  <2>3. globalSubscribers \in Nat /\ shutdownDone \in BOOLEAN
    BY <1>3
  <2> QED BY <2>2, <2>3 DEF Plain
<1>7. Connections
  BY <1>2, <1>3 DEF Connections
<1>8. RingsKept
  BY <1>1, <1>3 DEF RingsKept, RingKept
<1>9. Registered
  <2>1. Subscribed = {} /\ \A j \in Job : registered[j] = {}
    BY <1>3 DEF Subscribed
  <2>2. /\ IsFiniteSet({}) /\ Cardinality({}) = 0
        /\ 0 <= maxSubscribersPerJob /\ 0 <= maxGlobalSubscribers
    BY FS_EmptySet, BudgetAssumption
  <2> QED BY <1>3, <2>1, <2>2 DEF Registered, SubscribersAccounted
<1>10. Callers
  <2>1. consumer \in [Consumer -> Caller]
    BY <1>3, <1>5
  <2> QED BY <1>5, <2>1 DEF Callers
<1>11. Served
  <2> SUFFICES ASSUME NEW k \in Consumer
               PROVE  Follows(Followed[k], record[Followed[k]], conn[consumer[k].conn],
                              consumer[k], registered[Followed[k]])
    BY DEF Served
  <2>1. Followed[k] \in Job /\ record[Followed[k]] = NewRecord
    BY <1>3, BudgetAssumption
  <2>2. Positioned(NewRecord, consumer[k])
    BY <1>1, <1>5 DEF Positioned, Fresh
  <2> QED BY <1>5, <2>1, <2>2 DEF Follows
<1> QED BY <1>6, <1>7, <1>8, <1>9, <1>10, <1>11 DEF IInv

\* Every step of the registry, of a serving thread, of a caller and every
\* fault keeps it.
LEMMA NextInvariant == IInv /\ [Next]_vars => IInv'
<1> SUFFICES ASSUME IInv, [Next]_vars
             PROVE  IInv'
  OBVIOUS
<1>1. ASSUME NEW j \in Job, progress(j) \/ finish(j)
      PROVE  IInv'
  <2>1. emitLocked(j, TRUE) \/ emitLocked(j, FALSE)
    BY <1>1 DEF progress, finish
  <2> QED BY <2>1, EmitKeeps
<1>2. ASSUME NEW j \in Job, removeRetainedLocked(j)
      PROVE  IInv'
  BY <1>2, ForgetKeeps
<1>3. CASE shutdown
  BY <1>3, ShutdownKeeps
<1>4. CASE restart
  BY <1>4, RestartKeeps
<1>5. ASSUME NEW c \in Conn, subscribe(c)
      PROVE  IInv'
  BY <1>5, SubscribeKeeps
<1>6. ASSUME NEW c \in Conn, server(c)
      PROVE  IInv'
  <2>1. CASE nextEvent(c) \/ nextClosed(c) \/ heartbeat(c) \/ write(c) \/ writeFails(c)
    BY <2>1, ServingKeeps
  <2>2. CASE close(c)
    BY <2>2, CloseKeeps
  <2>3. CASE complete(c)
    BY <2>3, EndKeeps
  <2> QED BY <1>6, <2>1, <2>2, <2>3 DEF server
<1>7. ASSUME NEW c \in Conn, lose(c)
      PROVE  IInv'
  BY <1>7, EndKeeps
<1>8. ASSUME NEW k \in Consumer, client(k)
      PROVE  IInv'
  <2>1. CASE connect(k)
    BY <2>1, ConnectKeeps
  <2>2. CASE streamStatus(k)
    BY <2>2, StatusKeeps
  <2>3. CASE feed(k)
    BY <2>3, FeedKeeps
  <2>4. CASE yield(k)
    BY <2>4, YieldKeeps
  <2>5. CASE returns(k) \/ interrupted(k)
    BY <2>5, StreamEndKeeps
  <2>6. CASE reconnect(k) \/ poll(k)
    BY <2>6, ResumeKeeps
  <2> QED BY <1>8, <2>1, <2>2, <2>3, <2>4, <2>5, <2>6 DEF client
<1>9. CASE UNCHANGED vars
  <2>1. UNCHANGED <<record, registered, globalSubscribers, shutdownDone, conn, consumer, losses>>
    BY <1>9 DEF vars, serverVars
  <2>2. Plain' /\ Connections' /\ RingsKept' /\ Callers' /\ Served'
    BY <2>1 DEF IInv, Plain, Connections, RingsKept, Callers, Served
  <2>3. Registered'
    BY <2>1 DEF IInv, Registered, Subscribed, SubscribersAccounted
  <2> QED BY <2>2, <2>3 DEF IInv
<1> QED BY <1>1, <1>2, <1>3, <1>4, <1>5, <1>6, <1>7, <1>8, <1>9 DEF Next

\* At any moment what a connection carries continues what its caller has,
\* up to the newest event of the job while the subscription is open.
THEOREM Invariance == Spec => []IInv
BY InitInvariant, NextInvariant, PTL DEF Spec

\* Rings, buffers and the hand of a serving thread stay within their bounds,
\* and the parser's numbers within those of the events.
THEOREM TypeCorrect == Spec => []TypeOK
<1>1. IInv => TypeOK
  <2> SUFFICES ASSUME IInv
               PROVE  TypeOK
    OBVIOUS
  <2>1. \A j \in Job : Len(record[j].ring) <= maxEventsPerJob
    BY DEF IInv, RingsKept, RingKept
  <2>2. \A c \in Conn : Len(conn[c].live) <= maxFramesPerSubscriber /\ Len(conn[c].hand) <= 1
    <3> TAKE c \in Conn
    <3>1. ConnFits(conn[c])
      BY DEF IInv, Connections
    <3>2. conn[c].hand = <<>> \/ Len(conn[c].hand) = 1
      BY <3>1 DEF ConnFits
    <3>3. Len(<<>>) <= 1 /\ 1 <= 1
      OBVIOUS
    <3>4. Len(conn[c].hand) <= 1
      BY <3>2, <3>3
    <3> QED BY <3>1, <3>4 DEF ConnFits
  <2>3. /\ record \in [Job -> Record] /\ registered \in [Job -> SUBSET Conn]
        /\ conn \in [Conn -> Connection] /\ consumer \in [Consumer -> Caller]
        /\ globalSubscribers \in Nat /\ shutdownDone \in BOOLEAN /\ losses \in 0..MaxLosses
    BY DEF IInv, Plain, Connections, RingsKept, Registered, Callers
  <2> QED BY <2>1, <2>2, <2>3 DEF TypeOK
<1> QED BY <1>1, Invariance, PTL

\* globalSubscribers counts the registered subscriptions on every path of
\* subscribe(), close(), removeRetainedLocked(), shutdown() and restart.
THEOREM SubscribersExact == Spec => []SubscribersAccounted
<1>1. IInv => SubscribersAccounted
  BY DEF IInv, Registered
<1> QED BY <1>1, Invariance, PTL

-----------------------------------------------------------------------------
(* What callers get is what EventFeed promises.                            *)

FeedSteps == [Feed!Next]_(Feed!vars)

\* The history of every job goes on, by an event at most.
LEMMA JobsGo ==
    ASSUME IInv, UNCHANGED consumer,
           \A j \in Job :
               /\ Grows(record[j], record'[j])
               /\ \/ record'[j].seq = record[j].seq /\ record'[j].terminal = record[j].terminal
                  \/ record'[j].seq = record[j].seq + 1 /\ record[j].known /\ ~ record[j].terminal
    PROVE  FeedSteps
<1>1. \A j \in Job : record[j].terminal \in BOOLEAN /\ record[j].known \in BOOLEAN /\ record[j].seq \in Nat
  BY OldestIs DEF IInv, RingsKept, Record
<1>2. \A j \in Job : /\ record'[j].seq \in {record[j].seq, record[j].seq + 1}
                     /\ oldestKept(record'[j]) >= oldestKept(record[j])
                     /\ record[j].terminal \/ ~ record[j].known => record'[j].seq = record[j].seq
                     /\ record'[j].terminal /\ ~ record[j].terminal =>
                            record'[j].seq = record[j].seq + 1
                     /\ record[j].terminal => record'[j].terminal
                     /\ ~ record[j].known => ~ record'[j].known
  BY <1>1 DEF Grows
<1>3. Feed!Jobs
  BY <1>2 DEF Feed!Jobs
<1> QED BY <1>3 DEF FeedSteps, Feed!Next

\* Steps that neither the jobs nor what callers have can be told from.
LEMMA FeedStutters ==
    ASSUME UNCHANGED <<record, consumer>>
    PROVE  FeedSteps
<1>1. UNCHANGED Feed!vars
  BY DEF Feed!vars, Feed!jobVars
<1> QED BY <1>1 DEF FeedSteps

\* ... and steps of a caller that leave it where it is in the history.
LEMMA CallerStutters ==
    ASSUME NEW k \in Consumer, UNCHANGED record,
           consumer'[k].at \notin Outcomes, consumer[k].at \notin Outcomes,
           consumer'[k].seen = consumer[k].seen, consumer'[k].resume = consumer[k].resume,
           \A l \in Consumer : l # k => consumer'[l] = consumer[l]
    PROVE  FeedSteps
<1>1. [l \in Consumer |-> consumer'[l].seen] = [l \in Consumer |-> consumer[l].seen]
  OBVIOUS
<1>2. {l \in Consumer : consumer'[l].resume = None} = {l \in Consumer : consumer[l].resume = None}
  OBVIOUS
<1>3. [l \in Consumer |-> IF consumer'[l].at \in Outcomes THEN consumer'[l].at ELSE "following"]
          = [l \in Consumer |-> IF consumer[l].at \in Outcomes THEN consumer[l].at ELSE "following"]
  OBVIOUS
<1>4. UNCHANGED Feed!vars
  BY <1>1, <1>2, <1>3 DEF Feed!vars, Feed!jobVars
<1> QED BY <1>4 DEF FeedSteps

\* emitLocked(), removeRetainedLocked(), shutdown() and restart.
LEMMA RegistryFeeds ==
    ASSUME IInv,
           \/ \E j \in Job : progress(j) \/ finish(j) \/ removeRetainedLocked(j)
           \/ shutdown \/ restart
    PROVE  FeedSteps
<1>1. record \in [Job -> Record] /\ \A j \in Job : RingKept(record[j]) /\ Grows(record[j], record[j])
  BY SameGrows DEF IInv, RingsKept
<1>2. ASSUME NEW j \in Job, NEW last \in BOOLEAN, emitLocked(j, last)
      PROVE  FeedSteps
  <2> DEFINE r == record[j]
             q == nextRecord(r, last)
  <2>1. /\ r.known /\ ~ r.terminal /\ r.seq < (IF last THEN MaxEvents ELSE MaxEvents - 1)
        /\ record' = [record EXCEPT ![j] = q] /\ UNCHANGED consumer
    BY <1>2 DEF emitLocked
  <2>2. Grows(r, q) /\ q.seq = r.seq + 1
    <3> HIDE DEF r
    <3>1. RingKept(r)
      BY <1>1 DEF r
    <3> QED BY <2>1, <3>1, NextRecordGrows
  <2> HIDE DEF q
  <2>3. \A i \in Job : record'[i] = IF i = j THEN q ELSE record[i]
    BY <1>1, <2>1
  <2>4. \A i \in Job :
            /\ Grows(record[i], record'[i])
            /\ \/ record'[i].seq = record[i].seq /\ record'[i].terminal = record[i].terminal
               \/ record'[i].seq = record[i].seq + 1 /\ record[i].known /\ ~ record[i].terminal
    BY <1>1, <2>1, <2>2, <2>3
  <2> QED BY <2>1, <2>4, JobsGo
<1>3. ASSUME NEW j \in Job, removeRetainedLocked(j)
      PROVE  FeedSteps
  <2> DEFINE q == forgotten(record[j])
  <2>1. record' = [record EXCEPT ![j] = q] /\ UNCHANGED consumer
    BY <1>1, <1>3 DEF removeRetainedLocked, forgotten
  <2>2. Grows(record[j], q) /\ q.seq = record[j].seq /\ q.terminal = record[j].terminal
    BY <1>1, ForgottenGrows
  <2> HIDE DEF q
  <2>3. \A i \in Job : record'[i] = IF i = j THEN q ELSE record[i]
    BY <1>1, <2>1
  <2>4. \A i \in Job :
            /\ Grows(record[i], record'[i])
            /\ record'[i].seq = record[i].seq /\ record'[i].terminal = record[i].terminal
    BY <1>1, <2>2, <2>3
  <2> QED BY <2>1, <2>4, JobsGo
<1>4. CASE shutdown
  <2> DEFINE alive == {j \in Job : record[j].known /\ ~ record[j].terminal}
  <2>1. PICK queued \in SUBSET alive :
            /\ \A j \in alive \ queued : record[j].seq < MaxEvents - 1
            /\ record' = [j \in Job |-> IF j \in alive THEN nextRecord(record[j], j \in queued)
                                        ELSE record[j]]
            /\ UNCHANGED consumer
    BY <1>4 DEF shutdown
  <2>2. ASSUME NEW j \in Job
        PROVE  /\ Grows(record[j], record'[j])
               /\ \/ record'[j].seq = record[j].seq /\ record'[j].terminal = record[j].terminal
                  \/ record'[j].seq = record[j].seq + 1 /\ record[j].known /\ ~ record[j].terminal
    <3>1. CASE j \in alive
      <4> DEFINE r == record[j]
                 last == j \in queued
                 q == nextRecord(r, last)
      <4>1. /\ RingKept(r) /\ r.known /\ ~ r.terminal /\ last \in BOOLEAN /\ record'[j] = q
        BY <1>1, <2>1, <3>1
      <4>2. r.seq < (IF last THEN MaxEvents ELSE MaxEvents - 1)
        BY <1>1, <2>1, <3>1 DEF RingKept
      <4> HIDE DEF r, last
      <4>3. Grows(r, q) /\ q.seq = r.seq + 1
        BY <4>1, <4>2, NextRecordGrows
      <4> QED BY <4>1, <4>3 DEF r
    <3>2. CASE j \notin alive
      BY <1>1, <2>1, <3>2
    <3> QED BY <3>1, <3>2
  <2> QED BY <2>1, <2>2, JobsGo
<1>5. CASE restart
  <2>1. record' = [j \in Job |-> forgotten(record[j])]
    BY <1>5, Zenon DEF restart, forgotten
  <2>2. ASSUME NEW j \in Job
        PROVE  /\ Grows(record[j], record'[j])
               /\ record'[j].seq = record[j].seq /\ record'[j].terminal = record[j].terminal
    <3> DEFINE r == record[j]
               q == forgotten(r)
    <3>1. RingKept(r) /\ record'[j] = q
      BY <1>1, <2>1
    <3> HIDE DEF r
    <3>2. Grows(r, q) /\ q.seq = r.seq /\ q.terminal = r.terminal
      BY <3>1, ForgottenGrows
    <3> QED BY <3>1, <3>2 DEF r
  <2>3. UNCHANGED consumer
    BY <1>5, Zenon DEF restart
  <2> QED BY <2>2, <2>3, JobsGo
<1> QED BY <1>2, <1>3, <1>4, <1>5 DEF progress, finish

\* yield delivers the next event, or to a caller that asked for whatever is
\* kept, one before which nothing is kept.
LEMMA YieldFeeds ==
    ASSUME IInv, NEW k \in Consumer, yield(k)
    PROVE  FeedSteps
<1> DEFINE o == consumer[k]
           e == o.fed[1]
           J == Followed[k]
           r == record[J]
           base == o.parsed - Len(o.fed)
           m == [o EXCEPT !.fed = Tail(o.fed), !.seen = e.id, !.resume = e.id]
<1>1. /\ o \in Caller /\ RingKept(r) /\ Follows(J, r, conn[o.conn], o, registered[J])
      /\ o.at = "reading" /\ o.fed # <<>> /\ o.fed \in Seq(Event) /\ J \in Job
  BY AboutCaller, CallerNumbers DEF yield
<1>2. /\ consumer \in [Consumer -> Caller] /\ consumer' = [consumer EXCEPT ![k] = m]
      /\ UNCHANGED record
  BY DEF yield, IInv, Callers, serverVars
<1>3. FedFits(r, o)
  BY <1>1 DEF Follows
<1>4. base \in Int /\ r.seq \in Nat /\ o.seen \in Nat /\ oldestKept(r) \in Nat
  <2> HIDE DEF o, r
  <2>1. o.parsed \in Nat /\ Len(o.fed) \in Nat /\ o.seen \in Nat
    BY <1>1, CallerNumbers
  <2>2. r.seq \in Nat /\ oldestKept(r) \in Nat
    BY <1>1, OldestIs
  <2> QED BY <2>1, <2>2
<1>5. Run(r, o.fed, base)
  BY <1>3 DEF FedFits
<1>6. e.id = base + 1 /\ base + 1 <= r.seq /\ e \in Event
  <2> HIDE DEF o, r, base
  <2> QED BY <1>1, <1>4, <1>5, RunTail
<1>7. e.id \in Nat /\ e.id # None
  BY <1>6, BudgetAssumption DEF Event
<1>8. m.seen = e.id /\ m.resume = e.id /\ m.at = "reading"
  BY <1>1 DEF Caller
<1>9. /\ e.id \in o.seen + 1 .. r.seq
      /\ \A missed \in o.seen + 1 .. e.id - 1 : Fresh(o) /\ missed < oldestKept(r)
  <2>1. CASE Fresh(o)
    <3>1. o.seen <= base /\ base < oldestKept(r)
      BY <1>1, <1>3, <2>1 DEF FedFits, Expectant
    <3> HIDE DEF o, r, base, e
    <3> QED BY <1>4, <1>6, <1>7, <2>1, <3>1
  <2>2. CASE ~ Fresh(o)
    <3>1. base = o.seen
      BY <1>3, <2>2 DEF FedFits
    <3> HIDE DEF o, r, base, e
    <3> QED BY <1>4, <1>6, <1>7, <3>1
  <2> QED BY <2>1, <2>2
<1> DEFINE id == e.id
<1>10. /\ consumer'[k].seen = id /\ consumer'[k].resume # None /\ consumer'[k].at = "reading"
       /\ \A l \in Consumer : l # k => consumer'[l] = consumer[l]
  <2>1. consumer'[k] = m
    BY <1>2
  <2> HIDE DEF m, e
  <2> QED BY <1>2, <1>7, <1>8, <2>1
<1> HIDE DEF m, e, id
<1>11. Feed!Deliver(k)
  <2>1. /\ id \in consumer[k].seen + 1 .. record[Followed[k]].seq
        /\ \A missed \in consumer[k].seen + 1 .. id - 1 :
               consumer[k].resume = None /\ missed < oldestKept(record[Followed[k]])
    BY <1>9 DEF id, Fresh
  <2> HIDE DEF o, r, J
  <2>2. [l \in Consumer |-> consumer'[l].seen]
            = [[l \in Consumer |-> consumer[l].seen] EXCEPT ![k] = id]
    BY <1>10
  <2>3. {l \in Consumer : consumer'[l].resume = None}
            = {l \in Consumer : consumer[l].resume = None} \ {k}
    BY <1>10
  <2>4. /\ consumer[k].at = "reading"
        /\ [l \in Consumer |-> IF consumer'[l].at \in Outcomes THEN consumer'[l].at ELSE "following"]
            = [l \in Consumer |-> IF consumer[l].at \in Outcomes THEN consumer[l].at ELSE "following"]
    BY <1>1, <1>10 DEF o, Outcomes
  <2>5. UNCHANGED record
    BY <1>2
  <2> QED BY <1>1, <2>1, <2>2, <2>3, <2>4, <2>5 DEF J, Feed!Deliver, Feed!jobVars, Outcomes
<1> QED BY <1>11 DEF FeedSteps, Feed!Next

\* A caller comes to an end of its following.
LEMMA EndFeeds ==
    ASSUME IInv, NEW k \in Consumer, NEW how \in {"complete", "polled", "gone"},
           UNCHANGED record, consumer[k].at \notin Outcomes, consumer'[k].at = how,
           consumer'[k].seen = consumer[k].seen, consumer'[k].resume = consumer[k].resume,
           \A l \in Consumer : l # k => consumer'[l] = consumer[l],
           how \in {"complete", "polled"} => record[Followed[k]].terminal,
           how = "complete" => consumer[k].seen = record[Followed[k]].seq,
           how = "gone" => ~ record[Followed[k]].known
    PROVE  FeedSteps
<1>1. Followed[k] \in Job
  BY BudgetAssumption
<1>2. Feed!End(k, how)
  <2>1. [l \in Consumer |-> consumer'[l].seen] = [l \in Consumer |-> consumer[l].seen]
    OBVIOUS
  <2>2. {l \in Consumer : consumer'[l].resume = None} = {l \in Consumer : consumer[l].resume = None}
    OBVIOUS
  <2>3. [l \in Consumer |-> IF consumer'[l].at \in Outcomes THEN consumer'[l].at ELSE "following"]
            = [[l \in Consumer |-> IF consumer[l].at \in Outcomes THEN consumer[l].at
                                   ELSE "following"] EXCEPT ![k] = how]
    BY DEF Outcomes
  <2> QED BY <2>1, <2>2, <2>3 DEF Feed!End, Feed!jobVars
<1>3. CASE how = "complete"
  <2>1. Feed!Complete(k)
    BY <1>1, <1>2, <1>3 DEF Feed!Complete
  <2> QED BY <2>1 DEF FeedSteps, Feed!Next
<1>4. CASE how = "polled"
  <2>1. Feed!Polled(k)
    BY <1>1, <1>2, <1>4 DEF Feed!Polled
  <2> QED BY <2>1 DEF FeedSteps, Feed!Next
<1>5. CASE how = "gone"
  <2>1. Feed!Gone(k)
    BY <1>1, <1>2, <1>5 DEF Feed!Gone
  <2> QED BY <2>1 DEF FeedSteps, Feed!Next
<1> QED BY <1>3, <1>4, <1>5

\* The caller leaves with what it has.
LEMMA LeaveIs ==
    ASSUME IInv, NEW k \in Consumer, NEW at, leave(k, at)
    PROVE  /\ consumer'[k].at = at
           /\ consumer'[k].seen = consumer[k].seen /\ consumer'[k].resume = consumer[k].resume
           /\ \A l \in Consumer : l # k => consumer'[l] = consumer[l]
<1> DEFINE m == [consumer[k] EXCEPT !.at = at, !.conn = None, !.fed = <<>>, !.parsed = 0]
<1>1. consumer \in [Consumer -> Caller] /\ consumer[k] \in Caller
  BY DEF IInv, Callers
<1>2. consumer' = [consumer EXCEPT ![k] = m]
  BY <1>1 DEF leave, Caller
<1>3. m.at = at /\ m.seen = consumer[k].seen /\ m.resume = consumer[k].resume
  BY <1>1 DEF Caller
<1> HIDE DEF m
<1> QED BY <1>1, <1>2, <1>3

\* returns comes behind the last event; a stream that breaks changes nothing.
LEMMA StreamEndFeeds ==
    ASSUME IInv, NEW k \in Consumer, returns(k) \/ interrupted(k)
    PROVE  FeedSteps
<1> DEFINE o == consumer[k]
           r == record[Followed[k]]
<1>1. /\ o \in Caller /\ RingKept(r)
      /\ Follows(Followed[k], r, conn[o.conn], o, registered[Followed[k]])
  BY AboutCaller
<1>2. CASE returns(k)
  <2>1. /\ o.at = "reading" /\ o.fed = <<>> /\ o.terminal /\ leave(k, "complete")
        /\ UNCHANGED record
    BY <1>2 DEF returns, serverVars
  <2>2. FedFits(r, o)
    BY <1>1, <2>1 DEF Follows
  <2>3. o.parsed \in Nat /\ Len(o.fed) = 0 /\ r.seq \in Nat \ {0}
    <3> HIDE DEF o, r
    <3>1. o.parsed \in Nat /\ Len(o.fed) = 0
      BY <1>1, <2>1, CallerNumbers
    <3> QED BY <1>1, <3>1, OldestIs
  <2>4. r.terminal /\ o.parsed = r.seq
    BY <2>1, <2>2 DEF FedFits
  <2>5. ~ Fresh(o)
    BY <2>1, <2>2, <2>3, <2>4 DEF FedFits, Expectant
  <2>6. o.seen = r.seq
    <3>1. o.parsed - 0 = o.parsed
      BY <2>3
    <3> QED BY <2>2, <2>3, <2>4, <2>5, <3>1 DEF FedFits
  <2>7. o.at \notin Outcomes
    BY <2>1 DEF Outcomes
  <2>8. /\ consumer'[k].at = "complete"
        /\ consumer'[k].seen = consumer[k].seen /\ consumer'[k].resume = consumer[k].resume
        /\ \A l \in Consumer : l # k => consumer'[l] = consumer[l]
    BY <2>1, LeaveIs
  <2> QED BY <2>1, <2>4, <2>6, <2>7, <2>8, EndFeeds
<1>3. CASE interrupted(k)
  <2>1. /\ o.at \in {"waiting", "reading"} /\ leave(k, "broken") /\ UNCHANGED record
    BY <1>3 DEF interrupted, serverVars
  <2>2. /\ consumer'[k].at = "broken"
        /\ consumer'[k].seen = consumer[k].seen /\ consumer'[k].resume = consumer[k].resume
        /\ \A l \in Consumer : l # k => consumer'[l] = consumer[l]
    BY <2>1, LeaveIs
  <2>3. consumer'[k].at \notin Outcomes /\ consumer[k].at \notin Outcomes
    BY <2>1, <2>2 DEF Outcomes
  <2> QED BY <2>1, <2>2, <2>3, CallerStutters
<1> QED BY <1>2, <1>3

\* stream_status() tells of a job the service does not know; it is asked for
\* no id that the service would not have given.
LEMMA StatusFeeds ==
    ASSUME IInv, NEW k \in Consumer, streamStatus(k)
    PROVE  FeedSteps
<1> DEFINE o == consumer[k]
           r == record[Followed[k]]
           s == conn[o.conn]
<1>1. /\ o \in Caller /\ o.at = "waiting" /\ s \in Connection /\ s.answer # "none"
      /\ Follows(Followed[k], r, s, o, registered[Followed[k]]) /\ UNCHANGED record
  BY AboutCaller DEF streamStatus, serverVars
<1>2. Answered(Followed[k], r, s, o)
  BY <1>1 DEF Follows
<1>3. s.answer \in {"200", "404", "409", "429"} /\ (s.answer = "404" => ~ r.known)
  BY <1>1, <1>2 DEF Connection, Answered
<1>4. CASE s.answer = "200"
  <2> DEFINE m == [o EXCEPT !.at = "reading"]
  <2>1. consumer \in [Consumer -> Caller] /\ consumer' = [consumer EXCEPT ![k] = m]
    BY <1>4 DEF streamStatus, IInv, Callers
  <2>2. m.at = "reading" /\ m.seen = o.seen /\ m.resume = o.resume
    BY <1>1 DEF Caller
  <2> HIDE DEF m
  <2>3. /\ consumer'[k] = m /\ \A l \in Consumer : l # k => consumer'[l] = consumer[l]
    BY <2>1
  <2>4. consumer'[k].at \notin Outcomes /\ consumer[k].at \notin Outcomes
    BY <1>1, <2>2, <2>3 DEF Outcomes
  <2> QED BY <1>1, <2>2, <2>3, <2>4, CallerStutters
<1>5. CASE s.answer # "200"
  <2> DEFINE at == CASE s.answer = "404" -> "gone"    [] s.answer = "400" -> "invalid"
                     [] s.answer = "409" -> "expired" [] s.answer = "429" -> "idle"
  <2>1. leave(k, at)
    BY <1>5 DEF streamStatus
  <2>2. at \in {"gone", "expired", "idle"} /\ (at = "gone" => ~ r.known)
    BY <1>3, <1>5
  <2> HIDE DEF at
  <2>3. /\ consumer'[k].at = at
        /\ consumer'[k].seen = consumer[k].seen /\ consumer'[k].resume = consumer[k].resume
        /\ \A l \in Consumer : l # k => consumer'[l] = consumer[l]
    BY <2>1, LeaveIs
  <2>4. CASE at = "gone"
    BY <1>1, <2>2, <2>3, <2>4, EndFeeds DEF Outcomes
  <2>5. CASE at # "gone"
    <3>1. consumer'[k].at \notin Outcomes /\ consumer[k].at \notin Outcomes
      BY <1>1, <2>2, <2>3, <2>5 DEF Outcomes
    <3> QED BY <1>1, <2>3, <3>1, CallerStutters
  <2> QED BY <2>4, <2>5
<1> QED BY <1>4, <1>5

\* connect and reconnect keep the place of the caller, and so does feed(),
\* which refuses nothing.
LEMMA OpenFeeds ==
    ASSUME IInv, NEW k \in Consumer, connect(k) \/ reconnect(k) \/ feed(k)
    PROVE  FeedSteps
<1>1. consumer \in [Consumer -> Caller] /\ consumer[k] \in Caller
  BY DEF IInv, Callers
<1>2. UNCHANGED record /\ consumer[k].at \in {"idle", "broken", "reading"}
  BY Zenon DEF connect, reconnect, feed, serverVars
<1>3. PICK m : /\ consumer' = [consumer EXCEPT ![k] = m]
               /\ m.at \in {"idle", "waiting", "reading"} /\ m.seen = consumer[k].seen
               /\ m.resume = consumer[k].resume
  <2>1. CASE connect(k)
    <3> DEFINE o == consumer[k]
    <3>1. PICK c \in Conn :
              consumer' = [consumer EXCEPT ![k].at = "waiting", ![k].conn = c,
                               ![k].parsed = idOf(consumer[k].resume), ![k].terminal = FALSE,
                               ![k].fed = <<>>]
      BY <2>1, Zenon DEF connect
    <3> DEFINE m == [o EXCEPT !.at = "waiting", !.conn = c, !.parsed = idOf(o.resume),
                              !.terminal = FALSE, !.fed = <<>>]
    <3>2. consumer' = [consumer EXCEPT ![k] = m]
      BY <1>1, <3>1 DEF Caller
    <3>3. m.at = "waiting" /\ m.seen = o.seen /\ m.resume = o.resume
      BY <1>1 DEF Caller
    <3> HIDE DEF m
    <3> QED BY <3>2, <3>3
  <2>2. CASE reconnect(k)
    <3> DEFINE m == [consumer[k] EXCEPT !.at = "idle"]
    <3>1. consumer' = [consumer EXCEPT ![k] = m]
      BY <1>1, <2>2 DEF reconnect
    <3>2. m.at = "idle" /\ m.seen = consumer[k].seen /\ m.resume = consumer[k].resume
      BY <1>1 DEF Caller
    <3> HIDE DEF m
    <3> QED BY <3>1, <3>2
  <2>3. CASE feed(k)
    BY <2>3, FeedKeeps
  <2> QED BY <2>1, <2>2, <2>3
<1>4. /\ consumer'[k] = m /\ \A l \in Consumer : l # k => consumer'[l] = consumer[l]
  BY <1>1, <1>3
<1>5. consumer'[k].at \notin Outcomes /\ consumer[k].at \notin Outcomes
  BY <1>2, <1>3, <1>4 DEF Outcomes
<1> QED BY <1>2, <1>3, <1>4, <1>5, CallerStutters

\* Job.refresh() shows the end of the job, or that the history is lost.
LEMMA PollFeeds ==
    ASSUME IInv, NEW k \in Consumer, poll(k)
    PROVE  FeedSteps
<1> DEFINE o == consumer[k]
           r == record[Followed[k]]
           at == IF ~ r.known THEN "gone" ELSE IF r.terminal THEN "polled" ELSE "idle"
           resume == IF o.at = "expired" /\ r.known /\ ~ r.terminal THEN None ELSE o.resume
           m == [o EXCEPT !.at = at, !.resume = resume]
<1>1. /\ o \in Caller /\ RingKept(r) /\ Positioned(r, o) /\ Followed[k] \in Job
      /\ o.at \in {"broken", "expired"} /\ UNCHANGED record
  BY AboutCaller DEF poll, Follows, serverVars
<1>2. /\ consumer' = [consumer EXCEPT ![k] = m] /\ consumer \in [Consumer -> Caller]
  BY DEF poll, IInv, Callers
<1>3. m.at = at /\ m.seen = o.seen /\ m.resume = resume
  BY <1>1 DEF Caller
<1>4. o.at \notin Outcomes
  BY <1>1 DEF Outcomes
<1> HIDE DEF m
<1>5. /\ consumer'[k] = m /\ \A l \in Consumer : l # k => consumer'[l] = consumer[l]
  BY <1>2
<1>6. CASE ~ r.known
  BY <1>1, <1>3, <1>4, <1>5, <1>6, EndFeeds
<1>7. CASE r.known /\ r.terminal
  BY <1>1, <1>3, <1>4, <1>5, <1>7, EndFeeds
<1>8. CASE r.known /\ ~ r.terminal /\ o.at # "expired"
  <2>1. consumer'[k].at \notin Outcomes /\ m.resume = o.resume
    BY <1>3, <1>5, <1>8 DEF Outcomes
  <2> QED BY <1>1, <1>3, <1>4, <1>5, <2>1, CallerStutters
<1>9. CASE r.known /\ ~ r.terminal /\ o.at = "expired"
  <2>1. o.seen + 1 < oldestKept(r) /\ o.seen \in Nat /\ oldestKept(r) \in Nat
    <3> HIDE DEF o, r
    <3>1. o.seen \in Nat
      BY <1>1, CallerNumbers
    <3>2. oldestKept(r) \in Nat
      BY <1>1, OldestIs
    <3> QED BY <1>1, <1>9, <3>1, <3>2 DEF Positioned
  <2>2. m.at = "idle" /\ m.resume = None
    BY <1>3, <1>9
  <2>3. Feed!Restart(k)
    <3>1. [l \in Consumer |-> consumer'[l].seen] = [l \in Consumer |-> consumer[l].seen]
      BY <1>3, <1>5
    <3>2. {l \in Consumer : consumer'[l].resume = None}
              = {l \in Consumer : consumer[l].resume = None} \cup {k}
      BY <1>5, <2>2
    <3>3. [l \in Consumer |-> IF consumer'[l].at \in Outcomes THEN consumer'[l].at ELSE "following"]
            = [l \in Consumer |-> IF consumer[l].at \in Outcomes THEN consumer[l].at ELSE "following"]
      BY <1>4, <1>5, <2>2 DEF Outcomes
    <3>4. oldestKept(record[Followed[k]]) > consumer[k].seen + 1
      BY <2>1
    <3> QED BY <1>1, <1>4, <3>1, <3>2, <3>3, <3>4 DEF Feed!Restart, Feed!jobVars
  <2> QED BY <2>3 DEF FeedSteps, Feed!Next
<1> QED BY <1>6, <1>7, <1>8, <1>9

\* Over any number of streams a caller of Job.events() gets the events of
\* its job in order, once and without an untold gap, and no stream of this
\* server is refused by its parser.
THEOREM FeedImplemented == Spec => ImplementsFeed
<1>1. Init => Feed!Init
  <2> SUFFICES ASSUME Init
               PROVE  Feed!Init
    OBVIOUS
  <2>1. /\ record = [j \in Job |-> NewRecord]
        /\ consumer \in [Consumer -> {NewConsumer(None), NewConsumer(0)}]
    BY DEF Init
  <2>2. /\ NewRecord.seq = 1 /\ NewRecord.known = TRUE /\ NewRecord.terminal = FALSE
        /\ oldestKept(NewRecord) = 1
    BY DEF NewRecord, oldestKept
  <2>3. \A k \in Consumer : consumer[k].seen = 0 /\ consumer[k].at = "idle"
    BY <2>1 DEF NewConsumer
  <2>4. /\ [j \in Job |-> record[j].seq] = [j \in Job |-> 1]
        /\ [j \in Job |-> oldestKept(record[j])] = [j \in Job |-> 1]
        /\ {j \in Job : record[j].terminal} = {} /\ {j \in Job : ~ record[j].known} = {}
    BY <2>1, <2>2
  <2>5. [k \in Consumer |-> consumer[k].seen] = [k \in Consumer |-> 0]
    BY <2>3
  <2>6. [k \in Consumer |-> IF consumer[k].at \in Outcomes THEN consumer[k].at ELSE "following"]
            = [k \in Consumer |-> "following"]
    BY <2>3 DEF Outcomes
  <2> QED BY <2>4, <2>5, <2>6 DEF Feed!Init
<1>2. IInv /\ [Next]_vars => [Feed!Next]_(Feed!vars)
  <2> SUFFICES ASSUME IInv, [Next]_vars
               PROVE  FeedSteps
    BY DEF FeedSteps
  <2>1. CASE \/ \E j \in Job : progress(j) \/ finish(j) \/ removeRetainedLocked(j)
             \/ shutdown \/ restart
    BY <2>1, RegistryFeeds
  <2>2. ASSUME NEW c \in Conn, subscribe(c) \/ server(c) \/ lose(c)
        PROVE  FeedSteps
    <3>1. UNCHANGED <<record, consumer>>
      <4>1. CASE subscribe(c)
        BY <4>1, Zenon DEF subscribe
      <4>2. CASE server(c)
        BY <4>2 DEF server, nextEvent, nextClosed, heartbeat, write, writeFails, close, complete,
                    serverVars
      <4>3. CASE lose(c)
        BY <4>3 DEF lose, serverVars
      <4> QED BY <2>2, <4>1, <4>2, <4>3
    <3> QED BY <3>1, FeedStutters
  <2>3. ASSUME NEW k \in Consumer, client(k)
        PROVE  FeedSteps
    <3>1. CASE connect(k) \/ reconnect(k) \/ feed(k)
      BY <3>1, OpenFeeds
    <3>2. CASE streamStatus(k)
      BY <3>2, StatusFeeds
    <3>3. CASE yield(k)
      BY <3>3, YieldFeeds
    <3>4. CASE returns(k) \/ interrupted(k)
      BY <3>4, StreamEndFeeds
    <3>5. CASE poll(k)
      BY <3>5, PollFeeds
    <3> QED BY <2>3, <3>1, <3>2, <3>3, <3>4, <3>5 DEF client
  <2>4. CASE UNCHANGED vars
    <3>1. UNCHANGED <<record, consumer>>
      BY <2>4 DEF vars, serverVars
    <3> QED BY <3>1, FeedStutters
  <2> QED BY <2>1, <2>2, <2>3, <2>4 DEF Next
<1> QED BY <1>1, <1>2, Invariance, PTL DEF Spec, ImplementsFeed, Feed!Spec

=============================================================================
