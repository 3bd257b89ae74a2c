-------------------------- MODULE JobRegistryLemmas --------------------------
(***************************************************************************)
(* What the helpers of JobRegistry do to the registry's record, for every  *)
(* set of jobs and all limits.  Guarded is the half of the inductive       *)
(* invariant (JobRegistryProofs) that speaks of the guarded record alone:  *)
(* what every section of the lock finds there and leaves there.  Each      *)
(* helper is a function of that record, so that it is proved of each       *)
(* helper once, whichever thread calls it, and then of the sections.       *)
(***************************************************************************)
EXTENDS JobRegistry, FiniteSetTheorems, SequenceTheorems, TLAPS

-----------------------------------------------------------------------------
(* The half about the guarded state r alone.                               *)

\* The records are finitely many, and exactly the jobs that were submitted
\* and not dropped again; the others carry nothing.
RecordsMatch(r) ==
    /\ r \in Registry
    /\ IsFiniteSet(r.records)
    /\ \A j \in Job : j \in r.records <=> r.state[j] \notin {"NEW", "GONE"}
    /\ \A j \in Job \ r.records : r.size[j] = 0 /\ r.reason[j] = None /\ r.log[j] = <<>>

\* No two records were submitted, or completed, at the same time.
NumbersDiffer(r) ==
    /\ \A j \in r.records : r.number[j] <= r.submissions
    /\ \A j, k \in r.records : r.number[j] = r.number[k] => j = k

OrdersDiffer(r) ==
    /\ \A j \in Completed(r) : r.order[j] > 0 /\ r.order[j] <= r.completions
    /\ \A j, k \in Completed(r) : r.order[j] = r.order[k] => j = k

BytesCounted(r) == /\ r.bytes = Bytes(r, r.records)
                   /\ r.bytes <= MaxTotalResultBytes

Streamed(r) ==
    \A j \in r.records :
        LET log == r.log[j] IN
        /\ log # <<>> /\ log[1] = "job.queued"
        /\ \A i \in 1..(Len(log) - 1) : ~ IsTerminalEvent(log[i])
        /\ IsTerminalEvent(log[Len(log)]) <=> r.state[j] \in Terminal
        /\ r.state[j] \in Terminal => log[Len(log)] = EventOf(r.state[j])

\* What every helper preserves.
Core(r) == /\ RecordsMatch(r) /\ NumbersDiffer(r) /\ OrdersDiffer(r)
           /\ BytesCounted(r) /\ Streamed(r)

\* Only completed jobs have a result.
ResultsCompleted(r) == \A j \in r.records : r.size[j] > 0 => r.state[j] \in Terminal

RoomKept(r) == Cardinality(Completed(r)) <= MaxRetained

\* The queue is in order of submission, and apart from the dispatcher's job.
QueueOrdered(r) ==
    /\ \A i \in DOMAIN r.queue :
          r.state[r.queue[i]] = "QUEUED" /\ r.queue[i] \notin r.dispatching
    /\ \A i, k \in DOMAIN r.queue : i < k => r.number[r.queue[i]] < r.number[r.queue[k]]
    /\ \A j \in r.dispatching : r.state[j] = "QUEUED"

Guarded(r) == Core(r) /\ ResultsCompleted(r) /\ RoomKept(r) /\ QueueOrdered(r)

-----------------------------------------------------------------------------
(* Numbers, ranks and sums.                                                *)

\* A non-empty set of naturals has a least element.
LEMMA LeastNatural ==
    ASSUME NEW S \in SUBSET Nat, S # {}
    PROVE  \E n \in S : \A m \in S : n <= m
<1>1. PICK n \in S : \A m \in S : ~ (<<m, n>> \in OpToRel(<, Nat))
  BY NatLessThanWellFounded, WFMin, Zenon
<1>2. \A m \in S : m < n => <<m, n>> \in OpToRel(<, Nat)
  BY DEF OpToRel
<1>3. \A m \in S : ~ (m < n)
  BY <1>1, <1>2
<1>4. n \in Nat /\ \A m \in S : m \in Nat
  OBVIOUS
<1> QED BY <1>3, <1>4

\* The numbers up to n, as the bytes of one job are counted.
LEMMA CountTo ==
    ASSUME NEW n \in Nat
    PROVE  IsFiniteSet(1..n) /\ Cardinality(1..n) = n
<1>1. IsFiniteSet(1..n) /\ Cardinality(1..n) = IF 1 > n THEN 0 ELSE n - 1 + 1
  BY FS_Interval
<1> QED BY <1>1

Rank(f, K, i) == Cardinality({k \in K : f[k] <= f[i]})

\* Counting the elements of a finite set up to each one numbers them from 1
\* on, in the order of their keys.
LEMMA RanksNumber ==
    ASSUME NEW K, IsFiniteSet(K), NEW f, \A k \in K : f[k] \in Int,
           \A i, j \in K : f[i] = f[j] => i = j
    PROVE  /\ \A i \in K : Rank(f, K, i) \in 1..Cardinality(K)
           /\ \A i, j \in K : f[i] < f[j] => Rank(f, K, i) < Rank(f, K, j)
           /\ \A i, j \in K : Rank(f, K, i) = Rank(f, K, j) => i = j
           /\ \A n \in 1..Cardinality(K) : \E i \in K : Rank(f, K, i) = n
<1> DEFINE upTo(i) == {k \in K : f[k] <= f[i]}
           rank(i) == Cardinality(upTo(i))
           g == [i \in K |-> rank(i)]
<1>1. /\ Cardinality(K) \in Nat
      /\ \A i \in K : IsFiniteSet(upTo(i)) /\ rank(i) \in Nat /\ rank(i) <= Cardinality(K)
  BY FS_CardinalityType, FS_Subset
<1>2. ASSUME NEW i \in K, NEW j \in K, f[i] < f[j]
      PROVE  rank(i) < rank(j)
  <2>1. upTo(i) \subseteq upTo(j) /\ j \in upTo(j) \ upTo(i)
    BY <1>2
  <2>2. Cardinality(upTo(i)) <= Cardinality(upTo(j)) /\ Cardinality(upTo(i)) # Cardinality(upTo(j))
    BY <2>1, <1>1, FS_Subset
  <2> HIDE DEF upTo
  <2> QED BY <2>2, <1>1
<1>3. ASSUME NEW i \in K PROVE rank(i) \in 1..Cardinality(K)
  <2>1. i \in upTo(i)
    BY <1>3
  <2>2. rank(i) # 0
    BY <2>1, <1>1, FS_EmptySet
  <2> HIDE DEF upTo
  <2> QED BY <2>2, <1>1
<1>4. ASSUME NEW i \in K, NEW j \in K, rank(i) = rank(j) PROVE i = j
  <2>1. f[i] < f[j] \/ f[j] < f[i] \/ f[i] = f[j]
    BY <1>4
  <2>2. rank(i) \in Nat /\ rank(j) \in Nat
    BY <1>1
  <2> HIDE DEF rank
  <2> QED BY <2>1, <2>2, <1>2, <1>4
<1> HIDE DEF rank
<1>5. g \in Injection(K, 1..Cardinality(K))
  BY <1>3, <1>4 DEF Injection, IsInjective
<1>6. IsFiniteSet(1..Cardinality(K)) /\ Cardinality(1..Cardinality(K)) = Cardinality(K)
  BY <1>1, CountTo
<1>7. g \in Surjection(K, 1..Cardinality(K))
  BY <1>5, <1>6, FS_Injection
<1>8. \A n \in 1..Cardinality(K) : \E i \in K : rank(i) = n
  BY <1>7 DEF Surjection
<1>9. \A i \in K : Rank(f, K, i) = rank(i)
  BY DEF Rank, rank
<1> QED BY <1>2, <1>3, <1>4, <1>8, <1>9

\* Finitely many jobs, with results of some size.
Sized(r, S) == IsFiniteSet(S) /\ \A j \in S : r.size[j] \in Nat

\* The bytes of finitely many jobs are a number, and add up over disjoint sets.
LEMMA BytesFinite ==
    ASSUME NEW r, NEW S, Sized(r, S)
    PROVE  /\ IsFiniteSet(UNION {{j} \X (1..r.size[j]) : j \in S})
           /\ Bytes(r, S) \in Nat
<1> DEFINE cells(j) == {j} \X (1..r.size[j])
           g == [j \in S |-> cells(j)]
           C == {cells(j) : j \in S}
<1>0. IsFiniteSet(S) /\ \A j \in S : r.size[j] \in Nat
  BY DEF Sized
<1>1. ASSUME NEW j \in S PROVE IsFiniteSet(cells(j))
  <2>1. IsFiniteSet({j})
    BY FS_Singleton
  <2>2. IsFiniteSet(1..r.size[j])
    BY <1>0, CountTo
  <2> QED BY <2>1, <2>2, FS_Product
<1>2. g \in Surjection(S, C)
  BY DEF Surjection
<1>3. IsFiniteSet(C)
  <2> HIDE DEF C, g
  <2> QED BY <1>0, <1>2, FS_Surjection
<1>4. IsFiniteSet(UNION C)
  BY <1>1, <1>3, FS_UNION
<1> QED BY <1>4, FS_CardinalityType DEF Bytes

\* Retained bytes are the sum of those inside and outside a set of jobs.
LEMMA BytesSplit ==
    ASSUME NEW r, NEW S, Sized(r, S), NEW T
    PROVE  /\ Bytes(r, S) = Bytes(r, S \ T) + Bytes(r, S \cap T)
           /\ Bytes(r, S \ T) \in Nat /\ Bytes(r, S \cap T) \in Nat
<1> DEFINE C(U) == UNION {{j} \X (1..r.size[j]) : j \in U}
<1>1. Sized(r, S \ T) /\ Sized(r, S \cap T)
  BY FS_Difference, FS_Intersection DEF Sized
<1>2. /\ IsFiniteSet(C(S \ T)) /\ IsFiniteSet(C(S \cap T))
      /\ Bytes(r, S \ T) \in Nat /\ Bytes(r, S \cap T) \in Nat
  BY <1>1, BytesFinite
<1>3. C(S) = C(S \ T) \cup C(S \cap T) /\ C(S \ T) \cap C(S \cap T) = {}
  OBVIOUS
<1>4. Cardinality(C(S)) = Cardinality(C(S \ T)) + Cardinality(C(S \cap T)) - Cardinality({})
  <2> HIDE DEF C
  <2> QED BY <1>2, <1>3, FS_Union
<1> QED BY <1>2, <1>4, FS_EmptySet DEF Bytes

\* Only the sizes of the counted jobs matter.
LEMMA BytesSame ==
    ASSUME NEW r, NEW q, NEW S, \A j \in S : q.size[j] = r.size[j]
    PROVE  Bytes(q, S) = Bytes(r, S)
BY DEF Bytes

\* A result of one job.
LEMMA BytesOfOne ==
    ASSUME NEW r, NEW j, r.size[j] \in Nat
    PROVE  Bytes(r, {j}) = r.size[j]
<1>1. UNION {{k} \X (1..r.size[k]) : k \in {j}} = {j} \X (1..r.size[j])
  OBVIOUS
<1>2. Cardinality({j} \X (1..r.size[j])) = 1 * r.size[j]
  <2> DEFINE n == r.size[j]
  <2>1. n \in Nat
    OBVIOUS
  <2> HIDE DEF n
  <2>2. IsFiniteSet(1..n) /\ Cardinality(1..n) = n
    BY <2>1, CountTo
  <2>3. IsFiniteSet({j}) /\ Cardinality({j}) = 1
    BY FS_Singleton
  <2>4. Cardinality({j} \X (1..n)) = 1 * n
    BY <2>2, <2>3, FS_Product, ZenonT(30)
  <2> QED BY <2>4 DEF n
<1>3. 1 * r.size[j] = r.size[j]
  OBVIOUS
<1> QED BY <1>1, <1>2, <1>3 DEF Bytes

\* Jobs without a result do not count.
LEMMA BytesOfNone ==
    ASSUME NEW r, NEW S, \A j \in S : r.size[j] = 0
    PROVE  Bytes(r, S) = 0
<1>1. UNION {{k} \X (1..r.size[k]) : k \in S} = {}
  OBVIOUS
<1> QED BY <1>1, FS_EmptySet DEF Bytes

\* One job of many, without its result and with it.
LEMMA BytesWithout ==
    ASSUME NEW r, NEW S, Sized(r, S), NEW j \in S
    PROVE  /\ Bytes(r, S) = Bytes(r, S \ {j}) + r.size[j]
           /\ Bytes(r, S \ {j}) \in Nat /\ r.size[j] \in Nat
<1>1. S \cap {j} = {j} /\ r.size[j] \in Nat
  BY DEF Sized
<1>2. Bytes(r, S) = Bytes(r, S \ {j}) + Bytes(r, S \cap {j})
  BY BytesSplit
<1>3. Bytes(r, {j}) = r.size[j]
  BY <1>1, BytesOfOne
<1>4. Bytes(r, S \ {j}) \in Nat
  <2>1. Sized(r, S \ {j})
    BY FS_Difference DEF Sized
  <2> QED BY <2>1, BytesFinite
<1> QED BY <1>1, <1>2, <1>3, <1>4

\* A result that is stored adds its own size to the retained bytes.
LEMMA BytesAdd ==
    ASSUME NEW r, NEW q, NEW S, Sized(r, S), Sized(q, S), NEW j \in S, r.size[j] = 0,
           \A k \in S \ {j} : q.size[k] = r.size[k]
    PROVE  Bytes(q, S) = Bytes(r, S) + q.size[j]
<1>1. /\ Bytes(r, S) = Bytes(r, S \ {j}) + r.size[j]
      /\ Bytes(r, S \ {j}) \in Nat /\ r.size[j] \in Nat
  BY BytesWithout
<1>2. Bytes(q, S) = Bytes(q, S \ {j}) + q.size[j] /\ q.size[j] \in Nat
  BY BytesWithout
<1>3. Bytes(q, S \ {j}) = Bytes(r, S \ {j})
  BY BytesSame
<1> QED BY <1>1, <1>2, <1>3

-----------------------------------------------------------------------------
(* Records that are dropped.                                               *)

\* What no helper but dequeue touches.
SameControl(r, q) ==
    /\ q.queue = r.queue /\ q.dispatching = r.dispatching
    /\ q.slots = r.slots /\ q.submissions = r.submissions
    /\ q.stopped = r.stopped /\ q.reserved = r.reserved
    /\ q.shutdownDone = r.shutdownDone

\* q is r without the records of S.
Without(r, q, S) ==
    /\ SameControl(r, q)
    /\ q.completions = r.completions
    /\ q.records = r.records \ S
    /\ \A j \in S : /\ q.state[j] = "GONE" /\ q.reason[j] = None
                    /\ q.size[j] = 0 /\ q.log[j] = <<>>
    /\ \A j \in Job \ S : /\ q.state[j] = r.state[j] /\ q.reason[j] = r.reason[j]
                          /\ q.number[j] = r.number[j] /\ q.order[j] = r.order[j]
                          /\ q.size[j] = r.size[j] /\ q.log[j] = r.log[j]

\* removeRetainedLocked drops the records of S, and takes their bytes off.
LEMMA RemoveDrops ==
    ASSUME NEW r, RecordsMatch(r), NEW S \in SUBSET r.records
    PROVE  /\ removeRetainedLocked(r, S) \in Registry
           /\ Without(r, removeRetainedLocked(r, S), S)
           /\ removeRetainedLocked(r, S).bytes = r.bytes - Bytes(r, S)
<1> DEFINE q == removeRetainedLocked(r, S)
<1>1. r \in Registry /\ S \subseteq Job /\ S \cap r.records = S
  BY DEF RecordsMatch, Registry
<1>2. Bytes(r, S) \in Nat
  <2>1. IsFiniteSet(S)
    BY FS_Subset DEF RecordsMatch
  <2>2. \A j \in S : r.size[j] \in Nat
    BY <1>1 DEF Registry
  <2>3. Sized(r, S)
    BY <2>1, <2>2 DEF Sized
  <2> QED BY <2>3, BytesFinite
<1>3. /\ q.queue = r.queue /\ q.dispatching = r.dispatching
      /\ q.slots = r.slots /\ q.submissions = r.submissions
      /\ q.stopped = r.stopped /\ q.reserved = r.reserved
      /\ q.shutdownDone = r.shutdownDone /\ q.completions = r.completions
      /\ q.records = r.records \ S
      /\ q.bytes = r.bytes - Bytes(r, S)
      /\ q.state = [j \in Job |-> IF j \in S THEN "GONE" ELSE r.state[j]]
      /\ q.reason = [j \in Job |-> IF j \in S THEN None ELSE r.reason[j]]
      /\ q.number = [j \in Job |-> IF j \in S THEN 0 ELSE r.number[j]]
      /\ q.order = [j \in Job |-> IF j \in S THEN 0 ELSE r.order[j]]
      /\ q.size = [j \in Job |-> IF j \in S THEN 0 ELSE r.size[j]]
      /\ q.log = [j \in Job |-> IF j \in S THEN <<>> ELSE r.log[j]]
  BY <1>1 DEF Registry, removeRetainedLocked
<1>4. q \in Registry
  <2> DEFINE state == [j \in Job |-> IF j \in S THEN "GONE" ELSE r.state[j]]
             reason == [j \in Job |-> IF j \in S THEN None ELSE r.reason[j]]
             number == [j \in Job |-> IF j \in S THEN 0 ELSE r.number[j]]
             order == [j \in Job |-> IF j \in S THEN 0 ELSE r.order[j]]
             size == [j \in Job |-> IF j \in S THEN 0 ELSE r.size[j]]
             log == [j \in Job |-> IF j \in S THEN <<>> ELSE r.log[j]]
             bytes == r.bytes - Bytes(r, S \cap r.records)
  <2>1. state \in [Job -> State] /\ reason \in [Job -> Reason \cup {None}]
    BY <1>1 DEF Registry, State
  <2>2. number \in [Job -> Nat] /\ order \in [Job -> Nat] /\ size \in [Job -> Nat]
    BY <1>1 DEF Registry
  <2>3. log \in [Job -> Seq(EventType)]
    <3>1. <<>> \in Seq(EventType)
      BY EmptySeq
    <3> QED BY <1>1, <3>1 DEF Registry
  <2>4. bytes \in Int
    <3>1. r.bytes \in Int
      BY <1>1 DEF Registry
    <3>2. Bytes(r, S \cap r.records) \in Int
      BY <1>1, <1>2
    <3> QED BY <3>1, <3>2
  <2> HIDE DEF state, reason, number, order, size, log, bytes
  <2>5. [r EXCEPT !.records = @ \ S, !.bytes = bytes, !.state = state, !.reason = reason,
                  !.number = number, !.order = order, !.size = size, !.log = log] \in Registry
    BY <1>1, <2>1, <2>2, <2>3, <2>4 DEF Registry
  <2> QED BY <2>5
       DEF removeRetainedLocked, state, reason, number, order, size, log, bytes
<1> QED BY <1>1, <1>3, <1>4 DEF Without, SameControl

\* Dropping completed records disturbs nothing that is said of the others.
LEMMA RemovePreserves ==
    ASSUME NEW r, Core(r), NEW S \in SUBSET Completed(r)
    PROVE  LET q == removeRetainedLocked(r, S)
           IN /\ Core(q)
              /\ Completed(q) = Completed(r) \ S
              /\ ResultsCompleted(r) => ResultsCompleted(q)
              /\ QueueOrdered(r) => QueueOrdered(q)
              /\ RoomKept(r) => RoomKept(q)
<1> DEFINE q == removeRetainedLocked(r, S)
<1>1. RecordsMatch(r) /\ r \in Registry /\ S \subseteq r.records /\ r.records \subseteq Job
  BY DEF Core, RecordsMatch, Registry, Completed
<1>2. q \in Registry /\ Without(r, q, S) /\ q.bytes = r.bytes - Bytes(r, S)
  BY <1>1, RemoveDrops
<1> HIDE DEF q
<1>3. RecordsMatch(q)
  <2>1. IsFiniteSet(q.records)
    BY <1>1, <1>2, FS_Subset DEF Without, RecordsMatch
  <2>2. \A j \in Job : j \in q.records <=> q.state[j] \notin {"NEW", "GONE"}
    BY <1>1, <1>2 DEF Without, RecordsMatch
  <2>3. \A j \in Job \ q.records : q.size[j] = 0 /\ q.reason[j] = None /\ q.log[j] = <<>>
    BY <1>1, <1>2 DEF Without, RecordsMatch
  <2> QED BY <1>2, <2>1, <2>2, <2>3 DEF RecordsMatch
<1>4. Completed(q) = Completed(r) \ S
  BY <1>1, <1>2 DEF Without, Completed
<1>5. NumbersDiffer(q)
  BY <1>1, <1>2 DEF Without, SameControl, Core, NumbersDiffer
<1>6. OrdersDiffer(q)
  BY <1>1, <1>2, <1>4 DEF Without, Core, OrdersDiffer, Completed
<1>7. BytesCounted(q)
  <2>1. Sized(r, r.records)
    BY <1>1 DEF RecordsMatch, Registry, Sized
  <2>2. /\ Bytes(r, r.records) = Bytes(r, r.records \ S) + Bytes(r, S)
        /\ Bytes(r, S) \in Nat /\ Bytes(r, r.records \ S) \in Nat
    <3>1. r.records \cap S = S
      BY <1>1
    <3>2. /\ Bytes(r, r.records) = Bytes(r, r.records \ S) + Bytes(r, r.records \cap S)
          /\ Bytes(r, r.records \ S) \in Nat /\ Bytes(r, r.records \cap S) \in Nat
      BY <2>1, BytesSplit
    <3> QED BY <3>1, <3>2
  <2>3. Bytes(q, q.records) = Bytes(r, r.records \ S)
    <3>1. q.records = r.records \ S /\ \A j \in r.records \ S : q.size[j] = r.size[j]
      BY <1>1, <1>2 DEF Without
    <3> QED BY <3>1, BytesSame
  <2>5. r.bytes = Bytes(r, r.records) /\ r.bytes <= MaxTotalResultBytes
    BY DEF Core, BytesCounted
  <2> QED BY <1>2, <2>2, <2>3, <2>5, LimitsAssumption DEF BytesCounted
<1>8. Streamed(q)
  BY <1>1, <1>2 DEF Without, Core, Streamed
<1>9. ResultsCompleted(r) => ResultsCompleted(q)
  BY <1>1, <1>2 DEF Without, ResultsCompleted
<1>10. QueueOrdered(r) => QueueOrdered(q)
  <2>1. \A j \in Job : r.state[j] = "QUEUED" => j \notin S
    BY DEF Completed, Terminal
  <2>2. \A i \in DOMAIN r.queue : r.queue[i] \in Job
    BY <1>1, ElementOfSeq, LenProperties DEF Registry
  <2>3. r.dispatching \subseteq Job
    BY <1>1 DEF Registry
  <2> QED BY <1>1, <1>2, <2>1, <2>2, <2>3 DEF Without, SameControl, QueueOrdered
<1>11. RoomKept(r) => RoomKept(q)
  <2>1. IsFiniteSet(Completed(r))
    BY <1>1, FS_Subset DEF RecordsMatch, Completed
  <2>2. Cardinality(Completed(r) \ S) <= Cardinality(Completed(r))
    BY <2>1, FS_Subset
  <2>3. Cardinality(Completed(r) \ S) \in Nat /\ Cardinality(Completed(r)) \in Nat
    BY <2>1, FS_CardinalityType, FS_Difference
  <2> QED BY <1>4, <2>2, <2>3, LimitsAssumption DEF RoomKept
<1> QED BY <1>3, <1>4, <1>5, <1>6, <1>7, <1>8, <1>9, <1>10, <1>11 DEF Core, q

\* S are the oldest of the completed records.
Oldest(r, S) ==
    /\ S \subseteq Completed(r)
    /\ \A j \in S, k \in Completed(r) \ S : r.order[j] < r.order[k]

\* purgeExpiredLocked drops the oldest completed records, or none.
LEMMA PurgeDrops ==
    ASSUME NEW r, r \in Registry, NEW q \in purgeExpiredLocked(r)
    PROVE  \E S : Oldest(r, S) /\ q = removeRetainedLocked(r, S)
<1>1. PICK n \in {0} \cup {r.order[j] : j \in Completed(r)} :
          q = removeRetainedLocked(r, {j \in Completed(r) : r.order[j] <= n})
  BY DEF purgeExpiredLocked
<1>2. \A j \in Completed(r) : r.order[j] \in Nat
  BY DEF Completed, Registry
<1>3. n \in Nat
  BY <1>2
<1>4. Oldest(r, {j \in Completed(r) : r.order[j] <= n})
  BY <1>2, <1>3 DEF Oldest
<1> QED BY <1>1, <1>4

\* enforceRetentionLocked drops the oldest completed records beyond the limit.
LEMMA EnforceDrops ==
    ASSUME NEW r, Core(r)
    PROVE  /\ Oldest(r, OlderThanNewest(r, MaxRetained))
           /\ RoomKept(enforceRetentionLocked(r))
<1> DEFINE C == Completed(r)
           newer(j) == {k \in C : r.order[k] > r.order[j]}
           S == OlderThanNewest(r, MaxRetained)
<1>1. /\ IsFiniteSet(C) /\ \A j \in C : r.order[j] \in Nat
      /\ C \subseteq r.records /\ MaxRetained \in Nat \ {0}
  <2>1. C \subseteq r.records
    BY DEF Completed
  <2>2. IsFiniteSet(C)
    BY <2>1, FS_Subset DEF Core, RecordsMatch
  <2>3. \A j \in C : r.order[j] \in Nat
    BY DEF Core, RecordsMatch, Registry, Completed
  <2> QED BY <2>1, <2>2, <2>3, LimitsAssumption
<1>2. S = {j \in C : Cardinality(newer(j)) >= MaxRetained} /\ S \subseteq C
  BY DEF OlderThanNewest
<1> HIDE DEF C, S
<1>3. \A j \in C : IsFiniteSet(newer(j)) /\ Cardinality(newer(j)) \in Nat
  BY <1>1, FS_Subset, FS_CardinalityType
<1>4. ASSUME NEW j \in S, NEW k \in C \ S
      PROVE  r.order[j] < r.order[k]
  <2> SUFFICES ASSUME r.order[k] <= r.order[j] PROVE FALSE
    BY <1>1, <1>2
  <2>1. newer(j) \subseteq newer(k)
    BY <1>1, <1>2
  <2>2. Cardinality(newer(j)) <= Cardinality(newer(k))
    BY <1>2, <1>3, <2>1, FS_Subset
  <2>3. Cardinality(newer(j)) >= MaxRetained /\ ~ (Cardinality(newer(k)) >= MaxRetained)
    BY <1>2
  <2> HIDE DEF newer
  <2> QED BY <1>1, <1>2, <1>3, <2>2, <2>3
<1>5. Oldest(r, S)
  BY <1>2, <1>4 DEF Oldest, C
<1>6. Completed(enforceRetentionLocked(r)) = C \ S
  BY <1>2, RemovePreserves DEF enforceRetentionLocked, C, S
<1>7. Cardinality(C \ S) <= MaxRetained
  <2>1. CASE C \ S = {}
    BY <2>1, <1>1, FS_EmptySet
  <2>2. CASE C \ S # {}
    <3>1. PICK n \in {r.order[j] : j \in C \ S} : \A m \in {r.order[j] : j \in C \ S} : n <= m
      <4>1. {r.order[j] : j \in C \ S} \in SUBSET Nat /\ {r.order[j] : j \in C \ S} # {}
        BY <1>1, <2>2
      <4> QED BY <4>1, LeastNatural
    <3>2. PICK o \in C \ S : n = r.order[o]
      OBVIOUS
    <3>3. \A j \in C \ S : j # o => r.order[o] < r.order[j]
      BY <1>1, <3>1, <3>2 DEF Core, OrdersDiffer, C
    <3>4. (C \ S) \ {o} \subseteq newer(o)
      BY <3>3, <1>1
    <3>5. /\ IsFiniteSet(C \ S)
          /\ Cardinality((C \ S) \ {o}) = Cardinality(C \ S) - 1
          /\ Cardinality(C \ S) \in Nat
      BY <1>1, FS_Difference, FS_RemoveElement, FS_CardinalityType
    <3>6. Cardinality((C \ S) \ {o}) <= Cardinality(newer(o))
      BY <1>3, <3>4, FS_Subset
    <3>7. ~ (Cardinality(newer(o)) >= MaxRetained)
      BY <1>2
    <3> HIDE DEF newer
    <3> QED BY <1>1, <1>3, <3>5, <3>6, <3>7
  <2> QED BY <2>1, <2>2
<1> QED BY <1>5, <1>6, <1>7 DEF RoomKept, S

-----------------------------------------------------------------------------
(* Events, and the jobs that end.                                          *)

\* emitLocked appends to the streams of S and leaves everything else.
LEMMA EmitAppends ==
    ASSUME NEW r \in Registry, NEW S \in SUBSET Job, NEW type \in EventType
    PROVE  LET q == emitLocked(r, S, type)
           IN /\ q \in Registry /\ SameControl(r, q)
              /\ q.records = r.records /\ q.state = r.state /\ q.reason = r.reason
              /\ q.number = r.number /\ q.order = r.order /\ q.completions = r.completions
              /\ q.size = r.size /\ q.bytes = r.bytes
              /\ \A j \in S : q.log[j] = Append(r.log[j], type)
              /\ \A j \in Job \ S : q.log[j] = r.log[j]
<1> DEFINE log == [j \in Job |-> IF j \in S THEN Append(r.log[j], type) ELSE r.log[j]]
           q == emitLocked(r, S, type)
<1>1. \A j \in Job : r.log[j] \in Seq(EventType)
  BY DEF Registry
<1>2. \A j \in Job : Append(r.log[j], type) \in Seq(EventType)
  BY <1>1, AppendProperties
<1>3. log \in [Job -> Seq(EventType)]
  BY <1>1, <1>2
<1>4. q = [r EXCEPT !.log = log]
  BY DEF emitLocked
<1>5. /\ \A j \in S : log[j] = Append(r.log[j], type)
      /\ \A j \in Job \ S : log[j] = r.log[j]
  OBVIOUS
<1> HIDE DEF log, q
<1>6. q \in Registry /\ q.log = log
  BY <1>3, <1>4 DEF Registry
<1>7. /\ SameControl(r, q)
      /\ q.records = r.records /\ q.state = r.state /\ q.reason = r.reason
      /\ q.number = r.number /\ q.order = r.order /\ q.completions = r.completions
      /\ q.size = r.size /\ q.bytes = r.bytes
  BY <1>4 DEF SameControl, Registry
<1> QED BY <1>5, <1>6, <1>7 DEF q

\* The events of the model, and which of them are terminal.
LEMMA TerminalEvents ==
    /\ \A s \in Terminal : EventOf(s) \in EventType /\ IsTerminalEvent(EventOf(s))
    /\ \A s \in Terminal, t \in Terminal : EventOf(s) = EventOf(t) => s = t
    /\ \A e \in {"job.queued", "job.started", "job.cancel_requested"} : ~ IsTerminalEvent(e)
<1>1. /\ EventOf("SUCCEEDED") = "job.completed"
      /\ EventOf("FAILED") = "job.failed"
      /\ EventOf("CANCELLED") = "job.cancelled"
  BY DEF EventOf
<1>2. \A e : IsTerminalEvent(e) <=> e \in {"job.completed", "job.failed", "job.cancelled"}
  BY <1>1 DEF IsTerminalEvent, Terminal
<1>3. ASSUME NEW s \in Terminal PROVE EventOf(s) \in EventType /\ IsTerminalEvent(EventOf(s))
  <2>1. s = "SUCCEEDED" \/ s = "FAILED" \/ s = "CANCELLED"
    BY DEF Terminal
  <2>2. EventOf(s) \in {"job.completed", "job.failed", "job.cancelled"}
    BY <1>1, <2>1
  <2>3. EventOf(s) \in EventType
    BY <2>2 DEF EventType
  <2> QED BY <1>2, <2>2, <2>3
<1>4. ASSUME NEW s \in Terminal, NEW t \in Terminal, EventOf(s) = EventOf(t) PROVE s = t
  <2>1. /\ s = "SUCCEEDED" \/ s = "FAILED" \/ s = "CANCELLED"
        /\ t = "SUCCEEDED" \/ t = "FAILED" \/ t = "CANCELLED"
    BY DEF Terminal
  <2> QED BY <1>1, <1>4, <2>1
<1>5. \A e \in {"job.queued", "job.started", "job.cancel_requested"} : ~ IsTerminalEvent(e)
  BY <1>2
<1> QED BY <1>3, <1>4, <1>5

\* A stream that has an event appended keeps its form: the log of a job that
\* is not terminal may grow, and a terminal event ends it.
LEMMA AppendStreams ==
    ASSUME NEW log \in Seq(EventType), log # <<>>, log[1] = "job.queued",
           \A i \in 1..(Len(log) - 1) : ~ IsTerminalEvent(log[i]),
           ~ IsTerminalEvent(log[Len(log)]),
           NEW type \in EventType
    PROVE  LET new == Append(log, type)
           IN /\ new # <<>> /\ new[1] = "job.queued"
              /\ \A i \in 1..(Len(new) - 1) : ~ IsTerminalEvent(new[i])
              /\ new[Len(new)] = type
<1>1. Len(log) \in Nat \ {0}
  BY EmptySeq
<1>2. /\ Append(log, type) # <<>>
      /\ Len(Append(log, type)) = Len(log) + 1
      /\ \A i \in 1..Len(log) : Append(log, type)[i] = log[i]
      /\ Append(log, type)[Len(log) + 1] = type
  BY AppendProperties
<1> QED BY <1>1, <1>2

\* m is r after the jobs of T have ended with the given state.
Ended(r, m, T, state) ==
    /\ SameControl(r, m)
    /\ m.records = r.records /\ m.reason = r.reason /\ m.number = r.number
    /\ m.size = r.size /\ m.bytes = r.bytes
    /\ \A j \in T : m.state[j] = state /\ m.order[j] > r.completions
    /\ \A j \in Job \ T : m.state[j] = r.state[j] /\ m.order[j] = r.order[j]

\* markCompletedLocked makes the jobs of T the newest completed ones.
LEMMA MarkOrders ==
    ASSUME NEW r, Core(r), NEW T \in SUBSET (r.records \ Completed(r)), NEW state \in Terminal
    PROVE  LET m == markCompletedLocked(r, T, state)
           IN /\ m \in Registry /\ Ended(r, m, T, state) /\ m.log = r.log
              /\ \A j \in T : m.order[j] <= m.completions
              /\ \A j, k \in T : m.order[j] = m.order[k] => j = k
              /\ m.completions >= r.completions
<1> DEFINE rank(j) == Cardinality({k \in T : r.number[k] <= r.number[j]})
           states == [j \in Job |-> IF j \in T THEN state ELSE r.state[j]]
           orders == [j \in Job |-> IF j \in T THEN r.completions + rank(j) ELSE r.order[j]]
           m == markCompletedLocked(r, T, state)
<1>1. /\ r \in Registry /\ r.records \subseteq Job /\ T \subseteq r.records /\ T \subseteq Job
      /\ IsFiniteSet(T) /\ Cardinality(T) \in Nat /\ r.completions \in Nat
      /\ \A j \in Job : r.number[j] \in Nat /\ r.order[j] \in Nat /\ r.state[j] \in State
  <2>1. r \in Registry /\ IsFiniteSet(r.records) /\ T \subseteq r.records
    BY DEF Core, RecordsMatch
  <2>2. IsFiniteSet(T) /\ Cardinality(T) \in Nat
    BY <2>1, FS_Subset, FS_CardinalityType
  <2> QED BY <2>1, <2>2 DEF Registry
<1>2. \A i, j \in T : r.number[i] = r.number[j] => i = j
  BY <1>1 DEF Core, NumbersDiffer
<1>3. /\ \A j \in T : rank(j) \in 1..Cardinality(T)
      /\ \A i, j \in T : rank(i) = rank(j) => i = j
  <2>1. \A k \in T : r.number[k] \in Int
    BY <1>1
  <2>2. \A j \in T : rank(j) = Rank(r.number, T, j)
    BY DEF Rank
  <2> HIDE DEF rank
  <2>3. /\ \A j \in T : Rank(r.number, T, j) \in 1..Cardinality(T)
        /\ \A i, j \in T : Rank(r.number, T, i) = Rank(r.number, T, j) => i = j
    BY <1>1, <1>2, <2>1, RanksNumber
  <2> QED BY <2>2, <2>3
<1> HIDE DEF rank
<1>4. states \in [Job -> State] /\ orders \in [Job -> Nat]
  BY <1>1, <1>3 DEF State
<1>5. m = [r EXCEPT !.state = states, !.order = orders, !.completions = r.completions + Cardinality(T)]
  BY DEF markCompletedLocked, rank
<1>6. /\ \A j \in T : states[j] = state /\ orders[j] = r.completions + rank(j)
      /\ \A j \in Job \ T : states[j] = r.state[j] /\ orders[j] = r.order[j]
  BY <1>1
<1> HIDE DEF states, orders, m
<1>7. r.completions + Cardinality(T) \in Nat
  BY <1>1
<1>8. /\ m \in Registry /\ m.state = states /\ m.order = orders
      /\ m.completions = r.completions + Cardinality(T)
  BY <1>1, <1>4, <1>5, <1>7 DEF Registry
<1>9. /\ SameControl(r, m)
      /\ m.records = r.records /\ m.reason = r.reason /\ m.number = r.number
      /\ m.size = r.size /\ m.bytes = r.bytes /\ m.log = r.log
  BY <1>1, <1>5 DEF SameControl, Registry
<1>10. Ended(r, m, T, state)
  BY <1>1, <1>3, <1>6, <1>8, <1>9 DEF Ended
<1>11. /\ \A j \in T : m.order[j] <= m.completions
       /\ \A j, k \in T : m.order[j] = m.order[k] => j = k
       /\ m.completions >= r.completions
  BY <1>1, <1>3, <1>6, <1>8
<1> QED BY <1>8, <1>9, <1>10, <1>11 DEF m

\* The state in which finishLocked enforces retention.
ended(r, T, state) == emitLocked(markCompletedLocked(r, T, state), T, EventOf(state))

\* Ending jobs keeps the registry consistent; retention is still to come.
LEMMA EndPreserves ==
    ASSUME NEW r, Core(r), NEW T \in SUBSET (r.records \ Completed(r)), NEW state \in Terminal
    PROVE  LET m == ended(r, T, state)
           IN /\ Core(m) /\ Ended(r, m, T, state)
              /\ Completed(m) = Completed(r) \cup T
              /\ (\A j \in r.records \ T : r.size[j] > 0 => r.state[j] \in Terminal)
                    => ResultsCompleted(m)
              /\ QueueOrdered(r) /\ (\A j \in T : /\ j \notin r.dispatching
                                                  /\ \A i \in DOMAIN r.queue : r.queue[i] # j)
                    => QueueOrdered(m)
<1> DEFINE n == markCompletedLocked(r, T, state)
           m == emitLocked(n, T, EventOf(state))
<1>1. /\ n \in Registry /\ Ended(r, n, T, state) /\ n.log = r.log
      /\ \A j \in T : n.order[j] <= n.completions
      /\ \A j, k \in T : n.order[j] = n.order[k] => j = k
      /\ n.completions >= r.completions
  BY MarkOrders
<1>2. /\ r \in Registry /\ r.records \subseteq Job /\ T \subseteq r.records
      /\ state \in {"SUCCEEDED", "FAILED", "CANCELLED"}
  BY DEF Core, RecordsMatch, Registry, Terminal
<1>3. EventOf(state) \in EventType /\ IsTerminalEvent(EventOf(state))
  BY TerminalEvents
<1> HIDE DEF n
<1>4. /\ m \in Registry /\ SameControl(n, m)
      /\ m.records = n.records /\ m.state = n.state /\ m.reason = n.reason
      /\ m.number = n.number /\ m.order = n.order /\ m.completions = n.completions
      /\ m.size = n.size /\ m.bytes = n.bytes
      /\ \A j \in T : m.log[j] = Append(n.log[j], EventOf(state))
      /\ \A j \in Job \ T : m.log[j] = n.log[j]
  <2>1. T \in SUBSET Job
    BY <1>2
  <2> QED BY <1>1, <1>3, <2>1, EmitAppends
<1> HIDE DEF m
<1>5. Ended(r, m, T, state)
  BY <1>1, <1>4 DEF Ended, SameControl
<1>6. Completed(m) = Completed(r) \cup T
  BY <1>2, <1>5 DEF Ended, Completed, Terminal
<1>7. RecordsMatch(m)
  <2>1. \A j \in Job : j \in m.records <=> m.state[j] \notin {"NEW", "GONE"}
    BY <1>2, <1>5 DEF Ended, Core, RecordsMatch
  <2>2. \A j \in Job \ m.records : m.size[j] = 0 /\ m.reason[j] = None /\ m.log[j] = <<>>
    BY <1>1, <1>2, <1>4, <1>5 DEF Ended, Core, RecordsMatch
  <2> QED BY <1>4, <1>5, <2>1, <2>2 DEF Ended, Core, RecordsMatch
<1>8. NumbersDiffer(m)
  BY <1>5 DEF Ended, SameControl, Core, NumbersDiffer
<1>9. OrdersDiffer(m)
  <2>1. \A j \in Job : r.order[j] \in Nat /\ m.order[j] \in Nat
    BY <1>2, <1>4 DEF Registry
  <2>2. m.completions \in Nat /\ r.completions \in Nat
    BY <1>2, <1>4 DEF Registry
  <2>3. \A j \in Completed(r) : /\ m.order[j] = r.order[j] /\ r.order[j] > 0
                                /\ r.order[j] <= r.completions
    BY <1>2, <1>5 DEF Ended, Core, OrdersDiffer, Completed
  <2>4. \A j \in T : m.order[j] > r.completions /\ m.order[j] <= m.completions
    BY <1>1, <1>4, <1>5 DEF Ended
  <2>5. \A j, k \in Completed(r) : m.order[j] = m.order[k] => j = k
    BY <2>3 DEF Core, OrdersDiffer
  <2>6. \A j, k \in T : m.order[j] = m.order[k] => j = k
    BY <1>1, <1>4
  <2>7. T \subseteq Job /\ Completed(r) \subseteq Job /\ m.completions >= r.completions
    BY <1>1, <1>2, <1>4 DEF Completed
  <2>8. \A j \in Completed(m) : m.order[j] > 0 /\ m.order[j] <= m.completions
    BY <1>6, <2>1, <2>2, <2>3, <2>4, <2>7
  <2>9. ASSUME NEW j \in Completed(m), NEW k \in Completed(m), m.order[j] = m.order[k]
        PROVE  j = k
    <3>1. j \in Completed(r) <=> m.order[j] <= r.completions
      BY <1>6, <2>1, <2>2, <2>3, <2>4, <2>7
    <3>2. k \in Completed(r) <=> m.order[k] <= r.completions
      BY <1>6, <2>1, <2>2, <2>3, <2>4, <2>7
    <3> QED BY <1>6, <2>5, <2>6, <2>9, <3>1, <3>2
  <2> QED BY <2>8, <2>9 DEF OrdersDiffer
<1>10. BytesCounted(m)
  <2>1. Bytes(m, m.records) = Bytes(r, r.records)
    BY <1>5, BytesSame DEF Ended
  <2> QED BY <1>5, <2>1 DEF Ended, Core, BytesCounted
<1>11. Streamed(m)
  <2> SUFFICES ASSUME NEW j \in m.records
               PROVE  LET log == m.log[j] IN
                      /\ log # <<>> /\ log[1] = "job.queued"
                      /\ \A i \in 1..(Len(log) - 1) : ~ IsTerminalEvent(log[i])
                      /\ IsTerminalEvent(log[Len(log)]) <=> m.state[j] \in Terminal
                      /\ m.state[j] \in Terminal => log[Len(log)] = EventOf(m.state[j])
    BY DEF Streamed
  <2>1. j \in r.records /\ j \in Job
    BY <1>2, <1>5 DEF Ended
  <2>2. CASE j \in T
    <3>1. /\ r.log[j] \in Seq(EventType) /\ m.log[j] = Append(r.log[j], EventOf(state))
          /\ m.state[j] = state
      BY <1>1, <1>2, <1>4, <1>5, <2>1, <2>2 DEF Ended, Registry
    <3>2. /\ r.log[j] # <<>> /\ r.log[j][1] = "job.queued"
          /\ \A i \in 1..(Len(r.log[j]) - 1) : ~ IsTerminalEvent(r.log[j][i])
          /\ ~ IsTerminalEvent(r.log[j][Len(r.log[j])])
      BY <2>1, <2>2 DEF Core, Streamed, Completed
    <3>3. /\ m.log[j] # <<>> /\ m.log[j][1] = "job.queued"
          /\ \A i \in 1..(Len(m.log[j]) - 1) : ~ IsTerminalEvent(m.log[j][i])
          /\ m.log[j][Len(m.log[j])] = EventOf(state)
      BY <1>3, <3>1, <3>2, AppendStreams
    <3> QED BY <1>3, <3>1, <3>3
  <2>3. CASE j \notin T
    <3>1. m.log[j] = r.log[j] /\ m.state[j] = r.state[j]
      BY <1>1, <1>4, <1>5, <2>1, <2>3 DEF Ended
    <3> QED BY <2>1, <3>1 DEF Core, Streamed
  <2> QED BY <2>2, <2>3
<1>12. (\A j \in r.records \ T : r.size[j] > 0 => r.state[j] \in Terminal) => ResultsCompleted(m)
  BY <1>2, <1>5 DEF Ended, ResultsCompleted, Terminal
<1>13. QueueOrdered(r) /\ (\A j \in T : /\ j \notin r.dispatching
                                        /\ \A i \in DOMAIN r.queue : r.queue[i] # j)
          => QueueOrdered(m)
  <2>1. \A i \in DOMAIN r.queue : r.queue[i] \in Job
    BY <1>2, ElementOfSeq, LenProperties DEF Registry
  <2>2. r.dispatching \subseteq Job
    BY <1>2 DEF Registry
  <2> QED BY <1>5, <2>1, <2>2 DEF Ended, SameControl, QueueOrdered
<1> QED BY <1>5, <1>6, <1>7, <1>8, <1>9, <1>10, <1>11, <1>12, <1>13 DEF Core, ended, m, n

-----------------------------------------------------------------------------
(* What the threads may know of a helper: which jobs it ends, and that it  *)
(* drops completed records, the oldest first.                              *)

Kept(r, q, j) == \/ q.state[j] = r.state[j] /\ q.reason[j] = r.reason[j]
                 \/ r.state[j] \in Terminal /\ q.state[j] = "GONE" /\ q.reason[j] = None

Ends(r, q, T, state) ==
    /\ SameControl(r, q)
    /\ q.records \subseteq r.records /\ \A j \in q.records : q.number[j] = r.number[j]
    /\ \A j \in T : \/ q.state[j] = state /\ q.reason[j] = r.reason[j]
                    \/ q.state[j] = "GONE" /\ q.reason[j] = None
    /\ \A j \in Job \ T : Kept(r, q, j)

OldestFirst(r, q) ==
    \A j \in r.records \ q.records, k \in Completed(r) \cap q.records :
        /\ j \in Completed(r)
        /\ r.order[j] < r.order[k] \/ (r.size[j] > 0 /\ r.size[k] = 0)

\* purgeExpiredLocked ends no job.
LEMMA PurgePreserves ==
    ASSUME NEW r, Guarded(r), NEW q \in purgeExpiredLocked(r)
    PROVE  /\ Guarded(q) /\ OldestFirst(r, q)
           /\ SameControl(r, q) /\ q.records \subseteq r.records
           /\ \A j \in Job : Kept(r, q, j)
           /\ \A j \in q.records : /\ q.number[j] = r.number[j] /\ q.order[j] = r.order[j]
                                   /\ q.size[j] = r.size[j]
<1>1. Core(r) /\ RecordsMatch(r) /\ r \in Registry /\ r.records \subseteq Job
  BY DEF Guarded, Core, RecordsMatch, Registry
<1>2. PICK S : Oldest(r, S) /\ q = removeRetainedLocked(r, S)
  BY <1>1, PurgeDrops
<1>3. S \subseteq Completed(r) /\ S \subseteq r.records
  BY <1>2 DEF Oldest, Completed
<1>4. Guarded(q) /\ Completed(q) = Completed(r) \ S
  BY <1>1, <1>2, <1>3, RemovePreserves DEF Guarded
<1>5. Without(r, q, S)
  BY <1>1, <1>2, <1>3, RemoveDrops
<1>6. OldestFirst(r, q)
  BY <1>2, <1>3, <1>5 DEF Without, Oldest, OldestFirst
<1>7. \A j \in Job : Kept(r, q, j)
  <2>1. \A j \in S : r.state[j] \in Terminal
    BY <1>3 DEF Completed
  <2> QED BY <1>1, <1>3, <1>5, <2>1 DEF Without, Kept
<1> QED BY <1>1, <1>4, <1>5, <1>6, <1>7 DEF Without

\* A job that ends alone is not dropped by its own retention sweep.
SingleStays(q, S, state) == \A j \in S : S = {j} => q.state[j] = state

\* finishLocked ends the unfinished jobs of S, and a single one stays.
LEMMA FinishPreserves ==
    ASSUME NEW r, Core(r), NEW S \in SUBSET r.records, NEW state \in Terminal,
           NEW T, T = {j \in S : r.state[j] \notin Terminal}
    PROVE  LET q == finishLocked(r, S, state)
           IN /\ Core(q) /\ RoomKept(q) /\ OldestFirst(r, q)
              /\ Ends(r, q, T, state)
              /\ SingleStays(q, T, state)
              /\ (\A j \in r.records \ T : r.size[j] > 0 => r.state[j] \in Terminal)
                    => ResultsCompleted(q)
              /\ QueueOrdered(r) /\ (\A j \in T : /\ j \notin r.dispatching
                                                  /\ \A i \in DOMAIN r.queue : r.queue[i] # j)
                    => QueueOrdered(q)
<1> DEFINE m == ended(r, T, state)
           D == OlderThanNewest(m, MaxRetained)
           q == removeRetainedLocked(m, D)
<1>1. finishLocked(r, S, state) = q
  BY DEF finishLocked, enforceRetentionLocked, ended
<1>2. T \in SUBSET (r.records \ Completed(r)) /\ r.records \subseteq Job /\ T \subseteq Job
  BY DEF Completed, Core, RecordsMatch, Registry
<1>3. /\ Core(m) /\ Ended(r, m, T, state) /\ Completed(m) = Completed(r) \cup T
      /\ (\A j \in r.records \ T : r.size[j] > 0 => r.state[j] \in Terminal)
            => ResultsCompleted(m)
      /\ QueueOrdered(r) /\ (\A j \in T : /\ j \notin r.dispatching
                                          /\ \A i \in DOMAIN r.queue : r.queue[i] # j)
            => QueueOrdered(m)
  BY <1>2, EndPreserves
<1> HIDE DEF m
<1>4. Oldest(m, D) /\ RoomKept(q)
  BY <1>3, EnforceDrops DEF enforceRetentionLocked
<1>5. D \subseteq Completed(m) /\ D \subseteq m.records /\ RecordsMatch(m)
  BY <1>3, <1>4 DEF Oldest, Completed, Core
<1>6. /\ Core(q) /\ Completed(q) = Completed(m) \ D
      /\ ResultsCompleted(m) => ResultsCompleted(q)
      /\ QueueOrdered(m) => QueueOrdered(q)
  BY <1>3, <1>5, RemovePreserves
<1>7. Without(m, q, D)
  BY <1>5, RemoveDrops
<1>8. \A j \in Completed(r), k \in T : m.order[j] < m.order[k]
  <2>1. \A j \in Completed(r) : m.order[j] = r.order[j] /\ r.order[j] <= r.completions
    BY <1>2, <1>3 DEF Ended, Core, OrdersDiffer, Completed
  <2>2. \A j \in Job : r.order[j] \in Nat /\ m.order[j] \in Nat
    BY <1>3 DEF Core, RecordsMatch, Registry
  <2>3. r.completions \in Nat
    BY DEF Core, RecordsMatch, Registry
  <2>4. Completed(r) \subseteq Job
    BY <1>2 DEF Completed
  <2> QED BY <1>2, <1>3, <2>1, <2>2, <2>3, <2>4 DEF Ended
<1> HIDE DEF D, q
<1>9. OldestFirst(r, q)
  <2> SUFFICES ASSUME NEW j \in r.records \ q.records, NEW k \in Completed(r) \cap q.records
               PROVE  j \in Completed(r) /\ r.order[j] < r.order[k]
    BY DEF OldestFirst
  <2>1. j \in D /\ k \in Completed(m) \ D /\ j \in Completed(r) \cup T
    BY <1>3, <1>4, <1>5, <1>7 DEF Without, Ended, Oldest
  <2>2. m.order[j] < m.order[k]
    BY <1>4, <2>1 DEF Oldest
  <2>3. \A i \in Completed(r) : m.order[i] = r.order[i] /\ i \in Job /\ m.order[i] \in Nat
    BY <1>2, <1>3 DEF Ended, Core, RecordsMatch, Registry, Completed
  <2>4. \A i \in T : m.order[i] \in Nat
    BY <1>2, <1>3 DEF Core, RecordsMatch, Registry
  <2> QED BY <1>8, <2>1, <2>2, <2>3, <2>4
<1>10. Ends(r, q, T, state)
  <2>1. SameControl(r, q)
    BY <1>3, <1>7 DEF Without, Ended, SameControl
  <2>2. q.records \subseteq r.records /\ \A j \in q.records : q.number[j] = r.number[j]
    BY <1>2, <1>3, <1>7 DEF Without, Ended
  <2>3. \A j \in T : \/ q.state[j] = state /\ q.reason[j] = r.reason[j]
                     \/ q.state[j] = "GONE" /\ q.reason[j] = None
    BY <1>2, <1>3, <1>7 DEF Without, Ended
  <2>4. \A j \in Job \ T : Kept(r, q, j)
    BY <1>2, <1>3, <1>5, <1>7 DEF Without, Ended, Completed, Kept
  <2> QED BY <2>1, <2>2, <2>3, <2>4 DEF Ends
<1>11. ASSUME NEW j \in T, T = {j} PROVE q.state[j] = state
  <2>1. j \notin D
    <3>1. \A k \in Completed(m) : ~ (m.order[k] > m.order[j])
      <4>1. Completed(m) = Completed(r) \cup {j}
        BY <1>3, <1>11
      <4>2. \A k \in Completed(r) : m.order[k] < m.order[j]
        BY <1>8, <1>11
      <4>3. \A k \in Completed(m) : m.order[k] \in Nat
        BY <1>3 DEF Core, RecordsMatch, Registry, Completed
      <4> QED BY <4>1, <4>2, <4>3
    <3>2. {k \in Completed(m) : m.order[k] > m.order[j]} = {}
      BY <3>1
    <3>3. Cardinality({k \in Completed(m) : m.order[k] > m.order[j]}) = 0
      BY <3>2, FS_EmptySet
    <3> QED BY <3>3, LimitsAssumption DEF D, OlderThanNewest
  <2> QED BY <1>2, <1>3, <1>7, <1>11, <2>1 DEF Without, Ended
<1> QED BY <1>1, <1>3, <1>4, <1>6, <1>9, <1>10, <1>11 DEF q, SingleStays

\* finishLocked on a single job, which stays.
LEMMA FinishOne ==
    ASSUME NEW r, Core(r), NEW j \in r.records, r.state[j] \notin Terminal,
           NEW state \in Terminal
    PROVE  LET q == finishLocked(r, {j}, state)
           IN /\ Core(q) /\ RoomKept(q) /\ OldestFirst(r, q)
              /\ Ends(r, q, {j}, state) /\ q.state[j] = state
              /\ (\A k \in r.records \ {j} : r.size[k] > 0 => r.state[k] \in Terminal)
                    => ResultsCompleted(q)
              /\ QueueOrdered(r) /\ j \notin r.dispatching
                 /\ (\A i \in DOMAIN r.queue : r.queue[i] # j)
                    => QueueOrdered(q)
<1>1. PICK S : S = {j}
  OBVIOUS
<1>2. S \in SUBSET r.records /\ S = {k \in S : r.state[k] \notin Terminal} /\ j \in S
  BY <1>1
<1> DEFINE q == finishLocked(r, S, state)
<1>3. /\ Core(q) /\ RoomKept(q) /\ OldestFirst(r, q) /\ Ends(r, q, S, state)
      /\ (\A k \in r.records \ S : r.size[k] > 0 => r.state[k] \in Terminal)
            => ResultsCompleted(q)
      /\ QueueOrdered(r) /\ (\A k \in S : /\ k \notin r.dispatching
                                          /\ \A i \in DOMAIN r.queue : r.queue[i] # k)
            => QueueOrdered(q)
  BY <1>2, FinishPreserves
<1>4. SingleStays(q, S, state)
  BY <1>2, FinishPreserves
<1> HIDE DEF q
<1>5. q.state[j] = state
  BY <1>1, <1>2, <1>4 DEF SingleStays
<1> QED BY <1>1, <1>3, <1>5 DEF q

-----------------------------------------------------------------------------
(* Intent.                                                                 *)

\* request records the first reason, and nothing else.
LEMMA RequestRecords ==
    ASSUME NEW r, Core(r), NEW S \in SUBSET r.records, NEW why \in Reason
    PROVE  LET q == request(r, S, why)
           IN /\ Core(q) /\ SameControl(r, q) /\ q.records = r.records
              /\ q.state = r.state /\ q.number = r.number /\ q.order = r.order
              /\ q.completions = r.completions /\ q.size = r.size /\ q.log = r.log
              /\ \A j \in Job : q.reason[j] = IF j \in S /\ r.reason[j] = None
                                              THEN why ELSE r.reason[j]
              /\ Completed(q) = Completed(r)
              /\ ResultsCompleted(r) => ResultsCompleted(q)
              /\ RoomKept(r) => RoomKept(q)
              /\ QueueOrdered(r) => QueueOrdered(q)
<1> DEFINE reasons == [j \in Job |-> IF j \in S /\ r.reason[j] = None THEN why ELSE r.reason[j]]
           q == request(r, S, why)
<1>1. r \in Registry /\ r.records \subseteq Job
  BY DEF Core, RecordsMatch, Registry
<1>2. q = [r EXCEPT !.reason = reasons]
  BY DEF request
<1>3. reasons \in [Job -> Reason \cup {None}]
  BY <1>1 DEF Registry
<1>4. \A j \in Job : reasons[j] = IF j \in S /\ r.reason[j] = None THEN why ELSE r.reason[j]
  OBVIOUS
<1> HIDE DEF reasons, q
<1>5. q \in Registry /\ q.reason = reasons
  BY <1>1, <1>2, <1>3 DEF Registry
<1>6. /\ q.queue = r.queue /\ q.dispatching = r.dispatching
      /\ q.slots = r.slots /\ q.submissions = r.submissions
      /\ q.stopped = r.stopped /\ q.reserved = r.reserved
      /\ q.shutdownDone = r.shutdownDone /\ q.records = r.records
      /\ q.state = r.state /\ q.number = r.number /\ q.order = r.order
      /\ q.completions = r.completions /\ q.size = r.size /\ q.log = r.log
      /\ q.bytes = r.bytes
  BY <1>1, <1>2 DEF Registry
<1>7. RecordsMatch(q)
  BY <1>1, <1>4, <1>5, <1>6 DEF Core, RecordsMatch
<1>8. Completed(q) = Completed(r)
  BY <1>6 DEF Completed
<1>9. /\ NumbersDiffer(q) /\ OrdersDiffer(q)
      /\ ResultsCompleted(r) => ResultsCompleted(q)
      /\ RoomKept(r) => RoomKept(q)
      /\ QueueOrdered(r) => QueueOrdered(q)
  BY <1>6, <1>8
     DEF Core, NumbersDiffer, OrdersDiffer, ResultsCompleted, RoomKept, QueueOrdered
<1>10. BytesCounted(q) /\ Streamed(q)
  BY <1>6 DEF Core, BytesCounted, Bytes, Streamed
<1> QED BY <1>4, <1>5, <1>6, <1>7, <1>8, <1>9, <1>10 DEF Core, SameControl, q

\* intendLocked shows the intent on running jobs, and changes no other state.
LEMMA IntendPreserves ==
    ASSUME NEW r, Core(r), NEW S \in SUBSET Alive(r), NEW why \in Reason
    PROVE  LET q == intendLocked(r, S, why)
           IN /\ Core(q) /\ SameControl(r, q) /\ q.records = r.records
              /\ q.number = r.number /\ q.order = r.order
              /\ q.completions = r.completions /\ q.size = r.size
              /\ \A j \in Job : /\ q.reason[j] = IF j \in S /\ r.reason[j] = None
                                                 THEN why ELSE r.reason[j]
                                /\ q.state[j] = IF j \in S /\ r.state[j] = "RUNNING"
                                                THEN "CANCELLING" ELSE r.state[j]
              /\ Completed(q) = Completed(r)
              /\ ResultsCompleted(r) => ResultsCompleted(q)
              /\ RoomKept(r) => RoomKept(q)
              /\ QueueOrdered(r) => QueueOrdered(q)
<1> DEFINE a == request(r, S, why)
           states == [j \in Job |-> IF j \in S /\ a.state[j] = "RUNNING"
                                    THEN "CANCELLING" ELSE a.state[j]]
           b == [a EXCEPT !.state = states]
           q == emitLocked(b, S, "job.cancel_requested")
<1>0. intendLocked(r, S, why) = q
  BY DEF intendLocked
<1>1. /\ r \in Registry /\ r.records \subseteq Job /\ S \subseteq r.records
      /\ \A j \in S : r.state[j] \notin Terminal /\ j \in Job
  BY DEF Core, RecordsMatch, Registry, Alive
<1>2. /\ Core(a) /\ SameControl(r, a) /\ a.records = r.records
      /\ a.state = r.state /\ a.number = r.number /\ a.order = r.order
      /\ a.completions = r.completions /\ a.size = r.size /\ a.log = r.log
      /\ \A j \in Job : a.reason[j] = IF j \in S /\ r.reason[j] = None
                                      THEN why ELSE r.reason[j]
      /\ Completed(a) = Completed(r)
  BY <1>1, RequestRecords
<1> HIDE DEF a
<1>3. states \in [Job -> State]
  BY <1>1, <1>2 DEF Registry, State
<1>4. \A j \in Job : states[j] = IF j \in S /\ r.state[j] = "RUNNING"
                                 THEN "CANCELLING" ELSE r.state[j]
  BY <1>2
<1>5. a \in Registry
  BY <1>2 DEF Core, RecordsMatch
<1> HIDE DEF states
<1>6. /\ b \in Registry /\ b.state = states
      /\ b.queue = a.queue /\ b.dispatching = a.dispatching
      /\ b.slots = a.slots /\ b.submissions = a.submissions
      /\ b.stopped = a.stopped /\ b.reserved = a.reserved
      /\ b.shutdownDone = a.shutdownDone /\ b.records = a.records
      /\ b.reason = a.reason /\ b.number = a.number /\ b.order = a.order
      /\ b.completions = a.completions /\ b.size = a.size /\ b.log = a.log
      /\ b.bytes = a.bytes
  BY <1>3, <1>5 DEF Registry
<1> HIDE DEF b
<1>7. /\ q \in Registry /\ SameControl(b, q)
      /\ q.records = b.records /\ q.state = b.state /\ q.reason = b.reason
      /\ q.number = b.number /\ q.order = b.order /\ q.completions = b.completions
      /\ q.size = b.size /\ q.bytes = b.bytes
      /\ \A j \in S : q.log[j] = Append(b.log[j], "job.cancel_requested")
      /\ \A j \in Job \ S : q.log[j] = b.log[j]
  <2>1. S \in SUBSET Job /\ "job.cancel_requested" \in EventType
    BY <1>1 DEF EventType
  <2> QED BY <1>6, <2>1, EmitAppends
<1> HIDE DEF q
<1>8. SameControl(r, q)
  BY <1>2, <1>6, <1>7 DEF SameControl
<1>9. /\ q.records = r.records /\ q.number = r.number /\ q.order = r.order
      /\ q.completions = r.completions /\ q.size = r.size /\ q.bytes = a.bytes
      /\ \A j \in Job : /\ q.reason[j] = a.reason[j]
                        /\ q.state[j] = IF j \in S /\ r.state[j] = "RUNNING"
                                        THEN "CANCELLING" ELSE r.state[j]
  BY <1>2, <1>4, <1>6, <1>7
<1>10. \A j \in Job : q.state[j] \in Terminal <=> r.state[j] \in Terminal
  BY <1>9 DEF Terminal
<1>11. Completed(q) = Completed(r)
  BY <1>1, <1>9, <1>10 DEF Completed
<1>12. RecordsMatch(q)
  <2>1. \A j \in Job : j \in q.records <=> q.state[j] \notin {"NEW", "GONE"}
    BY <1>9 DEF Core, RecordsMatch
  <2>2. \A j \in Job \ q.records : q.size[j] = 0 /\ q.reason[j] = None /\ q.log[j] = <<>>
    BY <1>1, <1>2, <1>6, <1>7, <1>9 DEF Core, RecordsMatch
  <2> QED BY <1>7, <1>9, <2>1, <2>2 DEF Core, RecordsMatch
<1>13. NumbersDiffer(q) /\ OrdersDiffer(q)
  BY <1>8, <1>9, <1>11 DEF SameControl, Core, NumbersDiffer, OrdersDiffer
<1>14. BytesCounted(q)
  BY <1>2, <1>9 DEF Core, BytesCounted, Bytes
<1>15. Streamed(q)
  <2> SUFFICES ASSUME NEW j \in q.records
               PROVE  LET log == q.log[j] IN
                      /\ log # <<>> /\ log[1] = "job.queued"
                      /\ \A i \in 1..(Len(log) - 1) : ~ IsTerminalEvent(log[i])
                      /\ IsTerminalEvent(log[Len(log)]) <=> q.state[j] \in Terminal
                      /\ q.state[j] \in Terminal => log[Len(log)] = EventOf(q.state[j])
    BY DEF Streamed
  <2>1. j \in r.records /\ j \in Job
    BY <1>1, <1>9
  <2>2. CASE j \in S
    <3>1. /\ r.log[j] \in Seq(EventType)
          /\ q.log[j] = Append(r.log[j], "job.cancel_requested")
          /\ q.state[j] \notin Terminal
      BY <1>1, <1>2, <1>6, <1>7, <1>10, <2>1, <2>2, SMTT(20) DEF Registry
    <3>2. /\ r.log[j] # <<>> /\ r.log[j][1] = "job.queued"
          /\ \A i \in 1..(Len(r.log[j]) - 1) : ~ IsTerminalEvent(r.log[j][i])
          /\ ~ IsTerminalEvent(r.log[j][Len(r.log[j])])
      BY <1>1, <2>1, <2>2 DEF Core, Streamed
    <3>3. /\ q.log[j] # <<>> /\ q.log[j][1] = "job.queued"
          /\ \A i \in 1..(Len(q.log[j]) - 1) : ~ IsTerminalEvent(q.log[j][i])
          /\ q.log[j][Len(q.log[j])] = "job.cancel_requested"
      <4>1. "job.cancel_requested" \in EventType
        BY DEF EventType
      <4> QED BY <3>1, <3>2, <4>1, AppendStreams
    <3>4. ~ IsTerminalEvent("job.cancel_requested")
      BY TerminalEvents
    <3> QED BY <3>1, <3>3, <3>4
  <2>3. CASE j \notin S
    <3>1. q.log[j] = r.log[j] /\ q.state[j] = r.state[j]
      BY <1>2, <1>6, <1>7, <1>9, <2>1, <2>3
    <3> QED BY <2>1, <3>1 DEF Core, Streamed
  <2> QED BY <2>2, <2>3
<1>16. /\ ResultsCompleted(r) => ResultsCompleted(q)
       /\ RoomKept(r) => RoomKept(q)
  BY <1>1, <1>9, <1>10, <1>11 DEF ResultsCompleted, RoomKept
<1>17. QueueOrdered(r) => QueueOrdered(q)
  <2>1. \A i \in DOMAIN r.queue : r.queue[i] \in Job
    BY <1>1, ElementOfSeq, LenProperties DEF Registry
  <2>2. r.dispatching \subseteq Job
    BY <1>1 DEF Registry
  <2> QED BY <1>8, <1>9, <2>1, <2>2 DEF SameControl, QueueOrdered
<1> QED BY <1>0, <1>2, <1>8, <1>9, <1>11, <1>12, <1>13, <1>14, <1>15, <1>16, <1>17 DEF Core

-----------------------------------------------------------------------------
(* The queue.                                                              *)

Queued(r) == {r.queue[i] : i \in DOMAIN r.queue}

\* A section that leaves the queue leaves the same jobs in it.
LEMMA SameQueue ==
    ASSUME NEW r, NEW q, q.queue = r.queue
    PROVE  Queued(q) = Queued(r)
BY DEF Queued

SameRecords(r, q) ==
    /\ q.records = r.records /\ q.state = r.state /\ q.reason = r.reason
    /\ q.number = r.number /\ q.submissions = r.submissions
    /\ q.order = r.order /\ q.completions = r.completions
    /\ q.size = r.size /\ q.bytes = r.bytes /\ q.log = r.log

\* What is said of the records does not depend on queue, slots and flags.
LEMMA ControlPreserves ==
    ASSUME NEW r, Core(r), NEW q \in Registry, SameRecords(r, q)
    PROVE  /\ Core(q) /\ Completed(q) = Completed(r)
           /\ ResultsCompleted(r) => ResultsCompleted(q)
           /\ RoomKept(r) => RoomKept(q)
<1>1. Completed(q) = Completed(r)
  BY DEF SameRecords, Completed
<1>2. RecordsMatch(q) /\ NumbersDiffer(q) /\ BytesCounted(q) /\ Streamed(q)
  BY DEF SameRecords, Core, RecordsMatch, NumbersDiffer, BytesCounted, Bytes, Streamed
<1>3. OrdersDiffer(q)
  BY <1>1 DEF SameRecords, Core, OrdersDiffer
<1>4. /\ ResultsCompleted(r) => ResultsCompleted(q)
      /\ RoomKept(r) => RoomKept(q)
  BY <1>1 DEF SameRecords, ResultsCompleted, RoomKept
<1> QED BY <1>1, <1>2, <1>3, <1>4 DEF Core

\* dequeue takes the jobs of S out and keeps the others in their order.
LEMMA DequeueKeeps ==
    ASSUME NEW r \in Registry, NEW S
    PROVE  LET q == dequeue(r, S)
           IN /\ q \in Registry /\ SameRecords(r, q)
              /\ q.dispatching = r.dispatching /\ q.slots = r.slots
              /\ q.stopped = r.stopped /\ q.reserved = r.reserved
              /\ q.shutdownDone = r.shutdownDone
              /\ Queued(q) = Queued(r) \ S
              /\ Len(q.queue) <= Len(r.queue)
              /\ QueueOrdered(r) => QueueOrdered(q)
<1> DEFINE queue == r.queue
           kept == {i \in DOMAIN queue : queue[i] \notin S}
           rank(i) == Cardinality({k \in kept : k <= i})
           nth(n) == CHOOSE i \in kept : rank(i) = n
           left == [n \in 1..Cardinality(kept) |-> queue[nth(n)]]
           q == dequeue(r, S)
<1>1. /\ queue \in Seq(Job) /\ Len(queue) \in Nat
      /\ DOMAIN queue = 1..Len(queue) /\ \A i \in 1..Len(queue) : queue[i] \in Job
  BY LenProperties, ElementOfSeq DEF Registry
<1> HIDE DEF queue
<1>2. IsFiniteSet(kept) /\ Cardinality(kept) \in Nat /\ Cardinality(kept) <= Len(queue)
  <2>1. IsFiniteSet(1..Len(queue)) /\ Cardinality(1..Len(queue)) = Len(queue)
    BY <1>1, CountTo
  <2>2. kept \in SUBSET (1..Len(queue))
    BY <1>1
  <2> HIDE DEF kept
  <2> QED BY <2>1, <2>2, FS_Subset, FS_CardinalityType
<1>3. \A i \in kept : i \in Int
  BY <1>1
<1>4. /\ \A i \in kept : rank(i) \in 1..Cardinality(kept)
      /\ \A i, j \in kept : i < j => rank(i) < rank(j)
      /\ \A n \in 1..Cardinality(kept) : \E i \in kept : rank(i) = n
  <2> DEFINE f == [i \in kept |-> i]
  <2>1. \A k \in kept : f[k] = k
    OBVIOUS
  <2>2. \A i \in kept : rank(i) = Rank(f, kept, i)
    <3> SUFFICES ASSUME NEW i \in kept
                 PROVE  {k \in kept : f[k] <= f[i]} = {k \in kept : k <= i}
      BY DEF Rank
    <3> QED BY <2>1
  <2>3. \A k \in kept : f[k] \in Int
    BY <1>3, <2>1
  <2>4. \A i, j \in kept : f[i] = f[j] => i = j
    BY <2>1
  <2> HIDE DEF f, kept, rank
  <2>5. /\ \A i \in kept : Rank(f, kept, i) \in 1..Cardinality(kept)
        /\ \A i, j \in kept : f[i] < f[j] => Rank(f, kept, i) < Rank(f, kept, j)
        /\ \A n \in 1..Cardinality(kept) : \E i \in kept : Rank(f, kept, i) = n
    BY <1>2, <2>3, <2>4, RanksNumber
  <2> QED BY <2>1, <2>2, <2>5
<1> HIDE DEF kept, rank
<1>5. \A n \in 1..Cardinality(kept) : nth(n) \in kept /\ rank(nth(n)) = n
  BY <1>4
<1> HIDE DEF nth
<1>6. \A i \in kept : i \in 1..Len(queue) /\ queue[i] \in Job /\ queue[i] \notin S
  BY <1>1 DEF kept
<1>7. /\ left \in Seq(Job) /\ Len(left) = Cardinality(kept)
      /\ DOMAIN left = 1..Cardinality(kept)
  <2>1. \A n \in 1..Cardinality(kept) : queue[nth(n)] \in Job
    BY <1>5, <1>6
  <2>2. left \in [1..Cardinality(kept) -> Job]
    BY <2>1
  <2> QED BY <1>2, <2>2
<1>8. \A n \in DOMAIN left : left[n] = queue[nth(n)] /\ nth(n) \in kept
  BY <1>5
<1>9. \A m, n \in DOMAIN left : m < n => nth(m) < nth(n)
  <2> SUFFICES ASSUME NEW m \in 1..Cardinality(kept), NEW n \in 1..Cardinality(kept), m < n,
                      ~ (nth(m) < nth(n))
               PROVE  FALSE
    BY <1>7
  <2>1. nth(n) \in kept /\ nth(m) \in kept
    BY <1>5
  <2>2. nth(n) \in Int /\ nth(m) \in Int /\ rank(nth(n)) \in Int /\ rank(nth(m)) \in Int
    BY <1>3, <1>4, <1>5
  <2>3. rank(nth(n)) <= rank(nth(m))
    <3>1. CASE nth(n) = nth(m)
      BY <2>2, <3>1
    <3>2. CASE nth(n) < nth(m)
      BY <1>4, <2>1, <2>2, <3>2
    <3> QED BY <2>2, <3>1, <3>2
  <2> QED BY <1>2, <1>5, <2>3
<1>10. {left[n] : n \in DOMAIN left} = {queue[i] : i \in DOMAIN queue} \ S
  <2>1. ASSUME NEW n \in DOMAIN left PROVE left[n] \in {queue[i] : i \in DOMAIN queue} \ S
    BY <1>1, <1>6, <1>8
  <2>2. ASSUME NEW i \in DOMAIN queue, queue[i] \notin S
        PROVE  \E n \in DOMAIN left : left[n] = queue[i]
    <3>1. i \in kept
      BY <2>2 DEF kept
    <3>2. rank(i) \in 1..Cardinality(kept)
      BY <1>4, <3>1
    <3>3. nth(rank(i)) = i
      <4>1. nth(rank(i)) \in kept /\ rank(nth(rank(i))) = rank(i)
        BY <1>5, <3>2
      <4>2. nth(rank(i)) \in Int /\ i \in Int
        BY <1>3, <3>1, <4>1
      <4>3. \A a \in kept : rank(a) \in Int
        BY <1>4
      <4> QED BY <1>4, <3>1, <4>1, <4>2, <4>3
    <3> QED BY <1>7, <1>8, <3>2, <3>3
  <2> QED BY <2>1, <2>2
<1>11. q = [r EXCEPT !.queue = left]
  BY DEF dequeue, left, nth, rank, kept, queue
<1> HIDE DEF left, q
<1>12. q \in Registry /\ q.queue = left
  BY <1>7, <1>11 DEF Registry
<1>13. /\ SameRecords(r, q)
       /\ q.dispatching = r.dispatching /\ q.slots = r.slots
       /\ q.stopped = r.stopped /\ q.reserved = r.reserved
       /\ q.shutdownDone = r.shutdownDone
  BY <1>11 DEF SameRecords, Registry
<1>14. Queued(q) = Queued(r) \ S
  BY <1>10, <1>12 DEF Queued, queue
<1>15. Len(q.queue) <= Len(r.queue)
  BY <1>2, <1>7, <1>12 DEF queue
<1>16. ASSUME QueueOrdered(r) PROVE QueueOrdered(q)
  <2>1. /\ \A i \in DOMAIN queue :
             r.state[queue[i]] = "QUEUED" /\ queue[i] \notin r.dispatching
        /\ \A i, k \in DOMAIN queue : i < k => r.number[queue[i]] < r.number[queue[k]]
        /\ \A j \in r.dispatching : r.state[j] = "QUEUED"
    BY <1>16 DEF QueueOrdered, queue
  <2>2. \A n \in DOMAIN left : nth(n) \in DOMAIN queue /\ left[n] = queue[nth(n)]
    BY <1>1, <1>6, <1>8
  <2> QED BY <1>9, <1>12, <1>13, <2>1, <2>2 DEF QueueOrdered, SameRecords
<1> QED BY <1>12, <1>13, <1>14, <1>15, <1>16 DEF q

\* Of the jobs of S, those in W wait in the queue.
AreWaiting(r, S, W) == W \subseteq S /\ \A j \in S : j \in W <=> waiting(r, j)

\* cancelWaiting ends the queued jobs of S, and leaves those that started or
\* are in the dispatcher's hands.
LEMMA CancelWaitingPreserves ==
    ASSUME NEW r, Guarded(r), NEW S \in SUBSET Alive(r),
           NEW W, AreWaiting(r, S, W)
    PROVE  LET q == cancelWaiting(r, S)
           IN /\ Guarded(q) /\ OldestFirst(r, q)
              /\ q.dispatching = r.dispatching /\ q.slots = r.slots
              /\ q.stopped = r.stopped /\ q.shutdownDone = r.shutdownDone
              /\ Queued(q) = Queued(r) \ W /\ Len(q.queue) <= Len(r.queue)
              /\ q.records \subseteq r.records
              /\ \A j \in q.records : q.number[j] = r.number[j]
              /\ \A j \in W : \/ q.state[j] = "CANCELLED" /\ q.reason[j] = r.reason[j]
                              \/ q.state[j] = "GONE" /\ q.reason[j] = None
              /\ \A j \in Job \ W : Kept(r, q, j)
<1> DEFINE d == dequeue(r, W)
           q == finishLocked(d, W, "CANCELLED")
<1>1. cancelWaiting(r, S) = q
  <2>1. W = {j \in S : waiting(r, j)}
    BY DEF AreWaiting
  <2> QED BY <2>1 DEF cancelWaiting
<1>2. /\ Core(r) /\ r \in Registry /\ S \subseteq r.records /\ "CANCELLED" \in Terminal
      /\ ResultsCompleted(r) /\ RoomKept(r) /\ QueueOrdered(r)
  BY DEF Guarded, Core, RecordsMatch, Alive, Terminal
<1>3. /\ W \subseteq r.records /\ \A j \in W : j \notin r.dispatching /\ r.state[j] \notin Terminal
  BY <1>2 DEF AreWaiting, waiting, Terminal
<1>4. /\ d \in Registry /\ SameRecords(r, d)
      /\ d.dispatching = r.dispatching /\ d.slots = r.slots
      /\ d.stopped = r.stopped /\ d.shutdownDone = r.shutdownDone
      /\ Queued(d) = Queued(r) \ W /\ Len(d.queue) <= Len(r.queue)
      /\ QueueOrdered(d)
  BY <1>2, DequeueKeeps
<1> HIDE DEF d
<1>5. Core(d) /\ Completed(d) = Completed(r) /\ ResultsCompleted(d)
  BY <1>2, <1>4, ControlPreserves
<1>6. W \in SUBSET d.records /\ W = {j \in W : d.state[j] \notin Terminal}
  BY <1>3, <1>4 DEF SameRecords
<1>7. \A j \in W : j \notin d.dispatching /\ \A i \in DOMAIN d.queue : d.queue[i] # j
  BY <1>3, <1>4 DEF Queued
<1>8. /\ Core(q) /\ RoomKept(q) /\ OldestFirst(d, q) /\ Ends(d, q, W, "CANCELLED")
      /\ (\A j \in d.records \ W : d.size[j] > 0 => d.state[j] \in Terminal)
            => ResultsCompleted(q)
      /\ QueueOrdered(d) /\ (\A j \in W : /\ j \notin d.dispatching
                                          /\ \A i \in DOMAIN d.queue : d.queue[i] # j)
            => QueueOrdered(q)
  BY <1>2, <1>5, <1>6, FinishPreserves
<1>9. \A j \in d.records \ W : d.size[j] > 0 => d.state[j] \in Terminal
  BY <1>5 DEF ResultsCompleted
<1> HIDE DEF q
<1>10. Guarded(q)
  BY <1>4, <1>7, <1>8, <1>9 DEF Guarded
<1>11. OldestFirst(r, q)
  BY <1>4, <1>5, <1>8 DEF OldestFirst, SameRecords
<1>12. Queued(q) = Queued(r) \ W /\ Len(q.queue) <= Len(r.queue)
  BY <1>4, <1>8 DEF Ends, SameControl, Queued
<1> QED BY <1>1, <1>4, <1>8, <1>10, <1>11, <1>12
     DEF Ends, SameControl, SameRecords, Kept

\* overtake records a deadline or the shutdown, as the intent of j alone.
LEMMA OvertakeRecords ==
    ASSUME NEW r, Core(r), NEW j \in r.records, NEW expired \in BOOLEAN
    PROVE  LET q == overtake(r, j, expired)
           IN /\ Core(q) /\ SameControl(r, q) /\ q.records = r.records
              /\ q.state = r.state /\ q.number = r.number /\ q.order = r.order
              /\ q.completions = r.completions /\ q.size = r.size /\ q.log = r.log
              /\ \A k \in Job \ {j} : q.reason[k] = r.reason[k]
              /\ r.reason[j] # None => q.reason[j] = r.reason[j]
              /\ r.stopped => q.reason[j] # None
              /\ Completed(q) = Completed(r)
              /\ ResultsCompleted(r) => ResultsCompleted(q)
              /\ RoomKept(r) => RoomKept(q)
              /\ QueueOrdered(r) => QueueOrdered(q)
<1> DEFINE late == IF expired THEN request(r, {j}, "DEADLINE") ELSE r
           q == IF r.stopped THEN request(late, {j}, "SHUTDOWN") ELSE late
<1>1. overtake(r, j, expired) = q
  BY DEF overtake
<1>2. /\ "DEADLINE" \in Reason /\ "SHUTDOWN" \in Reason /\ None \notin Reason
      /\ j \in Job
  BY LimitsAssumption DEF Reason, Core, RecordsMatch, Registry
<1>3. /\ Core(late) /\ SameControl(r, late) /\ late.records = r.records
      /\ late.state = r.state /\ late.number = r.number /\ late.order = r.order
      /\ late.completions = r.completions /\ late.size = r.size /\ late.log = r.log
      /\ \A k \in Job \ {j} : late.reason[k] = r.reason[k]
      /\ r.reason[j] # None => late.reason[j] = r.reason[j]
      /\ Completed(late) = Completed(r)
      /\ ResultsCompleted(r) => ResultsCompleted(late)
      /\ RoomKept(r) => RoomKept(late)
      /\ QueueOrdered(r) => QueueOrdered(late)
  <2>1. CASE expired
    <3> DEFINE a == request(r, {j}, "DEADLINE")
    <3>1. /\ Core(a) /\ SameControl(r, a) /\ a.records = r.records
          /\ a.state = r.state /\ a.number = r.number /\ a.order = r.order
          /\ a.completions = r.completions /\ a.size = r.size /\ a.log = r.log
          /\ \A k \in Job : a.reason[k] = IF k \in {j} /\ r.reason[k] = None
                                          THEN "DEADLINE" ELSE r.reason[k]
          /\ Completed(a) = Completed(r)
          /\ ResultsCompleted(r) => ResultsCompleted(a)
          /\ RoomKept(r) => RoomKept(a)
          /\ QueueOrdered(r) => QueueOrdered(a)
      BY <1>2, RequestRecords
    <3>2. late = a
      BY <2>1
    <3> HIDE DEF a, late
    <3> QED BY <1>2, <3>1, <3>2
  <2>2. CASE ~ expired
    <3>1. late = r
      BY <2>2
    <3> HIDE DEF late
    <3> QED BY <3>1 DEF SameControl
  <2> QED BY <2>1, <2>2
<1> HIDE DEF late
<1>4. CASE r.stopped
  <2> DEFINE a == request(late, {j}, "SHUTDOWN")
  <2>1. /\ Core(a) /\ SameControl(late, a) /\ a.records = late.records
        /\ a.state = late.state /\ a.number = late.number /\ a.order = late.order
        /\ a.completions = late.completions /\ a.size = late.size /\ a.log = late.log
        /\ \A k \in Job : a.reason[k] = IF k \in {j} /\ late.reason[k] = None
                                        THEN "SHUTDOWN" ELSE late.reason[k]
        /\ Completed(a) = Completed(late)
        /\ ResultsCompleted(late) => ResultsCompleted(a)
        /\ RoomKept(late) => RoomKept(a)
        /\ QueueOrdered(late) => QueueOrdered(a)
    <3>1. {j} \in SUBSET late.records
      BY <1>3
    <3> QED BY <1>2, <1>3, <3>1, RequestRecords
  <2>2. q = a
    BY <1>4
  <2> HIDE DEF a, q
  <2>3. SameControl(r, q)
    BY <1>3, <2>1, <2>2 DEF SameControl
  <2>4. /\ \A k \in Job \ {j} : q.reason[k] = r.reason[k]
        /\ r.reason[j] # None => q.reason[j] = r.reason[j]
        /\ q.reason[j] # None
    <3>1. q.reason[j] = IF late.reason[j] = None THEN "SHUTDOWN" ELSE late.reason[j]
      BY <1>2, <2>1, <2>2
    <3>2. \A k \in Job \ {j} : q.reason[k] = late.reason[k]
      BY <2>1, <2>2
    <3> QED BY <1>2, <1>3, <3>1, <3>2
  <2> QED BY <1>1, <1>3, <2>1, <2>2, <2>3, <2>4 DEF q
<1>5. CASE ~ r.stopped
  <2>1. q = late
    BY <1>5
  <2> QED BY <1>1, <1>3, <1>5, <2>1
<1> QED BY <1>4, <1>5

-----------------------------------------------------------------------------
(* Results.                                                                *)

\* Only completed records count in retainedResultBytes.
LEMMA BytesOfResults ==
    ASSUME NEW r, Core(r), ResultsCompleted(r)
    PROVE  r.bytes = Bytes(r, WithResult(r))
<1>1. /\ Sized(r, r.records) /\ r.bytes = Bytes(r, r.records)
      /\ \A j \in r.records : r.size[j] \in Nat
  BY DEF Core, RecordsMatch, Registry, BytesCounted, Sized
<1>2. PICK C : C = WithResult(r)
  OBVIOUS
<1>3. Bytes(r, r.records) = Bytes(r, r.records \ C) + Bytes(r, r.records \cap C)
  BY <1>1, BytesSplit
<1>4. r.records \cap C = C
  BY <1>2 DEF WithResult, Completed
<1>5. \A j \in r.records \ C : r.size[j] = 0
  BY <1>1, <1>2 DEF ResultsCompleted, WithResult, Completed
<1>6. Bytes(r, r.records \ C) = 0
  BY <1>5, BytesOfNone
<1>7. Bytes(r, C) \in Nat
  <2>1. Sized(r, C)
    BY <1>1, <1>4, FS_Intersection DEF Sized
  <2> QED BY <2>1, BytesFinite
<1>8. Bytes(r, r.records \cap C) = Bytes(r, C)
  BY <1>4
<1>9. Bytes(r, C) = Bytes(r, WithResult(r))
  BY <1>2
<1> QED BY <1>1, <1>3, <1>6, <1>7, <1>8, <1>9

\* reclaimResultRoomLocked finds room for any result within its limit, and
\* drops the oldest results for it.
LEMMA ReclaimFindsRoom ==
    ASSUME NEW r, Core(r), ResultsCompleted(r), NEW incoming \in 0..MaxResultBytes
    PROVE  LET q == reclaimResultRoomLocked(r, incoming)
           IN \E S \in SUBSET WithResult(r) :
                 /\ q = removeRetainedLocked(r, S)
                 /\ q.bytes + incoming <= MaxTotalResultBytes
                 /\ \A j \in S, k \in WithResult(r) \ S : r.order[j] < r.order[k]
<1> DEFINE upTo(n) == {j \in WithResult(r) : r.order[j] <= n}
           fits(n) == r.bytes - Bytes(r, upTo(n)) + incoming <= MaxTotalResultBytes
           least(n) == fits(n) /\ \A m \in 0..(n - 1) : ~ fits(m)
           Fitting == {n \in 0..r.completions : fits(n)}
<1>1. /\ r.completions \in Nat /\ r.bytes \in Int
      /\ \A j \in WithResult(r) : r.order[j] \in Nat /\ r.order[j] <= r.completions
      /\ WithResult(r) \subseteq r.records
  BY DEF Core, RecordsMatch, Registry, OrdersDiffer, WithResult, Completed
<1>2. fits(r.completions)
  <2>1. upTo(r.completions) = WithResult(r)
    BY <1>1
  <2>2. r.bytes = Bytes(r, WithResult(r))
    BY BytesOfResults
  <2>3. r.bytes - Bytes(r, upTo(r.completions)) = 0
    BY <1>1, <2>1, <2>2
  <2> QED BY <2>3, LimitsAssumption
<1> HIDE DEF fits, upTo
<1>3. PICK n \in Fitting : \A m \in Fitting : n <= m
  <2>1. Fitting \in SUBSET Nat /\ r.completions \in Fitting
    BY <1>1, <1>2
  <2> QED BY <2>1, LeastNatural
<1>4. n \in 0..r.completions /\ least(n)
  <2>1. n \in Nat /\ n <= r.completions
    BY <1>1
  <2>2. ASSUME NEW m \in 0..(n - 1), fits(m) PROVE FALSE
    <3>1. m \in Fitting /\ m < n /\ m \in Nat
      BY <1>1, <2>1, <2>2
    <3> QED BY <1>3, <2>1, <3>1
  <2> QED BY <1>1, <2>1, <2>2
<1> DEFINE c == CHOOSE i \in 0..r.completions : least(i)
<1>5. c \in 0..r.completions /\ least(c)
  <2> HIDE DEF least
  <2> QED BY <1>4
<1> HIDE DEF least
<1>6. reclaimResultRoomLocked(r, incoming) = removeRetainedLocked(r, upTo(c))
  BY DEF reclaimResultRoomLocked, upTo, fits, least
<1>7. fits(c) /\ c \in Nat
  BY <1>1, <1>5 DEF least
<1> HIDE DEF c
<1>8. upTo(c) \in SUBSET WithResult(r) /\ upTo(c) \in SUBSET r.records
  BY <1>1 DEF upTo
<1>9. \A j \in upTo(c), k \in WithResult(r) \ upTo(c) : r.order[j] < r.order[k]
  BY <1>1, <1>7 DEF upTo
<1>10. removeRetainedLocked(r, upTo(c)).bytes = r.bytes - Bytes(r, upTo(c))
  BY <1>8, RemoveDrops DEF Core
<1> QED BY <1>6, <1>7, <1>8, <1>9, <1>10 DEF fits

\* succeedLocked retains the result of j within the budget.
LEMMA SucceedPreserves ==
    ASSUME NEW r, Guarded(r), NEW j \in r.records, r.state[j] \notin Terminal,
           NEW bytes \in 1..MaxResultBytes,
           j \notin r.dispatching, \A i \in DOMAIN r.queue : r.queue[i] # j
    PROVE  LET q == succeedLocked(r, j, bytes)
           IN /\ Guarded(q) /\ OldestFirst(r, q)
              /\ Ends(r, q, {j}, "SUCCEEDED") /\ q.state[j] = "SUCCEEDED"
<1> DEFINE room == reclaimResultRoomLocked(r, bytes)
           mid == [room EXCEPT !.size[j] = bytes, !.bytes = @ + bytes]
           q == finishLocked(mid, {j}, "SUCCEEDED")
<1>0. succeedLocked(r, j, bytes) = q
  BY DEF succeedLocked
<1>1. /\ Core(r) /\ ResultsCompleted(r) /\ RoomKept(r) /\ QueueOrdered(r)
      /\ RecordsMatch(r) /\ r \in Registry /\ r.records \subseteq Job /\ j \in Job
  BY DEF Guarded, Core, RecordsMatch, Registry
<1>2. bytes \in 0..MaxResultBytes /\ bytes \in Nat
  BY LimitsAssumption
<1>3. PICK S \in SUBSET WithResult(r) :
          /\ room = removeRetainedLocked(r, S)
          /\ room.bytes + bytes <= MaxTotalResultBytes
          /\ \A k \in S, l \in WithResult(r) \ S : r.order[k] < r.order[l]
  BY <1>1, <1>2, ReclaimFindsRoom
<1> HIDE DEF room
<1>4. S \in SUBSET Completed(r) /\ S \in SUBSET r.records /\ j \notin S
  BY DEF WithResult, Completed
<1>5. /\ Core(room) /\ Completed(room) = Completed(r) \ S
      /\ ResultsCompleted(room) /\ QueueOrdered(room)
  BY <1>1, <1>3, <1>4, RemovePreserves
<1>6. Without(r, room, S)
  BY <1>1, <1>3, <1>4, RemoveDrops
<1>7. room \in Registry /\ j \in room.records /\ room.state[j] = r.state[j]
  BY <1>1, <1>4, <1>5, <1>6 DEF Without, Core, RecordsMatch
<1>8. room.size[j] = 0
  BY <1>1, <1>5, <1>7, SMTT(20) DEF ResultsCompleted, Registry
<1>9. /\ mid \in Registry
      /\ mid.size = [room.size EXCEPT ![j] = bytes] /\ mid.bytes = room.bytes + bytes
      /\ mid.queue = room.queue /\ mid.dispatching = room.dispatching
      /\ mid.slots = room.slots /\ mid.submissions = room.submissions
      /\ mid.stopped = room.stopped /\ mid.reserved = room.reserved
      /\ mid.shutdownDone = room.shutdownDone /\ mid.records = room.records
      /\ mid.state = room.state /\ mid.reason = room.reason /\ mid.number = room.number
      /\ mid.order = room.order /\ mid.completions = room.completions /\ mid.log = room.log
  <2> DEFINE size == [room.size EXCEPT ![j] = bytes]
             total == room.bytes + bytes
  <2>1. size \in [Job -> Nat] /\ total \in Int
    BY <1>1, <1>2, <1>7, SMTT(20) DEF Registry
  <2>2. mid = [room EXCEPT !.size = size, !.bytes = total]
    BY <1>7 DEF Registry
  <2> HIDE DEF size, total, mid
  <2>3. mid \in Registry
    BY <1>7, <2>1, <2>2 DEF Registry
  <2>4. mid.size = size /\ mid.bytes = total
    BY <1>7, <2>2 DEF Registry
  <2>5. /\ mid.queue = room.queue /\ mid.dispatching = room.dispatching
        /\ mid.slots = room.slots /\ mid.submissions = room.submissions
        /\ mid.stopped = room.stopped /\ mid.reserved = room.reserved
        /\ mid.shutdownDone = room.shutdownDone /\ mid.records = room.records
        /\ mid.state = room.state /\ mid.reason = room.reason /\ mid.number = room.number
        /\ mid.order = room.order /\ mid.completions = room.completions /\ mid.log = room.log
    BY <1>7, <2>2 DEF Registry
  <2> QED BY <2>3, <2>4, <2>5 DEF size, total
<1> HIDE DEF mid
<1>10. mid.size[j] = bytes /\ \A k \in Job \ {j} : mid.size[k] = room.size[k]
  BY <1>1, <1>7, <1>9 DEF Registry
<1>11. Completed(mid) = Completed(room)
  BY <1>9 DEF Completed
<1>12. BytesCounted(mid)
  <2> DEFINE R == room.records
  <2>1. Sized(room, R) /\ Sized(mid, R) /\ R \subseteq Job /\ room.bytes = Bytes(room, R)
    BY <1>5, <1>9 DEF Core, RecordsMatch, Registry, BytesCounted, Sized
  <2>2. /\ j \in R /\ room.size[j] = 0 /\ mid.size[j] = bytes
        /\ \A k \in R \ {j} : mid.size[k] = room.size[k]
    BY <1>7, <1>8, <1>10, <2>1
  <2> HIDE DEF R
  <2>3. Bytes(mid, R) = Bytes(room, R) + mid.size[j]
    BY <2>1, <2>2, BytesAdd
  <2>4. mid.bytes = Bytes(mid, R)
    BY <1>9, <2>1, <2>2, <2>3
  <2> QED BY <1>3, <1>9, <2>4 DEF BytesCounted, R
<1>13. Core(mid)
  <2>1. RecordsMatch(mid)
    BY <1>5, <1>7, <1>9, <1>10 DEF Core, RecordsMatch
  <2>2. NumbersDiffer(mid) /\ OrdersDiffer(mid) /\ Streamed(mid)
    BY <1>5, <1>9, <1>11 DEF Core, NumbersDiffer, OrdersDiffer, Streamed
  <2> QED BY <1>12, <2>1, <2>2 DEF Core
<1>14. QueueOrdered(mid)
  BY <1>5, <1>9 DEF QueueOrdered
<1>15. j \in mid.records /\ mid.state[j] \notin Terminal /\ "SUCCEEDED" \in Terminal
  BY <1>7, <1>9 DEF Terminal
<1>16. /\ Core(q) /\ RoomKept(q) /\ OldestFirst(mid, q) /\ Ends(mid, q, {j}, "SUCCEEDED")
       /\ q.state[j] = "SUCCEEDED"
       /\ (\A k \in mid.records \ {j} : mid.size[k] > 0 => mid.state[k] \in Terminal)
             => ResultsCompleted(q)
       /\ QueueOrdered(mid) /\ j \notin mid.dispatching
          /\ (\A i \in DOMAIN mid.queue : mid.queue[i] # j)
             => QueueOrdered(q)
  BY <1>13, <1>15, FinishOne
<1> HIDE DEF q
<1>17. Guarded(q)
  <2>1. \A k \in mid.records \ {j} : mid.size[k] > 0 => mid.state[k] \in Terminal
    BY <1>5, <1>9, <1>10 DEF ResultsCompleted, Core, RecordsMatch, Registry
  <2>2. j \notin mid.dispatching /\ \A i \in DOMAIN mid.queue : mid.queue[i] # j
    BY <1>6, <1>9 DEF Without, SameControl
  <2> QED BY <1>14, <1>16, <2>1, <2>2 DEF Guarded
<1>18. OldestFirst(r, q)
  <2> SUFFICES ASSUME NEW k \in r.records \ q.records, NEW l \in Completed(r) \cap q.records
               PROVE  /\ k \in Completed(r)
                      /\ r.order[k] < r.order[l] \/ (r.size[k] > 0 /\ r.size[l] = 0)
    BY DEF OldestFirst
  <2>1. l \in room.records /\ l \in Completed(room) /\ l \in Completed(r) \ S /\ l # j
    BY <1>4, <1>5, <1>6, <1>9, <1>16 DEF Ends, Without, Completed
  <2>2. CASE k \in S
    <3>1. k \in Completed(r) /\ r.size[k] > 0
      BY <1>4, <2>2 DEF WithResult
    <3>2. CASE r.size[l] > 0
      BY <1>3, <2>1, <2>2, <3>1, <3>2 DEF WithResult
    <3>3. CASE ~ (r.size[l] > 0)
      <4>1. r.size[l] \in Nat
        BY <1>1 DEF Completed, Registry
      <4> QED BY <3>1, <3>3, <4>1
    <3> QED BY <3>2, <3>1, <3>3
  <2>3. CASE k \notin S
    <3>1. k \in mid.records \ q.records /\ l \in Completed(mid) \cap q.records
      BY <1>6, <1>9, <1>11, <2>1, <2>3 DEF Without
    <3>2. k \in Completed(mid)
      BY <1>16, <3>1 DEF OldestFirst
    <3>3. mid.order[k] < mid.order[l] \/ (mid.size[k] > 0 /\ mid.size[l] = 0)
      BY <1>16, <3>1 DEF OldestFirst
    <3>4. k # j
      BY <3>2, <1>7, <1>9 DEF Completed
    <3>5. /\ mid.order[k] = r.order[k] /\ mid.order[l] = r.order[l]
          /\ mid.size[k] = r.size[k] /\ mid.size[l] = r.size[l]
      BY <1>1, <1>6, <1>9, <1>10, <2>1, <2>3, <3>4 DEF Without, Completed
    <3> QED BY <1>5, <1>11, <3>2, <3>3, <3>5
  <2> QED BY <2>2, <2>3
<1>19. Ends(r, q, {j}, "SUCCEEDED")
  <2>1. SameControl(r, q)
    BY <1>6, <1>9, <1>16 DEF Ends, Without, SameControl
  <2>2. q.records \subseteq r.records /\ \A k \in q.records : q.number[k] = r.number[k]
    BY <1>1, <1>6, <1>9, <1>16 DEF Ends, Without
  <2>3. \A k \in S : r.state[k] \in Terminal
    BY <1>4 DEF Completed
  <2>4. q.state[j] = "SUCCEEDED" /\ q.reason[j] = r.reason[j]
    <3>1. room.reason[j] = r.reason[j]
      BY <1>1, <1>4, <1>6 DEF Without
    <3> QED BY <1>9, <1>16, <3>1 DEF Ends
  <2>5. ASSUME NEW k \in Job \ {j}
        PROVE  Kept(r, q, k)
    <3>1. Kept(room, q, k)
      BY <1>9, <1>16 DEF Ends, Kept
    <3>2. CASE k \in S
      BY <1>6, <2>3, <3>1, <3>2 DEF Without, Kept, Terminal
    <3>3. CASE k \notin S
      BY <1>6, <3>1, <3>3 DEF Without, Kept
    <3> QED BY <3>2, <3>3
  <2> QED BY <2>1, <2>2, <2>4, <2>5 DEF Ends
<1> QED BY <1>0, <1>16, <1>17, <1>18, <1>19

-----------------------------------------------------------------------------
(* The sections: what each synchronized (lock) section does to the record  *)
(* the lock guards.  It keeps Guarded, moves each job along its life       *)
(* (JobLifecycle), and drops completed records the oldest first.  Which    *)
(* thread runs the section does not matter here; JobRegistryProofs adds    *)
(* that.                                                                   *)

Started == {"RUNNING", "CANCELLING"}

\* The step of job j from record r to record q is one of JobLifecycle.
Lives(r, q, j) ==
    /\ q.state[j] = r.state[j] \/ Lifecycle!Moves(r.state[j], q.state[j], q.reason[j])
    /\ Lifecycle!Intends(r.state[j], q.state[j], r.reason[j], q.reason[j])

Lived(r, q) == \A j \in Job : Lives(r, q, j)

\* What every section does from record r to record q.
Section(r, q) == Guarded(q) /\ OldestFirst(r, q) /\ Lived(r, q)

\* Recorded intent is what a cancelling job shows.
IntentShown(r) == \A j \in Job : r.state[j] = "CANCELLING" => r.reason[j] # None

\* The section takes nothing from the dispatcher and the workers: jobs may
\* leave the queue, and end, but none that was taken, and none starts.
Quiet(r, q) ==
    /\ q.dispatching = r.dispatching /\ q.slots = r.slots
    /\ Len(q.queue) <= Len(r.queue) /\ Queued(q) \subseteq Queued(r)
    /\ \A j \in q.records : q.number[j] = r.number[j]
    /\ \A j \in Job :
          /\ q.state[j] = "QUEUED" => /\ r.state[j] = "QUEUED"
                                      /\ j \in Queued(r) => j \in Queued(q)
          /\ q.state[j] \in Started <=> r.state[j] \in Started

-----------------------------------------------------------------------------

\* Intent that is recorded stays, and a running job becomes CANCELLING only
\* with it.
LEMMA IntentStaysShown ==
    ASSUME NEW r, IntentShown(r), NEW q, Lived(r, q)
    PROVE  IntentShown(q)
BY DEF IntentShown, Lived, Lives, Lifecycle!Moves, Lifecycle!Intends, Lifecycle!Terminal

\* A job that is kept lives on, or is forgotten once terminal.
LEMMA KeptLives ==
    ASSUME NEW r, NEW q, NEW j, Kept(r, q, j)
    PROVE  Lives(r, q, j)
BY DEF Kept, Lives, Lifecycle!Moves, Lifecycle!Intends, Lifecycle!Terminal, Terminal

\* purgeExpiredLocked, which most sections begin with, is itself such a step.
LEMMA PurgeSection ==
    ASSUME NEW r, Guarded(r), NEW q \in purgeExpiredLocked(r)
    PROVE  /\ Section(r, q) /\ Quiet(r, q)
           /\ Queued(q) = Queued(r) /\ q.queue = r.queue
<1>1. /\ Guarded(q) /\ OldestFirst(r, q)
      /\ SameControl(r, q) /\ \A j \in Job : Kept(r, q, j)
      /\ \A j \in q.records : q.number[j] = r.number[j]
  BY PurgePreserves
<1>2. Lived(r, q)
  BY <1>1, KeptLives DEF Lived
<1>3. \A j \in Job : /\ q.state[j] = "QUEUED" <=> r.state[j] = "QUEUED"
                     /\ q.state[j] \in Started <=> r.state[j] \in Started
  BY <1>1 DEF Kept, Started, Terminal
<1>4. q.queue = r.queue /\ Queued(q) = Queued(r) /\ Len(q.queue) <= Len(r.queue)
  <2>1. r.queue \in Seq(Job)
    BY DEF Guarded, Core, RecordsMatch, Registry
  <2>2. Len(r.queue) \in Nat
    BY <2>1, LenProperties
  <2> QED BY <1>1, <2>2 DEF SameControl, Queued
<1> QED BY <1>1, <1>2, <1>3, <1>4 DEF Section, Quiet, SameControl

\* A section that purges first is a section as a whole.
LEMMA PurgeComposes ==
    ASSUME NEW r, Guarded(r), NEW p \in purgeExpiredLocked(r), NEW q, Section(p, q)
    PROVE  Section(r, q)
<1>1. /\ Guarded(p) /\ OldestFirst(r, p) /\ p.records \subseteq r.records
      /\ \A j \in Job : Kept(r, p, j)
      /\ \A j \in p.records : p.order[j] = r.order[j] /\ p.size[j] = r.size[j]
  BY PurgePreserves
<1>2. Guarded(q) /\ OldestFirst(p, q) /\ \A j \in Job : Lives(p, q, j)
  BY DEF Section, Lived
<1>3. /\ r.records \subseteq Job /\ p.records \subseteq Job /\ q.records \subseteq Job
      /\ \A j \in Job : j \in p.records <=> p.state[j] \notin {"NEW", "GONE"}
      /\ \A j \in Job : j \in q.records <=> q.state[j] \notin {"NEW", "GONE"}
  BY <1>1, <1>2 DEF Guarded, Core, RecordsMatch, Registry
<1>4. ASSUME NEW j \in Job PROVE Lives(r, q, j)
  <2>1. Lives(p, q, j) /\ Kept(r, p, j)
    BY <1>1, <1>2
  <2>2. CASE p.state[j] = r.state[j] /\ p.reason[j] = r.reason[j]
    BY <2>1, <2>2 DEF Lives
  <2>3. CASE r.state[j] \in Terminal /\ p.state[j] = "GONE" /\ p.reason[j] = None
    BY <2>1, <2>3
       DEF Lives, Lifecycle!Moves, Lifecycle!Intends, Lifecycle!Terminal, Terminal
  <2> QED BY <2>1, <2>2, <2>3 DEF Kept
<1>5. OldestFirst(r, q)
  <2> SUFFICES ASSUME NEW j \in r.records \ q.records, NEW k \in Completed(r) \cap q.records
               PROVE  /\ j \in Completed(r)
                      /\ r.order[j] < r.order[k] \/ (r.size[j] > 0 /\ r.size[k] = 0)
    BY DEF OldestFirst
  <2>1. k \in r.records /\ r.state[k] \in Terminal /\ k \in Job /\ j \in Job
    BY <1>3 DEF Completed
  <2>2. k \in p.records /\ p.state[k] = r.state[k]
    <3>1. Lives(p, q, k) /\ Kept(r, p, k) /\ q.state[k] # "GONE"
      BY <1>1, <1>2, <1>3, <2>1
    <3>2. p.state[k] # "GONE"
      BY <3>1 DEF Lives, Lifecycle!Moves, Lifecycle!Terminal
    <3>3. p.state[k] = r.state[k]
      BY <3>1, <3>2 DEF Kept
    <3> QED BY <1>3, <2>1, <3>3 DEF Terminal
  <2>3. k \in Completed(p)
    BY <2>1, <2>2 DEF Completed
  <2>4. CASE j \notin p.records
    BY <1>1, <2>2, <2>4 DEF OldestFirst
  <2>5. CASE j \in p.records
    <3>1. j \in Completed(p) /\ (p.order[j] < p.order[k] \/ (p.size[j] > 0 /\ p.size[k] = 0))
      BY <1>2, <2>3, <2>5 DEF OldestFirst
    <3>2. r.state[j] = p.state[j]
      BY <1>1, <1>3, <2>1, <2>5 DEF Kept
    <3>3. j \in Completed(r)
      BY <3>1, <3>2 DEF Completed
    <3> QED BY <1>1, <2>2, <2>5, <3>1, <3>3
  <2> QED BY <2>4, <2>5
<1> QED BY <1>2, <1>4, <1>5 DEF Section, Lived

\* Quiet steps follow a purge.
LEMMA PurgeQuiet ==
    ASSUME NEW r, Guarded(r), NEW p \in purgeExpiredLocked(r), NEW q, Quiet(p, q),
           q.records \subseteq p.records
    PROVE  Quiet(r, q)
<1>1. Quiet(r, p) /\ Queued(p) = Queued(r) /\ p.queue = r.queue
  BY PurgeSection
<1> QED BY <1>1 DEF Quiet

\* A section that touches none of the records is one.
LEMMA ControlSection ==
    ASSUME NEW r, Guarded(r), NEW q, Guarded(q), SameRecords(r, q)
    PROVE  Section(r, q)
<1>1. Lived(r, q)
  BY DEF SameRecords, Lived, Lives, Lifecycle!Intends
<1>2. OldestFirst(r, q)
  BY DEF SameRecords, OldestFirst
<1> QED BY <1>1, <1>2 DEF Section

-----------------------------------------------------------------------------
(* Intent: cancel(), tick() and shutdown().                                *)

\* cancel() and tick() once they have purged: the jobs of E are asked to
\* stop, and those still in the queue end.
LEMMA CancelSection ==
    ASSUME NEW r, Guarded(r), IntentShown(r), NEW why \in Reason,
           NEW E \in SUBSET Alive(r), \A j \in E : r.reason[j] = None,
           NEW q, q = cancelWaiting(intendLocked(r, E, why), E)
    PROVE  Section(r, q) /\ Quiet(r, q) /\ q.records \subseteq r.records
<1> DEFINE a == intendLocked(r, E, why)
<1>0. PICK W : AreWaiting(a, E, W)
  <2>1. AreWaiting(a, E, {j \in E : waiting(a, j)})
    BY DEF AreWaiting
  <2> QED BY <2>1
<1>1. /\ Core(r) /\ r \in Registry /\ r.records \subseteq Job /\ E \subseteq Job
      /\ ResultsCompleted(r) /\ RoomKept(r) /\ QueueOrdered(r)
  BY DEF Guarded, Core, RecordsMatch, Registry, Alive
<1>2. /\ Core(a) /\ SameControl(r, a) /\ a.records = r.records
      /\ a.number = r.number /\ a.order = r.order /\ a.size = r.size
      /\ \A j \in Job : /\ a.reason[j] = IF j \in E /\ r.reason[j] = None
                                         THEN why ELSE r.reason[j]
                        /\ a.state[j] = IF j \in E /\ r.state[j] = "RUNNING"
                                        THEN "CANCELLING" ELSE r.state[j]
      /\ Completed(a) = Completed(r)
      /\ ResultsCompleted(r) => ResultsCompleted(a)
      /\ RoomKept(r) => RoomKept(a)
      /\ QueueOrdered(r) => QueueOrdered(a)
  BY <1>1, IntendPreserves
<1> HIDE DEF a
<1>3. Guarded(a)
  BY <1>1, <1>2 DEF Guarded
<1>4. E \in SUBSET Alive(a)
  <2>1. \A j \in E : j \in r.records /\ r.state[j] \notin Terminal
    BY DEF Alive
  <2> QED BY <1>1, <1>2, <2>1 DEF Alive, Terminal
<1>5. /\ Guarded(q) /\ OldestFirst(a, q)
      /\ q.dispatching = a.dispatching /\ q.slots = a.slots
      /\ Queued(q) = Queued(a) \ W /\ Len(q.queue) <= Len(a.queue)
      /\ q.records \subseteq a.records
      /\ \A j \in q.records : q.number[j] = a.number[j]
      /\ \A j \in W : \/ q.state[j] = "CANCELLED" /\ q.reason[j] = a.reason[j]
                      \/ q.state[j] = "GONE" /\ q.reason[j] = None
      /\ \A j \in Job \ W : Kept(a, q, j)
  <2> DEFINE b == cancelWaiting(a, E)
  <2>1. /\ Guarded(b) /\ OldestFirst(a, b)
        /\ b.dispatching = a.dispatching /\ b.slots = a.slots
        /\ Queued(b) = Queued(a) \ W /\ Len(b.queue) <= Len(a.queue)
        /\ b.records \subseteq a.records
        /\ \A j \in b.records : b.number[j] = a.number[j]
        /\ \A j \in W : \/ b.state[j] = "CANCELLED" /\ b.reason[j] = a.reason[j]
                        \/ b.state[j] = "GONE" /\ b.reason[j] = None
        /\ \A j \in Job \ W : Kept(a, b, j)
    BY <1>0, <1>3, <1>4, CancelWaitingPreserves
  <2>2. q = b
    BY DEF a
  <2> HIDE DEF b
  <2> QED BY <2>1, <2>2
<1>6. OldestFirst(r, q)
  BY <1>2, <1>5 DEF OldestFirst
<1>7. \A j \in W : /\ r.state[j] = "QUEUED" /\ j \in E /\ j \in Job
                   /\ a.reason[j] = why /\ why # None
  BY <1>0, <1>1, <1>2, LimitsAssumption DEF AreWaiting, waiting
<1>8. ASSUME NEW j \in Job PROVE Lives(r, q, j)
  <2>1. CASE j \in W
    BY <1>5, <1>7, <2>1 DEF Lives, Lifecycle!Moves, Lifecycle!Intends
  <2>2. CASE j \in E \ W
    <3>1. /\ r.state[j] \in {"QUEUED", "RUNNING"} /\ r.reason[j] = None
          /\ a.reason[j] = why /\ why # None
          /\ a.state[j] = IF r.state[j] = "RUNNING" THEN "CANCELLING" ELSE r.state[j]
      <4>1. j \in r.records /\ r.state[j] \notin Terminal /\ r.reason[j] = None
        BY <2>2 DEF Alive
      <4>2. r.state[j] \in State /\ r.state[j] \notin {"NEW", "GONE", "CANCELLING"}
        BY <4>1 DEF Guarded, Core, RecordsMatch, Registry, IntentShown
      <4> QED BY <1>2, <2>2, <4>1, <4>2, LimitsAssumption DEF State
    <3>2. q.state[j] = a.state[j] /\ q.reason[j] = a.reason[j]
      BY <1>5, <2>2, <3>1 DEF Kept, Terminal
    <3> QED BY <3>1, <3>2 DEF Lives, Lifecycle!Moves, Lifecycle!Intends
  <2>3. CASE j \notin E
    <3>1. Kept(r, q, j)
      BY <1>0, <1>2, <1>5, <2>3 DEF AreWaiting, Kept
    <3> QED BY <3>1, KeptLives
  <2> QED BY <2>1, <2>2, <2>3
<1>9. Quiet(r, q)
  <2>1. /\ q.dispatching = r.dispatching /\ q.slots = r.slots
        /\ Len(q.queue) <= Len(r.queue) /\ Queued(q) = Queued(r) \ W
        /\ \A j \in q.records : q.number[j] = r.number[j]
    BY <1>2, <1>5 DEF SameControl, Queued
  <2>2. ASSUME NEW j \in Job
        PROVE  /\ q.state[j] = "QUEUED" => r.state[j] = "QUEUED" /\ j \notin W
               /\ q.state[j] \in Started <=> r.state[j] \in Started
    <3>1. CASE j \in W
      BY <1>5, <1>7, <3>1 DEF Started
    <3>2. CASE j \notin W
      BY <1>2, <1>5, <3>2 DEF Kept, Started, Terminal
    <3> QED BY <3>1, <3>2
  <2> QED BY <2>1, <2>2 DEF Quiet
<1>10. q.records \subseteq r.records
  BY <1>2, <1>5
<1> QED BY <1>5, <1>6, <1>8, <1>9, <1>10 DEF Section, Lived

\* shutdown() up to the end of its section: the queue ends, and everything
\* else alive is asked to stop.
LEMMA ShutdownSection ==
    ASSUME NEW r, Guarded(r), IntentShown(r),
           NEW stop, stop = [r EXCEPT !.shutdownDone = TRUE, !.stopped = TRUE],
           NEW Q, Q = Queued(r),
           NEW f, f = finishLocked(request(dequeue(stop, Q), Q, "SHUTDOWN"), Q, "CANCELLED"),
           NEW q, q = intendLocked(f, Alive(f), "SHUTDOWN")
    PROVE  Section(r, q) /\ Quiet(r, q) /\ q.records \subseteq r.records
<1>1. /\ Core(r) /\ r \in Registry /\ r.records \subseteq Job
      /\ ResultsCompleted(r) /\ RoomKept(r) /\ QueueOrdered(r)
      /\ "SHUTDOWN" \in Reason /\ "CANCELLED" \in Terminal /\ None # "SHUTDOWN"
  BY LimitsAssumption DEF Guarded, Core, RecordsMatch, Registry, Reason, Terminal
<1>2. /\ stop \in Registry /\ SameRecords(r, stop) /\ stop.queue = r.queue
      /\ stop.dispatching = r.dispatching /\ stop.slots = r.slots
  BY <1>1 DEF Registry, SameRecords
<1>3. QueueOrdered(stop) /\ Queued(stop) = Q
  BY <1>1, <1>2 DEF QueueOrdered, SameRecords, Queued
<1> DEFINE d == dequeue(stop, Q)
<1>4. /\ d \in Registry /\ SameRecords(stop, d)
      /\ d.dispatching = stop.dispatching /\ d.slots = stop.slots
      /\ Queued(d) = {} /\ Len(d.queue) <= Len(stop.queue)
      /\ QueueOrdered(d)
  <2>1. /\ d \in Registry /\ SameRecords(stop, d)
        /\ d.dispatching = stop.dispatching /\ d.slots = stop.slots
        /\ Queued(d) = Queued(stop) \ Q /\ Len(d.queue) <= Len(stop.queue)
        /\ QueueOrdered(stop) => QueueOrdered(d)
    BY <1>2, DequeueKeeps
  <2> QED BY <1>3, <2>1
<1> HIDE DEF d
<1>5. SameRecords(r, d)
  BY <1>2, <1>4 DEF SameRecords
<1>6. Core(d) /\ Completed(d) = Completed(r) /\ ResultsCompleted(d) /\ RoomKept(d)
  BY <1>1, <1>4, <1>5, ControlPreserves
<1>7. /\ Q \in SUBSET d.records /\ \A j \in Q : j \notin r.dispatching /\ r.state[j] = "QUEUED"
      /\ Q \subseteq Job
  <2>1. \A j \in Q : j \in Job
    <3>1. \A i \in DOMAIN r.queue : r.queue[i] \in Job
      BY <1>1, ElementOfSeq, LenProperties DEF Registry
    <3> QED BY <3>1 DEF Queued
  <2>2. \A j \in Q : r.state[j] = "QUEUED" /\ j \notin r.dispatching
    BY <1>1 DEF Queued, QueueOrdered
  <2> QED BY <1>1, <1>5, <2>1, <2>2 DEF SameRecords, Core, RecordsMatch
<1> DEFINE a == request(d, Q, "SHUTDOWN")
<1>8. /\ Core(a) /\ SameControl(d, a) /\ a.records = d.records
      /\ a.state = d.state /\ a.number = d.number /\ a.order = d.order
      /\ a.size = d.size
      /\ \A j \in Job : a.reason[j] = IF j \in Q /\ d.reason[j] = None
                                      THEN "SHUTDOWN" ELSE d.reason[j]
      /\ Completed(a) = Completed(d)
      /\ ResultsCompleted(d) => ResultsCompleted(a)
      /\ RoomKept(d) => RoomKept(a)
      /\ QueueOrdered(d) => QueueOrdered(a)
  BY <1>1, <1>6, <1>7, RequestRecords
<1>9. f = finishLocked(a, Q, "CANCELLED")
  BY DEF d
<1> HIDE DEF a
<1>10. /\ Q \in SUBSET a.records /\ Q = {j \in Q : a.state[j] \notin Terminal}
       /\ \A j \in Q : j \notin a.dispatching /\ \A i \in DOMAIN a.queue : a.queue[i] # j
       /\ \A j \in a.records \ Q : a.size[j] > 0 => a.state[j] \in Terminal
       /\ QueueOrdered(a) /\ ResultsCompleted(a) /\ Queued(a) = {}
  <2>1. \A j \in Q : a.state[j] = "QUEUED"
    BY <1>5, <1>7, <1>8 DEF SameRecords
  <2>2. Queued(a) = {}
    BY <1>4, <1>8 DEF SameControl, Queued
  <2>3. QueueOrdered(a) /\ ResultsCompleted(a)
    BY <1>4, <1>6, <1>8
  <2>4. a.dispatching = r.dispatching
    BY <1>2, <1>4, <1>8 DEF SameControl
  <2>5. \A j \in a.records \ Q : a.size[j] > 0 => a.state[j] \in Terminal
    BY <2>3 DEF ResultsCompleted
  <2>6. \A i \in DOMAIN a.queue : FALSE
    BY <2>2 DEF Queued
  <2>7. Q = {j \in Q : a.state[j] \notin Terminal}
    BY <2>1 DEF Terminal
  <2> QED BY <1>7, <1>8, <2>2, <2>3, <2>4, <2>5, <2>6, <2>7
<1>11. /\ Core(f) /\ RoomKept(f) /\ OldestFirst(a, f) /\ Ends(a, f, Q, "CANCELLED")
       /\ ResultsCompleted(f) /\ QueueOrdered(f)
  <2> DEFINE b == finishLocked(a, Q, "CANCELLED")
  <2>1. /\ Core(b) /\ RoomKept(b) /\ OldestFirst(a, b) /\ Ends(a, b, Q, "CANCELLED")
        /\ (\A j \in a.records \ Q : a.size[j] > 0 => a.state[j] \in Terminal)
              => ResultsCompleted(b)
        /\ QueueOrdered(a) /\ (\A j \in Q : /\ j \notin a.dispatching
                                            /\ \A i \in DOMAIN a.queue : a.queue[i] # j)
              => QueueOrdered(b)
    BY <1>1, <1>8, <1>10, FinishPreserves
  <2> HIDE DEF b
  <2>2. f = b
    BY <1>9 DEF b
  <2> QED BY <1>10, <2>1, <2>2
<1> DEFINE E == Alive(f)
<1>12. /\ Core(q) /\ SameControl(f, q) /\ q.records = f.records
       /\ q.number = f.number /\ q.order = f.order /\ q.size = f.size
       /\ \A j \in Job : /\ q.reason[j] = IF j \in E /\ f.reason[j] = None
                                          THEN "SHUTDOWN" ELSE f.reason[j]
                         /\ q.state[j] = IF j \in E /\ f.state[j] = "RUNNING"
                                         THEN "CANCELLING" ELSE f.state[j]
       /\ Completed(q) = Completed(f)
       /\ ResultsCompleted(q) /\ RoomKept(q) /\ QueueOrdered(q)
  <2> DEFINE b == intendLocked(f, E, "SHUTDOWN")
  <2>1. /\ Core(b) /\ SameControl(f, b) /\ b.records = f.records
        /\ b.number = f.number /\ b.order = f.order /\ b.size = f.size
        /\ \A j \in Job : /\ b.reason[j] = IF j \in E /\ f.reason[j] = None
                                           THEN "SHUTDOWN" ELSE f.reason[j]
                          /\ b.state[j] = IF j \in E /\ f.state[j] = "RUNNING"
                                          THEN "CANCELLING" ELSE f.state[j]
        /\ Completed(b) = Completed(f)
        /\ ResultsCompleted(f) => ResultsCompleted(b)
        /\ RoomKept(f) => RoomKept(b)
        /\ QueueOrdered(f) => QueueOrdered(b)
    BY <1>1, <1>11, IntendPreserves
  <2> HIDE DEF b
  <2>2. q = b
    BY DEF b
  <2> QED BY <1>11, <2>1, <2>2
<1>13. Guarded(q)
  BY <1>12 DEF Guarded
<1>14. OldestFirst(r, q)
  BY <1>5, <1>6, <1>8, <1>11, <1>12 DEF OldestFirst, SameRecords
<1>15. \A j \in Q : /\ a.reason[j] # None /\ r.state[j] = "QUEUED"
                    /\ \/ f.state[j] = "CANCELLED" /\ f.reason[j] = a.reason[j]
                       \/ f.state[j] = "GONE" /\ f.reason[j] = None
                    /\ r.reason[j] = None \/ a.reason[j] = r.reason[j]
                    /\ q.state[j] = f.state[j] /\ q.reason[j] = f.reason[j]
  <2>1. \A j \in Q : \/ f.state[j] = "CANCELLED" /\ f.reason[j] = a.reason[j]
                     \/ f.state[j] = "GONE" /\ f.reason[j] = None
    BY <1>11 DEF Ends
  <2>2. \A j \in Q : j \notin E
    BY <1>7, <1>11, <2>1 DEF Alive, Terminal, Core, RecordsMatch
  <2>3. \A j \in Q : a.reason[j] # None /\ (r.reason[j] = None \/ a.reason[j] = r.reason[j])
    BY <1>1, <1>5, <1>7, <1>8 DEF SameRecords
  <2> QED BY <1>7, <1>12, <2>1, <2>2, <2>3
<1>16. \A j \in Job \ Q : Kept(r, f, j)
  BY <1>5, <1>8, <1>11 DEF Ends, Kept, SameRecords
<1>17. ASSUME NEW j \in Job PROVE Lives(r, q, j)
  <2>1. CASE j \in Q
    BY <1>15, <2>1 DEF Lives, Lifecycle!Moves, Lifecycle!Intends
  <2>2. CASE j \notin Q /\ j \in E
    <3>1. f.state[j] \in {"QUEUED", "RUNNING", "CANCELLING"}
      <4>1. f.state[j] \notin Terminal /\ j \in f.records
        BY <2>2 DEF Alive
      <4>2. f.state[j] \in State /\ f.state[j] \notin {"NEW", "GONE"}
        BY <4>1, <1>11 DEF Core, RecordsMatch, Registry
      <4> QED BY <4>1, <4>2 DEF State
    <3>2. f.state[j] = r.state[j] /\ f.reason[j] = r.reason[j]
      BY <1>16, <2>2, <3>1 DEF Kept
    <3>3. q.reason[j] = IF r.reason[j] = None THEN "SHUTDOWN" ELSE r.reason[j]
      BY <1>12, <2>2, <3>2
    <3>4. q.state[j] = IF r.state[j] = "RUNNING" THEN "CANCELLING" ELSE r.state[j]
      BY <1>12, <2>2, <3>2
    <3>5. r.state[j] = "CANCELLING" => r.reason[j] # None
      BY DEF IntentShown
    <3> HIDE DEF E
    <3> QED BY <1>1, <3>1, <3>2, <3>3, <3>4, <3>5 DEF Lives, Lifecycle!Moves, Lifecycle!Intends
  <2>3. CASE j \notin Q /\ j \notin E
    <3>1. Kept(r, q, j)
      BY <1>12, <1>16, <2>3 DEF Kept
    <3> QED BY <3>1, KeptLives
  <2> QED BY <2>1, <2>2, <2>3
<1>18. Quiet(r, q)
  <2>1. /\ q.queue = d.queue /\ q.dispatching = d.dispatching /\ q.slots = d.slots
    BY <1>8, <1>11, <1>12 DEF Ends, SameControl
  <2>3. Queued(q) = {}
    <3>1. Queued(q) = Queued(d)
      BY <2>1, SameQueue
    <3> QED BY <1>4, <3>1
  <2>4. \A j \in q.records : q.number[j] = r.number[j]
    BY <1>5, <1>8, <1>11, <1>12 DEF Ends, SameRecords
  <2>2. ASSUME NEW j \in Job
        PROVE  /\ q.state[j] = "QUEUED" => r.state[j] = "QUEUED" /\ j \notin Q
               /\ q.state[j] \in Started <=> r.state[j] \in Started
    <3>1. CASE j \in Q
      BY <1>15, <3>1 DEF Started
    <3>2. CASE j \notin Q
      BY <1>12, <1>16, <3>2 DEF Kept, Started, Terminal
    <3> QED BY <3>1, <3>2
  <2> QED BY <1>2, <1>4, <2>1, <2>2, <2>3, <2>4 DEF Quiet
<1>19. q.records \subseteq r.records
  BY <1>5, <1>8, <1>11, <1>12 DEF Ends, SameRecords
<1> QED BY <1>13, <1>14, <1>17, <1>18, <1>19 DEF Section, Lived

-----------------------------------------------------------------------------
(* A job enters, and is taken and given back.                              *)

\* The record submit() leaves once it has purged.
entered(r, j) ==
    emitLocked([r EXCEPT !.records = @ \cup {j},
                         !.queue = Append(@, j),
                         !.state[j] = "QUEUED",
                         !.number[j] = r.submissions + 1,
                         !.submissions = @ + 1],
               {j}, "job.queued")

\* submit() adds the youngest job at the end of the queue.
LEMMA SubmitSection ==
    ASSUME NEW r, Guarded(r), NEW j \in Job, r.state[j] = "NEW",
           NEW q, q = entered(r, j)
    PROVE  /\ Section(r, q)
           /\ q.dispatching = r.dispatching /\ q.slots = r.slots
           /\ q.queue = Append(r.queue, j) /\ Queued(q) = Queued(r) \cup {j}
           /\ Len(q.queue) = Len(r.queue) + 1
           /\ q.state[j] = "QUEUED"
           /\ \A k \in r.records : q.number[k] = r.number[k] /\ r.number[k] < q.number[j]
           /\ \A k \in Job \ {j} : q.state[k] = r.state[k]
<1> DEFINE records == r.records \cup {j}
           queue == Append(r.queue, j)
           state == [r.state EXCEPT ![j] = "QUEUED"]
           number == [r.number EXCEPT ![j] = r.submissions + 1]
           submissions == r.submissions + 1
           b == [r EXCEPT !.records = records, !.queue = queue, !.state = state,
                          !.number = number, !.submissions = submissions]
<1>1. /\ Core(r) /\ r \in Registry /\ r.records \subseteq Job
      /\ ResultsCompleted(r) /\ RoomKept(r) /\ QueueOrdered(r)
  BY DEF Guarded, Core, RecordsMatch, Registry
<1>2. /\ r.submissions \in Nat /\ r.queue \in Seq(Job) /\ Len(r.queue) \in Nat
      /\ DOMAIN r.queue = 1..Len(r.queue) /\ \A i \in 1..Len(r.queue) : r.queue[i] \in Job
      /\ r.dispatching \subseteq Job /\ \A k \in Job : r.number[k] \in Nat
  BY <1>1, LenProperties, ElementOfSeq DEF Registry
<1>3. j \notin r.records /\ r.size[j] = 0 /\ r.reason[j] = None /\ r.log[j] = <<>>
  BY <1>1 DEF Core, RecordsMatch
<1>4. /\ queue \in Seq(Job) /\ Len(queue) = Len(r.queue) + 1
      /\ \A i \in 1..Len(r.queue) : queue[i] = r.queue[i]
      /\ queue[Len(r.queue) + 1] = j /\ DOMAIN queue = 1..(Len(r.queue) + 1)
  BY <1>2, AppendProperties, LenProperties
<1>5. /\ records \in SUBSET Job /\ state \in [Job -> State] /\ number \in [Job -> Nat]
      /\ submissions \in Nat
  BY <1>1, <1>2 DEF Registry, State
<1>6. /\ state[j] = "QUEUED" /\ number[j] = r.submissions + 1
      /\ \A k \in Job \ {j} : state[k] = r.state[k] /\ number[k] = r.number[k]
  BY <1>1 DEF Registry
<1>7. q = emitLocked(b, {j}, "job.queued")
  BY DEF entered
<1> HIDE DEF queue, state, number
<1>8. /\ b \in Registry /\ b.records = records /\ b.queue = queue /\ b.state = state
      /\ b.number = number /\ b.submissions = submissions
      /\ b.dispatching = r.dispatching /\ b.slots = r.slots /\ b.reason = r.reason
      /\ b.order = r.order /\ b.completions = r.completions /\ b.size = r.size
      /\ b.bytes = r.bytes /\ b.log = r.log
  <2> HIDE DEF records, submissions
  <2> QED BY <1>1, <1>4, <1>5 DEF Registry
<1> HIDE DEF b
<1>9. /\ q \in Registry /\ SameControl(b, q)
      /\ q.records = b.records /\ q.state = b.state /\ q.reason = b.reason
      /\ q.number = b.number /\ q.order = b.order /\ q.completions = b.completions
      /\ q.size = b.size /\ q.bytes = b.bytes
      /\ \A k \in {j} : q.log[k] = Append(b.log[k], "job.queued")
      /\ \A k \in Job \ {j} : q.log[k] = b.log[k]
  <2> DEFINE e == emitLocked(b, {j}, "job.queued")
  <2>1. {j} \in SUBSET Job /\ "job.queued" \in EventType
    BY DEF EventType
  <2>2. /\ e \in Registry /\ SameControl(b, e)
        /\ e.records = b.records /\ e.state = b.state /\ e.reason = b.reason
        /\ e.number = b.number /\ e.order = b.order /\ e.completions = b.completions
        /\ e.size = b.size /\ e.bytes = b.bytes
        /\ \A k \in {j} : e.log[k] = Append(b.log[k], "job.queued")
        /\ \A k \in Job \ {j} : e.log[k] = b.log[k]
    BY <1>8, <2>1, EmitAppends
  <2> HIDE DEF e
  <2>3. q = e
    BY <1>7 DEF e
  <2> QED BY <2>2, <2>3
<1>10. /\ q.queue = queue /\ q.dispatching = r.dispatching /\ q.slots = r.slots
       /\ q.submissions = submissions /\ q.records = records
       /\ q.state = state /\ q.number = number /\ q.reason = r.reason
       /\ q.order = r.order /\ q.completions = r.completions /\ q.size = r.size
       /\ q.bytes = r.bytes /\ q.log[j] = Append(r.log[j], "job.queued")
       /\ \A k \in Job \ {j} : q.log[k] = r.log[k]
  BY <1>8, <1>9 DEF SameControl
<1>11. Completed(q) = Completed(r)
  BY <1>1, <1>3, <1>6, <1>10 DEF Completed, Terminal
<1>12. RecordsMatch(q)
  <2>1. IsFiniteSet(q.records)
    BY <1>1, <1>10, FS_AddElement DEF Core, RecordsMatch
  <2>2. \A k \in Job : k \in q.records <=> q.state[k] \notin {"NEW", "GONE"}
    BY <1>1, <1>6, <1>10 DEF Core, RecordsMatch
  <2>3. \A k \in Job \ q.records : q.size[k] = 0 /\ q.reason[k] = None /\ q.log[k] = <<>>
    BY <1>1, <1>10 DEF Core, RecordsMatch
  <2> QED BY <1>9, <2>1, <2>2, <2>3 DEF RecordsMatch
<1>13. NumbersDiffer(q) /\ \A k \in r.records : q.number[k] = r.number[k] /\ r.number[k] < q.number[j]
  <2>1. \A k \in r.records : /\ k \in Job \ {j} /\ r.number[k] <= r.submissions
                             /\ r.number[k] \in Nat
    BY <1>1, <1>2, <1>3 DEF Core, NumbersDiffer
  <2>2. \A k \in r.records : q.number[k] = r.number[k] /\ r.number[k] < q.number[j]
    BY <1>2, <1>6, <1>10, <2>1
  <2>3. \A k \in q.records : q.number[k] <= q.submissions
    BY <1>2, <1>6, <1>10, <2>1
  <2>4. \A k, l \in r.records : r.number[k] = r.number[l] => k = l
    BY <1>1 DEF Core, NumbersDiffer
  <2>5. \A k, l \in q.records : q.number[k] = q.number[l] => k = l
    BY <1>2, <1>6, <1>10, <2>1, <2>2, <2>4
  <2> QED BY <2>2, <2>3, <2>5 DEF NumbersDiffer
<1>14. OrdersDiffer(q)
  BY <1>1, <1>10, <1>11 DEF Core, OrdersDiffer
<1>15. BytesCounted(q)
  <2>1. Sized(q, records) /\ j \in records /\ q.size[j] = 0
    BY <1>3, <1>10, <1>12 DEF RecordsMatch, Registry, Sized
  <2>2. records \ {j} = r.records
    BY <1>3
  <2> HIDE DEF records
  <2>3. Bytes(q, records) = Bytes(q, records \ {j}) + q.size[j] /\ Bytes(q, records \ {j}) \in Nat
    BY <2>1, BytesWithout
  <2>4. Bytes(q, r.records) = Bytes(r, r.records)
    BY <1>10, BytesSame
  <2>5. r.bytes = Bytes(r, r.records) /\ r.bytes <= MaxTotalResultBytes
    BY <1>1 DEF Core, BytesCounted
  <2>6. Bytes(q, records) = Bytes(r, r.records)
    <3>1. Bytes(q, records \ {j}) = Bytes(r, r.records)
      BY <2>2, <2>4
    <3> QED BY <2>1, <2>3, <3>1
  <2> QED BY <1>10, <2>5, <2>6 DEF BytesCounted
<1>16. Streamed(q)
  <2> SUFFICES ASSUME NEW k \in q.records
               PROVE  LET log == q.log[k] IN
                      /\ log # <<>> /\ log[1] = "job.queued"
                      /\ \A i \in 1..(Len(log) - 1) : ~ IsTerminalEvent(log[i])
                      /\ IsTerminalEvent(log[Len(log)]) <=> q.state[k] \in Terminal
                      /\ q.state[k] \in Terminal => log[Len(log)] = EventOf(q.state[k])
    BY DEF Streamed
  <2>1. CASE k = j
    <3>1. q.log[j] = <<"job.queued">> /\ q.state[j] = "QUEUED"
      BY <1>3, <1>6, <1>10
    <3>2. ~ IsTerminalEvent("job.queued")
      BY TerminalEvents
    <3> QED BY <2>1, <3>1, <3>2 DEF Terminal
  <2>2. CASE k # j
    <3>1. k \in r.records /\ q.log[k] = r.log[k] /\ q.state[k] = r.state[k]
      BY <1>1, <1>6, <1>10, <2>2
    <3> QED BY <1>1, <3>1 DEF Core, Streamed
  <2> QED BY <2>1, <2>2
<1>17. ResultsCompleted(q) /\ RoomKept(q)
  BY <1>1, <1>3, <1>6, <1>10, <1>11 DEF ResultsCompleted, RoomKept
<1>18. /\ \A i \in DOMAIN r.queue : r.queue[i] \in r.records /\ r.queue[i] # j
       /\ \A k \in r.dispatching : k # j
  BY <1>1, <1>2, <1>3 DEF QueueOrdered, Core, RecordsMatch
<1>19. QueueOrdered(q)
  <2>1. \A i \in DOMAIN queue : q.state[queue[i]] = "QUEUED" /\ queue[i] \notin q.dispatching
    <3> TAKE i \in DOMAIN queue
    <3>1. CASE i \in DOMAIN r.queue
      BY <1>1, <1>2, <1>4, <1>6, <1>10, <1>18, <3>1 DEF QueueOrdered
    <3>2. CASE i = Len(r.queue) + 1
      BY <1>4, <1>6, <1>10, <1>18, <3>2
    <3> QED BY <1>2, <1>4, <3>1, <3>2
  <2>2. \A i, k \in DOMAIN queue : i < k => q.number[queue[i]] < q.number[queue[k]]
    <3> SUFFICES ASSUME NEW i \in DOMAIN queue, NEW k \in DOMAIN queue, i < k
                 PROVE  q.number[queue[i]] < q.number[queue[k]]
      OBVIOUS
    <3>1. i \in DOMAIN r.queue /\ queue[i] = r.queue[i] /\ r.queue[i] \in r.records
      BY <1>2, <1>4, <1>18
    <3>2. CASE k \in DOMAIN r.queue
      <4>1. queue[k] = r.queue[k] /\ r.queue[k] \in r.records
        BY <1>2, <1>4, <1>18, <3>2
      <4>2. r.number[r.queue[i]] < r.number[r.queue[k]]
        BY <1>1, <3>1, <3>2 DEF QueueOrdered
      <4> QED BY <1>13, <3>1, <4>1, <4>2
    <3>3. CASE k = Len(r.queue) + 1
      BY <1>4, <1>13, <3>1, <3>3
    <3> QED BY <1>2, <1>4, <3>2, <3>3
  <2>3. \A k \in r.dispatching : q.state[k] = "QUEUED"
    BY <1>1, <1>2, <1>6, <1>10, <1>18 DEF QueueOrdered
  <2> QED BY <1>10, <2>1, <2>2, <2>3 DEF QueueOrdered
<1>20. Guarded(q)
  BY <1>12, <1>13, <1>14, <1>15, <1>16, <1>17, <1>19 DEF Guarded, Core
<1>21. OldestFirst(r, q)
  BY <1>10 DEF OldestFirst
<1>22. Lived(r, q)
  <2>1. Lives(r, q, j)
    BY <1>3, <1>6, <1>10 DEF Lives, Lifecycle!Moves, Lifecycle!Intends
  <2>2. \A k \in Job \ {j} : Lives(r, q, k)
    BY <1>6, <1>10 DEF Lives, Lifecycle!Moves, Lifecycle!Intends
  <2> QED BY <2>1, <2>2 DEF Lived
<1>23. Queued(q) = Queued(r) \cup {j}
  <2>1. ASSUME NEW i \in DOMAIN queue PROVE queue[i] \in Queued(r) \cup {j}
    BY <1>2, <1>4 DEF Queued
  <2>2. ASSUME NEW i \in DOMAIN r.queue PROVE r.queue[i] \in Queued(q)
    BY <1>2, <1>4, <1>10 DEF Queued
  <2>3. j \in Queued(q)
    BY <1>2, <1>4, <1>10 DEF Queued
  <2>4. Queued(q) \subseteq Queued(r) \cup {j}
    BY <1>10, <2>1 DEF Queued
  <2>5. Queued(r) \subseteq Queued(q)
    BY <2>2 DEF Queued
  <2> QED BY <2>3, <2>4, <2>5
<1>24. q.queue = Append(r.queue, j) /\ Len(q.queue) = Len(r.queue) + 1
  BY <1>4, <1>10 DEF queue
<1> QED BY <1>6, <1>10, <1>13, <1>20, <1>21, <1>22, <1>23, <1>24 DEF Section

\* What pump() leaves when it takes job h.
taken(r, h) == [r EXCEPT !.queue = Tail(@), !.dispatching = @ \cup {h}, !.slots = @ + 1]

\* pump() takes the oldest queued job into the dispatcher's hands.
LEMMA TakeSection ==
    ASSUME NEW r, Guarded(r), r.queue # <<>>, NEW h, h = Head(r.queue),
           NEW q, q = taken(r, h)
    PROVE  /\ Section(r, q) /\ SameRecords(r, q)
           /\ q.dispatching = r.dispatching \cup {h} /\ q.slots = r.slots + 1
           /\ h \in r.records /\ r.state[h] = "QUEUED" /\ h \notin r.dispatching
           /\ Queued(r) = Queued(q) \cup {h} /\ h \notin Queued(q)
           /\ Len(q.queue) = Len(r.queue) - 1
           /\ \A i \in DOMAIN q.queue : r.number[h] < r.number[q.queue[i]]
<1> DEFINE queue == Tail(r.queue)
           dispatching == r.dispatching \cup {h}
<1>1. /\ Core(r) /\ r \in Registry /\ r.records \subseteq Job
      /\ ResultsCompleted(r) /\ RoomKept(r) /\ QueueOrdered(r)
  BY DEF Guarded, Core, RecordsMatch, Registry
<1>2. /\ r.queue \in Seq(Job) /\ Len(r.queue) \in Nat \ {0}
      /\ DOMAIN r.queue = 1..Len(r.queue) /\ \A i \in 1..Len(r.queue) : r.queue[i] \in Job
  BY <1>1, LenProperties, ElementOfSeq, EmptySeq DEF Registry
<1>3. /\ queue \in Seq(Job) /\ Len(queue) = Len(r.queue) - 1
      /\ DOMAIN queue = 1..(Len(r.queue) - 1)
      /\ \A i \in 1..(Len(r.queue) - 1) : queue[i] = r.queue[i + 1]
  BY <1>2, HeadTailProperties, LenProperties
<1>4. h = r.queue[1] /\ 1 \in DOMAIN r.queue
  BY <1>2
<1> HIDE DEF queue
<1>5. /\ h \in Job /\ r.state[h] = "QUEUED" /\ h \notin r.dispatching /\ h \in r.records
      /\ \A i \in DOMAIN r.queue : i > 1 => r.number[h] < r.number[r.queue[i]]
  BY <1>1, <1>2, <1>4 DEF QueueOrdered, Core, RecordsMatch
<1>6. /\ q \in Registry /\ q.queue = queue /\ q.dispatching = dispatching
      /\ q.slots = r.slots + 1 /\ SameRecords(r, q)
  <2>1. dispatching \in SUBSET Job /\ r.slots + 1 \in Int
    BY <1>1, <1>5, SMTT(20) DEF Registry
  <2>2. q = [r EXCEPT !.queue = queue, !.dispatching = dispatching, !.slots = r.slots + 1]
    BY DEF queue, taken
  <2> HIDE DEF dispatching
  <2> QED BY <1>1, <1>3, <2>1, <2>2 DEF Registry, SameRecords
<1>7. Core(q) /\ ResultsCompleted(q) /\ RoomKept(q)
  BY <1>1, <1>6, ControlPreserves
<1>8. \A i \in DOMAIN queue : i + 1 \in DOMAIN r.queue /\ i + 1 > 1 /\ queue[i] = r.queue[i + 1]
  BY <1>2, <1>3
<1>9. \A i \in DOMAIN queue : r.number[h] < r.number[queue[i]] /\ r.number[h] \in Nat
  BY <1>1, <1>5, <1>8 DEF Registry
<1>10. QueueOrdered(q)
  <2>1. /\ \A i \in DOMAIN r.queue :
              r.state[r.queue[i]] = "QUEUED" /\ r.queue[i] \notin r.dispatching
        /\ \A i, k \in DOMAIN r.queue : i < k => r.number[r.queue[i]] < r.number[r.queue[k]]
        /\ \A j \in r.dispatching : r.state[j] = "QUEUED"
    BY <1>1 DEF QueueOrdered
  <2>2. \A i \in DOMAIN queue : r.state[queue[i]] = "QUEUED" /\ queue[i] \notin dispatching
    BY <1>8, <1>9, <2>1
  <2>3. \A i, k \in DOMAIN queue : i < k => r.number[queue[i]] < r.number[queue[k]]
    <3> SUFFICES ASSUME NEW i \in DOMAIN queue, NEW k \in DOMAIN queue, i < k
                 PROVE  r.number[queue[i]] < r.number[queue[k]]
      OBVIOUS
    <3>1. i + 1 < k + 1
      BY <1>2, <1>3
    <3> QED BY <1>8, <2>1, <3>1
  <2>4. \A j \in dispatching : r.state[j] = "QUEUED"
    BY <1>5, <2>1
  <2> QED BY <1>6, <2>2, <2>3, <2>4 DEF QueueOrdered, SameRecords
<1>11. Section(r, q)
  BY <1>6, <1>7, <1>10, ControlSection DEF Guarded
<1>12. Queued(r) = Queued(q) \cup {h} /\ h \notin Queued(q)
  <2>1. ASSUME NEW i \in DOMAIN r.queue PROVE r.queue[i] \in Queued(q) \cup {h}
    <3>1. CASE i = 1
      BY <1>4, <3>1
    <3>2. CASE i # 1
      <4>1. i - 1 \in DOMAIN queue /\ queue[i - 1] = r.queue[i]
        BY <1>2, <1>3, <3>2
      <4> QED BY <1>6, <4>1 DEF Queued
    <3> QED BY <3>1, <3>2
  <2>2. ASSUME NEW i \in DOMAIN queue PROVE queue[i] \in Queued(r) /\ queue[i] # h
    BY <1>8, <1>9 DEF Queued
  <2>3. h \in Queued(r)
    BY <1>4 DEF Queued
  <2>4. Queued(r) \subseteq Queued(q) \cup {h}
    BY <2>1 DEF Queued
  <2>5. Queued(q) \subseteq Queued(r) \ {h}
    BY <1>6, <2>2 DEF Queued
  <2> QED BY <2>3, <2>4, <2>5
<1> QED BY <1>3, <1>5, <1>6, <1>9, <1>11, <1>12

\* What startAdmitted() leaves for a job that was not overtaken.
started(r, j) ==
    emitLocked([r EXCEPT !.dispatching = @ \ {j}, !.state[j] = "RUNNING"], {j}, "job.started")

\* startAdmitted() starts the job in the dispatcher's hands.
LEMMA StartSection ==
    ASSUME NEW r, Guarded(r), NEW j \in r.dispatching, r.reason[j] = None,
           NEW q, q = started(r, j)
    PROVE  /\ Section(r, q)
           /\ q.dispatching = r.dispatching \ {j} /\ q.slots = r.slots
           /\ q.queue = r.queue /\ q.number = r.number
           /\ q.state[j] = "RUNNING" /\ \A k \in Job \ {j} : q.state[k] = r.state[k]
<1> DEFINE dispatching == r.dispatching \ {j}
           state == [r.state EXCEPT ![j] = "RUNNING"]
           b == [r EXCEPT !.dispatching = dispatching, !.state = state]
<1>1. /\ Core(r) /\ r \in Registry /\ r.records \subseteq Job /\ r.dispatching \subseteq Job
      /\ ResultsCompleted(r) /\ RoomKept(r) /\ QueueOrdered(r) /\ j \in Job
  BY DEF Guarded, Core, RecordsMatch, Registry
<1>2. /\ r.state[j] = "QUEUED" /\ j \in r.records
  BY <1>1 DEF QueueOrdered, Core, RecordsMatch
<1>3. /\ dispatching \in SUBSET Job /\ state \in [Job -> State]
      /\ state[j] = "RUNNING" /\ \A k \in Job \ {j} : state[k] = r.state[k]
  BY <1>1 DEF Registry, State
<1>4. q = emitLocked(b, {j}, "job.started")
  BY DEF started
<1> HIDE DEF state
<1>5. /\ b \in Registry /\ b.dispatching = dispatching /\ b.state = state
      /\ b.queue = r.queue /\ b.slots = r.slots /\ b.submissions = r.submissions
      /\ b.records = r.records /\ b.reason = r.reason /\ b.number = r.number
      /\ b.order = r.order /\ b.completions = r.completions /\ b.size = r.size
      /\ b.bytes = r.bytes /\ b.log = r.log
  <2> HIDE DEF dispatching
  <2> QED BY <1>1, <1>3 DEF Registry
<1> HIDE DEF b
<1>6. /\ q \in Registry /\ SameControl(b, q)
      /\ q.records = b.records /\ q.state = b.state /\ q.reason = b.reason
      /\ q.number = b.number /\ q.order = b.order /\ q.completions = b.completions
      /\ q.size = b.size /\ q.bytes = b.bytes
      /\ \A k \in {j} : q.log[k] = Append(b.log[k], "job.started")
      /\ \A k \in Job \ {j} : q.log[k] = b.log[k]
  <2> DEFINE e == emitLocked(b, {j}, "job.started")
  <2>1. {j} \in SUBSET Job /\ "job.started" \in EventType
    BY <1>1 DEF EventType
  <2>2. /\ e \in Registry /\ SameControl(b, e)
        /\ e.records = b.records /\ e.state = b.state /\ e.reason = b.reason
        /\ e.number = b.number /\ e.order = b.order /\ e.completions = b.completions
        /\ e.size = b.size /\ e.bytes = b.bytes
        /\ \A k \in {j} : e.log[k] = Append(b.log[k], "job.started")
        /\ \A k \in Job \ {j} : e.log[k] = b.log[k]
    BY <1>5, <2>1, EmitAppends
  <2> HIDE DEF e
  <2>3. q = e
    BY <1>4 DEF e
  <2> QED BY <2>2, <2>3
<1>7. /\ q.queue = r.queue /\ q.dispatching = dispatching /\ q.slots = r.slots
      /\ q.submissions = r.submissions /\ q.records = r.records
      /\ q.state = state /\ q.number = r.number /\ q.reason = r.reason
      /\ q.order = r.order /\ q.completions = r.completions /\ q.size = r.size
      /\ q.bytes = r.bytes /\ q.log[j] = Append(r.log[j], "job.started")
      /\ \A k \in Job \ {j} : q.log[k] = r.log[k]
  BY <1>5, <1>6 DEF SameControl
<1>8. Completed(q) = Completed(r)
  BY <1>1, <1>2, <1>3, <1>7 DEF Completed, Terminal
<1>9. RecordsMatch(q)
  <2>1. \A k \in Job : k \in q.records <=> q.state[k] \notin {"NEW", "GONE"}
    BY <1>1, <1>2, <1>3, <1>7 DEF Core, RecordsMatch
  <2>2. \A k \in Job \ q.records : q.size[k] = 0 /\ q.reason[k] = None /\ q.log[k] = <<>>
    BY <1>1, <1>2, <1>7 DEF Core, RecordsMatch
  <2> QED BY <1>1, <1>6, <1>7, <2>1, <2>2 DEF Core, RecordsMatch
<1>10. NumbersDiffer(q) /\ OrdersDiffer(q)
  BY <1>1, <1>7, <1>8 DEF Core, NumbersDiffer, OrdersDiffer
<1>11. BytesCounted(q)
  BY <1>1, <1>7 DEF Core, BytesCounted, Bytes
<1>12. Streamed(q)
  <2> SUFFICES ASSUME NEW k \in q.records
               PROVE  LET log == q.log[k] IN
                      /\ log # <<>> /\ log[1] = "job.queued"
                      /\ \A i \in 1..(Len(log) - 1) : ~ IsTerminalEvent(log[i])
                      /\ IsTerminalEvent(log[Len(log)]) <=> q.state[k] \in Terminal
                      /\ q.state[k] \in Terminal => log[Len(log)] = EventOf(q.state[k])
    BY DEF Streamed
  <2>1. CASE k = j
    <3>1. r.log[j] \in Seq(EventType) /\ r.state[j] \notin Terminal
      BY <1>1, <1>2 DEF Registry, Terminal
    <3>2. /\ r.log[j] # <<>> /\ r.log[j][1] = "job.queued"
          /\ \A i \in 1..(Len(r.log[j]) - 1) : ~ IsTerminalEvent(r.log[j][i])
          /\ ~ IsTerminalEvent(r.log[j][Len(r.log[j])])
      BY <1>1, <1>2, <3>1 DEF Core, Streamed
    <3>3. /\ q.log[j] # <<>> /\ q.log[j][1] = "job.queued"
          /\ \A i \in 1..(Len(q.log[j]) - 1) : ~ IsTerminalEvent(q.log[j][i])
          /\ q.log[j][Len(q.log[j])] = "job.started"
      <4>1. "job.started" \in EventType
        BY DEF EventType
      <4>2. q.log[j] = Append(r.log[j], "job.started")
        BY <1>7
      <4> QED BY <3>1, <3>2, <4>1, <4>2, AppendStreams, SMTT(20)
    <3>4. ~ IsTerminalEvent("job.started")
      BY TerminalEvents
    <3>5. q.state[j] = "RUNNING" /\ "RUNNING" \notin Terminal
      BY <1>3, <1>7 DEF Terminal
    <3> QED BY <2>1, <3>3, <3>4, <3>5
  <2>2. CASE k # j
    <3>1. k \in r.records /\ q.log[k] = r.log[k] /\ q.state[k] = r.state[k]
      BY <1>1, <1>3, <1>7, <2>2
    <3> QED BY <1>1, <3>1 DEF Core, Streamed
  <2> QED BY <2>1, <2>2
<1>13. ResultsCompleted(q) /\ RoomKept(q)
  <2>1. r.size[j] > 0 => FALSE
    BY <1>1, <1>2 DEF ResultsCompleted, Terminal
  <2> QED BY <1>1, <1>3, <1>7, <1>8, <2>1 DEF ResultsCompleted, RoomKept
<1>14. QueueOrdered(q)
  <2>1. \A i \in DOMAIN r.queue : r.queue[i] \in Job
    BY <1>1, ElementOfSeq, LenProperties DEF Registry
  <2> QED BY <1>1, <1>3, <1>7, <2>1 DEF QueueOrdered
<1>15. Guarded(q)
  BY <1>9, <1>10, <1>11, <1>12, <1>13, <1>14 DEF Guarded, Core
<1>16. OldestFirst(r, q)
  BY <1>7 DEF OldestFirst
<1>17. Lived(r, q)
  <2>1. Lives(r, q, j)
    BY <1>2, <1>3, <1>7 DEF Lives, Lifecycle!Moves, Lifecycle!Intends
  <2>2. \A k \in Job \ {j} : Lives(r, q, k)
    BY <1>3, <1>7 DEF Lives, Lifecycle!Moves, Lifecycle!Intends
  <2> QED BY <2>1, <2>2 DEF Lived
<1> QED BY <1>3, <1>7, <1>15, <1>16, <1>17 DEF Section

\* b is r without the slot of job j, which is no longer in `dispatching`.
Freed(r, b, j) ==
    /\ b \in Registry /\ SameRecords(r, b) /\ b.queue = r.queue
    /\ b.dispatching = r.dispatching \ {j} /\ b.slots = r.slots - 1
    /\ b.stopped = r.stopped

\* freeSlot, with or without dispatching.remove before it.
LEMMA FreeSlotFrees ==
    ASSUME NEW r, Guarded(r), NEW j
    PROVE  /\ Freed(r, [freeSlot(r) EXCEPT !.dispatching = @ \ {j}], j)
           /\ j \notin r.dispatching => Freed(r, freeSlot(r), j)
<1>1. r \in Registry
  BY DEF Guarded, Core, RecordsMatch
<1> DEFINE slots == r.slots - 1
           dispatching == r.dispatching \ {j}
           b == [r EXCEPT !.slots = slots]
           c == [b EXCEPT !.dispatching = dispatching]
<1>2. slots \in Int /\ dispatching \in SUBSET Job
  BY <1>1 DEF Registry
<1>3. freeSlot(r) = b
  BY DEF freeSlot
<1>4. /\ b \in Registry /\ SameRecords(r, b) /\ b.queue = r.queue
      /\ b.dispatching = r.dispatching /\ b.slots = slots /\ b.stopped = r.stopped
  <2> HIDE DEF slots
  <2> QED BY <1>1, <1>2 DEF Registry, SameRecords
<1>5. [freeSlot(r) EXCEPT !.dispatching = @ \ {j}] = c
  BY <1>3, <1>4
<1> HIDE DEF b
<1>6. /\ c \in Registry /\ SameRecords(b, c) /\ c.queue = b.queue
      /\ c.dispatching = dispatching /\ c.slots = b.slots /\ c.stopped = b.stopped
  <2> HIDE DEF dispatching
  <2> QED BY <1>2, <1>4 DEF Registry, SameRecords
<1>7. Freed(r, c, j)
  BY <1>4, <1>6 DEF Freed, SameRecords
<1>8. j \notin r.dispatching => Freed(r, b, j)
  <2>1. j \notin r.dispatching => r.dispatching = r.dispatching \ {j}
    OBVIOUS
  <2> QED BY <1>4, <2>1 DEF Freed
<1> QED BY <1>3, <1>5, <1>7, <1>8

\* A freed slot leaves the records as they were.
LEMMA FreedGuarded ==
    ASSUME NEW r, Guarded(r), NEW b, NEW j, Freed(r, b, j)
    PROVE  Guarded(b) /\ Section(r, b)
<1>1. b \in Registry /\ SameRecords(r, b)
  BY DEF Freed
<1>2. Core(b) /\ ResultsCompleted(b) /\ RoomKept(b)
  BY <1>1, ControlPreserves DEF Guarded
<1>3. QueueOrdered(b)
  BY DEF Guarded, QueueOrdered, Freed, SameRecords
<1>4. Guarded(b)
  BY <1>2, <1>3 DEF Guarded
<1> QED BY <1>1, <1>4, ControlSection

-----------------------------------------------------------------------------
(* A job leaves the dispatcher's or a worker's hands.                      *)

\* a is b with at most a first reason recorded for j.
Asked(b, a, j) ==
    /\ Guarded(a) /\ SameControl(b, a) /\ a.records = b.records
    /\ a.state = b.state /\ a.number = b.number /\ a.order = b.order /\ a.size = b.size
    /\ \A k \in Job \ {j} : a.reason[k] = b.reason[k]
    /\ b.reason[j] # None => a.reason[j] = b.reason[j]

\* CancellationToken.request on one job.
LEMMA RequestAsks ==
    ASSUME NEW b, Guarded(b), NEW j \in b.records, NEW why \in Reason
    PROVE  Asked(b, request(b, {j}, why), j) /\ request(b, {j}, why).reason[j] # None
<1> DEFINE a == request(b, {j}, why)
<1>1. /\ Core(a) /\ SameControl(b, a) /\ a.records = b.records
      /\ a.state = b.state /\ a.number = b.number /\ a.order = b.order
      /\ a.completions = b.completions /\ a.size = b.size /\ a.log = b.log
      /\ \A k \in Job : a.reason[k] = IF k \in {j} /\ b.reason[k] = None
                                      THEN why ELSE b.reason[k]
      /\ Completed(a) = Completed(b)
      /\ ResultsCompleted(b) => ResultsCompleted(a)
      /\ RoomKept(b) => RoomKept(a)
      /\ QueueOrdered(b) => QueueOrdered(a)
  <2>1. {j} \in SUBSET b.records
    OBVIOUS
  <2> QED BY <2>1, RequestRecords DEF Guarded
<1> HIDE DEF a
<1>2. j \in Job /\ why # None
  BY LimitsAssumption DEF Guarded, Core, RecordsMatch, Registry
<1>3. a.reason[j] # None
  BY <1>1, <1>2
<1>4. Guarded(a)
  BY <1>1 DEF Guarded
<1>5. Asked(b, a, j)
  BY <1>1, <1>2, <1>4 DEF Asked
<1> QED BY <1>3, <1>5 DEF a

\* overtake asks for the reason the code finds first.
LEMMA OvertakeAsks ==
    ASSUME NEW b, Guarded(b), NEW j \in b.records, NEW expired \in BOOLEAN
    PROVE  /\ Asked(b, overtake(b, j, expired), j)
           /\ b.stopped => overtake(b, j, expired).reason[j] # None
<1> DEFINE a == overtake(b, j, expired)
<1>1. /\ Core(a) /\ SameControl(b, a) /\ a.records = b.records
      /\ a.state = b.state /\ a.number = b.number /\ a.order = b.order
      /\ a.completions = b.completions /\ a.size = b.size /\ a.log = b.log
      /\ \A k \in Job \ {j} : a.reason[k] = b.reason[k]
      /\ b.reason[j] # None => a.reason[j] = b.reason[j]
      /\ b.stopped => a.reason[j] # None
      /\ Completed(a) = Completed(b)
      /\ ResultsCompleted(b) => ResultsCompleted(a)
      /\ RoomKept(b) => RoomKept(a)
      /\ QueueOrdered(b) => QueueOrdered(a)
  BY OvertakeRecords DEF Guarded
<1> HIDE DEF a
<1>2. Guarded(a)
  BY <1>1 DEF Guarded
<1> QED BY <1>1, <1>2 DEF Asked, a

\* Asking a job that is neither terminal nor cancelling is a section.
LEMMA AskedSection ==
    ASSUME NEW r, Guarded(r), NEW j \in r.records, r.state[j] = "QUEUED",
           NEW a, Asked(r, a, j)
    PROVE  Section(r, a)
<1>1. \A k \in Job : Lives(r, a, k)
  BY DEF Asked, Lives, Lifecycle!Intends
<1>2. OldestFirst(r, a)
  BY DEF Asked, OldestFirst
<1> QED BY <1>1, <1>2 DEF Section, Asked, Lived

\* Job j has ended and given its slot back; of the others, some completed
\* ones may be forgotten.
Released(r, q, j) ==
    /\ q.dispatching = r.dispatching \ {j} /\ q.slots = r.slots - 1 /\ q.queue = r.queue
    /\ q.records \subseteq r.records /\ \A k \in q.records : q.number[k] = r.number[k]
    /\ \A k \in Job \ {j} : Kept(r, q, k)
    /\ q.state[j] \in Terminal

\* The failure or cancellation of a job that holds a slot.
LEMMA ReleaseSection ==
    ASSUME NEW r, Guarded(r), IntentShown(r), NEW j \in r.records,
           r.state[j] \notin Terminal, j \notin Queued(r),
           NEW b, Freed(r, b, j), NEW a, Asked(b, a, j),
           NEW state \in {"FAILED", "CANCELLED"}, state = "CANCELLED" => a.reason[j] # None,
           NEW q, q = finishLocked(a, {j}, state)
    PROVE  Section(r, q) /\ Released(r, q, j)
<1>1. /\ Core(a) /\ j \in a.records /\ a.state[j] \notin Terminal /\ state \in Terminal
      /\ SameRecords(r, b) /\ j \in Job /\ QueueOrdered(a) /\ ResultsCompleted(a)
      /\ a.queue = r.queue /\ a.dispatching = r.dispatching \ {j} /\ a.slots = r.slots - 1
  BY DEF Asked, Freed, SameRecords, SameControl, Guarded, Terminal, Core, RecordsMatch, Registry
<1>2. j \notin a.dispatching /\ \A i \in DOMAIN a.queue : a.queue[i] # j
  BY <1>1 DEF Queued
<1>3. \A k \in a.records \ {j} : a.size[k] > 0 => a.state[k] \in Terminal
  BY <1>1 DEF ResultsCompleted
<1>4. /\ Core(q) /\ RoomKept(q) /\ OldestFirst(a, q)
      /\ Ends(a, q, {j}, state) /\ q.state[j] = state
      /\ ResultsCompleted(q) /\ QueueOrdered(q)
  <2> DEFINE e == finishLocked(a, {j}, state)
  <2>1. /\ Core(e) /\ RoomKept(e) /\ OldestFirst(a, e)
        /\ Ends(a, e, {j}, state) /\ e.state[j] = state
        /\ (\A k \in a.records \ {j} : a.size[k] > 0 => a.state[k] \in Terminal)
              => ResultsCompleted(e)
        /\ QueueOrdered(a) /\ j \notin a.dispatching
           /\ (\A i \in DOMAIN a.queue : a.queue[i] # j)
              => QueueOrdered(e)
    BY <1>1, FinishOne
  <2> HIDE DEF e
  <2>2. q = e
    BY DEF e
  <2> QED BY <1>1, <1>2, <1>3, <2>1, <2>2
<1>5. Guarded(q)
  BY <1>4 DEF Guarded
<1>6. /\ a.records = r.records /\ a.state = r.state /\ a.number = r.number
      /\ a.order = r.order /\ a.size = r.size
      /\ \A k \in Job \ {j} : a.reason[k] = r.reason[k]
      /\ r.reason[j] # None => a.reason[j] = r.reason[j]
  BY <1>1 DEF Asked, SameRecords
<1>7. OldestFirst(r, q)
  BY <1>4, <1>6 DEF OldestFirst, Completed
<1>8. \A k \in Job \ {j} : Kept(r, q, k)
  BY <1>4, <1>6 DEF Ends, Kept
<1>9. Lives(r, q, j)
  <2>1. q.state[j] = state /\ (q.reason[j] = a.reason[j])
    BY <1>4, <1>1 DEF Ends, Terminal
  <2>2. r.state[j] \in {"QUEUED", "RUNNING", "CANCELLING"}
    <3>1. r.state[j] \in State /\ r.state[j] \notin {"NEW", "GONE"}
      BY <1>1 DEF Guarded, Core, RecordsMatch, Registry
    <3> QED BY <3>1 DEF State
  <2>3. r.state[j] = "CANCELLING" => r.reason[j] # None
    BY <1>1 DEF IntentShown
  <2> QED BY <1>6, <2>1, <2>2, <2>3 DEF Lives, Lifecycle!Moves, Lifecycle!Intends
<1>10. Lived(r, q)
  BY <1>8, <1>9, KeptLives DEF Lived
<1>11. Released(r, q, j)
  BY <1>1, <1>4, <1>6, <1>8 DEF Released, Ends, SameControl
<1> QED BY <1>5, <1>7, <1>10, <1>11 DEF Section

\* The success of a job on a worker, if nobody asked it to stop.
LEMMA SucceedSection ==
    ASSUME NEW r, Guarded(r), IntentShown(r), NEW j \in r.records,
           r.state[j] \in Started, r.reason[j] = None, j \notin Queued(r),
           NEW b, Freed(r, b, j), NEW bytes \in 1..MaxResultBytes,
           NEW q, q = succeedLocked(b, j, bytes)
    PROVE  Section(r, q) /\ Released(r, q, j)
<1>1. /\ SameRecords(r, b) /\ b.queue = r.queue /\ b.dispatching = r.dispatching \ {j}
      /\ b.slots = r.slots - 1 /\ Guarded(b)
  BY FreedGuarded DEF Freed
<1>2. /\ j \in b.records /\ b.state[j] \notin Terminal /\ j \notin b.dispatching
      /\ \A i \in DOMAIN b.queue : b.queue[i] # j
  BY <1>1 DEF SameRecords, Started, Terminal, Queued
<1>3. /\ Guarded(q) /\ OldestFirst(b, q)
      /\ Ends(b, q, {j}, "SUCCEEDED") /\ q.state[j] = "SUCCEEDED"
  <2> DEFINE e == succeedLocked(b, j, bytes)
  <2>1. /\ Guarded(e) /\ OldestFirst(b, e)
        /\ Ends(b, e, {j}, "SUCCEEDED") /\ e.state[j] = "SUCCEEDED"
    BY <1>1, <1>2, SucceedPreserves
  <2> HIDE DEF e
  <2>2. q = e
    BY DEF e
  <2> QED BY <2>1, <2>2
<1>4. OldestFirst(r, q)
  BY <1>1, <1>3 DEF OldestFirst, Completed, SameRecords
<1>5. \A k \in Job \ {j} : Kept(r, q, k)
  BY <1>1, <1>3 DEF Ends, Kept, SameRecords
<1>6. Lives(r, q, j)
  <2>1. q.state[j] = "SUCCEEDED" /\ q.reason[j] = None
    BY <1>1, <1>3 DEF Ends, SameRecords
  <2>2. r.state[j] = "RUNNING"
    <3>1. j \in Job
      BY DEF Guarded, Core, RecordsMatch, Registry
    <3> QED BY <3>1 DEF Started, IntentShown
  <2> QED BY <2>1, <2>2 DEF Lives, Lifecycle!Moves, Lifecycle!Intends
<1>7. Lived(r, q)
  BY <1>5, <1>6, KeptLives DEF Lived
<1>8. Released(r, q, j)
  BY <1>1, <1>3, <1>5 DEF Released, Ends, SameControl, SameRecords, Terminal
<1> QED BY <1>3, <1>4, <1>7, <1>8 DEF Section

\* A blocked job that nobody stopped goes back to the front of the queue.
LEMMA PutBackSection ==
    ASSUME NEW r, Guarded(r), NEW j \in r.dispatching,
           \A i \in DOMAIN r.queue : r.number[j] < r.number[r.queue[i]],
           NEW b, Freed(r, b, j), NEW a, Asked(b, a, j), a.reason[j] = None,
           NEW q, q = requeueFirst(a, j)
    PROVE  /\ Section(r, q)
           /\ q.dispatching = r.dispatching \ {j} /\ q.slots = r.slots - 1
           /\ Len(q.queue) = Len(r.queue) + 1 /\ Queued(q) = Queued(r) \cup {j}
           /\ q.state = r.state /\ q.number = r.number
<1> DEFINE queue == <<j>> \o a.queue
<1>1. /\ Guarded(a) /\ Core(a) /\ a \in Registry /\ RecordsMatch(a)
      /\ SameRecords(r, b) /\ j \in Job
      /\ QueueOrdered(a) /\ ResultsCompleted(a) /\ RoomKept(a)
      /\ a.queue = r.queue /\ a.dispatching = r.dispatching \ {j} /\ a.slots = r.slots - 1
      /\ a.records = r.records /\ a.state = r.state /\ a.number = r.number
      /\ a.order = r.order /\ a.size = r.size
  BY DEF Asked, Freed, SameRecords, SameControl, Guarded, Core, RecordsMatch, Registry
<1>2. \A k \in Job : a.reason[k] = r.reason[k]
  BY <1>1 DEF Asked, SameRecords
<1>3. /\ a.queue \in Seq(Job) /\ Len(a.queue) \in Nat
      /\ DOMAIN a.queue = 1..Len(a.queue) /\ \A i \in 1..Len(a.queue) : a.queue[i] \in Job
  BY <1>1, LenProperties, ElementOfSeq DEF Registry
<1>4. /\ queue \in Seq(Job) /\ Len(queue) = Len(a.queue) + 1
      /\ DOMAIN queue = 1..(Len(a.queue) + 1)
      /\ queue[1] = j /\ \A i \in 1..Len(a.queue) : queue[i + 1] = a.queue[i]
  <2>1. <<j>> \in Seq(Job) /\ Len(<<j>>) = 1 /\ <<j>>[1] = j
    BY <1>1
  <2> QED BY <1>3, <2>1
<1>5. q = [a EXCEPT !.queue = queue]
  BY DEF requeueFirst
<1> HIDE DEF queue
<1>6. q \in Registry /\ q.queue = queue
  BY <1>1, <1>4, <1>5 DEF Registry
<1>7. SameRecords(a, q) /\ q.dispatching = a.dispatching /\ q.slots = a.slots
  BY <1>1, <1>5 DEF SameRecords, Registry
<1>8. Core(q) /\ ResultsCompleted(q) /\ RoomKept(q)
  BY <1>1, <1>6, <1>7, ControlPreserves
<1>9. r.state[j] = "QUEUED" /\ r.number[j] \in Nat
  BY <1>1 DEF Guarded, QueueOrdered, Core, RecordsMatch, Registry
<1>10. \A i \in DOMAIN queue : \/ i = 1 /\ queue[i] = j
                               \/ /\ i - 1 \in DOMAIN a.queue /\ i > 1
                                  /\ queue[i] = a.queue[i - 1]
  <2> TAKE i \in DOMAIN queue
  <2>1. CASE i = 1
    BY <1>4, <2>1
  <2>2. CASE i # 1
    <3>1. i - 1 \in 1..Len(a.queue) /\ i > 1 /\ (i - 1) + 1 = i
      BY <1>3, <1>4, <2>2
    <3> QED BY <1>3, <1>4, <3>1
  <2> QED BY <2>1, <2>2
<1>11. QueueOrdered(q)
  <2>1. /\ \A i \in DOMAIN a.queue :
              a.state[a.queue[i]] = "QUEUED" /\ a.queue[i] \notin a.dispatching
        /\ \A i, k \in DOMAIN a.queue : i < k => a.number[a.queue[i]] < a.number[a.queue[k]]
        /\ \A k \in a.dispatching : a.state[k] = "QUEUED"
    BY <1>1 DEF QueueOrdered
  <2>2. \A i \in DOMAIN queue : a.state[queue[i]] = "QUEUED" /\ queue[i] \notin a.dispatching
    BY <1>1, <1>9, <1>10, <2>1
  <2>3. \A i, k \in DOMAIN queue : i < k => a.number[queue[i]] < a.number[queue[k]]
    <3> SUFFICES ASSUME NEW i \in DOMAIN queue, NEW k \in DOMAIN queue, i < k
                 PROVE  a.number[queue[i]] < a.number[queue[k]]
      OBVIOUS
    <3>1. k - 1 \in DOMAIN a.queue /\ queue[k] = a.queue[k - 1]
      BY <1>3, <1>4, <1>10
    <3>2. CASE i = 1
      BY <1>1, <1>10, <3>1, <3>2
    <3>3. CASE i # 1
      <4>1. i - 1 \in DOMAIN a.queue /\ queue[i] = a.queue[i - 1] /\ i - 1 < k - 1
        BY <1>3, <1>4, <1>10, <3>3
      <4> QED BY <2>1, <3>1, <4>1
    <3> QED BY <3>2, <3>3
  <2> QED BY <1>6, <1>7, <2>1, <2>2, <2>3 DEF QueueOrdered, SameRecords
<1>12. Guarded(q)
  BY <1>8, <1>11 DEF Guarded
<1>13. OldestFirst(r, q)
  BY <1>1, <1>7 DEF OldestFirst, SameRecords
<1>14. Lived(r, q)
  BY <1>1, <1>2, <1>7 DEF SameRecords, Lived, Lives, Lifecycle!Intends
<1>15. Queued(q) = Queued(r) \cup {j}
  <2>1. \A i \in DOMAIN queue : queue[i] \in Queued(r) \cup {j}
    BY <1>1, <1>10 DEF Queued
  <2>2. ASSUME NEW i \in DOMAIN a.queue PROVE a.queue[i] \in Queued(q)
    <3>1. i + 1 \in DOMAIN queue /\ queue[i + 1] = a.queue[i]
      BY <1>3, <1>4
    <3> QED BY <1>6, <3>1 DEF Queued
  <2>3. j \in Queued(q)
    <3>1. 1 \in DOMAIN queue /\ queue[1] = j
      BY <1>3, <1>4
    <3> QED BY <1>6, <3>1 DEF Queued
  <2>4. Queued(q) \subseteq Queued(r) \cup {j}
    BY <1>6, <2>1 DEF Queued
  <2>5. Queued(r) \subseteq Queued(q)
    BY <1>1, <2>2 DEF Queued
  <2> QED BY <2>3, <2>4, <2>5
<1> QED BY <1>1, <1>4, <1>6, <1>7, <1>12, <1>13, <1>14, <1>15 DEF Section, SameRecords

=============================================================================
