------------------------ MODULE ClientSessionProofs -------------------------
(* Theorems of ClientSession, for every number of callers and processes    *)
(* and for every bound.                                                    *)
EXTENDS ClientSession, TLAPS

-----------------------------------------------------------------------------
(* The inductive invariant.                                                *)

Call == [at : {"idle", "waiting", "failed"}, op : Used \cup {None}, sent : Pair,
         intent : 0..MaxIntents, attempt : 0..MaxAttempts]

\* What observe may read in a body: revisions its session has reached.
BodyOK(body) ==
    body.session # None =>
        /\ body.session \in Session /\ body.session <= boot
        /\ logicalOf(body) \in Logical /\ logicalOf(body) <= final[body.session]
        /\ indexOf(body) \in Logical \cup {None}
        /\ indexOf(body) # None => indexOf(body) <= logicalOf(body)

\* The types in full.  A cache knows a revision exactly when it knows a
\* session, so that what it fills in is a pair; only an operation that takes
\* preconditions has sent some.
Shape ==
    /\ boot \in Session /\ revision \in Logical /\ final \in [Session -> Logical]
    /\ cache \in [session : Session \cup {None}, logical : Logical \cup {None},
                  index : Logical \cup {None}]
    /\ cache.session = None <=> cache.logical = None
    /\ retired \subseteq Session
    /\ applied \in [Caller -> [1..MaxIntents -> Nat]]
    /\ requests \subseteq Request
    /\ call \in [Caller -> Call]
    /\ \A c \in Caller : call[c].at # "idle" =>
           /\ call[c].op \in Used /\ call[c].intent > 0 /\ call[c].attempt > 0
           /\ call[c].sent # Omitted => Operations[call[c].op].guard # "none"
    /\ \A a \in answers : a.to \in Request /\ BodyOK(a.body)

\* What final records of the running session and of those to come.
FinalIsReached ==
    /\ final[boot] = revision
    /\ \A s \in Session : s > boot => final[s] = 0

\* The service has gone past a pair: it will be stale for ever.
Past(pair) ==
    \/ pair.session < boot
    \/ pair.session = boot /\ pair.logical < revision

\* A caller's intents are counted; one that is still to come has had no effect.
Counted ==
    /\ \A r \in requests : r.intent <= call[r.from].intent
    /\ \A c \in Caller, i \in 1..MaxIntents : i > call[c].intent => applied[c][i] = 0

\* All requests for one intent carry one pair, also those that the caller has
\* given up, and it is the one the caller would send again.
OnePair ==
    /\ \A q, r \in requests :
           q.from = r.from /\ q.intent = r.intent => q.expected = r.expected
    /\ \A r \in requests :
           r.intent = call[r.from].intent /\ call[r.from].at # "idle" =>
               r.expected = call[r.from].sent

\* Once an intent has taken effect, the service is past its pair.
RequestsPast == \A r \in requests :
    r.expected # Omitted /\ applied[r.from][r.intent] # 0 => Past(r.expected)
CallsPast == \A c \in Caller :
    call[c].at # "idle" /\ call[c].sent # Omitted /\ applied[c][call[c].intent] # 0 =>
        Past(call[c].sent)

Repeats == Counted /\ OnePair /\ RequestsPast /\ CallsPast

IInv == Shape /\ FinalIsReached /\ CacheIsPast /\ Repeats /\ GuardedChangeAppliedOnce

-----------------------------------------------------------------------------
(* Values.                                                                 *)

\* Python's None and an argument that was not given are not numbers.
LEMMA Values ==
    /\ None \notin Nat /\ UNSET \notin Nat /\ None # UNSET
    /\ MaxBoots \in Nat \ {0} /\ MaxRevision \in Nat \ {0}
    /\ MaxIntents \in Nat \ {0} /\ MaxAttempts \in Nat \ {0}
    /\ Session \subseteq Nat \ {0} /\ Logical \subseteq Nat
<1> QED BY BoundsAssumption DEF Session, Logical

\* Whether an operation takes preconditions, and where its answers carry what.
LEMMA OperationShape ==
    ASSUME NEW op \in Used
    PROVE  /\ Operations[op].carries \in
                  {"nothing", "revisions", "plain", "past", "result", "receipt"}
           /\ Operations[op].guard \in {"none", "optional", "required"}
<1> QED BY UsedAssumption
     DEF Operations, operation, status, snapshot, settings, pendingEdits, save, reload,
         updateSettings, exportMappings, importMappings, applyDeclarations, applyRelated,
         decompile, controlFlow, job

\* The keys that observe reads hold the session that answered and a revision
\* that it has reached, wherever the operation's answers carry them.
LEMMA AnswerBodies ==
    ASSUME NEW op \in Used, NEW s \in Session, NEW n \in Logical, NEW m \in Logical,
           NEW body \in answerOf(Operations[op].carries, s, n, m)
    PROVE  body.session # None =>
               /\ body.session = s
               /\ logicalOf(body) \in Logical /\ logicalOf(body) <= m
               /\ indexOf(body) \in Logical \cup {None}
               /\ indexOf(body) # None => indexOf(body) <= logicalOf(body)
<1> DEFINE carries == Operations[op].carries
<1>1. CASE carries = "nothing"
  BY <1>1 DEF answerOf, Body
<1>2. CASE carries \in {"revisions", "result", "receipt"}
  <2>1. body \in {[Body EXCEPT !.session = s, !.logical = m, !.index = m],
                  [Body EXCEPT !.session = s, !.logicalBefore = n,
                               !.logicalAfter = m, !.indexAfter = m],
                  [Body EXCEPT !.session = s, !.logicalBefore = n,
                               !.afterLogical = m, !.afterIndex = m]}
    BY <1>2 DEF answerOf
  <2>2. body.session = s /\ logicalOf(body) = m /\ indexOf(body) = m
    BY <2>1, Values DEF Body, logicalOf, indexOf, first
  <2> QED BY <2>2, Values
<1>3. CASE carries \in {"plain", "past"}
  <2>1. PICK k \in 0..m : body = [Body EXCEPT !.session = s, !.logical = k]
    <3>1. CASE carries = "plain"
      <4>1. body = [Body EXCEPT !.session = s, !.logical = m]
        BY <3>1 DEF answerOf
      <4>2. m \in 0..m
        BY Values DEF Logical
      <4> QED BY <4>1, <4>2, Zenon
    <3>2. CASE carries = "past"
      <4>1. answerOf("past", s, n, m) =
              {[Body EXCEPT !.session = s, !.logical = k] : k \in 0..m}
        BY Zenon DEF answerOf
      <4> QED BY <3>2, <4>1
    <3> QED BY <1>3, <3>1, <3>2
  <2>2. body.session = s /\ logicalOf(body) = k /\ indexOf(body) = None
    BY <2>1, Values DEF Body, logicalOf, indexOf, first
  <2> QED BY <2>1, <2>2, Values DEF Logical
<1> QED BY <1>1, <1>2, <1>3, OperationShape

\* A pair of preconditions is complete or omitted.
LEMMA PairFields == \A pair \in Pair :
    /\ pair = [session |-> pair.session, logical |-> pair.logical]
    /\ pair.session # UNSET /\ pair.logical # UNSET
    /\ pair # Omitted => pair.session \in Session /\ pair.logical \in Logical
    /\ pair # Default
<1> SUFFICES ASSUME NEW pair \in Pair
             PROVE  /\ pair = [session |-> pair.session, logical |-> pair.logical]
                    /\ pair.session # UNSET /\ pair.logical # UNSET
                    /\ pair # Omitted => pair.session \in Session /\ pair.logical \in Logical
                    /\ pair # Default
  OBVIOUS
<1>1. CASE pair = Omitted
  BY <1>1, Values DEF Omitted, Default
<1>2. CASE pair \in [session : Session, logical : Logical]
  <2>1. pair.session \in Session /\ pair.logical \in Logical
    BY <1>2
  <2>2. pair.session # UNSET /\ pair.logical # UNSET
    BY <2>1, Values
  <2> QED BY <1>2, <2>1, <2>2 DEF Default
<1> QED BY <1>1, <1>2 DEF Pair

\* What is sent is a pair or nothing, and repeating a pair sends it again.
LEMMA ExpectedPair ==
    ASSUME Shape, NEW op \in Used, NEW given \in Pair \cup {Default}
    PROVE  /\ expected(given) \in Pair
           /\ (given \in Pair => expected(given) = given)
<1>1. CASE given = Default
  <2>1. expected(given) = [session |-> cache.session, logical |-> cache.logical]
    BY <1>1 DEF expected, Default
  <2>2. cache.session = None => cache.logical = None
    BY DEF Shape
  <2>3. cache.session # None => cache.session \in Session /\ cache.logical \in Logical
    BY DEF Shape
  <2>4. expected(given) \in Pair
    BY <2>1, <2>2, <2>3 DEF Pair, Omitted
  <2> QED BY <1>1, <2>4, PairFields
<1>2. CASE given \in Pair
  BY <1>2, PairFields DEF expected
<1> QED BY <1>1, <1>2

-----------------------------------------------------------------------------
(* The initial state, and each kind of step.                               *)

\* A new client knows nothing and has sent nothing.
LEMMA InitInvariant == Init => IInv
<1> SUFFICES ASSUME Init PROVE IInv
  OBVIOUS
<1> USE Values DEF Init
<1>1. Shape
  BY DEF Shape, Idle, Call, Pair, Session, Logical
<1>2. FinalIsReached
  BY DEF FinalIsReached, Session
<1>3. CacheIsPast
  BY DEF CacheIsPast
<1>4. Repeats
  BY DEF Repeats, Counted, OnePair, RequestsPast, CallsPast, Idle
<1>5. GuardedChangeAppliedOnce
  BY DEF GuardedChangeAppliedOnce
<1> QED BY <1>1, <1>2, <1>3, <1>4, <1>5 DEF IInv
\* send: a new intent, or an intent that is repeated with the pair it had.
LEMMA SendStep ==
    ASSUME IInv, NEW c \in Caller, NEW op \in Used, NEW given \in Pair \cup {Default},
           NEW intent \in 1..MaxIntents, NEW attempt \in 1..MaxAttempts,
           send(c, op, given, intent, attempt),
           \/ call[c].at = "idle" /\ intent = call[c].intent + 1
           \/ /\ call[c].at # "idle" /\ intent = call[c].intent
              /\ op = call[c].op /\ given = call[c].sent /\ given # Omitted
    PROVE  IInv'
<1> DEFINE pair == IF Operations[op].guard = "none" THEN Omitted ELSE expected(given)
           new == [at |-> "waiting", op |-> op, sent |-> pair, intent |-> intent,
                   attempt |-> attempt]
           r0 == [from |-> c, intent |-> intent, attempt |-> attempt, op |-> op,
                  expected |-> pair]
<1>1. pair \in Pair
  BY ExpectedPair DEF IInv, Pair
<1>2. call' = [call EXCEPT ![c] = new] /\ requests' = requests \cup {r0}
      /\ UNCHANGED <<serviceVars, cacheVars, answers>>
  BY DEF send
<1>3. UNCHANGED <<boot, revision, applied, final, cache, retired, answers>>
  BY <1>2 DEF serviceVars, cacheVars
<1>4. call \in [Caller -> Call] /\ requests \subseteq Request
  BY DEF IInv, Shape
<1>5. call[c].intent \in 0..MaxIntents /\ intent \in Nat
  BY <1>4, Values DEF Call
<1>6. r0 \in Request
  BY <1>1 DEF Request
<1>7. new \in Call /\ (pair # Omitted => Operations[op].guard # "none")
  BY <1>1, Values DEF Call
<1>8. call'[c] = new /\ \A d \in Caller : d # c => call'[d] = call[d]
  BY <1>2, <1>4
<1> HIDE DEF pair, new, r0
<1>9. Shape'
  <2>1. call' \in [Caller -> Call]
    BY <1>2, <1>4, <1>7
  <2>2. ASSUME NEW d \in Caller, call'[d].at # "idle"
        PROVE  /\ call'[d].op \in Used /\ call'[d].intent > 0 /\ call'[d].attempt > 0
               /\ call'[d].sent # Omitted => Operations[call'[d].op].guard # "none"
    <3>1. CASE d = c
      BY <3>1, <1>7, <1>8 DEF new
    <3>2. CASE d # c
      BY <3>2, <2>2, <1>8 DEF IInv, Shape
    <3> QED BY <3>1, <3>2
  <2>3. requests' \subseteq Request
    BY <1>2, <1>4, <1>6
  <2>4. \A a \in answers' : a.to \in Request /\ BodyOK(a.body)'
    BY <1>3 DEF IInv, Shape, BodyOK
  <2> QED BY <1>3, <2>1, <2>2, <2>3, <2>4 DEF IInv, Shape
<1>10. FinalIsReached' /\ CacheIsPast' /\ GuardedChangeAppliedOnce'
  BY <1>3 DEF IInv, FinalIsReached, CacheIsPast, GuardedChangeAppliedOnce
<1>11. Repeats'
  <2>1. r0.from = c /\ r0.intent = intent /\ r0.expected = pair
    BY DEF r0
  <2>2. new.at = "waiting" /\ new.sent = pair /\ new.intent = intent
    BY DEF new
  <2>3. \A r \in requests : r.from \in Caller /\ r.intent \in Nat
    BY <1>4, Values DEF Request
  <2>4. /\ \A r \in requests : r.from = c /\ r.intent = intent => r.expected = pair
        /\ pair # Omitted /\ applied[c][intent] # 0 => Past(pair)
    <3>1. CASE call[c].at = "idle" /\ intent = call[c].intent + 1
      BY <3>1, <2>3, <1>5 DEF IInv, Repeats, Counted
    <3>2. CASE call[c].at # "idle" /\ intent = call[c].intent /\ op = call[c].op
               /\ given = call[c].sent /\ given # Omitted
      <4>1. pair = call[c].sent
        BY <3>2, <1>4, ExpectedPair DEF IInv, Shape, Call, pair
      <4> QED BY <3>2, <4>1, <2>3 DEF IInv, Repeats, OnePair, CallsPast
    <3> QED BY <3>1, <3>2
  <2>5. intent >= call[c].intent
    BY <1>5
  <2>6. Counted'
    <3>1. \A d \in Caller : call[d].intent \in Nat
      BY <1>4, Values DEF Call
    <3>2. \A d \in Caller : call'[d].intent \in Nat /\ call'[d].intent >= call[d].intent
      <4> TAKE d \in Caller
      <4>1. CASE d = c
        BY <4>1, <1>5, <1>8, <2>2, <2>5
      <4>2. CASE d # c
        BY <4>2, <1>8, <3>1
      <4> QED BY <4>1, <4>2
    <3>3. ASSUME NEW r \in requests' PROVE r.intent <= call'[r.from].intent
      <4>1. CASE r \in requests
        <5>1. r.intent <= call[r.from].intent
          BY <4>1 DEF IInv, Repeats, Counted
        <5> QED BY <4>1, <5>1, <2>3, <3>1, <3>2
      <4>2. CASE r = r0
        BY <4>2, <1>5, <1>8, <2>1, <2>2
      <4> QED BY <4>1, <4>2, <1>2
    <3>4. ASSUME NEW d \in Caller, NEW i \in 1..MaxIntents, i > call'[d].intent
          PROVE  applied'[d][i] = 0
      <4>1. i > call[d].intent
        BY <3>1, <3>2, <3>4, Values
      <4> QED BY <4>1, <1>3 DEF IInv, Repeats, Counted
    <3> QED BY <3>3, <3>4 DEF Counted
  <2>7. OnePair'
    BY <1>2, <1>8, <2>1, <2>2, <2>3, <2>4 DEF IInv, Repeats, OnePair
  <2>8. RequestsPast'
    BY <1>2, <1>3, <2>1, <2>4 DEF IInv, Repeats, RequestsPast, Past
  <2>9. CallsPast'
    <3> SUFFICES ASSUME NEW d \in Caller, call'[d].at # "idle", call'[d].sent # Omitted,
                        applied'[d][call'[d].intent] # 0
                 PROVE  Past(call[d].sent)'
      BY DEF CallsPast
    <3>1. CASE d = c
      BY <3>1, <1>3, <1>8, <2>2, <2>4 DEF Past
    <3>2. CASE d # c
      BY <3>2, <1>3, <1>8 DEF IInv, Repeats, CallsPast, Past
    <3> QED BY <3>1, <3>2
  <2> QED BY <2>6, <2>7, <2>8, <2>9 DEF Repeats
<1> QED BY <1>9, <1>10, <1>11 DEF IInv

\* A new call is the first attempt at a new intent.
LEMMA BeginStep ==
    ASSUME IInv, NEW c \in Caller, begin(c) PROVE IInv'
<1>1. PICK op \in Used, given \in {Default, Omitted} :
          /\ call[c].at = "idle" /\ call[c].intent < MaxIntents
          /\ send(c, op, given, call[c].intent + 1, 1)
  BY DEF begin
<1>2. call[c].intent + 1 \in 1..MaxIntents /\ 1 \in 1..MaxAttempts
  BY <1>1, Values DEF IInv, Shape, Call
<1>3. given \in Pair \cup {Default}
  BY DEF Pair
<1> QED BY <1>1, <1>2, <1>3, SendStep

\* A failed call that is repeated sends the pair it had.
LEMMA AgainStep ==
    ASSUME IInv, NEW c \in Caller, again(c) PROVE IInv'
<1>1. /\ call[c].sent # Omitted /\ call[c].at = "failed" /\ call[c].attempt < MaxAttempts
      /\ send(c, call[c].op, call[c].sent, call[c].intent, call[c].attempt + 1)
  BY DEF again
<1>2. /\ call[c].op \in Used /\ call[c].sent \in Pair
      /\ call[c].intent \in 1..MaxIntents /\ call[c].attempt + 1 \in 1..MaxAttempts
  BY <1>1, Values DEF IInv, Shape, Call
<1> QED BY <1>1, <1>2, SendStep

\* A call that ends or fails sends nothing and changes no revision.
LEMMA CallEnds ==
    ASSUME IInv, NEW c \in Caller, NEW at \in {"idle", "failed"},
           call[c].at # "idle",
           \/ call' = [call EXCEPT ![c].at = at] /\ at = "failed"
           \/ call' = [call EXCEPT ![c] = [Idle EXCEPT !.intent = call[c].intent]],
           UNCHANGED <<requests, serviceVars>>
    PROVE  /\ call' \in [Caller -> Call]
           /\ \A d \in Caller : call'[d].at # "idle" =>
                  /\ call'[d].op \in Used /\ call'[d].intent > 0 /\ call'[d].attempt > 0
                  /\ call'[d].sent # Omitted => Operations[call'[d].op].guard # "none"
           /\ FinalIsReached' /\ Repeats' /\ GuardedChangeAppliedOnce'
<1>1. call \in [Caller -> Call] /\ UNCHANGED <<requests, boot, revision, applied, final>>
  BY DEF IInv, Shape, serviceVars
<1>2. \A d \in Caller :
          /\ call'[d].intent = call[d].intent
          /\ call'[d].at # "idle" =>
                 /\ call[d].at # "idle" /\ call'[d].op = call[d].op
                 /\ call'[d].sent = call[d].sent /\ call'[d].attempt = call[d].attempt
  BY <1>1 DEF Call, Idle
<1>3. call' \in [Caller -> Call]
  <2>1. CASE call' = [call EXCEPT ![c].at = at] /\ at = "failed"
    BY <2>1, <1>1 DEF Call
  <2>2. CASE call' = [call EXCEPT ![c] = [Idle EXCEPT !.intent = call[c].intent]]
    <3>1. [Idle EXCEPT !.intent = call[c].intent] \in Call
      BY <1>1, Values DEF Call, Idle, Pair
    <3> QED BY <2>2, <3>1, <1>1
  <2> QED BY <2>1, <2>2
<1>4. \A d \in Caller : call'[d].at # "idle" =>
          /\ call'[d].op \in Used /\ call'[d].intent > 0 /\ call'[d].attempt > 0
          /\ call'[d].sent # Omitted => Operations[call'[d].op].guard # "none"
  BY <1>2 DEF IInv, Shape
<1>5. FinalIsReached' /\ GuardedChangeAppliedOnce'
  BY <1>1 DEF IInv, FinalIsReached, GuardedChangeAppliedOnce
<1>6. \A r \in requests : r.from \in Caller
  BY DEF IInv, Shape, Request
<1>7. Counted'
  BY <1>1, <1>2, <1>6 DEF IInv, Repeats, Counted
<1>8. OnePair'
  BY <1>1, <1>2, <1>6 DEF IInv, Repeats, OnePair
<1>9. RequestsPast'
  BY <1>1 DEF IInv, Repeats, RequestsPast, Past
<1>10. CallsPast'
  BY <1>1, <1>2 DEF IInv, Repeats, CallsPast, Past
<1> QED BY <1>3, <1>4, <1>5, <1>7, <1>8, <1>9, <1>10 DEF Repeats

\* observe: what the cache is shown was reached by its session.
LEMMA ObserveStep ==
    ASSUME IInv, NEW body, BodyOK(body), observe(body), UNCHANGED <<boot, final>>
    PROVE  /\ cache' \in [session : Session \cup {None}, logical : Logical \cup {None},
                           index : Logical \cup {None}]
           /\ cache'.session = None <=> cache'.logical = None
           /\ retired' \subseteq Session
           /\ CacheIsPast'
<1> DEFINE l == logicalOf(body)
           i == indexOf(body)
<1>1. /\ cache \in [session : Session \cup {None}, logical : Logical \cup {None},
                     index : Logical \cup {None}]
      /\ cache.session = None <=> cache.logical = None
      /\ retired \subseteq Session
  BY DEF IInv, Shape
<1>2. CASE UNCHANGED cacheVars
  BY <1>1, <1>2 DEF IInv, CacheIsPast, cacheVars
<1>3. CASE /\ body.session # None /\ cache.session # body.session
           /\ retired' = retired \cup retire /\ cache' = entered(body.session, l, i)
  <2>1. cache' = [session |-> body.session, logical |-> l, index |-> i]
    BY <1>3 DEF entered
  <2>2. /\ body.session \in Session /\ body.session <= boot
        /\ l \in Logical /\ l <= final[body.session]
        /\ i \in Logical \cup {None} /\ (i # None => i <= l)
    BY <1>3 DEF BodyOK
  <2>3. retired' \subseteq Session
    BY <1>1, <1>3 DEF retire
  <2> QED BY <2>1, <2>2, <2>3, Values DEF CacheIsPast
<1>4. CASE /\ body.session # None /\ cache.session = body.session
           /\ cache' = advanced(l, i) /\ retired' = retired
  <2>1. /\ body.session \in Session /\ body.session <= boot
        /\ l \in Logical /\ l <= final[body.session]
        /\ i \in Logical \cup {None} /\ (i # None => i <= l)
    BY <1>4 DEF BodyOK
  <2>2. /\ cache.logical \in Logical /\ cache.logical <= final[cache.session]
        /\ cache.index # None => cache.index <= cache.logical
    BY <1>1, <1>4 DEF IInv, CacheIsPast
  <2>3. cache' = [session |-> cache.session, logical |-> atLeast(cache.logical, l),
                  index |-> IF i = None THEN cache.index ELSE atLeast(cache.index, i)]
    BY <1>1, <1>4 DEF advanced
  <2>4. /\ cache'.logical \in Logical /\ cache'.logical <= final[cache.session]
        /\ cache'.logical >= cache.logical /\ cache'.logical >= l
    <3>1. cache'.logical = IF cache.logical > l THEN cache.logical ELSE l
      BY <2>2, <2>3, Values DEF atLeast
    <3>2. cache.logical \in Nat /\ l \in Nat
      BY <2>1, <2>2, Values
    <3> QED BY <1>4, <2>1, <2>2, <3>1, <3>2
  <2>5. /\ cache'.index \in Logical \cup {None}
        /\ cache'.index # None => cache'.index <= cache'.logical
    <3>1. cache'.index \in {i, cache.index}
      BY <2>3 DEF atLeast
    <3>2. cache.index \in Logical \cup {None}
      BY <1>1
    <3>3. ASSUME NEW k \in Logical, k <= l \/ k <= cache.logical
          PROVE  k <= cache'.logical
      <4>1. k \in Nat /\ l \in Nat /\ cache.logical \in Nat /\ cache'.logical \in Nat
        BY <2>1, <2>2, <2>4, Values
      <4> QED BY <4>1, <3>3, <2>4
    <3>4. CASE cache'.index = i
      BY <3>3, <3>4, <2>1
    <3>5. CASE cache'.index = cache.index
      BY <3>2, <3>3, <3>5, <2>2
    <3> QED BY <3>1, <3>4, <3>5
  <2>6. cache'.session = cache.session /\ cache.session # None
    BY <1>4, <2>3
  <2>7. CacheIsPast'
    BY <1>4, <2>1, <2>4, <2>5, <2>6 DEF CacheIsPast
  <2>8. cache' \in [session : Session \cup {None}, logical : Logical \cup {None},
                    index : Logical \cup {None}]
    <3>1. cache' = [session |-> cache'.session, logical |-> cache'.logical,
                    index |-> cache'.index]
      BY <2>3
    <3> QED BY <3>1, <1>1, <2>4, <2>5, <2>6
  <2> QED BY <1>1, <1>4, <2>4, <2>6, <2>7, <2>8, Values
<1> QED
  <2>1. \/ UNCHANGED cacheVars
        \/ /\ body.session # None /\ cache.session # body.session
           /\ retired' = retired \cup retire /\ cache' = entered(body.session, l, i)
        \/ /\ body.session # None /\ cache.session = body.session
           /\ cache' = advanced(l, i) /\ retired' = retired
    BY DEF observe
  <2> QED BY <2>1, <1>2, <1>3, <1>4

\* _invoke with an answer: the cache observes it and the call is over.
LEMMA ReceiveStep ==
    ASSUME IInv, NEW c \in Caller, receive(c) PROVE IInv'
<1>1. PICK a \in answers :
          /\ call[c].at = "waiting" /\ a.to = requestOf(c) /\ observe(a.body)
          /\ call' = [call EXCEPT ![c] = [Idle EXCEPT !.intent = call[c].intent]]
          /\ answers' = answers \ {a}
          /\ UNCHANGED <<serviceVars, requests>>
  BY DEF receive
<1>2. UNCHANGED <<boot, revision, applied, final, requests>>
  BY <1>1 DEF serviceVars
<1>3. \A b \in answers : b.to \in Request /\ BodyOK(b.body)
  BY DEF IInv, Shape
<1>4. /\ cache' \in [session : Session \cup {None}, logical : Logical \cup {None},
                      index : Logical \cup {None}]
      /\ cache'.session = None <=> cache'.logical = None
      /\ retired' \subseteq Session /\ CacheIsPast'
  BY <1>1, <1>2, <1>3, ObserveStep
<1>5. \A b \in answers' : b.to \in Request /\ BodyOK(b.body)'
  BY <1>1, <1>2, <1>3 DEF BodyOK
<1>6. /\ call' \in [Caller -> Call]
      /\ \A d \in Caller : call'[d].at # "idle" =>
             /\ call'[d].op \in Used /\ call'[d].intent > 0 /\ call'[d].attempt > 0
             /\ call'[d].sent # Omitted => Operations[call'[d].op].guard # "none"
      /\ FinalIsReached' /\ Repeats' /\ GuardedChangeAppliedOnce'
  BY <1>1, CallEnds
<1>7. Shape'
  BY <1>2, <1>4, <1>5, <1>6 DEF IInv, Shape
<1> QED BY <1>4, <1>6, <1>7 DEF IInv

\* A failed or an abandoned call leaves the cache alone.
LEMMA GiveUpStep ==
    ASSUME IInv, NEW c \in Caller, fail(c) \/ abandon(c) PROVE IInv'
<1>1. /\ call[c].at # "idle" /\ answers' \subseteq answers
      /\ \/ call' = [call EXCEPT ![c].at = "failed"]
         \/ call' = [call EXCEPT ![c] = [Idle EXCEPT !.intent = call[c].intent]]
      /\ UNCHANGED <<serviceVars, cacheVars, requests>>
  BY DEF fail, abandon
<1>2. UNCHANGED <<boot, revision, applied, final, requests, cache, retired>>
  BY <1>1 DEF serviceVars, cacheVars
<1>3. /\ call' \in [Caller -> Call]
      /\ \A d \in Caller : call'[d].at # "idle" =>
             /\ call'[d].op \in Used /\ call'[d].intent > 0 /\ call'[d].attempt > 0
             /\ call'[d].sent # Omitted => Operations[call'[d].op].guard # "none"
      /\ FinalIsReached' /\ Repeats' /\ GuardedChangeAppliedOnce'
  BY <1>1, CallEnds
<1>4. \A b \in answers' : b.to \in Request /\ BodyOK(b.body)'
  BY <1>1, <1>2 DEF IInv, Shape, BodyOK
<1>5. Shape'
  BY <1>2, <1>3, <1>4 DEF IInv, Shape
<1>6. CacheIsPast'
  BY <1>2 DEF IInv, CacheIsPast
<1> QED BY <1>3, <1>5, <1>6 DEF IInv

\* A pair the service has gone past stays past.
LEMMA PastIsStable ==
    ASSUME Shape, Shape', NEW pair \in Pair, pair # Omitted, Past(pair),
           \/ boot' = boot /\ revision' >= revision
           \/ boot' = boot + 1
    PROVE  pair.session < boot' \/ (pair.session = boot' /\ pair.logical < revision')
<1>1. pair.session \in Nat /\ pair.logical \in Nat
  BY PairFields, Values
<1>2. boot \in Nat /\ boot' \in Nat /\ revision \in Nat /\ revision' \in Nat
  BY Values DEF Shape
<1> QED BY <1>1, <1>2 DEF Past

\* The service answers: it stays where it is, or goes one revision further
\* unless the pair of the request is stale.
LEMMA AnswerStep ==
    ASSUME IInv, NEW r \in requests, NEW bodies, NEW m \in Logical, answer(r, bodies, m),
           m = revision \/ (m = revision + 1 /\ ~ stale(r.expected)),
           \A body \in bodies : body.session # None =>
               /\ body.session = boot
               /\ logicalOf(body) \in Logical /\ logicalOf(body) <= m
               /\ indexOf(body) \in Logical \cup {None}
               /\ indexOf(body) # None => indexOf(body) <= logicalOf(body)
    PROVE  IInv'
<1>1. PICK body \in bodies :
          /\ requests' = requests \ {r}
          /\ answers' = IF awaited(r) THEN answers \cup {[to |-> r, body |-> body]} ELSE answers
          /\ revision' = m /\ final' = [final EXCEPT ![boot] = m]
          /\ applied' = IF m # revision /\ r.expected # Omitted
                        THEN [applied EXCEPT ![r.from][r.intent] = @ + 1] ELSE applied
          /\ UNCHANGED <<boot, cacheVars, call>>
  BY DEF answer
<1>2. UNCHANGED <<boot, cache, retired, call>> /\ requests' \subseteq requests
  BY <1>1 DEF cacheVars
<1>3. /\ boot \in Session /\ revision \in Logical /\ final \in [Session -> Logical]
      /\ requests \subseteq Request /\ applied \in [Caller -> [1..MaxIntents -> Nat]]
  BY DEF IInv, Shape
<1>4. r \in Request /\ r.from \in Caller /\ r.intent \in 1..MaxIntents /\ r.expected \in Pair
  BY <1>3 DEF Request
<1>5. revision' >= revision /\ revision \in Nat /\ revision' \in Nat
  BY <1>1, <1>3, Values
<1>6. /\ final' \in [Session -> Logical] /\ final'[boot] = m
      /\ \A s \in Session : final[s] <= final'[s]
  <2>1. final[boot] = revision
    BY DEF IInv, FinalIsReached
  <2>2. ASSUME NEW s \in Session PROVE final[s] <= final'[s]
    <3>1. final[s] \in Nat
      BY <1>3, Values
    <3> QED BY <1>1, <1>3, <1>5, <2>1, <3>1
  <2> QED BY <1>1, <1>3, <2>2
<1> DEFINE Hit == m # revision /\ r.expected # Omitted
<1>7. ASSUME Hit PROVE Past(r.expected)' /\ applied[r.from][r.intent] = 0
  <2>1. m = revision + 1 /\ r.expected = [session |-> boot, logical |-> revision]
    BY <1>7 DEF stale
  <2>2. r.expected.session = boot /\ r.expected.logical = revision
    BY <2>1
  <2>3. boot \in Nat
    BY <1>3, Values
  <2>4. ~ Past(r.expected)
    BY <1>5, <2>2, <2>3 DEF Past
  <2>5. Past(r.expected)'
    BY <1>1, <1>2, <1>5, <2>1, <2>2 DEF Past
  <2> QED BY <1>7, <2>4, <2>5 DEF IInv, Repeats, RequestsPast
<1>8. /\ applied' \in [Caller -> [1..MaxIntents -> Nat]]
      /\ \A c \in Caller, i \in 1..MaxIntents :
             \/ applied'[c][i] = applied[c][i]
             \/ Hit /\ c = r.from /\ i = r.intent /\ applied'[c][i] = 1
  <2>1. CASE ~ Hit
    BY <1>1, <1>3, <2>1
  <2>2. CASE Hit
    <3>1. applied' = [applied EXCEPT ![r.from] =
                          [applied[r.from] EXCEPT ![r.intent] = applied[r.from][r.intent] + 1]]
      BY <1>1, <2>2
    <3>2. applied[r.from][r.intent] + 1 = 1
      BY <1>7, <2>2
    <3>3. applied[r.from] \in [1..MaxIntents -> Nat]
      BY <1>3, <1>4
    <3> DEFINE row == [applied[r.from] EXCEPT ![r.intent] = 1]
    <3>4. row \in [1..MaxIntents -> Nat] /\ row[r.intent] = 1
          /\ \A i \in 1..MaxIntents : i # r.intent => row[i] = applied[r.from][i]
      BY <1>4, <3>3
    <3>5. applied' = [applied EXCEPT ![r.from] = row]
      BY <3>1, <3>2
    <3> HIDE DEF row
    <3> QED BY <2>2, <1>3, <1>4, <3>4, <3>5
  <2> QED BY <2>1, <2>2
<1> HIDE DEF Hit
<1>9. Shape'
  <2>1. \A a \in answers' : a.to \in Request /\ BodyOK(a.body)'
    <3> SUFFICES ASSUME NEW a \in answers' PROVE a.to \in Request /\ BodyOK(a.body)'
      OBVIOUS
    <3>1. CASE a \in answers
      <4>1. a.to \in Request /\ BodyOK(a.body)
        BY <3>1 DEF IInv, Shape
      <4>2. ASSUME a.body.session # None PROVE logicalOf(a.body) <= final'[a.body.session]
        <5>1. a.body.session \in Session /\ logicalOf(a.body) \in Logical
              /\ logicalOf(a.body) <= final[a.body.session]
          BY <4>1, <4>2 DEF BodyOK
        <5>2. /\ logicalOf(a.body) \in Nat /\ final[a.body.session] \in Nat
              /\ final'[a.body.session] \in Nat
          BY <5>1, <1>3, <1>6, Values
        <5> QED BY <5>1, <5>2, <1>6
      <4> QED BY <4>1, <4>2, <1>2 DEF BodyOK
    <3>2. CASE a = [to |-> r, body |-> body]
      <4>1. a.to \in Request
        BY <3>2, <1>4
      <4>2. a.body = body
        BY <3>2
      <4>3. boot' = boot /\ boot <= boot
        BY <1>2, <1>3, Values
      <4>4. BodyOK(body)'
        BY <4>3, <1>3, <1>6 DEF BodyOK
      <4> QED BY <4>1, <4>2, <4>4 DEF BodyOK
    <3> QED BY <3>1, <3>2, <1>1
  <2> QED BY <1>1, <1>2, <1>3, <1>6, <1>8, <2>1 DEF IInv, Shape
<1>10. FinalIsReached'
  <2>1. \A s \in Session : s > boot => final'[s] = final[s]
    BY <1>1, <1>3, Values
  <2> QED BY <1>1, <1>2, <1>6, <2>1 DEF IInv, FinalIsReached
<1>11. CacheIsPast'
  <2> SUFFICES ASSUME cache.session # None PROVE CacheIsPast'
    BY <1>2 DEF CacheIsPast
  <2>1. cache.session \in Session /\ cache.logical \in Logical
        /\ cache.logical <= final[cache.session]
    BY DEF IInv, Shape, CacheIsPast
  <2>2. /\ cache.logical \in Nat /\ final[cache.session] \in Nat
        /\ final'[cache.session] \in Nat
    BY <2>1, <1>3, <1>6, Values
  <2>3. cache.logical <= final'[cache.session]
    BY <2>1, <2>2, <1>6
  <2> QED BY <2>3, <1>2 DEF IInv, CacheIsPast
<1>12. Counted'
  <2>1. \A c \in Caller, i \in 1..MaxIntents : i > call[c].intent => applied'[c][i] = 0
    <3> SUFFICES ASSUME NEW c \in Caller, NEW i \in 1..MaxIntents, i > call[c].intent
                 PROVE  applied'[c][i] = 0
      OBVIOUS
    <3>1. applied[c][i] = 0
      BY DEF IInv, Repeats, Counted
    <3>2. ~ (c = r.from /\ i = r.intent)
      <4>1. r.intent <= call[r.from].intent /\ r.intent \in Nat /\ call[r.from].intent \in Nat
        BY <1>4, Values DEF IInv, Repeats, Counted, Shape, Call
      <4> QED BY <4>1
    <3> QED BY <3>1, <3>2, <1>8
  <2> QED BY <2>1, <1>2 DEF IInv, Repeats, Counted
<1>13. OnePair'
  BY <1>2 DEF IInv, Repeats, OnePair
<1>14. Shape
  BY DEF IInv
<1>15. RequestsPast'
  <2> SUFFICES ASSUME NEW q \in requests', q.expected # Omitted,
                      applied'[q.from][q.intent] # 0
               PROVE  Past(q.expected)'
    BY DEF RequestsPast
  <2>1. /\ q \in requests /\ q.from \in Caller /\ q.intent \in 1..MaxIntents
        /\ q.expected \in Pair
    BY <1>2, <1>3 DEF Request
  <2>2. CASE applied'[q.from][q.intent] = applied[q.from][q.intent]
    <3>1. Past(q.expected)
      BY <2>1, <2>2 DEF IInv, Repeats, RequestsPast
    <3> QED BY <1>2, <1>5, <1>9, <1>14, <2>1, <3>1, PastIsStable DEF Past
  <2>3. CASE Hit /\ q.from = r.from /\ q.intent = r.intent
    <3>1. q.expected = r.expected
      BY <2>1, <2>3 DEF IInv, Repeats, OnePair
    <3> QED BY <3>1, <1>7, <2>3 DEF Past
  <2> QED BY <2>1, <2>2, <2>3, <1>8
<1>16. CallsPast'
  <2> SUFFICES ASSUME NEW c \in Caller, call[c].at # "idle", call[c].sent # Omitted,
                      applied'[c][call[c].intent] # 0
               PROVE  Past(call[c].sent)'
    BY <1>2 DEF CallsPast
  <2>1. call[c].intent \in 1..MaxIntents /\ call[c].sent \in Pair
    BY Values DEF IInv, Shape, Call
  <2>2. CASE applied'[c][call[c].intent] = applied[c][call[c].intent]
    <3>1. Past(call[c].sent)
      BY <2>2 DEF IInv, Repeats, CallsPast
    <3> QED BY <1>2, <1>5, <1>9, <1>14, <2>1, <3>1, PastIsStable DEF Past
  <2>3. CASE Hit /\ c = r.from /\ call[c].intent = r.intent
    <3>1. r.expected = call[c].sent
      BY <2>3 DEF IInv, Repeats, OnePair
    <3> QED BY <3>1, <1>2, <1>7, <2>3 DEF Past
  <2> QED BY <2>1, <2>2, <2>3, <1>8
<1>17. GuardedChangeAppliedOnce'
  BY <1>8 DEF IInv, GuardedChangeAppliedOnce
<1> QED BY <1>9, <1>10, <1>11, <1>12, <1>13, <1>15, <1>16, <1>17 DEF IInv, Repeats

\* The process is replaced: the new session has reached nothing yet, and every
\* pair of the old one is past.
LEMMA RestartStep == IInv /\ restart => IInv'
<1> SUFFICES ASSUME IInv, restart PROVE IInv'
  OBVIOUS
<1>1. /\ boot' = boot + 1 /\ revision' = 0 /\ requests' = {} /\ boot < MaxBoots
      /\ UNCHANGED <<applied, final, cache, retired, call, answers>>
  BY DEF restart, cacheVars
<1>2. /\ boot \in Session /\ boot \in Nat /\ boot' \in Session /\ boot' \in Nat
      /\ revision' \in Logical
  BY <1>1, Values DEF IInv, Shape, Session, Logical
<1>3. \A s \in Session : s <= boot => s <= boot'
  BY <1>1, <1>2, Values
<1>4. Shape'
  <2>1. \A a \in answers' : a.to \in Request /\ BodyOK(a.body)'
    BY <1>1, <1>3 DEF IInv, Shape, BodyOK
  <2> QED BY <1>1, <1>2, <2>1 DEF IInv, Shape
<1>5. FinalIsReached'
  <2>1. \A s \in Session : s > boot' => s > boot
    BY <1>1, <1>2, Values
  <2>2. final[boot'] = 0
    BY <1>1, <1>2 DEF IInv, FinalIsReached
  <2> QED BY <1>1, <2>1, <2>2 DEF IInv, FinalIsReached
<1>6. CacheIsPast'
  BY <1>1, <1>3 DEF IInv, Shape, CacheIsPast
<1>7. Counted' /\ OnePair' /\ RequestsPast'
  BY <1>1 DEF IInv, Repeats, Counted, OnePair, RequestsPast
<1>8. CallsPast'
  <2> SUFFICES ASSUME NEW c \in Caller, call[c].at # "idle", call[c].sent # Omitted,
                      applied[c][call[c].intent] # 0
               PROVE  Past(call[c].sent)'
    BY <1>1 DEF CallsPast
  <2>1. call[c].sent \in Pair
    BY DEF IInv, Shape, Call
  <2>2. Past(call[c].sent)
    BY DEF IInv, Repeats, CallsPast
  <2>3. Shape
    BY DEF IInv
  <2> QED BY <1>1, <1>4, <2>1, <2>2, <2>3, PastIsStable DEF Past
<1>9. GuardedChangeAppliedOnce'
  BY <1>1 DEF IInv, GuardedChangeAppliedOnce
<1> QED BY <1>4, <1>5, <1>6, <1>7, <1>8, <1>9 DEF IInv, Repeats

-----------------------------------------------------------------------------
(* The theorems.                                                           *)

\* Every step preserves the inductive invariant.
LEMMA NextInvariant == IInv /\ [Next]_vars => IInv'
<1> SUFFICES ASSUME IInv, [Next]_vars PROVE IInv'
  OBVIOUS
<1>1. ASSUME NEW c \in Caller, begin(c) PROVE IInv'
  BY <1>1, BeginStep
<1>2. ASSUME NEW c \in Caller, again(c) PROVE IInv'
  BY <1>2, AgainStep
<1>3. ASSUME NEW c \in Caller, fail(c) \/ abandon(c) PROVE IInv'
  BY <1>3, GiveUpStep
<1>4. ASSUME NEW c \in Caller, receive(c) PROVE IInv'
  BY <1>4, ReceiveStep
<1>5. ASSUME NEW r \in requests, refuse(r) PROVE IInv'
  <2>1. revision \in Logical
    BY DEF IInv, Shape
  <2>2. \A body \in {Error} : body.session = None
    BY DEF Error, Body
  <2> QED BY <1>5, <2>1, <2>2, AnswerStep DEF refuse
<1>6. ASSUME NEW r \in requests, succeed(r) PROVE IInv'
  <2>1. r.op \in Used /\ boot \in Session /\ revision \in Logical
    BY DEF IInv, Shape, Request
  <2>2. PICK m \in {revision, revision + 1} :
            /\ m <= MaxRevision
            /\ answer(r, answerOf(Operations[r.op].carries, boot, revision, m), m)
    BY <1>6 DEF succeed
  <2>3. ~ stale(r.expected)
    BY <1>6 DEF succeed
  <2>4. m \in Logical
    BY <2>1, <2>2, Values DEF Logical
  <2>5. \A body \in answerOf(Operations[r.op].carries, boot, revision, m) :
            body.session # None =>
                /\ body.session = boot
                /\ logicalOf(body) \in Logical /\ logicalOf(body) <= m
                /\ indexOf(body) \in Logical \cup {None}
                /\ indexOf(body) # None => indexOf(body) <= logicalOf(body)
    BY <2>1, <2>4, AnswerBodies
  <2> QED BY <2>2, <2>3, <2>4, <2>5, AnswerStep
<1>7. ASSUME restart PROVE IInv'
  BY <1>7, RestartStep
<1>8. CASE UNCHANGED vars
  <2>1. UNCHANGED <<boot, revision, applied, final, cache, retired, call, requests, answers>>
    BY <1>8 DEF vars, serviceVars, cacheVars
  <2>2. Shape' /\ FinalIsReached' /\ CacheIsPast' /\ GuardedChangeAppliedOnce'
    BY <2>1 DEF IInv, Shape, BodyOK, FinalIsReached, CacheIsPast, GuardedChangeAppliedOnce
  <2>3. Repeats'
    BY <2>1 DEF IInv, Repeats, Counted, OnePair, RequestsPast, CallsPast, Past
  <2> QED BY <2>2, <2>3 DEF IInv
<1> QED BY <1>1, <1>2, <1>3, <1>4, <1>5, <1>6, <1>7, <1>8 DEF Next

\* The inductive invariant holds in every state of the client and the service.
THEOREM Invariance == Spec => []IInv
<1> QED BY InitInvariant, NextInvariant, PTL DEF Spec

\* Requests, answers and the cache (RevisionCache's fields) keep their types:
\* every request carries a complete pair of preconditions, or none.
THEOREM TypeCorrect == Spec => []TypeOK
<1>1. IInv => TypeOK
  <2> SUFFICES ASSUME IInv PROVE TypeOK
    OBVIOUS
  <2>1. /\ boot \in Session /\ revision \in Logical
        /\ cache \in [session : Session \cup {None}, logical : Logical \cup {None},
                      index : Logical \cup {None}]
        /\ retired \subseteq Session /\ requests \subseteq Request
        /\ call \in [Caller -> Call] /\ \A a \in answers : a.to \in Request
    BY DEF IInv, Shape
  <2> QED BY <2>1 DEF TypeOK, Call
<1> QED BY <1>1, Invariance, PTL

\* RevisionCache.observe never makes the cache expect a revision that its
\* session has not reached, in whichever order the answers are observed.
THEOREM CacheIsPastHolds == Spec => []CacheIsPast
<1>1. IInv => CacheIsPast
  BY DEF IInv
<1> QED BY <1>1, Invariance, PTL

\* A change sent with the pair of RevisionCache.expected, and sent again after a
\* timeout, takes effect at most once.
THEOREM AppliedOnce == Spec => []GuardedChangeAppliedOnce
<1>1. IInv => GuardedChangeAppliedOnce
  BY DEF IInv
<1> QED BY <1>1, Invariance, PTL

\* The cache moves forward within a session, and never returns to a session it
\* has left (RevisionCache._retired).
THEOREM MovesForward == Spec => CacheMovesForward
<1> DEFINE Forward ==
        IF cache'.session = cache.session
        THEN /\ cache.logical # None => cache'.logical >= cache.logical
             /\ cache.index # None => cache'.index >= cache.index
        ELSE /\ cache'.session \notin retired
             /\ cache.session # None => cache.session \in retired'
<1>1. ASSUME IInv, UNCHANGED <<cache>> PROVE Forward
  <2>1. cache' = cache
    BY <1>1
  <2>2. /\ cache.logical # None => cache.logical \in Nat
        /\ cache.index # None => cache.index \in Nat
    BY <1>1, Values DEF IInv, Shape
  <2>3. \A x \in Nat : x >= x
    OBVIOUS
  <2> QED BY <2>1, <2>2, <2>3
<1>2. ASSUME IInv, NEW c \in Caller, receive(c) PROVE Forward
  <2>1. PICK a \in answers : observe(a.body)
    BY <1>2 DEF receive
  <2>2. BodyOK(a.body)
    BY <1>2 DEF IInv, Shape
  <2> DEFINE body == a.body
             l == logicalOf(body)
             i == indexOf(body)
  <2>3. CASE UNCHANGED cacheVars
    BY <1>1, <1>2, <2>3 DEF cacheVars
  <2>4. CASE /\ body.session \notin retired /\ cache.session # body.session
             /\ retired' = retired \cup retire /\ cache' = entered(body.session, l, i)
    <3>1. cache'.session = body.session
      BY <2>4 DEF entered
    <3> QED BY <2>4, <3>1 DEF retire
  <2>5. CASE /\ body.session # None /\ cache.session = body.session
             /\ cache' = advanced(l, i)
    <3>1. cache \in [session : Session \cup {None}, logical : Logical \cup {None},
                      index : Logical \cup {None}]
      BY <1>2 DEF IInv, Shape
    <3>2. cache' = [session |-> cache.session, logical |-> atLeast(cache.logical, l),
                    index |-> IF i = None THEN cache.index ELSE atLeast(cache.index, i)]
      BY <2>5, <3>1 DEF advanced
    <3>3. l \in Nat /\ (i # None => i \in Nat)
      BY <2>2, <2>5, Values DEF BodyOK
    <3>4. ASSUME NEW x \in Nat, NEW y \in Nat PROVE atLeast(x, y) >= x
      BY Values DEF atLeast
    <3>5. /\ cache.logical # None => cache.logical \in Nat
          /\ cache.index # None => cache.index \in Nat
      BY <3>1, Values
    <3>6. ASSUME cache.index # None PROVE cache'.index >= cache.index
      BY <3>2, <3>3, <3>4, <3>5, <3>6
    <3>7. ASSUME cache.logical # None PROVE cache'.logical >= cache.logical
      BY <3>2, <3>3, <3>4, <3>5, <3>7
    <3> QED BY <3>2, <3>6, <3>7
  <2> QED BY <2>1, <2>3, <2>4, <2>5 DEF observe, isRetired
<1>3. IInv /\ [Next]_vars => [Forward]_vars
  <2> SUFFICES ASSUME IInv, Next PROVE Forward \/ UNCHANGED <<cache>>
    BY <1>1 DEF vars, cacheVars
  <2>1. ASSUME NEW c \in Caller, begin(c) \/ again(c) \/ abandon(c) \/ fail(c)
        PROVE  UNCHANGED <<cache>>
    BY <2>1 DEF begin, again, abandon, fail, send, cacheVars
  <2>2. ASSUME NEW r \in requests, refuse(r) \/ succeed(r) PROVE UNCHANGED <<cache>>
    BY <2>2 DEF refuse, succeed, answer, cacheVars
  <2>3. ASSUME restart PROVE UNCHANGED <<cache>>
    BY <2>3 DEF restart, cacheVars
  <2> QED BY <1>2, <2>1, <2>2, <2>3 DEF Next
<1>4. IInv /\ [Next]_vars =>
          [IF cache'.session = cache.session
           THEN /\ cache.logical # None => cache'.logical >= cache.logical
                /\ cache.index # None => cache'.index >= cache.index
           ELSE /\ cache'.session \notin retired
                /\ cache.session # None => cache.session \in retired']_vars
  BY <1>3
<1> QED BY <1>4, Invariance, PTL DEF Spec, CacheMovesForward
=============================================================================
