--------------------------- MODULE ClientSession ----------------------------
(***************************************************************************)
(* What one Project object of the Python SDK knows of the revisions of the *)
(* service, and the preconditions it sends: RevisionCache (_common.py),    *)
(* the methods of Project (project.py) and Client._invoke (client.py).     *)
(* AsyncProject and AsyncClient take the same steps, their tasks being the *)
(* callers.                                                                *)
(*                                                                         *)
(* Several callers share the object.  Requests are served in any order,    *)
(* some by a process that has been started anew; answers are observed in   *)
(* any order; a request may be lost, and a caller may give up while its    *)
(* request is still under way and send it again with the pair it sent      *)
(* first.  The SDK itself never sends anything twice.                      *)
(***************************************************************************)
EXTENDS Naturals, FiniteSets

CONSTANTS Caller,
          None,               \* Python's None, and a key that is absent
          UNSET,              \* an argument that was not given
          Used,               \* the operations callers use
          MaxBoots, MaxRevision, MaxIntents, MaxAttempts  \* model bounds

ASSUME BoundsAssumption ==
    /\ {MaxBoots, MaxRevision, MaxIntents, MaxAttempts} \subseteq Nat \ {0}
    /\ {None, UNSET} \cap Nat = {} /\ None # UNSET

VARIABLES boot,               \* sessionId of the running process
          revision,           \* its logicalRevision; indexRevision moves with it
          cache,              \* RevisionCache: session, logical, index
          retired,            \* RevisionCache._retired
          call,               \* per caller, what it is doing
          requests,           \* sent and not yet served; a lost one never is
          answers,            \* written by the service, and not yet read
          applied,            \* how often an intent took effect under its pair
          final               \* per session, the highest revision it reached

serviceVars == <<boot, revision, applied, final>>
cacheVars == <<cache, retired>>
vars == <<serviceVars, cacheVars, call, requests, answers>>

Session == 1..MaxBoots
Logical == 0..MaxRevision
Default == [session |-> UNSET, logical |-> UNSET]
Omitted == [session |-> None, logical |-> None]
Pair == {Omitted} \cup [session : Session, logical : Logical]

-----------------------------------------------------------------------------
(* The operations: whether a pair of preconditions is sent, whether they   *)
(* commit a revision, and where their answers carry the coordinates.       *)

operation(guard, commits, carries) ==
    [guard |-> guard, commits |-> commits, carries |-> carries]

status == operation("none", FALSE, "nothing")
snapshot == operation("none", FALSE, "revisions")
settings == operation("none", FALSE, "revisions")
pendingEdits == operation("none", FALSE, "plain")
save == operation("optional", FALSE, "revisions")
reload == operation("required", TRUE, "revisions")
updateSettings == operation("required", TRUE, "revisions")
exportMappings == operation("required", FALSE, "plain")
importMappings == operation("required", TRUE, "receipt")
applyDeclarations == operation("optional", TRUE, "result")
applyRelated == operation("required", TRUE, "result")
decompile == operation("none", FALSE, "plain")
controlFlow == operation("optional", FALSE, "plain")
\* A job tells the revision it was submitted for.
job == operation("none", FALSE, "past")

Operations ==
    [status |-> status, snapshot |-> snapshot, settings |-> settings,
     pendingEdits |-> pendingEdits, save |-> save, reload |-> reload,
     updateSettings |-> updateSettings, exportMappings |-> exportMappings,
     importMappings |-> importMappings, applyDeclarations |-> applyDeclarations,
     applyRelated |-> applyRelated, decompile |-> decompile, controlFlow |-> controlFlow,
     job |-> job]

ASSUME UsedAssumption == Used \subseteq DOMAIN Operations

\* The coordinates in a body, by their keys: what is not named is absent.
Body == [session |-> None, logical |-> None, logicalAfter |-> None, afterLogical |-> None,
         index |-> None, indexAfter |-> None, afterIndex |-> None,
         logicalBefore |-> None]
Error == Body

\* The body of an answer of session s that takes it from revision n to m.
answerOf(carries, s, n, m) ==
    CASE carries = "nothing" -> {Body}
      [] carries = "revisions" -> {[Body EXCEPT !.session = s, !.logical = m, !.index = m]}
      [] carries = "plain" -> {[Body EXCEPT !.session = s, !.logical = m]}
      [] carries = "past" -> {[Body EXCEPT !.session = s, !.logical = k] : k \in 0..m}
      [] carries = "result" -> {[Body EXCEPT !.session = s, !.logicalBefore = n,
                                             !.logicalAfter = m, !.indexAfter = m]}
      [] carries = "receipt" -> {[Body EXCEPT !.session = s, !.logicalBefore = n,
                                              !.afterLogical = m, !.afterIndex = m]}

-----------------------------------------------------------------------------
(* RevisionCache.                                                          *)

first(a, b) == IF a # None THEN a ELSE b
atLeast(a, b) == IF a # None /\ a > b THEN a ELSE b

logicalOf(body) == first(body.logical, first(body.logicalAfter, body.afterLogical))
indexOf(body) == first(body.index, first(body.indexAfter, body.afterIndex))

isRetiredNever(session) == FALSE  \* bug: an old boot is taken for a new one

isRetired(session) == session \in retired

retireAlways == {cache.session}  \* bug: also None, before the first observation

retire == {cache.session} \ {None}

enteredByMax(session, logical, index) ==  \* bug: revisions of two sessions are compared
    [session |-> session, logical |-> atLeast(cache.logical, logical), index |-> index]

entered(session, logical, index) ==
    [session |-> session, logical |-> logical, index |-> index]

advanced(logical, index) ==
    [cache EXCEPT !.logical = atLeast(@, logical),
                  !.index = IF index = None THEN @ ELSE atLeast(@, index)]

observe(body) ==
    LET logical == logicalOf(body)
        index == indexOf(body)
        ignored == body.session = None \/ logical = None \/ isRetired(body.session)
    IN
    \/ ignored /\ UNCHANGED cacheVars
    \/ /\ ~ ignored /\ cache.session # body.session
       /\ retired' = retired \cup retire
       /\ cache' = entered(body.session, logical, index)
    \/ /\ ~ ignored /\ cache.session = body.session
       /\ cache' = advanced(logical, index)
       /\ UNCHANGED retired

\* Fields that are not given explicitly come from the cache.
expectedFromCache(given) ==  \* bug: what was given explicitly is not used
    [session |-> cache.session, logical |-> cache.logical]

expected(given) ==
    [session |-> IF given.session = UNSET THEN cache.session ELSE given.session,
     logical |-> IF given.logical = UNSET THEN cache.logical ELSE given.logical]

\* Otherwise ValueError, and nothing is sent.
sendable(op, given) ==
    LET pair == expected(given) IN
    /\ pair.session = None <=> pair.logical = None
    /\ Operations[op].guard = "required" => pair # Omitted

-----------------------------------------------------------------------------
(* Callers.                                                                *)

Idle == [at |-> "idle", op |-> None, sent |-> Omitted, intent |-> 0, attempt |-> 0]

Init == /\ boot = 1 /\ revision = 0
        /\ cache = [session |-> None, logical |-> None, index |-> None]
        /\ retired = {}
        /\ call = [c \in Caller |-> Idle]
        /\ requests = {} /\ answers = {}
        /\ applied = [c \in Caller |-> [i \in 1..MaxIntents |-> 0]]
        /\ final = [s \in Session |-> 0]

Request == [from : Caller, intent : 1..MaxIntents, attempt : 1..MaxAttempts,
            op : Used, expected : Pair]
requestOf(c) == [from |-> c, intent |-> call[c].intent, attempt |-> call[c].attempt,
                 op |-> call[c].op, expected |-> call[c].sent]

\* Sends an operation with the preconditions that expected() makes.
send(c, op, given, intent, attempt) ==
    LET pair == IF Operations[op].guard = "none" THEN Omitted ELSE expected(given) IN
    /\ Operations[op].guard # "none" => sendable(op, given)
    /\ call' = [call EXCEPT ![c] = [at |-> "waiting", op |-> op, sent |-> pair,
                                    intent |-> intent, attempt |-> attempt]]
    /\ requests' = requests \cup {[from |-> c, intent |-> intent, attempt |-> attempt,
                                   op |-> op, expected |-> pair]}
    /\ UNCHANGED <<serviceVars, cacheVars, answers>>

\* A method call with the default preconditions, or with `None, None`.
begin(c) == \E op \in Used, given \in {Default, Omitted} :
    /\ call[c].at = "idle" /\ call[c].intent < MaxIntents
    /\ given = Omitted => Operations[op].guard = "optional"
    /\ send(c, op, given, call[c].intent + 1, 1)

\* The caller tries again after a TransportError, with the pair it sent; to
\* read again is a call like any other.
again(c) ==
    /\ call[c].sent # Omitted
    /\ call[c].at = "failed" /\ call[c].attempt < MaxAttempts
    /\ send(c, call[c].op, call[c].sent, call[c].intent, call[c].attempt + 1)

abandon(c) ==
    /\ call[c].at = "failed"
    /\ call' = [call EXCEPT ![c] = [Idle EXCEPT !.intent = call[c].intent]]
    /\ UNCHANGED <<serviceVars, cacheVars, requests, answers>>

\* Client._invoke: unwrap() raises on an error, observe() sees a result.
receive(c) == \E a \in answers :
    /\ call[c].at = "waiting" /\ a.to = requestOf(c)
    /\ observe(a.body)
    /\ call' = [call EXCEPT ![c] = [Idle EXCEPT !.intent = call[c].intent]]
    /\ answers' = answers \ {a}
    /\ UNCHANGED <<serviceVars, requests>>

\* RequestTimeoutError, TransportError, or a cancelled task: the request may
\* still be under way, an answer finds nobody any more.
fail(c) ==
    /\ call[c].at = "waiting"
    /\ call' = [call EXCEPT ![c].at = "failed"]
    /\ answers' = {a \in answers : a.to # requestOf(c)}
    /\ UNCHANGED <<serviceVars, cacheVars, requests>>

-----------------------------------------------------------------------------
(* The service.                                                            *)

\* checkSession and checkRevision.
stale(pair) == pair # Omitted /\ pair # [session |-> boot, logical |-> revision]

awaited(r) == call[r.from].at = "waiting" /\ requestOf(r.from) = r

\* Answers a request, if its caller still waits for it, and goes to revision m.
answer(r, bodies, m) == \E body \in bodies :
    /\ requests' = requests \ {r}
    /\ answers' = IF awaited(r) THEN answers \cup {[to |-> r, body |-> body]} ELSE answers
    /\ revision' = m
    /\ final' = [final EXCEPT ![boot] = m]
    /\ applied' = IF m # revision /\ r.expected # Omitted THEN [applied EXCEPT ![r.from][r.intent] = @ + 1]
                  ELSE applied
    /\ UNCHANGED <<boot, cacheVars, call>>

\* Busy, stale, conflicting or invalid: an error body has no coordinates.
refuse(r) == answer(r, {Error}, revision)

succeed(r) ==
    LET op == Operations[r.op] IN
    /\ ~ stale(r.expected)
    /\ \E m \in {revision} \cup (IF op.commits THEN {revision + 1} ELSE {}) :
           /\ m <= MaxRevision
           /\ answer(r, answerOf(op.carries, boot, revision, m), m)

\* Another process takes over, under a session of its own; what was written
\* before may still be read.
restart == /\ boot < MaxBoots /\ boot' = boot + 1
           /\ revision' = 0
           /\ requests' = {}
           /\ UNCHANGED <<applied, final, cacheVars, call, answers>>

Next == \/ \E c \in Caller : begin(c) \/ again(c) \/ abandon(c) \/ receive(c) \/ fail(c)
        \/ \E r \in requests : refuse(r) \/ succeed(r)
        \/ restart

Spec == Init /\ [][Next]_vars

-----------------------------------------------------------------------------
TypeOK == /\ boot \in Session /\ revision \in Logical
          /\ cache.session \in Session \cup {None}
          /\ {cache.logical, cache.index} \subseteq Logical \cup {None}
          /\ retired \subseteq Session
          /\ \A c \in Caller : call[c].at \in {"idle", "waiting", "failed"}
          /\ requests \subseteq Request
          /\ \A a \in answers : a.to \in Request

(* The pair that default preconditions are made of was reached by that     *)
(* session: no answer, however late and from whichever operation, makes    *)
(* the cache expect a revision of the future or of another session.        *)
CacheIsPast ==
    cache.session # None =>
        /\ cache.session <= boot
        /\ cache.logical <= final[cache.session]
        /\ cache.index # None => cache.index <= cache.logical

(* RevisionCache is monotonic within one session, and a session that it    *)
(* has left never comes back, in whichever order answers are observed.     *)
CacheMovesForward ==
    [][IF cache'.session = cache.session
       THEN /\ cache.logical # None => cache'.logical >= cache.logical
            /\ cache.index # None => cache'.index >= cache.index
       ELSE /\ cache'.session \notin retired
            /\ cache.session # None => cache.session \in retired']_vars

(* A change that was sent with preconditions, and sent again with the same *)
(* pair after a failure that left its fate open, takes effect at most      *)
(* once: also when the first request arrives last, or at a new process.    *)
GuardedChangeAppliedOnce ==
    \A c \in Caller, i \in 1..MaxIntents : applied[c][i] <= 1

=============================================================================
