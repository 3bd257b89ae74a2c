---------------------------- MODULE WireContract ----------------------------
(***************************************************************************)
(* A call of the Python client and its way through the HTTP interface: the  *)
(* request the method sends, what the servlet makes of it, what the servlet *)
(* answers, and what the client makes of that.  Each side works from its    *)
(* own declarations - ClientOperations and ServerRoutes - and this module   *)
(* brings them together.                                                    *)
(*                                                                         *)
(* A body is read along one path: from the object down through one key at a *)
(* time to a value that is not an object.  Which key and which of the       *)
(* values its writer may put there is a choice of the step, so a reader     *)
(* that fails on some body fails on one of its paths, and the paths of all  *)
(* bodies are the behaviours of the model.                                  *)
(***************************************************************************)
EXTENDS WireSchema

CONSTANT Used       \* the client's methods that are called

Client == INSTANCE ClientOperations
Server == INSTANCE ServerRoutes

ASSUME UsedAssumption == Used \subseteq DOMAIN Client!Methods

VARIABLES
    stage,      \* idle, request, serving, answer, arrived, done
    call,       \* the method, the kind of symbol and of item, and whether it is guarded
    node,       \* the object that is being read: its writer's and its reader's schema
    accepted,   \* what the servlet made of the request
    answer,     \* what the servlet answered
    understood, \* what the client made of the body of the answer
    outcome     \* what the caller got and what the revision cache was shown

vars == <<stage, call, node, accepted, answer, understood, outcome>>

Verdicts == {"open", "fits", "kept", "mistyped", "fails"}
NoCall == [method |-> "none", ref |-> "none", item |-> "none", guarded |-> FALSE]
NoAnswer == Server!Error(0, "none")
NoNode == [writer |-> "none", reader |-> "none", soft |-> FALSE]
NoOutcome == [raised |-> "none", result |-> "none", observed |-> {}, itemErrors |-> FALSE]

Endpoint == Client!Methods[call.method].endpoint
Route == Server!RouteOf(Endpoint.method, Endpoint.url)

-----------------------------------------------------------------------------
(***************************************************************************)
(* Reading a value.                                                        *)
(***************************************************************************)

\* A value of another kind than the field's: a conversion fails, a union keeps
\* the raw data, and a field that is not converted is not what it says.
Mismatch(field) ==
    IF field.lenient THEN "kept" ELSE IF field.checked THEN "fails" ELSE "mistyped"

Judge(field, value, isObject, many) ==
    IF value = "absent" THEN IF field.must THEN "fails" ELSE "fits"
    ELSE IF value = "null" THEN IF field.null THEN "fits" ELSE Mismatch(field)
    ELSE IF many = field.many /\ Takes(field, value, isObject) THEN "fits"
    ELSE Mismatch(field)

\* A failure below a union is swallowed by the union.
Soften(verdict, soft) == IF soft /\ verdict = "fails" THEN "kept" ELSE verdict

\* Nested objects are told apart by their kind, where they have one.
Agree(writer, kinds, reader) ==
    ("kind" \in DOMAIN writer /\ "kind" \in DOMAIN reader) => kinds \cap reader.kind.of # {}

-----------------------------------------------------------------------------
(***************************************************************************)
(* The request.                                                            *)
(***************************************************************************)

Init ==
    /\ stage = "idle" /\ call = NoCall /\ node = NoNode
    /\ accepted = "open" /\ answer = NoAnswer /\ understood = "open" /\ outcome = NoOutcome

\* A method is called; one that needs preconditions raises without them.  A
\* handler that reads a body refuses a request without one.
Invoke(m) ==
    /\ stage \in {"idle", "done"}
    /\ LET method == Client!Methods[m]
           body == method.endpoint.body
           route == Server!RouteOf(method.endpoint.method, method.endpoint.url)
       IN \E item \in method.items, ref \in method.refs :
          \E guarded \in Client!Guards(method, item) :
            /\ call' = [method |-> m, ref |-> ref, item |-> item, guarded |-> guarded]
            /\ IF "none" \in {body, route.form}
               THEN /\ stage' = "serving"
                    /\ accepted' = IF route.form = "none" THEN "fits" ELSE "fails"
                    /\ node' = NoNode
               ELSE /\ stage' = "request"
                    /\ accepted' = "open"
                    /\ node' = [writer |-> body, soft |-> FALSE,
                                reader |-> IF item = "none" THEN route.form
                                           ELSE Server!FormOf(route, item)]
    /\ answer' = NoAnswer /\ understood' = "open" /\ outcome' = NoOutcome

\* The servlet looks at one key of the body, or of an object in it.
ReadRequest ==
    /\ stage = "request"
    /\ LET writer == Client!Bodies[node.writer]
           reader == Server!Form[node.reader]
           sent(k) == IF k \in DOMAIN writer THEN Client!Sent(call, node.writer, k) ELSE {"absent"}
       IN \E k \in DOMAIN writer \cup DOMAIN reader : \E v \in sent(k) :
            LET isObject == v \in DOMAIN Client!Bodies
                field == reader[k]
                kinds == IF isObject /\ "kind" \in DOMAIN Client!Bodies[v]
                         THEN Client!Sent(call, v, "kind") ELSE {}
                inner == IF k \in DOMAIN reader /\ isObject
                         THEN {r \in field.of \cap DOMAIN Server!Form :
                                 Agree(Client!Bodies[v], kinds, Server!Form[r])} ELSE {}
            IN IF inner # {} /\ writer[k].many = field.many
               THEN /\ \E r \in inner : node' = [writer |-> v, reader |-> r, soft |-> FALSE]
                    /\ UNCHANGED <<stage, accepted>>
               ELSE /\ accepted' = IF k \in DOMAIN reader
                                   THEN Judge(field, v, isObject,
                                              k \in DOMAIN writer /\ writer[k].many)
                                   ELSE IF v = "absent" \/ node.reader \in Server!OpenForms
                                   THEN "fits" ELSE "fails"
                    /\ stage' = "serving"
                    /\ node' = NoNode
    /\ UNCHANGED <<call, answer, understood, outcome>>

-----------------------------------------------------------------------------
(***************************************************************************)
(* The answer.                                                             *)
(***************************************************************************)

\* The servlet answers; the client takes the model of the status.
Respond ==
    /\ stage = "serving"
    /\ \E a \in IF accepted # "fits" THEN Server!Refusals
               ELSE IF call.method = "next_page" THEN Server!Continued(Route.answers)
               ELSE Route.answers :
         LET model == Client!ModelOf(Endpoint, a.status)
         IN /\ answer' = a
            /\ IF model = "none"
               THEN stage' = "arrived" /\ understood' = "fits" /\ node' = NoNode
               ELSE /\ stage' = "answer" /\ understood' = "open"
                    /\ node' = [writer |-> a.body, reader |-> model, soft |-> FALSE]
    /\ UNCHANGED <<call, accepted, outcome>>

\* from_dict looks at one key of the body, or of an object in it.
ReadAnswer ==
    /\ stage = "answer"
    /\ LET writer == Server!Dto[node.writer]
           reader == Client!Model[node.reader]
           written(k) == IF k \notin DOMAIN writer THEN {"absent"}
                         ELSE IF node.writer = "ErrorBody" /\ k = "code" THEN {answer.code}
                         ELSE Written(writer[k])
       IN \E k \in DOMAIN writer \cup DOMAIN reader : \E v \in written(k) :
            LET isObject == v \in DOMAIN Server!Dto
                field == reader[k]
                inner == IF k \in DOMAIN reader /\ isObject
                         THEN {r \in field.of \cap DOMAIN Client!Model :
                                 Agree(Server!Dto[v],
                                       IF "kind" \in DOMAIN Server!Dto[v]
                                       THEN Server!Dto[v].kind.of ELSE {},
                                       Client!Model[r])} ELSE {}
            IN IF inner # {} /\ writer[k].many = field.many
               THEN /\ \E r \in inner :
                          node' = [writer |-> v, reader |-> r, soft |-> node.soft \/ field.lenient]
                    /\ UNCHANGED <<stage, understood>>
               ELSE /\ understood' =
                         IF k \notin DOMAIN reader THEN "fits"
                         ELSE Soften(Judge(field, v, isObject,
                                           k \in DOMAIN writer /\ writer[k].many), node.soft)
                    /\ stage' = "arrived"
                    /\ node' = NoNode
    /\ UNCHANGED <<call, accepted, answer, outcome>>

\* _invoke: a body that could not be read is an unexpected response; a result is
\* shown to the revision cache on its way to the caller.  The item errors of an
\* exception are those of the body's error object.
Deliver ==
    /\ stage = "arrived"
    /\ stage' = "done"
    /\ LET method == Client!Methods[call.method]
           got == IF understood = "fails"
                  THEN [raised |-> "UnexpectedResponseError", result |-> "none"]
                  ELSE Client!unwrap(method, Client!ModelOf(Endpoint, answer.status),
                                     answer.status, answer.code)
       IN outcome' = [raised |-> got.raised, result |-> got.result,
                      observed |-> IF got.result = "none" THEN {} ELSE Client!observe(got.result),
                      itemErrors |-> answer.items /\ "itemErrors" \in DOMAIN Server!ErrorBody]
    /\ UNCHANGED <<call, node, accepted, answer, understood>>

Next ==
    \/ \E m \in Used : Invoke(m)
    \/ ReadRequest
    \/ Respond
    \/ ReadAnswer
    \/ Deliver

Spec == Init /\ [][Next]_vars

-----------------------------------------------------------------------------
(***************************************************************************)
(* Properties.                                                             *)
(***************************************************************************)

\* The servlet accepts the form of every request a method of the client can
\* send (handleEditBatch, handleSearch, ... and requireFields against to_dict
\* and RevisionCache.expected).  Two exceptions, where the client passes on what
\* the servlet refuses: the source of a field, and related propagation in a
\* batch of the caller's own for something that is not a method.
RequestsAccepted ==
    accepted = "fails" =>
        \/ call.method = "decompile" /\ call.ref = "FIELD"
        \/ call.method = "apply_edits" /\ call.item = "related" /\ call.ref # "METHOD"

\* The client understands every answer the servlet can give to its requests: a
\* body is decoded, into values of the declared types and without a union
\* falling back to raw data, and an error is raised as the exception of its code
\* rather than as the base class or as an unexpected response.  One exception: the
\* status of the index, which a search may get in a race with a build.
AnswersUnderstood ==
    (stage = "done" /\ ~(call.method = "search" /\ answer.body = "IndexStatus")) =>
        /\ understood = "fits"
        /\ outcome.raised \notin {"ApiError", "UnexpectedResponseError"}
        /\ outcome.raised = "none" <=> answer.code = "none"

\* After a method that changed the project has returned, the revision cache has
\* been shown the revisions the change has led to - not those it started from,
\* and not only one of the two - so that the next guarded call is not stale by
\* the caller's own change (RevisionCache.observe).
ChangesObserved ==
    (stage = "done" /\ outcome.result # "none" /\ answer.body \in DOMAIN Server!Published) =>
        outcome.observed = {"sessionId"} \cup Server!Published[answer.body]

\* The README of the client promises that an exception preserves itemErrors: the
\* errors the servlet reports for the items of a batch reach ApiError.item_errors.
ItemErrorsReachCaller ==
    stage = "done" /\ answer.items => outcome.itemErrors
=============================================================================
