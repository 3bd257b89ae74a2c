---------------------------- MODULE ServerRoutes ----------------------------
(***************************************************************************)
(* The HTTP interface as StatusServlet serves it: which requests it routes, *)
(* what it requires of a request body before it calls the service, and      *)
(* which answers - status, error code and body - each route can give.       *)
(*                                                                         *)
(* A route's answers are the union of what its handler's catch clauses and  *)
(* early returns can produce; whether the project is ready, busy, or at     *)
(* which revision is not state here, so any of them may be the answer.      *)
(* What only depends on the data of a request (a limit, a malformed path, a *)
(* text that is not a UUID) is among the answers too, not in the forms.     *)
(***************************************************************************)
EXTENDS ServerDtos

-----------------------------------------------------------------------------
(***************************************************************************)
(* Request forms.  requireFields refuses a field that a form does not name; *)
(* the handlers without it look only at the fields they know.               *)
(***************************************************************************)

OpenForms == {"SaveForm", "ReloadForm", "SettingsForm"}

\* Preconditions are a session and a revision.
Pair == {"expectedSessionId", "expectedLogicalRevision"}
OptOrNull(field) == Opt(OrNull(field))
PairFields ==
    [expectedSessionId |-> Parsed(Text), expectedLogicalRevision |-> Parsed(Number)]
OptPair == [k \in Pair |-> Opt(PairFields[k])]
OptOrNullPair == [k \in Pair |-> OptOrNull(PairFields[k])]

OptFlags(keys) == All(keys, Opt(Parsed(Flag)))

\* A symbol of the given kind: its constructor refuses a class with a member's
\* name and a member without one.
SymbolForm(kind) ==
    All({"originalName", "originalDescriptor"},
        IF kind = "CLASS" THEN OptOrNull(Parsed({})) ELSE Parsed(Text)) @@
    [kind |-> Parsed({kind}), originalClassDescriptor |-> Parsed(Text),
     inputIdentity |-> OptOrNull(Parsed(Text))]

AnySymbol == {"ClassForm", "MethodForm", "FieldForm"}

ShutdownForm == [policy |-> Opt(Parsed({"discard", "refuse_if_dirty", "save"}))]

\* A null target is refused; null preconditions mean none.
SaveForm == OptPair @@ [targetPath |-> Opt(Parsed(Text))]

ReloadForm == PairFields @@ [discardUnsaved |-> Parsed(Flag)]

\* The decompilation mode cannot be set: its presence is a 422.
SettingsForm ==
    PairFields @@
    [mappingsPath |-> OrNull(Parsed(Text)), decompilationMode |-> Opt(Parsed({}))]

MappingImportForm ==
    PairFields @@
    [sourcePath |-> Parsed(Text), format |-> Parsed({"TINY_V2"}),
     mode |-> Parsed({"MERGE_FAIL_ON_CONFLICT"})]

MappingExportForm ==
    PairFields @@ [targetPath |-> Parsed(Text), format |-> Parsed({"TINY_V2"})]

\* A batch whose items need preconditions is refused without them.
EditBatchForm == OptPair @@ [items |-> ListOf(Parsed({"RenameItem", "CommentItem"}))]

GuardedBatchForm ==
    PairFields @@ [items |-> ListOf(Parsed({"RelatedRenameItem", "ParameterItem"}))]

RenameItem ==
    [kind |-> Parsed({"RENAME"}), target |-> Parsed(AnySymbol), newName |-> Parsed(Text),
     propagateRelated |-> Opt(Parsed({"false"}))]

RelatedRenameItem ==
    [RenameItem EXCEPT !.target = Parsed({"MethodForm"}), !.propagateRelated = Parsed({"true"})]

CommentItem ==
    [kind |-> Parsed({"SET_COMMENT"}), target |-> Parsed(AnySymbol), comment |-> Parsed(Text),
     style |-> Parsed(Text)]

ParameterItem ==
    [kind |-> Parsed({"RENAME_PARAMETER"}), method |-> Parsed({"MethodForm"}),
     parameterIndex |-> Parsed(Number), sourceSnapshotId |-> Parsed(Text), newName |-> Parsed(Text)]

ResolveForm == OptPair @@ [ref |-> Parsed(AnySymbol)]

\* The service behind the route accepts methods only.
ControlFlowForm == OptPair @@ OptFlags({"strict"}) @@ [ref |-> Parsed({"MethodForm"})]

\* A field has no source of its own.
DecompileForm ==
    OptPair @@ OptFlags({"includeAnnotations", "includeRawDebugLines", "strict"}) @@
    [ref |-> Parsed({"ClassForm", "MethodForm"}), representation |-> Opt(Parsed(Text)),
     decompilationMode |-> Opt(Parsed(Modes)), expectedSourceSnapshotId |-> Opt(Parsed(Text))]

ReferencesForm ==
    OptPair @@ OptFlags({"includeSourceSites", "strict"}) @@
    [ref |-> Parsed(AnySymbol), direction |-> Parsed({"INCOMING", "OUTGOING"}),
     relations |-> Opt(ListOf(Parsed({"CALL", "UNRESOLVED_CALL", "FIELD_USE", "CLASS_DEPENDENCY",
                                      "FIELD_READ", "FIELD_WRITE"}))),
     pageSize |-> Opt(Parsed(Number)), cursor |-> OptOrNull(Parsed(Text)),
     view |-> Opt(Parsed({"PAIRS", "INSTRUCTIONS"}))]

SearchForm ==
    OptOrNullPair @@ OptFlags({"caseSensitive", "strict", "requireComplete"}) @@
    [query |-> Parsed(Text), domains |-> Opt(ListOf(Parsed(Domains \cup {"STRING_LITERAL"}))),
     matchMode |-> Opt(Parsed({"EXACT", "CONTAINS", "REGEX"})), pageSize |-> Opt(Parsed(Number)),
     cursor |-> OptOrNull(Parsed(Text))]

BuildForm ==
    OptFlags({"force"}) @@ [domains |-> Opt(ListOf(Parsed(Domains \cup {"STRING_LITERAL"})))]

\* The parameters of the query string of GET /classes.
ClassQueryForm ==
    All({"cursor", "packagePrefix", "nameContains"}, Opt(Parsed(Text))) @@
    [pageSize |-> Opt(Parsed(Number)), nameDomain |-> Opt(Parsed({"original", "alias"})),
     includeInner |-> Opt(Parsed(Flag))]

Form ==
    [ShutdownForm |-> ShutdownForm, SaveForm |-> SaveForm, ReloadForm |-> ReloadForm,
     SettingsForm |-> SettingsForm, MappingImportForm |-> MappingImportForm,
     MappingExportForm |-> MappingExportForm, EditBatchForm |-> EditBatchForm,
     GuardedBatchForm |-> GuardedBatchForm, RenameItem |-> RenameItem,
     RelatedRenameItem |-> RelatedRenameItem, CommentItem |-> CommentItem,
     ParameterItem |-> ParameterItem, ResolveForm |-> ResolveForm,
     ControlFlowForm |-> ControlFlowForm, DecompileForm |-> DecompileForm,
     ReferencesForm |-> ReferencesForm, SearchForm |-> SearchForm, BuildForm |-> BuildForm,
     ClassQueryForm |-> ClassQueryForm, ClassForm |-> SymbolForm("CLASS"),
     MethodForm |-> SymbolForm("METHOD"), FieldForm |-> SymbolForm("FIELD")]

-----------------------------------------------------------------------------
(***************************************************************************)
(* Answers: a status, the code of an error or "none", the record in the     *)
(* body, and whether an error carries errors of single items - which it     *)
(* does in its details, next to whatever else a handler puts there.         *)
(***************************************************************************)

Answer(status, dto) == [status |-> status, code |-> "none", body |-> dto, items |-> FALSE]
Ok(dto) == {Answer(200, dto)}

\* writeError: every error of the servlet is an ErrorEnvelope.
Error(status, code) ==
    [status |-> status, code |-> code, body |-> "ErrorEnvelope", items |-> FALSE]
Errors(status, codes) == {Error(status, c) : c \in codes}
WithItemErrors(answers) == {[a EXCEPT !.items = TRUE] : a \in answers}

\* writeLifecycleError: a project that failed to load answers with the code of
\* its failure.
NotReady ==
    Errors(503, {"PROJECT_NOT_READY", "PROJECT_LOAD_FAILED", "INTERNAL_ERROR",
                 "SERVICE_SHUTTING_DOWN"})

BadRequest == Errors(400, {"INVALID_REQUEST"})
Failure == Errors(500, {"INTERNAL_ERROR"})
Conflict(codes) == Errors(409, codes)
TooMuch == Errors(429, {"RESOURCE_LIMIT"})
CrossOrigin == Errors(403, {"INPUT_SECURITY_REJECTION"})
NotJson == Errors(415, {"INVALID_REQUEST"})
Unsupported == Errors(422, {"UNSUPPORTED_CAPABILITY"})
Missing == Errors(404, {"NOT_FOUND"})

\* What every handler that works on the ready project can answer.
OnProject == NotReady \cup Conflict({"PROJECT_BUSY"}) \cup BadRequest \cup Failure

SettingsAnswers ==
    Ok("ProjectSettingsResponse") \cup OnProject \cup NotJson \cup Unsupported \cup
    Conflict({"STALE_REVISION", "EXTERNAL_MODIFICATION_CONFLICT"}) \cup
    Errors(403, {"INVALID_REQUEST"})

\* Save and reload share their catch clauses with the export of pending edits.
ProjectAnswers ==
    OnProject \cup NotJson \cup Errors(403, {"INVALID_REQUEST"}) \cup
    Conflict({"STALE_REVISION", "EXTERNAL_MODIFICATION_CONFLICT"})

ShutdownAnswers ==
    {Answer(202, "ShutdownAccepted")} \cup OnProject \cup CrossOrigin \cup
    Conflict({"INVALID_REQUEST", "EXTERNAL_MODIFICATION_CONFLICT"})

CancelAnswers == Ok("JobResponse") \cup CrossOrigin \cup Missing \cup BadRequest

JobAnswers == Ok("JobResponse") \cup Missing \cup BadRequest

\* The subscription is opened before the stream's 200; from then on the body is
\* made of event frames.
EventsAnswers ==
    Ok("EventData") \cup Missing \cup BadRequest \cup TooMuch \cup
    Conflict({"EVENT_HISTORY_EXPIRED"})

ClassesAnswers == Ok("ClassPage") \cup OnProject \cup TooMuch \cup Conflict({"STALE_REVISION"})

ExportAnswers ==
    Ok("ExportReceipt") \cup OnProject \cup CrossOrigin \cup NotJson \cup TooMuch \cup
    Unsupported \cup Conflict({"STALE_REVISION", "EXTERNAL_MODIFICATION_CONFLICT"})

ImportAnswers ==
    Ok("ImportReceipt") \cup OnProject \cup CrossOrigin \cup NotJson \cup TooMuch \cup
    Unsupported \cup Missing \cup Errors(422, {"INVALID_ENTITY_ID"}) \cup
    Conflict({"STALE_REVISION", "EXTERNAL_MODIFICATION_CONFLICT", "MAPPING_MERGE_CONFLICT"})

\* EditBatchService rejects a batch with the errors of its items, or without any
\* when it refuses the batch as a whole.
EditAnswers ==
    Ok("EditResult") \cup OnProject \cup CrossOrigin \cup NotJson \cup TooMuch \cup
    Conflict({"STALE_REVISION", "EXTERNAL_MODIFICATION_CONFLICT"}) \cup
    WithItemErrors(BadRequest \cup Missing \cup TooMuch \cup Failure \cup
                   Conflict({"STALE_REVISION", "EXTERNAL_MODIFICATION_CONFLICT"}) \cup
                   Errors(422, {"UNSUPPORTED_CAPABILITY", "INVALID_ENTITY_ID"}))

ResolveAnswers ==
    Ok("SymbolResolution") \cup OnProject \cup NotJson \cup TooMuch \cup
    Conflict({"STALE_REVISION"})

AnalysisAnswers(dto) ==
    Ok(dto) \cup OnProject \cup NotJson \cup TooMuch \cup
    Conflict({"STALE_REVISION", "INCOMPLETE_ANALYSIS"})

DecompileAnswers ==
    AnalysisAnswers("DecompileResult") \cup Unsupported \cup CrossOrigin \cup
    Conflict({"EXTERNAL_MODIFICATION_CONFLICT"})

SearchAnswers(dto) ==
    AnalysisAnswers(dto) \cup {Answer(202, "JobResponse")} \cup Unsupported \cup CrossOrigin

\* A search that requires complete coverage ends in buildIndex, which looks at
\* the coverage again: when the index has been completed between the two looks,
\* what it returns - and the route answers - is the status of the index.
PageAnswers == SearchAnswers("Page") \cup Ok("IndexStatus")

\* A search with a cursor reads retained results and never comes to a build.
Continued(answers) ==
    {a \in answers : a.body \notin {"JobResponse", "IndexStatus"} /\ a.code # "INCOMPLETE_ANALYSIS"}

-----------------------------------------------------------------------------
(***************************************************************************)
(* Routes: what a handler requires of a body and what it answers.  A        *)
(* snapshot of the settings or the project is only refused while the        *)
(* project is not ready.                                                   *)
(***************************************************************************)

Route(form, answers) == [form |-> form, answers |-> answers]
Get(answers) == Route("none", answers)

Routes ==
    <<"GET", "/health/live">> :> Get(Ok("HealthResponse")) @@
    <<"GET", "/status">> :> Get(Ok("StatusResponse")) @@
    <<"GET", "/capabilities">> :> Get(Ok("CapabilitiesResponse")) @@
    <<"GET", "/project">> :> Get(Ok("FixedProjectResponse") \cup NotReady) @@
    <<"GET", "/project/settings">> :> Get(Ok("ProjectSettingsResponse") \cup NotReady) @@
    <<"PATCH", "/project/settings">> :> Route("SettingsForm", SettingsAnswers) @@
    <<"POST", "/project/save">> :>
        Route("SaveForm", Ok("FixedProjectResponse") \cup ProjectAnswers) @@
    <<"POST", "/project/reload">> :>
        Route("ReloadForm", Ok("FixedProjectResponse") \cup ProjectAnswers) @@
    <<"POST", "/project/pending-edits/export">> :>
        Get(Ok("PendingEdits") \cup ProjectAnswers) @@
    <<"POST", "/project/mappings/import">> :> Route("MappingImportForm", ImportAnswers) @@
    <<"POST", "/project/mappings/export">> :> Route("MappingExportForm", ExportAnswers) @@
    <<"POST", "/edits/batch">> :> Route("EditBatchForm", EditAnswers) @@
    <<"GET", "/classes">> :> Route("ClassQueryForm", ClassesAnswers) @@
    <<"POST", "/symbols/resolve">> :> Route("ResolveForm", ResolveAnswers) @@
    <<"POST", "/analysis/control-flow">> :>
        Route("ControlFlowForm", AnalysisAnswers("ControlFlowFacts")) @@
    <<"POST", "/references/query">> :>
        Route("ReferencesForm", AnalysisAnswers("ReferencePage")) @@
    <<"POST", "/decompile">> :> Route("DecompileForm", DecompileAnswers) @@
    <<"POST", "/search">> :> Route("SearchForm", PageAnswers) @@
    <<"POST", "/search/build-index">> :> Route("BuildForm", SearchAnswers("IndexStatus")) @@
    <<"GET", "/jobs/{id}">> :> Get(JobAnswers) @@
    <<"GET", "/jobs/{id}/events">> :> Get(EventsAnswers) @@
    <<"POST", "/jobs/{id}/cancel">> :> Get(CancelAnswers) @@
    <<"POST", "/shutdown">> :> Route("ShutdownForm", ShutdownAnswers)

\* service(): any other path is a 404, another method on a known path a 405.
RouteOf(method, url) ==
    IF <<method, url>> \in DOMAIN Routes THEN Routes[<<method, url>>]
    ELSE Get(IF \E m \in {"GET", "POST", "PATCH"} : <<m, url>> \in DOMAIN Routes
             THEN Errors(405, {"METHOD_NOT_ALLOWED"}) ELSE Missing)

\* Where the record of a change says which revisions the change has led to.
Published ==
    [FixedProjectResponse |-> {"logicalRevision", "indexRevision"},
     ProjectSettingsResponse |-> {"logicalRevision", "indexRevision"},
     EditResult |-> {"logicalRevisionAfter", "indexRevisionAfter"},
     ImportReceipt |-> {"afterLogicalRevision", "afterIndexRevision"}]

\* A request whose body is not of the form: the handler reads the body after it
\* has looked at the project's lifecycle.
Refusals == NotReady \cup BadRequest

\* The form a body is read by: one item that needs preconditions makes the
\* batch need them.
ItemForm ==
    [comment |-> "CommentItem", rename |-> "RenameItem", related |-> "RelatedRenameItem",
     parameter |-> "ParameterItem"]
FormOf(route, item) ==
    IF route.form = "EditBatchForm" /\ ItemForm[item] \in GuardedBatchForm.items.of
    THEN "GuardedBatchForm" ELSE route.form
=============================================================================
