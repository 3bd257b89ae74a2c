-------------------------- MODULE ClientOperations --------------------------
(***************************************************************************)
(* The operations of the Python client, in its two layers.                  *)
(*                                                                         *)
(* The generated layer (libjadx/_generated/api) has one module per          *)
(* endpoint: the request it makes, and which model it parses the body of    *)
(* each status into.  A status it does not know gives no model at all.      *)
(*                                                                         *)
(* The hand-written layer (project.py, client.py, jobs.py, search.py) has   *)
(* one method per operation: which endpoint it invokes, what it puts into   *)
(* the request, which models it accepts as a result, and which exception it *)
(* raises for an error.                                                     *)
(***************************************************************************)
EXTENDS Integers, Sequences, ClientModels

-----------------------------------------------------------------------------
(***************************************************************************)
(* Endpoints.                                                              *)
(***************************************************************************)

\* Models by status; the error statuses an endpoint knows all carry the same
\* envelope, and a default applies to any status that is not listed.
Endpoint(method, url, body, success, errors) ==
    [method |-> method, url |-> url, body |-> body,
     models |-> success @@ All(errors, "ErrorEnvelope"), others |-> "none"]
WithDefault(endpoint) == [endpoint EXCEPT !.others = "ErrorEnvelope"]

GetLiveness == WithDefault(Endpoint("GET", "/health/live", "none", 200 :> "Liveness", {}))
GetStatus == WithDefault(Endpoint("GET", "/status", "none", 200 :> "ServiceStatus", {}))
GetCapabilities ==
    WithDefault(Endpoint("GET", "/capabilities", "none", 200 :> "Capabilities", {}))
ShutdownService ==
    Endpoint("POST", "/shutdown", "ShutdownRequest", 202 :> "ShutdownAccepted",
             {400, 403, 409, 500, 503})
GetJob == Endpoint("GET", "/jobs/{id}", "none", 200 :> "Job", {400, 404})
CancelJob == Endpoint("POST", "/jobs/{id}/cancel", "none", 200 :> "Job", {400, 403, 404})

\* The stream is read by the hand-written layer: every other status is an
\* envelope, and a 200 is made of frames that are parsed into events.
StreamJobEvents ==
    WithDefault(Endpoint("GET", "/jobs/{id}/events", "none", 200 :> "JobEvent", {}))

GetProject == WithDefault(Endpoint("GET", "/project", "none", 200 :> "FixedProject", {}))
GetProjectSettings ==
    WithDefault(Endpoint("GET", "/project/settings", "none", 200 :> "ProjectSettings", {}))
UpdateProjectSettings ==
    WithDefault(Endpoint("PATCH", "/project/settings", "UpdateProjectSettingsRequest",
                         200 :> "ProjectSettings", {}))
SaveProject ==
    WithDefault(Endpoint("POST", "/project/save", "SaveProjectRequest",
                         200 :> "FixedProject", {}))
ReloadProject ==
    WithDefault(Endpoint("POST", "/project/reload", "ReloadProjectRequest",
                         200 :> "FixedProject", {}))
ExportPendingEdits ==
    WithDefault(Endpoint("POST", "/project/pending-edits/export", "none",
                         200 :> "PendingEdits", {}))
ExportMappings ==
    Endpoint("POST", "/project/mappings/export", "MappingExportRequest",
             200 :> "MappingExportReceipt", {400, 403, 409, 415, 422, 429, 500, 503})
ImportMappingsWithoutMissing ==   \* bug: a source that is not there is no answer it knows
    Endpoint("POST", "/project/mappings/import", "MappingImportRequest",
             200 :> "MappingImportReceipt", {400, 403, 409, 415, 422, 429, 500, 503})
ImportMappings ==
    Endpoint("POST", "/project/mappings/import", "MappingImportRequest",
             200 :> "MappingImportReceipt", {400, 403, 404, 409, 415, 422, 429, 500, 503})
ApplyEditBatch ==
    Endpoint("POST", "/edits/batch", "EditBatchRequest", 200 :> "EditBatchResult",
             {400, 403, 404, 409, 415, 422, 429, 500, 503})

ListClasses ==
    Endpoint("GET", "/classes", "ListClassesParams", 200 :> "ClassPage",
             {400, 409, 429, 500, 503})
ResolveSymbol ==
    Endpoint("POST", "/symbols/resolve", "SymbolResolveRequest", 200 :> "SymbolResolution",
             {400, 409, 415, 429, 500, 503})
QueryReferences ==
    Endpoint("POST", "/references/query", "ReferenceQuery", 200 :> "ReferencePage",
             {400, 409, 415, 429, 500, 503})
GetControlFlowFacts ==
    Endpoint("POST", "/analysis/control-flow", "ControlFlowRequest", 200 :> "ControlFlowResult",
             {400, 409, 415, 429, 500, 503})
DecompileJava ==
    Endpoint("POST", "/decompile", "DecompileRequest", 200 :> "DecompileResult",
             {400, 403, 409, 415, 422, 429, 500, 503})
SearchIndex ==
    Endpoint("POST", "/search", "SearchRequest", 200 :> "SearchPage" @@ 202 :> "Job",
             {400, 403, 409, 415, 422, 429, 500, 503})
BuildSearchIndex ==
    Endpoint("POST", "/search/build-index", "SearchBuildRequest",
             200 :> "SearchIndexStatus" @@ 202 :> "Job",
             {400, 403, 409, 415, 422, 429, 500, 503})

\* The query parameters of list_classes; an UNSET one is left out.
ListClassesParams ==
    All({"cursor", "packagePrefix", "nameContains"}, Opt(Plain(Text))) @@
    [pageSize |-> Plain(Number), nameDomain |-> Plain({"original", "alias"}),
     includeInner |-> Plain(Flag)]

Bodies == Model @@ [ListClassesParams |-> ListClassesParams]

\* What a status is parsed into.
ModelOf(endpoint, http) ==
    IF http \in DOMAIN endpoint.models THEN endpoint.models[http] ELSE endpoint.others

-----------------------------------------------------------------------------
(***************************************************************************)
(* Methods.  pair says whether the session and the revision of the cache    *)
(* are sent: never, if they are known, or always - without them the method  *)
(* raises before it sends anything.  unset are the optional keys a method   *)
(* never gives a value.  refs and items restrict what it is called with.    *)
(***************************************************************************)

Kinds == {"CLASS", "METHOD", "FIELD"}

Method(endpoint, expects) ==
    [endpoint |-> endpoint, expects |-> expects, pair |-> "never", unset |-> {},
     refs |-> Kinds, items |-> {"none"}]
Sends(method, pair) == [method EXCEPT !.pair = pair]
Omits(method, keys) == [method EXCEPT !.unset = keys]

liveness == Method(GetLiveness, {"Liveness"})
status == Method(GetStatus, {"ServiceStatus"})
capabilities == Method(GetCapabilities, {"Capabilities"})
shutdown == Method(ShutdownService, {"ShutdownAccepted"})
job == Method(GetJob, {"Job"})
cancel == Method(CancelJob, {"Job"})
events == Method(StreamJobEvents, {"JobEvent"})

snapshot == Method(GetProject, {"FixedProject"})
settings == Method(GetProjectSettings, {"ProjectSettings"})
pending_edits == Method(ExportPendingEdits, {"PendingEdits"})
save == Sends(Method(SaveProject, {"FixedProject"}), "known")
reload == Sends(Method(ReloadProject, {"FixedProject"}), "always")
update_settings == Sends(Method(UpdateProjectSettings, {"ProjectSettings"}), "always")
export_mappings == Sends(Method(ExportMappings, {"MappingExportReceipt"}), "always")
import_mappings == Sends(Method(ImportMappings, {"MappingImportReceipt"}), "always")

\* Items of any kind, made by the caller: one that changes related methods or a
\* parameter makes the preconditions required.
NeedsPairForParameter(item) == item = "parameter"  \* bug: related changes go unguarded
NeedsPair(item) == item \in {"related", "parameter"}
apply_edits ==
    [Method(ApplyEditBatch, {"EditBatchResult"}) EXCEPT
        !.pair = "items", !.items = {"rename", "related", "comment", "parameter"}]

\* The methods that make the item themselves; propagation is for methods only.
rename == [apply_edits EXCEPT !.items = {"rename"}]
rename_related == [apply_edits EXCEPT !.items = {"related"}, !.refs = {"METHOD"}]
set_comment == [apply_edits EXCEPT !.items = {"comment"}]
rename_parameter == [apply_edits EXCEPT !.items = {"parameter"}, !.refs = {"METHOD"}]

resolve == Method(ResolveSymbol, {"SymbolResolution"})
class_pages == Method(ListClasses, {"ClassPage"})
decompile == Omits(Method(DecompileJava, {"DecompileResult"}), {"expectedSourceSnapshotId"})
control_flow ==
    [Sends(Method(GetControlFlowFacts, {"ControlFlowResult"}), "known") EXCEPT !.refs = {"METHOD"}]
references == Method(QueryReferences, {"ReferencePage"})

\* Pages of a query the caller made, which may have preconditions of its own.
reference_pages == Sends(references, "known")

\* A search starts without a cursor; either may be answered by a job.
search == Omits(Method(SearchIndex, {"SearchPage", "Job"}), {"cursor"})
build_search_index == Method(BuildSearchIndex, {"SearchIndexStatus", "Job"})

\* The next page of a SearchCursor.
next_page == Method(SearchIndex, {"SearchPage"})

\* The methods of the client by name; the asynchronous client has the same.
Methods ==
    [liveness |-> liveness, status |-> status, capabilities |-> capabilities,
     shutdown |-> shutdown, job |-> job, cancel |-> cancel, events |-> events,
     snapshot |-> snapshot, settings |-> settings, pending_edits |-> pending_edits,
     save |-> save, reload |-> reload, update_settings |-> update_settings,
     export_mappings |-> export_mappings, import_mappings |-> import_mappings,
     apply_edits |-> apply_edits, rename |-> rename, rename_related |-> rename_related,
     set_comment |-> set_comment, rename_parameter |-> rename_parameter, resolve |-> resolve,
     class_pages |-> class_pages, decompile |-> decompile, control_flow |-> control_flow,
     references |-> references, reference_pages |-> reference_pages,
     search |-> search, build_search_index |-> build_search_index, next_page |-> next_page]

-----------------------------------------------------------------------------
(***************************************************************************)
(* What a request says.                                                    *)
(***************************************************************************)

\* Whether the pair is sent, when the cache knows one.
Guards(method, item) ==
    CASE method.pair = "never" -> {FALSE}
      [] method.pair = "always" -> {TRUE}
      [] method.pair = "known" -> BOOLEAN
      [] method.pair = "items" -> IF NeedsPair(item) THEN {TRUE} ELSE BOOLEAN

\* SymbolRef.class_, .method and .field: a class has no names, a member both.
RefNames(kind) == IF kind = "CLASS" THEN {"null"} ELSE Text

ItemModel ==
    [rename |-> "RenameOperation", related |-> "RenameOperation",
     comment |-> "SetCommentOperation", parameter |-> "RenameParameterOperation"]

\* The values the request of a call has at a key of one of its models.
Sent(call, model, key) ==
    LET method == Methods[call.method]
        field == Bodies[model][key]
    IN  IF key \in {"expectedSessionId", "expectedLogicalRevision"}
          THEN IF call.guarded THEN field.of ELSE {"absent"}
        ELSE IF key \in method.unset THEN {"absent"}
        ELSE IF model = "SymbolRef" /\ key = "kind" THEN {call.ref}
        ELSE IF model = "SymbolRef" /\ key \in {"originalName", "originalDescriptor"}
          THEN RefNames(call.ref)
        ELSE IF key = "items" THEN {ItemModel[call.item]}
        ELSE IF key = "propagateRelated"
          THEN IF call.item = "related" THEN {"true"} ELSE {"false", "absent"}
        ELSE IF key = "cursor" /\ call.method = "next_page" THEN Text
        ELSE Written(field)

-----------------------------------------------------------------------------
(***************************************************************************)
(* What becomes of an answer.                                              *)
(***************************************************************************)

\* ERROR_TYPES: the exception of each code.
ErrorTypes ==
    [PROJECT_NOT_READY |-> "ProjectNotReadyError",
     SERVICE_SHUTTING_DOWN |-> "ServiceShuttingDownError",
     PROJECT_LOAD_FAILED |-> "ProjectLoadFailedError",
     METHOD_NOT_ALLOWED |-> "MethodNotAllowedError", PROJECT_BUSY |-> "ProjectBusyError",
     EVENT_HISTORY_EXPIRED |-> "EventHistoryExpiredError",
     INVALID_REQUEST |-> "InvalidRequestError", INVALID_ENTITY_ID |-> "InvalidEntityIdError",
     NOT_FOUND |-> "NotFoundError", UNSUPPORTED_CAPABILITY |-> "UnsupportedCapabilityError",
     INCOMPLETE_ANALYSIS |-> "IncompleteAnalysisError", STALE_REVISION |-> "StaleRevisionError",
     EXTERNAL_MODIFICATION_CONFLICT |-> "ExternalModificationConflictError",
     MAPPING_MERGE_CONFLICT |-> "MappingMergeConflictError",
     RESOURCE_LIMIT |-> "ResourceLimitError", CANCELLATION_PENDING |-> "CancellationPendingError",
     INPUT_SECURITY_REJECTION |-> "InputSecurityRejectionError",
     INTERNAL_ERROR |-> "InternalServerError",
     OPERATION_NOT_IMPLEMENTED |-> "OperationNotImplementedError"]

api_error(code) == IF code \in DOMAIN ErrorTypes THEN ErrorTypes[code] ELSE "ApiError"

\* unwrap: an envelope is raised, a result of an expected model is returned, and
\* anything else - an unknown status has no model - was not in the contract.
unwrap(method, model, http, code) ==
    IF model = "ErrorEnvelope" THEN [raised |-> api_error(code), result |-> "none"]
    ELSE IF http \notin 200..299 \/ model \notin method.expects
    THEN [raised |-> "UnexpectedResponseError", result |-> "none"]
    ELSE [raised |-> "none", result |-> model]

\* RevisionCache.observe: the names it looks for, in the result or in the
\* revisions of the result; the first one that is there is taken.
FirstOnly(names, model) ==  \* bug: receipts, which have other names, are not looked at
    IF names[1] \in DOMAIN model THEN names[1] ELSE "none"
FirstOf(names, model) ==
    LET there == {i \in DOMAIN names : names[i] \in DOMAIN model}
    IN  IF there = {} THEN "none" ELSE names[CHOOSE i \in there : \A j \in there : i <= j]

observe(result) ==
    LET model == IF "revisions" \in DOMAIN Model[result] THEN RevisionSet ELSE Model[result]
        logical == FirstOf(<<"logicalRevision", "logicalRevisionAfter",
                             "afterLogicalRevision">>, model)
        index == FirstOf(<<"indexRevision", "indexRevisionAfter", "afterIndexRevision">>, model)
    IN  IF "sessionId" \notin DOMAIN model \/ logical = "none" THEN {}
        ELSE {"sessionId", logical, index} \ {"none"}
=============================================================================
