---------------------------- MODULE ClientModels ----------------------------
(***************************************************************************)
(* The Python client's generated models (libjadx/_generated/models): one    *)
(* schema per attrs class, as its attributes declare it, its from_dict      *)
(* reads it and its to_dict writes it.                                      *)
(*                                                                         *)
(* from_dict reads a key in one of three ways.  d.pop(key) keeps whatever   *)
(* arrives, so the declared type is a promise nobody checks: Plain.  A      *)
(* conversion - an enumeration, UUID, fromisoformat, a const check or    *)
(* the from_dict of a nested model - raises on anything else: Parsed.  A    *)
(* nested _parse_ function of a union with None swallows the failure and    *)
(* keeps the raw data: Union.  A key read without a default must be there;  *)
(* one read with UNSET may be absent, but a null is not an absence.  Keys   *)
(* a model does not name go to additional_properties.                       *)
(***************************************************************************)
EXTENDS WireSchema

ApiErrorCode ==
    {"CANCELLATION_PENDING", "EVENT_HISTORY_EXPIRED", "EXTERNAL_MODIFICATION_CONFLICT",
     "INCOMPLETE_ANALYSIS", "INPUT_SECURITY_REJECTION", "INTERNAL_ERROR",
     "INVALID_ENTITY_ID", "INVALID_REQUEST", "MAPPING_MERGE_CONFLICT",
     "METHOD_NOT_ALLOWED", "NOT_FOUND", "OPERATION_NOT_IMPLEMENTED", "PROJECT_BUSY",
     "PROJECT_LOAD_FAILED", "PROJECT_NOT_READY", "RESOURCE_LIMIT", "SERVICE_SHUTTING_DOWN",
     "STALE_REVISION", "UNSUPPORTED_CAPABILITY"}

JobState ==
    {"CANCELLED", "CANCELLING", "FAILED", "QUEUED", "RUNNING", "SUCCEEDED"}

Outcome ==
    {"AMBIGUOUS", "NOT_FOUND", "PROVENANCE_UNAVAILABLE", "RESOLVED"}

SymbolRefKind ==
    {"CLASS", "FIELD", "METHOD"}

DecompilationMode ==
    {"AUTO", "FALLBACK", "RESTRUCTURE", "SIMPLE"}

SourceAvailability ==
    {"EXACT", "PARTIAL", "UNAVAILABLE", "UNKNOWN"}

ReferenceRelation ==
    {"CALL", "CLASS_DEPENDENCY", "FIELD_READ", "FIELD_USE", "FIELD_WRITE",
     "UNRESOLVED_CALL"}

ReferenceEdgeEvidence ==
    {"JADX_CLASS_DEPENDENCY", "JADX_CLASS_USE_IN", "JADX_FIELD_USE_IN",
     "JADX_METHOD_UNRESOLVED_USED", "JADX_METHOD_USED", "JADX_METHOD_USE_IN",
     "LOADED_DEX_INPUT_READER"}

SearchDomain ==
    {"CLASS_NAME", "MEMBER_NAME", "SOURCE_TEXT", "STRING_LITERAL"}

ServiceState ==
    {"FAILED", "LOADING", "READY", "RELOADING", "SHUTTING_DOWN", "STARTING", "STOPPED"}

EditOperation ==
    {"RenameOperation", "RenameParameterOperation", "SetCommentOperation"}

-----------------------------------------------------------------------------
(***************************************************************************)
(* Lifecycle, capabilities and errors.                                     *)
(***************************************************************************)

Liveness ==
    [status |-> Parsed({"ALIVE"})]

ServiceStatus ==
    [state |-> Parsed(ServiceState), stage |-> Plain(Text), progress |-> Parsed({"Progress"}),
     inputs |-> ListOf(Plain(Text)), projectPath |-> Opt(OrNull(Plain(Text))),
     error |-> Opt(Union({"ApiError"}))]

Progress ==
    All({"completed", "total"}, Plain(Number)) @@
    [unit |-> Plain(Text)]

Capabilities ==
    All({"serverVersion", "jadxVersion"}, Plain(Text)) @@
    [capabilities |-> ListOf(Parsed({"Capability"}))]

Capability ==
    All({"name", "evidence", "persistence"}, Plain(Text)) @@
    [status |-> Parsed({"PARTIAL", "SUPPORTED", "UNKNOWN", "UNSUPPORTED"}),
     precision |-> Opt(Union({"APPROXIMATE", "EXACT", "UNAVAILABLE", "UNKNOWN"}))]

ErrorEnvelope ==
    [error |-> Parsed({"ApiError"})]

ApiError ==
    [code |-> Parsed(ApiErrorCode), message |-> Plain(Text), retryable |-> Opt(Plain(Flag)),
     requestId |-> Opt(OrNull(Plain(Text))), details |-> Opt(Union(Free)),
     causes |-> Opt(ListOf(Parsed({"ApiError"}))),
     itemErrors |-> Opt(ListOf(Parsed({"ItemError"})))]

ItemError ==
    All({"code", "message"}, Plain(Text)) @@
    [index |-> Plain(Number), details |-> Opt(Union(Free))]

ShutdownAccepted ==
    [state |-> Parsed({"SHUTTING_DOWN"}),
     policy |-> Parsed({"discard", "refuse_if_dirty", "save"})]

-----------------------------------------------------------------------------
(***************************************************************************)
(* The project, its revisions and its settings.                            *)
(***************************************************************************)

FixedProject ==
    [inputs |-> ListOf(Plain(Text)), dirty |-> Plain(Flag),
     revisions |-> Parsed({"RevisionSet"}), projectPath |-> Opt(OrNull(Plain(Text)))]

RevisionSet ==
    All({"logicalRevision", "indexRevision"}, Plain(Number)) @@
    [sessionId |-> Plain(Text), persistedIdentity |-> OrNull(Plain(Text)),
     persistedIdentityState |-> Parsed({"FAILED", "PENDING", "READY"})]

ProjectSettings ==
    [mappingsPath |-> OrNull(Plain(Text)), decompilationMode |-> Parsed(DecompilationMode),
     revisions |-> Parsed({"RevisionSet"})]

PendingEdits ==
    [sessionId |-> Plain(Text), logicalRevision |-> Plain(Number), dirty |-> Plain(Flag),
     codeData |-> Parsed(Free), mappingsPath |-> Opt(OrNull(Plain(Text)))]

-----------------------------------------------------------------------------
(***************************************************************************)
(* Classes and symbols.                                                    *)
(***************************************************************************)

SymbolRef ==
    All({"inputIdentity", "originalName", "originalDescriptor"}, Opt(OrNull(Plain(Text)))) @@
    [kind |-> Parsed(SymbolRefKind), originalClassDescriptor |-> Plain(Text)]

MethodSymbolRef ==
    All({"originalClassDescriptor", "originalName", "originalDescriptor"}, Plain(Text)) @@
    [kind |-> Parsed({"METHOD"}), inputIdentity |-> Opt(OrNull(Plain(Text)))]

SymbolInfo ==
    All({"originalName", "originalDescriptor"}, OrNull(Plain(Text))) @@
    All({"displayName", "displayQualifiedName"}, Plain(Text)) @@
    [ref |-> Parsed({"SymbolRef"}),
     provenance |-> Parsed({"AMBIGUOUS", "EXACT", "UNAVAILABLE"}),
     containingClass |-> Opt(Union({"SymbolRef"}))]

SymbolResolution ==
    [outcome |-> Parsed(Outcome), queriedRef |-> Parsed({"SymbolRef"}),
     sessionId |-> Parsed({"uuid"}), logicalRevision |-> Plain(Number),
     snapshotId |-> Plain(Text), candidates |-> ListOf(Parsed({"SymbolInfo"})),
     diagnostics |-> ListOf(Plain(Text)), symbol |-> Opt(Union({"SymbolInfo"}))]

ClassPage ==
    [sessionId |-> Parsed({"uuid"}), logicalRevision |-> Plain(Number),
     snapshotId |-> Plain(Text), scope |-> Parsed({"JADX_VISIBLE"}),
     sourceCoverage |-> Parsed({"UNVERIFIED"}), items |-> ListOf(Parsed({"ClassInfo"})),
     nextCursor |-> OrNull(Plain(Text)), complete |-> Plain(Flag)]

ClassInfo ==
    All({"originalDottedName", "displayName", "displayQualifiedName"}, Plain(Text)) @@
    All({"isInner", "codeAvailable"}, Plain(Flag)) @@
    [ref |-> Parsed({"SymbolRef"}),
     provenance |-> Parsed({"AMBIGUOUS", "EXACT", "UNAVAILABLE"}),
     originalParent |-> Opt(Union({"SymbolRef"}))]

-----------------------------------------------------------------------------
(***************************************************************************)
(* Loaded-DEX control flow.                                                *)
(***************************************************************************)

ControlFlowResult ==
    All({"logicalRevision", "publicationEpoch"}, Plain(Number)) @@
    All({"effectiveSettingsHash", "reason"}, Plain(Text)) @@
    [outcome |-> Parsed(Outcome), queriedRef |-> Parsed({"SymbolRef"}),
     candidates |-> ListOf(Parsed({"SymbolInfo"})), sessionId |-> Parsed({"uuid"}),
     snapshotId |-> OrNull(Plain(Text)),
     representation |-> Parsed({"LOADED_DEX_CONTROL_FLOW_FACTS_V1"}),
     unit |-> Parsed({"DEX_CODE_UNIT_16"}), base |-> Parsed({"LOADED_METHOD_INSNS_START"}),
     availability |-> Parsed({"AVAILABLE", "FAILED", "UNAVAILABLE"}),
     precision |-> Parsed({"EXACT", "UNAVAILABLE"}), coverage |-> Parsed({"PARTIAL"}),
     codeUnits |-> OrNull(Plain(Number)),
     instructions |-> ListOf(Parsed({"ControlFlowInstruction"})),
     payloads |-> ListOf(Parsed({"ControlFlowPayload"})),
     branches |-> ListOf(Parsed({"ControlFlowBranch"})),
     switches |-> ListOf(Parsed({"ControlFlowSwitch"})),
     arrayData |-> ListOf(Parsed({"ControlFlowArrayData"})),
     tries |-> ListOf(Parsed({"ControlFlowTry"})), diagnostics |-> ListOf(Plain(Text))]

ControlFlowInstruction ==
    All({"offset", "length"}, Plain(Number)) @@
    [opcode |-> Plain(Text)]

ControlFlowPayload ==
    All({"offset", "length"}, Plain(Number)) @@
    [kind |-> Parsed({"ARRAY_DATA", "PACKED_SWITCH", "SPARSE_SWITCH"})]

ControlFlowBranch ==
    All({"offset", "target", "nextOffset"}, Plain(Number)) @@
    [opcode |-> Plain(Text)]

ControlFlowSwitch ==
    All({"offset", "payloadOffset", "defaultOffset"}, Plain(Number)) @@
    [opcode |-> Plain(Text), cases |-> ListOf(Parsed({"ControlFlowCase"}))]

ControlFlowCase ==
    All({"key", "target"}, Plain(Number))

ControlFlowArrayData ==
    All({"offset", "payloadOffset"}, Plain(Number))

ControlFlowTry ==
    All({"start", "endExclusive"}, Plain(Number)) @@
    [handlers |-> ListOf(Parsed({"ControlFlowHandler"}))]

ControlFlowHandler ==
    [type |-> OrNull(Plain(Text)), target |-> Plain(Number)]

-----------------------------------------------------------------------------
(***************************************************************************)
(* Java source.                                                            *)
(***************************************************************************)

DecompileResult ==
    All({"sourceSnapshotId", "source", "methodSource"}, OrNull(Plain(Text))) @@
    All({"rawDebugLines", "classErrorCount"}, OrNull(Plain({}))) @@
    [outcome |-> Parsed(Outcome), queriedRef |-> Parsed({"SymbolRef"}),
     sourceOwnerRef |-> Union({"SymbolRef"}), candidates |-> ListOf(Parsed({"SymbolInfo"})),
     sessionId |-> Parsed({"uuid"}), logicalRevision |-> Plain(Number),
     effectiveSettings |-> Parsed({"EffectiveSourceSettings"}),
     status |-> Parsed({"COMPLETE", "PARTIAL", "UNAVAILABLE"}),
     representation |-> Parsed({"JAVA", "SMALI"}), methodRangeAvailable |-> OrNull(Plain(Flag)),
     methodRange |-> Union({"SourceRange"}),
     annotations |-> ListOf(Parsed({"SourceAnnotation"})),
     variables |-> ListOf(Parsed({"SourceVariable"})), diagnostics |-> ListOf(Plain(Text)),
     capabilities |-> Parsed({"SourceCapabilities"})]

EffectiveSourceSettings ==
    [decompilationMode |-> Parsed(DecompilationMode), fingerprint |-> Plain(Text)]

SourceAnnotation ==
    [kind |-> Parsed({"DECLARATION", "REFERENCE"}), position |-> Parsed({"SourcePoint"}),
     targetRef |-> Parsed({"SymbolRef"}), precision |-> Parsed({"EXACT"}),
     sourceSnapshotId |-> Plain(Text)]

SourcePoint ==
    All({"offsetUtf16", "line", "columnCodePoints"}, Plain(Number))

SourceRange ==
    All({"startOffsetUtf16", "endOffsetUtf16"}, Plain(Number)) @@
    All({"start", "end"}, Parsed({"SourcePoint"})) @@
    [sourceSnapshotId |-> Plain(Text)]

SourceVariable ==
    All({"displayName", "sourceSnapshotId"}, Plain(Text)) @@
    [kind |-> Parsed({"LOCAL", "PARAMETER"}), method |-> Parsed({"MethodSymbolRef"}),
     parameterIndex |-> OrNull(Plain(Number)), range |-> Parsed({"SourceRange"}),
     persistability |-> Parsed({"SUPPORTED", "UNSUPPORTED"})]

SourceCapabilities ==
    All({"source", "declarationPositions", "referenceTargets", "methodRange", "rawDebugLines",
         "originalBytecodeOffsets", "classErrors"}, Parsed(SourceAvailability))

-----------------------------------------------------------------------------
(***************************************************************************)
(* References.                                                             *)
(***************************************************************************)

ReferencePage ==
    All({"snapshotId", "nextCursor"}, OrNull(Plain(Text))) @@
    [outcome |-> Parsed(Outcome), queriedRef |-> Parsed({"SymbolRef"}),
     direction |-> Parsed({"INCOMING", "OUTGOING"}),
     candidates |-> ListOf(Parsed({"SymbolInfo"})), sessionId |-> Parsed({"uuid"}),
     logicalRevision |-> Plain(Number),
     scope |-> Parsed({"JADX_REPORTED", "LOADED_DEX_METHOD"}),
     coverage |-> Parsed({"ReferencePageCoverage"}),
     edges |-> ListOf(Parsed({"ReferenceEdge"})), pageComplete |-> Plain(Flag),
     capabilities |-> Parsed({"ReferenceCapabilities"}), diagnostics |-> ListOf(Plain(Text)),
     instructionScan |-> Opt(Union({"ReferenceInstructionScan"}))]

ReferencePageCoverage ==
    [status |-> Parsed({"PARTIAL"}), reason |-> Plain(Text)]

ReferenceCapabilities ==
    All({"resolvedTarget", "sourceLocation"}, Parsed(SourceAvailability)) @@
    [originalOffset |-> Parsed({"UNAVAILABLE"}), referenceKind |-> Parsed({"PARTIAL"}),
     globalCoverage |-> Parsed({"UNKNOWN"}), loadedDexOffset |-> Opt(Union(SourceAvailability))]

ReferenceInstructionScan ==
    [availability |-> Parsed({"AVAILABLE", "FAILED", "UNAVAILABLE"}), reason |-> Plain(Text),
     excludedOpcodes |-> ListOf(Plain(Text))]

ReferenceEdge ==
    All({"sourceRef", "targetRef"}, Parsed({"SymbolRef"})) @@
    [relation |-> Parsed(ReferenceRelation),
     resolution |-> Parsed({"OBSERVED", "RESOLVED", "UNRESOLVED"}),
     evidence |-> Parsed(ReferenceEdgeEvidence),
     sourceSites |-> ListOf(Parsed({"ReferenceSite"})),
     sourceSiteCoverage |-> Parsed({"PARTIAL", "UNAVAILABLE"}),
     originalOffset |-> OrNull(Plain({})), instruction |-> Opt(Union({"ReferenceInstruction"}))]

ReferenceSite ==
    [sourceOwnerRef |-> Parsed({"SymbolRef"}), sourceSnapshotId |-> Plain(Text),
     position |-> Parsed({"SourcePoint"}), precision |-> Parsed({"EXACT"})]

ReferenceInstruction ==
    [offsetCodeUnits |-> Plain(Number), unit |-> Parsed({"DEX_CODE_UNIT_16"}),
     base |-> Parsed({"LOADED_METHOD_INSNS_START"}), precision |-> Parsed({"EXACT"}),
     opcode |-> Plain(Text)]

-----------------------------------------------------------------------------
(***************************************************************************)
(* Search and jobs.                                                        *)
(***************************************************************************)

SearchPage ==
    All({"sessionId", "settingsFingerprint", "indexSnapshotId", "resultSnapshotId"}, Plain(Text)) @@
    All({"logicalRevision", "indexGeneration"}, Plain(Number)) @@
    [coverage |-> ListOf(Parsed({"SearchCoverage"})), hits |-> ListOf(Parsed({"SearchHit"})),
     nextCursor |-> OrNull(Plain(Text)), pageComplete |-> Plain(Flag),
     diagnostics |-> ListOf(Plain(Text))]

SearchCoverage ==
    All({"eligible", "indexed", "pending", "skipped", "failed", "evicted"}, Plain(Number)) @@
    [domain |-> Parsed(SearchDomain), availability |-> Parsed({"SUPPORTED", "UNSUPPORTED"}),
     state |-> Parsed({"COMPLETE", "PARTIAL", "UNAVAILABLE"}),
     scope |-> Parsed({"JADX_VISIBLE_ELIGIBLE"}),
     sourceInputCoverage |-> Parsed({"UNVERIFIED"}), diagnostics |-> ListOf(Plain(Text))]

SearchHit ==
    All({"ref", "sourceOwnerRef"}, Union({"SymbolRef"})) @@
    All({"displayName", "sourceSnapshotId"}, OrNull(Plain(Text))) @@
    [domain |-> Parsed(SearchDomain), matchedText |-> Plain(Text),
     matchMode |-> Parsed({"CONTAINS", "EXACT", "REGEX"}), range |-> Union({"SourceRange"})]

SearchIndexStatus ==
    All({"sessionId", "settingsFingerprint", "indexSnapshotId"}, Plain(Text)) @@
    All({"logicalRevision", "indexGeneration"}, Plain(Number)) @@
    [coverage |-> ListOf(Parsed({"SearchCoverage"}))]

Job ==
    All({"type", "sessionId", "sourceSnapshotId"}, Plain(Text)) @@
    All({"startedAt", "completedAt", "deadlineAt"}, Union({"instant"})) @@
    [jobId |-> Parsed({"uuid"}), state |-> Parsed(JobState), createdAt |-> Parsed({"instant"}),
     logicalRevision |-> Plain(Number), progress |-> Parsed({"JobProgress"}),
     result |-> Union(Free), completeness |-> Union({"COMPLETE", "PARTIAL"}),
     error |-> Union({"ApiError"}), diagnostics |-> ListOf(Plain(Text)),
     cancellationReason |-> Union({"DEADLINE", "SHUTDOWN", "USER"})]

JobProgress ==
    [completed |-> Plain(Number), total |-> OrNull(Plain(Number)), stage |-> Plain(Text)]

JobEvent ==
    [jobId |-> Parsed({"uuid"}), sequence |-> Plain(Number),
     type |-> Parsed({"job.cancel_requested", "job.cancelled", "job.completed", "job.failed",
                      "job.progress", "job.queued", "job.started"}),
     at |-> Parsed({"instant"}), state |-> Parsed(JobState), progress |-> Parsed({"JobProgress"}),
     resultUrl |-> Plain(Text)]

-----------------------------------------------------------------------------
(***************************************************************************)
(* Edits and mappings.                                                     *)
(***************************************************************************)

EditBatchResult ==
    All({"logicalRevisionBefore", "logicalRevisionAfter", "indexRevisionAfter"}, Plain(Number)) @@
    [outcome |-> Parsed({"APPLIED", "NO_CHANGE", "PARTIAL"}), sessionId |-> Plain(Text),
     dirty |-> Plain(Flag), saved |-> Parsed({"false"}),
     items |-> ListOf(Parsed({"EditItemResult"})), diagnostics |-> ListOf(Plain(Text))]

EditItemResult ==
    [index |-> Plain(Number), status |-> Parsed({"APPLIED", "FAILED", "SKIPPED"}),
     kind |-> Parsed({"RENAME", "RENAME_PARAMETER", "SET_COMMENT"}),
     target |-> Parsed({"SymbolRef"}), affectedRefs |-> ListOf(Parsed({"SymbolRef"})),
     message |-> OrNull(Plain(Text)), parameterIndex |-> Opt(OrNull(Plain(Number))),
     sourceSnapshotId |-> Opt(OrNull(Plain(Text)))]

MappingExportReceipt ==
    All({"targetPath", "sha256"}, Plain(Text)) @@
    All({"logicalRevision", "bytes"}, Plain(Number)) @@
    [format |-> Parsed({"TINY_V2"}), sessionId |-> Parsed({"uuid"}),
     source |-> Parsed({"CURRENT_IN_MEMORY_WITH_ATTACHED_MAPPINGS"}),
     completeness |-> Parsed({"VERIFIED_DECLARATIONS"}),
     exported |-> Parsed({"MappingExportCounts"}), omissions |-> ListOf(Parsed(Free)),
     projectMutated |-> Plain(Flag)]

MappingExportCounts ==
    All({"classes", "methods", "fields", "comments"}, Plain(Number))

MappingImportReceipt ==
    All({"sourcePath", "sha256"}, Plain(Text)) @@
    All({"bytes", "beforeLogicalRevision", "afterLogicalRevision", "beforeIndexRevision",
         "afterIndexRevision"}, Plain(Number)) @@
    All({"applied", "unchanged"}, Parsed({"MappingImportEditCounts"})) @@
    All({"dirty", "saved", "mappingAttached"}, Plain(Flag)) @@
    [format |-> Parsed({"TINY_V2"}), mode |-> Parsed({"MERGE_FAIL_ON_CONFLICT"}),
     parsed |-> Parsed({"MappingExportCounts"}), sessionId |-> Parsed({"uuid"}),
     outcome |-> Parsed({"APPLIED", "NO_CHANGE"}), omissions |-> ListOf(Parsed(Free))]

MappingImportEditCounts ==
    All({"aliases", "comments"}, Plain(Number))

-----------------------------------------------------------------------------
(***************************************************************************)
(* Request bodies, as to_dict writes them.                                 *)
(***************************************************************************)

ShutdownRequest ==
    [policy |-> Opt(Parsed({"discard", "refuse_if_dirty", "save"}))]

SaveProjectRequest ==
    [targetPath |-> Opt(Plain(Text)), expectedLogicalRevision |-> Opt(Plain(Number)),
     expectedSessionId |-> Opt(Parsed({"uuid"}))]

ReloadProjectRequest ==
    [discardUnsaved |-> Plain(Flag), expectedSessionId |-> Parsed({"uuid"}),
     expectedLogicalRevision |-> Plain(Number)]

UpdateProjectSettingsRequest ==
    [mappingsPath |-> OrNull(Plain(Text)), expectedLogicalRevision |-> Plain(Number),
     expectedSessionId |-> Parsed({"uuid"})]

MappingExportRequest ==
    [targetPath |-> Plain(Text), format |-> Parsed({"TINY_V2"}),
     expectedSessionId |-> Parsed({"uuid"}), expectedLogicalRevision |-> Plain(Number)]

MappingImportRequest ==
    [sourcePath |-> Plain(Text), format |-> Parsed({"TINY_V2"}),
     mode |-> Parsed({"MERGE_FAIL_ON_CONFLICT"}), expectedSessionId |-> Parsed({"uuid"}),
     expectedLogicalRevision |-> Plain(Number)]

EditBatchRequest ==
    [items |-> ListOf(Parsed(EditOperation)), expectedSessionId |-> Opt(Parsed({"uuid"})),
     expectedLogicalRevision |-> Opt(Plain(Number))]

RenameOperation ==
    [kind |-> Parsed({"RENAME"}), target |-> Parsed({"SymbolRef"}), newName |-> Plain(Text),
     propagateRelated |-> Opt(Plain(Flag))]

SetCommentOperation ==
    [kind |-> Parsed({"SET_COMMENT"}), target |-> Parsed({"SymbolRef"}),
     comment |-> Plain(Text), style |-> Parsed({"LINE"})]

RenameParameterOperation ==
    All({"sourceSnapshotId", "newName"}, Plain(Text)) @@
    [kind |-> Parsed({"RENAME_PARAMETER"}), method |-> Parsed({"MethodSymbolRef"}),
     parameterIndex |-> Plain(Number)]

SymbolResolveRequest ==
    [ref |-> Parsed({"SymbolRef"}), expectedSessionId |-> Opt(Parsed({"uuid"})),
     expectedLogicalRevision |-> Opt(Plain(Number))]

ControlFlowRequest ==
    [ref |-> Parsed({"MethodSymbolRef"}), strict |-> Opt(Plain(Flag)),
     expectedSessionId |-> Opt(Parsed({"uuid"})),
     expectedLogicalRevision |-> Opt(Plain(Number))]

DecompileRequest ==
    All({"representation", "expectedSourceSnapshotId"}, Opt(Plain(Text))) @@
    All({"includeAnnotations", "includeRawDebugLines", "strict"}, Opt(Plain(Flag))) @@
    [ref |-> Parsed({"SymbolRef"}), decompilationMode |-> Opt(Parsed(DecompilationMode)),
     expectedSessionId |-> Opt(Parsed({"uuid"})),
     expectedLogicalRevision |-> Opt(Plain(Number))]

ReferenceQuery ==
    All({"pageSize", "expectedLogicalRevision"}, Opt(Plain(Number))) @@
    All({"includeSourceSites", "strict"}, Opt(Plain(Flag))) @@
    [ref |-> Parsed({"SymbolRef"}), direction |-> Parsed({"INCOMING", "OUTGOING"}),
     view |-> Opt(Parsed({"INSTRUCTIONS", "PAIRS"})),
     relations |-> Opt(ListOf(Parsed(ReferenceRelation))), cursor |-> Opt(OrNull(Plain(Text))),
     expectedSessionId |-> Opt(Parsed({"uuid"}))]

SearchRequest ==
    All({"caseSensitive", "strict", "requireComplete"}, Opt(Plain(Flag))) @@
    All({"cursor", "expectedSessionId"}, Opt(OrNull(Plain(Text)))) @@
    [query |-> Plain(Text), domains |-> Opt(ListOf(Parsed(SearchDomain))),
     matchMode |-> Opt(Parsed({"CONTAINS", "EXACT", "REGEX"})), pageSize |-> Opt(Plain(Number)),
     expectedLogicalRevision |-> Opt(OrNull(Plain(Number)))]

SearchBuildRequest ==
    [domains |-> Opt(ListOf(Parsed(SearchDomain))), force |-> Opt(Plain(Flag))]

-----------------------------------------------------------------------------
(***************************************************************************)
(* The models by name: a nested model is a name among a field's values.     *)
(***************************************************************************)

Model ==
    [Liveness |-> Liveness, ServiceStatus |-> ServiceStatus, Progress |-> Progress,
     Capabilities |-> Capabilities, Capability |-> Capability, ErrorEnvelope |-> ErrorEnvelope,
     ApiError |-> ApiError, ItemError |-> ItemError, ShutdownAccepted |-> ShutdownAccepted,
     FixedProject |-> FixedProject, RevisionSet |-> RevisionSet,
     ProjectSettings |-> ProjectSettings, PendingEdits |-> PendingEdits,
     SymbolRef |-> SymbolRef, MethodSymbolRef |-> MethodSymbolRef, SymbolInfo |-> SymbolInfo,
     SymbolResolution |-> SymbolResolution, ClassPage |-> ClassPage, ClassInfo |-> ClassInfo,
     ControlFlowResult |-> ControlFlowResult, ControlFlowInstruction |-> ControlFlowInstruction,
     ControlFlowPayload |-> ControlFlowPayload, ControlFlowBranch |-> ControlFlowBranch,
     ControlFlowSwitch |-> ControlFlowSwitch, ControlFlowCase |-> ControlFlowCase,
     ControlFlowArrayData |-> ControlFlowArrayData, ControlFlowTry |-> ControlFlowTry,
     ControlFlowHandler |-> ControlFlowHandler, DecompileResult |-> DecompileResult,
     EffectiveSourceSettings |-> EffectiveSourceSettings, SourceAnnotation |-> SourceAnnotation,
     SourcePoint |-> SourcePoint, SourceRange |-> SourceRange,
     SourceVariable |-> SourceVariable, SourceCapabilities |-> SourceCapabilities,
     ReferencePage |-> ReferencePage, ReferencePageCoverage |-> ReferencePageCoverage,
     ReferenceCapabilities |-> ReferenceCapabilities,
     ReferenceInstructionScan |-> ReferenceInstructionScan, ReferenceEdge |-> ReferenceEdge,
     ReferenceSite |-> ReferenceSite, ReferenceInstruction |-> ReferenceInstruction,
     SearchPage |-> SearchPage, SearchCoverage |-> SearchCoverage, SearchHit |-> SearchHit,
     SearchIndexStatus |-> SearchIndexStatus, Job |-> Job, JobProgress |-> JobProgress, JobEvent |-> JobEvent,
     EditBatchResult |-> EditBatchResult, EditItemResult |-> EditItemResult,
     MappingExportReceipt |-> MappingExportReceipt, MappingExportCounts |-> MappingExportCounts,
     MappingImportReceipt |-> MappingImportReceipt,
     MappingImportEditCounts |-> MappingImportEditCounts, ShutdownRequest |-> ShutdownRequest,
     SaveProjectRequest |-> SaveProjectRequest, ReloadProjectRequest |-> ReloadProjectRequest,
     UpdateProjectSettingsRequest |-> UpdateProjectSettingsRequest,
     MappingExportRequest |-> MappingExportRequest,
     MappingImportRequest |-> MappingImportRequest, EditBatchRequest |-> EditBatchRequest,
     RenameOperation |-> RenameOperation, SetCommentOperation |-> SetCommentOperation,
     RenameParameterOperation |-> RenameParameterOperation,
     SymbolResolveRequest |-> SymbolResolveRequest, ControlFlowRequest |-> ControlFlowRequest,
     DecompileRequest |-> DecompileRequest, ReferenceQuery |-> ReferenceQuery,
     SearchRequest |-> SearchRequest, SearchBuildRequest |-> SearchBuildRequest]
=============================================================================
