----------------------------- MODULE ServerDtos -----------------------------
(***************************************************************************)
(* The JSON the Java service writes: one schema per record that Jackson     *)
(* serializes.  The ObjectMapper is the default one, so every component of  *)
(* a record is a key of its object, and a null component is written as      *)
(* null: nothing here is optional.  What a component may be is read from    *)
(* the constructor calls of the service that fills it.                      *)
(***************************************************************************)
EXTENDS WireSchema

AnyRef == {"ClassRef", "MethodRef", "FieldRef"}
Resolutions == {"RESOLVED", "NOT_FOUND", "AMBIGUOUS", "PROVENANCE_UNAVAILABLE"}
Availabilities == {"EXACT", "PARTIAL", "UNKNOWN", "UNAVAILABLE"}
Modes == {"AUTO", "RESTRUCTURE", "SIMPLE", "FALLBACK"}
Domains == {"CLASS_NAME", "MEMBER_NAME", "SOURCE_TEXT"}

-----------------------------------------------------------------------------
(***************************************************************************)
(* Lifecycle, capabilities and errors (StatusServlet, RuntimeStatus).       *)
(***************************************************************************)

HealthResponse == [status |-> Plain({"ALIVE"})]

StatusResponse ==
    [state |-> Plain({"LOADING", "READY", "RELOADING", "FAILED", "SHUTTING_DOWN", "STOPPED"}),
     stage |-> Plain(Text), progress |-> Plain({"RuntimeProgress"}),
     projectPath |-> OrNull(Plain(Text)), inputs |-> ListOf(Plain(Text)),
     error |-> OrNull(Plain({"RuntimeError"}))]

RuntimeProgress == All({"completed", "total"}, Plain(Number)) @@ [unit |-> Plain(Text)]

RuntimeError ==
    [code |-> Plain({"PROJECT_LOAD_FAILED", "INTERNAL_ERROR"}), message |-> Plain(Text),
     requestId |-> OrNull(Plain({}))]

CapabilitiesResponse ==
    All({"serverVersion", "jadxVersion"}, Plain(Text)) @@
    [capabilities |-> ListOf(Plain({"CapabilityRow"}))]

CapabilityRow ==
    All({"name", "evidence", "persistence"}, Plain(Text)) @@
    [status |-> Plain({"SUPPORTED", "PARTIAL", "UNKNOWN", "UNSUPPORTED"})]

ErrorEnvelope == [error |-> Plain({"ErrorBody"})]

\* The code is the one its handler chose; details is a map, a record or null.
ErrorBody ==
    [code |-> Plain({"PROJECT_NOT_READY", "PROJECT_LOAD_FAILED", "SERVICE_SHUTTING_DOWN",
                     "PROJECT_BUSY", "EVENT_HISTORY_EXPIRED", "INVALID_REQUEST",
                     "INVALID_ENTITY_ID", "NOT_FOUND", "METHOD_NOT_ALLOWED",
                     "UNSUPPORTED_CAPABILITY", "INCOMPLETE_ANALYSIS", "STALE_REVISION",
                     "EXTERNAL_MODIFICATION_CONFLICT", "MAPPING_MERGE_CONFLICT",
                     "RESOURCE_LIMIT", "INPUT_SECURITY_REJECTION", "INTERNAL_ERROR"}),
     message |-> Plain(Text), retryable |-> Plain(Flag), requestId |-> Plain(Text),
     details |-> OrNull(Plain(Free))]

ShutdownAccepted ==
    [state |-> Plain({"SHUTTING_DOWN"}), policy |-> Plain({"discard", "refuse_if_dirty", "save"})]

-----------------------------------------------------------------------------
(***************************************************************************)
(* The project, its revisions and its settings.                            *)
(***************************************************************************)

FixedProjectResponse ==
    [projectPath |-> OrNull(Plain(Text)), inputs |-> ListOf(Plain(Text)), dirty |-> Plain(Flag),
     revisions |-> Plain({"RevisionState"})]

\* The fingerprint of the saved project is taken after publication: until then
\* there is no identity.
RevisionState ==
    All({"logicalRevision", "indexRevision"}, Plain(Number)) @@
    [sessionId |-> Plain({"uuid"}), persistedIdentity |-> OrNull(Plain(Text)),
     persistedIdentityState |-> Plain({"PENDING", "READY", "FAILED"})]

ProjectSettingsResponse ==
    [mappingsPath |-> OrNull(Plain(Text)), decompilationMode |-> Plain(Modes),
     revisions |-> Plain({"RevisionState"})]

PendingEdits ==
    [sessionId |-> Plain({"uuid"}), logicalRevision |-> Plain(Number), dirty |-> Plain(Flag),
     mappingsPath |-> OrNull(Plain(Text)), codeData |-> Plain(Free)]

-----------------------------------------------------------------------------
(***************************************************************************)
(* Symbols.  A SymbolRef is one record; its constructor requires a name and *)
(* a descriptor of a member, and refuses them for a class.                  *)
(***************************************************************************)

ClassRef ==
    All({"originalName", "originalDescriptor"}, Plain({"null"})) @@
    [kind |-> Plain({"CLASS"}), originalClassDescriptor |-> Plain(Text),
     inputIdentity |-> OrNull(Plain(Text))]

MemberRef(kind) ==
    All({"originalClassDescriptor", "originalName", "originalDescriptor"}, Plain(Text)) @@
    [kind |-> Plain({kind}), inputIdentity |-> OrNull(Plain(Text))]

SymbolInfo ==
    All({"originalName", "originalDescriptor"}, OrNull(Plain(Text))) @@
    All({"displayName", "displayQualifiedName"}, Plain(Text)) @@
    [ref |-> Plain(AnyRef), containingClass |-> OrNull(Plain({"ClassRef"})),
     provenance |-> Plain({"EXACT", "AMBIGUOUS", "UNAVAILABLE"})]

SymbolResolution ==
    [outcome |-> Plain(Resolutions), queriedRef |-> Plain(AnyRef), sessionId |-> Plain({"uuid"}),
     logicalRevision |-> Plain(Number), snapshotId |-> Plain(Text),
     symbol |-> OrNull(Plain({"SymbolInfo"})), candidates |-> ListOf(Plain({"SymbolInfo"})),
     diagnostics |-> ListOf(Plain(Text))]

ClassInfo ==
    All({"originalDottedName", "displayName", "displayQualifiedName"}, Plain(Text)) @@
    All({"isInner", "codeAvailable"}, Plain(Flag)) @@
    [ref |-> Plain({"ClassRef"}), originalParent |-> OrNull(Plain({"ClassRef"})),
     provenance |-> Plain({"EXACT", "AMBIGUOUS", "UNAVAILABLE"})]

ClassPage ==
    [sessionId |-> Plain({"uuid"}), logicalRevision |-> Plain(Number), snapshotId |-> Plain(Text),
     scope |-> Plain({"JADX_VISIBLE"}), sourceCoverage |-> Plain({"UNVERIFIED"}),
     items |-> ListOf(Plain({"ClassInfo"})), nextCursor |-> OrNull(Plain(Text)),
     complete |-> Plain(Flag)]

-----------------------------------------------------------------------------
(***************************************************************************)
(* Java source: what an unresolved symbol has none of is null.              *)
(***************************************************************************)

Point == All({"offsetUtf16", "line", "columnCodePoints"}, Plain(Number))

Range ==
    All({"startOffsetUtf16", "endOffsetUtf16"}, Plain(Number)) @@
    All({"start", "end"}, Plain({"Point"})) @@ [sourceSnapshotId |-> Plain(Text)]

DecompileResult ==
    All({"sourceSnapshotId", "source", "methodSource"}, OrNull(Plain(Text))) @@
    All({"rawDebugLines", "classErrorCount"}, Plain({"null"})) @@
    [outcome |-> Plain(Resolutions), queriedRef |-> Plain({"ClassRef", "MethodRef"}),
     sourceOwnerRef |-> OrNull(Plain({"ClassRef"})), candidates |-> ListOf(Plain({"SymbolInfo"})),
     sessionId |-> Plain({"uuid"}), logicalRevision |-> Plain(Number),
     effectiveSettings |-> Plain({"EffectiveSettings"}),
     status |-> Plain({"COMPLETE", "PARTIAL", "UNAVAILABLE"}),
     representation |-> Plain({"JAVA", "SMALI"}), methodRangeAvailable |-> OrNull(Plain(Flag)),
     methodRange |-> OrNull(Plain({"Range"})), annotations |-> ListOf(Plain({"Annotation"})),
     variables |-> ListOf(Plain({"Variable"})), diagnostics |-> ListOf(Plain(Text)),
     capabilities |-> Plain({"SourceCapabilities"})]

EffectiveSettings == [decompilationMode |-> Plain(Modes), fingerprint |-> Plain(Text)]

Annotation ==
    [kind |-> Plain({"DECLARATION", "REFERENCE"}), position |-> Plain({"Point"}),
     targetRef |-> Plain(AnyRef), precision |-> Plain({"EXACT"}), sourceSnapshotId |-> Plain(Text)]

Variable ==
    All({"displayName", "sourceSnapshotId"}, Plain(Text)) @@
    [kind |-> Plain({"PARAMETER", "LOCAL"}), method |-> Plain({"MethodRef"}),
     parameterIndex |-> OrNull(Plain(Number)), range |-> Plain({"Range"}),
     persistability |-> Plain({"SUPPORTED", "UNSUPPORTED"})]

SourceCapabilities ==
    All({"source", "declarationPositions", "referenceTargets", "methodRange", "rawDebugLines",
         "originalBytecodeOffsets", "classErrors"}, Plain(Availabilities))

-----------------------------------------------------------------------------
(***************************************************************************)
(* Loaded-DEX control flow.                                                *)
(***************************************************************************)

ControlFlowFacts ==
    All({"logicalRevision", "publicationEpoch"}, Plain(Number)) @@
    All({"effectiveSettingsHash", "reason"}, Plain(Text)) @@
    [outcome |-> Plain(Resolutions), queriedRef |-> Plain({"MethodRef"}),
     candidates |-> ListOf(Plain({"SymbolInfo"})), sessionId |-> Plain({"uuid"}),
     snapshotId |-> OrNull(Plain(Text)),
     representation |-> Plain({"LOADED_DEX_CONTROL_FLOW_FACTS_V1"}),
     unit |-> Plain({"DEX_CODE_UNIT_16"}), base |-> Plain({"LOADED_METHOD_INSNS_START"}),
     availability |-> Plain({"AVAILABLE", "UNAVAILABLE", "FAILED"}),
     precision |-> Plain({"EXACT", "UNAVAILABLE"}), coverage |-> Plain({"PARTIAL"}),
     codeUnits |-> OrNull(Plain(Number)), instructions |-> ListOf(Plain({"FlowInstruction"})),
     payloads |-> ListOf(Plain({"Payload"})), branches |-> ListOf(Plain({"Branch"})),
     switches |-> ListOf(Plain({"Switch"})), arrayData |-> ListOf(Plain({"ArrayData"})),
     tries |-> ListOf(Plain({"Try"})), diagnostics |-> ListOf(Plain(Text))]

FlowInstruction == All({"offset", "length"}, Plain(Number)) @@ [opcode |-> Plain(Text)]

Payload ==
    All({"offset", "length"}, Plain(Number)) @@
    [kind |-> Plain({"PACKED_SWITCH", "SPARSE_SWITCH", "ARRAY_DATA"})]

Branch == All({"offset", "target", "nextOffset"}, Plain(Number)) @@ [opcode |-> Plain(Text)]

Switch ==
    All({"offset", "payloadOffset", "defaultOffset"}, Plain(Number)) @@
    [opcode |-> Plain(Text), cases |-> ListOf(Plain({"Case"}))]

Case == All({"key", "target"}, Plain(Number))
ArrayData == All({"offset", "payloadOffset"}, Plain(Number))
Try == All({"start", "endExclusive"}, Plain(Number)) @@ [handlers |-> ListOf(Plain({"Handler"}))]

\* A catch-all handler has no type.
Handler == [type |-> OrNull(Plain(Text)), target |-> Plain(Number)]

-----------------------------------------------------------------------------
(***************************************************************************)
(* References.                                                             *)
(***************************************************************************)

ReferencePage ==
    All({"snapshotId", "nextCursor"}, OrNull(Plain(Text))) @@
    [outcome |-> Plain(Resolutions), queriedRef |-> Plain(AnyRef),
     direction |-> Plain({"INCOMING", "OUTGOING"}), candidates |-> ListOf(Plain({"SymbolInfo"})),
     sessionId |-> Plain({"uuid"}), logicalRevision |-> Plain(Number),
     scope |-> Plain({"JADX_REPORTED", "LOADED_DEX_METHOD"}),
     coverage |-> Plain({"ReferenceCoverage"}), edges |-> ListOf(Plain({"ReferenceEdge"})),
     pageComplete |-> Plain(Flag), capabilities |-> Plain({"ReferenceCapabilities"}),
     diagnostics |-> ListOf(Plain(Text)), instructionScan |-> OrNull(Plain({"InstructionScan"}))]

ReferenceCoverage == [status |-> Plain({"PARTIAL"}), reason |-> Plain(Text)]

ReferenceCapabilities ==
    All({"resolvedTarget", "sourceLocation"}, Plain({"PARTIAL", "UNAVAILABLE"})) @@
    [originalOffset |-> Plain({"UNAVAILABLE"}), referenceKind |-> Plain({"PARTIAL"}),
     globalCoverage |-> Plain({"UNKNOWN"}),
     loadedDexOffset |-> OrNull(Plain({"EXACT", "UNAVAILABLE"}))]

InstructionScan ==
    [availability |-> Plain({"AVAILABLE", "UNAVAILABLE", "FAILED"}), reason |-> Plain(Text),
     excludedOpcodes |-> ListOf(Plain(Text))]

ReferenceEdge ==
    All({"sourceRef", "targetRef"}, Plain(AnyRef)) @@
    [relation |-> Plain({"CALL", "UNRESOLVED_CALL", "FIELD_USE", "CLASS_DEPENDENCY", "FIELD_READ",
                         "FIELD_WRITE"}),
     resolution |-> Plain({"RESOLVED", "UNRESOLVED", "OBSERVED"}),
     evidence |-> Plain({"JADX_METHOD_USED", "JADX_METHOD_USE_IN", "JADX_METHOD_UNRESOLVED_USED",
                         "JADX_FIELD_USE_IN", "JADX_CLASS_USE_IN", "JADX_CLASS_DEPENDENCY",
                         "LOADED_DEX_INPUT_READER"}),
     sourceSites |-> ListOf(Plain({"Site"})),
     sourceSiteCoverage |-> Plain({"PARTIAL", "UNAVAILABLE"}), originalOffset |-> Plain({"null"}),
     instruction |-> OrNull(Plain({"EdgeInstruction"}))]

Site ==
    [sourceOwnerRef |-> Plain({"ClassRef"}), sourceSnapshotId |-> Plain(Text),
     position |-> Plain({"Point"}), precision |-> Plain({"EXACT"})]

EdgeInstruction ==
    [offsetCodeUnits |-> Plain(Number), unit |-> Plain({"DEX_CODE_UNIT_16"}),
     base |-> Plain({"LOADED_METHOD_INSNS_START"}), precision |-> Plain({"EXACT"}),
     opcode |-> Plain(Text)]

-----------------------------------------------------------------------------
(***************************************************************************)
(* Search and jobs.                                                        *)
(***************************************************************************)

IndexStatus ==
    All({"settingsFingerprint", "indexSnapshotId"}, Plain(Text)) @@
    All({"logicalRevision", "indexGeneration"}, Plain(Number)) @@
    [sessionId |-> Plain({"uuid"}), coverage |-> ListOf(Plain({"Coverage"}))]

Page ==
    IndexStatus @@
    [resultSnapshotId |-> Plain(Text), hits |-> ListOf(Plain({"Hit"})),
     nextCursor |-> OrNull(Plain(Text)), pageComplete |-> Plain(Flag),
     diagnostics |-> ListOf(Plain(Text))]

Coverage ==
    All({"eligible", "indexed", "pending", "skipped", "failed", "evicted"}, Plain(Number)) @@
    [domain |-> Plain(Domains), availability |-> Plain({"SUPPORTED"}),
     state |-> Plain({"COMPLETE", "PARTIAL"}), scope |-> Plain({"JADX_VISIBLE_ELIGIBLE"}),
     sourceInputCoverage |-> Plain({"UNVERIFIED"}), diagnostics |-> ListOf(Plain(Text))]

\* A hit in source has no symbol; a hit in a name has no range.
Hit ==
    All({"displayName", "sourceSnapshotId"}, OrNull(Plain(Text))) @@
    [domain |-> Plain(Domains), ref |-> OrNull(Plain(AnyRef)),
     sourceOwnerRef |-> OrNull(Plain({"ClassRef"})), matchedText |-> Plain(Text),
     matchMode |-> Plain({"EXACT", "CONTAINS", "REGEX"}), range |-> OrNull(Plain({"Range"}))]

JobResponse ==
    All({"startedAt", "completedAt", "deadlineAt"}, OrNull(Plain({"instant"}))) @@
    All({"type", "sourceSnapshotId"}, Plain(Text)) @@
    [jobId |-> Plain({"uuid"}),
     state |-> Plain({"QUEUED", "RUNNING", "CANCELLING", "SUCCEEDED", "FAILED", "CANCELLED"}),
     createdAt |-> Plain({"instant"}), sessionId |-> Plain({"uuid"}),
     logicalRevision |-> Plain(Number), progress |-> Plain({"JobProgress"}),
     result |-> OrNull(Plain(Free)), completeness |-> OrNull(Plain({"COMPLETE", "PARTIAL"})),
     error |-> OrNull(Plain({"JobError"})), diagnostics |-> ListOf(Plain(Text)),
     cancellationReason |-> OrNull(Plain({"USER", "DEADLINE", "SHUTDOWN"}))]

JobProgress ==
    [completed |-> Plain(Number), total |-> OrNull(Plain(Number)), stage |-> Plain(Text)]

\* The data of an event frame: emitLocked fills the map, the handler adds nothing.
EventData ==
    [jobId |-> Plain({"uuid"}), sequence |-> Plain(Number),
     type |-> Plain({"job.queued", "job.started", "job.progress", "job.cancel_requested",
                     "job.completed", "job.failed", "job.cancelled"}),
     at |-> Plain({"instant"}),
     state |-> Plain({"QUEUED", "RUNNING", "CANCELLING", "SUCCEEDED", "FAILED", "CANCELLED"}),
     progress |-> Plain({"JobProgress"}), resultUrl |-> Plain(Text)]

\* A job's error is an ErrorBody without a request and without details.
JobError ==
    All({"requestId", "details"}, Plain({"null"})) @@
    [code |-> Plain({"RESOURCE_LIMIT", "STALE_REVISION", "INTERNAL_ERROR"}),
     message |-> Plain(Text), retryable |-> Plain(Flag)]

-----------------------------------------------------------------------------
(***************************************************************************)
(* Edits and mappings.                                                     *)
(***************************************************************************)

EditResult ==
    All({"logicalRevisionBefore", "logicalRevisionAfter", "indexRevisionAfter"}, Plain(Number)) @@
    [outcome |-> Plain({"PARTIAL", "APPLIED", "NO_CHANGE"}), sessionId |-> Plain({"uuid"}),
     dirty |-> Plain(Flag), saved |-> Plain({"false"}), items |-> ListOf(Plain({"ItemResult"})),
     diagnostics |-> ListOf(Plain(Text))]

ItemResult ==
    [index |-> Plain(Number), status |-> Plain({"APPLIED", "SKIPPED", "FAILED"}),
     kind |-> Plain({"RENAME", "SET_COMMENT", "RENAME_PARAMETER"}), target |-> Plain(AnyRef),
     affectedRefs |-> ListOf(Plain(AnyRef)), message |-> OrNull(Plain(Text)),
     parameterIndex |-> OrNull(Plain(Number)), sourceSnapshotId |-> OrNull(Plain(Text))]

\* The omissions of both receipts are always empty.
ExportReceipt ==
    All({"targetPath", "sha256"}, Plain(Text)) @@
    All({"logicalRevision", "bytes"}, Plain(Number)) @@
    [format |-> Plain({"TINY_V2"}), sessionId |-> Plain({"uuid"}),
     source |-> Plain({"CURRENT_IN_MEMORY_WITH_ATTACHED_MAPPINGS"}),
     completeness |-> Plain({"VERIFIED_DECLARATIONS"}), exported |-> Plain({"Counts"}),
     omissions |-> ListOf(Plain({})), projectMutated |-> Plain(Flag)]

ImportReceipt ==
    All({"sourcePath", "sha256"}, Plain(Text)) @@
    All({"bytes", "beforeLogicalRevision", "afterLogicalRevision", "beforeIndexRevision",
         "afterIndexRevision"}, Plain(Number)) @@
    All({"applied", "unchanged"}, Plain({"EditCounts"})) @@
    All({"dirty", "saved", "mappingAttached"}, Plain(Flag)) @@
    [format |-> Plain({"TINY_V2"}), mode |-> Plain({"MERGE_FAIL_ON_CONFLICT"}),
     parsed |-> Plain({"Counts"}), sessionId |-> Plain({"uuid"}),
     outcome |-> Plain({"APPLIED", "NO_CHANGE"}), omissions |-> ListOf(Plain({}))]

Counts == All({"classes", "methods", "fields", "comments"}, Plain(Number))
EditCounts == All({"aliases", "comments"}, Plain(Number))

-----------------------------------------------------------------------------
(***************************************************************************)
(* The records by name.                                                    *)
(***************************************************************************)

Dto ==
    [HealthResponse |-> HealthResponse, StatusResponse |-> StatusResponse,
     RuntimeProgress |-> RuntimeProgress, RuntimeError |-> RuntimeError,
     CapabilitiesResponse |-> CapabilitiesResponse, CapabilityRow |-> CapabilityRow,
     ErrorEnvelope |-> ErrorEnvelope, ErrorBody |-> ErrorBody,
     ShutdownAccepted |-> ShutdownAccepted, FixedProjectResponse |-> FixedProjectResponse,
     RevisionState |-> RevisionState, ProjectSettingsResponse |-> ProjectSettingsResponse,
     PendingEdits |-> PendingEdits, ClassRef |-> ClassRef, MethodRef |-> MemberRef("METHOD"),
     FieldRef |-> MemberRef("FIELD"), SymbolInfo |-> SymbolInfo,
     SymbolResolution |-> SymbolResolution, ClassInfo |-> ClassInfo, ClassPage |-> ClassPage,
     Point |-> Point, Range |-> Range, DecompileResult |-> DecompileResult,
     EffectiveSettings |-> EffectiveSettings, Annotation |-> Annotation, Variable |-> Variable,
     SourceCapabilities |-> SourceCapabilities, ControlFlowFacts |-> ControlFlowFacts,
     FlowInstruction |-> FlowInstruction, Payload |-> Payload, Branch |-> Branch,
     Switch |-> Switch, Case |-> Case, ArrayData |-> ArrayData, Try |-> Try, Handler |-> Handler,
     ReferencePage |-> ReferencePage, ReferenceCoverage |-> ReferenceCoverage,
     ReferenceCapabilities |-> ReferenceCapabilities, InstructionScan |-> InstructionScan,
     ReferenceEdge |-> ReferenceEdge, Site |-> Site, EdgeInstruction |-> EdgeInstruction,
     IndexStatus |-> IndexStatus, Page |-> Page, Coverage |-> Coverage, Hit |-> Hit,
     JobResponse |-> JobResponse, JobProgress |-> JobProgress, EventData |-> EventData,
     JobError |-> JobError,
     EditResult |-> EditResult, ItemResult |-> ItemResult, ExportReceipt |-> ExportReceipt,
     ImportReceipt |-> ImportReceipt, Counts |-> Counts, EditCounts |-> EditCounts]
=============================================================================
