--------------------------- MODULE CompanionHarness ---------------------------
(***************************************************************************)
(* The seam to a companion worker: the request that                        *)
(* src/src/adapters/companion-harness.ts builds from a task, and the       *)
(* validation of whatever the worker sends back.  The caller,              *)
(* CityControlPlane here, keeps the state of the calls.                    *)
(*                                                                         *)
(* A checksum is modelled by what it is computed from, so two requests     *)
(* have one task id exactly when all it is computed from is equal.  Of a   *)
(* role's context the harness reads the private fields it carries and the  *)
(* references it may cite.  Of an answer it reads its length and whether   *)
(* it leaks.  Costs are left out.                                          *)
(***************************************************************************)
EXTENDS Naturals, FiniteSets

CONSTANTS
    Identity,          \* the worker identity configured for each profile
    Policy,            \* identities allowed for each profile
    SessionProfiles,   \* the profiles a session key names
    TokenCeiling,      \* LIMIT_CEILINGS
    TimeoutCeiling,
    Unusable           \* what a function that throws returns

Profiles == {"administration", "council", "public"}
PrivateFields == {"departmentWorkPackages", "publishedBy", "councilDryRunBrief"}

\* snapshotIdentities and normalizeIdentityPolicy: each profile has its own
\* identity, and no identity is allowed for two profiles.
ValidIdentityPolicy ==
    /\ DOMAIN Identity = Profiles /\ DOMAIN Policy = Profiles
    /\ \A p, q \in Profiles : p # q => Identity[p] # Identity[q] /\ Policy[p] \cap Policy[q] = {}
    /\ \A p \in Profiles : Policy[p] # {}

ASSUME IdentityAssumption == ValidIdentityPolicy

\* prepareTask of src/src/companion-runtime.ts.  The context is a copy of
\* the projection at this moment.
PrepareTask(profile, question, context) ==
    [profile |-> profile, question |-> question, workerIdentity |-> Identity[profile],
     context |-> context]

\* assertRoleScopedContext
RoleScoped(profile, fields) ==
    /\ profile # "administration" => fields \cap {"departmentWorkPackages", "publishedBy"} = {}
    /\ profile # "council" => "councilDryRunBrief" \notin fields

\* normalizeLimits
LimitsAllowed(limits) ==
    /\ limits.maxOutputTokens \in 1..TokenCeiling
    /\ limits.timeoutMs \in 1..TimeoutCeiling

\* expectedCitationRefs: the references of the context, or the context.
CitationRefs(context) == IF context.refs # {} THEN context.refs ELSE {"synthetic_context"}

\* normalizeArtifactBindings: each reference with a checksum over the
\* projection it comes from.
ArtifactBindings(citations, context) == {<<ref, context>> : ref \in citations}

\* assertTask, normalizeTaskBinding and the request of
\* prepareCompanionWorkerTask.
WorkerTask(task, session, limits) ==
    IF /\ task.workerIdentity \in Policy[task.profile]
       /\ RoleScoped(task.profile, task.context.fields)
       /\ task.profile \in SessionProfiles[session]
       /\ LimitsAllowed(limits)
    THEN [taskId |-> <<session, task.profile, task.workerIdentity, task.question, task.context>>,
          session |-> session, profile |-> task.profile, identity |-> task.workerIdentity,
          question |-> task.question, context |-> task.context,
          citations |-> CitationRefs(task.context),
          artifactBindings |-> ArtifactBindings(CitationRefs(task.context), task.context),
          limits |-> limits]
    ELSE Unusable

\* buildDeterministicResult: a worker that returns all it was given.
WorkerResult(request, answer) ==
    [taskId |-> request.taskId, session |-> request.session, profile |-> request.profile,
     identity |-> request.identity, context |-> request.context, citations |-> request.citations,
     artifactBindings |-> request.artifactBindings, limits |-> request.limits,
     answer |-> answer, tools |-> {}]

\* Mutant: the task id of a result is not compared.
ResultIsForSession(request, raw) ==
    /\ raw.session = request.session /\ raw.profile = request.profile
    /\ raw.context = request.context /\ raw.citations = request.citations

\* validateCompanionWorkerResult: the result is for this very request.
ResultIsForRequest(request, raw) ==
    /\ raw.taskId = request.taskId
    /\ raw.session = request.session
    /\ raw.profile = request.profile
    /\ raw.context = request.context
    /\ raw.identity = request.identity
    /\ raw.citations = request.citations
    /\ raw.artifactBindings = request.artifactBindings

ValidateResult(request, raw) ==
    /\ ResultIsForRequest(request, raw)
    /\ raw.tools = {}
    /\ raw.limits = request.limits
    /\ raw.answer.tokens \in 1..request.limits.maxOutputTokens
    /\ ~raw.answer.leaks
    /\ ~(request.profile = "public" /\ raw.answer.saysPrivate)
=============================================================================
