------------------------------ MODULE CivicKernel ------------------------------
(***************************************************************************)
(* The in-memory case of src/src/civic-kernel.ts: its maps, the commands   *)
(* of dispatch, each an action with the conditions under which it does not *)
(* throw, and its projections.  A command that finds its result already    *)
(* there changes nothing.  CityControlPlane is its caller.                 *)
(*                                                                         *)
(* A department's answer is a member of Answers with the citations         *)
(* Citations[answer].  Titles and summaries are model values.  A           *)
(* participation result keeps what its normalizer compares: three times,   *)
(* four counts and the options with their counts.                          *)
(*                                                                         *)
(* Ids are free strings, and the code joins them with a colon.  Parts[id]  *)
(* is the sequence of parts between the colons of an id, so x:y has the    *)
(* parts of x followed by those of y, and the ids of two packages can be   *)
(* the same.  A package is named <<suggestion, department>>; PackageId is  *)
(* the id that a request knows it by.                                      *)
(***************************************************************************)
EXTENDS DiscussionArtifact

CONSTANTS
    None,
    Departments,      \* config.departments
    Parts,            \* the parts of an id between its colons
    Registry,         \* config.actors: id -> [role, department]
    Answers,          \* what an agent may answer
    Citations         \* the citations of an answer

VARIABLES
    discussions,        \* by event id
    suggestions,        \* by suggestion id
    departmentWorkPackages,  \* by <<suggestion, department>>; response or None
    shadowed,           \* packages that an earlier one with their id hides
    responseAuthors,
    reviewedCitizenBrief,
    participationResult

kernelVars == <<discussions, suggestions, departmentWorkPackages, shadowed, responseAuthors,
                reviewedCitizenBrief, participationResult>>

DepartmentRoles == {"department_agent", "department_reviewer"}
CivicRoles == {"citizen", "case_steward", "participation_reviewer", "publisher"} \cup DepartmentRoles
Empty == [x \in {} |-> None]
Extend(f, key, value) == [x \in DOMAIN f \cup {key} |-> IF x = key THEN value ELSE f[x]]

\* snapshotCivicKernelConfig: departments, and actors that carry a
\* department exactly when their role needs one.
ValidKernelConfig ==
    /\ IsFiniteSet(Departments) /\ Departments # {}
    /\ \A id \in DOMAIN Registry :
          Registry[id].role \in CivicRoles =>
             (Registry[id].role \in DepartmentRoles <=> Registry[id].department # None)

ASSUME KernelAssumption == ValidKernelConfig
ASSUME RegistryAssumption ==
    \A id \in DOMAIN Registry :
       Registry[id] = [role |-> Registry[id].role, department |-> Registry[id].department]

KernelInit ==
    /\ discussions = Empty
    /\ suggestions = Empty
    /\ departmentWorkPackages = Empty
    /\ shadowed = {}
    /\ responseAuthors = Empty
    /\ reviewedCitizenBrief = None
    /\ participationResult = None

\* normalizeCivicActor and the registry: the envelope must name a
\* registered actor with its own role and department.
Registered(actor) ==
    /\ actor.role \in CivicRoles
    /\ actor.id \in DOMAIN Registry
    /\ Registry[actor.id] = [role |-> actor.role, department |-> actor.department]

-----------------------------------------------------------------------------
ProvenanceOf(artifact) ==
    [id |-> artifact.id, source |-> artifact.source, scope |-> artifact.scope,
     proof |-> artifact.proof, signer |-> artifact.event.signer]

\* normalizeDiscussionProvenance: what the kernel keeps of an artifact.
Provenance(artifact) ==
    IF /\ artifact.scope = <<Municipality, Case>>
       /\ artifact.event.id = artifact.id
       /\ artifact.source = "nostr" <=> artifact.proof.kind = "nostr_nip01"
    THEN ProvenanceOf(artifact) ELSE Refused

MayRecordDiscussion(actor, discussion) ==
    /\ Registered(actor) /\ actor.role = "citizen"
    /\ discussion.signature # Blank
    /\ discussion.provenance # Refused
    /\ discussion.id \in DOMAIN discussions => discussions[discussion.id] = discussion

RecordDiscussion(actor, discussion) ==
    /\ MayRecordDiscussion(actor, discussion)
    /\ discussions' = Extend(discussions, discussion.id, discussion)
    /\ UNCHANGED <<suggestions, departmentWorkPackages, shadowed, responseAuthors, reviewedCitizenBrief,
                   participationResult>>

CraftSuggestion(actor, id, discussionId, title) ==
    /\ Registered(actor) /\ actor.role = "citizen"
    /\ IF id \in DOMAIN suggestions
       THEN /\ suggestions[id].discussionId = discussionId /\ suggestions[id].title = title
            /\ UNCHANGED suggestions
       ELSE /\ discussionId \in DOMAIN discussions
            /\ suggestions' = Extend(suggestions, id, [discussionId |-> discussionId,
                                                       title |-> title, status |-> "draft"])
    /\ UNCHANGED <<discussions, departmentWorkPackages, shadowed, responseAuthors, reviewedCitizenBrief,
                   participationResult>>

NoResponse == [answer |-> None, status |-> "none"]

PackageId(p) == Parts[p[1]] \o Parts[p[2]]

\* A package pushed behind one with the same id is in the list, but find
\* never returns it.
SubmitSuggestionForAdministration(actor, id) ==
    /\ Registered(actor) /\ actor.role = "case_steward"
    /\ id \in DOMAIN suggestions
    /\ IF suggestions[id].status = "submitted_for_administration_review"
       THEN UNCHANGED <<suggestions, departmentWorkPackages, shadowed>>
       ELSE /\ suggestions' = [suggestions EXCEPT ![id].status = "submitted_for_administration_review"]
            /\ departmentWorkPackages' = [p \in DOMAIN departmentWorkPackages \cup ({id} \X Departments) |->
                                  IF p \in DOMAIN departmentWorkPackages THEN departmentWorkPackages[p]
                                  ELSE NoResponse]
            /\ shadowed' = shadowed \cup {p \in {id} \X Departments :
                                  \E q \in DOMAIN departmentWorkPackages : PackageId(q) = PackageId(p)}
    /\ UNCHANGED <<discussions, responseAuthors, reviewedCitizenBrief, participationResult>>

\* Mutant: a replaced response leaves the published brief standing.
ResponseKeepsBrief(actor, p, answer) ==
    /\ Registered(actor) /\ actor.role = "department_agent"
    /\ p \in DOMAIN departmentWorkPackages \ shadowed /\ actor.department = p[2] /\ Citations[answer] # {}
    /\ departmentWorkPackages' = [departmentWorkPackages EXCEPT
                                    ![p] = [answer |-> answer, status |-> "pending_review"]]
    /\ responseAuthors' = Extend(responseAuthors, p, actor.id)
    /\ UNCHANGED <<discussions, suggestions, shadowed, reviewedCitizenBrief, participationResult>>

RecordDepartmentResponse(actor, p, answer) ==
    /\ Registered(actor) /\ actor.role = "department_agent"
    /\ p \in DOMAIN departmentWorkPackages \ shadowed
    /\ actor.department = p[2]
    /\ Citations[answer] # {}
    /\ reviewedCitizenBrief' = None
    /\ departmentWorkPackages' = [departmentWorkPackages EXCEPT
                                    ![p] = [answer |-> answer, status |-> "pending_review"]]
    /\ responseAuthors' = Extend(responseAuthors, p, actor.id)
    /\ UNCHANGED <<discussions, suggestions, shadowed, participationResult>>

ReviewDepartmentResponse(actor, p) ==
    /\ Registered(actor) /\ actor.role = "department_reviewer"
    /\ p \in DOMAIN departmentWorkPackages \ shadowed
    /\ actor.department = p[2]
    /\ departmentWorkPackages[p] # NoResponse
    /\ p \in DOMAIN responseAuthors /\ responseAuthors[p] # actor.id
    /\ departmentWorkPackages' = [departmentWorkPackages EXCEPT ![p].status = "reviewed"]
    /\ UNCHANGED <<discussions, suggestions, shadowed, responseAuthors, reviewedCitizenBrief,
                   participationResult>>

\* The citations of all the responses there are.
CurrentCitations ==
    UNION {Citations[departmentWorkPackages[p].answer] :
             p \in {q \in DOMAIN departmentWorkPackages : departmentWorkPackages[q] # NoResponse}}

\* One package per department and no more: the check counts packages.
AllResponsesReviewed ==
    /\ Cardinality(DOMAIN departmentWorkPackages) = Cardinality(Departments)
    /\ \A p \in DOMAIN departmentWorkPackages : departmentWorkPackages[p].status = "reviewed"

PublishReviewedCitizenBrief(actor, summary) ==
    /\ Registered(actor) /\ actor.role = "publisher"
    /\ AllResponsesReviewed
    /\ reviewedCitizenBrief' = [summary |-> summary, citations |-> CurrentCitations,
                                publishedBy |-> actor.id]
    /\ UNCHANGED <<discussions, suggestions, departmentWorkPackages, shadowed, responseAuthors,
                   participationResult>>

-----------------------------------------------------------------------------
\* normalizeParticipationResult on a result of the right shape: the times
\* are in order, the counts fit each other and the options add up.
OptionTotal(result) == FoldSeq(LAMBDA option, total : option.aggregateCount + total, 0, result.options)

ParticipationResultIsConsistent(result) ==
    LET audit == result.representationAudit IN
    /\ result.openedAt <= result.closedAt
    /\ result.closedAt <= result.reviewedAt
    /\ audit.totalInvited # None => audit.totalStarted <= audit.totalInvited
    /\ audit.totalCompleted <= audit.totalStarted
    /\ result.totalAccepted <= audit.totalCompleted
    /\ \A i, j \in 1..Len(result.options) :
          i # j => result.options[i].optionId # result.options[j].optionId
    /\ OptionTotal(result) = result.totalAccepted

\* assertParticipationResultShape and assertNoRawParticipationValues: no
\* field and no value that could point at a person.
MayRecordParticipation(actor, result) ==
    /\ Registered(actor) /\ actor.role = "participation_reviewer"
    /\ result.shape = "aggregate_only"
    /\ ParticipationResultIsConsistent(result)
    /\ participationResult \in {None, result}

RecordParticipationResult(actor, result) ==
    /\ MayRecordParticipation(actor, result)
    /\ participationResult' = result
    /\ UNCHANGED <<discussions, suggestions, departmentWorkPackages, shadowed, responseAuthors,
                   reviewedCitizenBrief>>

-----------------------------------------------------------------------------
\* buildCouncilDryRunBrief, None where it throws.
CouncilDryRunBrief ==
    IF reviewedCitizenBrief = None THEN None
    ELSE [summary |-> reviewedCitizenBrief.summary, citizenSignal |-> participationResult,
          reviewedDepartmentResponseCount |->
             Cardinality({p \in DOMAIN departmentWorkPackages :
                            departmentWorkPackages[p].status = "reviewed"})]

\* project: what a viewer's role lets through.
BriefFor(role) ==
    IF reviewedCitizenBrief = None THEN None
    ELSE [summary |-> reviewedCitizenBrief.summary, citations |-> reviewedCitizenBrief.citations,
          publishedBy |-> IF role = "administration" THEN reviewedCitizenBrief.publishedBy ELSE None]

ParticipationFor(role) ==
    IF /\ participationResult # None
       /\ ~(role = "public" /\ participationResult.correctionState = "retracted")
    THEN participationResult ELSE None

Project(role) ==
    [discussions |-> discussions, suggestions |-> suggestions,
     reviewedCitizenBrief |-> BriefFor(role),
     participationResult |-> ParticipationFor(role),
     councilDryRunBrief |-> IF role = "council" THEN CouncilDryRunBrief ELSE None,
     departmentWorkPackages |-> IF role = "administration" THEN departmentWorkPackages ELSE Empty]
=============================================================================
