------------------------------ MODULE CaseReplay ------------------------------
(***************************************************************************)
(* replayJournal of src/src/civic-case-coordinator.ts: how a journal of    *)
(* case events is folded, one event at a time, into the state of the case, *)
(* which events it refuses, and which facts (brief, participation,         *)
(* outcome) it calls current.                                              *)
(*                                                                         *)
(* Checksums are the data they digest (SHA-256 is taken to be injective),  *)
(* an event's id is its position in the journal, and id 0 stands for a     *)
(* field that is undefined in the code.                                    *)
(***************************************************************************)
EXTENDS Naturals, Sequences, FiniteSets

CONSTANTS
    Actors,            \* actorIds of the registry
    ActorClass,        \* registry: actor -> actorClass
    ActorDepartment,   \* registry: actor -> departmentId (None if it has none)
    Departments,       \* departmentIds
    PackageIds,        \* ids a steward may give to a department package
    Drafts,            \* department draft contents
    BriefIds,          \* ids a steward may give to a brief
    Participations,    \* aggregate participation results (without checksum)
    Outcomes,          \* outcome contents (without their source bindings)
    RequiredCount,     \* the length of requiredDepartmentIds, 8 in the code
    None               \* an absent value

\* Every registered actor has a class and possibly a department, and a case
\* with required departments requires at least one.
ASSUME RegistryAssumption ==
    /\ ActorClass \in [Actors -> {"citizen", "case_steward", "department_agent",
                                  "department_reviewer", "participation_reviewer",
                                  "public", "administration", "council"}]
    /\ ActorDepartment \in [Actors -> Departments \cup {None}]
    /\ RequiredCount \in Nat \ {0}
    /\ IsFiniteSet(PackageIds)
    /\ IsFiniteSet(Departments)

-----------------------------------------------------------------------------
\* The options a coordinator is constructed with.  requiredDepartmentIds = {}
\* stands for undefined: a configured list is never empty.
OptionRecord ==
    [citizenAdoptionPolicy            : BOOLEAN,
     syntheticAdoptionPolicy          : BOOLEAN,
     syntheticDepartmentReview        : BOOLEAN,
     requireSignedSuggestionAdmission : BOOLEAN,
     scope                            : BOOLEAN,
     requiredDepartmentIds            : SUBSET Departments]

HasRole(class, department) ==
    \E a \in Actors : ActorClass[a] = class /\ ActorDepartment[a] = department

\* The combinations normalizeOptions lets through.
ValidOptions(o) ==
    /\ o.requiredDepartmentIds # {} =>
         /\ Cardinality(o.requiredDepartmentIds) = RequiredCount
         /\ \A d \in o.requiredDepartmentIds :
              HasRole("department_agent", d) /\ HasRole("department_reviewer", d)
    /\ o.citizenAdoptionPolicy =>
         ~o.scope /\ o.requireSignedSuggestionAdmission
    /\ o.syntheticAdoptionPolicy =>
         ~o.citizenAdoptionPolicy /\ ~o.scope /\ o.requireSignedSuggestionAdmission
    /\ o.syntheticDepartmentReview =>
         o.syntheticAdoptionPolicy /\ o.requiredDepartmentIds # {}

SyntheticReviewCommands ==
    {"assign_department_package_v1", "record_department_draft_v1",
     "attest_department_review_v1", "derive_citizen_brief_v1",
     "correct_department_draft_v1", "retract_department_response_v1"}

SyntheticReviewEvents ==
    {"department_package_assigned_v1", "department_draft_recorded_v1",
     "department_review_attested_v1", "citizen_brief_derived_v1",
     "department_draft_corrected_v1", "department_response_retracted_v1"}

-----------------------------------------------------------------------------
\* The replayed state of a case.

Decisions == {"accepted", "rejected"}

Package == [id : PackageIds, departmentId : Departments \cup {None},
            assignedAgentActorId : Actors \cup {None},
            assignedReviewerActorId : Actors \cup {None}]

\* A department's draft, and the review of it; eventId = 0 when there is none.
DraftState  == [draft : Drafts \cup {None}, actorId : Actors \cup {None}, eventId : Nat]
ReviewState == [draft : Drafts \cup {None}, decision : Decisions \cup {None},
                actorId : Actors \cup {None}, eventId : Nat]
NoDraft  == [draft |-> None, actorId |-> None, eventId |-> 0]
NoReview == [draft |-> None, decision |-> None, actorId |-> None, eventId |-> 0]

DepartmentState ==
    [assigned : BOOLEAN, departmentPackage : Package, draft : DraftState,
     review : ReviewState, correctionState : {"current", "corrected", "retracted"}]

NoPackage(p) == [id |-> p, departmentId |-> None,
                 assignedAgentActorId |-> None, assignedReviewerActorId |-> None]

\* What a brief says of one department: the package, draft and attestation
\* checksums.  attestationChecksum digests the review, its reviewer included.
SourceBinding ==
    [packageId : PackageIds, package : Package, draft : Drafts \cup {None},
     attestation : [draft : Drafts \cup {None}, decision : Decisions \cup {None},
                    actorId : Actors \cup {None}]]

Titles == {"discussion", "admitted"}

\* The brief without event ids: what briefChecksum digests.
BriefContent == [id : BriefIds \cup {None}, title : Titles, packageBindings : SUBSET SourceBinding]
NoBriefContent == [id |-> None, title |-> "discussion", packageBindings |-> {}]

SourceEvents == [draftEventId : Nat, reviewEventId : Nat]
NoSourceEvents == [p \in PackageIds |-> [draftEventId |-> 0, reviewEventId |-> 0]]

\* A participation is bound to the brief's content and to its event.
ParticipationState ==
    [result : Participations \cup {None}, brief : BriefContent, briefEventId : Nat,
     actorId : Actors \cup {None}, eventId : Nat, retracted : BOOLEAN]
NoParticipation ==
    [result |-> None, brief |-> NoBriefContent, briefEventId |-> 0,
     actorId |-> None, eventId |-> 0, retracted |-> FALSE]

\* The participation's checksum digests the result, its source brief (the
\* brief's event id included) and the reviewer who recorded it.
ParticipationChecksum(p) ==
    [result |-> p.result, brief |-> p.brief, briefEventId |-> p.briefEventId,
     actorId |-> p.actorId]
ParticipationDigest ==
    [result : Participations \cup {None}, brief : BriefContent, briefEventId : Nat,
     actorId : Actors \cup {None}]

OutcomeState ==
    [outcome : Outcomes \cup {None}, brief : BriefContent,
     participation : ParticipationDigest,
     eventId : Nat]
NoOutcome == [outcome |-> None, brief |-> NoBriefContent,
              participation |-> ParticipationChecksum(NoParticipation), eventId |-> 0]

\* admission is the id of the admission event; valid is FALSE once replay
\* has refused an event (journal_chain_invalid and its siblings).
ReplayedCase ==
    [valid : BOOLEAN, recorded : BOOLEAN, admission : Nat,
     departments : [PackageIds -> DepartmentState],
     brief : BriefContent, briefEventId : Nat,
     briefSourceEventIds : [PackageIds -> SourceEvents],
     participation : ParticipationState, outcome : OutcomeState]

EmptyCase ==
    [valid |-> TRUE, recorded |-> FALSE, admission |-> 0,
     departments |-> [p \in PackageIds |->
        [assigned |-> FALSE, departmentPackage |-> NoPackage(p), draft |-> NoDraft,
         review |-> NoReview, correctionState |-> "current"]],
     brief |-> NoBriefContent, briefEventId |-> 0,
     briefSourceEventIds |-> NoSourceEvents,
     participation |-> NoParticipation, outcome |-> NoOutcome]

Assigned(c) == {p \in PackageIds : c.departments[p].assigned}
DepartmentIdOf(c, p) == c.departments[p].departmentPackage.departmentId
HasDraft(c, p)  == c.departments[p].assigned /\ c.departments[p].draft.eventId # 0
HasReview(c, p) == c.departments[p].assigned /\ c.departments[p].review.eventId # 0
Accepted(c, p)  == HasReview(c, p) /\ c.departments[p].review.decision = "accepted"

\* The title admission puts on the suggestion.
Title(c) == IF c.admission # 0 THEN "admitted" ELSE "discussion"

-----------------------------------------------------------------------------
\* Briefs: their source bindings and whether they are still current.

BindingFor(c, p) ==
    [packageId |-> p, package |-> c.departments[p].departmentPackage,
     draft |-> c.departments[p].draft.draft,
     attestation |-> [draft    |-> c.departments[p].review.draft,
                      decision |-> c.departments[p].review.decision,
                      actorId  |-> c.departments[p].review.actorId]]

\* A department whose answer stands: drafted, accepted, neither corrected
\* nor retracted since.
Reviewed(c, p) ==
    /\ HasDraft(c, p)
    /\ Accepted(c, p)
    /\ c.departments[p].correctionState = "current"

\* Mutant: the decision of the review is not looked at.
ValidateBriefBindingsUndecided(o, c, bindings) ==
    /\ o.requiredDepartmentIds # {}
    /\ Cardinality(bindings) = Cardinality(o.requiredDepartmentIds)
    /\ \A d \in o.requiredDepartmentIds : \E p \in Assigned(c) :
         /\ DepartmentIdOf(c, p) = d
         /\ BindingFor(c, p) \in bindings

\* One binding per required department, each naming the present checksums.
ValidateBriefBindings(o, c, bindings) ==
    /\ o.requiredDepartmentIds # {}
    /\ Cardinality(bindings) = Cardinality(o.requiredDepartmentIds)
    /\ \A b1, b2 \in bindings : b1.packageId = b2.packageId => b1 = b2
    /\ \A d \in o.requiredDepartmentIds : \E p \in Assigned(c) :
         /\ DepartmentIdOf(c, p) = d
         /\ Reviewed(c, p)
         /\ BindingFor(c, p) \in bindings

\* The responses of a brief are functions of the drafts its bindings name.
DeriveBriefProjection(c, id, bindings) ==
    [id |-> id, title |-> Title(c), packageBindings |-> bindings]

BriefSourceEventIds(c, bindings) ==
    [p \in PackageIds |->
        IF \E b \in bindings : b.packageId = p
        THEN [draftEventId  |-> c.departments[p].draft.eventId,
              reviewEventId |-> c.departments[p].review.eventId]
        ELSE [draftEventId |-> 0, reviewEventId |-> 0]]

\* Mutant: a brief is current by its checksums alone.
BriefIsCurrentByChecksum(o, c) ==
    /\ c.briefEventId # 0
    /\ ValidateBriefBindings(o, c, c.brief.packageBindings)
    /\ DeriveBriefProjection(c, c.brief.id, c.brief.packageBindings) = c.brief

\* The very draft and review events it was derived from are still in force.
BriefIsCurrent(o, c) ==
    /\ c.briefEventId # 0
    /\ \A b \in c.brief.packageBindings :
         /\ HasDraft(c, b.packageId)
         /\ HasReview(c, b.packageId)
         /\ c.departments[b.packageId].draft.eventId
              = c.briefSourceEventIds[b.packageId].draftEventId
         /\ c.departments[b.packageId].review.eventId
              = c.briefSourceEventIds[b.packageId].reviewEventId
    /\ ValidateBriefBindings(o, c, c.brief.packageBindings)
    /\ DeriveBriefProjection(c, c.brief.id, c.brief.packageBindings) = c.brief

\* Mutant: the retraction of a participation is forgotten.
ParticipationIsCurrentUnretracted(o, c) ==
    /\ c.participation.eventId # 0
    /\ BriefIsCurrent(o, c)
    /\ c.participation.brief = c.brief
    /\ c.participation.briefEventId = c.briefEventId

\* Mutant: a participation counts for any brief with the same checksum.
ParticipationIsCurrentByChecksum(o, c) ==
    /\ c.participation.eventId # 0
    /\ ~c.participation.retracted
    /\ BriefIsCurrent(o, c)
    /\ c.participation.brief = c.brief

ParticipationIsCurrent(o, c) ==
    /\ c.participation.eventId # 0
    /\ ~c.participation.retracted
    /\ BriefIsCurrent(o, c)
    /\ c.participation.brief = c.brief
    /\ c.participation.briefEventId = c.briefEventId

\* Mutant: an outcome outlives the participation it was reviewed on.
OutcomeIsCurrentWithoutParticipation(o, c) ==
    /\ c.outcome.eventId # 0
    /\ BriefIsCurrent(o, c)
    /\ c.outcome.brief = c.brief

OutcomeIsCurrent(o, c) ==
    /\ c.outcome.eventId # 0
    /\ BriefIsCurrent(o, c)
    /\ ParticipationIsCurrent(o, c)
    /\ c.outcome.brief = c.brief
    /\ c.outcome.participation = ParticipationChecksum(c.participation)

-----------------------------------------------------------------------------
\* Replay of one event: its guards, and what it does to the case.

Event(type, actor, payload, correctionOf) ==
    [eventType |-> type, actorId |-> actor, payload |-> payload,
     correctionOf |-> correctionOf]

\* An event that corrects nothing.
NoCorrection == 0

EventId(index) == index + 1

Refuse(c) == [c EXCEPT !.valid = FALSE]

\* The department's answer after a step: its draft, its review and its state.
SetAnswer(c, p, draft, review, correctionState) ==
    [c EXCEPT !.departments[p] =
       [@ EXCEPT !.draft = draft, !.review = review, !.correctionState = correctionState]]

IsClass(actor, class) == actor \in Actors /\ ActorClass[actor] = class
IsScoped(actor, class, department) ==
    IsClass(actor, class) /\ ActorDepartment[actor] = department

ReplayCaseCreated(o, c, index, e) ==
    IF index = 0 /\ e.correctionOf = NoCorrection THEN c ELSE Refuse(c)

ReplayDiscussionRecorded(o, c, index, e) ==
    IF index = 1 /\ e.correctionOf = NoCorrection
    THEN [c EXCEPT !.recorded = TRUE]
    ELSE Refuse(c)

\* signed_suggestion_admitted_v1 and signed_topic_suggestion_admitted_v1.
ReplaySuggestionAdmitted(o, c, index, e) ==
    IF /\ c.recorded
       /\ c.admission = 0
       /\ Assigned(c) = {}
       /\ e.correctionOf = NoCorrection
       /\ IsClass(e.actorId, "case_steward")
    THEN [c EXCEPT !.admission = EventId(index)]
    ELSE Refuse(c)

\* citizen_adoption_admitted_v1 and synthetic_adoption_admitted_v1.
ReplayAdoptionAdmitted(o, c, index, e) ==
    IF /\ index = 2
       /\ c.recorded
       /\ c.admission = 0
       /\ Assigned(c) = {}
       /\ e.correctionOf = NoCorrection
       /\ IF e.eventType = "synthetic_adoption_admitted_v1"
          THEN o.syntheticAdoptionPolicy ELSE o.citizenAdoptionPolicy
       /\ IsClass(e.actorId, "case_steward")
    THEN [c EXCEPT !.admission = EventId(index)]
    ELSE Refuse(c)

ReplayPackageAssigned(o, c, index, e) ==
    LET package == e.payload IN
    IF /\ index >= 2
       /\ c.recorded
       /\ e.correctionOf = NoCorrection
       /\ o.requireSignedSuggestionAdmission => c.admission # 0
       /\ package.assignedAgentActorId # package.assignedReviewerActorId
       /\ package.id \notin Assigned(c)
       /\ \A p \in Assigned(c) : DepartmentIdOf(c, p) # package.departmentId
       /\ o.requiredDepartmentIds # {} => package.departmentId \in o.requiredDepartmentIds
       /\ IsClass(e.actorId, "case_steward")
    THEN [c EXCEPT !.departments[package.id] =
            [assigned |-> TRUE, departmentPackage |-> package, draft |-> NoDraft,
             review |-> NoReview, correctionState |-> "current"]]
    ELSE Refuse(c)

ReplayDraftRecorded(o, c, index, e) ==
    LET p == e.payload.packageId IN
    IF /\ p \in Assigned(c)
       /\ ~HasDraft(c, p)
       /\ e.correctionOf = NoCorrection
       /\ e.payload.package = c.departments[p].departmentPackage
       /\ IsScoped(e.actorId, "department_agent", DepartmentIdOf(c, p))
       /\ e.actorId = c.departments[p].departmentPackage.assignedAgentActorId
    THEN SetAnswer(c, p,
                   [draft |-> e.payload.draft, actorId |-> e.actorId, eventId |-> EventId(index)],
                   c.departments[p].review, "current")
    ELSE Refuse(c)

ReplayReviewAttested(o, c, index, e) ==
    LET p == e.payload.packageId IN
    IF /\ HasDraft(c, p)
       /\ ~HasReview(c, p)
       /\ e.correctionOf = NoCorrection
       /\ e.payload.draft = c.departments[p].draft.draft
       /\ IsScoped(e.actorId, "department_reviewer", DepartmentIdOf(c, p))
       /\ e.actorId # c.departments[p].draft.actorId
       /\ e.actorId = c.departments[p].departmentPackage.assignedReviewerActorId
    THEN SetAnswer(c, p, c.departments[p].draft,
                   [draft |-> e.payload.draft, decision |-> e.payload.decision,
                    actorId |-> e.actorId, eventId |-> EventId(index)], "current")
    ELSE Refuse(c)

ReplayDraftCorrected(o, c, index, e) ==
    LET p == e.payload.packageId IN
    IF /\ HasDraft(c, p)
       /\ Accepted(c, p)
       /\ e.correctionOf = c.departments[p].draft.eventId
       /\ e.payload.package = c.departments[p].departmentPackage
       /\ e.payload.priorDraft = c.departments[p].draft.draft
       /\ IsScoped(e.actorId, "department_agent", DepartmentIdOf(c, p))
       /\ e.actorId = c.departments[p].departmentPackage.assignedAgentActorId
    THEN SetAnswer(c, p,
                   [draft |-> e.payload.draft, actorId |-> e.actorId, eventId |-> EventId(index)],
                   NoReview, "corrected")
    ELSE Refuse(c)

\* Mutant: the projection's word for the state of a retracted answer.
ReplayResponseInvalidated(o, c, index, e) ==
    SetAnswer(c, e.payload.packageId, NoDraft, NoReview, "invalidated")

ReplayResponseRetracted(o, c, index, e) ==
    LET p == e.payload.packageId IN
    IF /\ HasDraft(c, p)
       /\ Accepted(c, p)
       /\ e.correctionOf = c.departments[p].review.eventId
       /\ e.payload.binding = BindingFor(c, p)
       /\ IsClass(e.actorId, "case_steward")
    THEN SetAnswer(c, p, NoDraft, NoReview, "retracted")
    ELSE Refuse(c)

ReplayBriefDerived(o, c, index, e) ==
    LET brief == e.payload IN
    IF /\ c.recorded
       /\ e.correctionOf = NoCorrection
       /\ IsClass(e.actorId, "case_steward")
       /\ ValidateBriefBindings(o, c, brief.packageBindings)
       /\ DeriveBriefProjection(c, brief.id, brief.packageBindings) = brief
    THEN [c EXCEPT
            !.brief = brief,
            !.briefEventId = EventId(index),
            !.briefSourceEventIds = BriefSourceEventIds(c, brief.packageBindings)]
    ELSE Refuse(c)

ReplayParticipationRecorded(o, c, index, e) ==
    IF /\ e.correctionOf = NoCorrection
       /\ c.participation.eventId = 0
       /\ c.recorded
       /\ BriefIsCurrent(o, c)
       /\ IsClass(e.actorId, "participation_reviewer")
       /\ e.payload.brief = c.brief
       /\ e.payload.briefEventId = c.briefEventId
    THEN [c EXCEPT !.participation =
            [result |-> e.payload.result, brief |-> e.payload.brief,
             briefEventId |-> e.payload.briefEventId, actorId |-> e.actorId,
             eventId |-> EventId(index), retracted |-> FALSE]]
    ELSE Refuse(c)

ReplayParticipationRetracted(o, c, index, e) ==
    IF /\ c.participation.eventId # 0
       /\ ~c.participation.retracted
       /\ e.correctionOf = c.participation.eventId
       /\ IsClass(e.actorId, "case_steward")
       /\ e.payload.checksum = ParticipationChecksum(c.participation)
    THEN [c EXCEPT !.participation.retracted = TRUE]
    ELSE Refuse(c)

ReplayOutcomeRecorded(o, c, index, e) ==
    IF /\ c.recorded
       /\ c.outcome.eventId = 0
       /\ e.correctionOf = NoCorrection
       /\ IsClass(e.actorId, "case_steward")
       /\ e.payload.brief = c.brief
       /\ e.payload.participation = ParticipationChecksum(c.participation)
       /\ BriefIsCurrent(o, c)
       /\ ParticipationIsCurrent(o, c)
    THEN [c EXCEPT !.outcome =
            [outcome |-> e.payload.outcome, brief |-> e.payload.brief,
             participation |-> e.payload.participation, eventId |-> EventId(index)]]
    ELSE Refuse(c)

\* Events a case's lane keeps out of its journal, wherever they come from.
LaneRefuses(o, index, type) ==
    \/ /\ o.citizenAdoptionPolicy \/ o.syntheticAdoptionPolicy
       /\ type \in {"signed_suggestion_admitted_v1", "signed_topic_suggestion_admitted_v1"}
    \/ /\ o.syntheticAdoptionPolicy
       /\ index > 2
       /\ ~o.syntheticDepartmentReview \/ type \notin SyntheticReviewEvents

ReplayEvent(o, c, index, e) ==
    IF ~c.valid \/ LaneRefuses(o, index, e.eventType) THEN Refuse(c)
    ELSE CASE e.eventType = "case_created_v1" -> ReplayCaseCreated(o, c, index, e)
           [] e.eventType = "discussion_recorded_v1" -> ReplayDiscussionRecorded(o, c, index, e)
           [] e.eventType \in {"signed_suggestion_admitted_v1",
                               "signed_topic_suggestion_admitted_v1"} ->
                ReplaySuggestionAdmitted(o, c, index, e)
           [] e.eventType \in {"citizen_adoption_admitted_v1",
                               "synthetic_adoption_admitted_v1"} ->
                ReplayAdoptionAdmitted(o, c, index, e)
           [] e.eventType = "department_package_assigned_v1" ->
                ReplayPackageAssigned(o, c, index, e)
           [] e.eventType = "department_draft_recorded_v1" -> ReplayDraftRecorded(o, c, index, e)
           [] e.eventType = "department_review_attested_v1" ->
                ReplayReviewAttested(o, c, index, e)
           [] e.eventType = "department_draft_corrected_v1" ->
                ReplayDraftCorrected(o, c, index, e)
           [] e.eventType = "department_response_retracted_v1" ->
                ReplayResponseRetracted(o, c, index, e)
           [] e.eventType = "citizen_brief_derived_v1" -> ReplayBriefDerived(o, c, index, e)
           [] e.eventType = "advisory_participation_recorded_v1" ->
                ReplayParticipationRecorded(o, c, index, e)
           [] e.eventType = "advisory_participation_retracted_v1" ->
                ReplayParticipationRetracted(o, c, index, e)
           [] e.eventType = "reviewed_outcome_recorded_v1" ->
                ReplayOutcomeRecorded(o, c, index, e)
           [] OTHER -> Refuse(c)

\* replayJournal returns: no event was refused, and there are no more
\* packages than required departments.
Replays(o, c) ==
    /\ c.valid
    /\ o.requiredDepartmentIds # {} =>
         Cardinality(Assigned(c)) <= Cardinality(o.requiredDepartmentIds)
=============================================================================
