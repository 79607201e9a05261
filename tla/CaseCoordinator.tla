---------------------------- MODULE CaseCoordinator ----------------------------
(***************************************************************************)
(* One civic case under createCivicCaseCoordinator of                      *)
(* src/src/civic-case-coordinator.ts: an append-only journal and the       *)
(* commands that extend it.  Every action is a command that `handle`       *)
(* accepts: the checks of its branch, the events it appends, and the       *)
(* idempotency entry with its receipt.  A command that fails a check       *)
(* leaves every variable alone, as does the retry of an accepted one, and  *)
(* both are stuttering steps here; DurableJournal has retries and crashes. *)
(*                                                                         *)
(* `handle` replays the whole journal before it looks at a command.  The   *)
(* variable replayed carries that fold along, one ReplayEvent per event.   *)
(***************************************************************************)
EXTENDS CaseProjection

CONSTANT MaxEvents    \* bound on the journal's length

ASSUME MaxEventsAssumption == MaxEvents \in Nat

VARIABLES
    options,       \* the normalized options, fixed at construction
    journal,       \* state.events
    replayed,      \* replayJournal(state, options)
    idempotency    \* the idempotency map; keys are numbered as they are first used

vars == <<options, journal, replayed, idempotency>>

CommandTypes ==
    SyntheticReviewCommands \cup
    {"intake_discussion_v1", "admit_signed_suggestion_v1",
     "admit_signed_topic_suggestion_v1", "admit_citizen_adoption_v1",
     "admit_synthetic_adoption_v1", "record_advisory_participation_v1",
     "retract_advisory_participation_v1", "record_reviewed_outcome_v1"}

EventTypes ==
    SyntheticReviewEvents \cup
    {"case_created_v1", "discussion_recorded_v1", "signed_suggestion_admitted_v1",
     "signed_topic_suggestion_admitted_v1", "citizen_adoption_admitted_v1",
     "synthetic_adoption_admitted_v1", "advisory_participation_recorded_v1",
     "advisory_participation_retracted_v1", "reviewed_outcome_recorded_v1"}

Init ==
    /\ options \in {o \in OptionRecord : ValidOptions(o)}
    /\ journal = <<>>
    /\ replayed = EmptyCase
    /\ idempotency = <<>>

-----------------------------------------------------------------------------
\* What handle checks of every command before it looks at its branch: a
\* registered actor of the right class, the lane, and a journal that replays.
LaneAllows(type) ==
    /\ options.citizenAdoptionPolicy =>
         type \notin {"intake_discussion_v1", "admit_signed_suggestion_v1",
                      "admit_signed_topic_suggestion_v1"}
    /\ options.syntheticAdoptionPolicy =>
         \/ type = "admit_synthetic_adoption_v1"
         \/ options.syntheticDepartmentReview /\ type \in SyntheticReviewCommands

Handles(type, actor, class) ==
    /\ IsClass(actor, class)
    /\ LaneAllows(type)
    /\ Replays(options, replayed)

\* The end of handle: the events, all of them or none, and the receipt that a
\* retry under the same key is answered with.
Commit(type, actor, events, next) ==
    /\ Len(journal) + Len(events) <= MaxEvents
    /\ journal' = journal \o events
    /\ replayed' = next
    /\ idempotency' = Append(idempotency,
         [commandType |-> type, actorId |-> actor, expectedCaseVersion |-> Len(journal),
          receipt |-> [caseVersion |-> Len(journal) + Len(events),
                       eventIds |-> (Len(journal) + 1)..(Len(journal) + Len(events))]])
    /\ UNCHANGED options

CommitOne(type, actor, e) ==
    Commit(type, actor, <<e>>, ReplayEvent(options, replayed, Len(journal), e))

\* The events that open a case: case_created, discussion_recorded and, in
\* the admission lanes, the admission.
Created(actor) == Event("case_created_v1", actor, None, NoCorrection)
Recorded(actor) == Event("discussion_recorded_v1", actor, None, NoCorrection)
AfterOpening(actor) ==
    ReplayEvent(options, ReplayEvent(options, replayed, 0, Created(actor)), 1, Recorded(actor))

OpenWith(type, actor, admission) ==
    Commit(type, actor, <<Created(actor), Recorded(actor), admission>>,
           ReplayEvent(options, AfterOpening(actor), 2, admission))

-----------------------------------------------------------------------------
IntakeDiscussion(actor) ==
    /\ Handles("intake_discussion_v1", actor, "citizen")
    /\ ~replayed.recorded
    /\ journal = <<>>
    /\ Commit("intake_discussion_v1", actor, <<Created(actor), Recorded(actor)>>,
              AfterOpening(actor))

AdmitSignedSuggestion(actor) ==
    /\ Handles("admit_signed_suggestion_v1", actor, "case_steward")
    /\ replayed.recorded
    /\ replayed.admission = 0
    /\ Assigned(replayed) = {}
    /\ replayed.briefEventId = 0
    /\ replayed.participation.eventId = 0
    /\ CommitOne("admit_signed_suggestion_v1", actor,
                 Event("signed_suggestion_admitted_v1", actor, None, NoCorrection))

AdmitSignedTopicSuggestion(actor) ==
    /\ Handles("admit_signed_topic_suggestion_v1", actor, "case_steward")
    /\ ~replayed.recorded
    /\ journal = <<>>
    /\ ~options.scope
    /\ OpenWith("admit_signed_topic_suggestion_v1", actor,
                Event("signed_topic_suggestion_admitted_v1", actor, None, NoCorrection))

AdmitCitizenAdoption(actor) ==
    /\ Handles("admit_citizen_adoption_v1", actor, "case_steward")
    /\ options.citizenAdoptionPolicy
    /\ ~replayed.recorded
    /\ journal = <<>>
    /\ OpenWith("admit_citizen_adoption_v1", actor,
                Event("citizen_adoption_admitted_v1", actor, None, NoCorrection))

AdmitSyntheticAdoption(actor) ==
    /\ Handles("admit_synthetic_adoption_v1", actor, "case_steward")
    /\ options.syntheticAdoptionPolicy
    /\ ~replayed.recorded
    /\ journal = <<>>
    /\ OpenWith("admit_synthetic_adoption_v1", actor,
                Event("synthetic_adoption_admitted_v1", actor, None, NoCorrection))

AssignDepartmentPackage(actor, package) ==
    /\ Handles("assign_department_package_v1", actor, "case_steward")
    /\ package.assignedAgentActorId # package.assignedReviewerActorId
    /\ replayed.recorded
    /\ options.requireSignedSuggestionAdmission => replayed.admission # 0
    /\ package.id \notin Assigned(replayed)
    /\ \A p \in Assigned(replayed) : DepartmentIdOf(replayed, p) # package.departmentId
    /\ options.requiredDepartmentIds = {} => Assigned(replayed) = {}
    /\ options.requiredDepartmentIds # {} =>
         /\ package.departmentId \in options.requiredDepartmentIds
         /\ Cardinality(Assigned(replayed)) < Cardinality(options.requiredDepartmentIds)
    /\ IsScoped(package.assignedAgentActorId, "department_agent", package.departmentId)
    /\ IsScoped(package.assignedReviewerActorId, "department_reviewer", package.departmentId)
    /\ CommitOne("assign_department_package_v1", actor,
                 Event("department_package_assigned_v1", actor, package, NoCorrection))

RecordDepartmentDraft(actor, p, draft) ==
    LET department == replayed.departments[p] IN
    /\ Handles("record_department_draft_v1", actor, "department_agent")
    /\ p \in Assigned(replayed)
    /\ ~HasDraft(replayed, p)
    /\ actor = department.departmentPackage.assignedAgentActorId
    /\ ActorDepartment[actor] = department.departmentPackage.departmentId
    /\ CommitOne("record_department_draft_v1", actor,
         Event("department_draft_recorded_v1", actor,
               [packageId |-> p, package |-> department.departmentPackage, draft |-> draft],
               NoCorrection))

\* reviewed is the draft whose checksum the reviewer attests.
AttestDepartmentReview(actor, p, reviewed, decision) ==
    LET department == replayed.departments[p] IN
    /\ Handles("attest_department_review_v1", actor, "department_reviewer")
    /\ HasDraft(replayed, p)
    /\ ~HasReview(replayed, p)
    /\ reviewed = department.draft.draft
    /\ ActorDepartment[actor] = department.departmentPackage.departmentId
    /\ actor = department.departmentPackage.assignedReviewerActorId
    /\ actor # department.draft.actorId
    /\ CommitOne("attest_department_review_v1", actor,
         Event("department_review_attested_v1", actor,
               [packageId |-> p, draft |-> reviewed, decision |-> decision], NoCorrection))

\* Mutant: a draft is corrected before its review.
CorrectUnreviewedDraft(actor, p, prior, draft) ==
    LET department == replayed.departments[p] IN
    /\ Handles("correct_department_draft_v1", actor, "department_agent")
    /\ HasDraft(replayed, p)
    /\ prior = department.draft.draft
    /\ actor = department.departmentPackage.assignedAgentActorId
    /\ CommitOne("correct_department_draft_v1", actor,
         Event("department_draft_corrected_v1", actor,
               [packageId |-> p, package |-> department.departmentPackage,
                priorDraft |-> prior, draft |-> draft],
               department.draft.eventId))

\* prior is the draft whose checksum the correction supersedes.
CorrectDepartmentDraft(actor, p, prior, draft) ==
    LET department == replayed.departments[p] IN
    /\ Handles("correct_department_draft_v1", actor, "department_agent")
    /\ HasDraft(replayed, p)
    /\ Accepted(replayed, p)
    /\ prior = department.draft.draft
    /\ actor = department.departmentPackage.assignedAgentActorId
    /\ ActorDepartment[actor] = department.departmentPackage.departmentId
    /\ CommitOne("correct_department_draft_v1", actor,
         Event("department_draft_corrected_v1", actor,
               [packageId |-> p, package |-> department.departmentPackage,
                priorDraft |-> prior, draft |-> draft],
               department.draft.eventId))

\* target is the draft whose checksum the retraction names.
RetractDepartmentResponse(actor, p, target) ==
    LET department == replayed.departments[p] IN
    /\ Handles("retract_department_response_v1", actor, "case_steward")
    /\ HasDraft(replayed, p)
    /\ Accepted(replayed, p)
    /\ target = department.draft.draft
    /\ CommitOne("retract_department_response_v1", actor,
         Event("department_response_retracted_v1", actor,
               [packageId |-> p, binding |-> BindingFor(replayed, p)],
               department.review.eventId))

\* The bindings a steward can have read: the checksums of packages that have
\* a draft and a review.
PresentBindings == {BindingFor(replayed, p) : p \in {q \in PackageIds :
                        HasDraft(replayed, q) /\ HasReview(replayed, q)}}

DeriveCitizenBrief(actor, id, bindings) ==
    /\ Handles("derive_citizen_brief_v1", actor, "case_steward")
    /\ replayed.recorded
    /\ options.requiredDepartmentIds # {}
    /\ ~BriefIsCurrent(options, replayed)
    /\ ValidateBriefBindings(options, replayed, bindings)
    /\ CommitOne("derive_citizen_brief_v1", actor,
         Event("citizen_brief_derived_v1", actor,
               DeriveBriefProjection(replayed, id, bindings), NoCorrection))

\* briefId is the id of the brief the participation was held on.
RecordAdvisoryParticipation(actor, result, briefId) ==
    /\ Handles("record_advisory_participation_v1", actor, "participation_reviewer")
    /\ replayed.recorded
    /\ BriefIsCurrent(options, replayed)
    /\ replayed.participation.eventId = 0
    /\ briefId = replayed.brief.id
    /\ CommitOne("record_advisory_participation_v1", actor,
         Event("advisory_participation_recorded_v1", actor,
               [result |-> result, brief |-> replayed.brief,
                briefEventId |-> replayed.briefEventId],
               NoCorrection))

RetractAdvisoryParticipation(actor, result) ==
    /\ Handles("retract_advisory_participation_v1", actor, "case_steward")
    /\ replayed.participation.eventId # 0
    /\ ~replayed.participation.retracted
    /\ result = replayed.participation.result
    /\ CommitOne("retract_advisory_participation_v1", actor,
         Event("advisory_participation_retracted_v1", actor,
               [checksum |-> ParticipationChecksum(replayed.participation)],
               replayed.participation.eventId))

\* The brief and the participation the outcome names are the current ones.
RecordReviewedOutcome(actor, outcome, briefId, result) ==
    /\ Handles("record_reviewed_outcome_v1", actor, "case_steward")
    /\ replayed.recorded
    /\ replayed.outcome.eventId = 0
    /\ BriefIsCurrent(options, replayed)
    /\ ParticipationIsCurrent(options, replayed)
    /\ briefId = replayed.brief.id
    /\ result = replayed.participation.result
    /\ CommitOne("record_reviewed_outcome_v1", actor,
         Event("reviewed_outcome_recorded_v1", actor,
               [outcome |-> outcome, brief |-> replayed.brief,
                participation |-> ParticipationChecksum(replayed.participation)],
               NoCorrection))

-----------------------------------------------------------------------------
AssignablePackage ==
    [id : PackageIds, departmentId : Departments,
     assignedAgentActorId : Actors, assignedReviewerActorId : Actors]

Next ==
    \/ \E a \in Actors : IntakeDiscussion(a)
    \/ \E a \in Actors : AdmitSignedSuggestion(a)
    \/ \E a \in Actors : AdmitSignedTopicSuggestion(a)
    \/ \E a \in Actors : AdmitCitizenAdoption(a)
    \/ \E a \in Actors : AdmitSyntheticAdoption(a)
    \/ \E a \in Actors, k \in AssignablePackage : AssignDepartmentPackage(a, k)
    \/ \E a \in Actors, p \in PackageIds, d \in Drafts : RecordDepartmentDraft(a, p, d)
    \/ \E a \in Actors, p \in PackageIds, d \in Drafts, r \in Decisions :
         AttestDepartmentReview(a, p, d, r)
    \/ \E a \in Actors, p \in PackageIds, prior, d \in Drafts :
         CorrectDepartmentDraft(a, p, prior, d)
    \/ \E a \in Actors, p \in PackageIds, d \in Drafts : RetractDepartmentResponse(a, p, d)
    \/ \E a \in Actors, i \in BriefIds, b \in SUBSET PresentBindings :
         DeriveCitizenBrief(a, i, b)
    \/ \E a \in Actors, r \in Participations, i \in BriefIds :
         RecordAdvisoryParticipation(a, r, i)
    \/ \E a \in Actors, r \in Participations : RetractAdvisoryParticipation(a, r)
    \/ \E a \in Actors, o \in Outcomes, i \in BriefIds, r \in Participations :
         RecordReviewedOutcome(a, o, i, r)

Spec == Init /\ [][Next]_vars

-----------------------------------------------------------------------------
\* project: a role reads the case as it stands, at no other version.
Project(visibility) == BuildProjection(options, replayed, visibility)

\* The payloads of the event types, each kept to what replay reads of it.
Payload ==
    {None}
    \cup Package
    \cup [packageId : PackageIds, package : Package, draft : Drafts]
    \cup [packageId : PackageIds, draft : Drafts, decision : Decisions]
    \cup [packageId : PackageIds, package : Package, priorDraft : Drafts, draft : Drafts]
    \cup [packageId : PackageIds, binding : SourceBinding]
    \cup BriefContent
    \cup [result : Participations, brief : BriefContent, briefEventId : Nat]
    \cup [checksum : ParticipationDigest]
    \cup [outcome : Outcomes, brief : BriefContent, participation : ParticipationDigest]

CaseEvent == [eventType : EventTypes, actorId : Actors, payload : Payload, correctionOf : Nat]

IdempotencyEntry ==
    [commandType : CommandTypes, actorId : Actors, expectedCaseVersion : Nat,
     receipt : [caseVersion : Nat, eventIds : SUBSET Nat]]

\* Type invariant: events have known types, registered actors and payloads of
\* a known shape, and the replayed case has the shape of ReplayedCaseState.
TypeOK ==
    /\ options \in OptionRecord
    /\ ValidOptions(options)
    /\ journal \in Seq(CaseEvent)
    /\ replayed \in ReplayedCase
    /\ idempotency \in Seq(IdempotencyEntry)

\* What handle accepts, replayJournal accepts: no accepted command makes the
\* journal refuse to replay.  The two check the same rules in two places, and
\* a disagreement would lock the case for good (every later handle and
\* project throws journal_chain_invalid).
JournalReplayable == Replays(options, replayed)

\* The events of the journal that have one of these types.
EventsOfType(types) == {i \in 1..Len(journal) : journal[i].eventType \in types}

AnswerWithdrawals == {"department_draft_corrected_v1", "department_response_retracted_v1"}
Withdrawals == AnswerWithdrawals \cup {"advisory_participation_retracted_v1"}

\* The last event of type is later than every event of the other types.
LatestSince(type, others) ==
    \E b \in EventsOfType({type}) : \A i \in EventsOfType(others) : i < b

\* A brief is shown as current exactly when one was derived after the last
\* correction or retraction of any department answer, however often the same
\* draft, review and brief were recorded again with the same checksums.
BriefCurrency ==
    BriefIsCurrent(options, replayed)
      <=> LatestSince("citizen_brief_derived_v1", AnswerWithdrawals)

\* A participation result counts exactly as long as nothing it rests on was
\* corrected or retracted after it was recorded, and it was not retracted.
ParticipationCurrency ==
    ParticipationIsCurrent(options, replayed)
      <=> LatestSince("advisory_participation_recorded_v1", Withdrawals)

\* The reviewed outcome is published exactly as long as no answer and no
\* participation it was reviewed on has been withdrawn since.
OutcomeCurrency ==
    OutcomeIsCurrent(options, replayed)
      <=> LatestSince("reviewed_outcome_recorded_v1", Withdrawals)

\* The draft, correction, review and retraction events of package p.
AnswerEvents(p) ==
    {i \in EventsOfType(AnswerWithdrawals \cup
           {"department_draft_recorded_v1", "department_review_attested_v1"}) :
       journal[i].payload.packageId = p}

\* Every department answer the public or the council sees is the draft of one
\* actor of the department, accepted by another actor of it, and nothing has
\* happened to that department's answer since the acceptance.
PublicAnswersFourEyes ==
    \A visibility \in {"public", "council"} :
      \A shown \in Project(visibility).departmentPackages :
        \E d, r \in AnswerEvents(shown.packageId) :
          /\ \A i \in AnswerEvents(shown.packageId) : i <= d \/ i = r
          /\ d < r
          /\ journal[d].eventType \in {"department_draft_recorded_v1",
                                        "department_draft_corrected_v1"}
          /\ journal[d].payload.draft = shown.draft
          /\ journal[r].eventType = "department_review_attested_v1"
          /\ journal[r].payload.draft = shown.draft
          /\ journal[r].payload.decision = "accepted"
          /\ journal[d].actorId # journal[r].actorId
          /\ ActorDepartment[journal[d].actorId] = ActorDepartment[journal[r].actorId]
          /\ ActorDepartment[journal[d].actorId] = DepartmentIdOf(replayed, shown.packageId)

\* The council's dry-run brief counts the answer of every required
\* department, no more and no fewer, and shows up only with a current brief.
CouncilCountsRequired ==
    Project("council").reviewedCitizenBrief = "current" =>
      Project("council").councilDryRunBrief.count = Cardinality(options.requiredDepartmentIds)

\* Once a brief has lost its currency it stays lost: the projection shows a
\* brief as current again only after a new one is derived.
BriefNeverRevives ==
    [][(replayed.briefEventId # 0 /\ ~BriefIsCurrent(options, replayed)
          /\ BriefIsCurrent(options', replayed'))
         => replayed'.briefEventId > replayed.briefEventId]_vars

\* A published outcome or participation that was withdrawn never comes back:
\* neither can be recorded a second time.
WithdrawnForGood ==
    [][/\ (replayed.outcome.eventId # 0 /\ ~OutcomeIsCurrent(options, replayed))
            => ~OutcomeIsCurrent(options', replayed')
       /\ (replayed.participation.eventId # 0 /\ ~ParticipationIsCurrent(options, replayed))
            => ~ParticipationIsCurrent(options', replayed')]_vars
=============================================================================
