------------------------- MODULE CaseCoordinatorProofs -------------------------
(***************************************************************************)
(* Theorems about CaseCoordinator, for every registry, every set of        *)
(* departments, packages and drafts, and journals of every length: its     *)
(* journals replay; then what it calls current, and what it shows to the   *)
(* public and the council.                                                 *)
(***************************************************************************)
EXTENDS PublicKnowledge, FiniteSetTheorems, TLAPS

\* Once a case has a discussion its journal has the two opening events, and
\* before it has one nothing hangs on it.
Opened ==
    /\ replayed.recorded => Len(journal) >= 2
    /\ ~replayed.recorded =>
         /\ replayed.admission = 0
         /\ Assigned(replayed) = {}
         /\ replayed.participation.eventId = 0

\* The inductive invariant behind JournalReplayable.
IInv == TypeOK /\ JournalReplayable /\ Opened

USE RegistryAssumption

-----------------------------------------------------------------------------
\* Lemmas on the replay operators.

\* The empty case is a case, replays, and has no packages.
LEMMA EmptyCaseFacts ==
    /\ EmptyCase \in ReplayedCase
    /\ EmptyCase.valid
    /\ ~EmptyCase.recorded
    /\ EmptyCase.admission = 0
    /\ Assigned(EmptyCase) = {}
<1>1. \A p \in PackageIds : NoPackage(p) \in Package
  BY DEF NoPackage, Package
<1>2. NoDraft \in DraftState /\ NoReview \in ReviewState
  BY DEF NoDraft, DraftState, NoReview, ReviewState
<1>3. NoBriefContent \in BriefContent
  BY DEF NoBriefContent, BriefContent, Titles
<1>4. NoSourceEvents \in [PackageIds -> SourceEvents]
  BY DEF NoSourceEvents, SourceEvents
<1>5. NoParticipation \in ParticipationState
  BY <1>3 DEF NoParticipation, ParticipationState
<1>6. NoOutcome \in OutcomeState
  BY <1>3, <1>5 DEF NoOutcome, OutcomeState, ParticipationChecksum, ParticipationDigest,
                    ParticipationState
<1>7. EmptyCase.departments \in [PackageIds -> DepartmentState]
  BY <1>1, <1>2 DEF EmptyCase, DepartmentState
<1>8. EmptyCase \in ReplayedCase
  BY <1>3, <1>4, <1>5, <1>6, <1>7 DEF EmptyCase, ReplayedCase
<1> QED
  BY <1>8 DEF EmptyCase, Assigned

\* SetAnswer touches nothing but one department's answer.
LEMMA SetAnswerFacts ==
    ASSUME NEW c \in ReplayedCase, NEW p \in Assigned(c), NEW d \in DraftState,
           NEW r \in ReviewState, NEW s \in {"current", "corrected", "retracted"}
    PROVE  /\ SetAnswer(c, p, d, r, s) \in ReplayedCase
           /\ SetAnswer(c, p, d, r, s).valid = c.valid
           /\ SetAnswer(c, p, d, r, s).recorded = c.recorded
           /\ SetAnswer(c, p, d, r, s).admission = c.admission
           /\ Assigned(SetAnswer(c, p, d, r, s)) = Assigned(c)
<1> DEFINE n == SetAnswer(c, p, d, r, s)
<1>1. p \in PackageIds /\ c.departments[p] \in DepartmentState
  BY DEF Assigned, ReplayedCase
<1>2. n.departments = [c.departments EXCEPT ![p] =
         [@ EXCEPT !.draft = d, !.review = r, !.correctionState = s]]
  BY DEF SetAnswer, ReplayedCase
<1> DEFINE a == [c.departments[p] EXCEPT !.draft = d, !.review = r, !.correctionState = s]
<1>a. a \in DepartmentState /\ a.assigned = c.departments[p].assigned
  BY <1>1 DEF DepartmentState
<1>b. c.departments \in [PackageIds -> DepartmentState] /\ n.departments = [c.departments EXCEPT ![p] = a]
  BY <1>2 DEF ReplayedCase
<1> HIDE DEF a
<1>3. n.departments \in [PackageIds -> DepartmentState]
  BY <1>1, <1>a, <1>b
<1>4. n \in ReplayedCase
  BY <1>3 DEF SetAnswer, ReplayedCase
<1>5. \A q \in PackageIds : n.departments[q].assigned = c.departments[q].assigned
  BY <1>1, <1>a, <1>b
<1>6. Assigned(n) = Assigned(c)
  BY <1>5 DEF Assigned
<1> QED
  BY <1>4, <1>6 DEF SetAnswer, ReplayedCase

\* What a committed command does to the variables.
LEMMA CommitFacts ==
    ASSUME TypeOK, NEW type \in CommandTypes, NEW actor \in Actors,
           NEW events \in Seq(CaseEvent), NEW next \in ReplayedCase,
           Commit(type, actor, events, next)
    PROVE  /\ TypeOK'
           /\ Len(journal') = Len(journal) + Len(events)
           /\ replayed' = next
           /\ options' = options
<1> DEFINE entry == [commandType |-> type, actorId |-> actor,
          expectedCaseVersion |-> Len(journal),
          receipt |-> [caseVersion |-> Len(journal) + Len(events),
                       eventIds |-> (Len(journal) + 1)..(Len(journal) + Len(events))]]
<1>1. Len(journal) \in Nat /\ Len(events) \in Nat
  BY DEF TypeOK
<1>2. (Len(journal) + 1)..(Len(journal) + Len(events)) \in SUBSET Nat
  BY <1>1
<1>3. entry \in IdempotencyEntry
  BY <1>1, <1>2 DEF IdempotencyEntry
<1>4. idempotency' \in Seq(IdempotencyEntry)
  BY <1>3 DEF Commit, TypeOK
<1>5. journal' \in Seq(CaseEvent) /\ Len(journal') = Len(journal) + Len(events)
  BY DEF Commit, TypeOK
<1> QED
  BY <1>4, <1>5 DEF Commit, TypeOK

\* A command that appends one event keeps the invariant if replay takes that
\* event.
LEMMA CommitOneFacts ==
    ASSUME IInv, NEW type \in CommandTypes, NEW actor \in Actors, NEW e \in CaseEvent,
           CommitOne(type, actor, e), replayed.recorded,
           NEW next \in ReplayedCase, next = ReplayEvent(options, replayed, Len(journal), e),
           next.recorded, Replays(options, next)
    PROVE  IInv'
<1>1. <<e>> \in Seq(CaseEvent) /\ Len(<<e>>) = 1
  OBVIOUS
<1>2. /\ TypeOK'
      /\ Len(journal') = Len(journal) + 1
      /\ replayed' = next
      /\ options' = options
  BY <1>1, CommitFacts DEF CommitOne, IInv
<1>3. Len(journal) \in Nat /\ Len(journal) >= 2
  BY DEF IInv, TypeOK, Opened
<1> QED
  BY <1>2, <1>3 DEF IInv, JournalReplayable, Opened

\* The lane checks of handle keep out what the lane checks of replay refuse,
\* for a command whose event the synthetic lane counts as a review event.
LEMMA LaneOfReview ==
    ASSUME NEW command \in SyntheticReviewCommands, LaneAllows(command),
           NEW event \in SyntheticReviewEvents, NEW index
    PROVE  ~LaneRefuses(options, index, event)
  BY DEF LaneAllows, LaneRefuses, SyntheticReviewCommands, SyntheticReviewEvents

\* The same for a command that the synthetic lane never allows.
LEMMA LaneOfOthers ==
    ASSUME NEW command, command \notin SyntheticReviewCommands, LaneAllows(command),
           command # "admit_synthetic_adoption_v1",
           NEW event, event \notin {"signed_suggestion_admitted_v1",
                             "signed_topic_suggestion_admitted_v1"},
           NEW index, TypeOK
    PROVE  ~LaneRefuses(options, index, event)
  BY DEF LaneAllows, LaneRefuses

\* A command whose event changes one department's answer.
LEMMA AnswerStep ==
    ASSUME IInv, NEW type \in SyntheticReviewCommands, NEW a \in Actors, NEW e \in CaseEvent,
           CommitOne(type, a, e), NEW p \in Assigned(replayed), NEW d \in DraftState,
           NEW r \in ReviewState, NEW s \in {"current", "corrected", "retracted"},
           ReplayEvent(options, replayed, Len(journal), e) = SetAnswer(replayed, p, d, r, s)
    PROVE  IInv'
<1> DEFINE n == SetAnswer(replayed, p, d, r, s)
<1>1. replayed \in ReplayedCase /\ replayed.valid
  BY DEF IInv, TypeOK, JournalReplayable, Replays
<1>2. n \in ReplayedCase /\ n.valid /\ n.recorded = replayed.recorded
        /\ Assigned(n) = Assigned(replayed)
  BY <1>1, SetAnswerFacts
<1>3. Replays(options, n)
  BY <1>2 DEF Replays, IInv, JournalReplayable
<1>4. replayed.recorded /\ n.recorded
  BY <1>1, <1>2 DEF IInv, Opened, ReplayedCase
<1>5. type \in CommandTypes
  BY DEF CommandTypes
<1> HIDE DEF n
<1> QED
  BY <1>2, <1>3, <1>4, <1>5, CommitOneFacts DEF n

\* The facts every step on department p starts from.
LEMMA DepartmentFacts ==
    ASSUME IInv, NEW p \in PackageIds
    PROVE  /\ replayed \in ReplayedCase
           /\ replayed.valid
           /\ Len(journal) \in Nat
           /\ replayed.departments[p] \in DepartmentState
           /\ replayed.departments[p].departmentPackage \in Package
           /\ replayed.departments[p].draft \in DraftState
           /\ replayed.departments[p].review \in ReviewState
           /\ EventId(Len(journal)) \in Nat \ {0}
           /\ HasDraft(replayed, p) => p \in Assigned(replayed)
  BY DEF IInv, TypeOK, ReplayedCase, JournalReplayable, Replays, DepartmentState, EventId,
         HasDraft, Assigned

\* Recording a department's first draft keeps the invariant.
LEMMA RecordDraftStep ==
    ASSUME IInv, NEW a \in Actors, NEW p \in PackageIds, NEW d \in Drafts,
           RecordDepartmentDraft(a, p, d)
    PROVE  IInv'
<1> DEFINE x == replayed.departments[p].departmentPackage
           e == Event("department_draft_recorded_v1", a,
                      [packageId |-> p, package |-> x, draft |-> d], NoCorrection)
           ds == [draft |-> d, actorId |-> a, eventId |-> EventId(Len(journal))]
           rs == replayed.departments[p].review
<1>1. ds \in DraftState /\ rs \in ReviewState
  BY DepartmentFacts DEF DraftState
<1>2. e \in CaseEvent
  BY DepartmentFacts DEF Event, CaseEvent, NoCorrection, Payload, EventTypes,
                         SyntheticReviewEvents
<1>3. p \in Assigned(replayed)
  BY DEF RecordDepartmentDraft
<1>4. ReplayDraftRecorded(options, replayed, Len(journal), e)
        = SetAnswer(replayed, p, ds, rs, "current")
  BY DepartmentFacts DEF ReplayDraftRecorded, Event, RecordDepartmentDraft, Handles,
                         NoCorrection, IsScoped, IsClass, DepartmentIdOf
<1>5. /\ "record_department_draft_v1" \in SyntheticReviewCommands
      /\ "department_draft_recorded_v1" \in SyntheticReviewEvents
  BY DEF SyntheticReviewCommands, SyntheticReviewEvents
<1>6. ~LaneRefuses(options, Len(journal), "department_draft_recorded_v1")
  BY <1>5, LaneOfReview DEF RecordDepartmentDraft, Handles
<1>7. ReplayEvent(options, replayed, Len(journal), e)
        = SetAnswer(replayed, p, ds, rs, "current")
  BY <1>4, <1>6, DepartmentFacts DEF ReplayEvent, Event
<1>8. CommitOne("record_department_draft_v1", a, e)
  BY DEF RecordDepartmentDraft
<1> HIDE DEF e, ds, rs
<1> QED
  BY <1>1, <1>2, <1>3, <1>5, <1>7, <1>8, AnswerStep

\* Attesting the review of a draft keeps the invariant.
LEMMA AttestReviewStep ==
    ASSUME IInv, NEW a \in Actors, NEW p \in PackageIds, NEW d \in Drafts,
           NEW r \in Decisions, AttestDepartmentReview(a, p, d, r)
    PROVE  IInv'
<1> DEFINE e == Event("department_review_attested_v1", a,
                      [packageId |-> p, draft |-> d, decision |-> r], NoCorrection)
           ds == replayed.departments[p].draft
           rs == [draft |-> d, decision |-> r, actorId |-> a,
                  eventId |-> EventId(Len(journal))]
<1>1. ds \in DraftState /\ rs \in ReviewState
  BY DepartmentFacts DEF ReviewState
<1>2. e \in CaseEvent
  BY DEF Event, CaseEvent, NoCorrection, Payload, EventTypes, SyntheticReviewEvents
<1>3. p \in Assigned(replayed)
  BY DepartmentFacts DEF AttestDepartmentReview
<1>4. ReplayReviewAttested(options, replayed, Len(journal), e)
        = SetAnswer(replayed, p, ds, rs, "current")
  BY DepartmentFacts DEF ReplayReviewAttested, Event, AttestDepartmentReview, Handles,
                         NoCorrection, IsScoped, IsClass, DepartmentIdOf
<1>5. /\ "attest_department_review_v1" \in SyntheticReviewCommands
      /\ "department_review_attested_v1" \in SyntheticReviewEvents
  BY DEF SyntheticReviewCommands, SyntheticReviewEvents
<1>6. ~LaneRefuses(options, Len(journal), "department_review_attested_v1")
  BY <1>5, LaneOfReview DEF AttestDepartmentReview, Handles
<1>7. ReplayEvent(options, replayed, Len(journal), e)
        = SetAnswer(replayed, p, ds, rs, "current")
  BY <1>4, <1>6, DepartmentFacts DEF ReplayEvent, Event
<1>8. CommitOne("attest_department_review_v1", a, e)
  BY DEF AttestDepartmentReview
<1> HIDE DEF e, ds, rs
<1> QED
  BY <1>1, <1>2, <1>3, <1>5, <1>7, <1>8, AnswerStep

\* Correcting an accepted draft keeps the invariant.
LEMMA CorrectDraftStep ==
    ASSUME IInv, NEW a \in Actors, NEW p \in PackageIds, NEW prior \in Drafts,
           NEW d \in Drafts, CorrectDepartmentDraft(a, p, prior, d)
    PROVE  IInv'
<1> DEFINE x == replayed.departments[p].departmentPackage
           e == Event("department_draft_corrected_v1", a,
                      [packageId |-> p, package |-> x, priorDraft |-> prior, draft |-> d],
                      replayed.departments[p].draft.eventId)
           ds == [draft |-> d, actorId |-> a, eventId |-> EventId(Len(journal))]
<1>1. ds \in DraftState /\ NoReview \in ReviewState
  BY DepartmentFacts DEF DraftState, ReviewState, NoReview
<1>2. e \in CaseEvent
  BY DepartmentFacts DEF Event, CaseEvent, Payload, EventTypes, SyntheticReviewEvents,
                         DraftState
<1>3. p \in Assigned(replayed)
  BY DepartmentFacts DEF CorrectDepartmentDraft
<1>4. ReplayDraftCorrected(options, replayed, Len(journal), e)
        = SetAnswer(replayed, p, ds, NoReview, "corrected")
  BY DepartmentFacts DEF ReplayDraftCorrected, Event, CorrectDepartmentDraft, Handles,
                         IsScoped, IsClass, DepartmentIdOf
<1>5. /\ "correct_department_draft_v1" \in SyntheticReviewCommands
      /\ "department_draft_corrected_v1" \in SyntheticReviewEvents
  BY DEF SyntheticReviewCommands, SyntheticReviewEvents
<1>6. ~LaneRefuses(options, Len(journal), "department_draft_corrected_v1")
  BY <1>5, LaneOfReview DEF CorrectDepartmentDraft, Handles
<1>7. ReplayEvent(options, replayed, Len(journal), e)
        = SetAnswer(replayed, p, ds, NoReview, "corrected")
  BY <1>4, <1>6, DepartmentFacts DEF ReplayEvent, Event
<1>8. CommitOne("correct_department_draft_v1", a, e)
  BY DEF CorrectDepartmentDraft
<1> HIDE DEF e, ds
<1> QED
  BY <1>1, <1>2, <1>3, <1>5, <1>7, <1>8, AnswerStep

\* A binding names the package, the draft and the attestation of p.
LEMMA BindingType ==
    ASSUME IInv, NEW p \in PackageIds
    PROVE  BindingFor(replayed, p) \in SourceBinding
  BY DepartmentFacts DEF BindingFor, SourceBinding, DraftState, ReviewState

\* Retracting an accepted answer keeps the invariant.
LEMMA RetractResponseStep ==
    ASSUME IInv, NEW a \in Actors, NEW p \in PackageIds, NEW d \in Drafts,
           RetractDepartmentResponse(a, p, d)
    PROVE  IInv'
<1> DEFINE e == Event("department_response_retracted_v1", a,
                      [packageId |-> p, binding |-> BindingFor(replayed, p)],
                      replayed.departments[p].review.eventId)
<1>1. NoDraft \in DraftState /\ NoReview \in ReviewState
  BY DEF DraftState, NoDraft, ReviewState, NoReview
<1>2. e \in CaseEvent
  BY DepartmentFacts, BindingType DEF Event, CaseEvent, Payload, EventTypes,
                                      SyntheticReviewEvents, ReviewState
<1>3. p \in Assigned(replayed)
  BY DepartmentFacts DEF RetractDepartmentResponse
<1>4. ReplayResponseRetracted(options, replayed, Len(journal), e)
        = SetAnswer(replayed, p, NoDraft, NoReview, "retracted")
  BY DEF ReplayResponseRetracted, Event, RetractDepartmentResponse, Handles, IsClass
<1>5. /\ "retract_department_response_v1" \in SyntheticReviewCommands
      /\ "department_response_retracted_v1" \in SyntheticReviewEvents
  BY DEF SyntheticReviewCommands, SyntheticReviewEvents
<1>6. ~LaneRefuses(options, Len(journal), "department_response_retracted_v1")
  BY <1>5, LaneOfReview DEF RetractDepartmentResponse, Handles
<1>7. ReplayEvent(options, replayed, Len(journal), e)
        = SetAnswer(replayed, p, NoDraft, NoReview, "retracted")
  BY <1>4, <1>6, DepartmentFacts DEF ReplayEvent, Event
<1>8. CommitOne("retract_department_response_v1", a, e)
  BY DEF RetractDepartmentResponse
<1> HIDE DEF e
<1> QED
  BY <1>1, <1>2, <1>3, <1>5, <1>7, <1>8, AnswerStep

\* A step that leaves departments, admission and recorded alone.
LEMMA CaseStep ==
    ASSUME IInv, NEW type \in CommandTypes, NEW a \in Actors, NEW e \in CaseEvent,
           CommitOne(type, a, e), replayed.recorded, NEW n \in ReplayedCase,
           n = ReplayEvent(options, replayed, Len(journal), e),
           n.valid, n.recorded, n.departments = replayed.departments
    PROVE  IInv'
<1>1. Assigned(n) = Assigned(replayed)
  BY DEF Assigned
<1>2. Replays(options, n)
  BY <1>1 DEF Replays, IInv, JournalReplayable
<1> QED
  BY <1>2, CommitOneFacts

\* Deriving a brief from bindings that validate keeps the invariant.
LEMMA DeriveBriefStep ==
    ASSUME IInv, NEW a \in Actors, NEW i \in BriefIds, NEW b \in SUBSET PresentBindings,
           DeriveCitizenBrief(a, i, b)
    PROVE  IInv'
<1> DEFINE brief == DeriveBriefProjection(replayed, i, b)
           e == Event("citizen_brief_derived_v1", a, brief, NoCorrection)
           n == [replayed EXCEPT
                  !.brief = brief,
                  !.briefEventId = EventId(Len(journal)),
                  !.briefSourceEventIds = BriefSourceEventIds(replayed, b)]
<1>0. replayed \in ReplayedCase /\ replayed.valid /\ Len(journal) \in Nat
        /\ replayed.recorded
  BY DEF IInv, TypeOK, JournalReplayable, Replays, DeriveCitizenBrief
<1>1. b \in SUBSET SourceBinding
  BY BindingType DEF PresentBindings
<1>2. brief \in BriefContent
  BY <1>1 DEF DeriveBriefProjection, BriefContent, Title, Titles
<1>3. BriefSourceEventIds(replayed, b) \in [PackageIds -> SourceEvents]
  BY DepartmentFacts DEF BriefSourceEventIds, SourceEvents, DraftState, ReviewState
<1>a. EventId(Len(journal)) \in Nat
  BY <1>0 DEF EventId
<1>4. n \in ReplayedCase /\ n.valid /\ n.recorded /\ n.departments = replayed.departments
  <2> HIDE DEF brief
  <2> QED BY <1>0, <1>2, <1>3, <1>a DEF ReplayedCase
<1>5. e \in CaseEvent
  BY <1>2 DEF Event, CaseEvent, NoCorrection, Payload, EventTypes, SyntheticReviewEvents
<1>6. brief.id = i /\ brief.packageBindings = b
  BY DEF DeriveBriefProjection
<1>7. ReplayBriefDerived(options, replayed, Len(journal), e) = n
  BY <1>0, <1>6 DEF ReplayBriefDerived, Event, DeriveCitizenBrief, Handles, NoCorrection
<1>8. /\ "derive_citizen_brief_v1" \in SyntheticReviewCommands
      /\ "citizen_brief_derived_v1" \in SyntheticReviewEvents
      /\ "derive_citizen_brief_v1" \in CommandTypes
  BY DEF SyntheticReviewCommands, SyntheticReviewEvents, CommandTypes
<1>9. ~LaneRefuses(options, Len(journal), "citizen_brief_derived_v1")
  BY <1>8, LaneOfReview DEF DeriveCitizenBrief, Handles
<1>10. n = ReplayEvent(options, replayed, Len(journal), e)
  BY <1>0, <1>7, <1>9 DEF ReplayEvent, Event
<1>11. CommitOne("derive_citizen_brief_v1", a, e)
  BY DEF DeriveCitizenBrief
<1> HIDE DEF e, n
<1> QED
  BY <1>0, <1>4, <1>5, <1>8, <1>10, <1>11, CaseStep

\* Recording a participation on the current brief keeps the invariant.
LEMMA RecordParticipationStep ==
    ASSUME IInv, NEW a \in Actors, NEW r \in Participations, NEW i \in BriefIds,
           RecordAdvisoryParticipation(a, r, i)
    PROVE  IInv'
<1> DEFINE e == Event("advisory_participation_recorded_v1", a,
                      [result |-> r, brief |-> replayed.brief,
                       briefEventId |-> replayed.briefEventId], NoCorrection)
           q == [result |-> r, brief |-> replayed.brief,
                 briefEventId |-> replayed.briefEventId, actorId |-> a,
                 eventId |-> EventId(Len(journal)), retracted |-> FALSE]
           n == [replayed EXCEPT !.participation = q]
<1>0. replayed \in ReplayedCase /\ replayed.valid /\ Len(journal) \in Nat
        /\ replayed.recorded /\ TypeOK
  BY DEF IInv, TypeOK, JournalReplayable, Replays, RecordAdvisoryParticipation
<1>a. q \in ParticipationState
  BY <1>0 DEF ReplayedCase, ParticipationState, EventId
<1>1. n \in ReplayedCase /\ n.valid /\ n.recorded /\ n.departments = replayed.departments
  <2> HIDE DEF q
  <2> QED BY <1>0, <1>a DEF ReplayedCase
<1>2. e \in CaseEvent
  BY <1>0 DEF ReplayedCase, Event, CaseEvent, NoCorrection, Payload, EventTypes
<1>3. ReplayParticipationRecorded(options, replayed, Len(journal), e) = n
  BY <1>0 DEF ReplayParticipationRecorded, Event, RecordAdvisoryParticipation, Handles,
              NoCorrection
<1>4. /\ "record_advisory_participation_v1" \notin SyntheticReviewCommands
      /\ "record_advisory_participation_v1" \in CommandTypes
  BY DEF SyntheticReviewCommands, CommandTypes
<1>5. ~LaneRefuses(options, Len(journal), "advisory_participation_recorded_v1")
  BY <1>0, <1>4, LaneOfOthers DEF RecordAdvisoryParticipation, Handles
<1>6. n = ReplayEvent(options, replayed, Len(journal), e)
  BY <1>0, <1>3, <1>5 DEF ReplayEvent, Event
<1>7. CommitOne("record_advisory_participation_v1", a, e)
  BY DEF RecordAdvisoryParticipation
<1> HIDE DEF e, n
<1> QED
  BY <1>0, <1>1, <1>2, <1>4, <1>6, <1>7, CaseStep

\* The checksum of a participation is a digest.
LEMMA DigestType ==
    ASSUME IInv
    PROVE  ParticipationChecksum(replayed.participation) \in ParticipationDigest
<1>1. replayed.participation \in ParticipationState
  BY DEF IInv, TypeOK, ReplayedCase
<1> QED
  BY <1>1 DEF ParticipationChecksum, ParticipationDigest, ParticipationState

\* Retracting the participation keeps the invariant.
LEMMA RetractParticipationStep ==
    ASSUME IInv, NEW a \in Actors, NEW r \in Participations,
           RetractAdvisoryParticipation(a, r)
    PROVE  IInv'
<1> DEFINE e == Event("advisory_participation_retracted_v1", a,
                      [checksum |-> ParticipationChecksum(replayed.participation)],
                      replayed.participation.eventId)
           q == [replayed.participation EXCEPT !.retracted = TRUE]
           n == [replayed EXCEPT !.participation = q]
<1>0. replayed \in ReplayedCase /\ replayed.valid /\ Len(journal) \in Nat /\ TypeOK
  BY DEF IInv, TypeOK, JournalReplayable, Replays
<1>1. replayed.participation \in ParticipationState
  BY <1>0 DEF ReplayedCase
<1>2. q \in ParticipationState
  BY <1>1 DEF ParticipationState
<1>3. replayed.recorded
  BY DEF IInv, Opened, RetractAdvisoryParticipation
<1>4. n \in ReplayedCase /\ n.valid /\ n.recorded /\ n.departments = replayed.departments
  <2> HIDE DEF q
  <2> QED BY <1>0, <1>2, <1>3 DEF ReplayedCase
<1>5. e \in CaseEvent
  BY <1>1, DigestType DEF Event, CaseEvent, Payload, EventTypes, ParticipationState
<1>6. ReplayParticipationRetracted(options, replayed, Len(journal), e) = n
  BY <1>0 DEF ReplayParticipationRetracted, Event, RetractAdvisoryParticipation, Handles
<1>7. /\ "retract_advisory_participation_v1" \notin SyntheticReviewCommands
      /\ "retract_advisory_participation_v1" \in CommandTypes
  BY DEF SyntheticReviewCommands, CommandTypes
<1>8. ~LaneRefuses(options, Len(journal), "advisory_participation_retracted_v1")
  BY <1>0, <1>7, LaneOfOthers DEF RetractAdvisoryParticipation, Handles
<1>9. n = ReplayEvent(options, replayed, Len(journal), e)
  BY <1>0, <1>6, <1>8 DEF ReplayEvent, Event
<1>10. CommitOne("retract_advisory_participation_v1", a, e)
  BY DEF RetractAdvisoryParticipation
<1> HIDE DEF e, n
<1> QED
  BY <1>3, <1>4, <1>5, <1>7, <1>9, <1>10, CaseStep

\* Recording an outcome on the current brief and participation keeps the invariant.
LEMMA RecordOutcomeStep ==
    ASSUME IInv, NEW a \in Actors, NEW o \in Outcomes, NEW i \in BriefIds,
           NEW r \in Participations, RecordReviewedOutcome(a, o, i, r)
    PROVE  IInv'
<1> DEFINE sum == ParticipationChecksum(replayed.participation)
           e == Event("reviewed_outcome_recorded_v1", a,
                      [outcome |-> o, brief |-> replayed.brief, participation |-> sum],
                      NoCorrection)
           q == [outcome |-> o, brief |-> replayed.brief, participation |-> sum,
                 eventId |-> EventId(Len(journal))]
           n == [replayed EXCEPT !.outcome = q]
<1>0. replayed \in ReplayedCase /\ replayed.valid /\ Len(journal) \in Nat
        /\ replayed.recorded /\ TypeOK
  BY DEF IInv, TypeOK, JournalReplayable, Replays, RecordReviewedOutcome
<1>a. q \in OutcomeState
  BY <1>0, DigestType DEF ReplayedCase, OutcomeState, EventId
<1>1. n \in ReplayedCase /\ n.valid /\ n.recorded /\ n.departments = replayed.departments
  <2> HIDE DEF q
  <2> QED BY <1>0, <1>a DEF ReplayedCase
<1>2. e \in CaseEvent
  BY <1>0, DigestType DEF ReplayedCase, Event, CaseEvent, NoCorrection, Payload, EventTypes
<1>3. ReplayOutcomeRecorded(options, replayed, Len(journal), e) = n
  BY <1>0 DEF ReplayOutcomeRecorded, Event, RecordReviewedOutcome, Handles, NoCorrection
<1>4. /\ "record_reviewed_outcome_v1" \notin SyntheticReviewCommands
      /\ "record_reviewed_outcome_v1" \in CommandTypes
  BY DEF SyntheticReviewCommands, CommandTypes
<1>5. ~LaneRefuses(options, Len(journal), "reviewed_outcome_recorded_v1")
  BY <1>0, <1>4, LaneOfOthers DEF RecordReviewedOutcome, Handles
<1>6. n = ReplayEvent(options, replayed, Len(journal), e)
  BY <1>0, <1>3, <1>5 DEF ReplayEvent, Event
<1>7. CommitOne("record_reviewed_outcome_v1", a, e)
  BY DEF RecordReviewedOutcome
<1> HIDE DEF e, n
<1> QED
  BY <1>0, <1>1, <1>2, <1>4, <1>6, <1>7, CaseStep

\* Assigning a package keeps the invariant: there is room for one more.
LEMMA AssignStep ==
    ASSUME IInv, NEW a \in Actors, NEW k \in AssignablePackage,
           AssignDepartmentPackage(a, k)
    PROVE  IInv'
<1> DEFINE e == Event("department_package_assigned_v1", a, k, NoCorrection)
           q == [assigned |-> TRUE, departmentPackage |-> k, draft |-> NoDraft,
                 review |-> NoReview, correctionState |-> "current"]
           n == [replayed EXCEPT !.departments[k.id] = q]
<1>0. /\ replayed \in ReplayedCase /\ replayed.valid /\ Len(journal) \in Nat
      /\ replayed.recorded /\ Len(journal) >= 2
      /\ k.id \in PackageIds /\ k \in Package
  BY DEF IInv, TypeOK, JournalReplayable, Replays, AssignDepartmentPackage, Opened,
         AssignablePackage, Package
<1>1. q \in DepartmentState /\ q.assigned
  BY <1>0 DEF DepartmentState, DraftState, NoDraft, ReviewState, NoReview
<1>2. n.departments = [replayed.departments EXCEPT ![k.id] = q]
        /\ replayed.departments \in [PackageIds -> DepartmentState]
  <2> HIDE DEF q
  <2> QED BY <1>0 DEF ReplayedCase
<1>3. n.departments \in [PackageIds -> DepartmentState]
  <2> HIDE DEF q, n
  <2> QED BY <1>0, <1>1, <1>2
<1>4. n \in ReplayedCase /\ n.valid /\ n.recorded
  <2> HIDE DEF q
  <2> QED BY <1>0, <1>3 DEF ReplayedCase
<1>5. Assigned(n) = Assigned(replayed) \cup {k.id}
  <2> HIDE DEF q, n
  <2> QED BY <1>0, <1>1, <1>2 DEF Assigned
<1>6. /\ IsFiniteSet(Assigned(replayed))
      /\ k.id \notin Assigned(replayed)
      /\ Cardinality(Assigned(n)) = Cardinality(Assigned(replayed)) + 1
      /\ Cardinality(Assigned(replayed)) \in Nat
  <2>1. IsFiniteSet(Assigned(replayed))
    BY FS_Subset DEF Assigned
  <2>2. k.id \notin Assigned(replayed)
    BY DEF AssignDepartmentPackage
  <2> QED BY <1>5, <2>1, <2>2, FS_AddElement, FS_CardinalityType
<1>7. Replays(options, n)
  <2> SUFFICES ASSUME options.requiredDepartmentIds # {}
               PROVE  Cardinality(Assigned(n)) <= Cardinality(options.requiredDepartmentIds)
    BY <1>4 DEF Replays
  <2>1. Cardinality(Assigned(replayed)) < Cardinality(options.requiredDepartmentIds)
    BY DEF AssignDepartmentPackage
  <2>2. Cardinality(options.requiredDepartmentIds) \in Nat
    BY FS_Subset, FS_CardinalityType DEF IInv, TypeOK, OptionRecord
  <2> QED BY <1>6, <2>1, <2>2
<1>8. e \in CaseEvent
  BY <1>0 DEF Event, CaseEvent, NoCorrection, Payload, EventTypes, SyntheticReviewEvents
<1>9. ReplayPackageAssigned(options, replayed, Len(journal), e) = n
  BY <1>0 DEF ReplayPackageAssigned, Event, AssignDepartmentPackage, Handles, NoCorrection
<1>10. /\ "assign_department_package_v1" \in SyntheticReviewCommands
       /\ "department_package_assigned_v1" \in SyntheticReviewEvents
       /\ "assign_department_package_v1" \in CommandTypes
  BY DEF SyntheticReviewCommands, SyntheticReviewEvents, CommandTypes
<1>11. ~LaneRefuses(options, Len(journal), "department_package_assigned_v1")
  BY <1>10, LaneOfReview DEF AssignDepartmentPackage, Handles
<1>12. n = ReplayEvent(options, replayed, Len(journal), e)
  BY <1>0, <1>9, <1>11 DEF ReplayEvent, Event
<1>13. CommitOne("assign_department_package_v1", a, e)
  BY DEF AssignDepartmentPackage
<1> HIDE DEF e, n
<1> QED
  BY <1>0, <1>4, <1>7, <1>8, <1>10, <1>12, <1>13, CommitOneFacts

\* Opening a case: after case_created and discussion_recorded the case has a
\* discussion and nothing else.
LEMMA OpeningFacts ==
    ASSUME IInv, NEW a \in Actors, ~replayed.recorded
    PROVE  /\ AfterOpening(a) = [replayed EXCEPT !.recorded = TRUE]
           /\ AfterOpening(a) \in ReplayedCase
           /\ AfterOpening(a).valid
           /\ AfterOpening(a).recorded
           /\ AfterOpening(a).admission = 0
           /\ Assigned(AfterOpening(a)) = {}
           /\ Created(a) \in CaseEvent
           /\ Recorded(a) \in CaseEvent
<1>1. replayed \in ReplayedCase /\ replayed.valid /\ replayed.admission = 0
        /\ Assigned(replayed) = {}
  BY DEF IInv, TypeOK, JournalReplayable, Replays, Opened
<1>2. ReplayEvent(options, replayed, 0, Created(a)) = replayed
  BY <1>1 DEF ReplayEvent, ReplayCaseCreated, Created, Event, LaneRefuses, NoCorrection
<1>a. ReplayEvent(options, replayed, 1, Recorded(a)) = [replayed EXCEPT !.recorded = TRUE]
  BY <1>1 DEF ReplayEvent, ReplayDiscussionRecorded, Recorded, Event, LaneRefuses, NoCorrection
<1>3. AfterOpening(a) = [replayed EXCEPT !.recorded = TRUE]
  BY <1>2, <1>a DEF AfterOpening
<1>4. Created(a) \in CaseEvent /\ Recorded(a) \in CaseEvent
  BY DEF Created, Recorded, Event, CaseEvent, NoCorrection, Payload, EventTypes
<1>5. AfterOpening(a) \in ReplayedCase /\ AfterOpening(a).departments = replayed.departments
        /\ AfterOpening(a).valid /\ AfterOpening(a).recorded /\ AfterOpening(a).admission = 0
  BY <1>1, <1>3 DEF ReplayedCase
<1> QED
  BY <1>1, <1>3, <1>4, <1>5 DEF Assigned

\* A case without packages replays as long as no event was refused.
LEMMA NoPackagesReplay ==
    ASSUME TypeOK, NEW c, c.valid, Assigned(c) = {}
    PROVE  Replays(options, c)
<1>1. Cardinality({}) = 0 /\ options.requiredDepartmentIds \in SUBSET Departments
  BY FS_EmptySet DEF TypeOK, OptionRecord
<1>2. Cardinality(options.requiredDepartmentIds) \in Nat
  BY <1>1, FS_Subset, FS_CardinalityType
<1> QED
  BY <1>1, <1>2 DEF Replays

\* Opening a case from a discussion keeps the invariant.
LEMMA IntakeStep ==
    ASSUME IInv, NEW a \in Actors, IntakeDiscussion(a)
    PROVE  IInv'
<1>1. ~replayed.recorded /\ TypeOK /\ Len(journal) \in Nat
  BY DEF IntakeDiscussion, IInv, TypeOK
<1>2. <<Created(a), Recorded(a)>> \in Seq(CaseEvent) /\ Len(<<Created(a), Recorded(a)>>) = 2
  BY <1>1, OpeningFacts
<1>3. "intake_discussion_v1" \in CommandTypes
  BY DEF CommandTypes
<1>4. /\ TypeOK'
      /\ Len(journal') = Len(journal) + 2
      /\ replayed' = AfterOpening(a)
      /\ options' = options
  <2>1. Commit("intake_discussion_v1", a, <<Created(a), Recorded(a)>>, AfterOpening(a))
    BY DEF IntakeDiscussion
  <2>2. AfterOpening(a) \in ReplayedCase
    BY <1>1, OpeningFacts
  <2> QED BY <1>1, <1>2, <1>3, <2>1, <2>2, CommitFacts
<1>5. Replays(options, AfterOpening(a))
  BY <1>1, OpeningFacts, NoPackagesReplay
<1> QED
  BY <1>1, <1>4, <1>5, OpeningFacts DEF IInv, JournalReplayable, Opened

\* An admission that replay takes as third event of a new case.
LEMMA OpenWithStep ==
    ASSUME IInv, NEW type \in CommandTypes, NEW a \in Actors, NEW e \in CaseEvent,
           ~replayed.recorded, OpenWith(type, a, e),
           ReplayEvent(options, AfterOpening(a), 2, e)
             = [AfterOpening(a) EXCEPT !.admission = EventId(2)]
    PROVE  IInv'
<1> DEFINE n == [AfterOpening(a) EXCEPT !.admission = EventId(2)]
           es == <<Created(a), Recorded(a), e>>
<1>1. TypeOK /\ Len(journal) \in Nat
  BY DEF IInv, TypeOK
<1>2. es \in Seq(CaseEvent) /\ Len(es) = 3
  BY OpeningFacts
<1>3. n \in ReplayedCase /\ n.valid /\ n.recorded
        /\ n.departments = AfterOpening(a).departments
  BY OpeningFacts DEF ReplayedCase, EventId
<1>4. Assigned(n) = {}
  BY <1>3, OpeningFacts DEF Assigned
<1>5. Replays(options, n)
  BY <1>1, <1>3, <1>4, NoPackagesReplay
<1>6. Commit(type, a, es, n)
  BY DEF OpenWith
<1> HIDE DEF n, es
<1>7. /\ TypeOK'
      /\ Len(journal') = Len(journal) + 3
      /\ replayed' = n
      /\ options' = options
  <2>1. n \in ReplayedCase
    BY <1>3
  <2>2. /\ TypeOK'
        /\ Len(journal') = Len(journal) + Len(es)
        /\ replayed' = n
        /\ options' = options
    BY <1>1, <1>2, <1>6, <2>1, CommitFacts
  <2> QED BY <1>2, <2>2
<1> QED
  BY <1>1, <1>3, <1>5, <1>7 DEF IInv, JournalReplayable, Opened

\* Opening a case with a signed topic suggestion keeps the invariant.
LEMMA AdmitTopicStep ==
    ASSUME IInv, NEW a \in Actors, AdmitSignedTopicSuggestion(a)
    PROVE  IInv'
<1> DEFINE e == Event("signed_topic_suggestion_admitted_v1", a, None, NoCorrection)
<1>1. ~replayed.recorded /\ OpenWith("admit_signed_topic_suggestion_v1", a, e)
  BY DEF AdmitSignedTopicSuggestion
<1>2. ~LaneRefuses(options, 2, "signed_topic_suggestion_admitted_v1")
  BY DEF AdmitSignedTopicSuggestion, Handles, LaneAllows, LaneRefuses, SyntheticReviewCommands
<1>3. ReplaySuggestionAdmitted(options, AfterOpening(a), 2, e)
        = [AfterOpening(a) EXCEPT !.admission = EventId(2)]
  BY <1>1, OpeningFacts DEF ReplaySuggestionAdmitted, Event, NoCorrection,
                            AdmitSignedTopicSuggestion, Handles
<1>4. ReplayEvent(options, AfterOpening(a), 2, e)
        = [AfterOpening(a) EXCEPT !.admission = EventId(2)]
  BY <1>1, <1>2, <1>3, OpeningFacts DEF ReplayEvent, Event
<1>5. e \in CaseEvent /\ "admit_signed_topic_suggestion_v1" \in CommandTypes
  BY DEF Event, CaseEvent, NoCorrection, Payload, EventTypes, CommandTypes
<1> HIDE DEF e
<1> QED
  BY <1>1, <1>4, <1>5, OpenWithStep

\* Opening a case with a citizen adoption keeps the invariant.
LEMMA AdmitCitizenStep ==
    ASSUME IInv, NEW a \in Actors, AdmitCitizenAdoption(a)
    PROVE  IInv'
<1> DEFINE e == Event("citizen_adoption_admitted_v1", a, None, NoCorrection)
<1>1. ~replayed.recorded /\ OpenWith("admit_citizen_adoption_v1", a, e)
  BY DEF AdmitCitizenAdoption
<1>2. ~LaneRefuses(options, 2, "citizen_adoption_admitted_v1")
  BY DEF LaneRefuses
<1>3. ReplayAdoptionAdmitted(options, AfterOpening(a), 2, e)
        = [AfterOpening(a) EXCEPT !.admission = EventId(2)]
  BY <1>1, OpeningFacts DEF ReplayAdoptionAdmitted, Event, NoCorrection,
                            AdmitCitizenAdoption, Handles
<1>4. ReplayEvent(options, AfterOpening(a), 2, e)
        = [AfterOpening(a) EXCEPT !.admission = EventId(2)]
  BY <1>1, <1>2, <1>3, OpeningFacts DEF ReplayEvent, Event
<1>5. e \in CaseEvent /\ "admit_citizen_adoption_v1" \in CommandTypes
  BY DEF Event, CaseEvent, NoCorrection, Payload, EventTypes, CommandTypes
<1> HIDE DEF e
<1> QED
  BY <1>1, <1>4, <1>5, OpenWithStep

\* Opening a case with a synthetic adoption keeps the invariant.
LEMMA AdmitSyntheticStep ==
    ASSUME IInv, NEW a \in Actors, AdmitSyntheticAdoption(a)
    PROVE  IInv'
<1> DEFINE e == Event("synthetic_adoption_admitted_v1", a, None, NoCorrection)
<1>1. ~replayed.recorded /\ OpenWith("admit_synthetic_adoption_v1", a, e)
  BY DEF AdmitSyntheticAdoption
<1>2. ~LaneRefuses(options, 2, "synthetic_adoption_admitted_v1")
  BY DEF LaneRefuses
<1>3. ReplayAdoptionAdmitted(options, AfterOpening(a), 2, e)
        = [AfterOpening(a) EXCEPT !.admission = EventId(2)]
  BY <1>1, OpeningFacts DEF ReplayAdoptionAdmitted, Event, NoCorrection,
                            AdmitSyntheticAdoption, Handles
<1>4. ReplayEvent(options, AfterOpening(a), 2, e)
        = [AfterOpening(a) EXCEPT !.admission = EventId(2)]
  BY <1>1, <1>2, <1>3, OpeningFacts DEF ReplayEvent, Event
<1>5. e \in CaseEvent /\ "admit_synthetic_adoption_v1" \in CommandTypes
  BY DEF Event, CaseEvent, NoCorrection, Payload, EventTypes, CommandTypes
<1> HIDE DEF e
<1> QED
  BY <1>1, <1>4, <1>5, OpenWithStep

\* Admitting a signed suggestion into an open case keeps the invariant.
LEMMA AdmitSuggestionStep ==
    ASSUME IInv, NEW a \in Actors, AdmitSignedSuggestion(a)
    PROVE  IInv'
<1> DEFINE e == Event("signed_suggestion_admitted_v1", a, None, NoCorrection)
           n == [replayed EXCEPT !.admission = EventId(Len(journal))]
<1>0. replayed \in ReplayedCase /\ replayed.valid /\ Len(journal) \in Nat
        /\ replayed.recorded
  BY DEF IInv, TypeOK, JournalReplayable, Replays, AdmitSignedSuggestion
<1>1. n \in ReplayedCase /\ n.valid /\ n.recorded /\ n.departments = replayed.departments
  BY <1>0 DEF ReplayedCase, EventId
<1>2. ~LaneRefuses(options, Len(journal), "signed_suggestion_admitted_v1")
  BY DEF AdmitSignedSuggestion, Handles, LaneAllows, LaneRefuses, SyntheticReviewCommands
<1>3. ReplaySuggestionAdmitted(options, replayed, Len(journal), e) = n
  BY DEF ReplaySuggestionAdmitted, Event, NoCorrection, AdmitSignedSuggestion, Handles
<1>4. n = ReplayEvent(options, replayed, Len(journal), e)
  BY <1>0, <1>2, <1>3 DEF ReplayEvent, Event
<1>5. e \in CaseEvent /\ "admit_signed_suggestion_v1" \in CommandTypes
  BY DEF Event, CaseEvent, NoCorrection, Payload, EventTypes, CommandTypes
<1>6. CommitOne("admit_signed_suggestion_v1", a, e)
  BY DEF AdmitSignedSuggestion
<1> HIDE DEF e, n
<1> QED
  BY <1>0, <1>1, <1>4, <1>5, <1>6, CaseStep

-----------------------------------------------------------------------------
\* The invariant holds when the coordinator is constructed.
LEMMA InitIInv == Init => IInv
<1> SUFFICES ASSUME Init PROVE IInv
  OBVIOUS
<1>1. TypeOK
  BY EmptyCaseFacts DEF Init, TypeOK
<1>2. replayed.valid /\ Assigned(replayed) = {} /\ ~replayed.recorded
        /\ replayed.admission = 0 /\ replayed.participation.eventId = 0
  BY EmptyCaseFacts DEF Init, EmptyCase, NoParticipation
<1> QED
  BY <1>1, <1>2, NoPackagesReplay DEF IInv, JournalReplayable, Opened

\* Every command handle accepts preserves it.
LEMMA NextIInv == IInv /\ [Next]_vars => IInv'
<1> SUFFICES ASSUME IInv, [Next]_vars PROVE IInv'
  OBVIOUS
<1>1. CASE UNCHANGED vars
  BY <1>1 DEF vars, IInv, TypeOK, JournalReplayable, Opened
<1>2. CASE Next
  BY <1>2, IntakeStep, AdmitSuggestionStep, AdmitTopicStep, AdmitCitizenStep,
     AdmitSyntheticStep, AssignStep, RecordDraftStep, AttestReviewStep, CorrectDraftStep,
     RetractResponseStep, DeriveBriefStep, RecordParticipationStep,
     RetractParticipationStep, RecordOutcomeStep DEF Next
<1> QED
  BY <1>1, <1>2

\* The events, the replayed case and the receipts keep their types.
THEOREM TypeCorrect == Spec => []TypeOK
<1>1. IInv => TypeOK
  BY DEF IInv
<1> QED
  BY <1>1, InitIInv, NextIInv, PTL DEF Spec

\* No sequence of accepted commands, of any length, by any actors, in any
\* lane, produces a journal that replayJournal refuses.
THEOREM AcceptedJournalsReplay == Spec => []JournalReplayable
<1>1. IInv => JournalReplayable
  BY DEF IInv
<1> QED
  BY <1>1, InitIInv, NextIInv, PTL DEF Spec

-----------------------------------------------------------------------------
(* What is current, and what the public and the council are shown.          *)

Derivations    == EventsOfType({"citizen_brief_derived_v1"})
Participated   == EventsOfType({"advisory_participation_recorded_v1"})
Retractions    == EventsOfType({"advisory_participation_retracted_v1"})
OutcomeEvents  == EventsOfType({"reviewed_outcome_recorded_v1"})
AnswersWithdrawn == EventsOfType(AnswerWithdrawals)

\* The assigned packages are of different departments, all of them required
\* if any is.
PackagesAreDistinct ==
    /\ \A p, q \in Assigned(replayed) :
         DepartmentIdOf(replayed, p) = DepartmentIdOf(replayed, q) => p = q
    /\ options.requiredDepartmentIds # {} =>
         \A p \in Assigned(replayed) : DepartmentIdOf(replayed, p) \in options.requiredDepartmentIds

\* The draft and the review in force are events of the journal, in this order,
\* and no later event touches the answer.
DraftRests(d, r, events, at, dept) ==
    d.eventId # 0 =>
       /\ d.eventId \in events
       /\ at.eventType \in {"department_draft_recorded_v1", "department_draft_corrected_v1"}
       /\ at.payload.draft = d.draft
       /\ at.actorId = d.actorId
       /\ ActorDepartment[d.actorId] = dept
       /\ \A i \in events : i <= d.eventId \/ i = r.eventId
ReviewRests(d, r, events, at, dept) ==
    r.eventId # 0 =>
       /\ d.eventId # 0
       /\ d.eventId < r.eventId
       /\ r.eventId \in events
       /\ at.eventType = "department_review_attested_v1"
       /\ at.payload.draft = d.draft
       /\ at.payload.decision = r.decision
       /\ at.actorId # d.actorId
       /\ ActorDepartment[at.actorId] = dept
AnswerRests(p) ==
    LET d == replayed.departments[p].draft
        r == replayed.departments[p].review
    IN  /\ DraftRests(d, r, AnswerEvents(p), journal[d.eventId], DepartmentIdOf(replayed, p))
        /\ ReviewRests(d, r, AnswerEvents(p), journal[r.eventId], DepartmentIdOf(replayed, p))
AnswersRest == \A p \in PackageIds : AnswerRests(p)

\* The brief in force is the last one derived.
BriefIsLast ==
    IF replayed.briefEventId = 0 THEN Derivations = {}
    ELSE /\ replayed.briefEventId \in Derivations
         /\ \A i \in Derivations : i <= replayed.briefEventId

\* No answer was withdrawn since the brief in force was derived.
Unwithdrawn == \A i \in AnswersWithdrawn : i < replayed.briefEventId

\* A source of the brief that was withdrawn, and perhaps reviewed again since.
Stale(b) ==
    LET r == replayed.departments[b.packageId].review IN
    r.eventId = 0 \/ r.eventId > replayed.briefEventId

\* The brief loses its currency by a withdrawal and by nothing else.
BriefRests ==
    replayed.briefEventId # 0 =>
       /\ \A b \in replayed.brief.packageBindings :
            /\ b.packageId \in PackageIds
            /\ replayed.briefSourceEventIds[b.packageId].reviewEventId # 0
            /\ replayed.briefSourceEventIds[b.packageId].reviewEventId < replayed.briefEventId
       /\ Unwithdrawn =>
            /\ BriefIsCurrent(options, replayed)
            /\ \A b \in replayed.brief.packageBindings : b = BindingFor(replayed, b.packageId)
       /\ ~Unwithdrawn => \E b \in replayed.brief.packageBindings : Stale(b)

\* There is at most one participation; it rests on a brief that was current,
\* and a brief derived after it comes after a withdrawal.
ParticipationRests ==
    LET part == replayed.participation IN
    IF part.eventId = 0 THEN Participated = {} /\ Retractions = {} /\ ~part.retracted
    ELSE /\ Participated = {part.eventId}
         /\ part.briefEventId # 0
         /\ part.briefEventId < part.eventId
         /\ part.briefEventId <= replayed.briefEventId
         /\ part.briefEventId = replayed.briefEventId => part.brief = replayed.brief
         /\ part.briefEventId < replayed.briefEventId =>
              \E i \in AnswersWithdrawn : part.eventId < i
         /\ \A i \in AnswersWithdrawn : i < part.briefEventId \/ part.eventId < i
         /\ part.retracted <=> Retractions # {}
         /\ \A i \in Retractions : part.eventId < i

\* There is at most one outcome; it rests on the participation, and nothing
\* was withdrawn between the two.
OutcomeRests ==
    LET outcome == replayed.outcome
        part == replayed.participation
    IN  IF outcome.eventId = 0 THEN OutcomeEvents = {}
        ELSE /\ OutcomeEvents = {outcome.eventId}
             /\ part.eventId # 0
             /\ part.eventId < outcome.eventId
             /\ outcome.brief = part.brief
             /\ outcome.participation = ParticipationChecksum(part)
             /\ \A i \in EventsOfType(Withdrawals) :
                  i < part.eventId \/ outcome.eventId < i

\* The inductive invariant behind the currency of brief, participation and
\* outcome.
CInv == /\ IInv
        /\ PackagesAreDistinct
        /\ AnswersRest
        /\ BriefIsLast
        /\ BriefRests
        /\ ParticipationRests
        /\ OutcomeRests

-----------------------------------------------------------------------------
\* The shapes of a step.

\* One event is appended, and replay takes it.
Takes(e) ==
    /\ journal' = journal \o <<e>>
    /\ replayed' = ReplayEvent(options, replayed, Len(journal), e)
    /\ options' = options

OpeningTypes ==
    {"case_created_v1", "discussion_recorded_v1", "signed_topic_suggestion_admitted_v1",
     "citizen_adoption_admitted_v1", "synthetic_adoption_admitted_v1"}

\* What the events of the departments and the admissions leave alone.
SameFacts ==
    /\ replayed'.brief = replayed.brief
    /\ replayed'.briefEventId = replayed.briefEventId
    /\ replayed'.briefSourceEventIds = replayed.briefSourceEventIds
    /\ replayed'.participation = replayed.participation
    /\ replayed'.outcome = replayed.outcome

\* The case is opened, with or without an admission.
Opens ==
    /\ journal = <<>>
    /\ ~replayed.recorded
    /\ \A i \in 1..Len(journal') : journal'[i].eventType \in OpeningTypes
    /\ options' = options
    /\ replayed'.departments = replayed.departments
    /\ replayed'.recorded
    /\ SameFacts

\* The answer of p changes and nothing else.
Answers(p, d, r) ==
    /\ p \in Assigned(replayed)
    /\ replayed'.departments[p].assigned = replayed.departments[p].assigned
    /\ replayed'.departments[p].departmentPackage = replayed.departments[p].departmentPackage
    /\ replayed'.departments[p].draft = d
    /\ replayed'.departments[p].review = r
    /\ \A q \in PackageIds : q # p => replayed'.departments[q] = replayed.departments[q]
    /\ replayed'.recorded = replayed.recorded
    /\ replayed'.admission = replayed.admission
    /\ SameFacts

\* A refused event makes the case invalid.
LEMMA RefusedIsInvalid ==
    ASSUME NEW c \in ReplayedCase
    PROVE  ~Refuse(c).valid
  BY DEF Refuse, ReplayedCase

\* SetAnswer changes the answer of p and nothing else.
LEMMA SetAnswerIsAnswer ==
    ASSUME IInv, NEW p \in Assigned(replayed), NEW d, NEW r, NEW s,
           replayed' = SetAnswer(replayed, p, d, r, s)
    PROVE  Answers(p, d, r)
<1>1. /\ p \in PackageIds /\ replayed \in ReplayedCase
      /\ replayed.departments \in [PackageIds -> DepartmentState]
      /\ replayed.departments[p] \in DepartmentState
  BY DEF Assigned, IInv, TypeOK, ReplayedCase
<1>2. /\ SameFacts
      /\ replayed'.recorded = replayed.recorded
      /\ replayed'.admission = replayed.admission
  BY <1>1 DEF SetAnswer, ReplayedCase, SameFacts
<1> DEFINE x == [replayed.departments[p] EXCEPT !.draft = d, !.review = r, !.correctionState = s]
<1>3. /\ x.assigned = replayed.departments[p].assigned
      /\ x.departmentPackage = replayed.departments[p].departmentPackage
      /\ x.draft = d
      /\ x.review = r
  BY <1>1 DEF DepartmentState
<1>4. replayed'.departments = [replayed.departments EXCEPT ![p] = x]
  BY <1>1 DEF SetAnswer, ReplayedCase
<1> HIDE DEF x
<1>5. /\ replayed'.departments[p] = x
      /\ \A q \in PackageIds : q # p => replayed'.departments[q] = replayed.departments[q]
  BY <1>1, <1>4
<1> QED
  BY <1>2, <1>3, <1>5 DEF Answers

\* The new case is the old one after a replay that refused nothing.
LEMMA TakenFacts ==
    ASSUME IInv, IInv', NEW e, Takes(e)
    PROVE  /\ replayed \in ReplayedCase
           /\ replayed'.valid
           /\ ~Refuse(replayed).valid
  BY RefusedIsInvalid DEF IInv, TypeOK, JournalReplayable, Replays

\* Replay takes a draft only from the department, and only if it has none.
LEMMA TakenDraft ==
    ASSUME IInv, IInv', NEW p \in PackageIds, NEW e, Takes(e), e.eventType = "department_draft_recorded_v1"
    PROVE  e.payload.packageId = p =>
             /\ p \in Assigned(replayed)
             /\ ~HasDraft(replayed, p)
             /\ ActorDepartment[e.actorId] = DepartmentIdOf(replayed, p)
             /\ Answers(p, [draft |-> e.payload.draft, actorId |-> e.actorId,
                            eventId |-> EventId(Len(journal))],
                        replayed.departments[p].review)
<1>1. replayed' = ReplayDraftRecorded(options, replayed, Len(journal), e)
  BY TakenFacts DEF Takes, ReplayEvent
<1> QED
  BY <1>1, TakenFacts, SetAnswerIsAnswer DEF ReplayDraftRecorded, IsScoped

\* Replay takes a review of a draft that has none, from another actor of the
\* department.
LEMMA TakenReview ==
    ASSUME IInv, IInv', NEW p \in PackageIds, NEW e, Takes(e), e.eventType = "department_review_attested_v1"
    PROVE  e.payload.packageId = p =>
             /\ p \in Assigned(replayed)
             /\ HasDraft(replayed, p)
             /\ ~HasReview(replayed, p)
             /\ e.payload.draft = replayed.departments[p].draft.draft
             /\ e.actorId # replayed.departments[p].draft.actorId
             /\ ActorDepartment[e.actorId] = DepartmentIdOf(replayed, p)
             /\ Answers(p, replayed.departments[p].draft,
                        [draft |-> e.payload.draft, decision |-> e.payload.decision,
                         actorId |-> e.actorId, eventId |-> EventId(Len(journal))])
<1>1. replayed' = ReplayReviewAttested(options, replayed, Len(journal), e)
  BY TakenFacts DEF Takes, ReplayEvent
<1> QED
  BY <1>1, TakenFacts, SetAnswerIsAnswer DEF ReplayReviewAttested, IsScoped, HasDraft, Assigned

\* Replay takes a correction of an accepted draft, from the department.
LEMMA TakenCorrection ==
    ASSUME IInv, IInv', NEW p \in PackageIds, NEW e, Takes(e), e.eventType = "department_draft_corrected_v1"
    PROVE  e.payload.packageId = p =>
             /\ p \in Assigned(replayed)
             /\ ActorDepartment[e.actorId] = DepartmentIdOf(replayed, p)
             /\ Answers(p, [draft |-> e.payload.draft, actorId |-> e.actorId,
                            eventId |-> EventId(Len(journal))], NoReview)
<1>1. replayed' = ReplayDraftCorrected(options, replayed, Len(journal), e)
  BY TakenFacts DEF Takes, ReplayEvent
<1> QED
  BY <1>1, TakenFacts, SetAnswerIsAnswer DEF ReplayDraftCorrected, IsScoped, HasDraft, Assigned

\* Replay takes the retraction of an accepted answer.
LEMMA TakenRetraction ==
    ASSUME IInv, IInv', NEW p \in PackageIds, NEW e, Takes(e), e.eventType = "department_response_retracted_v1"
    PROVE  e.payload.packageId = p =>
             p \in Assigned(replayed) /\ Answers(p, NoDraft, NoReview)
<1>1. replayed' = ReplayResponseRetracted(options, replayed, Len(journal), e)
  BY TakenFacts DEF Takes, ReplayEvent
<1> QED
  BY <1>1, TakenFacts, SetAnswerIsAnswer DEF ReplayResponseRetracted, HasDraft, Assigned

\* Only the departments change.
Assigns(k) ==
    /\ k.id \notin Assigned(replayed)
    /\ \A p \in Assigned(replayed) : DepartmentIdOf(replayed, p) # k.departmentId
    /\ options.requiredDepartmentIds # {} => k.departmentId \in options.requiredDepartmentIds
    /\ replayed'.departments[k.id] =
         [assigned |-> TRUE, departmentPackage |-> k, draft |-> NoDraft,
          review |-> NoReview, correctionState |-> "current"]
    /\ \A q \in PackageIds : q # k.id => replayed'.departments[q] = replayed.departments[q]
    /\ replayed'.recorded = replayed.recorded
    /\ replayed'.admission = replayed.admission
    /\ SameFacts

\* Replay takes a package of a department that has none.
LEMMA TakenAssignment ==
    ASSUME IInv, IInv', NEW e, Takes(e), e.eventType = "department_package_assigned_v1",
           e.payload.id \in PackageIds
    PROVE  Assigns(e.payload)
<1>1. replayed' = ReplayPackageAssigned(options, replayed, Len(journal), e)
  BY TakenFacts DEF Takes, ReplayEvent
<1> DEFINE x == [assigned |-> TRUE, departmentPackage |-> e.payload, draft |-> NoDraft,
                 review |-> NoReview, correctionState |-> "current"]
<1>2. /\ e.payload.id \notin Assigned(replayed)
      /\ \A p \in Assigned(replayed) : DepartmentIdOf(replayed, p) # e.payload.departmentId
      /\ options.requiredDepartmentIds # {} =>
           e.payload.departmentId \in options.requiredDepartmentIds
      /\ replayed' = [replayed EXCEPT !.departments[e.payload.id] = x]
  BY <1>1, TakenFacts DEF ReplayPackageAssigned
<1> HIDE DEF x
<1>3. /\ replayed'.departments = [replayed.departments EXCEPT ![e.payload.id] = x]
      /\ replayed.departments \in [PackageIds -> DepartmentState]
      /\ SameFacts
      /\ replayed'.recorded = replayed.recorded
      /\ replayed'.admission = replayed.admission
  BY <1>2, TakenFacts DEF ReplayedCase, SameFacts
<1>4. /\ replayed'.departments[e.payload.id] = x
      /\ \A q \in PackageIds : q # e.payload.id =>
           replayed'.departments[q] = replayed.departments[q]
  BY <1>3
<1> QED
  BY <1>2, <1>3, <1>4 DEF Assigns, x

\* The departments and the admission are left alone.
SameDepartments ==
    /\ replayed'.departments = replayed.departments
    /\ replayed'.recorded = replayed.recorded
    /\ replayed'.admission = replayed.admission

\* Replay takes an admission that changes nothing else.
LEMMA TakenAdmission ==
    ASSUME IInv, IInv', NEW e, Takes(e), e.eventType = "signed_suggestion_admitted_v1"
    PROVE  /\ SameFacts
           /\ replayed'.departments = replayed.departments
           /\ replayed'.recorded = replayed.recorded
<1>1. replayed' = ReplaySuggestionAdmitted(options, replayed, Len(journal), e)
  BY TakenFacts DEF Takes, ReplayEvent
<1> QED
  BY <1>1, TakenFacts DEF ReplaySuggestionAdmitted, SameFacts, ReplayedCase

\* Replay takes a brief whose bindings validate.
LEMMA TakenBrief ==
    ASSUME IInv, IInv', NEW e, Takes(e), e.eventType = "citizen_brief_derived_v1"
    PROVE  /\ ValidateBriefBindings(options, replayed, e.payload.packageBindings)
           /\ DeriveBriefProjection(replayed, e.payload.id, e.payload.packageBindings) = e.payload
           /\ replayed'.brief = e.payload
           /\ replayed'.briefEventId = EventId(Len(journal))
           /\ replayed'.briefSourceEventIds =
                BriefSourceEventIds(replayed, e.payload.packageBindings)
           /\ replayed'.participation = replayed.participation
           /\ replayed'.outcome = replayed.outcome
           /\ SameDepartments
<1>1. replayed' = ReplayBriefDerived(options, replayed, Len(journal), e)
  BY TakenFacts DEF Takes, ReplayEvent
<1> QED
  BY <1>1, TakenFacts DEF ReplayBriefDerived, SameDepartments, ReplayedCase

\* Replay takes one participation, on the current brief.
LEMMA TakenParticipation ==
    ASSUME IInv, IInv', NEW e, Takes(e), e.eventType = "advisory_participation_recorded_v1"
    PROVE  /\ replayed.participation.eventId = 0
           /\ BriefIsCurrent(options, replayed)
           /\ replayed'.participation.brief = replayed.brief
           /\ replayed'.participation.briefEventId = replayed.briefEventId
           /\ replayed'.participation.eventId = EventId(Len(journal))
           /\ ~replayed'.participation.retracted
           /\ replayed'.brief = replayed.brief
           /\ replayed'.briefEventId = replayed.briefEventId
           /\ replayed'.briefSourceEventIds = replayed.briefSourceEventIds
           /\ replayed'.outcome = replayed.outcome
           /\ SameDepartments
<1>1. replayed' = ReplayParticipationRecorded(options, replayed, Len(journal), e)
  BY TakenFacts DEF Takes, ReplayEvent
<1> QED
  BY <1>1, TakenFacts DEF ReplayParticipationRecorded, SameDepartments, ReplayedCase

\* Replay takes the retraction of a participation that stands.
LEMMA TakenParticipationRetraction ==
    ASSUME IInv, IInv', NEW e, Takes(e), e.eventType = "advisory_participation_retracted_v1"
    PROVE  /\ replayed.participation.eventId # 0
           /\ replayed'.participation = [replayed.participation EXCEPT !.retracted = TRUE]
           /\ replayed'.brief = replayed.brief
           /\ replayed'.briefEventId = replayed.briefEventId
           /\ replayed'.briefSourceEventIds = replayed.briefSourceEventIds
           /\ replayed'.outcome = replayed.outcome
           /\ SameDepartments
<1>1. replayed' = ReplayParticipationRetracted(options, replayed, Len(journal), e)
  BY TakenFacts DEF Takes, ReplayEvent
<1> QED
  BY <1>1, TakenFacts DEF ReplayParticipationRetracted, SameDepartments, ReplayedCase

\* Replay takes one outcome, on the current participation.
LEMMA TakenOutcome ==
    ASSUME IInv, IInv', NEW e, Takes(e), e.eventType = "reviewed_outcome_recorded_v1"
    PROVE  /\ replayed.outcome.eventId = 0
           /\ ParticipationIsCurrent(options, replayed)
           /\ replayed'.outcome.brief = replayed.brief
           /\ replayed'.outcome.participation = ParticipationChecksum(replayed.participation)
           /\ replayed'.outcome.eventId = EventId(Len(journal))
           /\ replayed'.brief = replayed.brief
           /\ replayed'.briefEventId = replayed.briefEventId
           /\ replayed'.briefSourceEventIds = replayed.briefSourceEventIds
           /\ replayed'.participation = replayed.participation
           /\ SameDepartments
<1>1. replayed' = ReplayOutcomeRecorded(options, replayed, Len(journal), e)
  BY TakenFacts DEF Takes, ReplayEvent
<1> QED
  BY <1>1, TakenFacts DEF ReplayOutcomeRecorded, SameDepartments, ReplayedCase

AnswerTypes ==
    AnswerWithdrawals \cup {"department_draft_recorded_v1", "department_review_attested_v1"}

\* What handle makes sure of beyond what replay checks.
Handled(e) ==
    \/ /\ e.eventType = "signed_suggestion_admitted_v1"
       /\ replayed.briefEventId = 0
    \/ /\ e.eventType = "department_package_assigned_v1"
       /\ e.payload \in AssignablePackage
    \/ /\ e.eventType \in AnswerTypes
       /\ e.payload.packageId \in PackageIds
    \/ /\ e.eventType = "citizen_brief_derived_v1"
       /\ e.payload.packageBindings \subseteq PresentBindings
       /\ ~BriefIsCurrent(options, replayed)
    \/ e.eventType \in {"advisory_participation_recorded_v1",
                        "advisory_participation_retracted_v1", "reviewed_outcome_recorded_v1"}

\* A command that opens a case leaves everything but the opening as it was.
LEMMA OpeningShape ==
    ASSUME IInv, NEW a \in Actors,
           \/ IntakeDiscussion(a) \/ AdmitSignedTopicSuggestion(a)
           \/ AdmitCitizenAdoption(a) \/ AdmitSyntheticAdoption(a)
    PROVE  Opens
<1>1. replayed \in ReplayedCase /\ ~replayed.recorded /\ journal = <<>>
  BY DEF IInv, TypeOK, IntakeDiscussion, AdmitSignedTopicSuggestion, AdmitCitizenAdoption,
         AdmitSyntheticAdoption
<1>2. AfterOpening(a) = [replayed EXCEPT !.recorded = TRUE]
  BY <1>1, OpeningFacts
<1>3. CASE IntakeDiscussion(a)
  <2>1. /\ journal' = journal \o <<Created(a), Recorded(a)>>
        /\ replayed' = AfterOpening(a)
        /\ options' = options
    BY <1>3 DEF IntakeDiscussion, Commit
  <2>2. journal' = <<Created(a), Recorded(a)>>
    BY <1>1, <2>1
  <2>3. \A i \in 1..Len(journal') : journal'[i].eventType \in OpeningTypes
    BY <2>2 DEF Created, Recorded, Event, OpeningTypes
  <2> QED
    BY <1>1, <1>2, <2>1, <2>3 DEF Opens, SameFacts, ReplayedCase
<1>4. CASE \/ AdmitSignedTopicSuggestion(a) \/ AdmitCitizenAdoption(a)
           \/ AdmitSyntheticAdoption(a)
  <2>1. PICK type, e : OpenWith(type, a, e) /\ e.eventType \in
               {"signed_topic_suggestion_admitted_v1", "citizen_adoption_admitted_v1",
                "synthetic_adoption_admitted_v1"}
    BY <1>4 DEF AdmitSignedTopicSuggestion, AdmitCitizenAdoption, AdmitSyntheticAdoption, Event
  <2>2. /\ journal' = journal \o <<Created(a), Recorded(a), e>>
        /\ replayed' = ReplayEvent(options, AfterOpening(a), 2, e)
        /\ options' = options
    BY <2>1 DEF OpenWith, Commit
  <2>3. journal' = <<Created(a), Recorded(a), e>>
    BY <1>1, <2>2
  <2>4. \A i \in 1..Len(journal') : journal'[i].eventType \in OpeningTypes
    BY <2>1, <2>3 DEF Created, Recorded, Event, OpeningTypes
  <2>5. \/ replayed' = Refuse(AfterOpening(a))
        \/ replayed' = [AfterOpening(a) EXCEPT !.admission = EventId(2)]
    BY <2>1, <2>2 DEF ReplayEvent, ReplaySuggestionAdmitted, ReplayAdoptionAdmitted
  <2> QED
    BY <1>1, <1>2, <2>2, <2>4, <2>5 DEF Opens, SameFacts, ReplayedCase, Refuse
<1> QED
  BY <1>3, <1>4

\* Every command opens the case or appends one event.
LEMMA StepShape ==
    ASSUME IInv, Next
    PROVE  Opens \/ \E e : Takes(e) /\ Handled(e)
<1>1. ASSUME NEW a \in Actors, AdmitSignedSuggestion(a)
      PROVE  \E e : Takes(e) /\ Handled(e)
  <2> DEFINE e == Event("signed_suggestion_admitted_v1", a, None, NoCorrection)
  <2>1. Takes(e) /\ replayed.briefEventId = 0 /\ e.eventType = "signed_suggestion_admitted_v1"
    BY <1>1 DEF AdmitSignedSuggestion, CommitOne, Commit, Takes, Event
  <2> QED BY <2>1 DEF Handled
<1>2. ASSUME NEW a \in Actors, NEW k \in AssignablePackage, AssignDepartmentPackage(a, k)
      PROVE  \E e : Takes(e) /\ Handled(e)
  <2> DEFINE e == Event("department_package_assigned_v1", a, k, NoCorrection)
  <2>1. Takes(e) /\ e.payload = k /\ e.eventType = "department_package_assigned_v1"
    BY <1>2 DEF AssignDepartmentPackage, CommitOne, Commit, Takes, Event
  <2> QED BY <2>1 DEF Handled
<1>3. ASSUME NEW a \in Actors, NEW p \in PackageIds,
             \/ \E d \in Drafts : RecordDepartmentDraft(a, p, d)
             \/ \E d \in Drafts, r \in Decisions : AttestDepartmentReview(a, p, d, r)
             \/ \E prior, d \in Drafts : CorrectDepartmentDraft(a, p, prior, d)
             \/ \E d \in Drafts : RetractDepartmentResponse(a, p, d)
      PROVE  \E e : Takes(e) /\ Handled(e)
  <2>1. \E e : Takes(e) /\ e.eventType \in AnswerTypes /\ e.payload.packageId = p
    <3>1. ASSUME NEW type, NEW e, CommitOne(type, a, e), e.eventType \in AnswerTypes,
                 e.payload.packageId = p
          PROVE  \E x : Takes(x) /\ x.eventType \in AnswerTypes /\ x.payload.packageId = p
      BY <3>1 DEF CommitOne, Commit, Takes
    <3>2. \E type, e : /\ CommitOne(type, a, e)
                       /\ e.eventType \in AnswerTypes
                       /\ e.payload.packageId = p
      <4>1. ASSUME NEW d \in Drafts, RecordDepartmentDraft(a, p, d) PROVE <3>2!:
        <5> DEFINE e == Event("department_draft_recorded_v1", a,
                  [packageId |-> p, package |-> replayed.departments[p].departmentPackage,
                   draft |-> d], NoCorrection)
        <5>1. CommitOne("record_department_draft_v1", a, e)
          BY <4>1 DEF RecordDepartmentDraft
        <5>2. e.eventType \in AnswerTypes /\ e.payload.packageId = p
          BY DEF Event, AnswerTypes
        <5> QED BY <5>1, <5>2
      <4>2. ASSUME NEW d \in Drafts, NEW r \in Decisions, AttestDepartmentReview(a, p, d, r)
            PROVE <3>2!:
        <5> DEFINE e == Event("department_review_attested_v1", a,
                  [packageId |-> p, draft |-> d, decision |-> r], NoCorrection)
        <5>1. CommitOne("attest_department_review_v1", a, e)
          BY <4>2 DEF AttestDepartmentReview
        <5>2. e.eventType \in AnswerTypes /\ e.payload.packageId = p
          BY DEF Event, AnswerTypes
        <5> QED BY <5>1, <5>2
      <4>3. ASSUME NEW prior \in Drafts, NEW d \in Drafts,
                   CorrectDepartmentDraft(a, p, prior, d)
            PROVE <3>2!:
        <5> DEFINE e == Event("department_draft_corrected_v1", a,
                  [packageId |-> p, package |-> replayed.departments[p].departmentPackage,
                   priorDraft |-> prior, draft |-> d],
                  replayed.departments[p].draft.eventId)
        <5>1. CommitOne("correct_department_draft_v1", a, e)
          BY <4>3 DEF CorrectDepartmentDraft
        <5>2. e.eventType \in AnswerTypes /\ e.payload.packageId = p
          BY DEF Event, AnswerTypes, AnswerWithdrawals
        <5> QED BY <5>1, <5>2
      <4>4. ASSUME NEW d \in Drafts, RetractDepartmentResponse(a, p, d) PROVE <3>2!:
        <5> DEFINE e == Event("department_response_retracted_v1", a,
                  [packageId |-> p, binding |-> BindingFor(replayed, p)],
                  replayed.departments[p].review.eventId)
        <5>1. CommitOne("retract_department_response_v1", a, e)
          BY <4>4 DEF RetractDepartmentResponse
        <5>2. e.eventType \in AnswerTypes /\ e.payload.packageId = p
          BY DEF Event, AnswerTypes, AnswerWithdrawals
        <5> QED BY <5>1, <5>2
      <4> QED BY <1>3, <4>1, <4>2, <4>3, <4>4
    <3> QED BY <3>1, <3>2
  <2> QED BY <2>1 DEF Handled
<1>4. ASSUME NEW a \in Actors, NEW i \in BriefIds, NEW b \in SUBSET PresentBindings,
             DeriveCitizenBrief(a, i, b)
      PROVE  \E e : Takes(e) /\ Handled(e)
  <2> DEFINE e == Event("citizen_brief_derived_v1", a,
                        DeriveBriefProjection(replayed, i, b), NoCorrection)
  <2>1. Takes(e)
    BY <1>4 DEF DeriveCitizenBrief, CommitOne, Commit, Takes
  <2>2. /\ e.payload.packageBindings = b
        /\ e.eventType = "citizen_brief_derived_v1"
        /\ ~BriefIsCurrent(options, replayed)
    BY <1>4 DEF DeriveCitizenBrief, DeriveBriefProjection, Event
  <2> QED BY <2>1, <2>2 DEF Handled
<1>5. ASSUME NEW a \in Actors,
             \/ \E r \in Participations, i \in BriefIds : RecordAdvisoryParticipation(a, r, i)
             \/ \E r \in Participations : RetractAdvisoryParticipation(a, r)
             \/ \E o \in Outcomes, i \in BriefIds, r \in Participations :
                  RecordReviewedOutcome(a, o, i, r)
      PROVE  \E e : Takes(e) /\ Handled(e)
  <2>1. \E type, e : /\ CommitOne(type, a, e)
                     /\ e.eventType \in {"advisory_participation_recorded_v1",
                          "advisory_participation_retracted_v1", "reviewed_outcome_recorded_v1"}
    <3>1. ASSUME NEW r \in Participations, NEW i \in BriefIds,
                 RecordAdvisoryParticipation(a, r, i)
          PROVE  <2>1!:
      <4> DEFINE e == Event("advisory_participation_recorded_v1", a,
                            [result |-> r, brief |-> replayed.brief,
                             briefEventId |-> replayed.briefEventId], NoCorrection)
      <4>1. CommitOne("record_advisory_participation_v1", a, e)
        BY <3>1 DEF RecordAdvisoryParticipation
      <4>2. e.eventType = "advisory_participation_recorded_v1"
        BY DEF Event
      <4> QED BY <4>1, <4>2
    <3>2. ASSUME NEW r \in Participations, RetractAdvisoryParticipation(a, r)
          PROVE  <2>1!:
      <4> DEFINE e == Event("advisory_participation_retracted_v1", a,
                            [checksum |-> ParticipationChecksum(replayed.participation)],
                            replayed.participation.eventId)
      <4>1. CommitOne("retract_advisory_participation_v1", a, e)
        BY <3>2 DEF RetractAdvisoryParticipation
      <4>2. e.eventType = "advisory_participation_retracted_v1"
        BY DEF Event
      <4> QED BY <4>1, <4>2
    <3>3. ASSUME NEW o \in Outcomes, NEW i \in BriefIds, NEW r \in Participations,
                 RecordReviewedOutcome(a, o, i, r)
          PROVE  <2>1!:
      <4> DEFINE e == Event("reviewed_outcome_recorded_v1", a,
                            [outcome |-> o, brief |-> replayed.brief,
                             participation |-> ParticipationChecksum(replayed.participation)],
                            NoCorrection)
      <4>1. CommitOne("record_reviewed_outcome_v1", a, e)
        BY <3>3 DEF RecordReviewedOutcome
      <4>2. e.eventType = "reviewed_outcome_recorded_v1"
        BY DEF Event
      <4> QED BY <4>1, <4>2
    <3> QED BY <1>5, <3>1, <3>2, <3>3
  <2> QED BY <2>1 DEF CommitOne, Commit, Takes, Handled
<1> QED
  BY OpeningShape, <1>1, <1>2, <1>3, <1>4, <1>5 DEF Next

-----------------------------------------------------------------------------
\* The events of the journal after a step.

\* A taken event is the last one of the journal, and every other one stays.
LEMMA TakenJournal ==
    ASSUME IInv, NEW e, Takes(e)
    PROVE  /\ Len(journal) \in Nat
           /\ Len(journal') = Len(journal) + 1
           /\ journal'[Len(journal) + 1] = e
           /\ \A i \in 1..Len(journal) : journal'[i] = journal[i]
           /\ EventId(Len(journal)) = Len(journal) + 1
<1>1. journal \in Seq(CaseEvent)
  BY DEF IInv, TypeOK
<1> QED
  BY <1>1 DEF Takes, EventId

\* The events of some types after a step.
LEMMA TakenEvents ==
    ASSUME IInv, NEW e, Takes(e), NEW CONSTANT T
    PROVE  /\ e.eventType \in T => EventsOfType(T)' = EventsOfType(T) \cup {Len(journal) + 1}
           /\ e.eventType \notin T => EventsOfType(T)' = EventsOfType(T)
<1>1. Len(journal) \in Nat /\ Len(journal') = Len(journal) + 1
  BY TakenJournal
<1>2. \A i : i \in 1..Len(journal') <=> i \in 1..Len(journal) \/ i = Len(journal) + 1
  BY <1>1
<1> QED
  BY <1>2, <1>1, TakenJournal DEF EventsOfType

\* Event ids are positions of the journal.
LEMMA EventIds ==
    ASSUME IInv, NEW T
    PROVE  \A i \in EventsOfType(T) : i \in Nat /\ i >= 1 /\ i <= Len(journal)
  BY DEF EventsOfType, IInv, TypeOK

\* An opened case has none of the events that currency is about.
LEMMA OpenedEvents ==
    ASSUME Opens, NEW CONSTANT T, T \cap OpeningTypes = {}
    PROVE  EventsOfType(T)' = {}
  BY DEF Opens, EventsOfType

-----------------------------------------------------------------------------
\* What the events leave alone.

\* The types a single appended event has.
LEMMA HandledTypes ==
    ASSUME NEW e, Handled(e)
    PROVE  e.eventType \in
             AnswerTypes \cup
             {"signed_suggestion_admitted_v1", "department_package_assigned_v1",
              "citizen_brief_derived_v1", "advisory_participation_recorded_v1",
              "advisory_participation_retracted_v1", "reviewed_outcome_recorded_v1"}
  BY DEF Handled

\* An event of a department changes the answer of its package.
LEMMA TakenAnswer ==
    ASSUME IInv, IInv', NEW e, Takes(e), Handled(e), e.eventType \in AnswerTypes
    PROVE  /\ e.payload.packageId \in Assigned(replayed)
           /\ \E d, r : Answers(e.payload.packageId, d, r)
<1>1. e.payload.packageId \in PackageIds
  BY DEF Handled, AnswerTypes, AnswerWithdrawals
<1>2. e.eventType \in {"department_draft_recorded_v1", "department_review_attested_v1",
                       "department_draft_corrected_v1", "department_response_retracted_v1"}
  BY DEF AnswerTypes, AnswerWithdrawals
<1>3. CASE e.eventType = "department_draft_recorded_v1"
  BY <1>1, <1>3, TakenDraft
<1>4. CASE e.eventType = "department_review_attested_v1"
  BY <1>1, <1>4, TakenReview
<1>5. CASE e.eventType = "department_draft_corrected_v1"
  BY <1>1, <1>5, TakenCorrection
<1>6. CASE e.eventType = "department_response_retracted_v1"
  BY <1>1, <1>6, TakenRetraction
<1> QED
  BY <1>2, <1>3, <1>4, <1>5, <1>6

\* Only a derivation changes the brief.
LEMMA BriefFrame ==
    ASSUME IInv, IInv', NEW e, Takes(e), Handled(e),
           e.eventType # "citizen_brief_derived_v1"
    PROVE  /\ replayed'.brief = replayed.brief
           /\ replayed'.briefEventId = replayed.briefEventId
           /\ replayed'.briefSourceEventIds = replayed.briefSourceEventIds
<1>1. CASE e.eventType \in AnswerTypes
  BY <1>1, TakenAnswer DEF Answers, SameFacts
<1>2. CASE e.eventType = "department_package_assigned_v1"
  <2>1. e.payload.id \in PackageIds
    BY <1>2 DEF Handled, AssignablePackage, AnswerTypes, AnswerWithdrawals
  <2> QED BY <1>2, <2>1, TakenAssignment DEF Assigns, SameFacts
<1>3. CASE e.eventType = "signed_suggestion_admitted_v1"
  BY <1>3, TakenAdmission DEF SameFacts
<1> QED
  BY <1>1, <1>2, <1>3, HandledTypes, TakenParticipation, TakenParticipationRetraction,
     TakenOutcome

\* Only a recording and a retraction change the participation.
LEMMA ParticipationFrame ==
    ASSUME IInv, IInv', NEW e, Takes(e), Handled(e),
           e.eventType # "advisory_participation_recorded_v1",
           e.eventType # "advisory_participation_retracted_v1"
    PROVE  replayed'.participation = replayed.participation
<1>1. CASE e.eventType \in AnswerTypes
  BY <1>1, TakenAnswer DEF Answers, SameFacts
<1>2. CASE e.eventType = "department_package_assigned_v1"
  <2>1. e.payload.id \in PackageIds
    BY <1>2 DEF Handled, AssignablePackage, AnswerTypes, AnswerWithdrawals
  <2> QED BY <1>2, <2>1, TakenAssignment DEF Assigns, SameFacts
<1>3. CASE e.eventType = "signed_suggestion_admitted_v1"
  BY <1>3, TakenAdmission DEF SameFacts
<1> QED
  BY <1>1, <1>2, <1>3, HandledTypes, TakenBrief, TakenOutcome

\* Only a recording changes the outcome.
LEMMA OutcomeFrame ==
    ASSUME IInv, IInv', NEW e, Takes(e), Handled(e),
           e.eventType # "reviewed_outcome_recorded_v1"
    PROVE  replayed'.outcome = replayed.outcome
<1>1. CASE e.eventType \in AnswerTypes
  BY <1>1, TakenAnswer DEF Answers, SameFacts
<1>2. CASE e.eventType = "department_package_assigned_v1"
  <2>1. e.payload.id \in PackageIds
    BY <1>2 DEF Handled, AssignablePackage, AnswerTypes, AnswerWithdrawals
  <2> QED BY <1>2, <2>1, TakenAssignment DEF Assigns, SameFacts
<1>3. CASE e.eventType = "signed_suggestion_admitted_v1"
  BY <1>3, TakenAdmission DEF SameFacts
<1> QED
  BY <1>1, <1>2, <1>3, HandledTypes, TakenBrief, TakenParticipation,
     TakenParticipationRetraction

\* The departments change by an assignment and by the events of a package.
LEMMA DepartmentsFrame ==
    ASSUME IInv, IInv', NEW e, Takes(e), Handled(e), e.eventType \notin AnswerTypes,
           e.eventType # "department_package_assigned_v1"
    PROVE  replayed'.departments = replayed.departments
  BY HandledTypes, TakenAdmission, TakenBrief, TakenParticipation,
     TakenParticipationRetraction, TakenOutcome DEF SameDepartments

\* A brief stays current as long as the answers under review do not change.
LEMMA CurrencyFrame ==
    ASSUME NEW o, NEW c \in ReplayedCase, NEW n \in ReplayedCase,
           BriefIsCurrent(o, c),
           n.brief = c.brief, n.briefEventId = c.briefEventId,
           n.briefSourceEventIds = c.briefSourceEventIds, n.admission = c.admission,
           \A b \in c.brief.packageBindings : b.packageId \in PackageIds,
           \A q \in PackageIds : HasDraft(c, q) /\ HasReview(c, q) =>
              n.departments[q] = c.departments[q]
    PROVE  BriefIsCurrent(o, n)
<1>1. ASSUME NEW q \in PackageIds, HasDraft(c, q), HasReview(c, q)
      PROVE  /\ HasDraft(n, q) /\ HasReview(n, q)
             /\ BindingFor(n, q) = BindingFor(c, q)
             /\ Reviewed(n, q) <=> Reviewed(c, q)
             /\ q \in Assigned(n)
             /\ DepartmentIdOf(n, q) = DepartmentIdOf(c, q)
  BY <1>1 DEF HasDraft, HasReview, BindingFor, Reviewed, Accepted, Assigned, DepartmentIdOf
<1>2. ValidateBriefBindings(o, n, n.brief.packageBindings)
  <2>1. ASSUME NEW d \in o.requiredDepartmentIds
        PROVE  \E p \in Assigned(n) : /\ DepartmentIdOf(n, p) = d
                                      /\ Reviewed(n, p)
                                      /\ BindingFor(n, p) \in n.brief.packageBindings
    <3>1. PICK p \in Assigned(c) : /\ DepartmentIdOf(c, p) = d
                                   /\ Reviewed(c, p)
                                   /\ BindingFor(c, p) \in c.brief.packageBindings
      BY DEF BriefIsCurrent, ValidateBriefBindings
    <3>2. p \in PackageIds /\ HasDraft(c, p) /\ HasReview(c, p)
      BY <3>1 DEF Assigned, Reviewed, Accepted
    <3> QED BY <1>1, <3>1, <3>2
  <2> QED BY <2>1 DEF BriefIsCurrent, ValidateBriefBindings
<1>3. DeriveBriefProjection(n, n.brief.id, n.brief.packageBindings) = n.brief
  BY DEF BriefIsCurrent, DeriveBriefProjection, Title
<1>4. ASSUME NEW b \in n.brief.packageBindings
      PROVE  /\ HasDraft(n, b.packageId)
             /\ HasReview(n, b.packageId)
             /\ n.departments[b.packageId].draft.eventId
                  = n.briefSourceEventIds[b.packageId].draftEventId
             /\ n.departments[b.packageId].review.eventId
                  = n.briefSourceEventIds[b.packageId].reviewEventId
  <2>1. b.packageId \in PackageIds /\ HasDraft(c, b.packageId) /\ HasReview(c, b.packageId)
    BY DEF BriefIsCurrent
  <2> QED BY <1>1, <2>1 DEF BriefIsCurrent
<1> QED
  BY <1>2, <1>3, <1>4 DEF BriefIsCurrent

-----------------------------------------------------------------------------
\* Each part of the invariant is kept by an appended event.

\* The assigned packages stay of different departments.
LEMMA PackagesStep ==
    ASSUME CInv, IInv', NEW e, Takes(e), Handled(e)
    PROVE  PackagesAreDistinct'
<1>0. IInv /\ options' = options
  BY DEF CInv, Takes
<1>1. CASE e.eventType \in AnswerTypes
  <2>1. /\ Assigned(replayed') = Assigned(replayed)
        /\ \A p \in PackageIds : DepartmentIdOf(replayed', p) = DepartmentIdOf(replayed, p)
    BY <1>0, <1>1, TakenAnswer DEF Answers, Assigned, DepartmentIdOf
  <2> QED BY <1>0, <2>1 DEF CInv, PackagesAreDistinct, Assigned
<1>2. CASE e.eventType = "department_package_assigned_v1"
  <2>1. e.payload.id \in PackageIds
    BY <1>2 DEF Handled, AssignablePackage, AnswerTypes, AnswerWithdrawals
  <2>2. Assigns(e.payload)
    BY <1>0, <1>2, <2>1, TakenAssignment
  <2>3. /\ Assigned(replayed') = Assigned(replayed) \cup {e.payload.id}
        /\ \A p \in Assigned(replayed) : DepartmentIdOf(replayed', p) = DepartmentIdOf(replayed, p)
        /\ DepartmentIdOf(replayed', e.payload.id) = e.payload.departmentId
    BY <2>1, <2>2 DEF Assigns, Assigned, DepartmentIdOf
  <2> QED BY <1>0, <2>2, <2>3 DEF Assigns, CInv, PackagesAreDistinct
<1>3. CASE e.eventType \notin AnswerTypes /\ e.eventType # "department_package_assigned_v1"
  BY <1>0, <1>3, DepartmentsFrame DEF CInv, PackagesAreDistinct, Assigned, DepartmentIdOf
<1> QED
  BY <1>1, <1>2, <1>3

\* Event ids the case keeps are positions of the journal.
LEMMA KeptIds ==
    ASSUME CInv, NEW p \in PackageIds
    PROVE  /\ replayed.departments[p].draft.eventId \in Nat
           /\ replayed.departments[p].review.eventId \in Nat
           /\ replayed.departments[p].draft.eventId <= Len(journal)
           /\ replayed.departments[p].review.eventId <= Len(journal)
<1>1. /\ replayed.departments[p].draft \in DraftState
      /\ replayed.departments[p].review \in ReviewState
      /\ Len(journal) \in Nat
  BY DepartmentFacts DEF CInv
<1>2. \A i \in AnswerEvents(p) : i \in Nat /\ i <= Len(journal)
  BY EventIds DEF CInv, AnswerEvents
<1>3. AnswerRests(p)
  BY DEF CInv, AnswersRest
<1>4. /\ replayed.departments[p].draft.eventId \in Nat
      /\ replayed.departments[p].review.eventId \in Nat
  BY <1>1 DEF DraftState, ReviewState
<1>5. /\ replayed.departments[p].draft.eventId # 0 =>
           replayed.departments[p].draft.eventId \in AnswerEvents(p)
      /\ replayed.departments[p].review.eventId # 0 =>
           replayed.departments[p].review.eventId \in AnswerEvents(p)
  BY <1>3 DEF AnswerRests, DraftRests, ReviewRests
<1> QED
  BY <1>1, <1>2, <1>4, <1>5

\* The events of a package after a step.
LEMMA TakenAnswerEvents ==
    ASSUME IInv, NEW e, Takes(e), NEW CONSTANT q
    PROVE  IF e.eventType \in AnswerTypes /\ e.payload.packageId = q
           THEN AnswerEvents(q)' = AnswerEvents(q) \cup {Len(journal) + 1}
           ELSE AnswerEvents(q)' = AnswerEvents(q)
<1> DEFINE T == AnswerWithdrawals \cup
                {"department_draft_recorded_v1", "department_review_attested_v1"}
<1>1. IF e.eventType \in T
      THEN EventsOfType(T)' = EventsOfType(T) \cup {Len(journal) + 1}
      ELSE EventsOfType(T)' = EventsOfType(T)
  <2> HIDE DEF T
  <2> QED BY TakenEvents DEF T
<1>2. T = AnswerTypes
  BY DEF AnswerTypes
<1>3. \A i \in EventsOfType(T) : i \in 1..Len(journal)
  BY DEF EventsOfType
<1>4. AnswerEvents(q)' = {i \in EventsOfType(T)' : journal'[i].payload.packageId = q}
  BY DEF AnswerEvents
<1>5. AnswerEvents(q) = {i \in EventsOfType(T) : journal[i].payload.packageId = q}
  BY DEF AnswerEvents
<1> HIDE DEF T
<1> QED
  BY <1>1, <1>2, <1>3, <1>4, <1>5, TakenJournal

\* The draft and the review in force stay the last events of their answer.
LEMMA AnswersStep ==
    ASSUME CInv, IInv', NEW e, Takes(e), Handled(e)
    PROVE  AnswersRest'
<1>0. IInv
  BY DEF CInv
<1> SUFFICES ASSUME NEW CONSTANT q \in PackageIds
             PROVE  AnswerRests(q)'
  BY DEF AnswersRest
<1>a. AnswerRests(q)
  BY DEF CInv, AnswersRest
<1>b. \A i \in AnswerEvents(q) : i \in 1..Len(journal)
  BY DEF AnswerEvents, EventsOfType
<1>c. /\ Len(journal) \in Nat
      /\ journal'[Len(journal) + 1] = e
      /\ \A i \in 1..Len(journal) : journal'[i] = journal[i]
      /\ EventId(Len(journal)) = Len(journal) + 1
  BY <1>0, TakenJournal
<1>d. /\ replayed.departments[q].draft.eventId \in Nat
      /\ replayed.departments[q].review.eventId \in Nat
  BY KeptIds
\* Nothing happens to the answer of q.
<1>1. ASSUME AnswerEvents(q)' = AnswerEvents(q),
             replayed'.departments[q] = replayed.departments[q]
      PROVE  AnswerRests(q)'
  <2> DEFINE d == replayed.departments[q].draft
             r == replayed.departments[q].review
             dept == DepartmentIdOf(replayed, q)
  <2>1. DepartmentIdOf(replayed', q) = dept
    BY <1>1 DEF DepartmentIdOf
  <2>2. /\ DraftRests(d, r, AnswerEvents(q), journal[d.eventId], dept)
        /\ ReviewRests(d, r, AnswerEvents(q), journal[r.eventId], dept)
    BY <1>a DEF AnswerRests
  <2>3. DraftRests(d, r, AnswerEvents(q), journal'[d.eventId], dept)
    <3>1. d.eventId # 0 => journal'[d.eventId] = journal[d.eventId]
      BY <1>b, <1>c, <2>2 DEF DraftRests
    <3> HIDE DEF d, r, dept
    <3> QED BY <2>2, <3>1 DEF DraftRests
  <2>4. ReviewRests(d, r, AnswerEvents(q), journal'[r.eventId], dept)
    <3>1. r.eventId # 0 => journal'[r.eventId] = journal[r.eventId]
      BY <1>b, <1>c, <2>2 DEF ReviewRests
    <3> HIDE DEF d, r, dept
    <3> QED BY <2>2, <3>1 DEF ReviewRests
  <2> QED
    BY <1>1, <2>1, <2>3, <2>4 DEF AnswerRests
<1>2. CASE e.eventType \in AnswerTypes /\ e.payload.packageId # q
  <2>1. AnswerEvents(q)' = AnswerEvents(q)
    BY <1>0, <1>2, TakenAnswerEvents
  <2>2. replayed'.departments[q] = replayed.departments[q]
    BY <1>0, <1>2, TakenAnswer DEF Answers
  <2> QED BY <1>1, <2>1, <2>2
<1>3. CASE e.eventType \notin AnswerTypes /\ e.eventType # "department_package_assigned_v1"
  <2>1. AnswerEvents(q)' = AnswerEvents(q)
    BY <1>0, <1>3, TakenAnswerEvents
  <2>2. replayed'.departments[q] = replayed.departments[q]
    BY <1>0, <1>3, DepartmentsFrame
  <2> QED BY <1>1, <2>1, <2>2
<1>4. CASE e.eventType = "department_package_assigned_v1"
  <2>1. e.payload.id \in PackageIds
    BY <1>4 DEF Handled, AssignablePackage, AnswerTypes, AnswerWithdrawals
  <2>2. Assigns(e.payload)
    BY <1>0, <1>4, <2>1, TakenAssignment
  <2>3. AnswerEvents(q)' = AnswerEvents(q)
    BY <1>0, <1>4, TakenAnswerEvents DEF AnswerTypes, AnswerWithdrawals
  <2>4. CASE q = e.payload.id
    <3>1. /\ replayed'.departments[q].draft.eventId = 0
          /\ replayed'.departments[q].review.eventId = 0
      BY <2>2, <2>4 DEF Assigns, NoDraft, NoReview
    <3> QED BY <3>1 DEF AnswerRests, DraftRests, ReviewRests
  <2>5. CASE q # e.payload.id
    BY <1>1, <2>2, <2>3, <2>5 DEF Assigns
  <2> QED BY <2>4, <2>5
<1>5. CASE e.eventType \in AnswerTypes /\ e.payload.packageId = q
  <2>1. AnswerEvents(q)' = AnswerEvents(q) \cup {Len(journal) + 1}
    BY <1>0, <1>5, TakenAnswerEvents
  <2>2. CASE e.eventType = "department_draft_recorded_v1"
    <3>1. /\ replayed.departments[q].draft.eventId = 0
          /\ replayed'.departments[q].draft =
               [draft |-> e.payload.draft, actorId |-> e.actorId, eventId |-> Len(journal) + 1]
          /\ replayed'.departments[q].review = replayed.departments[q].review
          /\ ActorDepartment[e.actorId] = DepartmentIdOf(replayed', q)
      BY <1>0, <1>5, <1>c, <2>2, TakenDraft DEF Answers, HasDraft, DepartmentIdOf, Assigned
    <3>2. replayed.departments[q].review.eventId = 0
      BY <1>a, <3>1 DEF AnswerRests, DraftRests, ReviewRests
    <3> QED
      BY <1>b, <1>c, <2>1, <2>2, <3>1, <3>2 DEF AnswerRests, DraftRests, ReviewRests
  <2>3. CASE e.eventType = "department_draft_corrected_v1"
    <3>1. /\ replayed'.departments[q].draft =
               [draft |-> e.payload.draft, actorId |-> e.actorId, eventId |-> Len(journal) + 1]
          /\ replayed'.departments[q].review.eventId = 0
          /\ ActorDepartment[e.actorId] = DepartmentIdOf(replayed', q)
      BY <1>0, <1>5, <1>c, <2>3, TakenCorrection DEF Answers, DepartmentIdOf, NoReview
    <3> QED
      BY <1>b, <1>c, <2>1, <2>3, <3>1 DEF AnswerRests, DraftRests, ReviewRests
  <2>4. CASE e.eventType = "department_response_retracted_v1"
    <3>1. /\ replayed'.departments[q].draft.eventId = 0
          /\ replayed'.departments[q].review.eventId = 0
      BY <1>0, <1>5, <2>4, TakenRetraction DEF Answers, NoDraft, NoReview
    <3> QED
      BY <3>1 DEF AnswerRests, DraftRests, ReviewRests
  <2>5. CASE e.eventType = "department_review_attested_v1"
    <3>1. /\ replayed'.departments[q].draft = replayed.departments[q].draft
          /\ replayed.departments[q].draft.eventId # 0
          /\ replayed.departments[q].review.eventId = 0
          /\ replayed'.departments[q].review =
               [draft |-> e.payload.draft, decision |-> e.payload.decision,
                actorId |-> e.actorId, eventId |-> Len(journal) + 1]
          /\ e.payload.draft = replayed.departments[q].draft.draft
          /\ e.actorId # replayed.departments[q].draft.actorId
          /\ ActorDepartment[e.actorId] = DepartmentIdOf(replayed', q)
          /\ DepartmentIdOf(replayed', q) = DepartmentIdOf(replayed, q)
      BY <1>0, <1>5, <1>c, <2>5, TakenReview
      DEF Answers, HasDraft, HasReview, DepartmentIdOf, Assigned
    <3> DEFINE n == Len(journal) + 1
               x == replayed.departments[q].draft
               y == replayed'.departments[q].review
               dept == DepartmentIdOf(replayed, q)
    <3>2. DraftRests(x, replayed.departments[q].review, AnswerEvents(q), journal[x.eventId], dept)
      BY <1>a DEF AnswerRests
    <3>3. /\ y.eventId = n /\ y.draft = x.draft /\ y.decision = e.payload.decision
          /\ x.eventId # 0 /\ n \in Nat /\ n # 0
      BY <1>c, <3>1
    <3>4. x.eventId \in 1..Len(journal)
      BY <1>b, <3>2, <3>3 DEF DraftRests
    <3>5. x.eventId < n /\ journal'[x.eventId] = journal[x.eventId] /\ journal'[n] = e
      BY <1>c, <3>4
    <3>6. \A i \in AnswerEvents(q) : i <= x.eventId
      BY <1>b, <3>1, <3>2, <3>3 DEF DraftRests
    <3>7. DraftRests(x, y, AnswerEvents(q) \cup {n}, journal'[x.eventId], dept)
      <4> HIDE DEF n, x, y, dept
      <4> QED BY <3>2, <3>3, <3>5, <3>6 DEF DraftRests
    <3>8. ReviewRests(x, y, AnswerEvents(q) \cup {n}, journal'[n], dept)
      <4>1. e.payload.draft = x.draft /\ e.actorId # x.actorId /\ ActorDepartment[e.actorId] = dept
        BY <3>1
      <4> HIDE DEF n, x, y, dept
      <4> QED BY <2>5, <3>3, <3>5, <4>1 DEF ReviewRests
    <3> QED
      BY <2>1, <3>1, <3>3, <3>7, <3>8 DEF AnswerRests
  <2> QED
    BY <1>5, <2>2, <2>3, <2>4, <2>5 DEF AnswerTypes, AnswerWithdrawals
<1> QED
  BY <1>2, <1>3, <1>4, <1>5

\* The ids of the brief, of the participation and of the outcome are natural
\* numbers, and the events they are of are in the journal.
LEMMA FactIds ==
    ASSUME CInv
    PROVE  /\ replayed.briefEventId \in Nat
           /\ replayed.briefEventId <= Len(journal)
           /\ replayed.participation.eventId \in Nat
           /\ replayed.participation.eventId <= Len(journal)
           /\ replayed.participation.briefEventId \in Nat
           /\ replayed.outcome.eventId \in Nat
           /\ replayed.outcome.eventId <= Len(journal)
           /\ Len(journal) \in Nat
<1>1. IInv /\ replayed \in ReplayedCase /\ Len(journal) \in Nat
  BY DEF CInv, IInv, TypeOK
<1>2. /\ replayed.briefEventId \in Nat
      /\ replayed.participation.eventId \in Nat
      /\ replayed.participation.briefEventId \in Nat
      /\ replayed.outcome.eventId \in Nat
  BY <1>1 DEF ReplayedCase, ParticipationState, OutcomeState
<1>3. /\ \A i \in Derivations : i <= Len(journal)
      /\ \A i \in Participated : i <= Len(journal)
      /\ \A i \in OutcomeEvents : i <= Len(journal)
  BY <1>1, EventIds DEF Derivations, Participated, OutcomeEvents
<1> QED
  BY <1>1, <1>2, <1>3 DEF CInv, BriefIsLast, ParticipationRests, OutcomeRests

\* The brief on file is the last one derived.
LEMMA BriefLastStep ==
    ASSUME CInv, IInv', NEW e, Takes(e), Handled(e)
    PROVE  BriefIsLast'
<1>0. IInv /\ Len(journal) \in Nat /\ EventId(Len(journal)) = Len(journal) + 1
  BY TakenJournal DEF CInv
<1>1. CASE e.eventType = "citizen_brief_derived_v1"
  <2>1. Derivations' = Derivations \cup {Len(journal) + 1}
    BY <1>0, <1>1, TakenEvents DEF Derivations
  <2>2. replayed'.briefEventId = Len(journal) + 1
    BY <1>0, <1>1, TakenBrief
  <2>3. \A i \in Derivations : i \in Nat /\ i <= Len(journal)
    BY <1>0, EventIds DEF Derivations
  <2> QED BY <1>0, <2>1, <2>2, <2>3 DEF BriefIsLast
<1>2. CASE e.eventType # "citizen_brief_derived_v1"
  <2>1. Derivations' = Derivations
    BY <1>0, <1>2, TakenEvents DEF Derivations
  <2>2. replayed'.briefEventId = replayed.briefEventId
    BY <1>0, <1>2, BriefFrame
  <2> QED BY <2>1, <2>2 DEF BriefIsLast, CInv
<1> QED
  BY <1>1, <1>2

\* The package of an answer is a source of every brief that is current.
LEMMA AnswerIsSource ==
    ASSUME CInv, NEW p \in Assigned(replayed), BriefIsCurrent(options, replayed)
    PROVE  /\ BindingFor(replayed, p) \in replayed.brief.packageBindings
           /\ Reviewed(replayed, p)
<1>1. /\ options.requiredDepartmentIds # {}
      /\ DepartmentIdOf(replayed, p) \in options.requiredDepartmentIds
  BY DEF BriefIsCurrent, ValidateBriefBindings, CInv, PackagesAreDistinct
<1>2. PICK q \in Assigned(replayed) :
         /\ DepartmentIdOf(replayed, q) = DepartmentIdOf(replayed, p)
         /\ Reviewed(replayed, q)
         /\ BindingFor(replayed, q) \in replayed.brief.packageBindings
  BY <1>1 DEF BriefIsCurrent, ValidateBriefBindings
<1>3. q = p
  BY <1>2 DEF CInv, PackagesAreDistinct
<1> QED
  BY <1>2, <1>3

\* A current brief has no stale source: nothing was withdrawn since.
LEMMA CurrentIsUnwithdrawn ==
    ASSUME CInv, BriefIsCurrent(options, replayed)
    PROVE  Unwithdrawn
<1>1. replayed.briefEventId # 0
  BY DEF BriefIsCurrent
<1>2. ASSUME NEW b \in replayed.brief.packageBindings
      PROVE  ~Stale(b)
  <2>1. /\ replayed.departments[b.packageId].review.eventId
             = replayed.briefSourceEventIds[b.packageId].reviewEventId
        /\ replayed.briefSourceEventIds[b.packageId].reviewEventId # 0
        /\ replayed.briefSourceEventIds[b.packageId].reviewEventId < replayed.briefEventId
        /\ b.packageId \in PackageIds
    BY <1>1 DEF BriefIsCurrent, CInv, BriefRests
  <2>2. replayed.departments[b.packageId].review.eventId \in Nat /\ replayed.briefEventId \in Nat
    BY <2>1, KeptIds, FactIds
  <2> QED BY <2>1, <2>2 DEF Stale
<1> QED
  BY <1>1, <1>2 DEF CInv, BriefRests

\* A brief is derived from the sources as they stand.
LEMMA DerivedBriefStep ==
    ASSUME CInv, IInv', NEW e, Takes(e), Handled(e), e.eventType = "citizen_brief_derived_v1"
    PROVE  BriefRests'
<1>0. IInv /\ Len(journal) \in Nat /\ EventId(Len(journal)) = Len(journal) + 1
        /\ options' = options
  BY TakenJournal DEF CInv, Takes
<1> DEFINE bs == e.payload.packageBindings
<1>1. /\ ValidateBriefBindings(options, replayed, bs)
      /\ DeriveBriefProjection(replayed, e.payload.id, bs) = e.payload
      /\ replayed'.brief = e.payload
      /\ replayed'.briefEventId = Len(journal) + 1
      /\ replayed'.briefSourceEventIds = BriefSourceEventIds(replayed, bs)
      /\ replayed'.departments = replayed.departments
      /\ replayed'.admission = replayed.admission
  BY <1>0, TakenBrief DEF SameDepartments
<1>2. bs \subseteq PresentBindings
  BY DEF Handled, AnswerTypes, AnswerWithdrawals
<1>3. ASSUME NEW b \in bs
      PROVE  /\ b.packageId \in PackageIds
             /\ HasDraft(replayed, b.packageId)
             /\ HasReview(replayed, b.packageId)
             /\ b = BindingFor(replayed, b.packageId)
             /\ replayed'.briefSourceEventIds[b.packageId].draftEventId
                  = replayed.departments[b.packageId].draft.eventId
             /\ replayed'.briefSourceEventIds[b.packageId].reviewEventId
                  = replayed.departments[b.packageId].review.eventId
  <2>1. PICK p \in PackageIds : /\ HasDraft(replayed, p) /\ HasReview(replayed, p)
                                /\ b = BindingFor(replayed, p)
    BY <1>2 DEF PresentBindings
  <2>2. b.packageId = p
    BY <2>1 DEF BindingFor
  <2>3. BriefSourceEventIds(replayed, bs)[p]
          = [draftEventId  |-> replayed.departments[p].draft.eventId,
             reviewEventId |-> replayed.departments[p].review.eventId]
    BY <2>2 DEF BriefSourceEventIds
  <2> QED BY <1>1, <2>1, <2>2, <2>3
<1>4. ASSUME NEW b \in bs
      PROVE  /\ replayed'.briefSourceEventIds[b.packageId].reviewEventId # 0
             /\ replayed'.briefSourceEventIds[b.packageId].reviewEventId < replayed'.briefEventId
  <2>1. /\ b.packageId \in PackageIds
        /\ replayed.departments[b.packageId].review.eventId # 0
        /\ replayed'.briefSourceEventIds[b.packageId].reviewEventId
             = replayed.departments[b.packageId].review.eventId
    BY <1>3 DEF HasReview
  <2>2. /\ replayed.departments[b.packageId].review.eventId \in Nat
        /\ replayed.departments[b.packageId].review.eventId <= Len(journal)
    BY <2>1, KeptIds
  <2> QED BY <1>0, <1>1, <2>1, <2>2
<1>5. AnswersWithdrawn' = AnswersWithdrawn
  <2>1. e.eventType \notin AnswerWithdrawals
    BY DEF AnswerWithdrawals
  <2> QED BY <1>0, <2>1, TakenEvents DEF AnswersWithdrawn
<1>6. Unwithdrawn'
  BY <1>0, <1>1, <1>5, EventIds DEF Unwithdrawn, AnswersWithdrawn
<1>7. BriefIsCurrent(options', replayed')
  <2>1. ValidateBriefBindings(options', replayed', bs)
    BY <1>0, <1>1 DEF ValidateBriefBindings, Assigned, DepartmentIdOf, Reviewed, HasDraft,
                      HasReview, Accepted, BindingFor
  <2>2. DeriveBriefProjection(replayed', e.payload.id, bs) = e.payload
    BY <1>1 DEF DeriveBriefProjection, Title
  <2>3. replayed'.briefEventId # 0
    BY <1>0, <1>1
  <2>4. \A b \in bs : HasDraft(replayed', b.packageId) /\ HasReview(replayed', b.packageId)
    BY <1>1, <1>3 DEF HasDraft, HasReview
  <2>5. \A b \in bs :
          /\ replayed'.departments[b.packageId].draft.eventId
               = replayed'.briefSourceEventIds[b.packageId].draftEventId
          /\ replayed'.departments[b.packageId].review.eventId
               = replayed'.briefSourceEventIds[b.packageId].reviewEventId
    BY <1>1, <1>3
  <2>6. replayed'.brief.packageBindings = bs /\ replayed'.brief.id = e.payload.id
    BY <1>1
  <2> HIDE DEF bs
  <2> QED BY <1>1, <2>1, <2>2, <2>3, <2>4, <2>5, <2>6 DEF BriefIsCurrent
<1>8. ASSUME NEW b \in bs
      PROVE  b = BindingFor(replayed', b.packageId)
  <2>1. BindingFor(replayed', b.packageId) = BindingFor(replayed, b.packageId)
    BY <1>1 DEF BindingFor
  <2> QED BY <1>3, <2>1
<1> QED
  BY <1>1, <1>3, <1>4, <1>6, <1>7, <1>8 DEF BriefRests

\* A correction or a retraction makes the brief stale, if it was not before.
LEMMA WithdrawalStep ==
    ASSUME CInv, IInv', NEW e, Takes(e), Handled(e), e.eventType \in AnswerWithdrawals
    PROVE  BriefRests'
<1>0. IInv /\ Len(journal) \in Nat
  BY TakenJournal DEF CInv
<1> DEFINE p == e.payload.packageId
<1>1. /\ p \in Assigned(replayed)
      /\ p \in PackageIds
      /\ replayed'.departments[p].review.eventId = 0
      /\ \A q \in PackageIds : q # p => replayed'.departments[q] = replayed.departments[q]
  <2>1. p \in PackageIds
    BY DEF Handled, AnswerTypes, AnswerWithdrawals
  <2>2. p \in Assigned(replayed) /\ \E d : Answers(p, d, NoReview)
    BY <1>0, <2>1, TakenCorrection, TakenRetraction DEF AnswerWithdrawals
  <2> QED BY <2>1, <2>2 DEF Answers, NoReview
<1>2. /\ replayed'.brief = replayed.brief
      /\ replayed'.briefEventId = replayed.briefEventId
      /\ replayed'.briefSourceEventIds = replayed.briefSourceEventIds
  BY <1>0, BriefFrame DEF AnswerWithdrawals
<1> SUFFICES ASSUME replayed.briefEventId # 0
             PROVE  BriefRests'
  BY <1>2 DEF BriefRests
<1>3. ~Unwithdrawn'
  <2>1. AnswersWithdrawn' = AnswersWithdrawn \cup {Len(journal) + 1}
    BY <1>0, TakenEvents DEF AnswersWithdrawn
  <2>2. ~(Len(journal) + 1 < replayed'.briefEventId)
    BY <1>0, <1>2, FactIds
  <2>3. Len(journal) + 1 \in AnswersWithdrawn'
    BY <2>1
  <2> QED BY <2>2, <2>3 DEF Unwithdrawn
<1>4. \E b \in replayed.brief.packageBindings : Stale(b)'
  <2>1. CASE Unwithdrawn
    <3>1. BriefIsCurrent(options, replayed)
      BY <2>1 DEF CInv, BriefRests
    <3>2. BindingFor(replayed, p) \in replayed.brief.packageBindings
      BY <1>1, <3>1, AnswerIsSource
    <3>3. BindingFor(replayed, p).packageId = p
      BY DEF BindingFor
    <3> QED BY <1>1, <3>2, <3>3 DEF Stale
  <2>2. CASE ~Unwithdrawn
    <3>1. PICK b \in replayed.brief.packageBindings : Stale(b) /\ b.packageId \in PackageIds
      BY <2>2 DEF CInv, BriefRests
    <3>2. Stale(b)'
      BY <1>1, <1>2, <3>1 DEF Stale
    <3> QED BY <3>2
  <2> QED BY <2>1, <2>2
<1> QED
  BY <1>2, <1>3, <1>4 DEF BriefRests, CInv

\* No other event changes what the brief rests on.
LEMMA OtherBriefStep ==
    ASSUME CInv, IInv', NEW e, Takes(e), Handled(e), e.eventType \notin AnswerWithdrawals,
           e.eventType # "citizen_brief_derived_v1"
    PROVE  BriefRests'
<1>0. /\ IInv /\ options' = options /\ replayed \in ReplayedCase /\ replayed' \in ReplayedCase
      /\ Len(journal) \in Nat /\ EventId(Len(journal)) = Len(journal) + 1
  BY TakenJournal DEF CInv, Takes, IInv, TypeOK
<1>1. /\ replayed'.brief = replayed.brief
      /\ replayed'.briefEventId = replayed.briefEventId
      /\ replayed'.briefSourceEventIds = replayed.briefSourceEventIds
  BY <1>0, BriefFrame
<1>2. AnswersWithdrawn' = AnswersWithdrawn
  BY <1>0, TakenEvents DEF AnswersWithdrawn
<1>3. Unwithdrawn' <=> Unwithdrawn
  BY <1>1, <1>2 DEF Unwithdrawn
<1> SUFFICES ASSUME replayed.briefEventId # 0
             PROVE  BriefRests'
  BY <1>1 DEF BriefRests
<1>4. /\ \A q \in PackageIds : HasDraft(replayed, q) /\ HasReview(replayed, q) =>
           replayed'.departments[q] = replayed.departments[q]
      /\ \A q \in PackageIds :
           \/ replayed'.departments[q].review.eventId = replayed.departments[q].review.eventId
           \/ replayed'.departments[q].review.eventId \in {0, Len(journal) + 1}
      /\ replayed'.admission = replayed.admission
  <2>1. CASE e.eventType \in AnswerTypes
    <3>1. e.payload.packageId \in PackageIds
      BY <2>1 DEF Handled, AnswerTypes, AnswerWithdrawals
    <3>2. CASE e.eventType = "department_draft_recorded_v1"
      BY <1>0, <3>1, <3>2, TakenDraft DEF Answers
    <3>3. CASE e.eventType = "department_review_attested_v1"
      <4> DEFINE p == e.payload.packageId
      <4>1. /\ ~HasReview(replayed, p)
            /\ replayed'.departments[p].review.eventId = Len(journal) + 1
            /\ \A q \in PackageIds : q # p => replayed'.departments[q] = replayed.departments[q]
            /\ replayed'.admission = replayed.admission
        <5> DEFINE r == [draft |-> e.payload.draft, decision |-> e.payload.decision,
                         actorId |-> e.actorId, eventId |-> EventId(Len(journal))]
        <5>1. ~HasReview(replayed, p) /\ Answers(p, replayed.departments[p].draft, r)
          BY <1>0, <3>1, <3>3, TakenReview
        <5>2. r.eventId = Len(journal) + 1
          BY <1>0
        <5> HIDE DEF r
        <5> QED BY <5>1, <5>2 DEF Answers
      <4> QED BY <4>1
    <3> QED BY <2>1, <3>2, <3>3 DEF AnswerTypes
  <2>2. CASE e.eventType = "department_package_assigned_v1"
    <3>1. e.payload.id \in PackageIds
      BY <2>2 DEF Handled, AssignablePackage, AnswerTypes, AnswerWithdrawals
    <3> DEFINE p == e.payload.id
    <3>2. Assigns(e.payload)
      BY <1>0, <2>2, <3>1, TakenAssignment
    <3>3. /\ ~HasDraft(replayed, p)
          /\ replayed'.departments[p].review.eventId = 0
          /\ \A q \in PackageIds : q # p => replayed'.departments[q] = replayed.departments[q]
          /\ replayed'.admission = replayed.admission
      BY <3>1, <3>2 DEF Assigns, HasDraft, Assigned, NoReview
    <3> QED BY <3>3
  <2>3. CASE e.eventType \notin AnswerTypes /\ e.eventType # "department_package_assigned_v1"
    <3>1. e.eventType # "signed_suggestion_admitted_v1"
      BY DEF Handled, AnswerTypes, AnswerWithdrawals
    <3>2. SameDepartments
      BY <1>0, <2>3, <3>1, HandledTypes, TakenParticipation, TakenParticipationRetraction,
         TakenOutcome
    <3> QED BY <3>2 DEF SameDepartments
  <2> QED BY <2>1, <2>2, <2>3
<1>5. Unwithdrawn => BriefIsCurrent(options', replayed')
  <2> SUFFICES ASSUME Unwithdrawn PROVE BriefIsCurrent(options', replayed')
    OBVIOUS
  <2>1. BriefIsCurrent(options, replayed)
    BY DEF CInv, BriefRests
  <2>2. \A b \in replayed.brief.packageBindings : b.packageId \in PackageIds
    BY DEF CInv, BriefRests
  <2>3. BriefIsCurrent(options, replayed')
    BY <1>0, <1>1, <1>4, <2>1, <2>2, CurrencyFrame
  <2> QED BY <1>0, <2>3
<1>a. Unwithdrawn =>
        \A b \in replayed.brief.packageBindings : b = BindingFor(replayed', b.packageId)
  <2> SUFFICES ASSUME Unwithdrawn, NEW b \in replayed.brief.packageBindings
               PROVE  b = BindingFor(replayed', b.packageId)
    OBVIOUS
  <2>1. /\ BriefIsCurrent(options, replayed)
        /\ b = BindingFor(replayed, b.packageId)
        /\ b.packageId \in PackageIds
    BY DEF CInv, BriefRests
  <2>2. HasDraft(replayed, b.packageId) /\ HasReview(replayed, b.packageId)
    BY <2>1 DEF BriefIsCurrent
  <2>3. replayed'.departments[b.packageId] = replayed.departments[b.packageId]
    BY <1>4, <2>1, <2>2
  <2>4. BindingFor(replayed', b.packageId) = BindingFor(replayed, b.packageId)
    BY <2>3 DEF BindingFor
  <2> QED BY <2>1, <2>4
<1>6. ~Unwithdrawn => \E b \in replayed.brief.packageBindings : Stale(b)'
  <2> SUFFICES ASSUME ~Unwithdrawn
               PROVE  \E b \in replayed.brief.packageBindings : Stale(b)'
    OBVIOUS
  <2>1. PICK b \in replayed.brief.packageBindings : Stale(b) /\ b.packageId \in PackageIds
    BY DEF CInv, BriefRests
  <2>2. replayed.briefEventId \in Nat /\ replayed.briefEventId <= Len(journal)
    BY FactIds
  <2>3. Stale(b)'
    BY <1>0, <1>1, <1>4, <2>1, <2>2 DEF Stale
  <2> QED BY <2>3
<1> QED
  BY <1>1, <1>3, <1>5, <1>a, <1>6 DEF BriefRests, CInv

\* A withdrawal and the recording of what it withdraws are different events.
LEMMA EventsDiffer ==
    ASSUME CInv
    PROVE  /\ \A i \in AnswersWithdrawn : i \notin Derivations /\ i \notin Participated
           /\ \A i \in EventsOfType(Withdrawals) : i \notin Participated /\ i \notin OutcomeEvents
           /\ EventsOfType(Withdrawals) = AnswersWithdrawn \cup Retractions
           /\ \A i \in EventsOfType(Withdrawals) : i \in Nat /\ i >= 1 /\ i <= Len(journal)
<1>1. IInv
  BY DEF CInv
<1> QED
  BY <1>1, EventIds DEF EventsOfType, AnswersWithdrawn, Derivations, Participated, Retractions,
         OutcomeEvents, AnswerWithdrawals, Withdrawals

\* A case records participation once, over a brief that is current then.
LEMMA ParticipationStep ==
    ASSUME CInv, IInv', NEW e, Takes(e), Handled(e)
    PROVE  ParticipationRests'
<1>0. IInv /\ Len(journal) \in Nat /\ EventId(Len(journal)) = Len(journal) + 1
  BY TakenJournal DEF CInv
<1> DEFINE N == Len(journal) + 1
           part == replayed.participation
<1>a. /\ part.eventId \in Nat /\ part.eventId < N
      /\ part.briefEventId \in Nat
      /\ replayed.briefEventId \in Nat /\ replayed.briefEventId < N
  BY <1>0, FactIds
<1>b. \A i \in AnswersWithdrawn : i \in Nat /\ i < N
  BY <1>0, EventIds DEF AnswersWithdrawn
<1>1. CASE e.eventType = "advisory_participation_recorded_v1"
  <2>1. /\ Participated' = Participated \cup {N}
        /\ AnswersWithdrawn' = AnswersWithdrawn
        /\ Retractions' = Retractions
    BY <1>0, <1>1, TakenEvents DEF Participated, AnswersWithdrawn, Retractions,
                                   AnswerWithdrawals
  <2>2. /\ part.eventId = 0
        /\ BriefIsCurrent(options, replayed)
        /\ replayed'.participation.brief = replayed.brief
        /\ replayed'.participation.briefEventId = replayed.briefEventId
        /\ replayed'.participation.eventId = N
        /\ ~replayed'.participation.retracted
        /\ replayed'.brief = replayed.brief
        /\ replayed'.briefEventId = replayed.briefEventId
    BY <1>0, <1>1, TakenParticipation
  <2>3. Participated = {} /\ Retractions = {}
    BY <2>2 DEF CInv, ParticipationRests
  <2>4. /\ replayed.briefEventId # 0
        /\ \A i \in AnswersWithdrawn : i < replayed.briefEventId
    BY <2>2, CurrentIsUnwithdrawn DEF BriefIsCurrent, Unwithdrawn
  <2> QED
    BY <1>0, <1>a, <1>b, <2>1, <2>2, <2>3, <2>4 DEF ParticipationRests
<1>2. CASE e.eventType = "advisory_participation_retracted_v1"
  <2>1. /\ Participated' = Participated
        /\ AnswersWithdrawn' = AnswersWithdrawn
        /\ Retractions' = Retractions \cup {N}
    BY <1>0, <1>2, TakenEvents DEF Participated, AnswersWithdrawn, Retractions,
                                   AnswerWithdrawals
  <2>2. /\ part.eventId # 0
        /\ replayed'.participation = [part EXCEPT !.retracted = TRUE]
        /\ replayed'.brief = replayed.brief
        /\ replayed'.briefEventId = replayed.briefEventId
    BY <1>0, <1>2, TakenParticipationRetraction
  <2>3. part \in ParticipationState
    BY <1>0 DEF IInv, TypeOK, ReplayedCase
  <2>4. /\ replayed'.participation.eventId = part.eventId
        /\ replayed'.participation.brief = part.brief
        /\ replayed'.participation.briefEventId = part.briefEventId
        /\ replayed'.participation.retracted
    BY <2>2, <2>3 DEF ParticipationState
  <2> QED
    BY <1>0, <1>a, <2>1, <2>2, <2>4 DEF ParticipationRests, CInv
<1>3. CASE /\ e.eventType # "advisory_participation_recorded_v1"
           /\ e.eventType # "advisory_participation_retracted_v1"
  <2>1. Participated' = Participated /\ Retractions' = Retractions
    BY <1>0, <1>3, TakenEvents DEF Participated, Retractions
  <2>2. replayed'.participation = part
    BY <1>0, <1>3, ParticipationFrame
  <2> SUFFICES ASSUME part.eventId # 0 PROVE ParticipationRests'
    BY <2>1, <2>2 DEF ParticipationRests, CInv
  <2>3. CASE e.eventType = "citizen_brief_derived_v1"
    <3>1. AnswersWithdrawn' = AnswersWithdrawn
      BY <1>0, <2>3, TakenEvents DEF AnswersWithdrawn, AnswerWithdrawals
    <3>2. replayed'.briefEventId = N /\ ~BriefIsCurrent(options, replayed)
      BY <1>0, <2>3, TakenBrief DEF Handled, AnswerTypes, AnswerWithdrawals
    <3>3. \E i \in AnswersWithdrawn : part.eventId < i
      <4>1. CASE part.briefEventId < replayed.briefEventId
        BY <4>1 DEF CInv, ParticipationRests
      <4>2. CASE part.briefEventId = replayed.briefEventId
        <5>1. replayed.briefEventId # 0
          BY <4>2 DEF CInv, ParticipationRests
        <5>2. ~Unwithdrawn
          BY <3>2, <5>1 DEF CInv, BriefRests
        <5>3. PICK i \in AnswersWithdrawn : ~(i < part.briefEventId)
          BY <4>2, <5>2 DEF Unwithdrawn
        <5> QED BY <5>3 DEF CInv, ParticipationRests
      <4> QED BY <1>a, <4>1, <4>2 DEF CInv, ParticipationRests
    <3>4. part.briefEventId <= N /\ part.briefEventId # N
      BY <1>0, <1>a DEF CInv, ParticipationRests
    <3> QED
      BY <2>1, <2>2, <3>1, <3>2, <3>3, <3>4 DEF CInv, ParticipationRests
  <2>4. CASE e.eventType # "citizen_brief_derived_v1"
    <3>1. replayed'.brief = replayed.brief /\ replayed'.briefEventId = replayed.briefEventId
      BY <1>0, <2>4, BriefFrame
    <3>2. \/ AnswersWithdrawn' = AnswersWithdrawn
          \/ AnswersWithdrawn' = AnswersWithdrawn \cup {N}
      BY <1>0, TakenEvents DEF AnswersWithdrawn
    <3> QED
      BY <1>0, <1>a, <2>1, <2>2, <3>1, <3>2 DEF CInv, ParticipationRests
  <2> QED BY <2>3, <2>4
<1> QED
  BY <1>1, <1>2, <1>3

\* A current participation is later than every withdrawal.
LEMMA CurrentParticipation ==
    ASSUME CInv, ParticipationIsCurrent(options, replayed)
    PROVE  /\ replayed.participation.eventId # 0
           /\ replayed.participation.brief = replayed.brief
           /\ \A i \in EventsOfType(Withdrawals) : i < replayed.participation.eventId
<1> DEFINE part == replayed.participation
<1>1. /\ part.eventId # 0
      /\ part.brief = replayed.brief
      /\ part.briefEventId = replayed.briefEventId
      /\ ~part.retracted
      /\ BriefIsCurrent(options, replayed)
  BY DEF ParticipationIsCurrent
<1>2. Retractions = {} /\ part.briefEventId < part.eventId
  BY <1>1 DEF CInv, ParticipationRests
<1>3. \A i \in AnswersWithdrawn : i < part.briefEventId
  BY <1>1, CurrentIsUnwithdrawn DEF Unwithdrawn
<1>4. /\ part.eventId \in Nat /\ part.briefEventId \in Nat
      /\ EventsOfType(Withdrawals) = AnswersWithdrawn \cup Retractions
      /\ \A i \in EventsOfType(Withdrawals) : i \in Nat
  BY FactIds, EventsDiffer
<1> HIDE DEF part
<1>5. \A i \in EventsOfType(Withdrawals) : i < part.eventId
  BY <1>2, <1>3, <1>4
<1> QED
  BY <1>1, <1>5 DEF part

\* A case records one outcome, over a participation that nothing has disturbed.
LEMMA OutcomeStep ==
    ASSUME CInv, IInv', NEW e, Takes(e), Handled(e)
    PROVE  OutcomeRests'
<1>0. IInv /\ Len(journal) \in Nat /\ EventId(Len(journal)) = Len(journal) + 1
  BY TakenJournal DEF CInv
<1> DEFINE N == Len(journal) + 1
           part == replayed.participation
           outcome == replayed.outcome
<1>a. /\ part.eventId \in Nat /\ part.eventId < N
      /\ outcome.eventId \in Nat /\ outcome.eventId < N
  BY <1>0, FactIds
<1>1. CASE e.eventType = "reviewed_outcome_recorded_v1"
  <2>1. /\ OutcomeEvents' = OutcomeEvents \cup {N}
        /\ EventsOfType(Withdrawals)' = EventsOfType(Withdrawals)
    BY <1>0, <1>1, TakenEvents DEF OutcomeEvents, AnswerWithdrawals, Withdrawals
  <2>2. /\ outcome.eventId = 0
        /\ ParticipationIsCurrent(options, replayed)
        /\ replayed'.outcome.brief = replayed.brief
        /\ replayed'.outcome.participation = ParticipationChecksum(part)
        /\ replayed'.outcome.eventId = N
        /\ replayed'.participation = part
    BY <1>0, <1>1, TakenOutcome
  <2>3. OutcomeEvents = {}
    BY <2>2 DEF CInv, OutcomeRests
  <2>4. /\ part.eventId # 0
        /\ part.brief = replayed.brief
        /\ \A i \in EventsOfType(Withdrawals) : i < part.eventId
    BY <2>2, CurrentParticipation
  <2> QED
    BY <1>0, <1>a, <2>1, <2>2, <2>3, <2>4 DEF OutcomeRests
<1>2. CASE e.eventType # "reviewed_outcome_recorded_v1"
  <2>1. OutcomeEvents' = OutcomeEvents /\ replayed'.outcome = outcome
    BY <1>0, <1>2, TakenEvents, OutcomeFrame DEF OutcomeEvents
  <2> SUFFICES ASSUME outcome.eventId # 0 PROVE OutcomeRests'
    BY <2>1 DEF CInv, OutcomeRests
  <2>2. \/ EventsOfType(Withdrawals)' = EventsOfType(Withdrawals)
        \/ EventsOfType(Withdrawals)' = EventsOfType(Withdrawals) \cup {N}
    BY <1>0, TakenEvents
  <2>3. /\ replayed'.participation.eventId = part.eventId
        /\ replayed'.participation.brief = part.brief
        /\ ParticipationChecksum(replayed'.participation) = ParticipationChecksum(part)
    <3>1. part.eventId # 0 /\ part \in ParticipationState
      BY <1>0 DEF CInv, OutcomeRests, IInv, TypeOK, ReplayedCase
    <3>2. CASE e.eventType = "advisory_participation_recorded_v1"
      BY <1>0, <3>1, <3>2, TakenParticipation
    <3>3. CASE e.eventType = "advisory_participation_retracted_v1"
      BY <1>0, <3>1, <3>3, TakenParticipationRetraction
      DEF ParticipationState, ParticipationChecksum
    <3>4. CASE /\ e.eventType # "advisory_participation_recorded_v1"
               /\ e.eventType # "advisory_participation_retracted_v1"
      BY <1>0, <3>4, ParticipationFrame
    <3> QED BY <3>2, <3>3, <3>4
  <2> QED
    BY <1>0, <1>a, <2>1, <2>2, <2>3 DEF CInv, OutcomeRests
<1> QED
  BY <1>1, <1>2

-----------------------------------------------------------------------------
\* The empty journal and the journal of a case just opened.

\* As long as there is no event of theirs, the case has no answers, no brief,
\* no participation and no outcome.
Bare ==
    /\ \A p \in PackageIds : /\ replayed.departments[p].draft.eventId = 0
                             /\ replayed.departments[p].review.eventId = 0
    /\ replayed.briefEventId = 0
    /\ replayed.participation.eventId = 0
    /\ ~replayed.participation.retracted
    /\ replayed.outcome.eventId = 0

NoFacts == /\ Derivations = {} /\ Participated = {}
           /\ Retractions = {} /\ OutcomeEvents = {}

\* A case without facts satisfies the invariant.
LEMMA BareInvariant ==
    Bare /\ NoFacts =>
      AnswersRest /\ BriefIsLast /\ BriefRests /\ ParticipationRests /\ OutcomeRests
  BY DEF Bare, NoFacts, AnswersRest, AnswerRests, DraftRests, ReviewRests, BriefIsLast, BriefRests,
         ParticipationRests, OutcomeRests

\* An empty journal has no events.
LEMMA NoEvents ==
    ASSUME journal = <<>>, NEW T
    PROVE  EventsOfType(T) = {}
  BY DEF EventsOfType

\* Opening the case leaves it without facts.
LEMMA OpensStep ==
    ASSUME CInv, IInv', Opens
    PROVE  CInv'
<1>1. journal = <<>>
  BY DEF Opens
<1>2. Bare
  <2>1. NoFacts
    BY <1>1, NoEvents DEF NoFacts, Derivations, Participated, Retractions, OutcomeEvents
  <2>2. \A p \in PackageIds : AnswerEvents(p) = {}
    BY <1>1, NoEvents DEF AnswerEvents
  <2>3. /\ replayed.briefEventId = 0
        /\ replayed.participation.eventId = 0
        /\ ~replayed.participation.retracted
        /\ replayed.outcome.eventId = 0
    BY <2>1 DEF NoFacts, CInv, BriefIsLast, ParticipationRests, OutcomeRests
  <2>4. \A p \in PackageIds : /\ replayed.departments[p].draft.eventId = 0
                              /\ replayed.departments[p].review.eventId = 0
    BY <2>2 DEF CInv, AnswersRest, AnswerRests, DraftRests, ReviewRests
  <2> QED BY <2>3, <2>4 DEF Bare
<1>3. Bare'
  BY <1>2 DEF Bare, Opens, SameFacts
<1>4. NoFacts'
  BY OpenedEvents DEF NoFacts, Derivations, Participated, Retractions, OutcomeEvents,
                      OpeningTypes
<1>5. AnswersRest' /\ BriefIsLast' /\ BriefRests' /\ ParticipationRests' /\ OutcomeRests'
  BY <1>3, <1>4, BareInvariant, PTL
<1>6. PackagesAreDistinct'
  BY DEF Opens, CInv, PackagesAreDistinct, Assigned, DepartmentIdOf
<1> QED
  BY <1>5, <1>6 DEF CInv

\* The invariant holds when the coordinator is constructed.
LEMMA InitCInv == Init => CInv
<1> SUFFICES ASSUME Init PROVE CInv
  OBVIOUS
<1>1. IInv
  BY InitIInv
<1>2. Bare
  BY DEF Init, EmptyCase, Bare, NoDraft, NoReview, NoParticipation, NoOutcome
<1>3. NoFacts
  BY NoEvents DEF Init, NoFacts, Derivations, Participated, Retractions, OutcomeEvents
<1>4. Assigned(replayed) = {}
  BY EmptyCaseFacts DEF Init
<1> QED
  BY <1>1, <1>2, <1>3, <1>4, BareInvariant DEF CInv, PackagesAreDistinct

\* Every command handle accepts preserves it.
LEMMA NextCInv == CInv /\ [Next]_vars => CInv'
<1> SUFFICES ASSUME CInv, [Next]_vars PROVE CInv'
  OBVIOUS
<1>1. IInv /\ IInv'
  BY NextIInv DEF CInv
<1>2. CASE UNCHANGED vars
  <2>1. options' = options /\ journal' = journal /\ replayed' = replayed
    BY <1>2 DEF vars
  <2>2. PackagesAreDistinct'
    BY <2>1 DEF CInv, PackagesAreDistinct
  <2>3. AnswersRest'
    <3> SUFFICES ASSUME NEW p \in PackageIds PROVE AnswerRests(p)'
      BY DEF AnswersRest
    <3>1. AnswerRests(p) /\ AnswerEvents(p)' = AnswerEvents(p)
      BY <2>1 DEF CInv, AnswersRest, AnswerEvents, EventsOfType
    <3> QED
      BY <2>1, <3>1 DEF AnswerRests
  <2>4. BriefIsLast' /\ BriefRests'
    BY <2>1 DEF CInv, BriefIsLast, BriefRests, Derivations, AnswersWithdrawn, Unwithdrawn,
                Stale, EventsOfType
  <2>5. ParticipationRests' /\ OutcomeRests'
    BY <2>1 DEF CInv, ParticipationRests, OutcomeRests, Participated, Retractions,
                OutcomeEvents, AnswersWithdrawn, EventsOfType
  <2> QED BY <1>1, <2>2, <2>3, <2>4, <2>5 DEF CInv
<1>3. CASE Next
  <2>1. CASE Opens
    BY <1>1, <2>1, OpensStep
  <2>2. CASE \E e : Takes(e) /\ Handled(e)
    <3>1. PICK e : Takes(e) /\ Handled(e)
      BY <2>2
    <3>2. BriefRests'
      BY <1>1, <3>1, DerivedBriefStep, WithdrawalStep, OtherBriefStep
    <3> QED
      BY <1>1, <3>1, <3>2, PackagesStep, AnswersStep, BriefLastStep, ParticipationStep,
         OutcomeStep DEF CInv
  <2> QED BY <1>1, <1>3, <2>1, <2>2, StepShape
<1> QED
  BY <1>2, <1>3

-----------------------------------------------------------------------------
\* From the invariant to the properties.

\* The invariant makes the brief's currency a matter of the journal's order.
LEMMA BriefCurrencyHolds == CInv => BriefCurrency
<1> SUFFICES ASSUME CInv PROVE BriefCurrency
  OBVIOUS
<1>1. LatestSince("citizen_brief_derived_v1", AnswerWithdrawals)
        <=> replayed.briefEventId # 0 /\ Unwithdrawn
  <2>1. \A i \in AnswersWithdrawn : i \in Nat
    BY EventIds DEF CInv, AnswersWithdrawn
  <2>2. \A i \in Derivations : i \in Nat
    BY EventIds DEF CInv, Derivations
  <2>3. replayed.briefEventId \in Nat
    BY FactIds
  <2> QED
    BY <2>1, <2>2, <2>3 DEF LatestSince, CInv, BriefIsLast, Derivations, AnswersWithdrawn,
                            Unwithdrawn
<1> QED
  BY <1>1, CurrentIsUnwithdrawn DEF BriefCurrency, CInv, BriefRests, BriefIsCurrent

\* The invariant makes the participation's currency a matter of the journal's order.
LEMMA ParticipationCurrencyHolds == CInv => ParticipationCurrency
<1> SUFFICES ASSUME CInv PROVE ParticipationCurrency
  OBVIOUS
<1> DEFINE part == replayed.participation
<1>1. LatestSince("advisory_participation_recorded_v1", Withdrawals)
        <=> part.eventId # 0 /\ \A i \in EventsOfType(Withdrawals) : i < part.eventId
  BY DEF LatestSince, CInv, ParticipationRests, Participated
<1>2. ASSUME part.eventId # 0, \A i \in EventsOfType(Withdrawals) : i < part.eventId
      PROVE  ParticipationIsCurrent(options, replayed)
  <2>1. /\ EventsOfType(Withdrawals) = AnswersWithdrawn \cup Retractions
        /\ \A i \in EventsOfType(Withdrawals) : i \in Nat
        /\ part.eventId \in Nat /\ part.briefEventId \in Nat /\ replayed.briefEventId \in Nat
    BY EventsDiffer, FactIds
  <2>2. ~part.retracted
    BY <1>2, <2>1 DEF CInv, ParticipationRests
  <2>3. part.briefEventId = replayed.briefEventId
    BY <1>2, <2>1 DEF CInv, ParticipationRests
  <2>4. Unwithdrawn
    BY <1>2, <2>1, <2>3 DEF CInv, ParticipationRests, Unwithdrawn
  <2>5. replayed.briefEventId # 0 /\ part.brief = replayed.brief
    BY <1>2, <2>3 DEF CInv, ParticipationRests
  <2>6. BriefIsCurrent(options, replayed)
    BY <2>4, <2>5 DEF CInv, BriefRests
  <2> QED BY <1>2, <2>2, <2>3, <2>5, <2>6 DEF ParticipationIsCurrent
<1> QED
  BY <1>1, <1>2, CurrentParticipation DEF ParticipationCurrency

\* The invariant makes the outcome's currency a matter of the journal's order.
LEMMA OutcomeCurrencyHolds == CInv => OutcomeCurrency
<1> SUFFICES ASSUME CInv PROVE OutcomeCurrency
  OBVIOUS
<1> DEFINE part == replayed.participation
           outcome == replayed.outcome
<1>1. LatestSince("reviewed_outcome_recorded_v1", Withdrawals)
        <=> outcome.eventId # 0 /\ \A i \in EventsOfType(Withdrawals) : i < outcome.eventId
  BY DEF LatestSince, CInv, OutcomeRests, OutcomeEvents
<1>2. /\ part.eventId \in Nat /\ outcome.eventId \in Nat
      /\ \A i \in EventsOfType(Withdrawals) : i \in Nat
  BY EventsDiffer, FactIds
<1>3. ASSUME outcome.eventId # 0, \A i \in EventsOfType(Withdrawals) : i < outcome.eventId
      PROVE  OutcomeIsCurrent(options, replayed)
  <2>1. /\ part.eventId # 0
        /\ outcome.brief = part.brief
        /\ outcome.participation = ParticipationChecksum(part)
        /\ \A i \in EventsOfType(Withdrawals) : i < part.eventId
    BY <1>2, <1>3 DEF CInv, OutcomeRests
  <2>2. LatestSince("advisory_participation_recorded_v1", Withdrawals)
    BY <2>1 DEF LatestSince, CInv, ParticipationRests, Participated
  <2>3. ParticipationIsCurrent(options, replayed)
    BY <2>2, ParticipationCurrencyHolds DEF ParticipationCurrency
  <2> QED BY <1>3, <2>1, <2>3 DEF OutcomeIsCurrent, ParticipationIsCurrent
<1>4. ASSUME OutcomeIsCurrent(options, replayed)
      PROVE  outcome.eventId # 0 /\ \A i \in EventsOfType(Withdrawals) : i < outcome.eventId
  <2>1. outcome.eventId # 0 /\ ParticipationIsCurrent(options, replayed)
    BY <1>4 DEF OutcomeIsCurrent
  <2>2. \A i \in EventsOfType(Withdrawals) : i < part.eventId
    BY <2>1, CurrentParticipation
  <2>3. part.eventId < outcome.eventId
    BY <2>1 DEF CInv, OutcomeRests
  <2> QED BY <1>2, <2>1, <2>2, <2>3
<1> QED
  BY <1>1, <1>3, <1>4 DEF OutcomeCurrency

\* What the public and the council are shown of an answer rests on its events.
LEMMA FourEyesHold == CInv => PublicAnswersFourEyes
<1> SUFFICES ASSUME CInv, NEW visibility \in {"public", "council"},
                    NEW shown \in Project(visibility).departmentPackages
             PROVE  \E d, r \in AnswerEvents(shown.packageId) :
                      /\ \A i \in AnswerEvents(shown.packageId) : i <= d \/ i = r
                      /\ d < r
                      /\ journal[d].eventType \in {"department_draft_recorded_v1",
                                                    "department_draft_corrected_v1"}
                      /\ journal[d].payload.draft = shown.draft
                      /\ journal[r].eventType = "department_review_attested_v1"
                      /\ journal[r].payload.draft = shown.draft
                      /\ journal[r].payload.decision = "accepted"
                      /\ journal[d].actorId # journal[r].actorId
                      /\ ActorDepartment[journal[d].actorId] = ActorDepartment[journal[r].actorId]
                      /\ ActorDepartment[journal[d].actorId]
                           = DepartmentIdOf(replayed, shown.packageId)
  BY DEF PublicAnswersFourEyes
<1>1. PICK p \in Assigned(replayed) :
         shown \in DepartmentPackageProjection(replayed, p, visibility)
  BY DEF Project, BuildProjection, DepartmentPackages
<1>2. /\ shown.packageId = p
      /\ shown.draft = replayed.departments[p].draft.draft
      /\ Accepted(replayed, p)
      /\ HasDraft(replayed, p)
  BY <1>1 DEF DepartmentPackageProjection
<1>3. p \in PackageIds /\ AnswerRests(p)
  BY DEF Assigned, CInv, AnswersRest
<1> DEFINE d == replayed.departments[p].draft.eventId
           r == replayed.departments[p].review.eventId
<1>4. d # 0 /\ r # 0 /\ replayed.departments[p].review.decision = "accepted"
  BY <1>2 DEF Accepted, HasDraft, HasReview
<1>5. d \in AnswerEvents(p) /\ r \in AnswerEvents(p)
  BY <1>3, <1>4 DEF AnswerRests, DraftRests, ReviewRests
<1>6. /\ journal[d].eventType \in {"department_draft_recorded_v1", "department_draft_corrected_v1"}
      /\ journal[d].payload.draft = shown.draft
      /\ \A i \in AnswerEvents(p) : i <= d \/ i = r
  BY <1>2, <1>3, <1>4 DEF AnswerRests, DraftRests
<1>7. /\ d < r
      /\ journal[r].eventType = "department_review_attested_v1"
      /\ journal[r].payload.draft = shown.draft
      /\ journal[r].payload.decision = "accepted"
      /\ journal[r].actorId # journal[d].actorId
  BY <1>2, <1>3, <1>4 DEF AnswerRests, DraftRests, ReviewRests
<1>8. /\ ActorDepartment[journal[d].actorId] = DepartmentIdOf(replayed, p)
      /\ ActorDepartment[journal[r].actorId] = DepartmentIdOf(replayed, p)
  BY <1>3, <1>4 DEF AnswerRests, DraftRests, ReviewRests
<1> HIDE DEF d, r
<1> QED
  BY <1>2, <1>5, <1>6, <1>7, <1>8

\* Sets that correspond one to one have as many elements.
LEMMA OneToOne ==
    ASSUME NEW S, NEW T, IsFiniteSet(S), NEW f \in [S -> T],
           \A x, y \in S : f[x] = f[y] => x = y,
           \A t \in T : \E x \in S : f[x] = t
    PROVE  Cardinality(T) = Cardinality(S)
<1>1. f \in Bijection(S, T)
  BY DEF Bijection, Injection, Surjection, IsInjective
<1>2. ExistsBijection(S, T)
  BY <1>1 DEF ExistsBijection
<1> QED
  BY <1>2, FS_Bijection

\* Under a current brief the answers that stand correspond to the required
\* departments.
LEMMA AnswersOfRequired ==
    ASSUME CInv, BriefIsCurrent(options, replayed)
    PROVE  Cardinality({p \in Assigned(replayed) :
              Accepted(replayed, p) /\ replayed.departments[p].correctionState = "current"})
             = Cardinality(options.requiredDepartmentIds)
<1> DEFINE S == {p \in Assigned(replayed) :
                   Accepted(replayed, p) /\ replayed.departments[p].correctionState = "current"}
           R == options.requiredDepartmentIds
           f == [p \in S |-> DepartmentIdOf(replayed, p)]
<1>1. IsFiniteSet(S)
  BY FS_Subset DEF Assigned
<1>2. R # {} /\ \A d \in R : \E p \in Assigned(replayed) :
                   DepartmentIdOf(replayed, p) = d /\ Reviewed(replayed, p)
  BY DEF BriefIsCurrent, ValidateBriefBindings
<1>3. f \in [S -> R]
  BY <1>2 DEF CInv, PackagesAreDistinct
<1>4. \A x, y \in S : f[x] = f[y] => x = y
  BY DEF CInv, PackagesAreDistinct
<1>5. \A d \in R : \E x \in S : f[x] = d
  BY <1>2 DEF Reviewed
<1> HIDE DEF S, R, f
<1>6. Cardinality(S) = Cardinality(R)
  BY <1>1, <1>3, <1>4, <1>5, OneToOne
<1> QED
  BY <1>6 DEF S, R

\* A current brief has one approved answer of each required department.
LEMMA CouncilCountHolds == CInv => CouncilCountsRequired
<1> SUFFICES ASSUME CInv, Project("council").reviewedCitizenBrief = "current"
             PROVE  Project("council").councilDryRunBrief.count
                      = Cardinality(options.requiredDepartmentIds)
  BY DEF CouncilCountsRequired
<1>1. BriefIsCurrent(options, replayed)
  BY DEF Project, BuildProjection, ReviewedCitizenBrief
<1> QED
  BY <1>1, AnswersOfRequired DEF Project, BuildProjection, CouncilDryRunBrief

\* Under a current brief Mitmachen gets one response of each department.
LEMMA ResponsesOfRequired ==
    ASSUME CInv, BriefIsCurrent(options, replayed)
    PROVE  Cardinality(Responses(replayed)) = RequiredCount
<1> DEFINE S == {p \in Assigned(replayed) :
                   Accepted(replayed, p) /\ replayed.departments[p].correctionState = "current"}
           Response(b) == [departmentId |-> b.package.departmentId, publicSummary |-> b.draft,
                           publicCitations |-> DraftCitations[b.draft]]
           f == [p \in S |-> Response(BindingFor(replayed, p))]
           T == Responses(replayed)
<1>1. Cardinality(S) = RequiredCount
  <2>1. options.requiredDepartmentIds # {}
    BY DEF BriefIsCurrent, ValidateBriefBindings
  <2>2. Cardinality(options.requiredDepartmentIds) = RequiredCount
    BY <2>1 DEF CInv, IInv, TypeOK, ValidOptions
  <2> QED BY <2>2, AnswersOfRequired
<1>2. IsFiniteSet(S)
  BY FS_Subset DEF Assigned
<1>3. T = {Response(b) : b \in replayed.brief.packageBindings}
  BY DEF Responses
<1>4. f \in [S -> T]
  <2>1. ASSUME NEW p \in S
        PROVE  Response(BindingFor(replayed, p)) \in T
    BY <1>3, AnswerIsSource
  <2> HIDE DEF S, T, Response
  <2> QED BY <2>1
<1>5. \A x, y \in S : f[x] = f[y] => x = y
  <2> SUFFICES ASSUME NEW x \in S, NEW y \in S, f[x] = f[y]
               PROVE  x = y
    OBVIOUS
  <2>1. f[x].departmentId = DepartmentIdOf(replayed, x)
    BY DEF BindingFor, DepartmentIdOf
  <2>2. f[y].departmentId = DepartmentIdOf(replayed, y)
    BY DEF BindingFor, DepartmentIdOf
  <2> QED BY <2>1, <2>2 DEF CInv, PackagesAreDistinct
<1>6. \A t \in T : \E x \in S : f[x] = t
  <2> SUFFICES ASSUME NEW t \in T PROVE \E x \in S : f[x] = t
    OBVIOUS
  <2>1. PICK b \in replayed.brief.packageBindings : t = Response(b)
    BY <1>3
  <2>2. Unwithdrawn /\ replayed.briefEventId # 0
    BY CurrentIsUnwithdrawn DEF BriefIsCurrent
  <2>3. b = BindingFor(replayed, b.packageId) /\ b.packageId \in PackageIds
    BY <2>2 DEF CInv, BriefRests
  <2>4. b.packageId \in Assigned(replayed)
    BY <2>3 DEF BriefIsCurrent, HasDraft, Assigned
  <2>5. b.packageId \in S
    BY <2>4, AnswerIsSource DEF Reviewed
  <2> HIDE DEF S, Response
  <2>6. f[b.packageId] = Response(BindingFor(replayed, b.packageId))
    BY <2>5
  <2> QED BY <2>1, <2>3, <2>5, <2>6
<1> HIDE DEF S, T, f
<1>7. Cardinality(T) = Cardinality(S)
  BY <1>2, <1>4, <1>5, <1>6, OneToOne
<1> QED
  BY <1>1, <1>7 DEF T

\* What Mitmachen shows of the brief, the participation and the outcome is of one chain.
LEMMA OneChainHolds == CInv => MitmachenShowsOneChain
<1> SUFFICES ASSUME CInv PROVE MitmachenShowsOneChain
  OBVIOUS
<1> DEFINE Shown(root, adopter) ==
              MapProjection(Envelope(options, journal, replayed, root, adopter))
           standing == LatestSince("advisory_participation_recorded_v1", Withdrawals)
           last == LatestSince("reviewed_outcome_recorded_v1", Withdrawals)
           cited == UNION {DraftCitations[b.draft] : b \in replayed.brief.packageBindings}
           Same(root, adopter) == Adopted(journal, replayed) => adopter = root
<1> SUFFICES ASSUME NEW root \in Pubkeys, NEW adopter \in Pubkeys
             PROVE  /\ Shown(root, adopter) # {} <=>
                         /\ standing /\ replayed.admission # 0
                         /\ Cardinality(cited) >= RequiredCount
                         /\ Same(root, adopter)
                    /\ \A k \in Shown(root, adopter) : k.reviewedOutcome # {} <=> last
  BY DEF MitmachenShowsOneChain
<1> DEFINE o == options
           c == replayed
           envelope == Envelope(options, journal, replayed, root, adopter)
           projection == PublicProjection(options, journal, replayed, root, adopter)
           shown == MapProjection(envelope)
           view == [checksum |-> c.brief, correctionState |-> "current",
                    responses |-> Responses(c)]
           digest == ParticipationChecksum(c.participation)
           Eligible(x) ==
              /\ envelope.caseVersion >= 1
              /\ projection.admitted
              /\ projection.signerPubkey = projection.discussionPubkey
              /\ x[1].correctionState = "current"
              /\ Cardinality(x[1].responses) = RequiredCount
              /\ Cardinality(ReviewedCitations(x[1])) >= RequiredCount
              /\ \A outcome \in projection.outcome : OutcomeIsBound(outcome, x[1], x[2])
           sources == {x \in projection.brief \X projection.participation : Eligible(x)}
           Knowledge(x) ==
              [caseVersion |-> envelope.caseVersion, journalHead |-> envelope.journalHead,
               source |-> projection, citizenBrief |-> x[1].checksum,
               reviewedCitations |-> ReviewedCitations(x[1]),
               participation |-> x[2], reviewedOutcome |-> projection.outcome]
<1>0. shown = {Knowledge(x) : x \in sources}
  <2>1. envelope.projection = projection
    BY DEF Envelope
  <2> HIDE DEF envelope, projection
  <2> QED BY <2>1 DEF MapProjection
<1>1. /\ standing <=> ParticipationIsCurrent(o, c)
      /\ last <=> OutcomeIsCurrent(o, c)
  BY ParticipationCurrencyHolds, OutcomeCurrencyHolds DEF ParticipationCurrency, OutcomeCurrency
<1>2. /\ envelope.caseVersion = Len(journal)
      /\ envelope.projection = projection
      /\ projection.admitted = (c.admission # 0)
      /\ projection.signerPubkey = projection.discussionPubkey <=> Same(root, adopter)
      /\ projection.outcome = IF OutcomeIsCurrent(o, c) THEN {c.outcome} ELSE {}
  BY DEF Envelope, PublicProjection, SignerPubkey
<1>3. projection.participation = IF ParticipationIsCurrent(o, c) THEN {digest} ELSE {}
  BY DEF PublicProjection, ParticipationResult, ParticipationIsCurrent
<1>4. BriefIsCurrent(o, c) => projection.brief = {view}
  BY DEF PublicProjection, ReviewedCitizenBrief, BriefIsCurrent
<1>5. UNION {r.publicCitations : r \in Responses(c)} = cited
  <2> DEFINE Response(b) == [departmentId |-> b.package.departmentId,
                             publicSummary |-> b.draft,
                             publicCitations |-> DraftCitations[b.draft]]
  <2>1. Responses(c) = {Response(b) : b \in replayed.brief.packageBindings}
    BY DEF Responses
  <2>2. \A b : Response(b).publicCitations = DraftCitations[b.draft]
    OBVIOUS
  <2> HIDE DEF Response
  <2>3. {r.publicCitations : r \in Responses(c)}
          = {DraftCitations[b.draft] : b \in replayed.brief.packageBindings}
    BY <2>1, <2>2
  <2> QED BY <2>3
<1>6. ReviewedCitations(view) = cited
  BY <1>5 DEF ReviewedCitations
<1>7. ASSUME ParticipationIsCurrent(o, c)
      PROVE  shown # {} <=>
               c.admission # 0 /\ Cardinality(cited) >= RequiredCount /\ Same(root, adopter)
  <2>1. BriefIsCurrent(o, c)
    BY <1>7 DEF ParticipationIsCurrent
  <2>2. /\ projection.brief = {view} /\ projection.participation = {digest}
        /\ view.correctionState = "current"
        /\ Cardinality(view.responses) = RequiredCount
    BY <1>3, <1>4, <1>7, <2>1, ResponsesOfRequired
  <2>3. envelope.caseVersion >= 1
    <3>1. c.participation.eventId # 0 /\ Participated = {c.participation.eventId}
      BY <1>7 DEF ParticipationIsCurrent, CInv, ParticipationRests
    <3>2. c.participation.eventId \in 1..Len(journal)
      BY <3>1 DEF Participated, EventsOfType
    <3> QED BY <1>2, <3>2, FactIds
  <2>4. \A x \in projection.outcome : OutcomeIsBound(x, view, digest)
    BY <1>2 DEF OutcomeIsBound, OutcomeIsCurrent
  <2>5. /\ <<view, digest>> \in projection.brief \X projection.participation
        /\ \A x \in projection.brief \X projection.participation : x = <<view, digest>>
    <3> HIDE DEF view, digest, projection
    <3> QED BY <2>2
  <2>6. Eligible(<<view, digest>>)
          <=> c.admission # 0 /\ Cardinality(cited) >= RequiredCount /\ Same(root, adopter)
    <3> HIDE DEF view, digest, projection, cited, envelope, Same
    <3> QED BY <1>2, <1>6, <2>2, <2>3, <2>4
  <2> HIDE DEF Eligible, Knowledge, view, digest, projection, cited, shown, Same
  <2> QED BY <1>0, <2>5, <2>6
<1>8. ASSUME ~ParticipationIsCurrent(o, c)
      PROVE  shown = {}
  <2>1. sources = {}
    <3> HIDE DEF Eligible, projection
    <3> QED BY <1>3, <1>8
  <2> HIDE DEF sources, Knowledge, shown
  <2> QED BY <1>0, <2>1
<1>9. \A k \in shown : k.reviewedOutcome = projection.outcome
  <2> HIDE DEF sources, shown, projection, envelope
  <2> QED BY <1>0
<1> HIDE DEF shown, standing, last, cited, projection, Same
<1>10. /\ shown # {} <=> /\ standing /\ replayed.admission # 0
                         /\ Cardinality(cited) >= RequiredCount
                         /\ Same(root, adopter)
       /\ \A k \in shown : k.reviewedOutcome # {} <=> last
  BY <1>1, <1>2, <1>7, <1>8, <1>9
<1> QED
  BY <1>10 DEF shown

-----------------------------------------------------------------------------
\* A brief is current exactly if it was derived after the last withdrawal of
\* any answer (BriefIsCurrent, which compares checksums and event ids).
THEOREM BriefIsCurrentByOrder == Spec => []BriefCurrency
  BY InitCInv, NextCInv, BriefCurrencyHolds, PTL DEF Spec

\* A participation counts exactly if nothing it rests on was withdrawn since
\* it was recorded (ParticipationIsCurrent).
THEOREM ParticipationIsCurrentByOrder == Spec => []ParticipationCurrency
  BY InitCInv, NextCInv, ParticipationCurrencyHolds, PTL DEF Spec

\* An outcome is published exactly if nothing it rests on was withdrawn since
\* it was recorded (OutcomeIsCurrent).
THEOREM OutcomeIsCurrentByOrder == Spec => []OutcomeCurrency
  BY InitCInv, NextCInv, OutcomeCurrencyHolds, PTL DEF Spec

\* Every answer departmentPackageProjection shows to the public or the council
\* was drafted by one actor of the department and accepted by another one.
THEOREM AnswersAreFourEyes == Spec => []PublicAnswersFourEyes
  BY InitCInv, NextCInv, FourEyesHold, PTL DEF Spec

\* The council's dry-run brief counts every required department once.
THEOREM CouncilCountIsExact == Spec => []CouncilCountsRequired
  BY InitCInv, NextCInv, CouncilCountHolds, PTL DEF Spec

\* A step keeps every event, keeps the brief or derives a later one, and keeps
\* the participation and the outcome there are.
LEMMA StepKeeps ==
    ASSUME CInv, [Next]_vars
    PROVE  /\ \A T : EventsOfType(T) \subseteq EventsOfType(T)'
           /\ replayed'.briefEventId = replayed.briefEventId
              \/ replayed'.briefEventId > replayed.briefEventId
           /\ replayed.participation.eventId # 0 =>
                replayed'.participation.eventId = replayed.participation.eventId
           /\ replayed.outcome.eventId # 0 =>
                replayed'.outcome.eventId = replayed.outcome.eventId
<1>0. IInv /\ IInv'
  BY NextIInv DEF CInv
<1>1. CASE UNCHANGED vars
  BY <1>1 DEF vars, EventsOfType
<1>2. CASE Opens
  BY <1>2, NoEvents DEF Opens, SameFacts
<1>3. CASE \E e : Takes(e) /\ Handled(e)
  <2>1. PICK e : Takes(e) /\ Handled(e)
    BY <1>3
  <2>2. \A T : EventsOfType(T) \subseteq EventsOfType(T)'
    <3>1. /\ Len(journal) \in Nat /\ Len(journal') = Len(journal) + 1
          /\ \A i \in 1..Len(journal) : journal'[i] = journal[i]
      BY <1>0, <2>1, TakenJournal
    <3> QED BY <3>1 DEF EventsOfType
  <2>3. replayed'.briefEventId = replayed.briefEventId
        \/ replayed'.briefEventId > replayed.briefEventId
    <3>1. CASE e.eventType = "citizen_brief_derived_v1"
      <4>1. replayed'.briefEventId = Len(journal) + 1
        BY <1>0, <2>1, <3>1, TakenBrief, TakenJournal
      <4> QED BY <4>1, FactIds
    <3>2. CASE e.eventType # "citizen_brief_derived_v1"
      BY <1>0, <2>1, <3>2, BriefFrame
    <3> QED BY <3>1, <3>2
  <2>4. replayed.participation.eventId # 0 =>
          replayed'.participation.eventId = replayed.participation.eventId
    <3>1. CASE e.eventType = "advisory_participation_retracted_v1"
      <4>1. replayed.participation \in ParticipationState
        BY <1>0 DEF IInv, TypeOK, ReplayedCase
      <4> QED BY <1>0, <2>1, <3>1, <4>1, TakenParticipationRetraction DEF ParticipationState
    <3>2. CASE e.eventType # "advisory_participation_retracted_v1"
      BY <1>0, <2>1, <3>2, ParticipationFrame, TakenParticipation
    <3> QED BY <3>1, <3>2
  <2>5. replayed.outcome.eventId # 0 =>
          replayed'.outcome.eventId = replayed.outcome.eventId
    BY <1>0, <2>1, OutcomeFrame, TakenOutcome
  <2> QED BY <2>2, <2>3, <2>4, <2>5
<1> QED
  BY <1>0, <1>1, <1>2, <1>3, StepShape

\* Only a new derivation makes a brief current that was not.
LEMMA NoRevival ==
    ASSUME CInv, [Next]_vars, replayed.briefEventId # 0,
           ~BriefIsCurrent(options, replayed), BriefIsCurrent(options', replayed')
    PROVE  replayed'.briefEventId > replayed.briefEventId
<1>1. CInv' /\ BriefCurrency /\ BriefCurrency'
  BY NextCInv, BriefCurrencyHolds, PTL
<1> SUFFICES ASSUME replayed'.briefEventId = replayed.briefEventId
             PROVE  FALSE
  BY StepKeeps
<1>2. PICK b \in EventsOfType({"citizen_brief_derived_v1"})' :
         \A i \in EventsOfType(AnswerWithdrawals)' : i < b
  BY <1>1 DEF BriefCurrency, LatestSince
<1>3. b <= replayed.briefEventId
  BY <1>1, <1>2 DEF CInv, BriefIsLast, Derivations
<1>4. /\ replayed.briefEventId \in EventsOfType({"citizen_brief_derived_v1"})
      /\ replayed.briefEventId \in Nat
  BY FactIds DEF CInv, BriefIsLast, Derivations
<1>5. b \in Nat
  BY DEF EventsOfType
<1>6. \A i \in EventsOfType(AnswerWithdrawals) : i \in Nat
  BY EventIds DEF CInv
<1>7. \A i \in EventsOfType(AnswerWithdrawals) : i < replayed.briefEventId
  BY <1>2, <1>3, <1>4, <1>5, <1>6, StepKeeps
<1> QED
  BY <1>1, <1>4, <1>7 DEF BriefCurrency, LatestSince

\* A participation or an outcome that is not current does not become current.
LEMMA NoReturn ==
    ASSUME CInv, [Next]_vars
    PROVE  /\ replayed.outcome.eventId # 0 /\ ~OutcomeIsCurrent(options, replayed) =>
                ~OutcomeIsCurrent(options', replayed')
           /\ replayed.participation.eventId # 0
                /\ ~ParticipationIsCurrent(options, replayed) =>
                ~ParticipationIsCurrent(options', replayed')
<1>1. CInv' /\ ParticipationCurrency /\ ParticipationCurrency'
        /\ OutcomeCurrency /\ OutcomeCurrency'
  BY NextCInv, ParticipationCurrencyHolds, OutcomeCurrencyHolds, PTL
<1>2. ASSUME replayed.outcome.eventId # 0, OutcomeIsCurrent(options', replayed')
      PROVE  OutcomeIsCurrent(options, replayed)
  <2>1. replayed'.outcome.eventId = replayed.outcome.eventId
    BY <1>2, StepKeeps
  <2>2. /\ OutcomeEvents = {replayed.outcome.eventId}
        /\ OutcomeEvents' = {replayed.outcome.eventId}
    BY <1>1, <1>2, <2>1 DEF CInv, OutcomeRests
  <2>3. \A i \in EventsOfType(Withdrawals)' : i < replayed.outcome.eventId
    BY <1>1, <1>2, <2>2 DEF OutcomeCurrency, LatestSince, OutcomeEvents
  <2>4. \A i \in EventsOfType(Withdrawals) : i < replayed.outcome.eventId
    BY <2>3, StepKeeps
  <2> QED BY <1>1, <2>2, <2>4 DEF OutcomeCurrency, LatestSince, OutcomeEvents
<1>3. ASSUME replayed.participation.eventId # 0, ParticipationIsCurrent(options', replayed')
      PROVE  ParticipationIsCurrent(options, replayed)
  <2>1. replayed'.participation.eventId = replayed.participation.eventId
    BY <1>3, StepKeeps
  <2>2. /\ Participated = {replayed.participation.eventId}
        /\ Participated' = {replayed.participation.eventId}
    BY <1>1, <1>3, <2>1 DEF CInv, ParticipationRests
  <2>3. \A i \in EventsOfType(Withdrawals)' : i < replayed.participation.eventId
    BY <1>1, <1>3, <2>2 DEF ParticipationCurrency, LatestSince, Participated
  <2>4. \A i \in EventsOfType(Withdrawals) : i < replayed.participation.eventId
    BY <2>3, StepKeeps
  <2> QED BY <1>1, <2>2, <2>4 DEF ParticipationCurrency, LatestSince, Participated
<1> QED
  BY <1>2, <1>3

\* A brief that lost its currency never gets it back: only a later derivation
\* gives the case a current brief again.
THEOREM BriefsNeverRevive == Spec => BriefNeverRevives
<1>1. CInv /\ [Next]_vars =>
        [(replayed.briefEventId # 0 /\ ~BriefIsCurrent(options, replayed)
            /\ BriefIsCurrent(options', replayed'))
           => replayed'.briefEventId > replayed.briefEventId]_vars
  BY NoRevival
<1> QED
  BY <1>1, InitCInv, NextCInv, PTL DEF Spec, BriefNeverRevives

\* A withdrawn outcome or participation stays withdrawn.
THEOREM WithdrawalsAreFinal == Spec => WithdrawnForGood
<1>1. CInv /\ [Next]_vars =>
        [/\ (replayed.outcome.eventId # 0 /\ ~OutcomeIsCurrent(options, replayed))
              => ~OutcomeIsCurrent(options', replayed')
         /\ (replayed.participation.eventId # 0 /\ ~ParticipationIsCurrent(options, replayed))
              => ~ParticipationIsCurrent(options', replayed')]_vars
  BY NoReturn
<1> QED
  BY <1>1, InitCInv, NextCInv, PTL DEF Spec, WithdrawnForGood

\* Mitmachen is up exactly while one unbroken chain of brief and participation
\* stands and whoever adopted the suggestion, if anyone did, also wrote the root,
\* and it shows the outcome exactly while that stands too (mapProjection).
THEOREM MitmachenIsOneChain == Spec => []MitmachenShowsOneChain
  BY InitCInv, NextCInv, OneChainHolds, PTL DEF Spec
=============================================================================
