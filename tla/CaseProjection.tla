----------------------------- MODULE CaseProjection -----------------------------
(***************************************************************************)
(* buildProjection of src/src/civic-case-coordinator.ts: what the public,  *)
(* the administration and the council are shown of a replayed case.  Text  *)
(* and provenance are left out; what is kept is which parts are shown, and *)
(* in which correction state.                                              *)
(***************************************************************************)
EXTENDS CaseReplay

Visibilities == {"public", "administration", "council"}

\* Mutant: a reviewed answer is shown whatever the review decided.
DepartmentPackageProjectionReviewed(c, p, visibility) ==
    IF visibility # "administration" /\
       (\/ c.departments[p].correctionState # "current"
        \/ ~HasReview(c, p)
        \/ ~HasDraft(c, p))
    THEN {}
    ELSE {[packageId       |-> p,
           draft           |-> c.departments[p].draft.draft,
           reviewState     |-> c.departments[p].review.decision,
           correctionState |-> c.departments[p].correctionState]}

\* departmentPackageProjection returns nothing for an answer that does not
\* stand, except to the administration.
DepartmentPackageProjection(c, p, visibility) ==
    IF visibility # "administration" /\
       (\/ c.departments[p].correctionState # "current"
        \/ ~Accepted(c, p)
        \/ ~HasDraft(c, p))
    THEN {}
    ELSE {[packageId       |-> p,
           draft           |-> c.departments[p].draft.draft,
           reviewState     |-> IF HasReview(c, p) THEN c.departments[p].review.decision
                               ELSE IF HasDraft(c, p) THEN "draft_pending_review"
                               ELSE "assigned",
           correctionState |-> c.departments[p].correctionState]}

DepartmentPackages(c, visibility) ==
    UNION {DepartmentPackageProjection(c, p, visibility) : p \in Assigned(c)}

\* invalidatedBriefProjection empties the brief's summary and responses.
ReviewedCitizenBrief(o, c) ==
    IF c.briefEventId = 0 THEN "absent"
    ELSE IF BriefIsCurrent(o, c) THEN "current"
    ELSE "invalidated"

ParticipationResult(o, c, visibility) ==
    IF c.participation.eventId = 0 THEN "absent"
    ELSE IF ParticipationIsCurrent(o, c) THEN "current"
    ELSE IF visibility # "administration" THEN "absent"
    ELSE IF c.participation.retracted THEN "retracted"
    ELSE "invalidated"

\* The council's dry-run brief: how many department answers it counts, and
\* whether it carries the citizens' signal; count 0 when there is none.
CouncilDryRunBrief(o, c, visibility) ==
    IF visibility = "council" /\ BriefIsCurrent(o, c)
    THEN [count |-> Cardinality({p \in Assigned(c) :
                        Accepted(c, p) /\ c.departments[p].correctionState = "current"}),
          citizenSignal |-> ParticipationIsCurrent(o, c)]
    ELSE [count |-> 0, citizenSignal |-> FALSE]

BuildProjection(o, c, visibility) ==
    [departmentPackages   |-> DepartmentPackages(c, visibility),
     reviewedCitizenBrief |-> ReviewedCitizenBrief(o, c),
     participationResult  |-> ParticipationResult(o, c, visibility),
     reviewedOutcome      |-> OutcomeIsCurrent(o, c),
     councilDryRunBrief   |-> CouncilDryRunBrief(o, c, visibility)]
=============================================================================
