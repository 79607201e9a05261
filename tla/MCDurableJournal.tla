--------------------------- MODULE MCDurableJournal ---------------------------
(***************************************************************************)
(* DurableJournal for TLC: two processes with the same options and one     *)
(* restarted with other options.                                           *)
(***************************************************************************)
EXTENDS DurableJournal

MCOptions == [p1 |-> "options", p2 |-> "options", p3 |-> "otherOptions"]
MCProcesses == DOMAIN MCOptions

\* Commands of the discussion lane: intake appends two events.
LaneEmits == [intake |-> <<"case_created_v1", "discussion_recorded_v1">>,
              assign |-> <<"department_package_assigned_v1">>]

\* The citizen adoption lane opens a case with three events.
AdoptionEmits ==
    [adopt |-> <<"case_created_v1", "discussion_recorded_v1", "citizen_adoption_admitted_v1">>]

\* EVENT_TYPES of sqlite-journal-adapter.ts.
SqliteEventTypes ==
    {"case_created_v1", "discussion_recorded_v1", "department_package_assigned_v1",
     "department_draft_recorded_v1", "department_review_attested_v1",
     "citizen_brief_derived_v1", "department_draft_corrected_v1",
     "department_response_retracted_v1", "advisory_participation_recorded_v1",
     "advisory_participation_retracted_v1", "reviewed_outcome_recorded_v1",
     "signed_suggestion_admitted_v1", "signed_topic_suggestion_admitted_v1"}
=============================================================================
