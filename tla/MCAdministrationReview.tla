------------------------ MODULE MCAdministrationReview ------------------------
(***************************************************************************)
(* AdministrationReview for TLC: one department (the code has 8), the      *)
(* steward in two tabs, and the agent and the reviewer in one each.        *)
(***************************************************************************)
EXTENDS AdministrationReview

OneActorClass == [steward |-> "case_steward", reader |-> "administration",
                  ballot |-> "participation_reviewer",
                  agent1 |-> "department_agent", reviewer1 |-> "department_reviewer"]
OneActorDepartment == [steward |-> None, reader |-> None, ballot |-> None,
                       agent1 |-> "d1", reviewer1 |-> "d1"]
OneActors == DOMAIN OneActorClass
OneAgent == [d1 |-> "agent1"]
OneReviewer == [d1 |-> "reviewer1"]

FourTabs == {"tab1", "tab2", "tab3", "tab4"}
FourTabActor == [tab1 |-> "steward", tab2 |-> "steward", tab3 |-> "agent1", tab4 |-> "reviewer1"]
=============================================================================
