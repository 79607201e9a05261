--------------------------- MODULE MCCaseCoordinator ---------------------------
(***************************************************************************)
(* CaseCoordinator and PublicKnowledge for TLC.  The registry has one      *)
(* actor of each class that may issue a command and, for each department,  *)
(* an agent and a reviewer.                                                *)
(* The code requires 8 departments; the instances below require 1 or 2.    *)
(***************************************************************************)
EXTENDS PublicKnowledge

\* One department: the whole loop of drafts, corrections, retractions,
\* briefs, participation and outcome, several times over.
OneActorClass == [citizen |-> "citizen", steward |-> "case_steward",
                  ballot |-> "participation_reviewer",
                  agent1 |-> "department_agent", reviewer1 |-> "department_reviewer"]
OneActorDepartment == [citizen |-> None, steward |-> None, ballot |-> None,
                       agent1 |-> "d1", reviewer1 |-> "d1"]
OneActors == DOMAIN OneActorClass
OneDepartments == {"d1"}
OnePackageIds == {"p1"}

Papers == [x |-> {"paper1"}, y |-> {"paper2"}]

\* Two departments, two packages: answers of different departments interleave.
TwoActorClass == [citizen |-> "citizen", steward |-> "case_steward",
                  ballot |-> "participation_reviewer",
                  agent1 |-> "department_agent", reviewer1 |-> "department_reviewer",
                  agent2 |-> "department_agent", reviewer2 |-> "department_reviewer"]
TwoActorDepartment == [citizen |-> None, steward |-> None, ballot |-> None,
                       agent1 |-> "d1", reviewer1 |-> "d1",
                       agent2 |-> "d2", reviewer2 |-> "d2"]
TwoActors == DOMAIN TwoActorClass
TwoDepartments == {"d1", "d2"}
TwoPackageIds == {"p1", "p2"}
=============================================================================
