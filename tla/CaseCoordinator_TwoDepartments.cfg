\* Two required departments, journals of up to 11 events.
SPECIFICATION Spec
CONSTANTS
    None = None
    ActorClass <- TwoActorClass
    ActorDepartment <- TwoActorDepartment
    Actors <- TwoActors
    Departments <- TwoDepartments
    PackageIds <- TwoPackageIds
    Drafts = {"x"}
    BriefIds = {"b1"}
    Participations = {"r1"}
    Outcomes = {"o1"}
    RequiredCount = 2
    MaxEvents = 11
    DraftCitations <- Papers
    Pubkeys = {"k1", "k2"}
INVARIANTS
    PublicAnswersFourEyes
    CouncilCountsRequired
CHECK_DEADLOCK FALSE
