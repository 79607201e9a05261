\* One required department, journals of up to 14 events.
SPECIFICATION Spec
CONSTANTS
    None = None
    ActorClass <- OneActorClass
    ActorDepartment <- OneActorDepartment
    Actors <- OneActors
    Departments <- OneDepartments
    PackageIds <- OnePackageIds
    Drafts = {"x", "y"}
    BriefIds = {"b1"}
    Participations = {"r1"}
    Outcomes = {"o1"}
    RequiredCount = 1
    MaxEvents = 14
    DraftCitations <- Papers
    Pubkeys = {"k1", "k2"}
INVARIANTS
    TypeOK
    JournalReplayable
    BriefCurrency
    ParticipationCurrency
    OutcomeCurrency
    MitmachenShowsOneChain
PROPERTIES
    BriefNeverRevives
    WithdrawnForGood
CHECK_DEADLOCK FALSE
