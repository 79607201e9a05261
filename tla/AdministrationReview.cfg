\* One department, two tabs of the steward, replies that get lost.
SPECIFICATION Spec
CONSTANTS
    None = None
    ActorClass <- OneActorClass
    ActorDepartment <- OneActorDepartment
    Actors <- OneActors
    Departments = {"d1"}
    PackageIds = {"p1"}
    Drafts = {"x"}
    BriefIds = {"b1", "b2"}
    Participations = {}
    Outcomes = {}
    RequiredCount = 1
    MaxEvents = 7
    Steward = "steward"
    Reader = "reader"
    Ballot = "ballot"
    Agent <- OneAgent
    Reviewer <- OneReviewer
    Sessions <- FourTabs
    SessionActor <- FourTabActor
    ActiveLimit = 2
    MaxOpen = 2
    MaxLag = 1
    MayExpire = {"tab1"}
INVARIANTS
    PublishedWasPreviewed
    ReceiptsAreTrue
PROPERTIES
    NoBlindAppend
