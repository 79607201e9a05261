\* Two departments, under each of six workloads.
SPECIFICATION Spec
CONSTANTS
    None = None
    Refused = Refused
    Unusable = Unusable
    AllowedSigners = {"key1"}
    Municipality = "sample-city"
    Case = "sample-case"
    Timestamps = {0, 1}
    WebSocketUrls = {"ws://a", "ws://b"}
    Citations <- AnswerCitations
    Identity <- Identities
    Policy <- Allowed
    SessionProfiles <- SessionNames
    TokenCeiling = 2
    TimeoutCeiling = 1
    Departments = {"d1", "d2"}
    Parts <- IdParts
    Registry <- TwoDepartments
    Answers = {"x", "y", "uncited"}
    Events <- AllEvents
    RelayRefs <- SomeRefs
    Suggestions = {"s1", "s2", "s3"}
    Summaries = {"b1", "b2"}
    Results <- ManyResults
    Calls = {"c1", "c2"}
    Questions <- FourQuestions
    WorkerAnswers <- SomeAnswers
    Workloads <- AllWorkloads
INVARIANTS
    LedgersAgree
    BriefRestsOnReviewed
    IngestIsHonest
    AnswersKeepToTheirQuestion
CHECK_DEADLOCK FALSE
