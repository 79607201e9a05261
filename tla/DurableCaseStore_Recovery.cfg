\* Two processes, each restarted under any release, configuration and evidence,
\* on a volume of its own, a restored copy or the other one's volume.
SPECIFICATION Spec
CONSTANTS
    None = None
    p1 = p1
    p2 = p2
    Processes = {p1, p2}
    Volumes = {"A", "B"}
    Claims <- TwoReleasesClaims
    ClaimVolume <- TwoReleases
    Configs = {"k1", "k2"}
    Deployments <- OneWrongConfig
    Operations = {"o1"}
    MaxAdmissions = 1
SYMMETRY Symmetric
INVARIANTS
    SealCertifies
    HonestCrashStates
    CopiesNeedRecovery
    RetrySucceeds
PROPERTIES
    WrongConfigTouchesNothing
