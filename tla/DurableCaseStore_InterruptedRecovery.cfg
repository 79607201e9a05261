\* The retry of a recovery whose process died with the recovered database open.
SPECIFICATION Spec
CONSTANTS
    None = None
    Processes = {"p1"}
    Volumes = {"A", "B"}
    Claims <- OneReleaseClaims
    ClaimVolume <- OneRelease
    Configs = {"k1"}
    Deployments <- OneConfig
    Operations = {"o1"}
    MaxAdmissions = 1
INVARIANTS
    InterruptedRecoveryResumes
