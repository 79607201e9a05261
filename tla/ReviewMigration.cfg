SPECIFICATION Spec
CONSTANTS
    MaxTime = 3
    Window = 2
    MaxContent = 2
    MaxSealings = 1
    None = None
INVARIANTS
    ServedOnlyWhenComplete
    ExactImportResumes
CHECK_DEADLOCK TRUE
