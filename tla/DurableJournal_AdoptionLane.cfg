\* The adoption lane over the plain SQLite journal store.
SPECIFICATION Spec
CONSTANTS
    NoOptions = NoOptions
    Processes <- MCProcesses
    Options <- MCOptions
    Keys = {"k1", "k2"}
    Contents = {"adopt"}
    Emits <- AdoptionEmits
    EVENT_TYPES <- SqliteEventTypes
    MaxEvents = 4
INVARIANTS
    AcknowledgedIsReadable
