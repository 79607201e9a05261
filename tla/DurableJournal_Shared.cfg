\* Three processes, two keys, two kinds of command, journals of up to 4 events.
SPECIFICATION Spec
CONSTANTS
    NoOptions = NoOptions
    Processes <- MCProcesses
    Options <- MCOptions
    Keys = {"k1", "k2"}
    Contents = {"intake", "assign"}
    Emits <- LaneEmits
    EVENT_TYPES <- SqliteEventTypes
    MaxEvents = 4
INVARIANTS
    MemoryIsPrefix
    ExactlyOnce
PROPERTIES
    ImplementsCommandLog
