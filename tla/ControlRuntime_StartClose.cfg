\* Three listeners, one request each; start and close called in any order.
SPECIFICATION Spec
CONSTANTS
    Listeners <- ControlListeners
    Order <- ControlOrder
    Requests = {"r1"}
INVARIANTS
    ListeningIsPrefix
    ReleaseAfterListeners
    RecoverySealsOnlyAfterReady
    ReportsAreHonest
PROPERTIES
    PromisesSettle
CHECK_DEADLOCK FALSE
