\* Start, close, outages and pulls of up to four rows in pages of two.
SPECIFICATION Spec
CONSTANTS
    Listeners <- PublicListeners
    Requests = {"r1"}
    SyntheticCases = {1, 3, 4}
    PageSize = 2
    MaxLimit = 2
    MaxReceipts = 3
    MaxOutbox = 4
    MaxGap = 0
    OutboxesAtStart <- MCOutboxes
INVARIANTS
    ProjectionIsPrefix
    ServingIsHonest
PROPERTIES
    EventuallyPublic
CHECK_DEADLOCK FALSE
