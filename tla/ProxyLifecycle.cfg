\* Two clients, in every mode.
CONSTANTS
    Clients = {c1, c2}
SPECIFICATION FairSpec
CHECK_DEADLOCK FALSE
INVARIANTS
    ClosedLeavesNothing
PROPERTIES
    ConnectionsEnd
    CloseEnds
