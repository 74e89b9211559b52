SPECIFICATION FairRelaySpec
CONSTANTS
    c1 = c1
    c2 = c2
    Handlers = {c1, c2}
INVARIANTS
    RelayTypeOK
    DrainedBeforeExit
    NothingLeaks
PROPERTY
    RelayEnds
\* The proxy exits.
CHECK_DEADLOCK FALSE
