SPECIFICATION FairSpec
CONSTANTS
    k1 = k1
    k2 = k2
    Keys = {k1, k2}
    Empty = Empty
    Garbage = Garbage
    MaxMsgs = 2
INVARIANTS
    StreamIntact
    KeystreamUsedOnce
PROPERTIES
    HandshakeCompletes
    CloseReleases
    ImplementsPipe
\* Both ends may fall silent.
CHECK_DEADLOCK FALSE
