\* Two concurrent dialers and one broken or refused websocket.
CONSTANTS
    d1 = d1
    d2 = d2
    NoDialer = NoDialer
    MaxFaults = 1
    Dialers = {d1, d2}
SPECIFICATION FairSpec
INVARIANTS
    TypeOK
    OneLiveSession
    RetryIsFresh
PROPERTIES
    DialTerminates
    HandlersEnd
