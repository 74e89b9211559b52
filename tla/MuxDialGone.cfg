CONSTANTS
    d1 = d1
    d2 = d2
    NoDialer = NoDialer
    MaxFaults = 1
    Dialers = {d1, d2}
SPECIFICATION FairSpec
PROPERTY ClosedOnlyWhenGone
