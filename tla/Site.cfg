SPECIFICATION Spec
CONSTANTS
    Pages <- MCPages
    Sizes <- MCSizes
    Asks <- MCAsks
    Links <- MCLinks
    Files <- MCFiles
    MaxNow = 5
    MaxEvents = 5
INVARIANTS
    CopyExact
    NoDrift
    CacheClean
    RangesPerRFC
    PreconditionsPerRFC
    LinksLand
\* A single request ends there, and the page may be left alone.
CHECK_DEADLOCK FALSE
