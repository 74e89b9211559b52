\* Three attempts one after the other, or two that overlap.
CONSTANTS
    a1 = a1
    a2 = a2
    a3 = a3
    None = None
    Attempts = {a1, a2, a3}
    Hosts = {"h1", "h2"}
    Keys = {"k1", "k2"}
    Creds = {"good", "badkey"}
    MaxOverlap = 2
SYMMETRY Symmetry
SPECIFICATION Spec
INVARIANTS
    ConsentGiven
    BlocksOnlyIfOverlapped
    OpenConnIsGlobal
    LiveIsOpen
PROPERTY
    TrustChangeIsShown
