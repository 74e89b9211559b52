CONSTANTS
    a1 = a1
    a2 = a2
    a3 = a3
    None = None
    Attempts = {a1, a2}
    Hosts = {"h1", "h2"}
    Keys = {"k1", "k2"}
    Creds = {"good", "none", "badkey"}
    MaxOverlap = 2
SYMMETRY Symmetry
SPECIFICATION Spec
INVARIANT
    LoopNeverBlocked
