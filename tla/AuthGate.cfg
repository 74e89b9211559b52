\* Two browsers behind one address; two secrets, so that a restart may change
\* the key; the second failure locks for two instants.
CONSTANTS
    c1 = c1
    c2 = c2
    Clients = {c1, c2}
    IPs = {"a"}
    Secrets = {"k1", "k2"}
    NoSecret = "none"
    MaxFails = 2
    Lockout = 2
    TTL = 2
    Period = 2
    Sleep = 1
    MaxNow = 5
SYMMETRY Symmetry
SPECIFICATION Spec
INVARIANTS
    LockRecord
    GuessBudget
    SessionBacked
PROPERTY
    LockNeverShortened
