CONSTANTS
    c1 = c1
    c2 = c2
    c3 = c3
    None = None
    Calls = {c1, c2, c3}
    Ports = {"p", "q"}
    Targets = {"t", "u"}
    MaxGen = 2
SYMMETRY Symmetry
SPECIFICATION Spec
INVARIANTS
    TypeOK
    ListenerReachable
PROPERTY
    GateObeyed
