CONSTANTS
    Unasked = TRUE
    Clients = {c1, c2}
    c1 = c1
    c2 = c2
    Faults = {"create", "logon", "accept", "panic", "settings", "config"}
SPECIFICATION Spec
SYMMETRY ClientSymmetry
INVARIANTS PendingIsCurrent NoIdleServer
PROPERTY NoResurrection
