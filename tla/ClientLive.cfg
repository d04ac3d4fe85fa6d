CONSTANTS
    Unasked = FALSE
    Clients = {c1}
    c1 = c1
    Faults = {"settings", "create", "logon", "accept", "panic", "config"}
SPECIFICATION ClientFairSpec
PROPERTIES ObserverLearns ComesUp GoesDown
