SPECIFICATION Spec
CONSTANTS
    Workers = {w1, w2, w3}
    None = None
    Faults = {"settings", "create", "logon", "memory", "panic", "exit"}
INVARIANTS
    Handshake
    EveryWorkerWatched
PROPERTY
    ThreadsServed
