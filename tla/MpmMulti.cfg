SPECIFICATION Spec
CONSTANTS
    ThreadLimit = 3
    StartThreads = 3
    MinSpare = 1
    MaxSpare = 1
    MaxRequests = 0
    MaxBacklog = 2
    Faults = {"accept", "listen", "leave", "setup", "create", "resources", "config", "wakeup"}
INVARIANTS
    TokenExclusive NoLostWakeup NoLostToken SlotsSound MpmAlive
    CountsExact RunningIsCurrent CallsKept
