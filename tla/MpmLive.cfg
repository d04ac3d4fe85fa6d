SPECIFICATION FairSpec
CONSTANTS
    ThreadLimit = 2
    StartThreads = 1
    MinSpare = 1
    MaxSpare = 1
    MaxRequests = 1
    MaxBacklog = 1
    Faults = {"accept", "leave", "config", "resources"}
INVARIANTS
    NeverStuck
PROPERTIES
    StopHonoured ImplementsApacheFairly ConnectionsAccepted
