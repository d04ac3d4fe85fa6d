SPECIFICATION FairSpec
CONSTANTS
    ThreadLimit = 1
    StartThreads = 1
    MinSpare = 0
    MaxSpare = 0
    MaxRequests = 1
    MaxBacklog = 3
    Faults = {}
PROPERTIES
    StopHonoured
