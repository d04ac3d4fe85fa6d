SPECIFICATION Spec
CONSTANTS
    Waps = {a, b, c}
    None = None
    MaxUp = 1
    MaxNews = 3
    Faults = {"error", "start", "lookup", "attach"}
INVARIANTS
    MonitorSound
    LabelAgrees
PROPERTIES
    OnlyFailedStartOrphans
    NetworkFollowed
