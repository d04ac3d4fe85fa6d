SPECIFICATION Spec
CONSTANTS
    Clients = {c1, c2}
    Servers = {s1, s2, s3}
    None = None
    Values <- MCValues
    Xmls <- MCXmls
    Default <- MCDefault
    Faults = {"process", "memory", "disk", "crash", "direct"}
\* Clients that wait for a process that is dead, and no more processes: all
\* stands still.
CHECK_DEADLOCK FALSE
INVARIANTS
    StartSound
    SettingsSound
PROPERTIES
    ImplementsServerLife
    ReleasedOrDead
