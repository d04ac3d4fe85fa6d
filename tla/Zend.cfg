SPECIFICATION FairSpec
CONSTANTS
    Limits <- MCLimits
    MaxExecution = 2
    MaxInput = 1
    MaxChanges = 2
    Second = 2
    Word = 16
    Faults = {"create"}
\* The process may exit, and the request's thread may wait for a dead thread.
CHECK_DEADLOCK FALSE
INVARIANTS
    TimerInStep
    LimitWatched
PROPERTIES
    ScriptIsStopped
    CallsReturn
