CONSTANTS
    Unasked = FALSE
    Clients = {c1, c2}
    c1 = c1
    c2 = c2
    Faults = {"accept"}
SPECIFICATION ClientSpec
SYMMETRY ClientSymmetry
INVARIANTS NoDoubleStart WatcherInformed CallsPassedOn
